------------------------------- MODULE Upload -------------------------------
(***************************************************************************)
(* What an upload promises, without its packets: the chunks of the file    *)
(* join the image one after the other, none is skipped, repeated or        *)
(* dropped, and the update script gets the whole file or nothing.          *)
(* Losses and restarts of the uploader do not show.  An answer that comes  *)
(* after its timeout does: from then on the image may become anything, and *)
(* even then nothing but the file is installed.                            *)
(***************************************************************************)
EXTENDS Integers

CONSTANT Chunks  \* chunks of the file

VARIABLES
  kept,      \* the image is the first kept chunks of the file, or spoilt
  late,      \* an answer has come late
  installed  \* what the update script was started on

vars == <<kept, late, installed>>

Spoilt == -1

Init == kept = 0 /\ late = FALSE /\ installed = "none"

Store ==
  /\ kept \in 0 .. Chunks - 1 /\ kept' = kept + 1
  /\ UNCHANGED <<late, installed>>

Install ==
  /\ kept = Chunks /\ installed' = "file"
  /\ UNCHANGED <<kept, late>>

Delay ==
  /\ late' = TRUE
  /\ UNCHANGED <<kept, installed>>

Spoil ==
  /\ late /\ kept' \in 0 .. Chunks \cup {Spoilt}
  /\ UNCHANGED <<late, installed>>

Next == Store \/ Install \/ Delay \/ Spoil

Spec == Init /\ [][Next]_vars
=============================================================================
