------------------------------ MODULE Transfer ------------------------------
(***************************************************************************)
(* An upload from end to end: UploadFile (updateapi/updatesample.cpp) over *)
(* CANUpdateAPI (updateapi/updatecanapi.cpp) on one side, CommandHandler   *)
(* of CANUpdateEngine and CANProcessor on the other, and between them a    *)
(* bus that loses logical packets.                                         *)
(*                                                                         *)
(* The uploader has one command in flight and one slot for its answer;     *)
(* when a timeout passes it goes on, and the answer that comes later is    *)
(* taken for the answer to whatever command is in flight then: neither     *)
(* commands nor acknowledgements carry an identifier, and DATA carries no  *)
(* chunk number.  A packet is lost as a whole (Reassembly shows when).     *)
(*                                                                         *)
(* Abstractions.  One version and one file are considered.  The content of *)
(* a chunk is its number.  A chunk is in the image when DATA has been      *)
(* handled: ControlFile shows that the hand-over to the writer thread and  *)
(* its control files keep that promise.  UploadFile is modelled up to the  *)
(* answer to USER_UPDATE; without "-passUpdate" it then polls the status   *)
(* and removes the content.                                                *)
(***************************************************************************)
EXTENDS Integers, Sequences

CONSTANTS
  Chunks,    (* chunks of the file                                         *)
  ShortLast, (* whether the last one is shorter than the others            *)
  MaxErrors, (* err_count may pass this many times, 8 in the code          *)
  MaxLost,   (* bounds the packets the bus or the race of line 46 loses    *)
  MaxLate    (* bounds the timeouts that pass while an answer is on its way*)

ASSUME ChunksAssumption == Chunks \in Nat \ {0}
ASSUME ShortAssumption  == ShortLast \in BOOLEAN
ASSUME BoundsAssumption == MaxErrors \in Nat /\ MaxLost \in Nat /\ MaxLate \in Nat

AllDone  == -1  \* DEFAULT_CHUNK_NO, ALL_CHUNKS_ARE_DONE
Error    == -2  \* CHUNK_NUMBER_ERROR
Hole     == -1  \* content: never written

Chunk == 0 .. Chunks - 1
Place == 0 .. Chunks  \* where DATA may go: WriteFile falls back to m_chunks

\* What UploadFile is doing: one command of the API after the other.  "FIRST_GET"
\* and "GET" both send GET_NUM_WR_CH, before the loop and in its error branch.
Commands == {"GET_VER", "GET_STATUS", "SET_VERSION", "SET_INFO", "FIRST_GET", "GET",
             "WRITE_CH", "DATA", "CHECK_SIGN", "UPDATE"}

Answers ==
  [ack : {"OK", "EXISTS", "NACK", "VERSION", "STATUS"}]
    \cup [ack : {"CHUNK"}, chunk : Chunk \cup {AllDone}]
    \cup [ack : {"SUM"}, same : BOOLEAN]
    \cup [ack : {"TIMEOUT"}]

Requests == [cmd : Commands, chunk : Chunk \cup {Error, AllDone}]

Answer(a)   == [ack |-> a]
NextIs(n)   == [ack |-> "CHUNK", chunk |-> n]
SumIs(same) == [ack |-> "SUM", same |-> same]
NoAnswer    == Answer("TIMEOUT")

VARIABLES
  (* the uploader *)
  pc,       \* the command being executed, "idle" before a start, "done"
  phase,    \* "send", "sent" or, within WaitForAck, "wait"
  slot,     \* m_arrAck[m_commandInFly] with m_intBuffer or m_sha256Buffer
  next,     \* next_chunk
  errs,     \* err_count
  (* the bus *)
  req, ack, \* packets on their way, oldest first
  lost,     \* packets lost so far
  late,     \* timeouts so far that passed an answer by
  (* the device *)
  version,  \* m_Version is set
  info,     \* SET_INFO was accepted: m_chunks is set
  image,    \* update.swu
  last,     \* m_lastSuccessfulChunk
  failed,   \* m_PD.mErr: the writer refused a chunk
  before,   \* m_PD.last_succ_chunk_before of that chunk
  busy,     \* m_state is not READY: the update script runs
  installed \* what the script was started on: "none", "file" or "other"

uploader == <<pc, phase, slot, next, errs>>
bus      == <<req, ack, lost, late>>
device   == <<version, info, image, last, failed, before, busy, installed>>
vars     == <<uploader, bus, device>>

-----------------------------------------------------------------------------
(* The device *)

\* ControlFile::NextChunk.
NextChunk == IF last + 1 >= Chunks THEN AllDone ELSE last + 1

\* The answer to GET_NUM_WR_CH and to DATA; before SET_INFO m_chunks is 0.
Missing == NextIs(IF info THEN NextChunk ELSE AllDone)

Size(c) == IF ShortLast /\ c = Chunks - 1 THEN "short" ELSE "full"

\* Fault: the size is compared with that of a full chunk.
FitsFull(c) == info /\ Size(c) = "full"

\* CheckChunkSize: when no chunk is missing a full one is expected.
Fits(c) == info /\ Size(c) = IF NextChunk + 1 >= Chunks THEN Size(Chunks - 1) ELSE "full"

ImageExists == \E p \in Chunk : image[p] # Hole
ImageIsFile == image = [p \in Chunk |-> p]

Handles(cmd) == req # <<>> /\ Head(req).cmd = cmd
Acknowledge(a) == /\ req' = Tail(req) /\ ack' = Append(ack, a)
                  /\ UNCHANGED <<lost, late, uploader>>

\* USER_GET_VER, and the GET_UPD_STATUS that follows it.
HandleGetVersion ==
  /\ Handles("GET_VER")
  /\ Acknowledge(Answer(IF version THEN "VERSION" ELSE "NACK"))
  /\ UNCHANGED device

HandleGetStatus ==
  /\ Handles("GET_STATUS")
  /\ Acknowledge(Answer("STATUS"))
  /\ UNCHANGED device

\* Fault: a version that is not complete is taken for a new one.
HandleSetVersionNew ==
  /\ Handles("SET_VERSION")
  /\ Acknowledge(Answer(IF busy THEN "NACK" ELSE IF info /\ NextChunk = AllDone THEN "EXISTS" ELSE "OK"))
  /\ version' = (version \/ ~busy)
  /\ UNCHANGED <<info, image, last, failed, before, busy, installed>>

\* SET_VERSION: EXISTS if a control file and an image can be loaded.
HandleSetVersion ==
  /\ Handles("SET_VERSION")
  /\ Acknowledge(Answer(IF busy THEN "NACK" ELSE IF info /\ ImageExists THEN "EXISTS" ELSE "OK"))
  /\ version' = (version \/ ~busy)
  /\ UNCHANGED <<info, image, last, failed, before, busy, installed>>

\* SET_INFO starts the upload over; the image file and m_PD are left as they are.
HandleSetInfo ==
  /\ Handles("SET_INFO")
  /\ Acknowledge(Answer(IF busy THEN "NACK" ELSE "OK"))
  /\ info' = (info \/ ~busy)
  /\ last' = IF busy THEN last ELSE AllDone
  /\ UNCHANGED <<version, image, failed, before, busy, installed>>

HandleGetNextChunk ==
  /\ Handles("GET")
  /\ Acknowledge(IF busy THEN Answer("NACK") ELSE Missing)
  /\ UNCHANGED device

HandleWriteChunk ==
  /\ Handles("WRITE_CH")
  /\ Acknowledge(Answer(IF Fits(Head(req).chunk) THEN "OK" ELSE "NACK"))
  /\ UNCHANGED device

\* DATA goes where the device's own count says, and no state is tested.
DataStored ==
  /\ ~failed /\ NextChunk # AllDone
  /\ image' = [image EXCEPT ![NextChunk] = Head(req).chunk]
  /\ last' = NextChunk
  /\ UNCHANGED <<failed, before>>

\* One that comes when no chunk is missing is handed to the writer as chunk m_chunks, which
\* _WriteFile refuses at once.
DataRefused ==
  /\ ~failed /\ NextChunk = AllDone
  /\ last' = Chunks
  /\ failed' = TRUE /\ before' = last
  /\ UNCHANGED image

\* From then on every DATA is dropped and the header steps back: only the writer clears the
\* error, and it is given nothing more to write.  (The control files keep what they said:
\* that a later SET_VERSION may read another count from them is not followed here.)
DataDropped ==
  /\ failed
  /\ last' = before
  /\ UNCHANGED <<image, failed, before>>

HandleData ==
  /\ Handles("DATA") /\ info
  /\ DataStored \/ DataRefused \/ DataDropped
  /\ Acknowledge(NextIs(NextChunk'))
  /\ UNCHANGED <<version, info, busy, installed>>

\* CHECK_SIGN hashes the whole image file.
HandleCheckSign ==
  /\ Handles("CHECK_SIGN")
  /\ Acknowledge(IF ImageExists THEN SumIs(ImageIsFile) ELSE Answer("NACK"))
  /\ UNCHANGED device

HandleUpdate ==
  /\ Handles("UPDATE")
  /\ Acknowledge(Answer(IF busy THEN "NACK" ELSE "OK"))
  /\ busy' = TRUE
  /\ installed' = IF busy THEN installed ELSE IF ImageIsFile THEN "file" ELSE "other"
  /\ UNCHANGED <<version, info, image, last, failed, before>>

\* RunUpdate's thread sets m_state back.
ScriptEnds ==
  /\ busy
  /\ busy' = FALSE
  /\ UNCHANGED <<uploader, bus, version, info, image, last, failed, before, installed>>

Handle ==
  \/ HandleGetVersion \/ HandleGetStatus \/ HandleSetVersion \/ HandleSetInfo
  \/ HandleGetNextChunk \/ HandleWriteChunk \/ HandleData
  \/ HandleCheckSign \/ HandleUpdate

-----------------------------------------------------------------------------
(* The bus *)

\* A request of which a frame is lost is dropped, or answered with CAN_NACK_GEN
\* when it breaks the reassembly.
LoseRequest ==
  /\ req # <<>> /\ lost < MaxLost
  /\ req' = Tail(req) /\ lost' = lost + 1
  /\ ack' \in {ack, Append(ack, Answer("NACK"))}
  /\ UNCHANGED <<late, uploader, device>>

LoseAck ==
  /\ ack # <<>> /\ lost < MaxLost
  /\ ack' = Tail(ack) /\ lost' = lost + 1
  /\ UNCHANGED <<req, late, uploader, device>>

\* The answer to the command just sent, when it comes before WaitForAck clears the
\* slot: it is erased there.  Sending takes milliseconds less than answering, so
\* this counts as a loss.
TooEarly == phase = "sent" /\ req = <<>> /\ Len(ack) = 1

\* CANUpdateAPI::AckHandler, on the thread that reads the bus.  What it stores
\* when nobody waits is erased before the next wait.
AckHandler ==
  /\ ack # <<>>
  /\ slot' = IF phase = "wait" THEN Head(ack) ELSE slot
  /\ ack' = Tail(ack)
  /\ IF TooEarly THEN lost < MaxLost /\ lost' = lost + 1 ELSE lost' = lost
  /\ UNCHANGED <<pc, phase, next, errs, req, late, device>>

-----------------------------------------------------------------------------
(* The uploader *)

\* The packet of a command.
Packet(cmd) == [cmd   |-> IF cmd = "FIRST_GET" THEN "GET" ELSE cmd,
                chunk |-> IF cmd \in {"WRITE_CH", "DATA"} THEN next ELSE Error]

Send ==
  /\ phase = "send" /\ pc \in Commands
  /\ req' = Append(req, Packet(pc))
  /\ phase' = "sent"
  /\ UNCHANGED <<pc, slot, next, errs, ack, lost, late, device>>

\* WaitForAck clears the slot after the command was sent.
WaitForAck ==
  /\ phase = "sent"
  /\ slot' = NoAnswer
  /\ phase' = "wait"
  /\ UNCHANGED <<pc, next, errs, bus, device>>

\* The device is at a command that may take longer than a timeout of the uploader
\* (1 s for GET_NUM_WR_CH, 3 s for SET_VERSION, 30 s for CHECK_SIGN): WriteFile waits
\* for its writer without limit, CHECK_SIGN hashes the image, SET_VERSION up to three
\* times, and SET_INFO writes and syncs a control file.
Stalled == req # <<>> /\ Head(req).cmd \in {"DATA", "CHECK_SIGN", "SET_VERSION", "SET_INFO"}

\* WaitForAck returns what is in the slot, or the timeout passes: because no
\* answer is on its way, or because the device is stalled.
Waited(a) ==
  /\ phase = "wait" /\ a = slot
  /\ \/ a # NoAnswer /\ late' = late
     \/ a = NoAnswer /\ req = <<>> /\ ack = <<>> /\ late' = late
     \/ a = NoAnswer /\ Stalled /\ late < MaxLate /\ late' = late + 1

\* The API call returns or goes on with its next command.
Go(cmd) == /\ pc' = cmd /\ phase' = "send" /\ slot' = NoAnswer
           /\ UNCHANGED <<req, ack, lost, device>>

\* UploadFile is started, again if it gave up.
Start ==
  /\ pc = "idle"
  /\ Go("GET_VER") /\ next' = Error /\ errs' = 0
  /\ UNCHANGED late

\* GetCurrentVersion: the version is asked first, the status only if it is known;
\* UploadFile goes on whatever it returns.
VersionAsked ==
  /\ pc = "GET_VER" /\ UNCHANGED <<next, errs>>
  /\ \E a \in Answers : Waited(a) /\ Go(IF a.ack = "VERSION" THEN "GET_STATUS" ELSE "SET_VERSION")

StatusAsked ==
  /\ pc = "GET_STATUS" /\ UNCHANGED <<next, errs>>
  /\ \E a \in Answers : Waited(a) /\ Go("SET_VERSION")

\* InitTransfer.  Giving up, return -3, is "idle".
VersionSet ==
  /\ pc = "SET_VERSION" /\ UNCHANGED <<next, errs>>
  /\ \E a \in Answers :
       /\ Waited(a)
       /\ Go(CASE a.ack = "EXISTS" -> "FIRST_GET" [] a.ack = "OK" -> "SET_INFO" [] OTHER -> "idle")

InfoSet ==
  /\ pc = "SET_INFO" /\ UNCHANGED <<next, errs>>
  /\ \E a \in Answers : Waited(a) /\ Go(IF a.ack = "OK" THEN "FIRST_GET" ELSE "idle")

\* GetNextChunk and PushChunk return the number that came with CAN_ACK_CHUNK.
Returned(a) == IF a.ack = "CHUNK" THEN a.chunk ELSE Error

\* The top of UploadFile's loop: ask again, leave it, or push a chunk.
Loop(n) == Go(CASE n = Error -> "GET" [] n = AllDone -> "CHECK_SIGN" [] OTHER -> "WRITE_CH")

FirstChunkAsked ==
  /\ pc = "FIRST_GET"
  /\ \E a \in Answers : Waited(a) /\ next' = Returned(a) /\ Loop(next')
  /\ UNCHANGED errs

\* Fault: the uploader counts errors but never gives up.
ChunkAskedForever ==
  /\ pc = "GET"
  /\ \E a \in Answers :
       /\ Waited(a)
       /\ next' = Returned(a)
       /\ errs' = IF next' > 0 THEN 0 ELSE errs + 1
       /\ Loop(next')

\* The error branch: only a chunk number above 0 sets err_count back; at the
\* bound the uploader gives up, return -6.
ChunkAsked ==
  /\ pc = "GET"
  /\ \E a \in Answers :
       /\ Waited(a)
       /\ next' = Returned(a)
       /\ IF next' > 0 THEN errs' = 0 /\ Loop(next')
          ELSE IF errs > MaxErrors THEN errs' = 0 /\ Go("idle")
          ELSE errs' = errs + 1 /\ Loop(next')

\* PushChunk announces the size of the chunk, then sends it.
ChunkAnnounced ==
  /\ pc = "WRITE_CH" /\ UNCHANGED errs
  /\ \E a \in Answers :
       /\ Waited(a)
       /\ IF a.ack = "OK" THEN next' = next /\ Go("DATA") ELSE next' = Error /\ Go("GET")

\* Fault: an answer that did not come is taken for the next number in turn.
ChunkPushedBlindly ==
  /\ pc = "DATA" /\ UNCHANGED errs
  /\ \E a \in Answers :
       /\ Waited(a)
       /\ next' = IF a = NoAnswer THEN IF next + 1 >= Chunks THEN AllDone ELSE next + 1 ELSE Returned(a)
       /\ Loop(next')

ChunkPushed ==
  /\ pc = "DATA" /\ UNCHANGED errs
  /\ \E a \in Answers : Waited(a) /\ next' = Returned(a) /\ Loop(next')

\* Fault: VerifyContent's sum is not compared with that of the file.
ContentVerifiedAnyhow ==
  /\ pc = "CHECK_SIGN" /\ UNCHANGED <<next, errs>>
  /\ \E a \in Answers : Waited(a) /\ Go(IF a.ack = "SUM" THEN "UPDATE" ELSE "idle")

\* VerifyContent and the comparison with the sum of the file; otherwise return -4.
ContentVerified ==
  /\ pc = "CHECK_SIGN" /\ UNCHANGED <<next, errs>>
  /\ \E a \in Answers :
       Waited(a) /\ Go(IF a.ack = "SUM" /\ a.same THEN "UPDATE" ELSE "idle")

UpdateAsked ==
  /\ pc = "UPDATE" /\ UNCHANGED <<next, errs>>
  /\ \E a \in Answers : Waited(a) /\ Go(IF a.ack = "OK" THEN "done" ELSE "idle")

Upload ==
  \/ Send \/ WaitForAck
  \/ VersionAsked \/ StatusAsked \/ VersionSet \/ InfoSet \/ FirstChunkAsked \/ ChunkAsked
  \/ ChunkAnnounced \/ ChunkPushed \/ ContentVerified \/ UpdateAsked

-----------------------------------------------------------------------------
(* The specification *)

Init ==
  /\ pc = "idle" /\ phase = "send" /\ slot = NoAnswer /\ next = Error /\ errs = 0
  /\ req = <<>> /\ ack = <<>> /\ lost = 0 /\ late = 0
  /\ version = FALSE /\ info = FALSE /\ image = [p \in Chunk |-> Hole] /\ last = AllDone
  /\ failed = FALSE /\ before = AllDone
  /\ busy = FALSE /\ installed = "none"

Next == Start \/ Upload \/ AckHandler \/ LoseRequest \/ LoseAck \/ Handle \/ ScriptEnds

Spec == Init /\ [][Next]_vars

\* Every thread is scheduled, the script ends, and an uploader that gave up is
\* started again.
FairSpec ==
  /\ Spec
  /\ WF_vars(Start) /\ WF_vars(Upload) /\ WF_vars(AckHandler) /\ WF_vars(Handle)
  /\ WF_vars(ScriptEnds)

-----------------------------------------------------------------------------
(* Properties *)

\* Every variable stays in its type.
TypeOK ==
  /\ pc \in Commands \cup {"idle", "done"} /\ phase \in {"send", "sent", "wait"}
  /\ slot \in Answers
  /\ next \in Chunk \cup {AllDone, Error} /\ errs \in 0 .. MaxErrors + 1
  /\ req \in Seq(Requests) /\ ack \in Seq(Answers)
  /\ lost \in 0 .. MaxLost /\ late \in 0 .. MaxLate
  /\ version \in BOOLEAN /\ info \in BOOLEAN /\ busy \in BOOLEAN
  /\ image \in [Chunk -> Chunk \cup {Hole}]
  /\ last \in Place \cup {AllDone} /\ before \in Place \cup {AllDone} /\ failed \in BOOLEAN
  /\ installed \in {"none", "file", "other"}

\* The update script is never started on anything but the file: the comparison of
\* the sums is the last defence, although a sum says what the image was when it was
\* taken, and a late one may be taken for that of a later image.
OnlyTheFileIsInstalled == installed # "other"

\* Every chunk in the image is at its own place.
InPlace == \A c \in Chunk : image[c] \in {Hole, c}

\* As long as no timeout passes an answer by, lost packets misplace nothing, and no DATA
\* comes when no chunk is missing: it would write a sum past the end of m_sums and stop
\* the upload for good.
LossMisplacesNothing == late = 0 => InPlace /\ ~failed

\* The device has the first n chunks of the file and nothing else, and knows it;
\* after late answers it may have the file without knowing.
Has(n) == last = n - 1 /\ image = [p \in Chunk |-> IF p < n THEN p ELSE Hole]
Kept == IF ImageIsFile THEN Chunks ELSE IF Has(last + 1) THEN last + 1 ELSE -1

Promise == INSTANCE Upload WITH kept <- Kept, late <- late > 0

\* An upload keeps its promise: losses, retries and uploaders started again neither
\* skip, repeat nor drop a chunk, and nothing but the whole file is installed.
KeepsPromise == Promise!Spec

\* When losses end, the file is installed, however often the uploader gave up.
UploadSucceeds == [](late = 0) => <>(pc = "done")

\* PushChunk is documented to send chunk _chunk and to return the "next chunk
\* number or CHUNK_NUMBER_ERROR" (updatecanapi.cpp:234-238).
ChunksInPlace == InPlace

=============================================================================
