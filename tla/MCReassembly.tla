---------------------------- MODULE MCReassembly ----------------------------
(* Instances of Reassembly: acknowledgements of one frame, two different ones of
   two frames (as ACK_CHUNK and ACK_UPDATE_STATUS) and one of four, so that the
   leftovers of one packet can outnumber the frames of the next. *)
EXTENDS Reassembly

MCSize(k) ==
  CASE k = "one" -> 1 [] k \in {"two", "pair"} -> 2 [] k = "four" -> 4

=============================================================================
