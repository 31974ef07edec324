----------------------------- MODULE Reassembly -----------------------------
(***************************************************************************)
(* Reassembly of a logical packet from CAN frames, on both sides of the    *)
(* updater: CANUpdateEngine::IncomingCommandData on the device and         *)
(* CANUpdateAPI::IncomingData in the uploader, which were written from one *)
(* text and differ in four places (marked Engine below).                   *)
(*                                                                         *)
(* A packet of n frames is sent as frames 0 .. n-1; frame 0 carries the    *)
(* length and the CRC of the whole.  The bus keeps the order of frames and *)
(* duplicates none, but any frame may be lost.  Packets of one kind have   *)
(* the same frames, and those of two kinds differ in every frame; the CRC  *)
(* accepts exactly the frames of one kind.                                 *)
(***************************************************************************)
EXTENDS Integers, FiniteSets

CONSTANTS
  Kinds,     (* the kinds of packets                                       *)
  Size(_),   (* the number of frames of a packet of a kind                 *)
  MaxSeq,    (* CAN_MAX_SEQUENCE, 256 in the code                          *)
  Engine,    (* TRUE: the device's code, FALSE: the uploader's             *)
  None       (* no packet                                                  *)

ASSUME KindsAssumption  == IsFiniteSet(Kinds) /\ Kinds # {} /\ None \notin Kinds
ASSUME SizeAssumption   == MaxSeq \in Nat \ {0} /\ \A k \in Kinds : Size(k) \in 1 .. MaxSeq
ASSUME EngineAssumption == Engine \in BOOLEAN

Seqs == 0 .. MaxSeq - 1

VARIABLES
  rx,      \* the receiver: m_inputState, m_fillSeqBuffer with the frames, m_seqStored,
           \* m_seqMax, and whether m_timeoutTimer is older than MAX_TIMEOUT
  kind,    \* the kind of the packet sent last
  next,    \* its next frame; Size(kind) when all were sent
  intact,  \* none of its frames was lost
  fresh,   \* its first frame came more than MAX_TIMEOUT after the frame before
  got      \* how often the receiver handled a packet while this one was sent

vars == <<rx, kind, next, intact, fresh, got>>

-----------------------------------------------------------------------------
(* The receiver *)

Empty == [s \in Seqs |-> None]

ResetLogic(r) == [r EXCEPT !.fill = Empty, !.stored = 0, !.max = MaxSeq, !.late = FALSE]

\* The first frame after READY starts a packet.
Begin(r) ==
  IF r.state = "READY" THEN [ResetLogic(r) EXCEPT !.state = "TRANSPORT"] ELSE r

\* Fault: the device, too, goes back to READY.
ExpireToReady(r) == IF r.late THEN [ResetLogic(r) EXCEPT !.state = "READY"] ELSE r

\* Fault: the timer is not looked at.
ExpireNever(r) == r

\* A frame that comes too late starts over.  The uploader's code goes back to
\* READY and then stores the frame.
Expire(r) ==
  IF r.late
  THEN [ResetLogic(r) EXCEPT !.state = IF Engine THEN "TRANSPORT" ELSE "READY"]
  ELSE r

\* Fault: one frame too few is expected, as (len - 1) / 8 would do.
HeaderShort(r, k) ==
  [r EXCEPT !.max = Size(k) - 1, !.stored = IF r.stored < Size(k) THEN r.stored ELSE 0]

\* Fault: a count that is too high is left alone.
HeaderUnadjusted(r, k) == [r EXCEPT !.max = Size(k)]

\* Frame 0 gives the number of frames; a count that is higher comes from frames
\* of another packet.
Header(r, k) ==
  [r EXCEPT !.max = Size(k),
            !.stored = IF r.stored < Size(k) THEN r.stored
                       ELSE IF Engine THEN Size(k) - 1 ELSE 0]

StoreFrame(r, k, s) ==
  LET h == IF s = 0 THEN Header(r, k) ELSE r
  IN [h EXCEPT !.fill[s] = k, !.stored = h.stored + 1]

\* Fault: the CRC is not checked.
CompleteUnchecked(r) == \A s \in 0 .. r.max - 1 : r.fill[s] # None

\* All frames are there and the CRC in frame 0 is theirs.
Complete(r) == r.fill[0] # None /\ \A s \in 0 .. r.max - 1 : r.fill[s] = r.fill[0]

\* The outcome of a frame: the receiver after it, and the packet handled, if any.
Wait(r)      == [rx |-> [r EXCEPT !.late = FALSE], packet |-> None]
Handled(r)   == [rx |-> [IF Engine THEN ResetLogic(r) ELSE r EXCEPT !.state = "READY"],
                 packet |-> r.fill[0]]
Discarded(r) == [rx |-> [r EXCEPT !.state = "READY", !.late = FALSE], packet |-> None]

Stored(r) ==
  IF r.stored # r.max THEN Wait(r)
  ELSE IF Complete(r) THEN Handled(r)
  ELSE Discarded(r)

\* The whole handler, for frame s of a packet of kind k.
IncomingData(r0, k, s) ==
  LET r == Expire(Begin(r0))
      start == ResetLogic(r)
  IN IF s >= r.max
     THEN IF Engine THEN Stored(StoreFrame(start, k, s))  \* after a NACK_GEN
                    ELSE [rx |-> start, packet |-> None]
     ELSE IF r.fill[s] = None THEN Stored(StoreFrame(r, k, s))
     ELSE IF Engine THEN Wait(r)                           \* "Double CAN packet"
                    ELSE [rx |-> r, packet |-> None]

-----------------------------------------------------------------------------
(* The sender and the bus *)

Init ==
  /\ rx = [state |-> "READY", fill |-> Empty, stored |-> 0, max |-> MaxSeq, late |-> FALSE]
  /\ kind \in Kinds /\ next = Size(kind)
  /\ intact = TRUE /\ fresh = FALSE /\ got = 1

\* WriteLogicalCANPacket, once the frames of the packet before are on the bus.
StartPacket ==
  /\ next = Size(kind)
  /\ kind' \in Kinds
  /\ next' = 0 /\ intact' = TRUE /\ fresh' = rx.late /\ got' = 0
  /\ UNCHANGED rx

SendFrame ==
  /\ next < Size(kind)
  /\ LET in == IncomingData(rx, kind, next)
     IN /\ rx' = in.rx
        /\ got' = IF in.packet = None THEN got ELSE got + 1
  /\ next' = next + 1
  /\ UNCHANGED <<kind, intact, fresh>>

LoseFrame ==
  /\ next < Size(kind)
  /\ next' = next + 1 /\ intact' = FALSE
  /\ UNCHANGED <<rx, kind, fresh, got>>

\* More than MAX_TIMEOUT passes between two packets.
Silence ==
  /\ next = Size(kind)
  /\ rx' = [rx EXCEPT !.late = TRUE]
  /\ UNCHANGED <<kind, next, intact, fresh, got>>

Next == StartPacket \/ SendFrame \/ LoseFrame \/ Silence

Spec == Init /\ [][Next]_vars

\* The sender goes on sending, and what it sends is lost or arrives; a sender that
\* again and again has no answer waits, again and again, for the whole timeout of its
\* request, which is never less than MAX_TIMEOUT (updatecanapi.h:66-72).
FairSpec ==
  /\ Spec
  /\ WF_vars(StartPacket) /\ WF_vars(SendFrame \/ LoseFrame)
  /\ SF_vars(got = 0 /\ Silence)

-----------------------------------------------------------------------------
(* Properties *)

TypeOK ==
  /\ rx \in [state : {"READY", "TRANSPORT"}, fill : [Seqs -> Kinds \cup {None}],
             stored : 0 .. MaxSeq, max : 1 .. MaxSeq, late : BOOLEAN]
  /\ kind \in Kinds /\ next \in 0 .. MaxSeq
  /\ intact \in BOOLEAN /\ fresh \in BOOLEAN /\ got \in 0 .. 1

\* Between two frames of a packet fewer are stored than it has.  If m_seqStored came
\* to m_seqMax otherwise than by the last frame, the test for equality (line 342 of the
\* device, 587 of the uploader) would not see the packet complete.
CountBelowMax == rx.state = "TRANSPORT" => rx.stored < rx.max

\* What is handled is the packet that is being sent, never a mixture with frames
\* left over from others, however many frames were lost (lines 342-389 of the
\* device, 587-616 of the uploader).
HandledIsSent ==
  [][got' > got => IncomingData(rx, kind, next).packet = kind]_vars

\* A packet that begins after a silence and loses no frame is handled: what
\* earlier losses left in m_fillSeqBuffer does not harm it.
FreshPacketHandled == next = Size(kind) /\ fresh /\ intact => got = 1

\* If frames are not lost for ever, packets are handled again and again: the
\* uploader's loop that asks for the next chunk after an error recovers.
Recovers == <>[][~LoseFrame]_vars => []<>(got = 1)

=============================================================================
