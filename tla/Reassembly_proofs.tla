--------------------------- MODULE Reassembly_proofs ---------------------------
(* What is proved of Reassembly, for any kinds of packets, any sizes and any      *)
(* MaxSeq: its types, that no packet is ever handled but the one being sent, and, *)
(* of the device's code, that a packet after a silence is handled.                *)
EXTENDS Reassembly, TLAPS

Fills == [Seqs -> Kinds \cup {None}]

Receivers ==
  [state : {"READY", "TRANSPORT"}, fill : Fills,
   stored : 0 .. MaxSeq, max : 1 .. MaxSeq, late : BOOLEAN]

\* The receiver within the handler: m_seqStored never jumps past m_seqMax.
Counting(r) == r \in Receivers /\ r.stored < r.max

\* The receiver between two frames; what a READY one has counted is forgotten.
RInv(r) == r \in Receivers /\ (r.state = "TRANSPORT" => r.stored < r.max)

\* No packet can be handled before the next frame 0.
NoHead(r) == r.state = "READY" \/ r.fill[0] = None

LEMMA Ranges ==
  /\ MaxSeq \in Nat /\ 0 < MaxSeq
  /\ 0 \in 0 .. MaxSeq /\ MaxSeq \in 1 .. MaxSeq /\ 0 \in Seqs
  /\ Empty \in Fills /\ Empty[0] = None /\ None \notin Kinds
  /\ \A k \in Kinds : Size(k) \in 1 .. MaxSeq
  /\ Engine \in BOOLEAN
BY KindsAssumption, SizeAssumption, EngineAssumption DEF Empty, Fills, Seqs

LEMMA ResetCounts ==
  ASSUME NEW r \in Receivers
  PROVE  /\ Counting(ResetLogic(r))
         /\ ResetLogic(r).fill = Empty /\ ResetLogic(r).max = MaxSeq
<1>1. ResetLogic(r) \in Receivers
  BY Ranges DEF Receivers, ResetLogic
<1>2. /\ ResetLogic(r).stored = 0 /\ ResetLogic(r).max = MaxSeq
      /\ ResetLogic(r).fill = Empty
  BY DEF Receivers, ResetLogic
<1> QED BY <1>1, <1>2, Ranges DEF Counting

LEMMA ResetToState ==
  ASSUME NEW r \in Receivers, NEW t \in {"READY", "TRANSPORT"}
  PROVE  LET n == [ResetLogic(r) EXCEPT !.state = t]
         IN /\ Counting(n) /\ n.state = t /\ n.fill = Empty
            /\ n.stored = 0 /\ n.max = MaxSeq /\ n.late = FALSE
<1>1. ResetLogic(r) \in Receivers
  BY ResetCounts DEF Counting
<1>2. ResetLogic(r).fill = Empty /\ ResetLogic(r).stored = 0
      /\ ResetLogic(r).max = MaxSeq /\ ResetLogic(r).late = FALSE
  BY DEF ResetLogic, Receivers
<1> HIDE DEF ResetLogic
<1> QED BY <1>1, <1>2, Ranges DEF Receivers, Counting

LEMMA BeginCounts ==
  ASSUME NEW r0, RInv(r0)
  PROVE  /\ Counting(Expire(Begin(r0)))
         /\ NoHead(r0) => Expire(Begin(r0)).fill[0] = None
<1>1. r0 \in Receivers
  BY DEF RInv
<1>2. Counting(Begin(r0)) /\ (NoHead(r0) => Begin(r0).fill[0] = None)
  <2>1. CASE r0.state = "READY"
    BY <1>1, <2>1, ResetToState, Ranges DEF Begin
  <2>2. CASE r0.state = "TRANSPORT"
    BY <1>1, <2>2 DEF Begin, RInv, Counting, NoHead
  <2> QED BY <1>1, <2>1, <2>2 DEF Receivers
<1>3. ASSUME NEW r, Counting(r), r.late
      PROVE  Counting(Expire(r)) /\ Expire(r).fill[0] = None
  BY <1>3, ResetToState, Ranges DEF Expire, Counting
<1>4. ASSUME NEW r, ~r.late
      PROVE  Expire(r) = r
  BY <1>4 DEF Expire
<1> QED BY <1>2, <1>3, <1>4

LEMMA StoreCounts ==
  ASSUME NEW r, Counting(r), NEW k \in Kinds, NEW s \in Seqs, s < r.max
  PROVE  LET q == StoreFrame(r, k, s)
         IN /\ q \in Receivers /\ q.stored <= q.max
            /\ s < q.max /\ q.fill[s] = k
            /\ s # 0 => q.fill[0] = r.fill[0]
<1> DEFINE h == IF s = 0 THEN Header(r, k) ELSE r
           n == IF r.stored < Size(k) THEN r.stored ELSE IF Engine THEN Size(k) - 1 ELSE 0
<1>0. r \in Receivers /\ r.stored \in 0 .. MaxSeq /\ r.max \in 1 .. MaxSeq
  BY DEF Counting, Receivers
<1>1. h \in Receivers /\ h.stored < h.max /\ s < h.max /\ h.fill = r.fill
  <2>1. CASE s = 0
    <3>1. n \in 0 .. MaxSeq /\ n < Size(k) /\ Size(k) \in 1 .. MaxSeq
      BY <1>0, Ranges
    <3>2. h = [r EXCEPT !.max = Size(k), !.stored = n]
      BY <2>1 DEF Header
    <3> HIDE DEF h, n
    <3>3. h \in Receivers
      BY <1>0, <3>1, <3>2 DEF Receivers
    <3>4. h.max = Size(k) /\ h.stored = n /\ h.fill = r.fill
      BY <1>0, <3>2 DEF Receivers
    <3> QED BY <2>1, <3>1, <3>3, <3>4
  <2>2. CASE s # 0
    BY <1>0, <2>2 DEF Counting
  <2> QED BY <2>1, <2>2
<1>2. StoreFrame(r, k, s) = [h EXCEPT !.fill[s] = k, !.stored = h.stored + 1]
  BY DEF StoreFrame
<1> HIDE DEF h, n
<1>3. /\ h.stored + 1 \in 0 .. MaxSeq /\ h.stored + 1 <= h.max
      /\ [h.fill EXCEPT ![s] = k] \in Fills /\ s \in Seqs /\ 0 \in Seqs
      /\ h.fill \in Fills
  BY <1>1, Ranges DEF Receivers, Fills
<1>4. StoreFrame(r, k, s) \in Receivers
  BY <1>1, <1>2, <1>3 DEF Receivers
<1>5. /\ StoreFrame(r, k, s).stored = h.stored + 1 /\ StoreFrame(r, k, s).max = h.max
      /\ StoreFrame(r, k, s).fill = [h.fill EXCEPT ![s] = k]
  BY <1>1, <1>2 DEF Receivers
<1> QED BY <1>1, <1>3, <1>4, <1>5 DEF Fills

\* What completes a packet is one of its own frames, so that it is that packet.
LEMMA StoredIsSent ==
  ASSUME NEW q \in Receivers, q.stored <= q.max, NEW k \in Kinds,
         NEW s \in Seqs, s < q.max, q.fill[s] = k
  PROVE  /\ RInv(Stored(q).rx)
         /\ Stored(q).packet \in {None, k}
         /\ q.fill[0] = None => Stored(q).packet = None /\ NoHead(Stored(q).rx)
         /\ Stored(q).packet = k => Stored(q).rx.state = "READY"
<1>0. /\ 0 \in Seqs /\ s \in 0 .. q.max - 1 /\ k # None
      /\ q.stored \in 0 .. MaxSeq /\ q.max \in 1 .. MaxSeq
  BY Ranges DEF Receivers, Seqs
<1>1. CASE q.stored # q.max
  <2>1. Stored(q).rx = [q EXCEPT !.late = FALSE] /\ Stored(q).packet = None
    BY <1>1 DEF Stored, Wait
  <2>2. /\ Stored(q).rx \in Receivers /\ Stored(q).rx.fill = q.fill
        /\ Stored(q).rx.stored = q.stored /\ Stored(q).rx.max = q.max
    BY <2>1 DEF Receivers
  <2> QED BY <1>0, <1>1, <2>1, <2>2 DEF RInv, NoHead
<1>2. CASE q.stored = q.max /\ Complete(q)
  <2>1. Stored(q) = Handled(q)
    BY <1>2 DEF Stored
  <2>2. q.fill[0] = k
    BY <1>0, <1>2 DEF Complete
  <2>3. (IF Engine THEN ResetLogic(q) ELSE q) \in Receivers
    BY ResetCounts DEF Counting
  <2>4. Handled(q).rx \in Receivers /\ Handled(q).rx.state = "READY"
    BY <2>3 DEF Handled, Receivers
  <2>5. Handled(q).packet = k
    BY <2>2 DEF Handled
  <2> QED BY <1>0, <2>1, <2>2, <2>4, <2>5 DEF RInv
<1>3. CASE q.stored = q.max /\ ~Complete(q)
  <2>1. Stored(q).rx = [q EXCEPT !.state = "READY", !.late = FALSE]
        /\ Stored(q).packet = None
    BY <1>3 DEF Stored, Discarded
  <2>2. Stored(q).rx \in Receivers /\ Stored(q).rx.state = "READY"
    BY <2>1 DEF Receivers
  <2> QED BY <1>0, <2>1, <2>2 DEF RInv, NoHead
<1> QED BY <1>1, <1>2, <1>3

LEMMA HandlerStep ==
  ASSUME NEW r0, RInv(r0), NEW k \in Kinds, NEW s \in 0 .. Size(k) - 1
  PROVE  LET in == IncomingData(r0, k, s)
         IN /\ RInv(in.rx)
            /\ in.packet \in {None, k}
            /\ in.packet = k => in.rx.state = "READY"
            /\ NoHead(r0) /\ s # 0 => in.packet = None /\ NoHead(in.rx)
<1> DEFINE r == Expire(Begin(r0))
           start == ResetLogic(r)
<1>1. Counting(r) /\ (NoHead(r0) => r.fill[0] = None)
  BY BeginCounts
<1>2. r \in Receivers /\ r.stored \in 0 .. MaxSeq /\ r.max \in 1 .. MaxSeq
  BY <1>1 DEF Counting, Receivers
<1>3. Counting(start) /\ start.fill[0] = None /\ start.max = MaxSeq
  BY <1>2, ResetCounts, Ranges
<1>4. s \in Seqs /\ s < start.max /\ k # None
  BY <1>3, Ranges DEF Seqs
<1>5. IncomingData(r0, k, s) =
        IF s >= r.max
        THEN IF Engine THEN Stored(StoreFrame(start, k, s))
                       ELSE [rx |-> start, packet |-> None]
        ELSE IF r.fill[s] = None THEN Stored(StoreFrame(r, k, s))
        ELSE IF Engine THEN Wait(r)
                       ELSE [rx |-> r, packet |-> None]
  BY DEF IncomingData
<1> HIDE DEF r, start
<1>6. CASE s >= r.max /\ Engine
  BY <1>3, <1>4, <1>5, <1>6, StoreCounts, StoredIsSent
<1>7. CASE s >= r.max /\ ~Engine
  BY <1>3, <1>4, <1>5, <1>7 DEF RInv, NoHead, Counting
<1>8. CASE ~(s >= r.max) /\ r.fill[s] = None
  <2>1. s < r.max
    BY <1>2, <1>8
  <2> QED BY <1>1, <1>4, <1>5, <1>8, <2>1, StoreCounts, StoredIsSent
<1>9. CASE ~(s >= r.max) /\ r.fill[s] # None
  <2>1. IncomingData(r0, k, s).packet = None
        /\ IncomingData(r0, k, s).rx \in {r, [r EXCEPT !.late = FALSE]}
    BY <1>5, <1>9 DEF Wait
  <2>2. ASSUME NEW q \in {r, [r EXCEPT !.late = FALSE]}
        PROVE  q \in Receivers /\ q.stored = r.stored /\ q.max = r.max /\ q.fill = r.fill
    BY <1>2 DEF Receivers
  <2> QED BY <1>1, <1>4, <2>1, <2>2 DEF RInv, NoHead, Counting
<1> QED BY <1>6, <1>7, <1>8, <1>9

-----------------------------------------------------------------------------
(* Types *)

\* A packet is handled once: after it the receiver waits for another frame 0.
IInv ==
  /\ RInv(rx)
  /\ kind \in Kinds /\ next \in 0 .. Size(kind)
  /\ intact \in BOOLEAN /\ fresh \in BOOLEAN /\ got \in 0 .. 1
  /\ got = 1 /\ next < Size(kind) => next > 0 /\ NoHead(rx)

LEMMA IInvInit == Init => IInv
<1> SUFFICES ASSUME Init PROVE IInv
  OBVIOUS
<1>1. rx \in Receivers /\ rx.state = "READY"
  BY Ranges DEF Init, Receivers
<1>2. kind \in Kinds /\ next \in 0 .. Size(kind) /\ ~(next < Size(kind)) /\ got \in 0 .. 1
  BY Ranges DEF Init
<1>3. intact \in BOOLEAN /\ fresh \in BOOLEAN
  BY Zenon DEF Init
<1>4. RInv(rx)
  BY <1>1 DEF RInv
<1> QED BY <1>2, <1>3, <1>4 DEF IInv

LEMMA IInvNext == IInv /\ [Next]_vars => IInv'
<1> SUFFICES ASSUME IInv, [Next]_vars PROVE IInv'
  OBVIOUS
<1>0. rx \in Receivers /\ Size(kind) \in 1 .. MaxSeq /\ MaxSeq \in Nat
  BY Ranges DEF IInv, RInv
<1>1. CASE StartPacket
  <2>1. rx.late \in BOOLEAN
    BY <1>0 DEF Receivers
  <2> QED BY <1>1, <2>1, Ranges DEF StartPacket, IInv
<1>2. CASE SendFrame
  <2> DEFINE in == IncomingData(rx, kind, next)
  <2>1. /\ next < Size(kind) /\ next' = next + 1
        /\ rx' = in.rx /\ got' = IF in.packet = None THEN got ELSE got + 1
        /\ UNCHANGED <<kind, intact, fresh>>
    BY <1>2 DEF SendFrame
  <2>2. next \in 0 .. Size(kind) - 1 /\ kind # None
    BY <1>0, <2>1, Ranges DEF IInv
  <2>3. /\ RInv(in.rx) /\ in.packet \in {None, kind}
        /\ in.packet = kind => in.rx.state = "READY"
        /\ NoHead(rx) /\ next # 0 => in.packet = None /\ NoHead(in.rx)
    BY <2>2, HandlerStep DEF IInv
  <2> HIDE DEF in
  <2> QED BY <1>0, <2>1, <2>2, <2>3 DEF IInv, NoHead
<1>3. CASE LoseFrame
  <2>1. next' \in 0 .. Size(kind') /\ next' > 0
    BY <1>0, <1>3 DEF LoseFrame, IInv
  <2>2. intact' \in BOOLEAN
    BY <1>3 DEF LoseFrame
  <2> QED BY <1>3, <2>1, <2>2 DEF LoseFrame, IInv, NoHead
<1>4. CASE Silence
  <2>1. RInv(rx')
    <3>1. rx' = [rx EXCEPT !.late = TRUE]
      BY <1>4 DEF Silence
    <3>2. /\ rx' \in Receivers /\ rx'.state = rx.state
          /\ rx'.stored = rx.stored /\ rx'.max = rx.max
      BY <1>0, <3>1 DEF Receivers
    <3> QED BY <3>2 DEF IInv, RInv
  <2> QED BY <1>0, <1>4, <2>1 DEF Silence, IInv
<1>5. CASE UNCHANGED vars
  BY <1>5 DEF vars, IInv, RInv, NoHead
<1> QED BY <1>1, <1>2, <1>3, <1>4, <1>5 DEF Next

LEMMA InvariantHolds == Spec => []IInv
BY IInvInit, IInvNext, PTL DEF Spec

\* The counters of the reassembly stay within a packet, for any sizes.
THEOREM TypeCorrect == Spec => []TypeOK
<1>1. IInv => TypeOK
  BY Ranges DEF IInv, RInv, Receivers, Fills, TypeOK
<1> QED BY <1>1, InvariantHolds, PTL

\* m_seqStored stays below m_seqMax between frames, so that the equality test of the
\* two handlers sees every packet whose frames are all there.
THEOREM CountStaysBelowMax == Spec => []CountBelowMax
<1>1. IInv => CountBelowMax
  BY DEF IInv, RInv, CountBelowMax
<1> QED BY <1>1, InvariantHolds, PTL

\* Neither side ever handles anything but the packet being sent (the two handlers'
\* test of the CRC), whatever was lost and whatever the packets' sizes.
THEOREM OnlyWhatIsSentIsHandled == Spec => HandledIsSent
<1>1. IInv /\ [Next]_vars => [got' > got => IncomingData(rx, kind, next).packet = kind]_vars
  <2> SUFFICES ASSUME IInv, Next, got' > got
               PROVE  IncomingData(rx, kind, next).packet = kind
    OBVIOUS
  <2>1. got \in 0 .. 1 /\ next \in 0 .. Size(kind) /\ Size(kind) \in 1 .. MaxSeq
    BY Ranges DEF IInv
  <2>2. SendFrame
    BY <2>1 DEF Next, StartPacket, LoseFrame, Silence
  <2>3. next \in 0 .. Size(kind) - 1 /\ IncomingData(rx, kind, next).packet # None
    BY <2>1, <2>2 DEF SendFrame
  <2> QED BY <2>3, HandlerStep DEF IInv
<1> QED BY <1>1, InvariantHolds, PTL DEF Spec, HandledIsSent

-----------------------------------------------------------------------------
(* A packet after a silence *)

\* The first n frames of a packet of kind k, and nothing else, are in the buffer.
Filled(r, k, n, m) ==
  /\ r.state = "TRANSPORT" /\ ~r.late
  /\ r.fill = [s \in Seqs |-> IF s < n THEN k ELSE None]
  /\ r.stored = n /\ r.max = m

FInv ==
  fresh /\ intact =>
    IF next = Size(kind) THEN got = 1
    ELSE /\ got = 0
         /\ IF next = 0 THEN rx.late ELSE Filled(rx, kind, next, Size(kind))

\* One frame more, the last if there are Size(k) of them now.
LEMMA StoreFills ==
  ASSUME NEW r \in Receivers, NEW k \in Kinds, NEW n \in 0 .. Size(k) - 1,
         Filled(r, k, n, IF n = 0 THEN MaxSeq ELSE Size(k))
  PROVE  /\ StoreFrame(r, k, n) \in Receivers
         /\ Filled(StoreFrame(r, k, n), k, n + 1, Size(k))
<1> DEFINE h == IF n = 0 THEN Header(r, k) ELSE r
           q == StoreFrame(r, k, n)
<1>0. /\ Size(k) \in 1 .. MaxSeq /\ n \in Seqs /\ n + 1 \in 0 .. MaxSeq
      /\ MaxSeq \in Nat /\ r.stored = n
  BY Ranges DEF Seqs, Filled
<1>1. h = IF n = 0 THEN [r EXCEPT !.max = Size(k), !.stored = 0] ELSE r
  <2>1. CASE n = 0
    <3> DEFINE c == IF r.stored < Size(k) THEN r.stored
                    ELSE IF Engine THEN Size(k) - 1 ELSE 0
    <3>1. h = [r EXCEPT !.max = Size(k), !.stored = c]
      BY <2>1 DEF Header
    <3>2. c = 0
      BY <1>0, <2>1
    <3> HIDE DEF c, h
    <3> QED BY <2>1, <3>1, <3>2
  <2>2. CASE n # 0
    BY <2>2
  <2> QED BY <2>1, <2>2
<1>2. q = [h EXCEPT !.fill[n] = k, !.stored = h.stored + 1]
  BY DEF StoreFrame
<1> HIDE DEF h, q
<1>3. h \in Receivers
  BY <1>0, <1>1, Ranges DEF Receivers
<1>4. /\ h.state = "TRANSPORT" /\ ~h.late /\ h.stored = n
      /\ h.max = Size(k) /\ h.fill = r.fill
  BY <1>0, <1>1 DEF Receivers, Filled
<1>5. [h.fill EXCEPT ![n] = k] = [s \in Seqs |-> IF s < n + 1 THEN k ELSE None]
  BY <1>0, <1>4 DEF Filled, Seqs
<1>6. h.stored + 1 = n + 1 /\ [h.fill EXCEPT ![n] = k] \in Fills
  BY <1>0, <1>3, <1>4 DEF Receivers, Fills
<1>7. q \in Receivers
  BY <1>0, <1>2, <1>3, <1>6 DEF Receivers
<1>8. /\ q.state = h.state /\ q.late = h.late /\ q.stored = n + 1 /\ q.max = h.max
      /\ q.fill = [h.fill EXCEPT ![n] = k]
  BY <1>2, <1>3, <1>6 DEF Receivers
<1> QED BY <1>4, <1>5, <1>7, <1>8 DEF Filled, q

LEMMA FInvNext == Engine /\ IInv /\ FInv /\ [Next]_vars => FInv'
<1> SUFFICES ASSUME Engine, IInv, FInv, [Next]_vars PROVE FInv'
  OBVIOUS
<1>0. /\ rx \in Receivers /\ kind \in Kinds /\ kind # None
      /\ Size(kind) \in 1 .. MaxSeq /\ MaxSeq \in Nat /\ next \in 0 .. Size(kind)
  BY Ranges DEF IInv, RInv
<1>1. CASE StartPacket
  BY <1>1, Ranges DEF StartPacket, FInv
<1>2. CASE SendFrame
  <2> DEFINE r == Expire(Begin(rx))
             q == StoreFrame(r, kind, next)
  <2>1. /\ next < Size(kind) /\ next' = next + 1
        /\ rx' = IncomingData(rx, kind, next).rx
        /\ got' = IF IncomingData(rx, kind, next).packet = None THEN got ELSE got + 1
        /\ UNCHANGED <<kind, intact, fresh>>
    BY <1>2 DEF SendFrame
  <2> SUFFICES ASSUME fresh, intact
               PROVE  IF next + 1 = Size(kind) THEN got' = 1
                      ELSE got' = 0 /\ Filled(rx', kind, next + 1, Size(kind))
    BY <1>0, <2>1 DEF FInv
  <2>2. got = 0 /\ next \in 0 .. Size(kind) - 1 /\ next \in Seqs /\ next + 1 # 0
    BY <1>0, <2>1 DEF FInv, Seqs
  <2>3. Filled(r, kind, next, IF next = 0 THEN MaxSeq ELSE Size(kind))
    <3>1. CASE next = 0
      <4>1. [s \in Seqs |-> IF s < 0 THEN kind ELSE None] = Empty
        BY DEF Seqs, Empty
      <4>2. rx.late
        BY <1>0, <2>1, <3>1 DEF FInv
      <4>3. /\ r.state = "TRANSPORT" /\ r.fill = Empty /\ r.stored = 0
            /\ r.max = MaxSeq /\ r.late = FALSE
        <5>1. CASE rx.state = "READY"
          BY <1>0, <5>1, ResetToState DEF Begin, Expire
        <5>2. CASE rx.state # "READY"
          BY <1>0, <4>2, <5>2, ResetToState DEF Begin, Expire
        <5> QED BY <5>1, <5>2
      <4> QED BY <3>1, <4>1, <4>3 DEF Filled
    <3>2. CASE next # 0
      <4>1. Filled(rx, kind, next, Size(kind))
        BY <1>0, <2>1, <3>2 DEF FInv
      <4>2. r = rx
        BY <4>1 DEF Filled, Begin, Expire
      <4> QED BY <3>2, <4>1, <4>2
    <3> QED BY <3>1, <3>2
  <2>4. r \in Receivers
    BY BeginCounts DEF IInv, Counting
  <2>5. q \in Receivers /\ Filled(q, kind, next + 1, Size(kind))
    BY <1>0, <2>2, <2>3, <2>4, StoreFills
  <2>6. r.fill[next] = None /\ ~(next >= r.max)
    BY <1>0, <2>1, <2>2, <2>3 DEF Filled
  <2>7. IncomingData(rx, kind, next) = Stored(q)
    BY <2>6 DEF IncomingData
  <2> HIDE DEF q, r
  <2>8. CASE next + 1 = Size(kind)
    <3>1. q.stored = q.max /\ q.fill[0] = kind
      BY <1>0, <2>5, <2>8, Ranges DEF Filled
    <3>2. \A s \in 0 .. q.max - 1 : q.fill[s] = kind
      BY <1>0, <2>5, <2>8 DEF Filled, Seqs
    <3>3. Stored(q).packet = kind
      BY <1>0, <3>1, <3>2 DEF Complete, Stored, Handled
    <3> QED BY <1>0, <2>1, <2>2, <2>7, <2>8, <3>3
  <2>9. CASE next + 1 # Size(kind)
    <3>1. Stored(q).rx = [q EXCEPT !.late = FALSE] /\ Stored(q).packet = None
      BY <2>5, <2>9 DEF Stored, Wait, Filled
    <3>2. /\ Stored(q).rx.state = q.state /\ ~Stored(q).rx.late
          /\ Stored(q).rx.fill = q.fill /\ Stored(q).rx.stored = q.stored
          /\ Stored(q).rx.max = q.max
      BY <2>5, <3>1 DEF Receivers
    <3>3. Filled(Stored(q).rx, kind, next + 1, Size(kind))
      BY <2>5, <3>2 DEF Filled
    <3> QED BY <2>1, <2>2, <2>7, <2>9, <3>1, <3>3
  <2> QED BY <2>8, <2>9
<1>3. CASE LoseFrame
  BY <1>3 DEF LoseFrame, FInv
<1>4. CASE Silence
  BY <1>0, <1>4 DEF Silence, FInv
<1>5. CASE UNCHANGED vars
  BY <1>5 DEF vars, FInv
<1> QED BY <1>1, <1>2, <1>3, <1>4, <1>5 DEF Next

\* The device's handler (lines 301-315) recovers from whatever was lost before as soon
\* as a packet comes after a silence; the uploader's does not, as a run shows.
THEOREM FreshPacketIsHandled == Engine /\ Spec => []FreshPacketHandled
<1> SUFFICES ASSUME Engine PROVE Spec => []FreshPacketHandled
  OBVIOUS
<1>1. Init => FInv
  BY Ranges DEF Init, FInv
<1>2. FInv => FreshPacketHandled
  BY DEF FInv, FreshPacketHandled
<1>3. IInv /\ FInv /\ [Next]_vars => FInv'
  BY FInvNext
<1> QED BY <1>1, <1>2, <1>3, InvariantHolds, PTL DEF Spec

=============================================================================
