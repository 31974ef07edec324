--------------------------- MODULE Transfer_proofs ---------------------------
(* What is proved of Transfer, for any number of chunks and any bounds: its types, *)
(* that lost packets misplace no chunk, that nothing but the file is installed     *)
(* while few answers are late, and that an upload keeps its promise.               *)
EXTENDS Transfer, SequenceTheorems, TLAPS

\* TypeOK is not inductive as it stands: a DATA without a chunk would spoil the image.
Sent == {r \in Requests : r.cmd = "DATA" => r.chunk \in Chunk}

UploaderTyped ==
  /\ pc \in Commands \cup {"idle", "done"} /\ phase \in {"send", "sent", "wait"}
  /\ slot \in Answers
  /\ next \in Chunk \cup {AllDone, Error} /\ errs \in 0 .. MaxErrors + 1
  /\ pc \in {"WRITE_CH", "DATA"} => next \in Chunk

BusTyped ==
  /\ req \in Seq(Sent) /\ ack \in Seq(Answers)
  /\ lost \in 0 .. MaxLost /\ late \in 0 .. MaxLate

DeviceTyped ==
  /\ version \in BOOLEAN /\ info \in BOOLEAN /\ busy \in BOOLEAN
  /\ image \in [Chunk -> Chunk \cup {Hole}]
  /\ last \in Place \cup {AllDone} /\ before \in Place \cup {AllDone} /\ failed \in BOOLEAN
  /\ installed \in {"none", "file", "other"}

TypeInv == UploaderTyped /\ BusTyped /\ DeviceTyped

LEMMA TypeInvImpliesTypeOK == TypeInv => TypeOK
<1> SUFFICES ASSUME TypeInv PROVE TypeOK
  OBVIOUS
<1>1. req \in Seq(Requests)
  <2>1. Sent \subseteq Requests /\ req \in Seq(Sent)
    BY DEF TypeInv, BusTyped, Sent
  <2>2. req \in [1 .. Len(req) -> Sent] /\ Len(req) \in Nat
    BY <2>1, LenProperties
  <2> QED BY <2>1, <2>2
<1> QED BY <1>1 DEF TypeInv, UploaderTyped, BusTyped, DeviceTyped, TypeOK

-----------------------------------------------------------------------------
(* Answers and requests *)

LEMMA AnswerTypes ==
  /\ \A a \in {"OK", "EXISTS", "NACK", "VERSION", "STATUS", "TIMEOUT"} : Answer(a) \in Answers
  /\ \A n \in Chunk \cup {AllDone} : NextIs(n) \in Answers
  /\ \A b \in BOOLEAN : SumIs(b) \in Answers
BY DEF Answer, NextIs, SumIs, Answers

LEMMA NextChunkType ==
  ASSUME DeviceTyped PROVE NextChunk \in Chunk \cup {AllDone}
BY ChunksAssumption DEF DeviceTyped, NextChunk, Chunk, Place, AllDone

\* A chunk is stored while one is missing; otherwise the image is left alone.
LEMMA DataTyped ==
  ASSUME TypeInv, HandleData
  PROVE  DeviceTyped' /\ NextIs(NextChunk') \in Answers /\ late' = late /\ req # <<>>
         /\ Head(req).cmd = "DATA" /\ installed' = installed
<1>a. DeviceTyped /\ NextChunk \in Chunk \cup {AllDone} /\ Chunks \in Place /\ Chunk \subseteq Place
  BY NextChunkType, ChunksAssumption DEF TypeInv, Place, Chunk
<1>b. /\ req # <<>> /\ Head(req).cmd = "DATA" /\ UNCHANGED <<version, info, busy, installed>>
      /\ late' = late
  BY DEF HandleData, Handles, Acknowledge
<1>c. Head(req).chunk \in Chunk
  <2>1. req \in Seq(Sent)
    BY DEF TypeInv, BusTyped
  <2>2. Head(req) \in Sent
    BY <1>b, <2>1, HeadTailProperties
  <2> QED BY <1>b, <2>2 DEF Sent
<1>1. DeviceTyped'
  <2>1. CASE DataStored
    <3>1. NextChunk \in Chunk /\ last' = NextChunk /\ UNCHANGED <<failed, before>>
          /\ image' = [image EXCEPT ![NextChunk] = Head(req).chunk]
      BY <1>a, <2>1 DEF DataStored
    <3>2. image' \in [Chunk -> Chunk \cup {Hole}]
      BY <1>a, <1>c, <3>1 DEF DeviceTyped
    <3> QED BY <1>a, <1>b, <3>1, <3>2 DEF DeviceTyped
  <2>2. CASE DataRefused
    BY <1>a, <1>b, <2>2 DEF DataRefused, DeviceTyped
  <2>3. CASE DataDropped
    BY <1>a, <1>b, <2>3 DEF DataDropped, DeviceTyped
  <2> QED BY <2>1, <2>2, <2>3 DEF HandleData
<1>2. NextIs(NextChunk') \in Answers
  <2>1. (DeviceTyped => NextChunk \in Chunk \cup {AllDone})'
    BY NextChunkType, PTL
  <2>2. NextChunk' \in Chunk \cup {AllDone}
    BY <1>1, <2>1
  <2> QED BY <2>2, AnswerTypes
<1> QED BY <1>1, <1>2, <1>b

LEMMA ReturnedType ==
  ASSUME NEW a \in Answers PROVE Returned(a) \in Chunk \cup {AllDone, Error}
<1>1. CASE a.ack = "CHUNK"
  <2>1. a.chunk \in Chunk \cup {AllDone}
    BY <1>1 DEF Answers
  <2> QED BY <1>1, <2>1 DEF Returned
<1>2. CASE a.ack # "CHUNK"
  BY <1>2 DEF Returned
<1> QED BY <1>1, <1>2

LEMMA PacketType ==
  ASSUME UploaderTyped, pc \in Commands PROVE Packet(pc) \in Sent
<1>1. (IF pc = "FIRST_GET" THEN "GET" ELSE pc) \in Commands
  BY DEF Commands
<1>2. (IF pc \in {"WRITE_CH", "DATA"} THEN next ELSE Error) \in Chunk \cup {Error, AllDone}
  BY DEF UploaderTyped
<1>3. Packet(pc) \in Requests
  BY <1>1, <1>2 DEF Packet, Requests
<1>4. Packet(pc).cmd = "DATA" => Packet(pc).chunk \in Chunk
  BY DEF Packet, UploaderTyped
<1> QED BY <1>3, <1>4 DEF Sent

LEMMA Ends ==
  ASSUME NEW S, NEW s \in Seq(S), s # <<>>
  PROVE  Head(s) \in S /\ Tail(s) \in Seq(S)
BY HeadTailProperties

\* What handling a request leaves of the bus.
LEMMA Acked ==
  ASSUME TypeInv, req # <<>>, NEW a \in Answers, Acknowledge(a)
  PROVE  UploaderTyped' /\ BusTyped'
<1>1. req' \in Seq(Sent)
  BY Ends DEF TypeInv, BusTyped, Acknowledge
<1>2. ack' \in Seq(Answers)
  BY AppendProperties DEF TypeInv, BusTyped, Acknowledge
<1>3. UNCHANGED <<lost, late, uploader>>
  BY DEF Acknowledge
<1> QED BY <1>1, <1>2, <1>3 DEF TypeInv, UploaderTyped, BusTyped, uploader

\* What going on with another command leaves.
LEMMA GoesOn ==
  ASSUME TypeInv, NEW c \in Commands \cup {"idle", "done"}, Go(c), late' \in 0 .. MaxLate,
         next' \in Chunk \cup {AllDone, Error}, errs' \in 0 .. MaxErrors + 1,
         c \in {"WRITE_CH", "DATA"} => next' \in Chunk
  PROVE  TypeInv'
<1>1. pc' = c /\ phase' = "send" /\ slot' = NoAnswer /\ UNCHANGED <<req, ack, lost, device>>
  BY DEF Go
<1>2. NoAnswer \in Answers
  BY AnswerTypes DEF NoAnswer
<1> QED BY <1>1, <1>2 DEF TypeInv, UploaderTyped, BusTyped, DeviceTyped, device

LEMMA LateType ==
  ASSUME TypeInv, NEW a, Waited(a)
  PROVE  late' \in 0 .. MaxLate /\ late' >= late /\ phase = "wait" /\ a = slot
BY BoundsAssumption DEF TypeInv, BusTyped, Waited

LEMMA LoopType ==
  ASSUME NEW n, Loop(n)
  PROVE  \E c \in Commands : Go(c) /\ c = IF n = Error THEN "GET" ELSE IF n = AllDone THEN "CHECK_SIGN" ELSE "WRITE_CH"
BY DEF Loop, Commands, Error, AllDone

-----------------------------------------------------------------------------
(* Types *)

LEMMA DeviceTypes == TypeInv /\ (Handle \/ ScriptEnds) => TypeInv'
<1> SUFFICES ASSUME TypeInv, Handle \/ ScriptEnds PROVE TypeInv'
  OBVIOUS
<1>a. UploaderTyped /\ BusTyped /\ DeviceTyped
  BY DEF TypeInv
<1>b. ASSUME NEW a \in Answers, req # <<>>, Acknowledge(a), DeviceTyped' PROVE TypeInv'
  <2>1. UploaderTyped' /\ BusTyped'
    BY <1>b, Acked
  <2> QED BY <1>b, <2>1 DEF TypeInv
<1>1. CASE HandleGetVersion
  <2>1. DeviceTyped'
    BY <1>1, <1>a DEF HandleGetVersion, device, DeviceTyped
  <2> QED BY <1>1, <1>b, <2>1, AnswerTypes DEF HandleGetVersion, Handles
<1>2. CASE HandleGetStatus
  <2>1. DeviceTyped'
    BY <1>2, <1>a DEF HandleGetStatus, device, DeviceTyped
  <2> QED BY <1>2, <1>b, <2>1, AnswerTypes DEF HandleGetStatus, Handles
<1>3. CASE HandleSetVersion
  <2>1. DeviceTyped'
    BY <1>3, <1>a DEF HandleSetVersion, DeviceTyped
  <2> QED BY <1>3, <1>b, <2>1, AnswerTypes DEF HandleSetVersion, Handles
<1>4. CASE HandleSetInfo
  <2>1. DeviceTyped'
    BY <1>4, <1>a DEF HandleSetInfo, DeviceTyped
  <2> QED BY <1>4, <1>b, <2>1, AnswerTypes DEF HandleSetInfo, Handles
<1>5. CASE HandleGetNextChunk
  <2>1. DeviceTyped'
    BY <1>5, <1>a DEF HandleGetNextChunk, device, DeviceTyped
  <2>2. Missing \in Answers
    BY <1>a, NextChunkType, AnswerTypes DEF Missing
  <2> QED BY <1>5, <1>b, <2>1, <2>2, AnswerTypes DEF HandleGetNextChunk, Handles
<1>6. CASE HandleWriteChunk
  <2>1. DeviceTyped'
    BY <1>6, <1>a DEF HandleWriteChunk, device, DeviceTyped
  <2> QED BY <1>6, <1>b, <2>1, AnswerTypes DEF HandleWriteChunk, Handles
<1>7. CASE HandleData
  <2>1. DeviceTyped' /\ NextIs(NextChunk') \in Answers /\ req # <<>>
    BY <1>7, DataTyped
  <2>2. Acknowledge(NextIs(NextChunk'))
    BY <1>7 DEF HandleData
  <2> QED BY <1>b, <2>1, <2>2
<1>8. CASE HandleCheckSign
  <2>1. DeviceTyped'
    BY <1>8, <1>a DEF HandleCheckSign, device, DeviceTyped
  <2>2. SumIs(ImageIsFile) \in Answers
    BY AnswerTypes DEF ImageIsFile
  <2> QED BY <1>8, <1>b, <2>1, <2>2, AnswerTypes DEF HandleCheckSign, Handles
<1>9. CASE HandleUpdate
  <2>1. DeviceTyped'
    BY <1>9, <1>a DEF HandleUpdate, DeviceTyped
  <2> QED BY <1>9, <1>b, <2>1, AnswerTypes DEF HandleUpdate, Handles
<1>10. CASE ScriptEnds
  <2>1. UploaderTyped' /\ BusTyped'
    BY <1>10, <1>a DEF ScriptEnds, uploader, bus, UploaderTyped, BusTyped
  <2>2. DeviceTyped'
    BY <1>10, <1>a DEF ScriptEnds, DeviceTyped
  <2> QED BY <2>1, <2>2 DEF TypeInv
<1> QED BY <1>1, <1>2, <1>3, <1>4, <1>5, <1>6, <1>7, <1>8, <1>9, <1>10 DEF Handle

LEMMA BusTypes == TypeInv /\ (AckHandler \/ LoseRequest \/ LoseAck) => TypeInv'
<1> SUFFICES ASSUME TypeInv, AckHandler \/ LoseRequest \/ LoseAck PROVE TypeInv'
  OBVIOUS
<1>a. UploaderTyped /\ BusTyped /\ DeviceTyped
  BY DEF TypeInv
<1>1. CASE AckHandler
  <2>1. ack # <<>> /\ Head(ack) \in Answers /\ Tail(ack) \in Seq(Answers)
    BY <1>1, <1>a, Ends DEF AckHandler, BusTyped
  <2>2. UploaderTyped'
    BY <1>1, <1>a, <2>1 DEF AckHandler, UploaderTyped
  <2>3. BusTyped'
    <3>1. lost' \in 0 .. MaxLost
      <4>1. lost \in 0 .. MaxLost
        BY <1>a DEF BusTyped
      <4>2. lost' = lost \/ (lost < MaxLost /\ lost' = lost + 1)
        BY <1>1 DEF AckHandler
      <4> QED BY <4>1, <4>2, BoundsAssumption
    <3>2. ack' \in Seq(Answers) /\ UNCHANGED <<req, late>>
      BY <1>1, <2>1, Zenon DEF AckHandler
    <3> QED BY <1>a, <3>1, <3>2 DEF BusTyped
  <2>4. DeviceTyped'
    BY <1>1, <1>a DEF AckHandler, DeviceTyped, device
  <2> QED BY <2>2, <2>3, <2>4 DEF TypeInv
<1>2. CASE LoseRequest
  <2>1. req # <<>> /\ Tail(req) \in Seq(Sent)
    BY <1>2, <1>a, Ends DEF LoseRequest, BusTyped
  <2>2. ack' \in Seq(Answers)
    <3>1. Answer("NACK") \in Answers /\ ack \in Seq(Answers)
      BY <1>a, AnswerTypes DEF BusTyped
    <3>2. Append(ack, Answer("NACK")) \in Seq(Answers)
      BY <3>1, AppendProperties
    <3> QED BY <1>2, <3>1, <3>2 DEF LoseRequest
  <2>3. UploaderTyped' /\ DeviceTyped'
    BY <1>2, <1>a DEF LoseRequest, UploaderTyped, DeviceTyped, uploader, device
  <2>4. BusTyped'
    BY <1>2, <1>a, <2>1, <2>2, BoundsAssumption DEF LoseRequest, BusTyped
  <2> QED BY <2>3, <2>4 DEF TypeInv
<1>3. CASE LoseAck
  <2>1. ack # <<>> /\ Tail(ack) \in Seq(Answers)
    BY <1>3, <1>a, Ends DEF LoseAck, BusTyped
  <2>2. UploaderTyped' /\ DeviceTyped'
    BY <1>3, <1>a DEF LoseAck, UploaderTyped, DeviceTyped, uploader, device
  <2>3. BusTyped'
    BY <1>3, <1>a, <2>1, BoundsAssumption DEF LoseAck, BusTyped
  <2> QED BY <2>2, <2>3 DEF TypeInv
<1> QED BY <1>1, <1>2, <1>3

LEMMA UploaderTypes == TypeInv /\ (Start \/ Upload) => TypeInv'
<1> SUFFICES ASSUME TypeInv, Start \/ Upload PROVE TypeInv'
  OBVIOUS
<1>a. UploaderTyped /\ BusTyped /\ DeviceTyped
  BY DEF TypeInv
<1>b. next \in Chunk \cup {AllDone, Error} /\ errs \in 0 .. MaxErrors + 1 /\ late \in 0 .. MaxLate
  BY <1>a DEF UploaderTyped, BusTyped
<1>c. {"idle", "done", "GET_VER", "GET_STATUS", "SET_VERSION", "SET_INFO", "FIRST_GET", "GET",
       "CHECK_SIGN", "UPDATE"} \subseteq (Commands \cup {"idle", "done"}) \ {"WRITE_CH", "DATA"}
  BY DEF Commands
\* An answer takes the uploader to a command that sends no chunk.
<1>d. ASSUME NEW a \in Answers, Waited(a),
             NEW c \in {"idle", "done", "GET_VER", "GET_STATUS", "SET_VERSION", "SET_INFO",
                        "FIRST_GET", "GET", "CHECK_SIGN", "UPDATE"},
             Go(c), next' \in Chunk \cup {AllDone, Error}, errs' \in 0 .. MaxErrors + 1
      PROVE  TypeInv'
  <2>1. c \in Commands \cup {"idle", "done"} /\ c \notin {"WRITE_CH", "DATA"}
    BY <1>c
  <2>2. late' \in 0 .. MaxLate
    BY <1>d, LateType
  <2> QED BY <1>d, <2>1, <2>2, GoesOn
<1>e. ASSUME NEW a \in Answers, Waited(a), next' = Returned(a), Loop(next'), errs' \in 0 .. MaxErrors + 1
      PROVE  TypeInv'
  <2>1. next' \in Chunk \cup {AllDone, Error}
    BY <1>e, ReturnedType
  <2>2. CASE next' = Error
    BY <1>d, <1>e, <2>1, <2>2 DEF Loop
  <2>3. CASE next' = AllDone
    BY <1>d, <1>e, <2>1, <2>3 DEF Loop, Error, AllDone
  <2>4. CASE next' \in Chunk
    <3>1. Go("WRITE_CH")
      BY <1>e, <2>4, ChunksAssumption DEF Loop, Chunk, Error, AllDone
    <3> QED BY <1>e, <2>1, <2>4, <3>1, GoesOn, LateType DEF Commands
  <2> QED BY <2>1, <2>2, <2>3, <2>4
<1>1. CASE Start
  <2>1. /\ Go("GET_VER") /\ next' \in Chunk \cup {AllDone, Error} /\ errs' \in 0 .. MaxErrors + 1
        /\ late' \in 0 .. MaxLate
    BY <1>1, <1>b, BoundsAssumption DEF Start
  <2>2. "GET_VER" \in Commands \cup {"idle", "done"} /\ "GET_VER" \notin {"WRITE_CH", "DATA"}
    BY DEF Commands
  <2> QED BY <2>1, <2>2, GoesOn
<1>2. CASE Send
  <2>1. req' \in Seq(Sent)
    BY <1>2, <1>a, PacketType, AppendProperties DEF Send, BusTyped
  <2>2. UploaderTyped'
    BY <1>2, <1>a DEF Send, UploaderTyped
  <2>3. BusTyped' /\ DeviceTyped'
    BY <1>2, <1>a, <2>1 DEF Send, BusTyped, DeviceTyped, device
  <2> QED BY <2>2, <2>3 DEF TypeInv
<1>3. CASE WaitForAck
  <2>1. NoAnswer \in Answers
    BY AnswerTypes DEF NoAnswer
  <2>2. UploaderTyped'
    BY <1>3, <1>a, <2>1 DEF WaitForAck, UploaderTyped
  <2>3. BusTyped' /\ DeviceTyped'
    BY <1>3, <1>a DEF WaitForAck, BusTyped, DeviceTyped, bus, device
  <2> QED BY <2>2, <2>3 DEF TypeInv
<1>4. CASE VersionAsked
  BY <1>4, <1>b, <1>d DEF VersionAsked
<1>5. CASE StatusAsked
  BY <1>5, <1>b, <1>d DEF StatusAsked
<1>6. CASE VersionSet
  BY <1>6, <1>b, <1>d DEF VersionSet
<1>7. CASE InfoSet
  BY <1>7, <1>b, <1>d DEF InfoSet
<1>8. CASE FirstChunkAsked
  BY <1>8, <1>b, <1>e DEF FirstChunkAsked
<1>9. CASE ChunkAsked
  <2>1. PICK a \in Answers :
          /\ Waited(a) /\ next' = Returned(a)
          /\ IF next' > 0 THEN errs' = 0 /\ Loop(next')
             ELSE IF errs > MaxErrors THEN errs' = 0 /\ Go("idle")
             ELSE errs' = errs + 1 /\ Loop(next')
    BY <1>9 DEF ChunkAsked
  <2>2. 0 \in 0 .. MaxErrors + 1 /\ (errs <= MaxErrors => errs + 1 \in 0 .. MaxErrors + 1)
    BY <1>b, BoundsAssumption
  <2>3. CASE next' > 0
    BY <1>e, <2>1, <2>2, <2>3
  <2>4. CASE ~(next' > 0) /\ errs > MaxErrors
    BY <1>d, <2>1, <2>2, <2>4, ReturnedType
  <2>5. CASE ~(next' > 0) /\ ~(errs > MaxErrors)
    <3>1. errs' = errs + 1 /\ Loop(next') /\ errs <= MaxErrors
      BY <1>b, <2>1, <2>5, BoundsAssumption
    <3> QED BY <1>e, <2>1, <2>2, <3>1
  <2> QED BY <2>3, <2>4, <2>5
<1>10. CASE ChunkAnnounced
  <2>1. PICK a \in Answers :
          /\ Waited(a)
          /\ IF a.ack = "OK" THEN next' = next /\ Go("DATA") ELSE next' = Error /\ Go("GET")
    BY <1>10 DEF ChunkAnnounced
  <2>2. next \in Chunk /\ errs' = errs
    BY <1>10, <1>a DEF ChunkAnnounced, UploaderTyped
  <2>3. CASE a.ack = "OK"
    BY <1>b, <2>1, <2>2, <2>3, GoesOn, LateType DEF Commands
  <2>4. CASE a.ack # "OK"
    BY <1>b, <1>d, <2>1, <2>2, <2>4
  <2> QED BY <2>3, <2>4
<1>11. CASE ChunkPushed
  BY <1>11, <1>b, <1>e DEF ChunkPushed
<1>12. CASE ContentVerified
  BY <1>12, <1>b, <1>d DEF ContentVerified
<1>13. CASE UpdateAsked
  BY <1>13, <1>b, <1>d DEF UpdateAsked
<1> QED BY <1>1, <1>2, <1>3, <1>4, <1>5, <1>6, <1>7, <1>8, <1>9, <1>10, <1>11, <1>12, <1>13 DEF Upload

LEMMA TypeInvariant == Spec => []TypeInv
<1>1. Init => TypeInv
  <2> SUFFICES ASSUME Init PROVE TypeInv
    OBVIOUS
  <2>1. UploaderTyped
    BY AnswerTypes, BoundsAssumption DEF Init, UploaderTyped, NoAnswer
  <2>2. BusTyped
    BY EmptySeq, BoundsAssumption DEF Init, BusTyped
  <2>3. DeviceTyped
    BY DEF Init, DeviceTyped
  <2> QED BY <2>1, <2>2, <2>3 DEF TypeInv
<1>2. TypeInv /\ [Next]_vars => TypeInv'
  <2>1. TypeInv /\ UNCHANGED vars => TypeInv'
    BY DEF vars, uploader, bus, device, TypeInv, UploaderTyped, BusTyped, DeviceTyped
  <2> QED BY <2>1, DeviceTypes, BusTypes, UploaderTypes DEF Next
<1> QED BY <1>1, <1>2, PTL DEF Spec

\* Whatever is lost, late or answered out of turn, every variable keeps its type: no chunk number
\* leaves the image's places and err_count stays within its bound.
THEOREM TypeCorrect == Spec => []TypeOK
BY TypeInvariant, TypeInvImpliesTypeOK, PTL

-----------------------------------------------------------------------------
(* The course of an upload while no answer is late *)

\* The image is what the device counts, and nothing else was installed than the file.
Counted ==
  /\ last \in Chunk \cup {AllDone} /\ ~failed
  /\ image = [p \in Chunk |-> IF p <= last THEN p ELSE Hole]
  /\ ~info => last = AllDone
  /\ installed # "other"

\* One packet at most is under way, and it belongs to the command in flight.
OneInFlight ==
  /\ phase = "send" => req = <<>> /\ ack = <<>>
  /\ slot # NoAnswer => phase = "wait" /\ req = <<>> /\ ack = <<>>
  /\ req # <<>> => req = <<Packet(pc)>> /\ ack = <<>>
  /\ ack # <<>> => ack = <<Head(ack)>>
  /\ phase # "send" => pc \in Commands

\* An answer to the command in flight is true when it is read.
Right(a) ==
  /\ a.ack = "CHUNK" => info /\ a.chunk = NextChunk
  /\ a.ack = "EXISTS" => info
  /\ a.ack = "OK" => (pc = "SET_VERSION" => last = AllDone) /\ (pc = "SET_INFO" => info)
  /\ a.ack = "SUM" => (a.same => ImageIsFile)

\* What the uploader has established before it sends a command.
Due(c, n) ==
  /\ c \in {"FIRST_GET", "GET", "WRITE_CH", "DATA", "CHECK_SIGN", "UPDATE"} => info
  /\ c = "SET_INFO" => last = AllDone
  /\ c = "WRITE_CH" \/ (c = "DATA" /\ (phase = "send" \/ req # <<>>)) => n = last + 1
  /\ c = "UPDATE" => ImageIsFile

InOrder ==
  late = 0 =>
    /\ Counted /\ OneInFlight /\ Due(pc, next)
    /\ Right(slot)
    /\ ack # <<>> => Right(Head(ack))

LEMMA Singles ==
  ASSUME NEW x
  PROVE  /\ Append(<<>>, x) = <<x>> /\ Head(<<x>>) = x /\ Tail(<<x>>) = <<>> /\ <<x>> # <<>>
OBVIOUS

LEMMA PlainAnswersRight ==
  ASSUME NEW a \in {"NACK", "VERSION", "STATUS", "TIMEOUT"}
  PROVE  Right(Answer(a))
BY DEF Right, Answer

LEMMA CountedImage ==
  ASSUME Counted
  PROVE  (ImageIsFile <=> last = Chunks - 1) /\ (ImageExists <=> last # AllDone)
<1>1. /\ last \in Chunk \cup {AllDone} /\ Chunks \in Nat /\ Chunks > 0
      /\ image = [p \in Chunk |-> IF p <= last THEN p ELSE Hole]
  BY ChunksAssumption DEF Counted
<1>2. ImageIsFile <=> last = Chunks - 1
  <2>1. CASE last = Chunks - 1
    BY <1>1, <2>1 DEF ImageIsFile, Chunk
  <2>2. CASE last # Chunks - 1
    <3>1. Chunks - 1 \in Chunk /\ ~(Chunks - 1 <= last)
      BY <1>1, <2>2 DEF Chunk, AllDone
    <3>2. image[Chunks - 1] = Hole /\ Hole # Chunks - 1
      BY <1>1, <3>1 DEF Hole, Chunk
    <3>3. ImageIsFile => image[Chunks - 1] = Chunks - 1
      BY <3>1 DEF ImageIsFile
    <3> QED BY <2>2, <3>2, <3>3
  <2> QED BY <2>1, <2>2
<1>3. ImageExists <=> last # AllDone
  <2>1. CASE last = AllDone
    <3>1. \A p \in Chunk : image[p] = Hole
      BY <1>1, <2>1 DEF Chunk, AllDone
    <3> QED BY <2>1, <3>1 DEF ImageExists
  <2>2. CASE last # AllDone
    <3>1. last \in Chunk /\ image[last] = last /\ last # Hole
      BY <1>1, <2>2 DEF Chunk, AllDone, Hole
    <3> QED BY <2>2, <3>1 DEF ImageExists
  <2> QED BY <2>1, <2>2
<1> QED BY <1>2, <1>3

\* A handled request was the one of the command in flight, its answer is now.
LEMMA HandledOne ==
  ASSUME TypeInv, OneInFlight, NEW c, Handles(c), NEW a, Acknowledge(a)
  PROVE  /\ OneInFlight' /\ slot' = NoAnswer /\ req' = <<>> /\ ack' = <<a>> /\ Head(ack') = a
         /\ UNCHANGED <<pc, phase, next, late>> /\ phase # "send"
         /\ pc = c \/ (pc = "FIRST_GET" /\ c = "GET")
         /\ c = "DATA" => Head(req).chunk = next
<1>1. req = <<Packet(pc)>> /\ ack = <<>> /\ slot = NoAnswer /\ phase # "send" /\ pc \in Commands
  BY DEF OneInFlight, Handles
<1>2. Head(req) = Packet(pc) /\ Tail(req) = <<>> /\ Append(ack, a) = <<a>> /\ Head(<<a>>) = a
  BY <1>1, Singles
<1>3. /\ req' = <<>> /\ ack' = <<a>> /\ UNCHANGED <<pc, phase, slot, next, late>>
  BY <1>2 DEF Acknowledge, uploader
<1>4. OneInFlight'
  BY <1>1, <1>2, <1>3, Singles DEF OneInFlight
<1>5. (pc = c \/ (pc = "FIRST_GET" /\ c = "GET")) /\ (c = "DATA" => Head(req).chunk = next)
  BY <1>2 DEF Handles, Packet
<1> QED BY <1>1, <1>2, <1>3, <1>4, <1>5

LEMMA HandleInOrder == TypeInv /\ InOrder /\ (Handle \/ ScriptEnds) => InOrder'
<1> SUFFICES ASSUME TypeInv, InOrder, Handle \/ ScriptEnds, late' = 0 PROVE InOrder'
  BY DEF InOrder
<1>a. late' = late
  BY DEF Handle, ScriptEnds, bus, Acknowledge, HandleGetVersion, HandleGetStatus, HandleSetVersion,
         HandleSetInfo, HandleGetNextChunk, HandleWriteChunk, HandleData, HandleCheckSign, HandleUpdate
<1>b. /\ Counted /\ OneInFlight /\ Due(pc, next) /\ Right(slot)
      /\ ack # <<>> => Right(Head(ack))
      /\ NextChunk \in Chunk \cup {AllDone}
  BY <1>a, NextChunkType DEF InOrder, TypeInv
\* A handler that keeps the image, the count and the version's information
<1>c. ASSUME NEW c, Handles(c), NEW a, Acknowledge(a), c # "DATA",
             UNCHANGED <<info, image, last, failed, installed>>,
             pc = c \/ (pc = "FIRST_GET" /\ c = "GET") => Right(a)
      PROVE  InOrder'
  <2>1. /\ OneInFlight' /\ slot' = NoAnswer /\ req' = <<>> /\ ack' = <<a>> /\ Head(ack') = a
        /\ UNCHANGED <<pc, phase, next, late>> /\ phase # "send"
        /\ pc = c \/ (pc = "FIRST_GET" /\ c = "GET")
    BY <1>b, <1>c, HandledOne
  <2>2. Counted'
    BY <1>b, <1>c DEF Counted
  <2>3. Due(pc, next)'
    BY <1>b, <1>c, <2>1 DEF Due, ImageIsFile
  <2>4. Right(slot)' /\ Right(Head(ack))'
    <3>1. Right(NoAnswer) /\ Right(a)
      BY <1>c, <2>1, PlainAnswersRight DEF NoAnswer
    <3> QED BY <1>c, <2>1, <3>1 DEF Right, NextChunk, ImageIsFile
  <2> QED BY <2>1, <2>2, <2>3, <2>4 DEF InOrder
<1>1. CASE HandleGetVersion
  BY <1>1, <1>c, PlainAnswersRight DEF HandleGetVersion, device
<1>2. CASE HandleGetStatus
  BY <1>2, <1>c, PlainAnswersRight DEF HandleGetStatus, device
<1>3. CASE HandleSetVersion
  <2> DEFINE a == Answer(IF busy THEN "NACK" ELSE IF info /\ ImageExists THEN "EXISTS" ELSE "OK")
  <2>1. pc = "SET_VERSION" => Right(a)
    <3>1. ~(info /\ ImageExists) => last = AllDone
      BY <1>b, CountedImage DEF Counted
    <3> QED BY <3>1 DEF Right, Answer
  <2> QED BY <1>3, <1>c, <2>1 DEF HandleSetVersion
<1>4. CASE HandleSetInfo
  <2> DEFINE a == Answer(IF busy THEN "NACK" ELSE "OK")
  <2>1. Handles("SET_INFO") /\ Acknowledge(a) /\ UNCHANGED <<version, image, failed, busy, installed>>
        /\ info' = (info \/ ~busy) /\ last' = IF busy THEN last ELSE AllDone
    BY <1>4 DEF HandleSetInfo
  <2>2. /\ OneInFlight' /\ slot' = NoAnswer /\ req' = <<>> /\ ack' = <<a>> /\ Head(ack') = a
        /\ UNCHANGED <<pc, phase, next, late>> /\ pc = "SET_INFO"
    BY <1>b, <2>1, HandledOne
  <2>3. last = AllDone /\ last' = AllDone
    BY <1>b, <2>1, <2>2 DEF Due
  <2>4. Counted'
    BY <1>b, <2>1, <2>3 DEF Counted
  <2>5. Due(pc, next)'
    BY <2>2, <2>3 DEF Due
  <2>6. Right(slot)' /\ Right(Head(ack))'
    <3>1. slot'.ack = "TIMEOUT"
      BY <2>2 DEF NoAnswer, Answer
    <3>2. Head(ack').ack = IF busy THEN "NACK" ELSE "OK"
      BY <2>2 DEF Answer
    <3> QED BY <2>1, <2>2, <3>1, <3>2 DEF Right
  <2> QED BY <2>2, <2>4, <2>5, <2>6 DEF InOrder
<1>5. CASE HandleGetNextChunk
  <2> DEFINE a == IF busy THEN Answer("NACK") ELSE Missing
  <2>1. pc \in {"FIRST_GET", "GET"} => Right(a)
    <3>1. pc \in {"FIRST_GET", "GET"} => info
      BY <1>b DEF Due
    <3>2. info => Right(NextIs(NextChunk)) /\ Missing = NextIs(NextChunk)
      BY DEF Missing, Right, NextIs
    <3> QED BY <3>1, <3>2, PlainAnswersRight
  <2> QED BY <1>5, <1>c, <2>1 DEF HandleGetNextChunk, device
<1>6. CASE HandleWriteChunk
  <2> DEFINE a == Answer(IF Fits(Head(req).chunk) THEN "OK" ELSE "NACK")
  <2>1. pc = "WRITE_CH" => Right(a)
    BY DEF Right, Answer
  <2> QED BY <1>6, <1>c, <2>1 DEF HandleWriteChunk, device
<1>7. CASE HandleData
  <2>1. Handles("DATA") /\ info /\ Acknowledge(NextIs(NextChunk')) /\ UNCHANGED <<info, installed>>
    BY <1>7 DEF HandleData
  <2>2. /\ OneInFlight' /\ slot' = NoAnswer /\ req' = <<>> /\ Head(ack') = NextIs(NextChunk')
        /\ UNCHANGED <<pc, phase, next, late>> /\ phase # "send" /\ pc = "DATA"
        /\ Head(req).chunk = next
    BY <1>b, <2>1, HandledOne
  <2>3. next = last + 1 /\ next \in Chunk
    BY <1>b, <2>1, <2>2 DEF Due, Handles, TypeInv, UploaderTyped
  <2>4. last' = next /\ image' = [image EXCEPT ![next] = next] /\ failed' = failed
    <3>1. last \in Int /\ Chunks \in Nat /\ next \in 0 .. Chunks - 1
      BY <1>b, <2>3, ChunksAssumption DEF Counted, Chunk, AllDone
    <3>2. NextChunk = next /\ next # AllDone
      BY <2>3, <3>1 DEF NextChunk, AllDone
    <3>3. ~failed
      BY <1>b DEF Counted
    <3> QED BY <1>7, <2>2, <3>2, <3>3 DEF HandleData, DataStored, DataRefused, DataDropped
  <2>5. Counted'
    <3>1. image' = [p \in Chunk |-> IF p <= next THEN p ELSE Hole]
      <4>1. last \in Int /\ image = [p \in Chunk |-> IF p <= last THEN p ELSE Hole]
        BY <1>b DEF Counted, Chunk, AllDone
      <4>2. \A p \in Chunk : p # next => (p <= last <=> p <= next)
        BY <2>3, <4>1 DEF Chunk
      <4>3. [image EXCEPT ![next] = next] = [p \in Chunk |-> IF p = next THEN next ELSE image[p]]
        BY <4>1
      <4>4. next <= next
        BY <2>3 DEF Chunk
      <4> QED BY <2>4, <4>1, <4>2, <4>3, <4>4
    <3>2. last' \in Chunk \cup {AllDone} /\ ~failed' /\ info' /\ installed' # "other"
      BY <1>b, <2>1, <2>3, <2>4 DEF Counted
    <3>3. image' = [p \in Chunk |-> IF p <= last' THEN p ELSE Hole]
      BY <2>4, <3>1
    <3> QED BY <3>2, <3>3 DEF Counted
  <2>6. Due(pc, next)'
    BY <2>1, <2>2 DEF Due
  <2>7. Right(slot)' /\ Right(Head(ack))'
    <3>1. slot'.ack = "TIMEOUT"
      BY <2>2 DEF NoAnswer, Answer
    <3>2. Head(ack').ack = "CHUNK" /\ Head(ack').chunk = NextChunk'
      BY <2>2 DEF NextIs
    <3> QED BY <2>1, <3>1, <3>2 DEF Right
  <2> QED BY <2>2, <2>5, <2>6, <2>7 DEF InOrder
<1>8. CASE HandleCheckSign
  <2> DEFINE a == IF ImageExists THEN SumIs(ImageIsFile) ELSE Answer("NACK")
  <2>1. Right(a)
    <3>1. Right(SumIs(ImageIsFile))
      BY DEF Right, SumIs
    <3> QED BY <3>1, PlainAnswersRight
  <2> QED BY <1>8, <1>c, <2>1 DEF HandleCheckSign, device
<1>9. CASE HandleUpdate
  <2> DEFINE a == Answer(IF busy THEN "NACK" ELSE "OK")
  <2>1. Handles("UPDATE") /\ Acknowledge(a) /\ UNCHANGED <<version, info, image, last, failed>>
        /\ installed' = IF busy THEN installed ELSE IF ImageIsFile THEN "file" ELSE "other"
    BY <1>9 DEF HandleUpdate
  <2>2. /\ OneInFlight' /\ slot' = NoAnswer /\ req' = <<>> /\ ack' = <<a>> /\ Head(ack') = a
        /\ UNCHANGED <<pc, phase, next, late>> /\ phase # "send" /\ pc = "UPDATE"
    BY <1>b, <2>1, HandledOne
  <2>3. Counted'
    BY <1>b, <2>1, <2>2 DEF Counted, Due
  <2>4. Due(pc, next)'
    BY <1>b, <2>1, <2>2 DEF Due, ImageIsFile
  <2>5. Right(slot)' /\ Right(Head(ack))'
    BY <2>2 DEF Right, NoAnswer, Answer
  <2> QED BY <2>2, <2>3, <2>4, <2>5 DEF InOrder
<1>10. CASE ScriptEnds
  <2>1. UNCHANGED <<pc, phase, slot, next, req, ack, info, image, last, failed, installed>>
    BY <1>10 DEF ScriptEnds, uploader, bus
  <2>2. Counted' /\ OneInFlight'
    BY <1>b, <2>1 DEF Counted, OneInFlight, Packet
  <2>3. Due(pc, next)' /\ Right(slot)' /\ (ack' # <<>> => Right(Head(ack))')
    BY <1>b, <2>1 DEF Due, Right, ImageIsFile, NextChunk
  <2> QED BY <2>2, <2>3 DEF InOrder
<1> QED BY <1>1, <1>2, <1>3, <1>4, <1>5, <1>6, <1>7, <1>8, <1>9, <1>10 DEF Handle

LEMMA BusInOrder == TypeInv /\ InOrder /\ (AckHandler \/ LoseRequest \/ LoseAck) => InOrder'
<1> SUFFICES ASSUME TypeInv, InOrder, AckHandler \/ LoseRequest \/ LoseAck, late' = 0 PROVE InOrder'
  BY DEF InOrder
<1>a. late' = late /\ UNCHANGED <<pc, phase, next, info, image, last, failed, installed>>
  BY DEF AckHandler, LoseRequest, LoseAck, uploader, device
<1>b. /\ Counted /\ OneInFlight /\ Due(pc, next) /\ Right(slot)
      /\ ack # <<>> => Right(Head(ack))
  BY <1>a DEF InOrder
<1>c. Counted' /\ (req' \in {req, <<>>} => Due(pc, next)')
  BY <1>a, <1>b DEF Counted, Due, ImageIsFile
<1>d. \A a : Right(a) => Right(a)'
  BY <1>a DEF Right, NextChunk, ImageIsFile
<1>1. CASE AckHandler
  <2>1. ack # <<>> /\ req = <<>> /\ slot = NoAnswer /\ Tail(ack) = <<>> /\ phase # "send"
    BY <1>1, <1>b, Singles DEF AckHandler, OneInFlight
  <2>2. ack' = <<>> /\ req' = <<>> /\ slot' = IF phase = "wait" THEN Head(ack) ELSE slot
    BY <1>1, <2>1 DEF AckHandler
  <2>3. OneInFlight'
    BY <1>a, <1>b, <2>1, <2>2 DEF OneInFlight
  <2>4. Right(slot)'
    BY <1>a, <1>b, <2>1, <2>2 DEF Right, NextChunk, ImageIsFile
  <2> QED BY <1>c, <2>2, <2>3, <2>4 DEF InOrder
<1>2. CASE LoseRequest
  <2>1. req = <<Packet(pc)>> /\ ack = <<>> /\ slot = NoAnswer /\ phase # "send"
    BY <1>2, <1>b DEF LoseRequest, OneInFlight
  <2>2. req' = <<>> /\ slot' = slot /\ ack' \in {<<>>, <<Answer("NACK")>>}
    BY <1>2, <2>1, Singles DEF LoseRequest, uploader
  <2>3. OneInFlight'
    BY <1>a, <1>b, <2>1, <2>2, Singles DEF OneInFlight
  <2>4. Right(slot)'
    BY <1>a, <1>b, <2>2 DEF Right, NextChunk, ImageIsFile
  <2>5. ack' # <<>> => Right(Head(ack))'
    <3>1. ack' # <<>> => Head(ack').ack = "NACK"
      BY <2>2, Singles DEF Answer
    <3> QED BY <3>1 DEF Right
  <2> QED BY <1>c, <2>2, <2>3, <2>4, <2>5 DEF InOrder
<1>3. CASE LoseAck
  <2>1. ack # <<>> /\ req = <<>> /\ slot = NoAnswer /\ Tail(ack) = <<>> /\ phase # "send"
    BY <1>3, <1>b, Singles DEF LoseAck, OneInFlight
  <2>2. ack' = <<>> /\ req' = <<>> /\ slot' = slot
    BY <1>3, <2>1 DEF LoseAck, uploader
  <2>3. OneInFlight'
    BY <1>a, <1>b, <2>1, <2>2 DEF OneInFlight
  <2>4. Right(slot)'
    BY <1>a, <1>b, <2>2 DEF Right, NextChunk, ImageIsFile
  <2> QED BY <1>c, <2>2, <2>3, <2>4 DEF InOrder
<1> QED BY <1>1, <1>2, <1>3

\* While no answer is late the uploader goes on when nothing is under way any more.
LEMMA WaitedInOrder ==
  ASSUME TypeInv, InOrder, NEW a, Waited(a), late' = 0
  PROVE  late = 0 /\ req = <<>> /\ ack = <<>> /\ Right(a)
<1>1. late \in Nat /\ late' >= late /\ a = slot
  BY LateType, BoundsAssumption DEF TypeInv, BusTyped
<1>2. late = 0
  BY <1>1
<1>3. a # NoAnswer \/ (req = <<>> /\ ack = <<>>)
  BY <1>1, <1>2 DEF Waited
<1> QED BY <1>1, <1>2, <1>3 DEF InOrder, OneInFlight

LEMMA WentOnInOrder ==
  ASSUME TypeInv, InOrder, late = 0, late' = 0, req = <<>>, ack = <<>>, NEW c, Go(c),
         c \in {"FIRST_GET", "GET", "WRITE_CH", "DATA", "CHECK_SIGN", "UPDATE"} => info,
         c = "SET_INFO" => last = AllDone,
         c \in {"WRITE_CH", "DATA"} => next' = last + 1,
         c = "UPDATE" => ImageIsFile
  PROVE  InOrder'
<1>1. /\ pc' = c /\ phase' = "send" /\ slot' = NoAnswer /\ req' = <<>> /\ ack' = <<>>
      /\ UNCHANGED <<info, image, last, failed, installed>>
  BY DEF Go, device
<1>2. Counted'
  BY <1>1 DEF InOrder, Counted
<1>3. OneInFlight'
  BY <1>1 DEF OneInFlight
<1>4. Due(pc, next)'
  BY <1>1 DEF Due, ImageIsFile
<1>5. Right(slot)'
  BY <1>1 DEF Right, NoAnswer, Answer
<1> QED BY <1>1, <1>2, <1>3, <1>4, <1>5 DEF InOrder

LEMMA LoopInOrder ==
  ASSUME TypeInv, InOrder, NEW a \in Answers, Waited(a), late' = 0, info, next' = Returned(a), Loop(next')
  PROVE  InOrder'
<1>1. late = 0 /\ req = <<>> /\ ack = <<>> /\ Right(a)
  BY WaitedInOrder
<1>2. next' \in Chunk \cup {AllDone, Error}
  BY ReturnedType
<1>3. CASE next' = Error
  <2>1. Go("GET")
    BY <1>3 DEF Loop, Error, AllDone
  <2> QED BY <1>1, <2>1, WentOnInOrder
<1>4. CASE next' = AllDone
  <2>1. Go("CHECK_SIGN")
    BY <1>4 DEF Loop, Error, AllDone
  <2> QED BY <1>1, <2>1, WentOnInOrder
<1>5. CASE next' \in Chunk
  <2>1. Go("WRITE_CH")
    BY <1>5, ChunksAssumption DEF Loop, Chunk, Error, AllDone
  <2>2. next' = NextChunk /\ next' # AllDone
    BY <1>1, <1>5, ChunksAssumption DEF Returned, Right, Error, AllDone, Chunk
  <2>3. next' = last + 1
    BY <2>2 DEF NextChunk
  <2> QED BY <1>1, <2>1, <2>3, WentOnInOrder
<1> QED BY <1>2, <1>3, <1>4, <1>5

LEMMA UploaderInOrder == TypeInv /\ InOrder /\ (Start \/ Upload) => InOrder'
<1> SUFFICES ASSUME TypeInv, InOrder, Start \/ Upload, late' = 0 PROVE InOrder'
  BY DEF InOrder
<1>a. late \in Nat
  BY BoundsAssumption DEF TypeInv, BusTyped
<1>b. late = 0 => Counted /\ OneInFlight /\ Due(pc, next) /\ Right(slot)
  BY DEF InOrder
\* An answer takes the uploader to a command that needs nothing.
<1>c. ASSUME NEW a, Waited(a), NEW c \in {"GET_STATUS", "SET_VERSION", "idle", "done"}, Go(c)
      PROVE  InOrder'
  BY <1>c, WaitedInOrder, WentOnInOrder
<1>1. CASE Start
  <2>1. late = 0 /\ Go("GET_VER") /\ pc = "idle"
    BY <1>1 DEF Start
  <2>2. req = <<>> /\ ack = <<>>
    BY <1>b, <2>1 DEF OneInFlight, Commands
  <2> QED BY <2>1, <2>2, WentOnInOrder
<1>2. CASE Send
  <2>1. late = 0 /\ phase = "send" /\ pc \in Commands /\ req' = Append(req, Packet(pc)) /\ phase' = "sent"
        /\ UNCHANGED <<pc, slot, next, ack, info, image, last, failed, installed>>
    BY <1>2 DEF Send, device
  <2>2. req' = <<Packet(pc)>> /\ ack = <<>> /\ slot = NoAnswer
    BY <1>b, <2>1, Singles DEF OneInFlight
  <2>3. Packet(pc)' = Packet(pc)
    BY <2>1 DEF Packet
  <2>4. Counted' /\ OneInFlight'
    BY <1>b, <2>1, <2>2, <2>3 DEF Counted, OneInFlight
  <2>5. Due(pc, next)' /\ Right(slot)'
    BY <1>b, <2>1 DEF Due, Right, NextChunk, ImageIsFile
  <2> QED BY <2>1, <2>2, <2>4, <2>5 DEF InOrder
<1>3. CASE WaitForAck
  <2>1. late = 0 /\ phase = "sent" /\ slot' = NoAnswer /\ phase' = "wait"
        /\ UNCHANGED <<pc, next, req, ack, info, image, last, failed, installed>>
    BY <1>3 DEF WaitForAck, bus, device
  <2>2. Packet(pc)' = Packet(pc)
    BY <2>1 DEF Packet
  <2>3. Counted' /\ OneInFlight'
    BY <1>b, <2>1, <2>2 DEF Counted, OneInFlight
  <2>4. Due(pc, next)'
    BY <1>b, <2>1 DEF Due, ImageIsFile
  <2>5. Right(slot)'
    BY <2>1 DEF Right, NoAnswer, Answer
  <2>6. ack' # <<>> => Right(Head(ack))'
    BY <2>1 DEF InOrder, Right, NextChunk, ImageIsFile
  <2> QED BY <2>3, <2>4, <2>5, <2>6 DEF InOrder
<1>4. CASE VersionAsked
  BY <1>4, <1>c DEF VersionAsked
<1>5. CASE StatusAsked
  BY <1>5, <1>c DEF StatusAsked
<1>6. CASE VersionSet
  <2>1. PICK a \in Answers :
          /\ Waited(a)
          /\ Go(CASE a.ack = "EXISTS" -> "FIRST_GET" [] a.ack = "OK" -> "SET_INFO" [] OTHER -> "idle")
    BY <1>6 DEF VersionSet
  <2>2. late = 0 /\ req = <<>> /\ ack = <<>> /\ Right(a) /\ pc = "SET_VERSION"
    BY <1>6, <2>1, WaitedInOrder DEF VersionSet
  <2>3. CASE a.ack = "EXISTS"
    <3>1. Go("FIRST_GET") /\ info
      BY <2>1, <2>2, <2>3 DEF Right
    <3> QED BY <2>2, <3>1, WentOnInOrder
  <2>4. CASE a.ack = "OK"
    <3>1. Go("SET_INFO") /\ last = AllDone
      BY <2>1, <2>2, <2>4 DEF Right
    <3> QED BY <2>2, <3>1, WentOnInOrder
  <2>5. CASE a.ack \notin {"EXISTS", "OK"}
    BY <1>c, <2>1, <2>5
  <2> QED BY <2>3, <2>4, <2>5
<1>7. CASE InfoSet
  <2>1. PICK a \in Answers : Waited(a) /\ Go(IF a.ack = "OK" THEN "FIRST_GET" ELSE "idle")
    BY <1>7 DEF InfoSet
  <2>2. late = 0 /\ req = <<>> /\ ack = <<>> /\ Right(a) /\ pc = "SET_INFO"
    BY <1>7, <2>1, WaitedInOrder DEF InfoSet
  <2>3. CASE a.ack = "OK"
    <3>1. Go("FIRST_GET") /\ info
      BY <2>1, <2>2, <2>3 DEF Right
    <3> QED BY <2>2, <3>1, WentOnInOrder
  <2>4. CASE a.ack # "OK"
    BY <1>c, <2>1, <2>4
  <2> QED BY <2>3, <2>4
<1>8. CASE FirstChunkAsked
  <2>1. PICK a \in Answers : Waited(a) /\ next' = Returned(a) /\ Loop(next')
    BY <1>8 DEF FirstChunkAsked
  <2>2. info
    BY <1>8, <1>b, <2>1, WaitedInOrder DEF FirstChunkAsked, Due
  <2> QED BY <2>1, <2>2, LoopInOrder
<1>9. CASE ChunkAsked
  <2>1. PICK a \in Answers : Waited(a) /\ next' = Returned(a) /\ (Loop(next') \/ Go("idle"))
    BY <1>9 DEF ChunkAsked
  <2>2. info
    BY <1>9, <1>b, <2>1, WaitedInOrder DEF ChunkAsked, Due
  <2> QED BY <1>c, <2>1, <2>2, LoopInOrder
<1>10. CASE ChunkAnnounced
  <2>1. PICK a \in Answers :
          Waited(a) /\ IF a.ack = "OK" THEN next' = next /\ Go("DATA") ELSE next' = Error /\ Go("GET")
    BY <1>10 DEF ChunkAnnounced
  <2>2. late = 0 /\ req = <<>> /\ ack = <<>> /\ info /\ next = last + 1
    BY <1>10, <1>b, <2>1, WaitedInOrder DEF ChunkAnnounced, Due
  <2>3. CASE a.ack = "OK"
    BY <2>1, <2>2, <2>3, WentOnInOrder
  <2>4. CASE a.ack # "OK"
    BY <2>1, <2>2, <2>4, WentOnInOrder
  <2> QED BY <2>3, <2>4
<1>11. CASE ChunkPushed
  <2>1. PICK a \in Answers : Waited(a) /\ next' = Returned(a) /\ Loop(next')
    BY <1>11 DEF ChunkPushed
  <2>2. info
    BY <1>11, <1>b, <2>1, WaitedInOrder DEF ChunkPushed, Due
  <2> QED BY <2>1, <2>2, LoopInOrder
<1>12. CASE ContentVerified
  <2>1. PICK a \in Answers : Waited(a) /\ Go(IF a.ack = "SUM" /\ a.same THEN "UPDATE" ELSE "idle")
    BY <1>12 DEF ContentVerified
  <2>2. late = 0 /\ req = <<>> /\ ack = <<>> /\ info /\ Right(a)
    BY <1>12, <1>b, <2>1, WaitedInOrder DEF ContentVerified, Due
  <2>3. CASE a.ack = "SUM" /\ a.same
    <3>1. Go("UPDATE") /\ ImageIsFile
      BY <2>1, <2>2, <2>3 DEF Right
    <3> QED BY <2>2, <3>1, WentOnInOrder
  <2>4. CASE ~(a.ack = "SUM" /\ a.same)
    BY <1>c, <2>1, <2>4
  <2> QED BY <2>3, <2>4
<1>13. CASE UpdateAsked
  BY <1>13, <1>c DEF UpdateAsked
<1> QED BY <1>1, <1>2, <1>3, <1>4, <1>5, <1>6, <1>7, <1>8, <1>9, <1>10, <1>11, <1>12, <1>13 DEF Upload

LEMMA InOrderStep == TypeInv /\ InOrder /\ [Next]_vars => InOrder'
<1>1. TypeInv /\ InOrder /\ UNCHANGED vars => InOrder'
  BY DEF vars, uploader, bus, device, InOrder, Counted, OneInFlight, Due, Right, Packet, NextChunk, ImageIsFile
<1> QED BY <1>1, HandleInOrder, BusInOrder, UploaderInOrder DEF Next

LEMMA InOrderInvariant == Spec => []InOrder
<1>1. Init => InOrder
  <2> SUFFICES ASSUME Init PROVE InOrder
    OBVIOUS
  <2>1. Counted
    <3>1. \A p \in Chunk : ~(p <= AllDone)
      BY ChunksAssumption DEF Chunk, AllDone
    <3> QED BY <3>1 DEF Init, Counted
  <2>2. OneInFlight
    BY DEF Init, OneInFlight
  <2>3. Due(pc, next) /\ Right(slot)
    BY DEF Init, Due, Right, NoAnswer, Answer
  <2> QED BY <2>1, <2>2, <2>3 DEF Init, InOrder
<1>2. TypeInv /\ InOrder /\ [Next]_vars => InOrder'
  BY InOrderStep
<1> QED BY <1>1, <1>2, TypeInvariant, PTL DEF Spec

\* However many packets the bus loses, and however often the uploader gives up and is started
\* again: as long as no timeout passes an answer by, every chunk is stored at its own place, and no DATA comes that
\* _WriteFile would refuse.
THEOREM NothingMisplaced == Spec => []LossMisplacesNothing
<1>1. InOrder => LossMisplacesNothing
  <2> SUFFICES ASSUME InOrder, late = 0, NEW p \in Chunk PROVE image[p] \in {Hole, p} /\ ~failed
    BY ChunksAssumption DEF LossMisplacesNothing, InPlace, Chunk
  <2>1. /\ last \in Chunk \cup {AllDone}
        /\ image = [q \in Chunk |-> IF q <= last THEN q ELSE Hole] /\ ~failed
    BY DEF InOrder, Counted
  <2> QED BY <2>1 DEF Chunk, Hole
<1> QED BY <1>1, InOrderInvariant, PTL

-----------------------------------------------------------------------------
(* The promise of an upload *)

\* The count may pass the end of the image by one; Has(Chunks + 1) is the whole file then.
LEMMA KeptType == ASSUME TypeInv PROVE Kept \in 0 .. Chunks \cup {-1}
<1>1. /\ Chunks \in Nat /\ last \in Place \cup {AllDone} /\ image \in [Chunk -> Chunk \cup {Hole}]
  BY ChunksAssumption DEF TypeInv, DeviceTyped
<1>2. CASE last = Chunks
  <2>1. Has(last + 1) => ImageIsFile
    <3> HAVE Has(last + 1)
    <3>1. image = [p \in Chunk |-> IF p < Chunks + 1 THEN p ELSE Hole]
      BY <1>2 DEF Has
    <3>2. \A p \in Chunk : p < Chunks + 1
      BY <1>1 DEF Chunk
    <3> QED BY <3>1, <3>2 DEF ImageIsFile
  <2> QED BY <1>1, <2>1 DEF Kept
<1>3. CASE last # Chunks
  BY <1>1, <1>3 DEF Kept, Place, AllDone
<1> QED BY <1>2, <1>3

LEMMA KeptCounted == ASSUME Counted PROVE Kept = last + 1
<1>1. last \in Int /\ image = [p \in Chunk |-> IF p <= last THEN p ELSE Hole]
  BY ChunksAssumption DEF Counted, Chunk, AllDone
<1>2. Has(last + 1)
  BY <1>1, ChunksAssumption DEF Has, Chunk
<1>3. ImageIsFile => Chunks = last + 1
  BY <1>1, CountedImage, ChunksAssumption
<1> QED BY <1>2, <1>3 DEF Kept

LEMMA LateGrows == TypeInv /\ [Next]_vars => late' \in Nat /\ late \in Nat /\ late' >= late
<1> SUFFICES ASSUME TypeInv, [Next]_vars PROVE late' \in Nat /\ late \in Nat /\ late' >= late
  OBVIOUS
<1>1. late \in Nat
  BY BoundsAssumption DEF TypeInv, BusTyped
<1>2. late' = late \/ \E a \in Answers : Waited(a)
  BY DEF Next, Start, Upload, AckHandler, LoseRequest, LoseAck, Handle, ScriptEnds, vars, bus,
         Send, WaitForAck, VersionAsked, StatusAsked, VersionSet, InfoSet, FirstChunkAsked, ChunkAsked,
         ChunkAnnounced, ChunkPushed, ContentVerified, UpdateAsked, Acknowledge, HandleGetVersion,
         HandleGetStatus, HandleSetVersion, HandleSetInfo, HandleGetNextChunk, HandleWriteChunk,
         HandleData, HandleCheckSign, HandleUpdate
<1>3. CASE late' = late
  BY <1>1, <1>3
<1>4. ASSUME NEW a \in Answers, Waited(a) PROVE late' \in Nat /\ late' >= late
  BY <1>4, LateType, BoundsAssumption
<1> QED BY <1>1, <1>2, <1>3, <1>4

\* All but three actions leave the device's image, its count and what is installed alone.
LEMMA ImageKept ==
  [Next]_vars /\ ~HandleSetInfo /\ ~HandleData /\ ~HandleUpdate => UNCHANGED <<image, last, installed>>
BY DEF Next, Start, Upload, AckHandler, LoseRequest, LoseAck, Handle, ScriptEnds, vars, device,
       Send, WaitForAck, VersionAsked, StatusAsked, VersionSet, InfoSet, FirstChunkAsked, ChunkAsked,
       ChunkAnnounced, ChunkPushed, ContentVerified, UpdateAsked, Go, Loop, HandleGetVersion,
       HandleGetStatus, HandleSetVersion, HandleGetNextChunk, HandleWriteChunk, HandleCheckSign

LEMMA PromiseStep ==
  ASSUME TypeInv, TypeInv', InOrder, InOrder', OnlyTheFileIsInstalled', [Next]_vars
  PROVE  [Promise!Next]_(Promise!vars)
<1>a. late' \in Nat /\ late \in Nat /\ late' >= late
  BY LateGrows
<1>b. ASSUME Kept' = Kept, installed' = installed PROVE [Promise!Next]_(Promise!vars)
  <2>1. CASE (late' > 0) = (late > 0)
    BY <1>b, <2>1 DEF Promise!vars
  <2>2. CASE (late' > 0) # (late > 0)
    <3>1. (late' > 0) = TRUE
      BY <1>a, <2>2
    <3> QED BY <1>b, <3>1 DEF Promise!Next, Promise!Delay
  <2> QED BY <2>1, <2>2
<1>c. ASSUME late > 0, late' = late, installed' = installed PROVE [Promise!Next]_(Promise!vars)
  <2>1. Kept' \in 0 .. Chunks \cup {Promise!Spoilt}
    <3>1. (TypeInv => Kept \in 0 .. Chunks \cup {-1})'
      BY KeptType, PTL
    <3> QED BY <3>1 DEF Promise!Spoilt
  <2> QED BY <1>c, <2>1 DEF Promise!Next, Promise!Spoil
<1>1. CASE HandleSetInfo
  <2>1. late' = late /\ UNCHANGED <<image, installed>> /\ last' = IF busy THEN last ELSE AllDone
    BY <1>1 DEF HandleSetInfo, Acknowledge
  <2>2. CASE late = 0
    <3>1. Handles("SET_INFO") /\ Acknowledge(Answer(IF busy THEN "NACK" ELSE "OK")) /\ OneInFlight /\ Due(pc, next)
      BY <1>1, <2>2 DEF HandleSetInfo, InOrder
    <3>2. pc = "SET_INFO"
      BY <3>1, HandledOne
    <3>3. last' = last
      BY <2>1, <3>1, <3>2 DEF Due
    <3>4. Kept' = Kept
      BY <2>1, <3>3 DEF Kept, Has, ImageIsFile
    <3> QED BY <1>b, <2>1, <3>4
  <2>3. CASE late # 0
    BY <1>a, <1>c, <2>1, <2>3
  <2> QED BY <2>2, <2>3
<1>2. CASE HandleData
  <2>1. late' = late /\ installed' = installed
    BY <1>2, DataTyped
  <2>2. CASE late = 0
    <3>1. Counted /\ Counted'
      BY <2>1, <2>2 DEF InOrder
    <3>2. last' \in Chunk /\ last' = last + 1
      <4>1. ~failed /\ ~failed'
        BY <3>1 DEF Counted
      <4>2. DataStored
        BY <1>2, <4>1 DEF HandleData, DataRefused, DataDropped
      <4> QED BY <3>1, <4>2, ChunksAssumption DEF Counted, DataStored, NextChunk, Chunk, AllDone
    <3>3. Kept = last + 1 /\ Kept' = last' + 1
      <4>1. Kept = last + 1
        BY <3>1, KeptCounted
      <4>2. (Counted => Kept = last + 1)'
        BY KeptCounted, PTL
      <4> QED BY <3>1, <4>1, <4>2
    <3>4. Kept \in 0 .. Chunks - 1 /\ Kept' = Kept + 1
      BY <3>2, <3>3 DEF Chunk
    <3> QED BY <2>1, <3>4 DEF Promise!Next, Promise!Store
  <2>3. CASE late # 0
    BY <1>a, <1>c, <2>1, <2>3
  <2> QED BY <2>2, <2>3
<1>3. CASE HandleUpdate
  <2>1. late' = late /\ UNCHANGED <<image, last>>
        /\ installed' = IF busy THEN installed ELSE IF ImageIsFile THEN "file" ELSE "other"
    BY <1>3 DEF HandleUpdate, Acknowledge
  <2>2. Kept' = Kept
    BY <2>1 DEF Kept, Has, ImageIsFile
  <2>3. CASE busy
    BY <1>b, <2>1, <2>2, <2>3
  <2>4. CASE ~busy
    <3>1. ImageIsFile /\ installed' = "file"
      BY <2>1, <2>4 DEF OnlyTheFileIsInstalled
    <3>2. Kept = Chunks
      BY <3>1 DEF Kept
    <3> QED BY <2>1, <2>2, <3>1, <3>2 DEF Promise!Next, Promise!Install
  <2> QED BY <2>3, <2>4
<1>4. CASE ~HandleSetInfo /\ ~HandleData /\ ~HandleUpdate
  <2>1. UNCHANGED <<image, last, installed>>
    BY <1>4, ImageKept
  <2>2. Kept' = Kept
    BY <2>1 DEF Kept, Has, ImageIsFile
  <2> QED BY <1>b, <2>1, <2>2
<1> QED BY <1>1, <1>2, <1>3, <1>4

\* Whatever is lost, retried or late, an upload stores the chunks of the file one after the other
\* until an answer is late, provided that the last defence, the comparison of the sums, holds.
THEOREM PromiseKept == Spec /\ []OnlyTheFileIsInstalled => KeepsPromise
<1>1. Init => Promise!Init
  <2> SUFFICES ASSUME Init PROVE Promise!Init
    OBVIOUS
  <2>1. Counted
    <3>1. \A p \in Chunk : ~(p <= AllDone)
      BY ChunksAssumption DEF Chunk, AllDone
    <3> QED BY <3>1 DEF Init, Counted
  <2>2. Kept = 0
    BY <2>1, KeptCounted DEF Init, AllDone
  <2> QED BY <2>2 DEF Init, Promise!Init
<1>2. TypeInv /\ TypeInv' /\ InOrder /\ InOrder' /\ OnlyTheFileIsInstalled' /\ [Next]_vars
        => [Promise!Next]_(Promise!vars)
  BY PromiseStep
<1> QED BY <1>1, <1>2, TypeInvariant, InOrderInvariant, PTL DEF Spec, KeepsPromise, Promise!Spec

-----------------------------------------------------------------------------
(* The last defence while few answers are late *)

\* How many commands must have ended, at least, since CHECK_SIGN was last sent.
Stages(c) == CASE c \in {"CHECK_SIGN", "UPDATE", "done"} -> 0
               [] c \in {"idle", "GET_VER"} -> 1
               [] c \in {"GET_STATUS", "SET_VERSION"} -> 2
               [] c \in {"SET_INFO", "FIRST_GET"} -> 3
               [] c \in {"GET", "WRITE_CH"} -> 4
               [] c = "DATA" -> 5
Stage   == Stages(pc)
Filled  == IF phase = "wait" /\ slot # NoAnswer THEN 1 ELSE 0
Between == IF phase = "send" THEN 1 ELSE 0

\* One command more than the timeouts that passed an answer by can be outstanding.
Outstanding == Len(req) + Len(ack) + Filled + Between <= late + 1

\* An answer is taken for each command that ended, but for those that ended with a late one: so
\* the place of a CHECK_SIGN, or of its answer, in the queue and what ended since are bounded.
SumsShift   == \A i \in 1 .. Len(ack) : ack[i].ack = "SUM" => i + Stage + Filled <= late + 1
ChecksShift == \A i \in 1 .. Len(req) :
                 req[i].cmd = "CHECK_SIGN" => Len(ack) + i + Stage + Filled <= late + 1

\* An uploader that is not started waits for nothing.
Quiet == pc \notin Commands => phase = "send"

ShiftInv == Quiet /\ Outstanding /\ SumsShift /\ ChecksShift

LEMMA Behind ==
  ASSUME NEW S, NEW s \in Seq(S), s # <<>>
  PROVE  /\ Len(s) \in Nat /\ Len(s) >= 1 /\ Len(Tail(s)) = Len(s) - 1 /\ Head(s) = s[1]
         /\ \A i \in 1 .. Len(Tail(s)) : i + 1 \in 1 .. Len(s) /\ Tail(s)[i] = s[i + 1]
<1>1. Len(s) \in Nat /\ Len(s) >= 1
  BY EmptySeq, LenProperties
<1>2. /\ Len(Tail(s)) = Len(s) - 1 /\ Head(s) = s[1]
      /\ \A i \in 1 .. Len(Tail(s)) : Tail(s)[i] = s[i + 1]
  BY HeadTailProperties
<1> QED BY <1>1, <1>2

LEMMA Joined ==
  ASSUME NEW S, NEW s \in Seq(S), NEW e \in S
  PROVE  /\ Len(s) \in Nat /\ Len(Append(s, e)) = Len(s) + 1
         /\ \A i \in 1 .. Len(s) + 1 : Append(s, e)[i] = IF i <= Len(s) THEN s[i] ELSE e
BY AppendProperties, LenProperties

LEMMA StageValues ==
  /\ Stages("CHECK_SIGN") = 0 /\ Stages("UPDATE") = 0 /\ Stages("done") = 0
  /\ Stages("idle") = 1 /\ Stages("GET_VER") = 1
  /\ Stages("GET_STATUS") = 2 /\ Stages("SET_VERSION") = 2
  /\ Stages("SET_INFO") = 3 /\ Stages("FIRST_GET") = 3
  /\ Stages("GET") = 4 /\ Stages("WRITE_CH") = 4
  /\ Stages("DATA") = 5
BY DEF Stages

LEMMA StageType ==
  ASSUME UploaderTyped PROVE Stage \in 0 .. 5 /\ Filled \in {0, 1} /\ Between \in {0, 1}
<1>1. Stage \in 0 .. 5
  BY StageValues DEF UploaderTyped, Commands, Stage
<1> QED BY <1>1 DEF Filled, Between

\* The head of the commands leaves: unanswered, or with an answer behind those on their way.
LEMMA RequestShift ==
  ASSUME TypeInv, ShiftInv, UNCHANGED <<pc, phase, slot, late>>, req # <<>>, req' = Tail(req),
         \/ ack' = ack
         \/ \E a \in Answers : ack' = Append(ack, a) /\ (a.ack = "SUM" => Head(req).cmd = "CHECK_SIGN")
  PROVE  ShiftInv'
<1>a. UploaderTyped /\ req \in Seq(Sent) /\ ack \in Seq(Answers) /\ late \in Nat
  BY BoundsAssumption DEF TypeInv, BusTyped
<1> DEFINE st == Stage fi == Filled bt == Between
<1>b. st \in 0 .. 5 /\ fi \in {0, 1} /\ bt \in {0, 1} /\ Stage' = st /\ Filled' = fi /\ Between' = bt
  BY <1>a, StageType DEF Stage, Filled, Between
<1>c. /\ Len(req) + Len(ack) + fi + bt <= late + 1
      /\ \A i \in 1 .. Len(ack) : ack[i].ack = "SUM" => i + st + fi <= late + 1
      /\ \A i \in 1 .. Len(req) : req[i].cmd = "CHECK_SIGN" => Len(ack) + i + st + fi <= late + 1
  BY DEF ShiftInv, Quiet, Outstanding, SumsShift, ChecksShift
<1> HIDE DEF st, fi, bt
<1>d. /\ Len(req) \in Nat /\ Len(req) >= 1 /\ Len(req') = Len(req) - 1 /\ Head(req) = req[1]
      /\ \A i \in 1 .. Len(req') : i + 1 \in 1 .. Len(req) /\ req'[i] = req[i + 1]
  BY <1>a, Behind
<1>e. Len(ack) \in Nat
  BY <1>a, LenProperties
<1>1. CASE ack' = ack
  <2>1. Len(req') + Len(ack') + fi + bt <= late + 1
    BY <1>1, <1>b, <1>c, <1>d, <1>e, <1>a
  <2>2. \A i \in 1 .. Len(req') : req'[i].cmd = "CHECK_SIGN" => Len(ack') + i + st + fi <= late + 1
    BY <1>1, <1>b, <1>c, <1>d, <1>e, <1>a
  <2> QED BY <1>1, <1>b, <1>c, <2>1, <2>2 DEF ShiftInv, Quiet, Outstanding, SumsShift, ChecksShift
<1>2. ASSUME NEW a \in Answers, ack' = Append(ack, a), a.ack = "SUM" => Head(req).cmd = "CHECK_SIGN"
      PROVE  ShiftInv'
  <2>1. /\ Len(ack') = Len(ack) + 1
        /\ \A i \in 1 .. Len(ack') : ack'[i] = IF i <= Len(ack) THEN ack[i] ELSE a
    BY <1>2, <1>a, Joined
  <2>2. Len(req') + Len(ack') + fi + bt <= late + 1
    BY <1>b, <1>c, <1>d, <1>e, <1>a, <2>1
  <2>3. \A i \in 1 .. Len(req') : req'[i].cmd = "CHECK_SIGN" => Len(ack') + i + st + fi <= late + 1
    <3> TAKE i \in 1 .. Len(req')
    <3> HAVE req'[i].cmd = "CHECK_SIGN"
    <3>1. Len(ack) + (i + 1) + st + fi <= late + 1
      BY <1>c, <1>d
    <3> QED BY <3>1, <2>1, <1>b, <1>e, <1>a
  <2>4. \A i \in 1 .. Len(ack') : ack'[i].ack = "SUM" => i + st + fi <= late + 1
    <3> TAKE i \in 1 .. Len(ack')
    <3> HAVE ack'[i].ack = "SUM"
    <3>1. CASE i <= Len(ack)
      BY <3>1, <1>c, <1>e, <2>1
    <3>2. CASE i = Len(ack) + 1
      <4>1. req[1].cmd = "CHECK_SIGN" /\ 1 \in 1 .. Len(req)
        BY <3>2, <1>2, <1>d, <1>e, <2>1
      <4>2. Len(ack) + 1 + st + fi <= late + 1
        BY <4>1, <1>c
      <4> QED BY <4>2, <3>2
    <3> QED BY <3>1, <3>2, <2>1, <1>e
  <2> QED BY <1>2, <1>b, <2>2, <2>3, <2>4 DEF ShiftInv, Quiet, Outstanding, SumsShift, ChecksShift
<1> QED BY <1>1, <1>2

\* The head of the answers leaves: it is lost, or fills the slot.
LEMMA AckShift ==
  ASSUME TypeInv, ShiftInv, UNCHANGED <<pc, phase, req, late>>, ack # <<>>, ack' = Tail(ack),
         slot' = slot \/ phase = "wait"
  PROVE  ShiftInv'
<1>a. UploaderTyped /\ req \in Seq(Sent) /\ ack \in Seq(Answers) /\ late \in Nat
  BY BoundsAssumption DEF TypeInv, BusTyped
<1> DEFINE st == Stage fi == Filled bt == Between fn == IF phase' = "wait" /\ slot' # NoAnswer THEN 1 ELSE 0
<1>b. st \in 0 .. 5 /\ fi \in {0, 1} /\ bt \in {0, 1} /\ Stage' = st /\ Filled' = fn /\ Between' = bt
      /\ fn \in {0, 1} /\ fn <= fi + 1
  <2>1. st \in 0 .. 5 /\ fi \in {0, 1} /\ bt \in {0, 1} /\ Stage' = st /\ Between' = bt
    BY <1>a, StageType DEF Stage, Between
  <2>2. Filled' = fn
    BY DEF Filled, NoAnswer, Answer
  <2>3. fn \in {0, 1}
    OBVIOUS
  <2> QED BY <2>1, <2>2, <2>3
<1>c. /\ Len(req) + Len(ack) + fi + bt <= late + 1
      /\ \A i \in 1 .. Len(ack) : ack[i].ack = "SUM" => i + st + fi <= late + 1
      /\ \A i \in 1 .. Len(req) : req[i].cmd = "CHECK_SIGN" => Len(ack) + i + st + fi <= late + 1
  BY DEF ShiftInv, Quiet, Outstanding, SumsShift, ChecksShift
<1> HIDE DEF st, fi, bt, fn
<1>d. /\ Len(ack) \in Nat /\ Len(ack) >= 1 /\ Len(ack') = Len(ack) - 1
      /\ \A i \in 1 .. Len(ack') : i + 1 \in 1 .. Len(ack) /\ ack'[i] = ack[i + 1]
  BY <1>a, Behind
<1>e. Len(req) \in Nat
  BY <1>a, LenProperties
<1>1. Len(req') + Len(ack') + fn + bt <= late + 1
  BY <1>b, <1>c, <1>d, <1>e, <1>a
<1>2. \A i \in 1 .. Len(ack') : ack'[i].ack = "SUM" => i + st + fn <= late + 1
  <2> TAKE i \in 1 .. Len(ack')
  <2> HAVE ack'[i].ack = "SUM"
  <2>1. (i + 1) + st + fi <= late + 1
    BY <1>c, <1>d
  <2> QED BY <2>1, <1>b, <1>d, <1>a
<1>3. \A i \in 1 .. Len(req') : req'[i].cmd = "CHECK_SIGN" => Len(ack') + i + st + fn <= late + 1
  <2> TAKE i \in 1 .. Len(req')
  <2> HAVE req'[i].cmd = "CHECK_SIGN"
  <2>1. Len(ack) + i + st + fi <= late + 1
    BY <1>c
  <2> QED BY <2>1, <1>b, <1>d, <1>e, <1>a
<1> QED BY <1>b, <1>1, <1>2, <1>3 DEF ShiftInv, Quiet, Outstanding, SumsShift, ChecksShift

\* The uploader goes on: a command has ended.
LEMMA WaitedShift ==
  ASSUME TypeInv, ShiftInv, NEW a, Waited(a), NEW c, Go(c), Stage' \in Int, Stage' <= Stage + 1
  PROVE  ShiftInv'
<1>a. UploaderTyped /\ req \in Seq(Sent) /\ ack \in Seq(Answers) /\ late \in Nat
  BY BoundsAssumption DEF TypeInv, BusTyped
<1> DEFINE st == Stage fi == Filled sn == Stage'
<1>b. /\ st \in 0 .. 5 /\ fi = (IF a # NoAnswer THEN 1 ELSE 0) /\ Between = 0 /\ Filled' = 0 /\ Between' = 1
      /\ sn \in Int /\ sn <= st + 1 /\ req' = req /\ ack' = ack /\ phase' = "send"
  BY <1>a, StageType DEF Filled, Between, Waited, Go
<1>c. /\ Len(req) + Len(ack) + fi + 0 <= late + 1
      /\ \A i \in 1 .. Len(ack) : ack[i].ack = "SUM" => i + st + fi <= late + 1
      /\ \A i \in 1 .. Len(req) : req[i].cmd = "CHECK_SIGN" => Len(ack) + i + st + fi <= late + 1
  BY <1>b DEF ShiftInv, Quiet, Outstanding, SumsShift, ChecksShift
<1> HIDE DEF st, fi, sn
<1>d. Len(req) \in Nat /\ Len(ack) \in Nat
  BY <1>a, LenProperties
<1>e. ASSUME late' \in Nat, late + 1 <= late' + fi PROVE ShiftInv'
  <2> DEFINE ln == late'
  <2>0. fi \in 0 .. 1 /\ ln \in Nat /\ late + 1 <= ln + fi
    BY <1>b, <1>e
  <2> HIDE DEF ln
  <2>1. Len(req) + Len(ack) + 0 + 1 <= ln + 1
    <3>1. Len(req) + Len(ack) + fi + 0 <= late + 1
      BY <1>c
    <3> QED BY <3>1, <1>d, <1>a, <2>0
  <2>2. \A i \in 1 .. Len(ack) : ack[i].ack = "SUM" => i + sn + 0 <= ln + 1
    <3> TAKE i \in 1 .. Len(ack)
    <3> HAVE ack[i].ack = "SUM"
    <3>1. i + st + fi <= late + 1
      BY <1>c
    <3> QED BY <3>1, <1>b, <1>d, <1>a, <2>0
  <2>3. \A i \in 1 .. Len(req) : req[i].cmd = "CHECK_SIGN" => Len(ack) + i + sn + 0 <= ln + 1
    <3> TAKE i \in 1 .. Len(req)
    <3> HAVE req[i].cmd = "CHECK_SIGN"
    <3>1. Len(ack) + i + st + fi <= late + 1
      BY <1>c
    <3> QED BY <3>1, <1>b, <1>d, <1>a, <2>0
  <2> QED BY <1>b, <2>1, <2>2, <2>3 DEF ShiftInv, Quiet, Outstanding, SumsShift, ChecksShift, sn, ln
<1>1. CASE a # NoAnswer /\ late' = late
  BY <1>1, <1>a, <1>b, <1>e
<1>2. CASE a = NoAnswer /\ req = <<>> /\ ack = <<>> /\ late' = late
  <2>1. Len(req) = 0 /\ Len(ack) = 0
    BY <1>2
  <2> QED BY <1>2, <1>a, <1>b, <2>1 DEF ShiftInv, Quiet, Outstanding, SumsShift, ChecksShift
<1>3. CASE a = NoAnswer /\ late' = late + 1
  BY <1>3, <1>a, <1>b, <1>e
<1> QED BY <1>1, <1>2, <1>3 DEF Waited

\* A command that ends, and what it takes to come to UPDATE.
LEMMA CommandEnds ==
  ASSUME TypeInv, Upload, ~Send, ~WaitForAck
  PROVE  \E a \in Answers, c \in Commands \cup {"idle", "done"} :
           /\ Waited(a) /\ Go(c) /\ Stage' \in Int /\ Stage' <= Stage + 1
           /\ c = "UPDATE" => pc = "CHECK_SIGN" /\ a = SumIs(TRUE)
<1> DEFINE Ended(a, c) == /\ Waited(a) /\ Go(c) /\ Stage' \in Int /\ Stage' <= Stage + 1
                          /\ c = "UPDATE" => pc = "CHECK_SIGN" /\ a = SumIs(TRUE)
<1> SUFFICES \E a \in Answers, c \in Commands \cup {"idle", "done"} : Ended(a, c)
  OBVIOUS
<1>a. {"idle", "done", "GET_VER", "GET_STATUS", "SET_VERSION", "SET_INFO", "FIRST_GET", "GET",
       "WRITE_CH", "DATA", "CHECK_SIGN", "UPDATE"} = Commands \cup {"idle", "done"}
  BY DEF Commands
<1>b. ASSUME NEW a \in Answers, Waited(a),
             NEW c \in {"idle", "done", "GET_VER", "GET_STATUS", "SET_VERSION", "SET_INFO", "FIRST_GET",
                        "GET", "WRITE_CH", "DATA", "CHECK_SIGN", "UPDATE"}, Go(c),
             \/ c \in {"CHECK_SIGN", "done", "idle", "GET_VER"}
             \/ pc = "GET_VER" /\ c \in {"GET_STATUS", "SET_VERSION"}
             \/ pc = "GET_STATUS" /\ c = "SET_VERSION"
             \/ pc = "SET_VERSION" /\ c \in {"SET_INFO", "FIRST_GET"}
             \/ pc = "SET_INFO" /\ c = "FIRST_GET"
             \/ pc \in {"FIRST_GET", "GET", "WRITE_CH", "DATA"} /\ c \in {"GET", "WRITE_CH"}
             \/ pc = "WRITE_CH" /\ c = "DATA"
             \/ pc = "CHECK_SIGN" /\ c = "UPDATE" /\ a = SumIs(TRUE)
      PROVE  \E b \in Answers, d \in Commands \cup {"idle", "done"} : Ended(b, d)
  <2>1. pc' = c
    BY <1>b DEF Go
  <2>2. Stage \in 0 .. 5
    BY StageType DEF TypeInv
  <2>3. Stage' \in 0 .. 5
    BY <1>b, <2>1, StageValues DEF Stage
  <2>4. Stage' <= Stage + 1
    <3>1. CASE c \in {"CHECK_SIGN", "done", "idle", "GET_VER", "UPDATE"}
      BY <3>1, <2>1, <2>2, StageValues DEF Stage
    <3>2. CASE c \in {"GET_STATUS", "SET_VERSION"}
        <4>1. pc \in {"GET_VER", "GET_STATUS"}
        BY <3>2, <1>b
      <4> QED BY <3>2, <4>1, <2>1, StageValues DEF Stage
    <3>3. CASE c \in {"SET_INFO", "FIRST_GET"}
        <4>1. pc \in {"SET_VERSION", "SET_INFO"}
        BY <3>3, <1>b
      <4> QED BY <3>3, <4>1, <2>1, StageValues DEF Stage
    <3>4. CASE c \in {"GET", "WRITE_CH", "DATA"}
        <4>1. pc \in {"FIRST_GET", "GET", "WRITE_CH", "DATA"} /\ (pc \in {"FIRST_GET", "DATA", "GET"} => c # "DATA")
        BY <3>4, <1>b
      <4> QED BY <3>4, <4>1, <2>1, StageValues DEF Stage
    <3> QED BY <3>1, <3>2, <3>3, <3>4
  <2>5. c = "UPDATE" => pc = "CHECK_SIGN" /\ a = SumIs(TRUE)
    BY <1>b
  <2>6. Stage' \in Int
    BY <2>3
  <2>7. Ended(a, c)
    BY <1>b, <2>4, <2>5, <2>6
  <2> HIDE DEF Ended
  <2> QED BY <1>a, <2>7
<1>c. ASSUME NEW a \in Answers, Waited(a), NEW n, Loop(n), pc \in {"FIRST_GET", "GET", "WRITE_CH", "DATA"}
      PROVE  \E b \in Answers, d \in Commands \cup {"idle", "done"} : Ended(b, d)
  BY <1>b, <1>c DEF Loop
<1> HIDE DEF Ended
<1>1. CASE VersionAsked
  BY <1>1, <1>b DEF VersionAsked
<1>2. CASE StatusAsked
  BY <1>2, <1>b DEF StatusAsked
<1>3. CASE VersionSet
  BY <1>3, <1>b DEF VersionSet
<1>4. CASE InfoSet
  BY <1>4, <1>b DEF InfoSet
<1>5. CASE FirstChunkAsked
  BY <1>5, <1>c DEF FirstChunkAsked
<1>6. CASE ChunkAsked
  BY <1>6, <1>b, <1>c DEF ChunkAsked
<1>7. CASE ChunkAnnounced
  BY <1>7, <1>b DEF ChunkAnnounced
<1>8. CASE ChunkPushed
  BY <1>8, <1>c DEF ChunkPushed
<1>9. CASE ContentVerified
  <2>1. PICK a \in Answers : Waited(a) /\ Go(IF a.ack = "SUM" /\ a.same THEN "UPDATE" ELSE "idle")
    BY <1>9 DEF ContentVerified
  <2>2. a.ack = "SUM" /\ a.same => a = SumIs(TRUE)
    BY DEF Answers, SumIs
  <2> QED BY <1>9, <1>b, <2>1, <2>2 DEF ContentVerified
<1>10. CASE UpdateAsked
  BY <1>10, <1>b DEF UpdateAsked
<1> QED BY <1>1, <1>2, <1>3, <1>4, <1>5, <1>6, <1>7, <1>8, <1>9, <1>10 DEF Upload

\* What the device does to the queues: it answers the head of the commands.
LEMMA Handled ==
  ASSUME TypeInv, Handle
  PROVE  \E a \in Answers :
           /\ req # <<>> /\ Acknowledge(a)
           /\ a.ack = "SUM" => Head(req).cmd = "CHECK_SIGN"
           /\ a = SumIs(TRUE) => ImageIsFile
           /\ image' = image \/ Head(req).cmd = "DATA"
           /\ installed' = installed \/ (Head(req).cmd = "UPDATE" /\ (ImageIsFile => installed' = "file"))
<1>a. UploaderTyped /\ BusTyped /\ DeviceTyped
  BY DEF TypeInv
<1>b. ASSUME NEW x \in {"OK", "EXISTS", "NACK", "VERSION", "STATUS", "TIMEOUT"}
      PROVE  Answer(x) \in Answers /\ Answer(x).ack # "SUM" /\ Answer(x) # SumIs(TRUE)
  BY AnswerTypes DEF Answer, SumIs
<1>c. ASSUME NEW n \in Chunk \cup {AllDone}
      PROVE  NextIs(n) \in Answers /\ NextIs(n).ack # "SUM" /\ NextIs(n) # SumIs(TRUE)
  BY AnswerTypes DEF NextIs, SumIs
<1>1. CASE HandleGetVersion
  BY <1>1, <1>b DEF HandleGetVersion, Handles, device
<1>2. CASE HandleGetStatus
  BY <1>2, <1>b DEF HandleGetStatus, Handles, device
<1>3. CASE HandleSetVersion
  BY <1>3, <1>b DEF HandleSetVersion, Handles
<1>4. CASE HandleSetInfo
  BY <1>4, <1>b DEF HandleSetInfo, Handles
<1>5. CASE HandleGetNextChunk
  <2>1. (IF info THEN NextChunk ELSE AllDone) \in Chunk \cup {AllDone}
    BY <1>a, NextChunkType
  <2> QED BY <1>5, <1>b, <1>c, <2>1 DEF HandleGetNextChunk, Handles, device, Missing
<1>6. CASE HandleWriteChunk
  BY <1>6, <1>b DEF HandleWriteChunk, Handles, device
<1>7. CASE HandleData
  <2>1. /\ req # <<>> /\ Head(req).cmd = "DATA" /\ installed' = installed
        /\ NextIs(NextChunk') \in Answers
    BY <1>7, DataTyped
  <2>2. Acknowledge(NextIs(NextChunk'))
    BY <1>7 DEF HandleData
  <2>3. NextIs(NextChunk').ack # "SUM" /\ NextIs(NextChunk') # SumIs(TRUE)
    BY DEF NextIs, SumIs
  <2> QED BY <2>1, <2>2, <2>3
<1>8. CASE HandleCheckSign
  <2>1. /\ req # <<>> /\ Head(req).cmd = "CHECK_SIGN" /\ UNCHANGED <<image, installed>>
        /\ Acknowledge(IF ImageExists THEN SumIs(ImageIsFile) ELSE Answer("NACK"))
    BY <1>8 DEF HandleCheckSign, Handles, device
  <2>2. SumIs(ImageIsFile) \in Answers /\ (SumIs(ImageIsFile) = SumIs(TRUE) => ImageIsFile)
    <3>1. ImageIsFile \in BOOLEAN
      BY DEF ImageIsFile
    <3>2. SumIs(ImageIsFile).same = ImageIsFile /\ SumIs(TRUE).same = TRUE
      BY DEF SumIs
    <3> QED BY <3>1, <3>2, AnswerTypes
  <2>3. CASE ImageExists
    BY <2>1, <2>2, <2>3
  <2>4. CASE ~ImageExists
    BY <1>b, <2>1, <2>4
  <2> QED BY <2>3, <2>4
<1>9. CASE HandleUpdate
  BY <1>9, <1>b DEF HandleUpdate, Handles
<1> QED BY <1>1, <1>2, <1>3, <1>4, <1>5, <1>6, <1>7, <1>8, <1>9 DEF Handle

LEMMA ShiftStep == TypeInv /\ ShiftInv /\ [Next]_vars => ShiftInv'
<1> SUFFICES ASSUME TypeInv, ShiftInv, [Next]_vars PROVE ShiftInv'
  OBVIOUS
<1>a. UploaderTyped /\ req \in Seq(Sent) /\ ack \in Seq(Answers) /\ late \in Nat
  BY BoundsAssumption DEF TypeInv, BusTyped
<1>b. ASSUME UNCHANGED <<pc, phase, slot, req, ack, late>> PROVE ShiftInv'
  BY <1>b DEF ShiftInv, Quiet, Outstanding, SumsShift, ChecksShift, Stage, Filled, Between
<1>1. CASE Start
  <2>1. pc = "idle" /\ pc' = "GET_VER" /\ phase = "send" /\ phase' = "send" /\ UNCHANGED <<req, ack, late>>
    BY <1>1 DEF Start, Go, ShiftInv, Quiet, Commands
  <2>2. Stage' = Stage /\ Filled' = Filled /\ Between' = Between
    BY <2>1, StageValues DEF Stage, Filled, Between
  <2> QED BY <2>1, <2>2 DEF ShiftInv, Quiet, Outstanding, SumsShift, ChecksShift
<1>2. CASE Send
  <2>1. /\ phase = "send" /\ phase' = "sent" /\ UNCHANGED <<pc, ack, late>> /\ pc \in Commands
        /\ req' = Append(req, Packet(pc)) /\ Packet(pc) \in Sent
    BY <1>2, <1>a, PacketType DEF Send
  <2>2. /\ Len(req) \in Nat /\ Len(req') = Len(req) + 1
        /\ \A i \in 1 .. Len(req) + 1 : req'[i] = IF i <= Len(req) THEN req[i] ELSE Packet(pc)
    BY <1>a, <2>1, Joined
  <2>3. Len(ack) \in Nat
    BY <1>a, LenProperties
  <2>4. Filled = 0 /\ Filled' = 0 /\ Between = 1 /\ Between' = 0 /\ Stage' = Stage
    BY <2>1 DEF Filled, Between, Stage
  <2> DEFINE st == Stage
  <2>5. /\ Len(req) + Len(ack) + 0 + 1 <= late + 1
        /\ \A i \in 1 .. Len(ack) : ack[i].ack = "SUM" => i + st + 0 <= late + 1
        /\ \A i \in 1 .. Len(req) : req[i].cmd = "CHECK_SIGN" => Len(ack) + i + st + 0 <= late + 1
    BY <2>4 DEF ShiftInv, Quiet, Outstanding, SumsShift, ChecksShift
  <2>6. Packet(pc).cmd = "CHECK_SIGN" => st = 0
    BY StageValues DEF Packet, Stage
  <2> HIDE DEF st
  <2>7. \A i \in 1 .. Len(req') : req'[i].cmd = "CHECK_SIGN" => Len(ack) + i + st + 0 <= late + 1
    <3> TAKE i \in 1 .. Len(req')
    <3> HAVE req'[i].cmd = "CHECK_SIGN"
    <3>1. CASE i <= Len(req)
      BY <3>1, <2>2, <2>5
    <3>2. CASE i = Len(req) + 1
      <4>1. st = 0
        BY <3>2, <2>2, <2>6
      <4> QED BY <4>1, <3>2, <2>2, <2>3, <2>5, <1>a
    <3> QED BY <3>1, <3>2, <2>2
  <2>8. Len(req') + Len(ack) + 0 + 0 <= late + 1
    BY <2>2, <2>3, <2>5, <1>a
  <2> QED BY <2>1, <2>4, <2>5, <2>7, <2>8 DEF ShiftInv, Quiet, Outstanding, SumsShift, ChecksShift, st
<1>3. CASE WaitForAck
  <2>1. phase = "sent" /\ Filled' = 0 /\ Filled = 0 /\ Between' = 0 /\ Between = 0 /\ UNCHANGED <<pc, req, ack, late>>
    BY <1>3 DEF WaitForAck, bus, Filled, Between
  <2>2. Stage' = Stage
    BY <2>1 DEF Stage
  <2> QED BY <2>1, <2>2 DEF ShiftInv, Quiet, Outstanding, SumsShift, ChecksShift
<1>4. CASE Upload /\ ~Send /\ ~WaitForAck
  <2>1. PICK a \in Answers, c \in Commands \cup {"idle", "done"} :
          Waited(a) /\ Go(c) /\ Stage' \in Int /\ Stage' <= Stage + 1
    BY <1>4, CommandEnds
  <2> QED BY <2>1, WaitedShift
<1>5. CASE AckHandler
  BY <1>5, AckShift DEF AckHandler
<1>6. CASE LoseRequest
  <2>1. Answer("NACK") \in Answers /\ Answer("NACK").ack # "SUM"
    BY AnswerTypes DEF Answer
  <2> QED BY <1>6, <2>1, RequestShift DEF LoseRequest, uploader
<1>7. CASE LoseAck
  BY <1>7, AckShift DEF LoseAck, uploader
<1>8. CASE Handle
  <2>1. PICK a \in Answers : req # <<>> /\ Acknowledge(a) /\ (a.ack = "SUM" => Head(req).cmd = "CHECK_SIGN")
    BY <1>8, Handled
  <2> QED BY <2>1, RequestShift DEF Acknowledge, uploader
<1>9. CASE ScriptEnds \/ UNCHANGED vars
  BY <1>9, <1>b DEF ScriptEnds, vars, uploader, bus
<1> QED BY <1>1, <1>2, <1>3, <1>4, <1>5, <1>6, <1>7, <1>8, <1>9 DEF Next

LEMMA ShiftInvariant == Spec => []ShiftInv
<1>1. Init => ShiftInv
  <2> SUFFICES ASSUME Init PROVE ShiftInv
    OBVIOUS
  <2>1. phase = "send" /\ late = 0 /\ Len(req) = 0 /\ Len(ack) = 0 /\ Filled = 0 /\ Between = 1
    BY DEF Init, Filled, Between
  <2> QED BY <2>1 DEF ShiftInv, Quiet, Outstanding, SumsShift, ChecksShift
<1> QED BY <1>1, ShiftStep, TypeInvariant, PTL DEF Spec

\* The first n commands on their way leave the file in the image.
Safe(n) == ImageIsFile /\ \A i \in 1 .. n : req[i].cmd # "DATA"

\* A sum that is, or is about to be, compared stands for the image as it will be when USER_UPDATE
\* is handled: no chunk is on its way behind a CHECK_SIGN.
CleanInv ==
  /\ \A i, j \in 1 .. Len(req) : i < j /\ req[i].cmd = "CHECK_SIGN" => req[j].cmd # "DATA"
  /\ \A i \in 1 .. Len(ack) : ack[i] = SumIs(TRUE) => Safe(Len(req))
  /\ pc = "CHECK_SIGN" /\ phase = "wait" /\ slot = SumIs(TRUE) => Safe(Len(req))
  /\ pc = "UPDATE" /\ phase = "send" => Safe(Len(req))
  /\ \A i \in 1 .. Len(req) : req[i].cmd = "UPDATE" => Safe(i - 1)

\* The head of the commands leaves, and DATA only when no sum is relied on.
LEMMA RequestClean ==
  ASSUME TypeInv, CleanInv, UNCHANGED <<pc, phase, slot>>, req # <<>>, req' = Tail(req),
         image' = image \/ Head(req).cmd = "DATA",
         \/ ack' = ack
         \/ \E a \in Answers :
              /\ ack' = Append(ack, a)
              /\ a = SumIs(TRUE) => ImageIsFile /\ Head(req).cmd = "CHECK_SIGN"
  PROVE  CleanInv'
<1>a. req \in Seq(Sent) /\ ack \in Seq(Answers)
  BY DEF TypeInv, BusTyped
<1>b. /\ Len(req) \in Nat /\ Len(req) >= 1 /\ Len(req') = Len(req) - 1 /\ Head(req) = req[1]
      /\ \A i \in 1 .. Len(req') : i + 1 \in 1 .. Len(req) /\ req'[i] = req[i + 1]
  BY <1>a, Behind
<1>c. ASSUME NEW n \in 1 .. Len(req), Safe(n) PROVE Safe(n - 1)'
  <2>1. ImageIsFile /\ req[1].cmd # "DATA" /\ \A i \in 1 .. n : req[i].cmd # "DATA"
    BY <1>b, <1>c DEF Safe
  <2>2. ImageIsFile'
    BY <1>b, <2>1 DEF ImageIsFile
  <2>3. \A i \in 1 .. n - 1 : req'[i].cmd # "DATA"
    BY <1>b, <2>1
  <2> QED BY <2>2, <2>3 DEF Safe
<1>d. ASSUME Safe(Len(req)) PROVE Safe(Len(req))'
  <2>0. Len(req) \in 1 .. Len(req)
    BY <1>b
  <2>1. PICK n \in 1 .. Len(req) : n = Len(req)
    BY <2>0, Zenon
  <2>2. Safe(n)
    BY <1>d, <2>1
  <2>3. Safe(n - 1)' /\ Len(req') = n - 1
    BY <1>b, <1>c, <2>1, <2>2
  <2> QED BY <2>3 DEF Safe
<1>1. \A i, j \in 1 .. Len(req') : i < j /\ req'[i].cmd = "CHECK_SIGN" => req'[j].cmd # "DATA"
  <2> TAKE i, j \in 1 .. Len(req')
  <2> HAVE i < j /\ req'[i].cmd = "CHECK_SIGN"
  <2>1. i + 1 \in 1 .. Len(req) /\ j + 1 \in 1 .. Len(req) /\ i + 1 < j + 1 /\ req[i + 1].cmd = "CHECK_SIGN"
        /\ req'[j] = req[j + 1]
    BY <1>b
  <2> QED BY <2>1 DEF CleanInv
<1>2. \A i \in 1 .. Len(ack') : ack'[i] = SumIs(TRUE) => Safe(Len(req))' 
  <2> SUFFICES ASSUME NEW i \in 1 .. Len(ack'), ack'[i] = SumIs(TRUE) PROVE Safe(Len(req))'
    OBVIOUS
  <2>1. CASE i \in 1 .. Len(ack) /\ ack'[i] = ack[i]
    <3>1. Safe(Len(req))
      BY <2>1 DEF CleanInv
    <3> QED BY <1>d, <3>1
  <2>2. CASE ~(i \in 1 .. Len(ack) /\ ack'[i] = ack[i])
    <3>1. PICK a \in Answers : ack' = Append(ack, a) /\ (a = SumIs(TRUE) => ImageIsFile /\ Head(req).cmd = "CHECK_SIGN")
      BY <2>2
    <3>2. /\ Len(ack) \in Nat /\ Len(ack') = Len(ack) + 1
          /\ \A k \in 1 .. Len(ack) + 1 : ack'[k] = IF k <= Len(ack) THEN ack[k] ELSE a
      BY <1>a, <3>1, Joined
    <3>3. ack'[i] = a
      <4>1. i \in 1 .. Len(ack) + 1 /\ (i <= Len(ack) => i \in 1 .. Len(ack))
        BY <3>2
      <4> QED BY <2>2, <3>2, <4>1
    <3>4. ImageIsFile /\ req[1].cmd = "CHECK_SIGN"
      BY <1>b, <3>1, <3>3
    <3>5. \A j \in 1 .. Len(req) : req[j].cmd # "DATA"
      BY <1>b, <3>4 DEF CleanInv
    <3>6. Safe(Len(req))
      BY <3>4, <3>5 DEF Safe
    <3> QED BY <1>d, <3>6
  <2> QED BY <2>1, <2>2
<1>3. (pc = "CHECK_SIGN" /\ phase = "wait" /\ slot = SumIs(TRUE)) \/ (pc = "UPDATE" /\ phase = "send")
        => Safe(Len(req))'
  <2> HAVE (pc = "CHECK_SIGN" /\ phase = "wait" /\ slot = SumIs(TRUE)) \/ (pc = "UPDATE" /\ phase = "send")
  <2>1. Safe(Len(req))
    BY DEF CleanInv
  <2> QED BY <1>d, <2>1
<1>4. \A i \in 1 .. Len(req') : req'[i].cmd = "UPDATE" => Safe(i - 1)'
  <2> SUFFICES ASSUME NEW i \in 1 .. Len(req'), req'[i].cmd = "UPDATE" PROVE Safe(i - 1)'
    OBVIOUS
  <2>1. i + 1 \in 1 .. Len(req) /\ req[i + 1].cmd = "UPDATE" /\ (i + 1) - 1 = i /\ i \in 1 .. Len(req)
    BY <1>b
  <2>2. Safe(i)
    BY <2>1 DEF CleanInv
  <2> QED BY <1>c, <2>1, <2>2
<1>5. SumIs(TRUE)' = SumIs(TRUE)
  BY DEF SumIs
<1> QED BY <1>1, <1>2, <1>3, <1>4, <1>5 DEF CleanInv

LEMMA CleanStep == TypeInv /\ ShiftInv /\ late <= 4 /\ CleanInv /\ [Next]_vars => CleanInv'
<1> SUFFICES ASSUME TypeInv, ShiftInv, late <= 4, CleanInv, [Next]_vars PROVE CleanInv'
  OBVIOUS
<1>a. /\ UploaderTyped /\ req \in Seq(Sent) /\ ack \in Seq(Answers) /\ late \in Nat /\ late <= 4
      /\ Len(req) \in Nat /\ Len(ack) \in Nat
  BY BoundsAssumption, LenProperties DEF TypeInv, BusTyped
<1>b. ASSUME UNCHANGED <<req, image>>, ack' = ack,
             \/ phase' = "send" /\ (pc' = "UPDATE" => pc = "CHECK_SIGN" /\ phase = "wait" /\ slot = SumIs(TRUE))
             \/ slot' # SumIs(TRUE) /\ phase' = "wait"
             \/ UNCHANGED <<pc, phase, slot>>
      PROVE  CleanInv'
  <2>1. SumIs(TRUE)' = SumIs(TRUE) /\ (ImageIsFile' <=> ImageIsFile)
    BY <1>b DEF SumIs, ImageIsFile
  <2> QED BY <1>b, <2>1 DEF CleanInv, Safe
<1>c. ASSUME ack # <<>>, ack' = Tail(ack), UNCHANGED <<pc, phase, req, image>>,
             slot' = slot \/ slot' = Head(ack)
      PROVE  CleanInv'
  <2>1. /\ 1 \in 1 .. Len(ack) /\ Len(ack') = Len(ack) - 1 /\ Head(ack) = ack[1]
        /\ \A i \in 1 .. Len(ack') : i + 1 \in 1 .. Len(ack) /\ ack'[i] = ack[i + 1]
    BY <1>a, <1>c, Behind
  <2>2. SumIs(TRUE)' = SumIs(TRUE) /\ (ImageIsFile' <=> ImageIsFile)
    BY <1>c DEF SumIs, ImageIsFile
  <2>3. \A i \in 1 .. Len(ack') : ack'[i] = SumIs(TRUE) => Safe(Len(req))
    BY <2>1 DEF CleanInv
  <2>4. Head(ack) = SumIs(TRUE) => Safe(Len(req))
    BY <2>1 DEF CleanInv
  <2> QED BY <1>c, <2>2, <2>3, <2>4 DEF CleanInv, Safe
<1>1. CASE Start
  BY <1>1, <1>b DEF Start, Go, device
<1>2. CASE Send
  <2>1. /\ phase = "send" /\ phase' = "sent" /\ UNCHANGED <<pc, slot, ack, image>> /\ pc \in Commands
        /\ req' = Append(req, Packet(pc)) /\ Packet(pc) \in Sent
    BY <1>2, <1>a, PacketType DEF Send, device
  <2>2. /\ Len(req') = Len(req) + 1
        /\ \A i \in 1 .. Len(req) + 1 : req'[i] = IF i <= Len(req) THEN req[i] ELSE Packet(pc)
    BY <1>a, <2>1, Joined
  <2>3. SumIs(TRUE)' = SumIs(TRUE) /\ (ImageIsFile' <=> ImageIsFile)
    BY <2>1 DEF SumIs, ImageIsFile
  \* Five commands ended since CHECK_SIGN was last sent: its answer was taken.
  <2>4. Packet(pc).cmd = "DATA" =>
          /\ \A i \in 1 .. Len(req) : req[i].cmd # "CHECK_SIGN"
          /\ \A i \in 1 .. Len(ack) : ack[i].ack # "SUM"
    <3> HAVE Packet(pc).cmd = "DATA"
    <3>1. Stage = 5 /\ Filled \in {0, 1}
      <4>1. pc = "DATA"
        BY DEF Packet
      <4> QED BY <4>1, <1>a, StageValues, StageType DEF Stage
    <3>2. \A i \in 1 .. Len(req) : Len(ack) + i + Stage + Filled > late + 1
      BY <1>a, <3>1
    <3>3. \A i \in 1 .. Len(ack) : i + Stage + Filled > late + 1
      BY <1>a, <3>1
    <3>4. \A i \in 1 .. Len(req) : req[i].cmd # "CHECK_SIGN"
      BY <1>a, <3>1, <3>2 DEF ShiftInv, ChecksShift
    <3>5. \A i \in 1 .. Len(ack) : ack[i].ack # "SUM"
      BY <1>a, <3>1, <3>3 DEF ShiftInv, SumsShift
    <3> QED BY <3>4, <3>5
  <2>5. \A i, j \in 1 .. Len(req') : i < j /\ req'[i].cmd = "CHECK_SIGN" => req'[j].cmd # "DATA"
    <3> TAKE i, j \in 1 .. Len(req')
    <3> HAVE i < j /\ req'[i].cmd = "CHECK_SIGN"
    <3>1. i \in 1 .. Len(req) /\ req[i].cmd = "CHECK_SIGN"
      BY <1>a, <2>2
    <3>2. CASE j <= Len(req)
      BY <1>a, <2>2, <3>1, <3>2 DEF CleanInv
    <3>3. CASE j = Len(req) + 1
      BY <1>a, <2>2, <2>4, <3>1, <3>3
    <3> QED BY <1>a, <2>2, <3>2, <3>3
  <2>6. ASSUME Safe(Len(req)), Packet(pc).cmd # "DATA" PROVE Safe(Len(req))'
    BY <1>a, <2>2, <2>3, <2>6 DEF Safe
  <2>7. \A i \in 1 .. Len(ack') : ack'[i] = SumIs(TRUE) => Safe(Len(req))'
    <3> SUFFICES ASSUME NEW i \in 1 .. Len(ack), ack[i] = SumIs(TRUE) PROVE Safe(Len(req))'
      BY <2>1
    <3>1. Safe(Len(req))
      BY DEF CleanInv
    <3>2. ack[i].ack = "SUM"
      BY DEF SumIs
    <3> QED BY <2>4, <2>6, <3>1, <3>2
  <2>8. \A i \in 1 .. Len(req') : req'[i].cmd = "UPDATE" => Safe(i - 1)'
    <3> SUFFICES ASSUME NEW i \in 1 .. Len(req'), req'[i].cmd = "UPDATE" PROVE Safe(i - 1)'
      OBVIOUS
    <3>1. Safe(i - 1)
      <4>1. CASE i <= Len(req)
        BY <1>a, <2>2, <4>1 DEF CleanInv
      <4>2. CASE i = Len(req) + 1
        <5>1. pc = "UPDATE" /\ i - 1 = Len(req)
          BY <1>a, <2>2, <4>2 DEF Packet
        <5> QED BY <2>1, <5>1 DEF CleanInv
      <4> QED BY <1>a, <2>2, <4>1, <4>2
    <3>2. \A k \in 1 .. i - 1 : req'[k] = req[k]
      BY <1>a, <2>2
    <3> QED BY <2>3, <3>1, <3>2 DEF Safe
  <2> QED BY <2>1, <2>3, <2>5, <2>7, <2>8 DEF CleanInv
<1>3. CASE WaitForAck
  <2>1. NoAnswer # SumIs(TRUE)
    BY DEF NoAnswer, Answer, SumIs
  <2> QED BY <1>3, <1>b, <2>1 DEF WaitForAck, bus, device
<1>4. CASE Upload /\ ~Send /\ ~WaitForAck
  <2>1. PICK a \in Answers, c \in Commands \cup {"idle", "done"} :
          Waited(a) /\ Go(c) /\ (c = "UPDATE" => pc = "CHECK_SIGN" /\ a = SumIs(TRUE))
    BY <1>4, CommandEnds
  <2> QED BY <2>1, <1>b DEF Waited, Go, device
<1>5. CASE AckHandler
  BY <1>5, <1>c DEF AckHandler, device
<1>6. CASE LoseRequest
  <2>1. Answer("NACK") \in Answers /\ Answer("NACK") # SumIs(TRUE)
    BY AnswerTypes DEF Answer, SumIs
  <2> QED BY <1>6, <2>1, RequestClean DEF LoseRequest, uploader, device
<1>7. CASE LoseAck
  BY <1>7, <1>c DEF LoseAck, uploader, device
<1>8. CASE Handle
  <2>1. PICK a \in Answers :
          /\ req # <<>> /\ Acknowledge(a)
          /\ a.ack = "SUM" => Head(req).cmd = "CHECK_SIGN"
          /\ a = SumIs(TRUE) => ImageIsFile
          /\ image' = image \/ Head(req).cmd = "DATA"
    BY <1>8, Handled
  <2>2. a = SumIs(TRUE) => a.ack = "SUM"
    BY DEF SumIs
  <2> QED BY <2>1, <2>2, RequestClean DEF Acknowledge, uploader
<1>9. CASE ScriptEnds \/ UNCHANGED vars
  BY <1>9, <1>b DEF ScriptEnds, vars, uploader, bus, device
<1> QED BY <1>1, <1>2, <1>3, <1>4, <1>5, <1>6, <1>7, <1>8, <1>9 DEF Next

\* USER_UPDATE is all that installs, and finds the file.
LEMMA InstalledStep ==
  TypeInv /\ CleanInv /\ OnlyTheFileIsInstalled /\ [Next]_vars => OnlyTheFileIsInstalled'
<1> SUFFICES ASSUME TypeInv, CleanInv, OnlyTheFileIsInstalled, [Next]_vars PROVE OnlyTheFileIsInstalled'
  OBVIOUS
<1>1. CASE Handle
  <2>1. PICK a \in Answers :
          req # <<>> /\ (installed' = installed \/ (Head(req).cmd = "UPDATE" /\ (ImageIsFile => installed' = "file")))
    BY <1>1, Handled
  <2>2. Head(req).cmd = "UPDATE" => ImageIsFile
    <3>1. 1 \in 1 .. Len(req) /\ Head(req) = req[1]
      BY <2>1, Behind DEF TypeInv, BusTyped
    <3> QED BY <3>1 DEF CleanInv, Safe
  <2> QED BY <2>1, <2>2 DEF OnlyTheFileIsInstalled
<1>2. CASE ~Handle
  BY <1>2, ImageKept DEF Handle, OnlyTheFileIsInstalled
<1> QED BY <1>1, <1>2

\* However large MaxLate is: as long as no more than four timeouts passed an answer by, the update
\* script is started on nothing but the file, although answers are taken for those of other
\* commands.  Between a CHECK_SIGN and the next DATA five commands end, so that no sum of an image
\* that is still to change is on its way when a chunk is sent.
THEOREM FewLateInstallTheFile == Spec => [](late <= 4 => OnlyTheFileIsInstalled)
<1> DEFINE Inv == late <= 4 => CleanInv /\ OnlyTheFileIsInstalled
<1>1. Init => Inv
  <2> SUFFICES ASSUME Init PROVE CleanInv /\ OnlyTheFileIsInstalled
    OBVIOUS
  <2>1. Len(req) = 0 /\ Len(ack) = 0 /\ pc = "idle" /\ installed = "none"
    BY DEF Init
  <2> QED BY <2>1 DEF CleanInv, OnlyTheFileIsInstalled
<1>2. TypeInv /\ ShiftInv /\ Inv /\ [Next]_vars => Inv'
  <2> SUFFICES ASSUME TypeInv, ShiftInv, Inv, [Next]_vars, late' <= 4
               PROVE  (CleanInv /\ OnlyTheFileIsInstalled)'
    OBVIOUS
  <2>1. late <= 4
    BY LateGrows
  <2> QED BY <2>1, CleanStep, InstalledStep
<1>3. Inv => (late <= 4 => OnlyTheFileIsInstalled)
  OBVIOUS
<1> QED BY <1>1, <1>2, <1>3, TypeInvariant, ShiftInvariant, PTL DEF Spec

\* With a bound of up to four late answers the last defence holds, and an upload keeps its promise,
\* without a condition, for any number of chunks, losses, retries and uploaders started again.
THEOREM FewLateKeepThePromise ==
  ASSUME MaxLate <= 4 PROVE Spec => []OnlyTheFileIsInstalled /\ KeepsPromise
<1>1. TypeInv => late <= 4
  BY BoundsAssumption DEF TypeInv, BusTyped
<1> QED BY <1>1, FewLateInstallTheFile, PromiseKept, TypeInvariant, PTL
=============================================================================
