-------------------------------- MODULE Timers --------------------------------
(***************************************************************************)
(* canquick's users of core::Timer (core/timer.h): the connection alert    *)
(* and the requests (medisconnectionreport.cpp, canrxmsg.cpp,              *)
(* canmanager.cpp), and one smart item (smartitem.cpp).                    *)
(*                                                                         *)
(* A timer is a thread that sleeps and then runs the callback.  stop()     *)
(* joins it: whoever stops or restarts a timer waits for a callback that   *)
(* runs, and a callback that stops its own timer ends the program.         *)
(* The CAN thread, can, handles one message after another; itsThread, win, *)
(* sends the requests.  They and the callbacks, conn and req, read and     *)
(* write plain variables one by one.                                       *)
(***************************************************************************)
EXTENDS Naturals, FiniteSets

CONSTANTS
  Byte,         (* the values of each byte of a request's identifier       *)
  None,         (* no answer                                               *)
  MaxRequests   (* bound: requests sent                                    *)

Id == [lsb : Byte, msb : Byte]
Timer == {"conn", "req", "min", "max"}

ASSUME RequestsAssumption == MaxRequests \in Nat
ASSUME ByteAssumption == 0 \in Byte /\ None \notin Id

VARIABLES
  timer,        \* "off" (active_ is FALSE), "on", or "fired" (in its callback)
  at,           \* where each thread is
  down,         \* the program has ended
  lost,         \* isInDisconnectionAlert
  noCom,        \* ALERT_NOCOM is active
  sent,         \* isRequestSent
  lsbSeen,      \* isRequestIdLSBByteReceived
  stored,       \* what can is about to store there
  id,           \* requestId
  number,       \* the identifier of the request that win sends
  written,      \* the requests written to the bus
  answer,       \* the answer that can handles
  accepted,     \* answers that were not discarded
  smart,        \* the smart item: isActived, and whether the display counts it
  crossed       \* the timers that two threads have been at in one go

vars == <<timer, at, down, lost, noCom, sent, lsbSeen, stored, id, number, written,
          answer, accepted, smart, crossed>>
link == <<lost, noCom>>
frame == <<stored, answer, accepted>>
flags == <<sent, lsbSeen>>
request == <<flags, frame, id, number, written>>

Init ==
  /\ timer = [t \in Timer |-> IF t = "conn" THEN "on" ELSE "off"]
  /\ at = [can |-> "read", win |-> "idle", conn |-> "off", req |-> "off"]
  /\ down = FALSE
  /\ lost = FALSE /\ noCom = FALSE
  /\ sent = FALSE /\ lsbSeen = FALSE /\ stored = FALSE
  /\ id = [lsb |-> 0, msb |-> 0] /\ number = id
  /\ written = {} /\ answer = None /\ accepted = 0
  /\ smart = [active |-> FALSE, shown |-> FALSE]
  /\ crossed = {}

Go(t, from, to) == ~down /\ at[t] = from /\ at' = [at EXCEPT ![t] = to]

Set(t, s) == timer' = [timer EXCEPT ![t] = s]

\* Neither start() nor stop() returns while the callback runs.
Joins(t) == timer[t] # "fired"

\* Bound: the smart item, which shares nothing with the requests, has its messages
\* before the first of them, and they are sent when it is over.
BeforeRequests == written = {}
SmartIsOver == ~smart.active /\ timer["min"] = "off" /\ timer["max"] = "off"

-----------------------------------------------------------------------------
(* The connection *)

\* resetConnectionTimeout()
KeepAlive ==
  /\ Go("can", "read", IF lost THEN "clear" ELSE "rearm")
  /\ crossed' = IF lost /\ timer["conn"] = "fired" THEN crossed \cup {"conn"} ELSE crossed
  /\ UNCHANGED <<timer, down, link, request, smart>>

ClearAlert ==
  /\ Go("can", "clear", "found")
  /\ noCom' = FALSE
  /\ UNCHANGED <<timer, down, lost, request, smart, crossed>>

\* Fault: the timer is restarted only when no alert was active.
ClearLostOnly ==
  /\ Go("can", "found", "read")
  /\ lost' = FALSE
  /\ UNCHANGED <<timer, down, noCom, request, smart, crossed>>

ClearLost ==
  /\ Go("can", "found", "rearm")
  /\ lost' = FALSE
  /\ UNCHANGED <<timer, down, noCom, request, smart, crossed>>

Rearm ==
  /\ Go("can", "rearm", "read") /\ Joins("conn")
  /\ Set("conn", "on")
  /\ UNCHANGED <<down, link, request, smart, crossed>>

\* fireConnectionTimeout()
ConnectionExpires ==
  /\ timer["conn"] = "on" /\ Go("conn", "off", "lost")
  /\ Set("conn", "fired")
  /\ crossed' = IF at["can"] \in {"clear", "found"} THEN crossed \cup {"conn"} ELSE crossed
  /\ UNCHANGED <<down, link, request, smart>>

\* Fault: isInDisconnectionAlert is not set.
SetLostForgotten ==
  /\ Go("conn", "lost", "alert")
  /\ UNCHANGED <<timer, down, link, request, smart, crossed>>

SetLost ==
  /\ Go("conn", "lost", "alert")
  /\ lost' = TRUE
  /\ UNCHANGED <<timer, down, noCom, request, smart, crossed>>

SetAlert ==
  /\ Go("conn", "alert", "off")
  /\ noCom' = TRUE /\ Set("conn", "off")
  /\ UNCHANGED <<down, lost, request, smart, crossed>>

-----------------------------------------------------------------------------
(* Requests: win sends them, and expects their answers only then *)

Send(r) ==
  /\ Go("win", "idle", "number")
  /\ Cardinality(written) < MaxRequests /\ r \notin written /\ SmartIsOver
  /\ written' = written \cup {r} /\ number' = r
  /\ UNCHANGED <<timer, down, link, flags, frame, id, smart, crossed>>

\* Fault: the whole number is kept for its high byte.
SetNumberUnshifted ==
  /\ Go("win", "number", "sent")
  /\ id' = [number EXCEPT !.msb = 2 * @ + number.lsb]
  /\ UNCHANGED <<timer, down, link, flags, frame, number, written, smart, crossed>>

\* expectRequestId()
SetNumber ==
  /\ Go("win", "number", "sent")
  /\ id' = number
  /\ UNCHANGED <<timer, down, link, flags, frame, number, written, smart, crossed>>

SetSent ==
  /\ Go("win", "sent", "lsb")
  /\ sent' = TRUE
  /\ crossed' = IF at["can"] = "stop" THEN crossed \cup {"req"} ELSE crossed
  /\ UNCHANGED <<timer, down, link, lsbSeen, frame, id, number, written, smart>>

ResetLsb ==
  /\ Go("win", "lsb", "start")
  /\ lsbSeen' = FALSE
  /\ UNCHANGED <<timer, down, link, sent, frame, id, number, written, smart, crossed>>

\* Fault: start() without an interval returns at once.
StartRequestVainly ==
  /\ Go("win", "start", "idle") /\ Joins("req")
  /\ UNCHANGED <<timer, down, link, request, smart, crossed>>

StartRequest ==
  /\ Go("win", "start", "idle") /\ Joins("req")
  /\ Set("req", "on")
  /\ UNCHANGED <<down, link, request, smart, crossed>>

\* fireRequestTimeout()
RequestExpires ==
  /\ timer["req"] = "on" /\ Go("req", "off", "lsb")
  /\ Set("req", "fired")
  /\ UNCHANGED <<down, link, request, smart, crossed>>

DiscardLsb ==
  /\ Go("req", "lsb", "sent")
  /\ lsbSeen' = FALSE
  /\ UNCHANGED <<timer, down, link, sent, frame, id, number, written, smart, crossed>>

\* Fault: discardRequestId() stops the timer as well, whose callback calls it.
DiscardSentAndStop ==
  /\ Go("req", "sent", "off")
  /\ sent' = FALSE /\ down' = TRUE
  /\ UNCHANGED <<timer, link, lsbSeen, frame, id, number, written, smart, crossed>>

DiscardSent ==
  /\ Go("req", "sent", "off")
  /\ sent' = FALSE /\ Set("req", "off")
  /\ UNCHANGED <<down, link, lsbSeen, frame, id, number, written, smart, crossed>>

-----------------------------------------------------------------------------
(* Answers: can compares the identifier byte by byte *)

\* Fault: isRequestSent is not asked.
AnswerAlways(r) ==
  /\ r \in written /\ Go("can", "read", "lsb")
  /\ answer' = r
  /\ stored' = (r.lsb = id.lsb)
  /\ UNCHANGED <<timer, down, link, flags, id, number, written, accepted, smart, crossed>>

\* The vehicle answers what was written, any number of times or never.
Answer(r) ==
  /\ r \in written /\ Go("can", "read", "lsb")
  /\ answer' = r
  /\ stored' = (sent /\ r.lsb = id.lsb)
  /\ UNCHANGED <<timer, down, link, flags, id, number, written, accepted, smart, crossed>>

\* receiveRequestIdByteLSB() has read the flags and writes its own.
StoreLsb ==
  /\ Go("can", "lsb", "msb")
  /\ lsbSeen' = stored
  /\ UNCHANGED <<timer, down, link, sent, frame, id, number, written, smart, crossed>>

CompareMsb ==
  /\ Go("can", "msb", IF lsbSeen /\ answer.msb = id.msb THEN "match" ELSE "check")
  /\ UNCHANGED <<timer, down, link, request, smart, crossed>>

ClearSent ==
  /\ Go("can", "match", "stop")
  /\ sent' = FALSE
  /\ crossed' = IF at["win"] \in {"lsb", "start"} THEN crossed \cup {"req"} ELSE crossed
  /\ UNCHANGED <<timer, down, link, lsbSeen, frame, id, number, written, smart>>

StopRequest ==
  /\ Go("can", "stop", "check") /\ Joins("req")
  /\ Set("req", "off")
  /\ UNCHANGED <<down, link, request, smart, crossed>>

\* canRxJsonSignalsParseAndProcess(): the rules run, or lsbSeen is reset.
CheckAnswer ==
  /\ Go("can", "check", "read")
  /\ answer' = None /\ stored' = FALSE
  /\ IF lsbSeen /\ ~sent
     THEN accepted' = accepted + 1 /\ UNCHANGED lsbSeen
     ELSE lsbSeen' = FALSE /\ UNCHANGED accepted
  /\ UNCHANGED <<timer, down, link, sent, id, number, written, smart, crossed>>

\* can stops the timer while win starts it, with no lock between them: both join
\* one thread, that of an expired timer too, and the new one may be assigned over
\* it, or be joined half assigned.
Collide ==
  /\ ~down /\ at["can"] = "stop" /\ at["win"] = "start"
  /\ down' = TRUE
  /\ crossed' = crossed \cup {"req"}
  /\ UNCHANGED <<timer, at, link, request, smart>>

-----------------------------------------------------------------------------
(* The smart item; a duration of zero is none *)

\* setActive(): only the first message starts the minimum, every one restarts
\* the maximum.
SetActive(min, max) ==
  /\ Go("can", "read", "read") /\ BeforeRequests
  /\ timer' = [timer EXCEPT
       !["min"] = IF ~smart.active /\ @ = "off" /\ min THEN "on" ELSE @,
       !["max"] = IF smart.active \/ @ = "off" THEN (IF max THEN "on" ELSE "off") ELSE @]
  /\ smart' = [active |-> TRUE, shown |-> TRUE]
  /\ UNCHANGED <<down, link, request, crossed>>

\* Fault: the minimum is not asked.
SetInactiveAtOnce ==
  /\ Go("can", "read", "read") /\ smart.active
  /\ Set("max", "off") /\ smart' = [active |-> FALSE, shown |-> FALSE]
  /\ UNCHANGED <<down, link, request, crossed>>

\* setInactive(), visualDeactivate()
SetInactive ==
  /\ Go("can", "read", "read") /\ smart.active
  /\ IF timer["min"] = "off"
     THEN Set("max", "off") /\ smart' = [active |-> FALSE, shown |-> FALSE]
     ELSE smart' = [smart EXCEPT !.active = FALSE] /\ UNCHANGED timer
  /\ UNCHANGED <<down, link, request, crossed>>

\* Whatever fireItsMinActiveTime() and fireItsMaxActiveTime() do, they first stop
\* the timer whose callback they are.
DurationExpires(t) ==
  /\ ~down /\ t \in {"min", "max"} /\ timer[t] = "on"
  /\ Set(t, "fired")
  /\ down' = TRUE
  /\ UNCHANGED <<at, link, request, smart, crossed>>

-----------------------------------------------------------------------------
Can ==
  \/ ClearAlert \/ ClearLost \/ Rearm
  \/ StoreLsb \/ CompareMsb \/ ClearSent \/ StopRequest \/ CheckAnswer

Win == SetNumber \/ SetSent \/ ResetLsb \/ StartRequest

ConnCallback == SetLost \/ SetAlert

ReqCallback == DiscardLsb \/ DiscardSent

Expire == ConnectionExpires \/ RequestExpires \/ \E t \in {"min", "max"} : DurationExpires(t)

Next ==
  \/ Can \/ Win \/ ConnCallback \/ ReqCallback \/ Expire \/ Collide
  \/ KeepAlive \/ \E r \in Id : Send(r) \/ Answer(r)
  \/ (\E min, max \in BOOLEAN : SetActive(min, max)) \/ SetInactive

Spec == Init /\ [][Next]_vars

\* Threads go on, and a timer that is not stopped expires.
FairSpec ==
  /\ Spec
  /\ WF_vars(Can) /\ WF_vars(Win) /\ WF_vars(ConnCallback) /\ WF_vars(ReqCallback)
  /\ WF_vars(ConnectionExpires) /\ WF_vars(RequestExpires)

-----------------------------------------------------------------------------
TypeOK ==
  /\ timer \in [Timer -> {"off", "on", "fired"}]
  /\ at \in [can : {"read", "clear", "found", "rearm", "lsb", "msb", "match", "stop", "check"},
             win : {"idle", "number", "sent", "lsb", "start"},
             conn : {"off", "lost", "alert"}, req : {"off", "lsb", "sent"}]
  /\ down \in BOOLEAN /\ lost \in BOOLEAN /\ noCom \in BOOLEAN
  /\ sent \in BOOLEAN /\ lsbSeen \in BOOLEAN /\ stored \in BOOLEAN
  /\ id \in Id /\ number \in Id /\ written \subseteq Id /\ answer \in Id \cup {None} /\ accepted \in Nat
  /\ smart \in [active : BOOLEAN, shown : BOOLEAN]
  /\ crossed \subseteq {"conn", "req"}

\* Whenever no timer watches the connection the alert is active, or can is about
\* to start the timer (medisconnectionreport.cpp).
WatchedOrShown ==
  timer["conn"] = "off" => noCom \/ at["can"] \in {"found", "rearm"}

\* An active alert is one that the next keep-alive clears, unless a keep-alive
\* has met the callback half way.
AlertIsCleared ==
  noCom => lost \/ "conn" \in crossed

\* No more answers are acted upon than requests were sent, however often the
\* vehicle repeats one and whatever the timeout does meanwhile (canrxmsg.cpp:559).
NoAnswerTwice == accepted <= Cardinality(written)

\* The item is shown while it is active and while its minimum lasts, and never
\* else (smartitem.cpp).
SmartIsShown == smart.shown <=> smart.active \/ timer["min"] # "off"

\* Nothing but the end of a smart item's duration makes a timer join itself, and
\* no two threads are at one timer but where an answer meets a new request.
EndsOnlyByDuration ==
  down => (\E t \in {"min", "max"} : timer[t] = "fired") \/ "req" \in crossed

\* A request is answered or times out, unless an answer has met a new request.
RequestEnds == sent ~> (~sent \/ down \/ "req" \in crossed)
=============================================================================
