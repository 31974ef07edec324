---------------------------- MODULE Timers_proofs ----------------------------
(* What is proved of Timers, for any identifiers and any number of requests: its *)
(* types, that the connection is watched or its loss shown, that keep-alives     *)
(* clear the alert, that no request is answered twice and when items are shown.  *)
EXTENDS Timers, FiniteSetTheorems, TLAPS

CanAt == {"read", "clear", "found", "rearm", "lsb", "msb", "match", "stop", "check"}
WinAt == {"idle", "number", "sent", "lsb", "start"}
ConnAt == {"off", "lost", "alert"}
ReqAt == {"off", "lsb", "sent"}
Positions == [can : CanAt, win : WinAt, conn : ConnAt, req : ReqAt]
States == {"off", "on", "fired"}

-----------------------------------------------------------------------------
(* What a step leaves alone *)

LEMMA CanMoves ==
  ASSUME TypeOK, NEW from, NEW to \in CanAt, Go("can", from, to)
  PROVE  /\ at' \in Positions /\ ~down /\ at["can"] = from /\ at'["can"] = to
         /\ at'["win"] = at["win"] /\ at'["conn"] = at["conn"] /\ at'["req"] = at["req"]
BY DEF TypeOK, Go, Positions, CanAt, WinAt, ConnAt, ReqAt

LEMMA WinMoves ==
  ASSUME TypeOK, NEW from, NEW to \in WinAt, Go("win", from, to)
  PROVE  /\ at' \in Positions /\ ~down /\ at["win"] = from /\ at'["win"] = to
         /\ at'["can"] = at["can"] /\ at'["conn"] = at["conn"] /\ at'["req"] = at["req"]
BY DEF TypeOK, Go, Positions, CanAt, WinAt, ConnAt, ReqAt

LEMMA ConnMoves ==
  ASSUME TypeOK, NEW from, NEW to \in ConnAt, Go("conn", from, to)
  PROVE  /\ at' \in Positions /\ ~down /\ at["conn"] = from /\ at'["conn"] = to
         /\ at'["can"] = at["can"] /\ at'["win"] = at["win"] /\ at'["req"] = at["req"]
BY DEF TypeOK, Go, Positions, CanAt, WinAt, ConnAt, ReqAt

LEMMA ReqMoves ==
  ASSUME TypeOK, NEW from, NEW to \in ReqAt, Go("req", from, to)
  PROVE  /\ at' \in Positions /\ ~down /\ at["req"] = from /\ at'["req"] = to
         /\ at'["can"] = at["can"] /\ at'["win"] = at["win"] /\ at'["conn"] = at["conn"]
BY DEF TypeOK, Go, Positions, CanAt, WinAt, ConnAt, ReqAt

LEMMA TimerSet ==
  ASSUME TypeOK, NEW t \in Timer, NEW s \in States, Set(t, s)
  PROVE  /\ timer' \in [Timer -> States] /\ timer'[t] = s
         /\ \A u \in Timer : u # t => timer'[u] = timer[u]
BY DEF TypeOK, Set, States

LEMMA SmartInactive ==
  ASSUME NEW s \in [active : BOOLEAN, shown : BOOLEAN]
  PROVE  /\ [s EXCEPT !.active = FALSE] \in [active : BOOLEAN, shown : BOOLEAN]
         /\ [s EXCEPT !.active = FALSE].active = FALSE
         /\ [s EXCEPT !.active = FALSE].shown = s.shown
OBVIOUS

-----------------------------------------------------------------------------
(* Types *)

LEMMA Typing == TypeOK /\ [Next]_vars => TypeOK'
<1> SUFFICES ASSUME TypeOK, [Next]_vars PROVE TypeOK'
  OBVIOUS
<1> USE DEF link, frame, flags, request, Timer, States
<1>a. /\ timer \in [Timer -> States] /\ at \in Positions
      /\ down \in BOOLEAN /\ lost \in BOOLEAN /\ noCom \in BOOLEAN
      /\ sent \in BOOLEAN /\ lsbSeen \in BOOLEAN /\ stored \in BOOLEAN
      /\ id \in Id /\ number \in Id /\ written \subseteq Id
      /\ answer \in Id \cup {None} /\ accepted \in Nat
      /\ smart \in [active : BOOLEAN, shown : BOOLEAN] /\ crossed \subseteq {"conn", "req"}
  BY DEF TypeOK, Positions, CanAt, WinAt, ConnAt, ReqAt
<1>b. ASSUME /\ timer' \in [Timer -> States] /\ at' \in Positions
             /\ down' \in BOOLEAN /\ lost' \in BOOLEAN /\ noCom' \in BOOLEAN
             /\ sent' \in BOOLEAN /\ lsbSeen' \in BOOLEAN /\ stored' \in BOOLEAN
             /\ id' \in Id /\ number' \in Id /\ written' \subseteq Id
             /\ answer' \in Id \cup {None} /\ accepted' \in Nat
             /\ smart' \in [active : BOOLEAN, shown : BOOLEAN] /\ crossed' \subseteq {"conn", "req"}
      PROVE  TypeOK'
  BY <1>b DEF TypeOK, Positions, CanAt, WinAt, ConnAt, ReqAt
<1>1. CASE KeepAlive
  <2>1. at' \in Positions
    BY <1>1, CanMoves DEF KeepAlive, CanAt
  <2> QED BY <1>a, <1>b, <1>1, <2>1 DEF KeepAlive
<1>2. CASE ClearAlert
  <2>1. at' \in Positions
    BY <1>2, CanMoves DEF ClearAlert, CanAt
  <2> QED BY <1>a, <1>b, <1>2, <2>1 DEF ClearAlert
<1>3. CASE ClearLost
  <2>1. at' \in Positions
    BY <1>3, CanMoves DEF ClearLost, CanAt
  <2> QED BY <1>a, <1>b, <1>3, <2>1 DEF ClearLost
<1>4. CASE Rearm
  <2>1. at' \in Positions
    BY <1>4, CanMoves DEF Rearm, CanAt
  <2>2. timer' \in [Timer -> States]
    BY <1>4, TimerSet DEF Rearm
  <2> QED BY <1>a, <1>b, <1>4, <2>1, <2>2 DEF Rearm
<1>5. CASE ConnectionExpires
  <2>1. at' \in Positions
    BY <1>5, ConnMoves DEF ConnectionExpires, ConnAt
  <2>2. timer' \in [Timer -> States]
    BY <1>5, TimerSet DEF ConnectionExpires
  <2> QED BY <1>a, <1>b, <1>5, <2>1, <2>2 DEF ConnectionExpires
<1>6. CASE SetLost
  <2>1. at' \in Positions
    BY <1>6, ConnMoves DEF SetLost, ConnAt
  <2> QED BY <1>a, <1>b, <1>6, <2>1 DEF SetLost
<1>7. CASE SetAlert
  <2>1. at' \in Positions
    BY <1>7, ConnMoves DEF SetAlert, ConnAt
  <2>2. timer' \in [Timer -> States]
    BY <1>7, TimerSet DEF SetAlert
  <2> QED BY <1>a, <1>b, <1>7, <2>1, <2>2 DEF SetAlert
<1>8. CASE SetNumber
  <2>1. at' \in Positions
    BY <1>8, WinMoves DEF SetNumber, WinAt
  <2> QED BY <1>a, <1>b, <1>8, <2>1 DEF SetNumber
<1>9. CASE SetSent
  <2>1. at' \in Positions
    BY <1>9, WinMoves DEF SetSent, WinAt
  <2> QED BY <1>a, <1>b, <1>9, <2>1 DEF SetSent
<1>10. CASE ResetLsb
  <2>1. at' \in Positions
    BY <1>10, WinMoves DEF ResetLsb, WinAt
  <2> QED BY <1>a, <1>b, <1>10, <2>1 DEF ResetLsb
<1>11. CASE StartRequest
  <2>1. at' \in Positions
    BY <1>11, WinMoves DEF StartRequest, WinAt
  <2>2. timer' \in [Timer -> States]
    BY <1>11, TimerSet DEF StartRequest
  <2> QED BY <1>a, <1>b, <1>11, <2>1, <2>2 DEF StartRequest
<1>12. CASE RequestExpires
  <2>1. at' \in Positions
    BY <1>12, ReqMoves DEF RequestExpires, ReqAt
  <2>2. timer' \in [Timer -> States]
    BY <1>12, TimerSet DEF RequestExpires
  <2> QED BY <1>a, <1>b, <1>12, <2>1, <2>2 DEF RequestExpires
<1>13. CASE DiscardLsb
  <2>1. at' \in Positions
    BY <1>13, ReqMoves DEF DiscardLsb, ReqAt
  <2> QED BY <1>a, <1>b, <1>13, <2>1 DEF DiscardLsb
<1>14. CASE DiscardSent
  <2>1. at' \in Positions
    BY <1>14, ReqMoves DEF DiscardSent, ReqAt
  <2>2. timer' \in [Timer -> States]
    BY <1>14, TimerSet DEF DiscardSent
  <2> QED BY <1>a, <1>b, <1>14, <2>1, <2>2 DEF DiscardSent
<1>15. CASE StoreLsb
  <2>1. at' \in Positions
    BY <1>15, CanMoves DEF StoreLsb, CanAt
  <2> QED BY <1>a, <1>b, <1>15, <2>1 DEF StoreLsb
<1>16. CASE CompareMsb
  <2>1. at' \in Positions
    BY <1>16, CanMoves DEF CompareMsb, CanAt
  <2> QED BY <1>a, <1>b, <1>16, <2>1 DEF CompareMsb
<1>17. CASE ClearSent
  <2>1. at' \in Positions
    BY <1>17, CanMoves DEF ClearSent, CanAt
  <2> QED BY <1>a, <1>b, <1>17, <2>1 DEF ClearSent
<1>18. CASE StopRequest
  <2>1. at' \in Positions
    BY <1>18, CanMoves DEF StopRequest, CanAt
  <2>2. timer' \in [Timer -> States]
    BY <1>18, TimerSet DEF StopRequest
  <2> QED BY <1>a, <1>b, <1>18, <2>1, <2>2 DEF StopRequest
<1>19. CASE CheckAnswer
  <2>1. at' \in Positions
    BY <1>19, CanMoves DEF CheckAnswer, CanAt
  <2>2. accepted' \in Nat /\ lsbSeen' \in BOOLEAN
    <3>1. CASE lsbSeen /\ ~sent
      <4>1. accepted' = accepted + 1 /\ lsbSeen' = lsbSeen
        BY <1>19, <3>1 DEF CheckAnswer
      <4> QED BY <1>a, <4>1
    <3>2. CASE ~(lsbSeen /\ ~sent)
      <4>1. accepted' = accepted /\ lsbSeen' = FALSE
        BY <1>19, <3>2 DEF CheckAnswer
      <4> QED BY <1>a, <4>1
    <3> QED BY <3>1, <3>2
  <2>3. answer' = None /\ stored' = FALSE
        /\ UNCHANGED <<timer, down, link, sent, id, number, written, smart, crossed>>
    BY <1>19 DEF CheckAnswer
  <2> QED BY <1>a, <1>b, <2>1, <2>2, <2>3
<1>20. CASE Collide
  BY <1>a, <1>b, <1>20 DEF Collide
<1>21. ASSUME NEW r \in Id, Send(r) PROVE TypeOK'
  <2>1. at' \in Positions
    BY <1>21, WinMoves DEF Send, WinAt
  <2> QED BY <1>a, <1>b, <1>21, <2>1 DEF Send
<1>22. ASSUME NEW r \in Id, Answer(r) PROVE TypeOK'
  <2>1. at' \in Positions
    BY <1>22, CanMoves DEF Answer, CanAt
  <2>2. stored' \in BOOLEAN
    BY <1>22 DEF Answer
  <2> QED BY <1>a, <1>b, <1>22, <2>1, <2>2 DEF Answer
<1>23. ASSUME NEW min \in BOOLEAN, NEW max \in BOOLEAN, SetActive(min, max) PROVE TypeOK'
  <2>1. at' \in Positions
    BY <1>23, CanMoves DEF SetActive, CanAt
  <2>2. timer' \in [Timer -> States]
    BY <1>a, <1>23 DEF SetActive
  <2> QED BY <1>a, <1>b, <1>23, <2>1, <2>2 DEF SetActive
<1>24. CASE SetInactive
  <2>1. at' \in Positions
    BY <1>24, CanMoves DEF SetInactive, CanAt
  <2>2. timer' \in [Timer -> States]
    BY <1>a, <1>24, TimerSet DEF SetInactive
  <2>3. smart' \in [active : BOOLEAN, shown : BOOLEAN]
    <3>1. CASE timer["min"] = "off"
      <4>1. smart' = [active |-> FALSE, shown |-> FALSE]
        BY <1>24, <3>1 DEF SetInactive
      <4> QED BY <4>1
    <3>2. CASE timer["min"] # "off"
      <4>1. smart' = [smart EXCEPT !.active = FALSE]
        BY <1>24, <3>2 DEF SetInactive
      <4> QED BY <1>a, <4>1, SmartInactive, Zenon
    <3> QED BY <3>1, <3>2
  <2>4. UNCHANGED <<down, link, request, crossed>>
    BY <1>24 DEF SetInactive
  <2> QED BY <1>a, <1>b, <2>1, <2>2, <2>3, <2>4
<1>25. ASSUME NEW t \in {"min", "max"}, DurationExpires(t) PROVE TypeOK'
  <2>1. timer' \in [Timer -> States]
    BY <1>25, TimerSet DEF DurationExpires
  <2> QED BY <1>a, <1>b, <1>25, <2>1 DEF DurationExpires
<1>26. CASE UNCHANGED vars
  BY <1>a, <1>b, <1>26 DEF vars
<1> QED
  BY <1>1, <1>2, <1>3, <1>4, <1>5, <1>6, <1>7, <1>8, <1>9, <1>10, <1>11, <1>12, <1>13, <1>14,
     <1>15, <1>16, <1>17, <1>18, <1>19, <1>20, <1>21, <1>22, <1>23, <1>24, <1>25, <1>26
     DEF Next, Can, Win, ConnCallback, ReqCallback, Expire

\* The variables keep their types, whichever threads meet at a timer (core/timer.h).
THEOREM TypeCorrect == Spec => []TypeOK
<1>1. Init => TypeOK
  <2> SUFFICES ASSUME Init PROVE TypeOK
    OBVIOUS
  <2>1. timer \in [Timer -> States] /\ at \in Positions
    BY DEF Init, Timer, States, Positions, CanAt, WinAt, ConnAt, ReqAt
  <2>2. id \in Id /\ number \in Id
    BY ByteAssumption DEF Init, Id
  <2>3. smart \in [active : BOOLEAN, shown : BOOLEAN] /\ written \subseteq Id /\ accepted \in Nat
        /\ answer \in Id \cup {None} /\ crossed \subseteq {"conn", "req"}
    BY DEF Init
  <2>4. /\ down \in BOOLEAN /\ lost \in BOOLEAN /\ noCom \in BOOLEAN
        /\ sent \in BOOLEAN /\ lsbSeen \in BOOLEAN /\ stored \in BOOLEAN
    BY DEF Init
  <2> QED
    BY <2>1, <2>2, <2>3, <2>4 DEF TypeOK, States, Positions, CanAt, WinAt, ConnAt, ReqAt
<1>2. TypeOK /\ [Next]_vars => TypeOK'
  BY Typing
<1> QED BY <1>1, <1>2, PTL DEF Spec

-----------------------------------------------------------------------------
(* The connection *)

\* What a keep-alive and the callback leave each other, unless they have crossed.
Uncrossed ==
  /\ noCom => lost
  /\ at["conn"] = "alert" => lost
  /\ at["can"] \in {"clear", "found"} => timer["conn"] # "fired"
  /\ at["can"] = "found" => ~noCom

ConnectionInv ==
  /\ WatchedOrShown
  /\ at["conn"] # "off" => timer["conn"] = "fired"
  /\ "conn" \in crossed \/ Uncrossed

LEMMA ConnectionStep == TypeOK /\ ConnectionInv /\ [Next]_vars => ConnectionInv'
<1> SUFFICES ASSUME TypeOK, ConnectionInv, [Next]_vars PROVE ConnectionInv'
  OBVIOUS
<1> USE DEF link, frame, flags, request, Timer, States
<1>a. /\ timer["conn"] = "off" => noCom \/ at["can"] \in {"found", "rearm"}
      /\ at["conn"] # "off" => timer["conn"] = "fired"
      /\ "conn" \in crossed \/ Uncrossed
      /\ timer["conn"] \in States /\ at["conn"] \in ConnAt
  BY DEF ConnectionInv, WatchedOrShown, TypeOK, ConnAt
<1>b. ASSUME /\ timer'["conn"] = "off" => noCom' \/ at'["can"] \in {"found", "rearm"}
             /\ at'["conn"] # "off" => timer'["conn"] = "fired"
             /\ "conn" \in crossed' \/ Uncrossed'
      PROVE  ConnectionInv'
  BY <1>b DEF ConnectionInv, WatchedOrShown
\* The steps of the others
<1>c. ASSUME timer'["conn"] = timer["conn"], UNCHANGED <<lost, noCom>>, at'["conn"] = at["conn"],
             crossed \subseteq crossed',
             \/ at'["can"] = at["can"]
             \/ at["can"] \notin {"found", "rearm"} /\ at'["can"] \notin {"clear", "found"}
      PROVE  ConnectionInv'
  BY <1>a, <1>b, <1>c DEF Uncrossed
<1>1. CASE KeepAlive
  <2>1. at["can"] = "read" /\ at'["conn"] = at["conn"]
        /\ at'["can"] = IF lost THEN "clear" ELSE "rearm"
    BY <1>1, CanMoves DEF KeepAlive, CanAt
  <2>2. timer' = timer /\ UNCHANGED <<lost, noCom>>
        /\ crossed' = IF lost /\ timer["conn"] = "fired" THEN crossed \cup {"conn"} ELSE crossed
    BY <1>1 DEF KeepAlive
  <2> QED BY <1>a, <1>b, <2>1, <2>2 DEF Uncrossed
<1>2. CASE ClearAlert
  <2>1. at["can"] = "clear" /\ at'["can"] = "found" /\ at'["conn"] = at["conn"]
    BY <1>2, CanMoves DEF ClearAlert, CanAt
  <2>2. timer' = timer /\ lost' = lost /\ noCom' = FALSE /\ crossed' = crossed
    BY <1>2 DEF ClearAlert
  <2> QED BY <1>a, <1>b, <2>1, <2>2 DEF Uncrossed
<1>3. CASE ClearLost
  <2>1. at["can"] = "found" /\ at'["can"] = "rearm" /\ at'["conn"] = at["conn"]
    BY <1>3, CanMoves DEF ClearLost, CanAt
  <2>2. timer' = timer /\ lost' = FALSE /\ noCom' = noCom /\ crossed' = crossed
    BY <1>3 DEF ClearLost
  <2> QED BY <1>a, <1>b, <2>1, <2>2 DEF Uncrossed
<1>4. CASE Rearm
  <2>1. at["can"] = "rearm" /\ at'["can"] = "read" /\ at'["conn"] = at["conn"]
    BY <1>4, CanMoves DEF Rearm, CanAt
  <2>2. timer'["conn"] = "on" /\ timer["conn"] # "fired"
    BY <1>4, TimerSet DEF Rearm, Joins
  <2>3. UNCHANGED <<lost, noCom, crossed>>
    BY <1>4 DEF Rearm
  <2> QED BY <1>a, <1>b, <2>1, <2>2, <2>3 DEF Uncrossed
<1>5. CASE ConnectionExpires
  <2>1. at["conn"] = "off" /\ at'["conn"] = "lost" /\ at'["can"] = at["can"]
    BY <1>5, ConnMoves DEF ConnectionExpires, ConnAt
  <2>2. timer'["conn"] = "fired"
    BY <1>5, TimerSet DEF ConnectionExpires
  <2>3. UNCHANGED <<lost, noCom>>
        /\ crossed' = IF at["can"] \in {"clear", "found"} THEN crossed \cup {"conn"} ELSE crossed
    BY <1>5 DEF ConnectionExpires
  <2> QED BY <1>a, <1>b, <2>1, <2>2, <2>3 DEF Uncrossed
<1>6. CASE SetLost
  <2>1. at["conn"] = "lost" /\ at'["conn"] = "alert" /\ at'["can"] = at["can"]
    BY <1>6, ConnMoves DEF SetLost, ConnAt
  <2>2. timer' = timer /\ lost' = TRUE /\ noCom' = noCom /\ crossed' = crossed
    BY <1>6 DEF SetLost
  <2> QED BY <1>a, <1>b, <2>1, <2>2 DEF Uncrossed
<1>7. CASE SetAlert
  <2>1. at["conn"] = "alert" /\ at'["conn"] = "off" /\ at'["can"] = at["can"]
    BY <1>7, ConnMoves DEF SetAlert, ConnAt
  <2>2. timer'["conn"] = "off"
    BY <1>7, TimerSet DEF SetAlert
  <2>3. lost' = lost /\ noCom' = TRUE /\ crossed' = crossed
    BY <1>7 DEF SetAlert
  <2> QED BY <1>a, <1>b, <2>1, <2>2, <2>3 DEF Uncrossed
<1>8. CASE SetNumber
  BY <1>8, <1>c, WinMoves DEF SetNumber, WinAt
<1>9. CASE SetSent
  BY <1>9, <1>c, WinMoves DEF SetSent, WinAt
<1>10. CASE ResetLsb
  BY <1>10, <1>c, WinMoves DEF ResetLsb, WinAt
<1>11. CASE StartRequest
  BY <1>11, <1>c, WinMoves, TimerSet DEF StartRequest, WinAt
<1>12. CASE RequestExpires
  BY <1>12, <1>c, ReqMoves, TimerSet DEF RequestExpires, ReqAt
<1>13. CASE DiscardLsb
  BY <1>13, <1>c, ReqMoves DEF DiscardLsb, ReqAt
<1>14. CASE DiscardSent
  BY <1>14, <1>c, ReqMoves, TimerSet DEF DiscardSent, ReqAt
<1>15. CASE StoreLsb
  BY <1>15, <1>c, CanMoves DEF StoreLsb, CanAt
<1>16. CASE CompareMsb
  BY <1>16, <1>c, CanMoves DEF CompareMsb, CanAt
<1>17. CASE ClearSent
  BY <1>17, <1>c, CanMoves DEF ClearSent, CanAt
<1>18. CASE StopRequest
  BY <1>18, <1>c, CanMoves, TimerSet DEF StopRequest, CanAt
<1>19. CASE CheckAnswer
  BY <1>19, <1>c, CanMoves DEF CheckAnswer, CanAt
<1>20. CASE Collide
  BY <1>20, <1>c DEF Collide
<1>21. ASSUME NEW r \in Id, Send(r) PROVE ConnectionInv'
  BY <1>21, <1>c, WinMoves DEF Send, WinAt
<1>22. ASSUME NEW r \in Id, Answer(r) PROVE ConnectionInv'
  BY <1>22, <1>c, CanMoves DEF Answer, CanAt
<1>23. ASSUME NEW min, NEW max, SetActive(min, max) PROVE ConnectionInv'
  <2>1. timer'["conn"] = timer["conn"]
    BY <1>23 DEF SetActive, TypeOK
  <2> QED BY <1>23, <1>c, <2>1, CanMoves DEF SetActive, CanAt
<1>24. CASE SetInactive
  BY <1>24, <1>c, CanMoves, TimerSet DEF SetInactive, CanAt
<1>25. ASSUME NEW t \in {"min", "max"}, DurationExpires(t) PROVE ConnectionInv'
  BY <1>25, <1>c, TimerSet DEF DurationExpires
<1>26. CASE UNCHANGED vars
  BY <1>26, <1>c DEF vars
<1> QED
  BY <1>1, <1>2, <1>3, <1>4, <1>5, <1>6, <1>7, <1>8, <1>9, <1>10, <1>11, <1>12, <1>13, <1>14,
     <1>15, <1>16, <1>17, <1>18, <1>19, <1>20, <1>21, <1>22, <1>23, <1>24, <1>25, <1>26
     DEF Next, Can, Win, ConnCallback, ReqCallback, Expire

LEMMA ConnectionInvariant == Spec => []ConnectionInv
<1>1. Init => ConnectionInv
  BY DEF Init, ConnectionInv, WatchedOrShown, Uncrossed, Timer
<1>2. TypeOK /\ ConnectionInv /\ [Next]_vars => ConnectionInv'
  BY ConnectionStep
<1> QED BY <1>1, <1>2, TypeCorrect, PTL DEF Spec

\* There is no state in which nobody will notice that the connection is lost: when its timer
\* does not run, the alert is active or the CAN thread is about to start it.
THEOREM ConnectionWatched == Spec => []WatchedOrShown
<1>1. ConnectionInv => WatchedOrShown
  BY DEF ConnectionInv
<1> QED BY <1>1, ConnectionInvariant, PTL

\* isInDisconnectionAlert is TRUE whenever the alert is active, so that the next keep-alive
\* clears it, unless a keep-alive met the callback half way.
THEOREM AlertCleared == Spec => []AlertIsCleared
<1>1. ConnectionInv => AlertIsCleared
  BY DEF ConnectionInv, Uncrossed, AlertIsCleared
<1> QED BY <1>1, ConnectionInvariant, PTL

-----------------------------------------------------------------------------
(* Requests *)

\* What can will act upon, once isRequestSent is cleared.
Holding ==
  \/ at["can"] = "lsb" /\ stored
  \/ at["can"] \in {"msb", "match", "stop", "check"} /\ lsbSeen

\* Of the requests written, the one that can still be answered, and the one to come.
Answerable == IF sent \/ Holding THEN 1 ELSE 0
Coming == IF at["win"] \in {"number", "sent"} THEN 1 ELSE 0

RequestInv ==
  /\ IsFiniteSet(written)
  /\ accepted + Answerable + Coming <= Cardinality(written)

LEMMA RequestStep == TypeOK /\ RequestInv /\ [Next]_vars => RequestInv'
<1> SUFFICES ASSUME TypeOK, RequestInv, [Next]_vars PROVE RequestInv'
  OBVIOUS
<1> USE DEF link, frame, flags, request, Timer, States
<1>a. /\ IsFiniteSet(written) /\ Cardinality(written) \in Nat
      /\ accepted + Answerable + Coming <= Cardinality(written)
      /\ accepted \in Nat /\ Answerable \in {0, 1} /\ Coming \in {0, 1}
      /\ sent \in BOOLEAN /\ lsbSeen \in BOOLEAN /\ stored \in BOOLEAN
  BY FS_CardinalityType DEF RequestInv, TypeOK, Answerable, Coming
\* The steps after which no more answers can come
<1>b. ASSUME written' = written, accepted' = accepted, Answerable' <= Answerable, Coming' <= Coming
      PROVE  RequestInv'
  <2>1. Answerable' \in {0, 1} /\ Coming' \in {0, 1}
    BY DEF Answerable, Coming
  <2> QED BY <1>a, <1>b, <2>1 DEF RequestInv
<1>c. ASSUME UNCHANGED <<written, accepted>>, Holding' => Holding \/ sent, sent' => sent,
             at'["win"] = at["win"] \/ at'["win"] \notin {"number", "sent"} \/ at["win"] \in {"number", "sent"}
      PROVE  RequestInv'
  <2>1. Answerable' <= Answerable
    BY <1>c DEF Answerable
  <2>2. Coming' <= Coming
    BY <1>c DEF Coming
  <2> QED BY <1>b, <1>c, <2>1, <2>2
<1>1. CASE KeepAlive
  BY <1>1, <1>c, CanMoves DEF KeepAlive, CanAt, Holding
<1>2. CASE ClearAlert
  BY <1>2, <1>c, CanMoves DEF ClearAlert, CanAt, Holding
<1>3. CASE ClearLost
  BY <1>3, <1>c, CanMoves DEF ClearLost, CanAt, Holding
<1>4. CASE Rearm
  BY <1>4, <1>c, CanMoves DEF Rearm, CanAt, Holding
<1>5. CASE ConnectionExpires
  BY <1>5, <1>c, ConnMoves DEF ConnectionExpires, ConnAt, Holding
<1>6. CASE SetLost
  BY <1>6, <1>c, ConnMoves DEF SetLost, ConnAt, Holding
<1>7. CASE SetAlert
  BY <1>7, <1>c, ConnMoves DEF SetAlert, ConnAt, Holding
<1>8. CASE SetNumber
  BY <1>8, <1>c, WinMoves DEF SetNumber, WinAt, Holding
<1>9. CASE SetSent
  <2>1. at["win"] = "sent" /\ at'["win"] = "lsb"
    BY <1>9, WinMoves DEF SetSent, WinAt
  <2>2. Coming = 1 /\ Coming' = 0
    BY <2>1 DEF Coming
  <2>3. Answerable' \in {0, 1}
    BY DEF Answerable
  <2>4. UNCHANGED <<written, accepted>>
    BY <1>9 DEF SetSent
  <2> QED BY <1>a, <2>2, <2>3, <2>4 DEF RequestInv
<1>10. CASE ResetLsb
  BY <1>10, <1>c, WinMoves DEF ResetLsb, WinAt, Holding
<1>11. CASE StartRequest
  BY <1>11, <1>c, WinMoves DEF StartRequest, WinAt, Holding
<1>12. CASE RequestExpires
  BY <1>12, <1>c, ReqMoves DEF RequestExpires, ReqAt, Holding
<1>13. CASE DiscardLsb
  BY <1>13, <1>c, ReqMoves DEF DiscardLsb, ReqAt, Holding
<1>14. CASE DiscardSent
  BY <1>14, <1>c, ReqMoves DEF DiscardSent, ReqAt, Holding
<1>15. CASE StoreLsb
  BY <1>15, <1>c, CanMoves DEF StoreLsb, CanAt, Holding
<1>16. CASE CompareMsb
  BY <1>16, <1>c, CanMoves DEF CompareMsb, CanAt, Holding
<1>17. CASE ClearSent
  BY <1>17, <1>c, CanMoves DEF ClearSent, CanAt, Holding
<1>18. CASE StopRequest
  BY <1>18, <1>c, CanMoves DEF StopRequest, CanAt, Holding
<1>19. CASE CheckAnswer
  <2>1. at["can"] = "check" /\ at'["can"] = "read" /\ at'["win"] = at["win"]
    BY <1>19, CanMoves DEF CheckAnswer, CanAt
  <2>2. sent' = sent /\ written' = written
    BY <1>19 DEF CheckAnswer
  <2>3. CASE lsbSeen /\ ~sent
    <3>1. accepted' = accepted + 1
      BY <1>19, <2>3 DEF CheckAnswer
    <3>2. Answerable = 1
      BY <2>1, <2>3 DEF Answerable, Holding
    <3>3. Answerable' = 0
      BY <2>1, <2>2, <2>3 DEF Answerable, Holding
    <3>4. Coming' = Coming
      BY <2>1 DEF Coming
    <3> QED BY <1>a, <2>2, <3>1, <3>2, <3>3, <3>4 DEF RequestInv
  <2>4. CASE ~(lsbSeen /\ ~sent)
    <3>1. accepted' = accepted
      BY <1>19, <2>4 DEF CheckAnswer
    <3> QED BY <1>c, <2>1, <2>2, <3>1 DEF Holding
  <2> QED BY <2>3, <2>4
<1>20. CASE Collide
  BY <1>20, <1>c DEF Collide, Holding
<1>21. ASSUME NEW r \in Id, Send(r) PROVE RequestInv'
  <2>1. at["win"] = "idle" /\ at'["win"] = "number" /\ at'["can"] = at["can"]
    BY <1>21, WinMoves DEF Send, WinAt
  <2>2. r \notin written /\ written' = written \cup {r} /\ UNCHANGED <<sent, lsbSeen, stored, accepted>>
    BY <1>21 DEF Send
  <2>3. IsFiniteSet(written') /\ Cardinality(written') = Cardinality(written) + 1
    BY <1>a, <2>2, FS_AddElement
  <2>4. Coming = 0 /\ Coming' = 1
    BY <2>1 DEF Coming
  <2>5. Answerable' = Answerable
    BY <2>1, <2>2 DEF Answerable, Holding
  <2> QED BY <1>a, <2>2, <2>3, <2>4, <2>5 DEF RequestInv
<1>22. ASSUME NEW r \in Id, Answer(r) PROVE RequestInv'
  <2>1. at'["can"] = "lsb" /\ at'["win"] = at["win"]
    BY <1>22, CanMoves DEF Answer, CanAt
  <2>2. (stored' => sent) /\ UNCHANGED <<sent, written, accepted>>
    BY <1>22 DEF Answer
  <2> QED BY <1>c, <2>1, <2>2 DEF Holding
<1>23. ASSUME NEW min, NEW max, SetActive(min, max) PROVE RequestInv'
  BY <1>23, <1>c, CanMoves DEF SetActive, CanAt, Holding
<1>24. CASE SetInactive
  BY <1>24, <1>c, CanMoves DEF SetInactive, CanAt, Holding
<1>25. ASSUME NEW t \in {"min", "max"}, DurationExpires(t) PROVE RequestInv'
  BY <1>25, <1>c DEF DurationExpires, Holding
<1>26. CASE UNCHANGED vars
  BY <1>26, <1>c DEF vars, Holding
<1> QED
  BY <1>1, <1>2, <1>3, <1>4, <1>5, <1>6, <1>7, <1>8, <1>9, <1>10, <1>11, <1>12, <1>13, <1>14,
     <1>15, <1>16, <1>17, <1>18, <1>19, <1>20, <1>21, <1>22, <1>23, <1>24, <1>25, <1>26
     DEF Next, Can, Win, ConnCallback, ReqCallback, Expire

\* However the vehicle repeats its answers, however late they come and wherever the request's
\* timeout meets them, the display acts on no more answers than it sent requests.
THEOREM AnsweredOnce == Spec => []NoAnswerTwice
<1>1. Init => RequestInv
  BY FS_EmptySet DEF Init, RequestInv, Answerable, Coming, Holding
<1>2. TypeOK /\ RequestInv /\ [Next]_vars => RequestInv'
  BY RequestStep
<1>3. TypeOK /\ RequestInv => NoAnswerTwice
  <2> SUFFICES ASSUME TypeOK, RequestInv PROVE NoAnswerTwice
    OBVIOUS
  <2>1. /\ Cardinality(written) \in Nat /\ accepted \in Nat
        /\ Answerable \in {0, 1} /\ Coming \in {0, 1}
    BY FS_CardinalityType DEF RequestInv, TypeOK, Answerable, Coming
  <2> QED BY <2>1 DEF RequestInv, NoAnswerTwice
<1> QED BY <1>1, <1>2, <1>3, TypeCorrect, PTL DEF Spec

-----------------------------------------------------------------------------
(* The smart item, and the end of the program *)

LEMMA SmartStep == TypeOK /\ SmartIsShown /\ [Next]_vars => SmartIsShown'
<1> SUFFICES ASSUME TypeOK, SmartIsShown, [Next]_vars PROVE SmartIsShown'
  OBVIOUS
<1> USE DEF link, frame, flags, request, Timer, States
<1>a. /\ smart.shown <=> smart.active \/ timer["min"] # "off"
      /\ smart \in [active : BOOLEAN, shown : BOOLEAN]
      /\ timer \in [Timer -> States]
  BY DEF SmartIsShown, TypeOK
<1>b. ASSUME smart' = smart, timer'["min"] = timer["min"] PROVE SmartIsShown'
  BY <1>a, <1>b DEF SmartIsShown
<1>1. CASE KeepAlive
  BY <1>1, <1>b DEF KeepAlive
<1>2. CASE ClearAlert
  BY <1>2, <1>b DEF ClearAlert
<1>3. CASE ClearLost
  BY <1>3, <1>b DEF ClearLost
<1>4. CASE Rearm
  BY <1>4, <1>b, TimerSet DEF Rearm
<1>5. CASE ConnectionExpires
  BY <1>5, <1>b, TimerSet DEF ConnectionExpires
<1>6. CASE SetLost
  BY <1>6, <1>b DEF SetLost
<1>7. CASE SetAlert
  BY <1>7, <1>b, TimerSet DEF SetAlert
<1>8. CASE SetNumber
  BY <1>8, <1>b DEF SetNumber
<1>9. CASE SetSent
  BY <1>9, <1>b DEF SetSent
<1>10. CASE ResetLsb
  BY <1>10, <1>b DEF ResetLsb
<1>11. CASE StartRequest
  BY <1>11, <1>b, TimerSet DEF StartRequest
<1>12. CASE RequestExpires
  BY <1>12, <1>b, TimerSet DEF RequestExpires
<1>13. CASE DiscardLsb
  BY <1>13, <1>b DEF DiscardLsb
<1>14. CASE DiscardSent
  BY <1>14, <1>b, TimerSet DEF DiscardSent
<1>15. CASE StoreLsb
  BY <1>15, <1>b DEF StoreLsb
<1>16. CASE CompareMsb
  BY <1>16, <1>b DEF CompareMsb
<1>17. CASE ClearSent
  BY <1>17, <1>b DEF ClearSent
<1>18. CASE StopRequest
  BY <1>18, <1>b, TimerSet DEF StopRequest
<1>19. CASE CheckAnswer
  BY <1>19, <1>b DEF CheckAnswer
<1>20. CASE Collide
  BY <1>20, <1>b DEF Collide
<1>21. ASSUME NEW r \in Id, Send(r) PROVE SmartIsShown'
  BY <1>21, <1>b DEF Send
<1>22. ASSUME NEW r \in Id, Answer(r) PROVE SmartIsShown'
  BY <1>22, <1>b DEF Answer
<1>23. ASSUME NEW min, NEW max, SetActive(min, max) PROVE SmartIsShown'
  BY <1>23 DEF SetActive, SmartIsShown
<1>24. CASE SetInactive
  <2>1. CASE timer["min"] = "off"
    <3>1. smart' = [active |-> FALSE, shown |-> FALSE] /\ Set("max", "off")
      BY <1>24, <2>1 DEF SetInactive
    <3>2. timer'["min"] = "off"
      BY <2>1, <3>1, TimerSet
    <3> QED BY <3>1, <3>2 DEF SmartIsShown
  <2>2. CASE timer["min"] # "off"
    <3>1. smart' = [smart EXCEPT !.active = FALSE] /\ timer' = timer
      BY <1>24, <2>2 DEF SetInactive
    <3>2. smart'.shown = smart.shown
      BY <1>a, <3>1, SmartInactive, Zenon
    <3> QED BY <1>a, <2>2, <3>1, <3>2 DEF SmartIsShown
  <2> QED BY <2>1, <2>2
<1>25. ASSUME NEW t \in {"min", "max"}, DurationExpires(t) PROVE SmartIsShown'
  <2>1. smart' = smart /\ timer[t] = "on" /\ Set(t, "fired")
    BY <1>25 DEF DurationExpires
  <2>2. timer'["min"] = "off" <=> timer["min"] = "off"
    BY <2>1, TimerSet
  <2> QED BY <1>a, <2>1, <2>2 DEF SmartIsShown
<1>26. CASE UNCHANGED vars
  BY <1>26, <1>b DEF vars
<1> QED
  BY <1>1, <1>2, <1>3, <1>4, <1>5, <1>6, <1>7, <1>8, <1>9, <1>10, <1>11, <1>12, <1>13, <1>14,
     <1>15, <1>16, <1>17, <1>18, <1>19, <1>20, <1>21, <1>22, <1>23, <1>24, <1>25, <1>26
     DEF Next, Can, Win, ConnCallback, ReqCallback, Expire

\* The display shows the smart item exactly while it is active or its minimum time runs,
\* whatever durations its messages carry.
THEOREM SmartShown == Spec => []SmartIsShown
<1>1. Init => SmartIsShown
  BY DEF Init, SmartIsShown, Timer
<1>2. TypeOK /\ SmartIsShown /\ [Next]_vars => SmartIsShown'
  BY SmartStep
<1> QED BY <1>1, <1>2, TypeCorrect, PTL DEF Spec

LEMMA EndStep == TypeOK /\ EndsOnlyByDuration /\ [Next]_vars => EndsOnlyByDuration'
<1> SUFFICES ASSUME TypeOK, EndsOnlyByDuration, [Next]_vars PROVE EndsOnlyByDuration'
  OBVIOUS
<1> USE DEF link, frame, flags, request, Go
\* Only a running program moves, and few steps end it.
<1>a. ASSUME ~down, down' = down PROVE EndsOnlyByDuration'
  BY <1>a DEF EndsOnlyByDuration
<1>1. CASE KeepAlive
  BY <1>1, <1>a DEF KeepAlive
<1>2. CASE ClearAlert
  BY <1>2, <1>a DEF ClearAlert
<1>3. CASE ClearLost
  BY <1>3, <1>a DEF ClearLost
<1>4. CASE Rearm
  BY <1>4, <1>a DEF Rearm
<1>5. CASE ConnectionExpires
  BY <1>5, <1>a DEF ConnectionExpires
<1>6. CASE SetLost
  BY <1>6, <1>a DEF SetLost
<1>7. CASE SetAlert
  BY <1>7, <1>a DEF SetAlert
<1>8. CASE SetNumber
  BY <1>8, <1>a DEF SetNumber
<1>9. CASE SetSent
  BY <1>9, <1>a DEF SetSent
<1>10. CASE ResetLsb
  BY <1>10, <1>a DEF ResetLsb
<1>11. CASE StartRequest
  BY <1>11, <1>a DEF StartRequest
<1>12. CASE RequestExpires
  BY <1>12, <1>a DEF RequestExpires
<1>13. CASE DiscardLsb
  BY <1>13, <1>a DEF DiscardLsb
<1>14. CASE DiscardSent
  BY <1>14, <1>a DEF DiscardSent
<1>15. CASE StoreLsb
  BY <1>15, <1>a DEF StoreLsb
<1>16. CASE CompareMsb
  BY <1>16, <1>a DEF CompareMsb
<1>17. CASE ClearSent
  BY <1>17, <1>a DEF ClearSent
<1>18. CASE StopRequest
  BY <1>18, <1>a DEF StopRequest
<1>19. CASE CheckAnswer
  BY <1>19, <1>a DEF CheckAnswer
<1>20. CASE Collide
  BY <1>20 DEF Collide, EndsOnlyByDuration
<1>21. ASSUME NEW r \in Id, Send(r) PROVE EndsOnlyByDuration'
  BY <1>21, <1>a DEF Send
<1>22. ASSUME NEW r \in Id, Answer(r) PROVE EndsOnlyByDuration'
  BY <1>22, <1>a DEF Answer
<1>23. ASSUME NEW min, NEW max, SetActive(min, max) PROVE EndsOnlyByDuration'
  BY <1>23, <1>a DEF SetActive
<1>24. CASE SetInactive
  BY <1>24, <1>a DEF SetInactive
<1>25. ASSUME NEW t \in {"min", "max"}, DurationExpires(t) PROVE EndsOnlyByDuration'
  <2>1. timer'[t] = "fired"
    BY <1>25, TimerSet DEF DurationExpires, Timer, States
  <2> QED BY <2>1 DEF EndsOnlyByDuration
<1>26. CASE UNCHANGED vars
  BY <1>26 DEF vars, EndsOnlyByDuration
<1> QED
  BY <1>1, <1>2, <1>3, <1>4, <1>5, <1>6, <1>7, <1>8, <1>9, <1>10, <1>11, <1>12, <1>13, <1>14,
     <1>15, <1>16, <1>17, <1>18, <1>19, <1>20, <1>21, <1>22, <1>23, <1>24, <1>25, <1>26
     DEF Next, Can, Win, ConnCallback, ReqCallback, Expire

\* No callback but a smart item's joins its own thread, and no timer is joined by two threads
\* but the requests', when an answer meets a new request.
THEOREM EndsByDuration == Spec => []EndsOnlyByDuration
<1>1. Init => EndsOnlyByDuration
  BY DEF Init, EndsOnlyByDuration
<1>2. TypeOK /\ EndsOnlyByDuration /\ [Next]_vars => EndsOnlyByDuration'
  BY EndStep
<1> QED BY <1>1, <1>2, TypeCorrect, PTL DEF Spec
=============================================================================
