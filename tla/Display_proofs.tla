---------------------------- MODULE Display_proofs ----------------------------
(* What is proved of Display, for any tree of items, any threads' interleaving   *)
(* and any bounds: its types, that no change is lost, that updates are shown in   *)
(* order, and that the nodes count the active items beneath them.                 *)
EXTENDS Display, FiniteSetTheorems, SequenceTheorems, TLAPS

Counts == [Node -> Nat]

-----------------------------------------------------------------------------
(* The tree *)

LEMMA Paths ==
  ASSUME NEW n \in Node
  PROVE  n \in Above[n] /\ n \in Path(n) /\ Path(n) \subseteq Above[n] /\ Above[n] \subseteq Node
<1>1. n \in Above[n] /\ Above[n] \subseteq Node
  BY TreeAssumption
<1>2. ASSUME NEW k \in Above[n] \ {n}
      PROVE  n \notin Above[k]
  <2>1. n # Root
    BY <1>2, TreeAssumption
  <2>2. Parent[n] \in Node /\ k \in Above[Parent[n]] /\ n \notin Above[Parent[n]]
    BY <1>2, <2>1, TreeAssumption
  <2> QED BY <2>2, TreeAssumption
<1> QED BY <1>1, <1>2 DEF Path

LEMMA ItemIsNode == Item \subseteq Node
BY TreeAssumption

\* A node that shares a mutex group with one on the path of an item shares it with
\* the item, and is an item itself.
LEMMA GroupOfItems ==
  /\ \A n \in Node : InMutexGroup(n) => n \in Item
  /\ \A i \in Item : \A k \in Path(i) : InMutexGroup(k) => k = i
  /\ \A i, m \in Node : InMutexGroup(i) /\ m \in Siblings(i) => InMutexGroup(m) /\ m \in Node
<1>1. \A n \in Node : InMutexGroup(n) => n \in Item
  BY ItemAssumption, TreeAssumption DEF InMutexGroup
<1>2. \A i \in Item : Path(i) \subseteq Node
  BY Paths, ItemIsNode
<1>3. \A i \in Item : \A k \in Path(i) : InMutexGroup(k) => k = i
  BY <1>1, <1>2, ItemAssumption
<1>4. \A i, m \in Node : InMutexGroup(i) /\ m \in Siblings(i) => InMutexGroup(m) /\ m \in Node
  BY DEF InMutexGroup, Siblings
<1> QED BY <1>1, <1>3, <1>4

LEMMA DeactivatedCounts ==
  ASSUME NEW c \in Counts, NEW i \in Item
  PROVE  Deactivated(c, i) \in Counts
<1>1. ASSUME NEW m \in Node, \A k \in Path(i) : m \in Above[k] => c[k] > 0, m \in Path(i)
      PROVE  c[m] - 1 \in Nat
  <2>1. m \in Above[m]
    BY Paths
  <2>2. c[m] \in Nat /\ c[m] > 0
    BY <1>1, <2>1 DEF Counts
  <2> QED BY <2>2
<1> QED BY <1>1 DEF Deactivated, Counts

LEMMA ActivatedCounts ==
  ASSUME NEW c \in Counts, NEW i \in Item
  PROVE  Activated(c, i) \in Counts
BY DEF Activated, Counts

LEMMA ChangeCounts ==
  ASSUME NEW c \in Counts, NEW i \in Item, NEW on \in BOOLEAN
  PROVE  Change(c, i, on) \in Counts
BY DeactivatedCounts, ActivatedCounts DEF Change, Activation, Deactivation

LEMMA TornCounts ==
  ASSUME NEW c \in Counts, NEW f \in Counts, NEW g \in Counts, NEW both \in Counts
  PROVE  Torn(c, f, g, both) \subseteq Counts
<1> DEFINE T(lf, lg) == [m \in Node |-> IF m \in lf THEN f[m] ELSE IF m \in lg THEN g[m] ELSE both[m]]
<1>1. ASSUME NEW lf, NEW lg
      PROVE  T(lf, lg) \in Counts
  BY DEF Counts
<1>2. ASSUME NEW h \in Torn(c, f, g, both)
      PROVE  \E lf, lg : h = T(lf, lg)
  BY <1>2 DEF Torn
<1> HIDE DEF T
<1> QED BY <1>1, <1>2

-----------------------------------------------------------------------------
(* Types *)

LEMMA UnlockedCalls ==
  \A u \in Unlocked : u[1] \in Thread /\ u[2] \in BOOLEAN
<1> SUFFICES ASSUME NEW u \in Unlocked PROVE u[1] \in Thread /\ u[2] \in BOOLEAN
  OBVIOUS
<1>1. CASE u = <<"timer", TRUE>>
  BY <1>1 DEF Thread
<1>2. CASE u = <<"can", FALSE>>
  BY <1>2 DEF Thread
<1>3. CASE u = <<"gui", FALSE>>
  BY <1>3 DEF Thread
<1> QED BY <1>1, <1>2, <1>3 DEF Unlocked

LEMMA PlacesOfThreads ==
  ASSUME NEW t \in Thread, NEW l \in Places, pc \in [Thread -> Places], Go(t, l)
  PROVE  pc' \in [Thread -> Places] /\ pc'[t] = l /\ \A s \in Thread : s # t => pc'[s] = pc[s]
BY DEF Go

LEMMA InitialTypes == Init => TypeOK
<1> SUFFICES ASSUME Init PROVE TypeOK
  OBVIOUS
<1>1. count \in [Node -> Nat] /\ pc \in [Thread -> Places]
  BY DEF Init, Places, Thread
<1>2. posted \in Seq(SUBSET Node)
  BY DEF Init
<1> QED BY <1>1, <1>2 DEF Init, TypeOK

LEMMA Typing ==
  TypeOK /\ [Next]_vars => TypeOK'
<1> SUFFICES ASSUME TypeOK, [Next]_vars PROVE TypeOK'
  OBVIOUS
<1> USE DEF tree, flags, screen
<1>a. /\ count \in Counts /\ changed \in BOOLEAN /\ complete \in BOOLEAN
      /\ window \in {"off", "posted", "on"} /\ mutex \in Thread \cup {"none"}
      /\ pc \in [Thread -> Places]
      /\ drawn \subseteq Node /\ posted \in Seq(SUBSET Node) /\ shown \subseteq Node
      /\ raced \in BOOLEAN /\ overtaken \in BOOLEAN
  BY DEF TypeOK, Counts
<1>b. ASSUME NEW t \in Thread, NEW l \in Places, Go(t, l)
      PROVE  pc' \in [Thread -> Places]
  BY <1>a, <1>b, PlacesOfThreads
<1>c. Visible(count) \subseteq Node
  BY DEF Visible
<1>d. Alert \in Item /\ Ruled \subseteq Item
  BY DisplayAssumption
<1>e. \A i \in Item, on \in BOOLEAN : Change(count, i, on) \in Counts
  BY <1>a, ChangeCounts
<1>1. ASSUME NEW t \in Thread, Check(t) PROVE TypeOK'
  <2>1. pc' \in [Thread -> Places]
    BY <1>1, <1>b DEF Check, Places
  <2> QED BY <1>a, <1>1, <2>1 DEF Check, TypeOK, Counts
<1>2. ASSUME NEW t \in Thread, Take(t) PROVE TypeOK'
  <2>1. pc' \in [Thread -> Places]
    BY <1>2, <1>b DEF Take, Places
  <2> QED BY <1>a, <1>2, <2>1 DEF Take, TypeOK, Counts
<1>3. ASSUME NEW t \in Thread, Lock(t) PROVE TypeOK'
  <2>1. pc' \in [Thread -> Places]
    BY <1>3, <1>b DEF Lock, Places
  <2> QED BY <1>a, <1>3, <2>1 DEF Lock, TypeOK, Counts
<1>4. ASSUME NEW t \in Thread, Visit(t) PROVE TypeOK'
  <2>1. pc' \in [Thread -> Places]
    BY <1>4, <1>b DEF Visit, Places
  <2>2. drawn' \in SUBSET Node
    BY <1>4, <1>c DEF Visit
  <2>3. posted' \in Seq(SUBSET Node) /\ shown' \subseteq Node /\ overtaken' \in BOOLEAN
    <3>1. CASE t = "gui"
      <4>1. overtaken' = (overtaken \/ posted # <<>>) /\ shown' = drawn' /\ posted' = posted
        BY <1>4, <3>1 DEF Visit
      <4> QED BY <1>a, <2>2, <4>1
    <3>2. CASE t # "gui"
      <4>1. posted' = Append(posted, drawn') /\ shown' = shown /\ overtaken' = overtaken
        BY <1>4, <3>2 DEF Visit
      <4> QED BY <1>a, <2>2, <4>1
    <3> QED BY <3>1, <3>2
  <2>4. mutex' = "none" /\ UNCHANGED <<count, raced, changed, complete, window>>
    BY <1>4 DEF Visit
  <2> QED BY <1>a, <2>1, <2>2, <2>3, <2>4 DEF TypeOK, Counts
<1>5. ASSUME NEW t \in Thread, Mark(t) PROVE TypeOK'
  <2>1. pc' \in [Thread -> Places]
    BY <1>5, <1>b DEF Mark, Places
  <2> QED BY <1>a, <1>5, <2>1 DEF Mark, TypeOK, Counts
<1>6. ASSUME NEW t \in Thread, ForceUpdate(t) PROVE TypeOK'
  <2>1. pc' \in [Thread -> Places]
    BY <1>6, <1>b DEF ForceUpdate, Places
  <2> QED BY <1>a, <1>6, <2>1 DEF ForceUpdate, TypeOK, Counts
<1>7. ASSUME NEW u \in Unlocked, Call(u) PROVE TypeOK'
  <2>1. u[1] \in Thread /\ u[2] \in BOOLEAN
    BY UnlockedCalls
  <2>2. pc' \in [Thread -> Places]
    <3>1. Go(u[1], IF count' # count THEN "mark" ELSE "force")
      BY <1>7 DEF Call
    <3>2. (IF count' # count THEN "mark" ELSE "force") \in Places
      BY DEF Places
    <3> QED BY <2>1, <3>1, <3>2, <1>b
  <2>3. count' \in Counts
    BY <1>7, <1>d, <1>e, <2>1 DEF Call
  <2>4. UNCHANGED <<raced, changed, complete, window, mutex, drawn, posted, shown, overtaken>>
    BY <1>7 DEF Call
  <2> QED BY <1>a, <2>2, <2>3, <2>4 DEF TypeOK, Counts
<1>8. ASSUME NEW u \in Unlocked, Begin(u) PROVE TypeOK'
  <2>1. u[1] \in Thread
    BY UnlockedCalls
  <2>2. pc' \in [Thread -> Places]
    BY <1>8, <2>1, <1>b DEF Begin, Places
  <2>3. UNCHANGED <<count, raced, changed, complete, window, mutex, drawn, posted, shown, overtaken>>
    BY <1>8 DEF Begin
  <2> QED BY <1>a, <2>2, <2>3 DEF TypeOK, Counts
<1>9. ASSUME NEW t \in {"can", "gui"}, NEW i \in Ruled, NEW on \in BOOLEAN, Rule(t, i, on)
      PROVE  TypeOK'
  <2>1. count' \in Counts
    BY <1>9, <1>d, <1>e DEF Rule
  <2>2. changed' = TRUE /\ UNCHANGED <<raced, complete, window, mutex, pc, drawn, posted, shown, overtaken>>
    BY <1>9 DEF Rule
  <2> QED BY <1>a, <2>1, <2>2 DEF TypeOK, Counts
<1>10. ASSUME NEW u \in Unlocked, NEW t \in {"can", "gui"}, NEW i \in Ruled, NEW on \in BOOLEAN,
              Overlap(u, t, i, on)
       PROVE  TypeOK'
  <2>1. u[1] \in Thread /\ u[2] \in BOOLEAN
    BY UnlockedCalls
  <2>2. pc' \in [Thread -> Places]
    BY <1>10, <2>1, <1>b DEF Overlap, Places
  <2>3. count' \in Counts
    <3> DEFINE f == Change(count, Alert, u[2])
               g == Change(count, i, on)
               both == Change(g, Alert, u[2])
    <3>1. f \in Counts /\ g \in Counts
      BY <1>d, <1>e, <2>1
    <3>2. both \in Counts
      BY <1>d, <2>1, <3>1, ChangeCounts
    <3>3. count' \in Torn(count, f, g, both)
      BY <1>10 DEF Overlap
    <3> HIDE DEF f, g, both
    <3> QED BY <1>a, <3>1, <3>2, <3>3, TornCounts
  <2>4. changed' = TRUE /\ raced' = TRUE
        /\ UNCHANGED <<complete, window, mutex, drawn, posted, shown, overtaken>>
    BY <1>10 DEF Overlap
  <2> QED BY <1>a, <2>2, <2>3, <2>4 DEF TypeOK, Counts
<1>11. CASE Frame
  <2>1. pc' \in [Thread -> Places]
    BY <1>11, <1>b DEF Frame, Places, Thread
  <2> QED BY <1>a, <1>11, <2>1 DEF Frame, TypeOK, Counts
<1>12. CASE EndFrame
  <2>1. pc' \in [Thread -> Places]
    BY <1>12, <1>b DEF EndFrame, Places, Thread
  <2> QED BY <1>a, <1>12, <2>1 DEF EndFrame, TypeOK, Counts
<1>13. CASE Deliver
  <2>1. shown' \subseteq Node /\ posted' \in Seq(SUBSET Node)
    BY <1>a, <1>13 DEF Deliver
  <2> QED BY <1>a, <1>13, <2>1 DEF Deliver, TypeOK, Counts
<1>14. CASE WindowStarts
  BY <1>a, <1>14 DEF WindowStarts, TypeOK, Counts
<1>15. CASE WindowEnds
  <2>1. pc' \in [Thread -> Places]
    BY <1>15, <1>b DEF WindowEnds, Places, Thread
  <2> QED BY <1>a, <1>15, <2>1 DEF WindowEnds, TypeOK, Counts
<1>16. ASSUME NEW i \in Ruled, Refresh(i) PROVE TypeOK'
  <2>1. Activation(Deactivation(count, i), i) \in Counts
    <3>1. Deactivation(count, i) \in Counts
      BY <1>a, <1>d, DeactivatedCounts DEF Deactivation
    <3> QED BY <1>d, <3>1, ActivatedCounts DEF Activation
  <2>2. count' \in Counts /\ changed' = TRUE
        /\ UNCHANGED <<raced, complete, window, mutex, pc, drawn, posted, shown, overtaken>>
    BY <1>16, <2>1 DEF Refresh
  <2> QED BY <1>a, <2>2 DEF TypeOK, Counts
<1>17. CASE Reenter
  <2>1. pc' \in [Thread -> Places]
    BY <1>17, <1>b DEF Reenter, Places, Thread
  <2> QED BY <1>a, <1>17, <2>1 DEF Reenter, TypeOK, Counts
<1>18. CASE Stuck \/ UNCHANGED vars
  BY <1>a, <1>18 DEF Stuck, vars, TypeOK, Counts
<1> QED
  BY <1>1, <1>2, <1>3, <1>4, <1>5, <1>6, <1>7, <1>8, <1>9, <1>10, <1>11, <1>12, <1>13, <1>14,
     <1>15, <1>16, <1>17, <1>18 DEF Next, Step, Process, Window

\* The variables keep their types, so no count falls below zero: activate() and
\* deactivate() (rootedtreenode.cpp) keep counts natural even when calls overlap.
THEOREM TypeCorrect == Spec => []TypeOK
<1>1. TypeOK /\ [Next]_vars => TypeOK'
  BY Typing
<1> QED BY <1>1, InitialTypes, PTL DEF Spec

-----------------------------------------------------------------------------
(* No change is lost *)

\* Threads that have a change to flag or to show.
Pending(t) == pc[t] \in {"mark", "lock", "visit", "stuck"}

LEMMA OthersStayPending ==
  ASSUME TypeOK, NEW t \in Thread, NEW l \in Places, Go(t, l), NEW s \in Thread, Pending(s),
         t = s => l \in {"mark", "lock", "visit", "stuck"}
  PROVE  \E r \in Thread : Pending(r)'
<1>1. pc' \in [Thread -> Places] /\ pc'[t] = l /\ (s # t => pc'[s] = pc[s])
  BY PlacesOfThreads DEF TypeOK
<1> QED BY <1>1 DEF Pending

LEMMA ChangesKept ==
  TypeOK /\ NoLostChange /\ [Next]_vars => NoLostChange'
<1> SUFFICES ASSUME TypeOK, NoLostChange, [Next]_vars PROVE NoLostChange'
  OBVIOUS
<1> USE DEF tree, flags, screen
<1>a. drawn = Visible(count) \/ changed \/ \E t \in Thread : Pending(t)
  BY DEF NoLostChange, Pending
<1>b. ASSUME changed' \/ (drawn = Visible(count))' \/ \E t \in Thread : Pending(t)'
      PROVE  NoLostChange'
  BY <1>b DEF NoLostChange, Pending
<1>c. ASSUME NEW t \in Thread, NEW l \in Places, Go(t, l), l \in {"mark", "lock", "visit", "stuck"}
      PROVE  NoLostChange'
  <2>1. pc'[t] = l
    BY <1>c, PlacesOfThreads DEF TypeOK
  <2> QED BY <1>b, <1>c, <2>1 DEF Pending
\* A step that leaves the counts, the flag and the screen alone, of a thread with nothing
\* to flag or to show.
<1>d. ASSUME NEW t \in Thread, NEW l \in Places, Go(t, l), ~Pending(t),
             UNCHANGED <<count, drawn>>, changed' = changed
      PROVE  NoLostChange'
  <2>1. CASE changed \/ drawn = Visible(count)
    BY <1>b, <1>d, <2>1 DEF Visible
  <2>2. ASSUME NEW s \in Thread, Pending(s)
        PROVE  NoLostChange'
    BY <1>b, <1>d, <2>2, OthersStayPending
  <2> QED BY <1>a, <2>1, <2>2
<1>e. ASSUME UNCHANGED <<count, drawn, pc>>, changed' = changed
      PROVE  NoLostChange'
  BY <1>e DEF NoLostChange, Visible
<1>1. ASSUME NEW t \in Thread, Check(t) PROVE NoLostChange'
  <2>1. ~Pending(t)
    BY <1>1 DEF Check, Pending
  <2>2. (IF complete /\ changed /\ window # "on" THEN "take" ELSE "idle") \in Places
    BY DEF Places
  <2> QED BY <1>1, <1>d, <2>1, <2>2 DEF Check
<1>2. ASSUME NEW t \in Thread, Take(t) PROVE NoLostChange'
  BY <1>2, <1>c DEF Take, Places
<1>3. ASSUME NEW t \in Thread, Lock(t) PROVE NoLostChange'
  BY <1>3, <1>c DEF Lock, Places
<1>4. ASSUME NEW t \in Thread, Visit(t) PROVE NoLostChange'
  <2>1. drawn' = Visible(count) /\ count' = count
    BY <1>4 DEF Visit
  <2> QED BY <1>b, <2>1 DEF Visible
<1>5. ASSUME NEW t \in Thread, Mark(t) PROVE NoLostChange'
  BY <1>5, <1>b DEF Mark
<1>6. ASSUME NEW t \in Thread, ForceUpdate(t) PROVE NoLostChange'
  <2>1. ~Pending(t)
    BY <1>6 DEF ForceUpdate, Pending
  <2>2. (IF changed THEN "check" ELSE "idle") \in Places
    BY DEF Places
  <2> QED BY <1>6, <1>d, <2>1, <2>2 DEF ForceUpdate
<1>7. ASSUME NEW u \in Unlocked, Call(u) PROVE NoLostChange'
  <2>1. u[1] \in Thread
    BY UnlockedCalls
  <2>2. ~Pending(u[1]) /\ drawn' = drawn /\ changed' = changed
    BY <1>7 DEF Call, Pending
  <2>3. CASE count' # count
    <3>1. Go(u[1], "mark")
      BY <1>7, <2>3 DEF Call
    <3> QED BY <1>c, <2>1, <3>1 DEF Places
  <2>4. CASE count' = count
    <3>1. Go(u[1], "force")
      BY <1>7, <2>4 DEF Call
    <3> QED BY <1>d, <2>1, <2>2, <2>4, <3>1 DEF Places
  <2> QED BY <2>3, <2>4
<1>8. ASSUME NEW u \in Unlocked, Begin(u) PROVE NoLostChange'
  <2>1. u[1] \in Thread
    BY UnlockedCalls
  <2>2. ~Pending(u[1]) /\ Go(u[1], "call") /\ UNCHANGED <<count, drawn>> /\ changed' = changed
    BY <1>8 DEF Begin, Pending
  <2> QED BY <1>d, <2>1, <2>2 DEF Places
<1>9. ASSUME NEW t, NEW i, NEW on, Rule(t, i, on) PROVE NoLostChange'
  BY <1>9, <1>b DEF Rule
<1>10. ASSUME NEW u, NEW t, NEW i, NEW on, Overlap(u, t, i, on) PROVE NoLostChange'
  BY <1>10, <1>b DEF Overlap
<1>11. CASE Frame
  BY <1>11, <1>d DEF Frame, Places, Thread, Pending
<1>12. CASE EndFrame
  BY <1>12, <1>d DEF EndFrame, Places, Thread, Pending
<1>13. CASE Deliver
  BY <1>13, <1>e DEF Deliver
<1>14. CASE WindowStarts
  BY <1>14, <1>e DEF WindowStarts
<1>15. CASE WindowEnds
  BY <1>15, <1>d DEF WindowEnds, Places, Thread, Pending
<1>16. ASSUME NEW i, Refresh(i) PROVE NoLostChange'
  BY <1>16, <1>b DEF Refresh
<1>17. CASE Reenter
  BY <1>17, <1>c DEF Reenter, Places, Thread
<1>18. CASE Stuck \/ UNCHANGED vars
  BY <1>18, <1>e DEF Stuck, vars
<1> QED
  BY <1>1, <1>2, <1>3, <1>4, <1>5, <1>6, <1>7, <1>8, <1>9, <1>10, <1>11, <1>12, <1>13, <1>14,
     <1>15, <1>16, <1>17, <1>18 DEF Next, Step, Process, Window

\* Whoever clears flag_tree_changed, and however often process() does, a change that is
\* not shown yet is flagged or in the hands of a thread that will flag or show it.
THEOREM NothingLost == Spec => []NoLostChange
<1>1. Init => NoLostChange
  <2> SUFFICES ASSUME Init PROVE drawn = Visible(count)
    BY DEF NoLostChange
  <2>1. drawn = {} /\ \A n \in Node : ~(count[n] > 0)
    BY DEF Init
  <2>2. \A n \in Node : n \in Above[n]
    BY Paths
  <2> QED BY <2>1, <2>2 DEF Visible
<1>2. TypeOK /\ NoLostChange /\ [Next]_vars => NoLostChange'
  BY ChangesKept
<1> QED BY <1>1, <1>2, TypeCorrect, PTL DEF Spec

-----------------------------------------------------------------------------
(* Updates are shown in order *)

\* The last of what is posted is what was visited last.
PostedInOrder ==
  \/ overtaken
  \/ posted = <<>> /\ shown = drawn
  \/ posted # <<>> /\ posted[Len(posted)] = drawn

LEMMA OrderKept ==
  TypeOK /\ PostedInOrder /\ [Next]_vars => PostedInOrder'
<1> SUFFICES ASSUME TypeOK, PostedInOrder, [Next]_vars PROVE PostedInOrder'
  OBVIOUS
<1> USE DEF tree, flags, screen
<1>a. posted \in Seq(SUBSET Node)
  BY DEF TypeOK
<1>b. ASSUME UNCHANGED <<drawn, posted, shown, overtaken>>
      PROVE  PostedInOrder'
  BY <1>b DEF PostedInOrder
<1>1. ASSUME NEW t \in Thread, Visit(t) PROVE PostedInOrder'
  <2>1. CASE t = "gui"
    <3>1. shown' = drawn' /\ posted' = posted /\ overtaken' = (overtaken \/ posted # <<>>)
      BY <1>1, <2>1 DEF Visit
    <3>2. CASE posted = <<>>
      BY <3>1, <3>2 DEF PostedInOrder
    <3>3. CASE posted # <<>>
      BY <3>1, <3>3 DEF PostedInOrder
    <3> QED BY <3>2, <3>3
  <2>2. CASE t # "gui"
    <3>1. drawn' \in SUBSET Node /\ posted' = Append(posted, drawn')
      BY <1>1, <2>2 DEF Visit, Visible
    <3>2. posted' # <<>> /\ posted'[Len(posted')] = drawn'
      BY <1>a, <3>1
    <3> QED BY <3>2 DEF PostedInOrder
  <2> QED BY <2>1, <2>2
<1>2. CASE Deliver
  <2>1. posted # <<>> /\ shown' = Head(posted) /\ posted' = Tail(posted)
        /\ drawn' = drawn /\ overtaken' = overtaken
    BY <1>2 DEF Deliver
  <2>2. CASE overtaken
    BY <2>1, <2>2 DEF PostedInOrder
  <2>3. CASE ~overtaken /\ Len(posted) = 1
    <3>1. posted[Len(posted)] = drawn
      BY <2>1, <2>3 DEF PostedInOrder
    <3>2. posted' = <<>> /\ shown' = drawn
      BY <1>a, <2>1, <2>3, <3>1
    <3> QED BY <2>1, <3>2 DEF PostedInOrder
  <2>4. CASE ~overtaken /\ Len(posted) # 1
    <3>1. posted[Len(posted)] = drawn
      BY <2>1, <2>4 DEF PostedInOrder
    <3>2. posted' # <<>> /\ posted'[Len(posted')] = posted[Len(posted)]
      <4>1. Len(posted) \in Nat /\ Len(posted) > 1
        <5>1. Len(posted) \in Nat \ {0}
          BY <1>a, <2>1, EmptySeq, Zenon
        <5> QED BY <2>4, <5>1
      <4>2. Tail(posted) \in Seq(SUBSET Node) /\ Len(Tail(posted)) = Len(posted) - 1
        BY <1>a, <2>1
      <4>3. Tail(posted)[Len(posted) - 1] = posted[Len(posted)]
        BY <1>a, <4>1
      <4>4. Tail(posted) # <<>>
        <5>1. Len(<<>>) = 0
          BY EmptySeq
        <5>2. Len(Tail(posted)) # 0
          BY <4>1, <4>2
        <5> QED BY <5>1, <5>2
      <4> QED BY <2>1, <4>2, <4>3, <4>4
    <3> QED BY <2>1, <3>1, <3>2 DEF PostedInOrder
  <2> QED BY <2>2, <2>3, <2>4
<1>3. ASSUME NEW t \in Thread, Check(t) \/ Take(t) \/ Lock(t) \/ Mark(t) \/ ForceUpdate(t)
      PROVE  PostedInOrder'
  BY <1>3, <1>b DEF Check, Take, Lock, Mark, ForceUpdate
<1>4. ASSUME NEW u, Call(u) \/ Begin(u)
      PROVE  PostedInOrder'
  BY <1>4, <1>b DEF Call, Begin
<1>5. ASSUME NEW u, NEW t, NEW i, NEW on, Rule(t, i, on) \/ Overlap(u, t, i, on)
      PROVE  PostedInOrder'
  BY <1>5, <1>b DEF Rule, Overlap
<1>6. CASE Frame \/ EndFrame \/ Window
  BY <1>6, <1>b DEF Frame, EndFrame, Window, WindowStarts, WindowEnds
<1>7. ASSUME NEW i, Refresh(i)
      PROVE  PostedInOrder'
  BY <1>7, <1>b DEF Refresh
<1>8. CASE Reenter
  BY <1>8, <1>b DEF Reenter
<1>9. CASE Stuck \/ UNCHANGED vars
  BY <1>9, <1>b DEF Stuck, vars
<1> QED
  BY <1>1, <1>2, <1>3, <1>4, <1>5, <1>6, <1>7, <1>8, <1>9 DEF Next, Step, Process

\* Visits posted by three threads arrive in the order they were made, so that the last one
\* stays; only an update by the main thread itself may overtake them.
THEOREM Ordered == Spec => []ShownInOrder
<1>1. Init => PostedInOrder
  BY DEF Init, PostedInOrder
<1>2. TypeOK /\ PostedInOrder /\ [Next]_vars => PostedInOrder'
  BY OrderKept
<1>3. PostedInOrder => ShownInOrder
  BY DEF PostedInOrder, ShownInOrder
<1> QED BY <1>1, <1>2, <1>3, TypeCorrect, PTL DEF Spec

-----------------------------------------------------------------------------
(* Nodes count the active items beneath them *)

Balanced(c) ==
  \A m \in Node :
    /\ Cardinality(Active(c, m)) <= c[m]
    /\ ~HasMutexGroupBeneath(m) => c[m] = Cardinality(Active(c, m))

LEMMA ActiveIsFinite ==
  ASSUME NEW c, NEW m
  PROVE  IsFiniteSet(Active(c, m)) /\ Cardinality(Active(c, m)) \in Nat
<1>1. Active(c, m) \in SUBSET Item
  BY DEF Active
<1>2. IsFiniteSet(Active(c, m))
  BY <1>1, FiniteAssumption, FS_Subset
<1> QED BY <1>2, FS_CardinalityType

\* An item counts itself alone.
LEMMA ItemAlone ==
  ASSUME NEW c, NEW i \in Item
  PROVE  /\ Active(c, i) = IF c[i] > 0 THEN {i} ELSE {}
         /\ ~HasMutexGroupBeneath(i)
<1>1. i \in Path(i)
  BY Paths, ItemIsNode
<1> QED BY <1>1, ItemAssumption DEF Active, HasMutexGroupBeneath

\* activate() of an inactive item
LEMMA ActivatedBalanced ==
  ASSUME NEW c \in Counts, NEW i \in Item, Balanced(c), ~(c[i] > 0)
  PROVE  Balanced(Activated(c, i))
<1> DEFINE d == Activated(c, i)
<1>0. i \in Node /\ i \in Path(i) /\ Path(i) \subseteq Node
  BY Paths, ItemIsNode
<1>1. c[i] = 0
  BY <1>0 DEF Counts
<1>2. \A m \in Node : m \in Path(i) => d[m] = IF InMutexGroup(m) THEN 1 ELSE c[m] + 1
  BY DEF Activated
<1>3. \A m \in Node : m \notin Path(i) =>
        d[m] = IF InMutexGroup(i) /\ m \in Siblings(i) THEN 0 ELSE c[m]
  BY <1>0, GroupOfItems DEF Activated
<1>4. \A j \in Item : j # i => d[j] = IF InMutexGroup(i) /\ j \in Siblings(i) THEN 0 ELSE c[j]
  BY <1>3, ItemAssumption, ItemIsNode
<1>5. d[i] = 1
  BY <1>0, <1>1, <1>2
<1> HIDE DEF d
<1>6. ASSUME NEW m \in Node
      PROVE  /\ Cardinality(Active(d, m)) <= d[m]
             /\ ~HasMutexGroupBeneath(m) => d[m] = Cardinality(Active(d, m))
  <2> DEFINE A == Active(c, m)
             B == Active(d, m)
  <2>0. c[m] \in Nat
    BY DEF Counts
  <2>1. /\ IsFiniteSet(A) /\ Cardinality(A) \in Nat
        /\ IsFiniteSet(B) /\ Cardinality(B) \in Nat
    BY ActiveIsFinite
  <2>2. Cardinality(A) <= c[m] /\ (~HasMutexGroupBeneath(m) => c[m] = Cardinality(A))
    BY DEF Balanced
  <2>3. i \notin A
    BY <1>1 DEF Active
  <2>4. \A j \in Item : j # i /\ j \in B => j \in A
    <3>1. \A j \in Item : j # i => d[j] = 0 \/ d[j] = c[j]
      BY <1>4
    <3> QED BY <3>1 DEF Active
  <2>5. B \subseteq Item
    BY DEF Active
  \* Only a node with a mutex group beneath loses an active item.
  <2>6. ASSUME ~HasMutexGroupBeneath(m), m # i, ~(InMutexGroup(i) /\ m \in Siblings(i)),
               NEW j \in A
        PROVE  j \in B
    <3>1. j \in Item /\ j # i /\ c[j] > 0 /\ m \in Path(j)
      BY <2>3, <2>6 DEF Active
    <3>2. ~(InMutexGroup(i) /\ j \in Siblings(i))
      <4> SUFFICES ASSUME InMutexGroup(i), j \in Siblings(i) PROVE FALSE
        OBVIOUS
      <4>1. InMutexGroup(j)
        BY <1>0, <3>1, GroupOfItems, ItemIsNode
      <4>2. m = j
        BY <2>6, <3>1, <4>1 DEF HasMutexGroupBeneath
      <4> QED BY <2>6, <4>2
    <3>3. d[j] = c[j]
      BY <1>4, <3>1, <3>2
    <3> QED BY <3>1, <3>3 DEF Active
  <2>7. CASE m = i
    <3>1. B = {i} /\ Cardinality({i}) = 1
      BY <1>5, <2>7, ItemAlone, FS_Singleton
    <3> QED BY <1>5, <2>7, <3>1
  <2>8. CASE m \in Path(i) /\ m # i
    <3>1. d[m] = c[m] + 1
      BY <1>2, <2>8, GroupOfItems
    <3>2. B \in SUBSET (A \cup {i})
      BY <2>4, <2>5
    <3>3. IsFiniteSet(A \cup {i}) /\ Cardinality(A \cup {i}) = Cardinality(A) + 1
      BY <2>1, <2>3, FS_AddElement
    <3>4. Cardinality(B) <= Cardinality(A) + 1
      BY <3>2, <3>3, FS_Subset
    <3>5. ASSUME ~HasMutexGroupBeneath(m)
          PROVE  d[m] = Cardinality(B)
      <4>1. i \in B
        BY <1>5, <2>8 DEF Active
      <4>2. ~InMutexGroup(i)
        BY <2>8, <3>5 DEF HasMutexGroupBeneath
      <4>3. B = A \cup {i}
        BY <2>6, <2>8, <3>2, <3>5, <4>1, <4>2
      <4> HIDE DEF A, B
      <4> QED BY <2>2, <3>1, <3>3, <3>5, <4>3
    <3> QED BY <2>0, <2>1, <2>2, <3>1, <3>4, <3>5
  <2>9. CASE m \notin Path(i) /\ InMutexGroup(i) /\ m \in Siblings(i)
    <3>1. m \in Item
      BY <1>0, <2>9, GroupOfItems
    <3>2. d[m] = 0
      BY <1>3, <2>9
    <3>3. B = {}
      BY <3>1, <3>2, ItemAlone
    <3> QED BY <3>2, <3>3, FS_EmptySet
  <2>10. CASE m \notin Path(i) /\ ~(InMutexGroup(i) /\ m \in Siblings(i))
    <3>1. d[m] = c[m]
      BY <1>3, <2>10
    <3>2. B \in SUBSET A
      BY <2>4, <2>5, <2>10 DEF Active
    <3>3. Cardinality(B) <= Cardinality(A)
      BY <2>1, <3>2, FS_Subset
    <3>4. ASSUME ~HasMutexGroupBeneath(m)
          PROVE  B = A
      BY <1>0, <2>6, <2>10, <3>2, <3>4
    <3> QED BY <2>0, <2>1, <2>2, <3>1, <3>3, <3>4
  <2> QED BY <1>0, <2>7, <2>8, <2>9, <2>10
<1> QED BY <1>6 DEF Balanced, d

\* deactivate() of an active item
LEMMA DeactivatedBalanced ==
  ASSUME NEW c \in Counts, NEW i \in Item, Balanced(c), c[i] > 0
  PROVE  Balanced(Deactivated(c, i))
<1> DEFINE d == Deactivated(c, i)
<1>0. i \in Node /\ i \in Path(i) /\ Path(i) \subseteq Node
  BY Paths, ItemIsNode
<1>1. c[i] = 1
  <2>1. c[i] = Cardinality(Active(c, i)) /\ Active(c, i) = {i}
    BY <1>0, ItemAlone DEF Balanced
  <2> QED BY <2>1, FS_Singleton
<1>2. ASSUME NEW m \in Path(i)
      PROVE  c[m] > 0
  <2>1. i \in Active(c, m)
    BY DEF Active
  <2>2. Cardinality(Active(c, m)) # 0 /\ Cardinality(Active(c, m)) \in Nat
    BY <2>1, ActiveIsFinite, FS_EmptySet
  <2>3. Cardinality(Active(c, m)) <= c[m] /\ c[m] \in Nat
    BY <1>0 DEF Balanced, Counts
  <2> QED BY <2>2, <2>3
<1>3. \A m \in Node : d[m] = IF m \in Path(i) THEN c[m] - 1 ELSE c[m]
  BY <1>2 DEF Deactivated
<1>4. \A j \in Item : j # i => d[j] = c[j]
  BY <1>3, ItemAssumption, ItemIsNode
<1>5. d[i] = 0
  BY <1>0, <1>1, <1>3
<1> HIDE DEF d
<1>6. ASSUME NEW m \in Node
      PROVE  /\ Cardinality(Active(d, m)) <= d[m]
             /\ ~HasMutexGroupBeneath(m) => d[m] = Cardinality(Active(d, m))
  <2>0. c[m] \in Nat
    BY DEF Counts
  <2>1. IsFiniteSet(Active(c, m)) /\ Cardinality(Active(c, m)) \in Nat
    BY ActiveIsFinite
  <2>2. /\ Cardinality(Active(c, m)) <= c[m]
        /\ ~HasMutexGroupBeneath(m) => c[m] = Cardinality(Active(c, m))
    BY DEF Balanced
  <2>3. Active(d, m) = Active(c, m) \ {i}
    BY <1>4, <1>5 DEF Active
  <2>4. Cardinality(Active(c, m) \ {i}) =
          IF i \in Active(c, m) THEN Cardinality(Active(c, m)) - 1 ELSE Cardinality(Active(c, m))
    BY <2>1, FS_RemoveElement
  <2>5. i \in Active(c, m) <=> m \in Path(i)
    BY DEF Active
  <2> QED BY <1>3, <2>0, <2>1, <2>2, <2>3, <2>4, <2>5
<1> QED BY <1>6 DEF Balanced, d

LEMMA ChangeBalanced ==
  ASSUME NEW c \in Counts, NEW i \in Item, NEW on, Balanced(c)
  PROVE  Balanced(Change(c, i, on))
BY ActivatedBalanced, DeactivatedBalanced DEF Change, Activation, Deactivation

LEMMA BalanceKept ==
  TypeOK /\ (raced \/ Balanced(count)) /\ [Next]_vars => (raced \/ Balanced(count))'
<1> SUFFICES ASSUME TypeOK, raced \/ Balanced(count), [Next]_vars
             PROVE  raced' \/ Balanced(count')
  OBVIOUS
<1> USE DEF tree, flags, screen
<1>a. count \in Counts /\ Alert \in Item /\ Ruled \subseteq Item
  BY DisplayAssumption DEF TypeOK, Counts
<1>b. ASSUME UNCHANGED <<count, raced>>
      PROVE  raced' \/ Balanced(count')
  BY <1>b
<1>1. ASSUME NEW u, Call(u)
      PROVE  raced' \/ Balanced(count')
  BY <1>1, <1>a, ChangeBalanced DEF Call
<1>2. ASSUME NEW t, NEW i \in Ruled, NEW on, Rule(t, i, on)
      PROVE  raced' \/ Balanced(count')
  BY <1>2, <1>a, ChangeBalanced DEF Rule
<1>3. ASSUME NEW u, NEW t, NEW i, NEW on, Overlap(u, t, i, on)
      PROVE  raced' \/ Balanced(count')
  BY <1>3 DEF Overlap
<1>4. ASSUME NEW t \in Thread, Process(t) \/ Mark(t) \/ ForceUpdate(t)
      PROVE  raced' \/ Balanced(count')
  BY <1>4, <1>b DEF Process, Check, Take, Lock, Visit, Mark, ForceUpdate
<1>5. ASSUME NEW u, Begin(u)
      PROVE  raced' \/ Balanced(count')
  BY <1>5, <1>b DEF Begin
<1>6. CASE Frame \/ EndFrame \/ Deliver \/ Window \/ Reenter
  BY <1>6, <1>b DEF Frame, EndFrame, Deliver, Window, WindowStarts, WindowEnds, Reenter
<1>7. ASSUME NEW i \in Ruled, Refresh(i)
      PROVE  raced' \/ Balanced(count')
  <2>1. i \in Item /\ Deactivation(count, i) \in Counts
    BY <1>a, DeactivatedCounts DEF Deactivation
  <2>2. Balanced(count) => Balanced(Deactivation(count, i))
    BY <1>a, <2>1, DeactivatedBalanced DEF Deactivation
  <2>3. Balanced(count) => Balanced(Activation(Deactivation(count, i), i))
    BY <2>1, <2>2, ActivatedBalanced DEF Activation
  <2> QED BY <1>7, <2>3 DEF Refresh
<1>8. CASE Stuck \/ UNCHANGED vars
  BY <1>8, <1>b DEF Stuck, vars
<1> QED BY <1>1, <1>2, <1>3, <1>4, <1>5, <1>6, <1>7, <1>8 DEF Next, Step

\* As long as no two calls have overlapped, every node from an active item up to the root
\* counts it, and only the exchanges of mutex groups leave a count too high.
THEOREM CountsBalance == Spec => []Counted
<1>1. Init => Balanced(count)
  <2> SUFFICES ASSUME Init, NEW m \in Node
               PROVE  Active(count, m) = {} /\ count[m] = 0
    BY FS_EmptySet DEF Balanced
  <2>1. \A n \in Node : count[n] = 0
    BY DEF Init
  <2> QED BY <2>1, ItemIsNode DEF Active
<1>2. TypeOK /\ (raced \/ Balanced(count)) /\ [Next]_vars => (raced \/ Balanced(count))'
  BY BalanceKept
<1>3. (raced \/ Balanced(count)) <=> Counted
  BY DEF Balanced, Counted
<1> QED BY <1>1, <1>2, <1>3, TypeCorrect, PTL DEF Spec
=============================================================================
