------------------------------- MODULE Display -------------------------------
(***************************************************************************)
(* How a change of the item tree comes to be shown (mainprocess.cpp).      *)
(* Four threads change counts and may each find themselves in process():   *)
(*   can    CanManager's: the rules of messages, and keep-alives,          *)
(*   timer  the callbacks of MeDisconnectionReport's timers,               *)
(*   gui    Qt's main thread: signals of QML items, and their slots,       *)
(*   win    MainProcess::itsThread: the window of 30 ms between updates.   *)
(* The mutex is held by process() while it updates and by the calls of     *)
(* rules, but not by the timers' callbacks, the keep-alive or an item that *)
(* deactivates itself.  A visit of the tree reaches the QML items through  *)
(* Qt: at once from gui, as events posted to gui from any other thread; an *)
(* item's slot that ends a rule's action then takes gui back to the mutex. *)
(***************************************************************************)
EXTENDS ItemTree, Sequences

CONSTANTS
  Ruled,        (* items that rules activate and deactivate                *)
  Suppressible, (* items whose slot may end their action when they appear  *)
  Alert,        (* the item of a timer: ALERT_NOCOM or ALERT_REQFAIL       *)
  MaxCount,     (* bound: no rule activates while Root counts as many      *)
  Seldom,       (* bound: threads of which one works at a time             *)
  MaxPosted     (* bound: updates posted to gui and not yet delivered      *)

Thread == {"can", "timer", "gui", "win"}

ASSUME DisplayAssumption ==
  /\ Ruled \subseteq Item /\ Suppressible \subseteq Ruled
  /\ Alert \in Item /\ Seldom \subseteq Thread
  /\ MaxCount \in Nat /\ MaxPosted \in Nat

Places == {"idle", "rules", "call", "mark", "force", "check", "take", "lock", "visit", "stuck"}

VARIABLES
  count,        \* activationSemaphore
  changed,      \* flag_tree_changed
  complete,     \* isDataComplete
  window,       \* updateDisplayTimeWindow: "off", "posted" (its start) or "on"
  mutex,        \* who holds it, or "none"
  pc,           \* where each thread is
  drawn,        \* what the last visit of the tree said
  posted,       \* visits posted to gui
  shown,        \* what the QML items show
  raced,        \* two calls have overlapped on the counts
  overtaken     \* gui has shown its own visit before an older one

vars == <<count, changed, complete, window, mutex, pc, drawn, posted, shown, raced, overtaken>>
tree == <<count, raced>>
flags == <<changed, complete>>
screen == <<drawn, posted, shown, overtaken>>

\* itsThread starts with process().
Init ==
  /\ count = [n \in Node |-> 0] /\ raced = FALSE
  /\ changed = FALSE /\ complete = FALSE
  /\ window = "off" /\ mutex = "none"
  /\ pc = [t \in Thread |-> IF t = "win" THEN "check" ELSE "idle"]
  /\ drawn = {} /\ posted = <<>> /\ shown = {} /\ overtaken = FALSE

Go(t, l) == pc' = [pc EXCEPT ![t] = l]

-----------------------------------------------------------------------------
(* MainProcess::process() *)

Check(t) ==
  /\ pc[t] = "check"
  /\ Go(t, IF complete /\ changed /\ window # "on" THEN "take" ELSE "idle")
  /\ UNCHANGED <<tree, flags, window, mutex, screen>>

\* The window's timer belongs to win: from another thread its start is posted.
Take(t) ==
  /\ pc[t] = "take"
  /\ changed' = FALSE /\ complete' = FALSE
  /\ window' = IF t = "win" THEN "on" ELSE IF window = "on" THEN window ELSE "posted"
  /\ Go(t, "lock")
  /\ UNCHANGED <<tree, mutex, screen>>

Lock(t) ==
  /\ pc[t] = "lock" /\ mutex = "none"
  /\ t = "gui" \/ Len(posted) < MaxPosted
  /\ mutex' = t
  /\ changed' = FALSE
  /\ Go(t, "visit")
  /\ UNCHANGED <<tree, complete, window, screen>>

\* Fault: can, too, calls the QML items directly.
VisitDirectly(t) ==
  /\ pc[t] = "visit"
  /\ drawn' = Visible(count)
  /\ IF t \in {"gui", "can"}
     THEN shown' = drawn' /\ UNCHANGED <<posted, overtaken>>
     ELSE posted' = Append(posted, drawn') /\ UNCHANGED <<shown, overtaken>>
  /\ mutex' = "none"
  /\ Go(t, "idle")
  /\ UNCHANGED <<tree, flags, window>>

Visit(t) ==
  /\ pc[t] = "visit"
  /\ drawn' = Visible(count)
  /\ IF t = "gui"
     THEN /\ shown' = drawn'
          /\ overtaken' = (overtaken \/ posted # <<>>)
          /\ UNCHANGED posted
     ELSE /\ posted' = Append(posted, drawn')
          /\ UNCHANGED <<shown, overtaken>>
  /\ mutex' = "none"
  /\ Go(t, "idle")
  /\ UNCHANGED <<tree, flags, window>>

\* The menu of the volume, told by gui's own visit that it is visible while it is
\* suppressed, ends its action: gui waits for the mutex that process() holds
\* beneath it, for good, and draws nothing any more.
Reenter ==
  /\ pc["gui"] = "visit"
  /\ Suppressible \cap Visible(count) # {}
  /\ Go("gui", "stuck")
  /\ UNCHANGED <<tree, flags, window, mutex, screen>>

Stuck == pc["gui"] = "stuck" /\ UNCHANGED vars

Process(t) == Check(t) \/ Take(t) \/ Lock(t) \/ Visit(t)

-----------------------------------------------------------------------------
(* The calls *)

\* Fault: an active item is activated again.
ActivationAgain(c, i) == Activated(c, i)

\* An active item is not activated again, an inactive one not deactivated.
Activation(c, i) == IF c[i] > 0 THEN c ELSE Activated(c, i)

\* Fault: no count is tested for zero.
DeactivationAnyhow(c, i) == [m \in Node |-> IF m \in Path(i) THEN c[m] - 1 ELSE c[m]]

Deactivation(c, i) == IF c[i] > 0 THEN Deactivated(c, i) ELSE c

Change(c, i, on) == IF on THEN Activation(c, i) ELSE Deactivation(c, i)

\* The calls made without the mutex: by whom, of Alert, and what.
Unlocked == {<<"timer", TRUE>>, <<"can", FALSE>>, <<"gui", FALSE>>}

\* The count is changed first, flag_tree_changed after it ("mark").
Call(u) ==
  /\ pc[u[1]] = "call"
  /\ count' = Change(count, Alert, u[2])
  /\ Go(u[1], IF count' # count THEN "mark" ELSE "force")
  /\ UNCHANGED <<raced, flags, window, mutex, screen>>

\* Fault: an item that deactivates itself does not flag the tree.
MarkUnlessSelf(t) ==
  /\ pc[t] = "mark"
  /\ changed' = (changed \/ t # "gui")
  /\ Go(t, "force")
  /\ UNCHANGED <<tree, complete, window, mutex, screen>>

Mark(t) ==
  /\ pc[t] = "mark"
  /\ changed' = TRUE
  /\ Go(t, "force")
  /\ UNCHANGED <<tree, complete, window, mutex, screen>>

\* MainProcess::forceUpdate()
ForceUpdate(t) ==
  /\ pc[t] = "force"
  /\ complete' = TRUE
  /\ Go(t, IF changed THEN "check" ELSE "idle")
  /\ UNCHANGED <<tree, changed, window, mutex, screen>>

-----------------------------------------------------------------------------
(* The threads' work *)

\* can makes the calls of rules, and gui those of an item that ends its action
\* (itemActionDeactivate) or whose arguments are complete (argumentComplete).
Rules(t) ==
  \/ t = "can" /\ pc["can"] = "rules"
  \/ t = "gui" /\ pc["gui"] = "idle"

\* A rule's call holds the mutex, and keeps the flag with the count.
Rule(t, i, on) ==
  /\ Rules(t)
  /\ mutex = "none" /\ (on => count[Root] < MaxCount)
  /\ Change(count, i, on) # count
  /\ ~raced /\ ~overtaken
  /\ count' = Change(count, i, on)
  /\ changed' = TRUE
  /\ UNCHANGED <<raced, complete, window, mutex, pc, screen>>

\* An active item whose arguments have changed is deactivated and activated.
Refresh(i) ==
  /\ Rules("gui") /\ mutex = "none" /\ count[i] > 0
  /\ ~raced /\ ~overtaken
  /\ count' = Activation(Deactivation(count, i), i)
  /\ changed' = TRUE
  /\ UNCHANGED <<raced, complete, window, mutex, pc, screen>>

\* parse_frame: a message with rules, which ends with forceUpdate().
Frame ==
  /\ pc["can"] = "idle"
  /\ Go("can", "rules")
  /\ UNCHANGED <<tree, flags, window, mutex, screen>>

EndFrame ==
  /\ pc["can"] = "rules"
  /\ Go("can", "force")
  /\ UNCHANGED <<tree, flags, window, mutex, screen>>

\* The first keep-alive after a disconnection; the callback of a timer; an item
\* that is seen and deactivates itself.
Begin(u) ==
  /\ pc[u[1]] = "idle" /\ ~raced /\ ~overtaken
  /\ u[1] \in Seldom => \A t \in Seldom : pc[t] = "idle"
  /\ u[1] = "gui" => Alert \in shown /\ count[Alert] > 0
  /\ Go(u[1], "call")
  /\ UNCHANGED <<tree, flags, window, mutex, screen>>

Deliver ==
  /\ pc["gui"] = "idle" /\ posted # <<>>
  /\ shown' = Head(posted) /\ posted' = Tail(posted)
  /\ UNCHANGED <<tree, flags, window, mutex, pc, drawn, overtaken>>

WindowStarts ==
  /\ pc["win"] = "idle" /\ window = "posted"
  /\ window' = "on"
  /\ UNCHANGED <<tree, flags, mutex, pc, screen>>

\* Fault: the timer is not single-shot, and isActive() for good.
WindowGoesOn ==
  /\ pc["win"] = "idle" /\ window = "on"
  /\ Go("win", "check")
  /\ UNCHANGED <<tree, flags, window, mutex, screen>>

WindowEnds ==
  /\ pc["win"] = "idle" /\ window = "on"
  /\ window' = "off"
  /\ Go("win", "check")
  /\ UNCHANGED <<tree, flags, mutex, screen>>

\* A call without the mutex and a rule's call overlap.
Overlap(u, t, i, on) ==
  /\ ~raced /\ pc[u[1]] = "call" /\ t # u[1]
  /\ Rules(t) /\ mutex = "none" /\ (on => count[Root] < MaxCount)
  /\ LET f == Change(count, Alert, u[2])
         g == Change(count, i, on)
     IN /\ f # count /\ g # count
        /\ count' \in Torn(count, f, g, Change(g, Alert, u[2]))
  /\ raced' = TRUE
  /\ changed' = TRUE
  /\ Go(u[1], "mark")
  /\ UNCHANGED <<complete, window, mutex, screen>>

-----------------------------------------------------------------------------
Step(t) == Process(t) \/ Mark(t) \/ ForceUpdate(t) \/ \E u \in Unlocked : u[1] = t /\ Call(u)

Window == WindowStarts \/ WindowEnds

Next ==
  \/ \E t \in Thread : Step(t)
  \/ \E u \in Unlocked : Begin(u)
  \/ \E t \in {"can", "gui"}, i \in Ruled, on \in BOOLEAN : Rule(t, i, on)
  \/ \E u \in Unlocked, t \in {"can", "gui"}, i \in Ruled, on \in BOOLEAN : Overlap(u, t, i, on)
  \/ \E i \in Ruled : Refresh(i)
  \/ Frame \/ EndFrame \/ Deliver \/ Window \/ Reenter \/ Stuck

Spec == Init /\ [][Next]_vars

\* Every thread goes on, and messages keep coming.
FairSpec ==
  /\ Spec
  /\ \A t \in Thread : WF_vars(Step(t))
  /\ WF_vars(Frame) /\ WF_vars(EndFrame) /\ WF_vars(Deliver) /\ WF_vars(Window)

-----------------------------------------------------------------------------
TypeOK ==
  /\ count \in [Node -> Nat] /\ changed \in BOOLEAN /\ complete \in BOOLEAN
  /\ window \in {"off", "posted", "on"} /\ mutex \in Thread \cup {"none"}
  /\ pc \in [Thread -> Places]
  /\ drawn \subseteq Node /\ posted \in Seq(SUBSET Node) /\ shown \subseteq Node
  /\ raced \in BOOLEAN /\ overtaken \in BOOLEAN

\* A change that the last visit of the tree does not show is flagged, or a thread
\* is between changing a count and flagging it, or between taking the flag and
\* the end of its own visit: process() clears the flag twice and never loses one.
NoLostChange ==
  \/ drawn = Visible(count) \/ changed
  \/ \E t \in Thread : pc[t] \in {"mark", "lock", "visit", "stuck"}

HasMutexGroupBeneath(m) == \E i \in Item : m \in Path(i) \ {i} /\ InMutexGroup(i)

\* A node counts every active item beneath it, and no more than these unless a
\* mutex group is among what is beneath it (rootedtreenode.cpp:231), as long as
\* no two calls have overlapped.
Counted ==
  raced \/ \A m \in Node :
    /\ Cardinality(Active(count, m)) <= count[m]
    /\ ~HasMutexGroupBeneath(m) => count[m] = Cardinality(Active(count, m))

\* What is shown is what was visited last, once everything posted has been
\* delivered, unless gui itself updated while an older visit was in its queue.
ShownInOrder == overtaken \/ posted # <<>> \/ shown = drawn

\* When the counts stay, what the tree makes visible comes to be shown and stays,
\* unless gui has overtaken its own queue or waits for its own mutex.
ChangeIsShown ==
  <>[][UNCHANGED count]_vars =>
    <>[](shown = Visible(count) \/ overtaken \/ pc["gui"] = "stuck")

=============================================================================
