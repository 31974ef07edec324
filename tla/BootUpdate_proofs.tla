-------------------------- MODULE BootUpdate_proofs --------------------------
(***************************************************************************)
(* Proofs about BootUpdate: the types for every constant, and that a copy  *)
(* of the environment survives any number of power cuts as long as no two  *)
(* come without a complete write between them.                             *)
(***************************************************************************)
EXTENDS BootUpdate, TLAPS

-----------------------------------------------------------------------------
(* Types *)

\* The variables of a script that were read from a file that is not empty, and all of them.
Full == [fw : {"5", "7"}, media : {"3", "6"}, count : 0 .. MaxAttempts, rollback : Status, update : Status]
Vars == [fw : {"", "5", "7"}, media : {"", "3", "6"}, count : 0 .. MaxAttempts,
         rollback : Status \cup {""}, update : Status \cup {""}]

Pcs == Writing \cup {"idle", "read", "trial", "pending", "mount", "reset",
                     "preinst", "flash", "postinst", "end"}

After == {"read", "pending", "mount", "end"}
Kinds == {"all", "media", "firmware"}
Script == [pc : Pcs, next : Pcs \cup Kinds, env : Vars, blank : BOOLEAN]

FilesTyped == /\ cache \in [pri : Copies, sec : Copies] /\ disk \in [pri : Copies, sec : Copies]
              /\ dirty \subseteq Writing \ Syncs

\* A script that is not about to write an empty file has read or made a full one.
ScriptsTyped == /\ w \in [Procs -> Script]
                /\ \A p \in Procs : w[p].blank \/ w[p].env \in Full \/ (p = "install" /\ w[p].pc \notin Writing)
                /\ \A p \in Procs : w[p].pc \in Writing => w[p].next \in After
                /\ w["install"].pc \in {"flash", "postinst"} => w["install"].next \in Kinds

DeviceTyped == /\ slot \in [Parts -> {"good", "bad", "torn"}]
               /\ up \in {"off", "boot", "on"} /\ state \in {"READY", "UPDATING", "ROLLINGBACK"}
               /\ watching \in BOOLEAN /\ started \in BOOLEAN /\ doReset \in BOOLEAN
               /\ cuts \in 0 .. MaxCuts /\ installs \in 0 .. MaxInstalls

TypeInv == FilesTyped /\ ScriptsTyped /\ DeviceTyped

LEMMA EnvsAreFullOrBlank ==
  /\ Envs = Full \cup {Blank} /\ Full \subseteq Vars /\ Envs \subseteq Vars
  /\ Default \in Full /\ Blank \notin Full
<1>1. Default \in Full
  BY DEF Full, Default, Status, MaxAttempts
<1>2. Blank \notin Full
  BY DEF Full, Blank
<1>3. Blank \in Vars
  BY DEF Vars, Blank, MaxAttempts
<1>4. Envs = Full \cup {Blank}
  BY DEF Envs, Full
<1>5. Full \subseteq Vars
  BY DEF Full, Vars
<1> QED
  BY <1>1, <1>2, <1>3, <1>4, <1>5

LEMMA ContentTyped ==
  ASSUME NEW c \in Copies, Matches(c)
  PROVE  Content(c) \in Envs
BY EnvsAreFullOrBlank DEF Copies, Matches, Content

LEMMA ReadTyped ==
  ASSUME FilesTyped
  PROVE  /\ ReadEnv(cache, Default) \in Envs /\ ReadEnv(cache, Default) \in Vars
         /\ ReadEnv(cache, Default) = Blank \/ ReadEnv(cache, Default) \in Full
<1>1. cache.pri \in Copies /\ cache.sec \in Copies
  BY DEF FilesTyped
<1>2. ReadEnv(cache, Default) \in Envs
  BY <1>1, ContentTyped, EnvsAreFullOrBlank DEF ReadEnv
<1> QED
  BY <1>2, EnvsAreFullOrBlank

\* Exchanging partitions keeps the variables full, or merely variables.
LEMMA SwapTyped ==
  ASSUME NEW t
  PROVE  /\ \A e \in Vars : Swap(e, t) \in Vars /\ Swap(e, t).count = e.count
                            /\ Swap(e, t).rollback = e.rollback /\ Swap(e, t).update = e.update
         /\ \A e \in Full : Swap(e, t) \in Full
<1>1. ASSUME NEW e \in Vars
      PROVE  /\ Swap(e, t) \in Vars /\ Swap(e, t).count = e.count
             /\ Swap(e, t).rollback = e.rollback /\ Swap(e, t).update = e.update
  <2>1. SwapFw(e.fw) \in {"5", "7"} /\ SwapMedia(e.media) \in {"3", "6"}
    BY DEF SwapFw, SwapMedia
  <2> QED
    BY <2>1 DEF Swap, Vars
<1>2. ASSUME NEW e \in Full PROVE Swap(e, t) \in Full
  <2>1. SwapFw(e.fw) \in {"5", "7"} /\ SwapMedia(e.media) \in {"3", "6"}
    BY DEF SwapFw, SwapMedia
  <2> QED
    BY <2>1 DEF Swap, Full
<1> QED
  BY <1>1, <1>2

\* What going back and completing set.
LEMMA SetBackTyped ==
  /\ \A s \in Vars : LET b == [s EXCEPT !.rollback = "none", !.count = 0] IN b \in Vars /\ b.rollback = "none"
  /\ \A s \in Full : [s EXCEPT !.rollback = "none", !.count = 0] \in Full
<1>1. "none" \in Status /\ 0 \in 0 .. MaxAttempts
  BY DEF Status, MaxAttempts
<1> QED
  BY <1>1 DEF Vars, Full

LEMMA SetCompleteTyped ==
  /\ \A s \in Vars, u \in Status \cup {""} :
       [s EXCEPT !.rollback = u, !.update = "none", !.count = 0] \in Vars
  /\ \A s \in Full, u \in Status :
       [s EXCEPT !.rollback = u, !.update = "none", !.count = 0] \in Full
<1>1. "none" \in Status /\ 0 \in 0 .. MaxAttempts
  BY DEF Status, MaxAttempts
<1> QED
  BY <1>1 DEF Vars, Full

LEMMA GoBackTyped ==
  /\ \A e \in Vars : GoBack(e) \in Vars /\ GoBack(e).rollback = "none"
  /\ \A e \in Full : GoBack(e) \in Full
<1>1. ASSUME NEW e \in Vars PROVE GoBack(e) \in Vars /\ GoBack(e).rollback = "none"
  <2>1. Swap(e, e.rollback) \in Vars
    BY SwapTyped
  <2> QED
    BY <2>1, SetBackTyped DEF GoBack
<1>2. ASSUME NEW e \in Full PROVE GoBack(e) \in Full
  <2>1. Swap(e, e.rollback) \in Full
    BY SwapTyped
  <2> QED
    BY <2>1, SetBackTyped DEF GoBack
<1> QED
  BY <1>1, <1>2

LEMMA CompleteTyped ==
  /\ \A e \in Vars : Complete(e) \in Vars
  /\ \A e \in Full : Complete(e) \in Full
<1>1. ASSUME NEW e \in Vars PROVE Complete(e) \in Vars
  <2>1. Swap(e, e.update) \in Vars /\ e.update \in Status \cup {""}
    BY SwapTyped DEF Vars
  <2> QED
    BY <2>1, SetCompleteTyped DEF Complete
<1>2. ASSUME NEW e \in Full PROVE Complete(e) \in Full
  <2>1. Swap(e, e.update) \in Full /\ e.update \in Status
    BY SwapTyped DEF Full
  <2> QED
    BY <2>1, SetCompleteTyped DEF Complete
<1> QED
  BY <1>1, <1>2

LEMMA AttemptTyped ==
  /\ \A e \in Vars : Attempt(e) \in Vars
  /\ \A e \in Full : Attempt(e) \in Full
<1>1. ASSUME NEW e \in Vars PROVE Attempt(e) \in Vars
  <2>1. CASE e.count < MaxAttempts
    <3>0. e.count \in 0 .. MaxAttempts
      BY DEF Vars
    <3>1. e.count + 1 \in 0 .. MaxAttempts
      BY <2>1, <3>0 DEF MaxAttempts
    <3>2. [e EXCEPT !.count = @ + 1] \in Vars
      BY <3>1 DEF Vars
    <3> QED
      BY <2>1, <3>2 DEF Attempt
  <2>2. CASE ~(e.count < MaxAttempts)
    BY <2>2, GoBackTyped DEF Attempt
  <2> QED
    BY <2>1, <2>2
<1>2. ASSUME NEW e \in Full PROVE Attempt(e) \in Full
  <2>1. CASE e.count < MaxAttempts
    <3>0. e.count \in 0 .. MaxAttempts
      BY DEF Full
    <3>1. e.count + 1 \in 0 .. MaxAttempts
      BY <2>1, <3>0 DEF MaxAttempts
    <3>2. [e EXCEPT !.count = @ + 1] \in Full
      BY <3>1 DEF Full
    <3> QED
      BY <2>1, <3>2 DEF Attempt
  <2>2. CASE ~(e.count < MaxAttempts)
    BY <2>2, GoBackTyped DEF Attempt
  <2> QED
    BY <2>1, <2>2
<1> QED
  BY <1>1, <1>2

LEMMA InitTypes == Init => TypeInv
<1> SUFFICES ASSUME Init PROVE TypeInv
  OBVIOUS
<1> DEFINE d == IF Provisioned THEN Default ELSE Missing
           c == [data |-> d, sum |-> d]
<1>1. d \in Envs \cup {Torn, Missing}
  BY EnvsAreFullOrBlank
<1>2. c \in Copies
  BY <1>1 DEF Copies
<1>3. cache = [pri |-> c, sec |-> c]
  BY DEF Init
<1>4. FilesTyped
  BY <1>2, <1>3 DEF Init, FilesTyped
<1>5. Idle \in Script /\ Idle.env \in Full /\ Idle.pc = "idle" /\ Idle.pc \notin Writing /\ "install" \in Procs
  <2>1. Default \in Vars /\ Default \in Full
    BY EnvsAreFullOrBlank
  <2> QED
    BY <2>1 DEF Idle, Script, Pcs, Procs, Writing
<1>6. ScriptsTyped
  BY <1>5 DEF Init, ScriptsTyped
<1>7. slot \in [Parts -> {"good", "bad", "torn"}]
  BY DEF Init
<1>8. cuts \in 0 .. MaxCuts /\ installs \in 0 .. MaxInstalls
  BY BoundsAssumption DEF Init
<1>9. DeviceTyped
  BY <1>7, <1>8 DEF Init, DeviceTyped
<1> QED
  BY <1>4, <1>6, <1>9 DEF TypeInv

\* What a step may do to the scripts: move one to a place where it does not write, let it
\* write what it has, give it variables, or stop them all.
LEMMA GotoTyped ==
  ASSUME ScriptsTyped, NEW p \in Procs, NEW l \in Pcs \ Writing, Goto(p, l),
         p = "install" /\ l \in {"flash", "postinst"} => w[p].next \in Kinds
  PROVE  ScriptsTyped'
<1>1. w \in [Procs -> Script] /\ w' = [w EXCEPT ![p].pc = l]
  BY DEF ScriptsTyped, Goto
<1>2. w'[p] = [w[p] EXCEPT !.pc = l] /\ \A q \in Procs \ {p} : w'[q] = w[q]
  BY <1>1
<1>3. w[p] \in Script
  BY <1>1
<1>4. /\ w'[p] \in Script /\ w'[p].pc = l
      /\ w'[p].env = w[p].env /\ w'[p].blank = w[p].blank /\ w'[p].next = w[p].next
  BY <1>2, <1>3 DEF Script
<1>5. w' \in [Procs -> Script]
  BY <1>1, <1>4
<1>6. w'["install"].pc \in {"flash", "postinst"} => w'["install"].next \in Kinds
  <2>1. CASE p = "install"
    BY <1>4, <2>1
  <2>2. CASE p # "install"
    BY <1>2, <2>2 DEF ScriptsTyped, Procs
  <2> QED
    BY <2>1, <2>2
<1>8. \A q \in Procs : w'[q].pc \in Writing => w'[q].next \in After
  BY <1>2, <1>4 DEF ScriptsTyped
<1>9. \A q \in Procs : w'[q].blank \/ w'[q].env \in Full \/ (q = "install" /\ w'[q].pc \notin Writing)
  <2>1. w'[p].blank \/ w'[p].env \in Full \/ (p = "install" /\ w'[p].pc \notin Writing)
    BY <1>4 DEF ScriptsTyped
  <2> QED
    BY <1>2, <2>1 DEF ScriptsTyped
<1> QED
  BY <1>5, <1>6, <1>8, <1>9 DEF ScriptsTyped

LEMMA GivenTyped ==
  ASSUME ScriptsTyped, NEW p \in Procs, NEW s \in Script, w' = [w EXCEPT ![p] = s],
         s.blank \/ s.env \in Full \/ (p = "install" /\ s.pc \notin Writing),
         s.pc \in Writing => s.next \in After,
         p = "install" /\ s.pc \in {"flash", "postinst"} => s.next \in Kinds
  PROVE  ScriptsTyped'
<1>1. "install" \in Procs
  BY DEF Procs
<1> QED
  BY <1>1 DEF ScriptsTyped

LEMMA ReadThenTyped ==
  ASSUME FilesTyped, ScriptsTyped, NEW p \in Procs \ {"install"}, NEW l \in Pcs \ Writing, ReadThen(p, l)
  PROVE  ScriptsTyped'
<1> DEFINE e == ReadEnv(cache, Default)
           s == [w[p] EXCEPT !.pc = l, !.env = e, !.blank = (e = Blank)]
<1>1. e \in Vars /\ (e = Blank \/ e \in Full)
  BY ReadTyped
<1>2. w' = [w EXCEPT ![p] = s] /\ w[p] \in Script
  BY DEF ReadThen, ScriptsTyped
<1>3. s \in Script /\ (s.blank \/ s.env \in Full) /\ s.pc = l
  BY <1>1, <1>2 DEF Script
<1> QED
  BY <1>2, <1>3, GivenTyped

LEMMA WriteThenTyped ==
  ASSUME ScriptsTyped, NEW p \in Procs, NEW e \in Vars, NEW l \in After, WriteThen(p, e, l),
         w[p].blank \/ e \in Full
  PROVE  ScriptsTyped'
<1> DEFINE s == [w[p] EXCEPT !.pc = "pri", !.env = e, !.next = l]
<1>1. w' = [w EXCEPT ![p] = s] /\ w[p] \in Script
  BY DEF WriteThen, ScriptsTyped
<1>2. s \in Script /\ (s.blank \/ s.env \in Full) /\ s.pc = "pri" /\ s.next = l
  BY <1>1 DEF Script, Pcs, Writing, After
<1> QED
  BY <1>1, <1>2, GivenTyped

LEMMA StopTyped ==
  ASSUME Stop
  PROVE  ScriptsTyped' /\ up' = "off" /\ watching' = FALSE /\ started' = FALSE
<1>1. Default \in Vars /\ Default \in Full
  BY EnvsAreFullOrBlank
<1>2. Idle \in Script /\ Idle.env \in Full /\ Idle.pc = "idle" /\ Idle.pc \notin Writing /\ "install" \in Procs
  BY <1>1 DEF Idle, Script, Pcs, Procs, Writing
<1> QED
  BY <1>2 DEF Stop, ScriptsTyped

-----------------------------------------------------------------------------
(* Every step keeps the types *)

LEMMA FilesKept == FilesTyped /\ UNCHANGED files => FilesTyped'
BY DEF FilesTyped, files

LEMMA DeviceKept == DeviceTyped /\ UNCHANGED device /\ UNCHANGED cuts => DeviceTyped'
BY DEF DeviceTyped, device

LEMMA InitScriptTypes == TypeInv /\ InitScript => TypeInv'
<1> SUFFICES ASSUME TypeInv, InitScript PROVE TypeInv'
  OBVIOUS
<1> USE DEF TypeInv
<1>0. "init" \in Procs /\ {"pending", "mount"} \subseteq After /\ w["init"].env \in Vars
      /\ (w["init"].blank \/ w["init"].env \in Full)
      /\ {"trial", "pending", "mount", "reset", "idle"} \subseteq Pcs \ Writing
  BY DEF Procs, Pcs, Writing, After, ScriptsTyped, Script
<1>1. CASE InitRead
  <2>1. FilesTyped' /\ DeviceTyped'
    BY <1>1, FilesKept, DeviceKept DEF InitRead, files, device
  <2>2. CASE cache.pri.data = Missing
    <3> DEFINE s == [pc |-> "pri", next |-> "read", env |-> Default, blank |-> FALSE]
    <3>1. Default \in Full /\ Default \in Vars
      BY EnvsAreFullOrBlank
    <3>2. s \in Script /\ s.env \in Full /\ s.next \in After
      BY <3>1 DEF Script, Pcs, Writing, After
    <3>3. w' = [w EXCEPT !["init"] = s]
      BY <1>1, <2>2 DEF InitRead
    <3> QED
      BY <2>1, <1>0, <3>2, <3>3, GivenTyped
  <2>3. CASE cache.pri.data # Missing
    BY <1>0, <1>1, <2>1, <2>3, ReadThenTyped DEF InitRead
  <2> QED
    BY <2>2, <2>3
<1>2. CASE InitTrial
  <2>1. FilesTyped'
    BY <1>2, FilesKept DEF InitTrial, files
  <2>2. DeviceTyped'
    BY <1>2 DEF InitTrial, DeviceTyped
  <2>3. CASE w["init"].env.rollback = "none"
    BY <1>0, <1>2, <2>1, <2>2, <2>3, GotoTyped DEF InitTrial
  <2>4. CASE w["init"].env.rollback # "none"
    <3>1. WriteThen("init", Attempt(w["init"].env), "pending")
      BY <1>2, <2>4 DEF InitTrial
    <3>2. Attempt(w["init"].env) \in Vars /\ (w["init"].blank \/ Attempt(w["init"].env) \in Full)
      BY <1>0, AttemptTyped
    <3> QED
      BY <1>0, <2>1, <2>2, <3>1, <3>2, WriteThenTyped
  <2> QED
    BY <2>3, <2>4
<1>3. CASE InitPending
  <2>1. FilesTyped'
    BY <1>3, FilesKept DEF InitPending, files
  <2>2. DeviceTyped'
    BY <1>3 DEF InitPending, DeviceTyped
  <2>3. CASE w["init"].env.update = "none"
    BY <1>0, <1>3, <2>1, <2>2, <2>3, GotoTyped DEF InitPending
  <2>4. CASE w["init"].env.update # "none"
    <3>1. WriteThen("init", Complete(w["init"].env), "mount")
      BY <1>3, <2>4 DEF InitPending
    <3>2. Complete(w["init"].env) \in Vars /\ (w["init"].blank \/ Complete(w["init"].env) \in Full)
      BY <1>0, CompleteTyped
    <3> QED
      BY <1>0, <2>1, <2>2, <3>1, <3>2, WriteThenTyped
  <2> QED
    BY <2>3, <2>4
<1>4. CASE InitMount
  <2>1. FilesTyped' /\ DeviceTyped'
    BY <1>4 DEF InitMount, files, FilesTyped, DeviceTyped
  <2> QED
    BY <1>0, <1>4, <2>1, GotoTyped DEF InitMount
<1>5. CASE InitReset
  <2>1. FilesTyped' /\ DeviceTyped'
    BY <1>5 DEF InitReset, files, FilesTyped, DeviceTyped
  <2> QED
    BY <1>0, <1>5, <2>1, GotoTyped DEF InitReset
<1> QED
  BY <1>1, <1>2, <1>3, <1>4, <1>5 DEF InitScript

LEMMA InstallTypes == TypeInv /\ Install => TypeInv'
<1> SUFFICES ASSUME TypeInv, Install PROVE TypeInv'
  OBVIOUS
<1> USE DEF TypeInv
<1>0. "install" \in Procs /\ {"postinst", "end"} \subseteq Pcs \ Writing /\ "pri" \in Pcs /\ "flash" \in Pcs \ Writing
  BY DEF Procs, Pcs, Writing
<1>1. ASSUME NEW t \in Types, Preinst(t) PROVE TypeInv'
  <2> DEFINE e == ReadEnv(cache, Default)
             s == [pc |-> "flash", next |-> t, env |-> e, blank |-> FALSE]
  <2>1. FilesTyped'
    BY <1>1, FilesKept DEF Preinst, files
  <2>2. slot' \in [Parts -> {"good", "bad", "torn"}]
    BY <1>1 DEF Preinst, DeviceTyped
  <2>3. DeviceTyped'
    BY <1>1, <2>2 DEF Preinst, DeviceTyped
  <2>4. t \in Kinds /\ e \in Vars
    BY TypesAssumption, ReadTyped DEF Kinds
  <2>5. s \in Script /\ s.pc \notin Writing /\ s.next \in Kinds
    BY <1>0, <2>4 DEF Script
  <2>6. w' = [w EXCEPT !["install"] = s]
    BY <1>1 DEF Preinst
  <2> QED
    BY <1>0, <2>1, <2>3, <2>5, <2>6, GivenTyped
<1>2. ASSUME NEW q \in {"good", "bad"}, Flash(q) PROVE TypeInv'
  <2>1. FilesTyped'
    BY <1>2, FilesKept DEF Flash, files
  <2>2. slot' \in [Parts -> {"good", "bad", "torn"}]
    BY <1>2 DEF Flash, DeviceTyped
  <2>3. DeviceTyped'
    BY <1>2, <2>2 DEF Flash, DeviceTyped
  <2> QED
    BY <1>0, <1>2, <2>1, <2>3, GotoTyped DEF Flash, ScriptsTyped
<1>3. CASE FlashFails
  BY <1>0, <1>3, FilesKept, DeviceKept, GotoTyped DEF FlashFails, files, device
<1>4. CASE Postinst
  <2> DEFINE e == ReadEnv(cache, Default)
             f == [e EXCEPT !.update = w["install"].next, !.rollback = "none"]
             s == [pc |-> "pri", next |-> "end", blank |-> e = Blank, env |-> f]
  <2>1. FilesTyped' /\ DeviceTyped'
    BY <1>4, FilesKept, DeviceKept DEF Postinst, files, device
  <2>2. e \in Vars /\ (e = Blank \/ e \in Full)
    BY ReadTyped
  <2>3. w["install"].next \in Kinds
    BY <1>4 DEF Postinst, ScriptsTyped
  <2>4. f \in Vars /\ (e = Blank \/ f \in Full)
    BY <2>2, <2>3 DEF Vars, Full, Status, Kinds
  <2>5. s \in Script /\ (s.blank \/ s.env \in Full) /\ s.next \in After
    BY <1>0, <2>4 DEF Script, After
  <2>6. w' = [w EXCEPT !["install"] = s] /\ s.pc = "pri"
    BY <1>4 DEF Postinst
  <2> QED
    BY <1>0, <2>1, <2>5, <2>6, GivenTyped
<1> QED
  BY <1>1, <1>2, <1>3, <1>4 DEF Install

LEMMA WriteTypes == TypeInv /\ (\E p \in Procs : WriteEnv(p)) => TypeInv'
<1> SUFFICES ASSUME TypeInv, NEW p \in Procs, WriteEnv(p) PROVE TypeInv'
  OBVIOUS
<1> USE DEF TypeInv
<1> DEFINE pc == w[p].pc
           l  == IF pc = "sec sync" THEN w[p].next ELSE NextPc(pc)
<1>1. pc \in Writing /\ w[p] \in Script /\ (w[p].blank \/ w[p].env \in Full)
  BY DEF WriteEnv, ScriptsTyped
<1>2. Lines(w[p]) \in Envs
  BY <1>1, EnvsAreFullOrBlank DEF Lines
<1>3. cache' \in [pri : Copies, sec : Copies]
  <2>1. cache.pri \in Copies /\ cache.sec \in Copies /\ cache \in [pri : Copies, sec : Copies]
    BY DEF FilesTyped
  <2>2. CASE pc = "pri"
    BY <2>1, <2>2 DEF WriteEnv, Copies
  <2>3. CASE pc = "pri fill"
    BY <1>2, <2>1, <2>3 DEF WriteEnv, Copies
  <2>4. CASE pc = "pri sum"
    BY <2>1, <2>4 DEF WriteEnv, Copies
  <2>5. CASE pc = "sec"
    BY <2>1, <2>5 DEF WriteEnv, Copies
  <2>6. CASE pc = "sec fill"
    BY <1>2, <2>1, <2>6 DEF WriteEnv, Copies
  <2>7. CASE pc = "sec sum"
    BY <2>1, <2>7 DEF WriteEnv, Copies
  <2>8. CASE pc \in Syncs
    BY <2>1, <2>8 DEF WriteEnv, Syncs
  <2> QED
    BY <1>1, <2>2, <2>3, <2>4, <2>5, <2>6, <2>7, <2>8 DEF Writing, Syncs
<1>4. disk' \in [pri : Copies, sec : Copies]
  BY DEF WriteEnv, FilesTyped
<1>5. dirty' \subseteq Writing \ Syncs
  BY <1>1 DEF WriteEnv, FilesTyped
<1>6. cuts' \in 0 .. MaxCuts
  <2>1. cuts' \in {0, cuts} /\ cuts \in 0 .. MaxCuts
    BY DEF WriteEnv, DeviceTyped
  <2> QED
    BY <2>1, BoundsAssumption
<1>7. FilesTyped' /\ DeviceTyped'
  BY <1>3, <1>4, <1>5, <1>6 DEF WriteEnv, FilesTyped, DeviceTyped, device
<1>8. w' = [w EXCEPT ![p].pc = l]
  BY DEF WriteEnv
<1>9. l \in Pcs /\ w[p].next \in After /\ (l \in After \/ l \in Writing)
  <2>1. CASE pc = "sec sync"
    BY <1>1, <2>1 DEF ScriptsTyped, After, Pcs
  <2>2. CASE pc # "sec sync"
    <3>1. NextPc(pc) \in Writing
      BY <1>1, <2>2 DEF NextPc, Writing
    <3> QED
      BY <1>1, <2>2, <3>1 DEF ScriptsTyped, Pcs
  <2> QED
    BY <2>1, <2>2
<1>10. ScriptsTyped'
  <2> DEFINE s == [w[p] EXCEPT !.pc = l]
  <2> HIDE DEF l
  <2>1. w' = [w EXCEPT ![p] = s]
    BY <1>8
  <2>2. s \in Script /\ s.pc = l /\ s.next = w[p].next /\ (s.blank \/ s.env \in Full)
    BY <1>1, <1>9 DEF Script
  <2>3. s.pc \notin {"flash", "postinst"}
    BY <1>9, <2>2 DEF After, Writing
  <2> QED
    BY <1>9, <2>1, <2>2, <2>3, GivenTyped
<1> QED
  BY <1>7, <1>10

LEMMA ScriptTypes ==
  TypeInv /\ (\E p \in Procs : ScriptEnds(p) \/ (p \in {"power", "rollback"} /\ SuccessfulBoot(p))) => TypeInv'
<1> USE DEF TypeInv
<1>0. {"power", "rollback"} \subseteq Procs /\ "idle" \in Pcs \ Writing /\ {"pri", "end"} \subseteq Pcs
  BY DEF Procs, Pcs, Writing
<1>1. ASSUME TypeInv, NEW p \in Procs, ScriptEnds(p) PROVE TypeInv'
  <2>1. FilesTyped' /\ DeviceTyped'
    BY <1>1, FilesKept DEF ScriptEnds, files, DeviceTyped
  <2> QED
    BY <1>0, <1>1, <2>1, GotoTyped DEF ScriptEnds
<1>2. ASSUME TypeInv, NEW p \in {"power", "rollback"}, SuccessfulBoot(p) PROVE TypeInv'
  <2> DEFINE e == ReadEnv(cache, Default)
             f == [e EXCEPT !.count = 0, !.rollback = "none", !.update = "none"]
             s == [pc |-> "pri", next |-> "end", blank |-> e = Blank, env |-> f]
  <2>1. FilesTyped' /\ DeviceTyped'
    BY <1>2, FilesKept, DeviceKept DEF SuccessfulBoot, files, device
  <2>2. e \in Vars /\ (e = Blank \/ e \in Full)
    BY <1>2, ReadTyped
  <2>3. 0 \in 0 .. MaxAttempts /\ "none" \in Status
    BY DEF MaxAttempts, Status
  <2>4. f \in Vars /\ (e = Blank \/ f \in Full)
    BY <2>2, <2>3 DEF Vars, Full
  <2>5. s \in Script /\ (s.blank \/ s.env \in Full) /\ s.pc = "pri" /\ s.next \in After
    BY <1>0, <2>4 DEF Script, After
  <2>6. w' = [w EXCEPT ![p] = s]
    BY <1>2 DEF SuccessfulBoot
  <2> QED
    BY <1>0, <1>2, <2>1, <2>5, <2>6, GivenTyped
<1> QED
  BY <1>1, <1>2

LEMMA DeviceTypes ==
  TypeInv /\ (RunCanquick \/ StartCanupdate \/ ForceRollBack \/ UpdateContent \/ PowerUp) => TypeInv'
<1> SUFFICES ASSUME TypeInv, RunCanquick \/ StartCanupdate \/ ForceRollBack \/ UpdateContent \/ PowerUp
             PROVE  TypeInv'
  OBVIOUS
<1> USE DEF TypeInv
<1>0. Procs = {"init", "power", "rollback", "install"} /\ {"read", "preinst"} \subseteq Pcs \ Writing
  BY DEF Procs, Pcs, Writing
<1>1. CASE RunCanquick
  <2>1. FilesTyped' /\ DeviceTyped'
    BY <1>1 DEF RunCanquick, files, FilesTyped, DeviceTyped
  <2> QED
    BY <1>1, <2>1 DEF RunCanquick, ScriptsTyped
<1>2. CASE StartCanupdate
  <2>1. FilesTyped' /\ DeviceTyped'
    BY <1>2 DEF StartCanupdate, files, FilesTyped, DeviceTyped
  <2> QED
    BY <1>0, <1>2, <2>1, GotoTyped DEF StartCanupdate
<1>3. CASE ForceRollBack
  <2>1. FilesTyped' /\ DeviceTyped'
    BY <1>3 DEF ForceRollBack, files, FilesTyped, DeviceTyped
  <2> QED
    BY <1>0, <1>3, <2>1, GotoTyped DEF ForceRollBack
<1>4. CASE UpdateContent
  <2>1. installs' \in 0 .. MaxInstalls
    BY <1>4, BoundsAssumption DEF UpdateContent, DeviceTyped
  <2>2. FilesTyped' /\ DeviceTyped'
    BY <1>4, <2>1 DEF UpdateContent, files, FilesTyped, DeviceTyped
  <2> QED
    BY <1>0, <1>4, <2>2, GotoTyped DEF UpdateContent
<1>5. CASE PowerUp
  <2>1. FilesTyped' /\ DeviceTyped'
    BY <1>5 DEF PowerUp, files, FilesTyped, DeviceTyped
  <2> QED
    BY <1>0, <1>5, <2>1, GotoTyped DEF PowerUp
<1> QED
  BY <1>1, <1>2, <1>3, <1>4, <1>5

LEMMA PowerTypes == TypeInv /\ (Watchdog \/ PowerOff \/ PowerCut) => TypeInv'
<1> SUFFICES ASSUME TypeInv, Watchdog \/ PowerOff \/ PowerCut PROVE TypeInv'
  OBVIOUS
<1> USE DEF TypeInv
<1>1. ASSUME Stop, cache' = cache, disk' = cache, dirty' = {}, UNCHANGED <<slot, state, doReset, cuts, installs>>
      PROVE  TypeInv'
  BY <1>1, StopTyped DEF FilesTyped, DeviceTyped
<1>2. CASE Watchdog
  <2>1. CASE watching' = FALSE /\ UNCHANGED <<up, w, started, disk, dirty>>
    <3>1. FilesTyped' /\ DeviceTyped'
      BY <1>2, <2>1 DEF Watchdog, FilesTyped, DeviceTyped
    <3> QED
      BY <2>1, <3>1 DEF ScriptsTyped
  <2>2. CASE Stop /\ disk' = cache /\ dirty' = {}
    BY <1>1, <1>2, <2>2 DEF Watchdog
  <2> QED
    BY <1>2, <2>1, <2>2 DEF Watchdog
<1>3. CASE PowerOff
  BY <1>1, <1>3 DEF PowerOff
<1>4. CASE PowerCut
  <2>1. \A new, old, steps : Left(new, old, steps) \subseteq {new, old, Torn}
    BY DEF Left
  <2>2. /\ cache.pri \in Copies /\ cache.sec \in Copies
        /\ disk.pri \in Copies /\ disk.sec \in Copies
    BY DEF FilesTyped
  <2>3. cache' \in [pri : [data : Left(cache.pri.data, disk.pri.data, {"pri", "pri fill"}),
                           sum  : Left(cache.pri.sum, disk.pri.sum, {"pri sum"})],
                    sec : [data : Left(cache.sec.data, disk.sec.data, {"sec", "sec fill"}),
                           sum  : Left(cache.sec.sum, disk.sec.sum, {"sec sum"})]]
    BY <1>4 DEF PowerCut
  <2> DEFINE All == Envs \cup {Torn, Missing}
  <2>4. Torn \in All /\ Copies = [data : All, sum : All]
    BY DEF Copies
  <2> HIDE DEF All
  <2>5. /\ cache.pri.data \in All /\ cache.pri.sum \in All /\ cache.sec.data \in All /\ cache.sec.sum \in All
         /\ disk.pri.data \in All /\ disk.pri.sum \in All /\ disk.sec.data \in All /\ disk.sec.sum \in All
    BY <2>2, <2>4
  <2>6. /\ Left(cache.pri.data, disk.pri.data, {"pri", "pri fill"}) \subseteq All
         /\ Left(cache.pri.sum, disk.pri.sum, {"pri sum"}) \subseteq All
         /\ Left(cache.sec.data, disk.sec.data, {"sec", "sec fill"}) \subseteq All
         /\ Left(cache.sec.sum, disk.sec.sum, {"sec sum"}) \subseteq All
    <3>1. ASSUME NEW new \in All, NEW old \in All, NEW steps PROVE Left(new, old, steps) \subseteq All
      BY <2>1, <2>4
    <3> QED
      BY <2>5, <3>1
  <2>7. cache' \in [pri : Copies, sec : Copies]
    BY <2>3, <2>4, <2>6
  <2>8. cuts' \in 0 .. MaxCuts
    <3>1. cuts \in 0 .. MaxCuts /\ cuts < MaxCuts /\ cuts' = cuts + 1
      BY <1>4 DEF PowerCut, DeviceTyped
    <3> QED
      BY <3>1, BoundsAssumption
  <2>9. ScriptsTyped' /\ up' = "off" /\ watching' = FALSE /\ started' = FALSE
    BY <1>4, StopTyped DEF PowerCut
  <2>10. FilesTyped'
    BY <1>4, <2>7 DEF PowerCut, FilesTyped
  <2>11. DeviceTyped'
    BY <1>4, <2>8, <2>9 DEF PowerCut, DeviceTyped
  <2> QED
    BY <2>9, <2>10, <2>11
<1> QED
  BY <1>2, <1>3, <1>4

LEMMA TypeStep == TypeInv /\ [Next]_vars => TypeInv'
<1> SUFFICES ASSUME TypeInv, [Next]_vars PROVE TypeInv'
  OBVIOUS
<1>1. CASE UNCHANGED vars
  BY <1>1 DEF vars, TypeInv, FilesTyped, ScriptsTyped, DeviceTyped
<1>2. CASE Next
  BY <1>2, InitScriptTypes, InstallTypes, WriteTypes, ScriptTypes, DeviceTypes, PowerTypes DEF Next, Procs
<1> QED
  BY <1>1, <1>2

LEMMA TypesHold == Spec => []TypeInv
BY InitTypes, TypeStep, PTL DEF Spec

\* Whatever is cut, installed or run at the same time, the environment files hold what a script
\* may write, nothing, or a torn file, and no boot is counted beyond MAX_FAILED_BOOT_ATTEMTS.
THEOREM TypeCorrect == Spec => []TypeOK
<1>1. TypeInv => TypeOK
  <2>1. ASSUME TypeInv, NEW p \in Procs PROVE w[p].env.count \in 0 .. MaxAttempts /\ w[p].blank \in BOOLEAN
    <3>1. w[p] \in Script
      BY <2>1 DEF TypeInv, ScriptsTyped
    <3> QED
      BY <3>1 DEF Script, Vars
  <2> QED
    BY <2>1 DEF TypeInv, FilesTyped, DeviceTyped, TypeOK
<1> QED
  BY <1>1, TypesHold, PTL

-----------------------------------------------------------------------------
(* One script at a time *)

\* What the steps of a script set.
LEMMA GotoSets ==
  ASSUME ScriptsTyped, NEW p \in Procs, NEW l, Goto(p, l)
  PROVE  /\ w'[p].pc = l /\ w'[p].env = w[p].env /\ w'[p].next = w[p].next /\ w'[p].blank = w[p].blank
         /\ \A q \in Procs \ {p} : w'[q] = w[q]
<1>1. w \in [Procs -> Script] /\ w' = [w EXCEPT ![p].pc = l]
  BY DEF ScriptsTyped, Goto
<1>2. w'[p] = [w[p] EXCEPT !.pc = l] /\ \A q \in Procs \ {p} : w'[q] = w[q]
  BY <1>1
<1>3. w[p] \in Script
  BY <1>1
<1> QED
  BY <1>2, <1>3 DEF Script

LEMMA ReadThenSets ==
  ASSUME ScriptsTyped, NEW p \in Procs, NEW l, ReadThen(p, l)
  PROVE  /\ w'[p].pc = l /\ w'[p].env = ReadEnv(cache, Default) /\ w'[p].next = w[p].next
         /\ w'[p].blank = (ReadEnv(cache, Default) = Blank)
         /\ \A q \in Procs \ {p} : w'[q] = w[q]
<1> DEFINE e == ReadEnv(cache, Default)
<1>1. w \in [Procs -> Script] /\ w' = [w EXCEPT ![p].pc = l, ![p].env = e, ![p].blank = (e = Blank)]
  BY DEF ScriptsTyped, ReadThen
<1> HIDE DEF e
<1>2. w'[p] = [w[p] EXCEPT !.pc = l, !.env = e, !.blank = (e = Blank)] /\ \A q \in Procs \ {p} : w'[q] = w[q]
  BY <1>1
<1>3. w[p] \in Script
  BY <1>1
<1>4. /\ w'[p].pc = l /\ w'[p].env = e /\ w'[p].next = w[p].next /\ w'[p].blank = (e = Blank)
  BY <1>2, <1>3 DEF Script
<1> QED
  BY <1>2, <1>4 DEF e

LEMMA WriteThenSets ==
  ASSUME ScriptsTyped, NEW p \in Procs, NEW e, NEW l, WriteThen(p, e, l)
  PROVE  /\ w'[p].pc = "pri" /\ w'[p].env = e /\ w'[p].next = l /\ w'[p].blank = w[p].blank
         /\ \A q \in Procs \ {p} : w'[q] = w[q]
<1>1. w \in [Procs -> Script] /\ w' = [w EXCEPT ![p].pc = "pri", ![p].env = e, ![p].next = l]
  BY DEF ScriptsTyped, WriteThen
<1>2. w'[p] = [w[p] EXCEPT !.pc = "pri", !.env = e, !.next = l] /\ \A q \in Procs \ {p} : w'[q] = w[q]
  BY <1>1
<1>3. w[p] \in Script
  BY <1>1
<1> QED
  BY <1>2, <1>3 DEF Script

LEMMA WriteEnvSets ==
  ASSUME ScriptsTyped, NEW p \in Procs, WriteEnv(p)
  PROVE  /\ w[p].pc \in Writing
         /\ w'[p].pc = (IF w[p].pc = "sec sync" THEN w[p].next ELSE NextPc(w[p].pc))
         /\ w'[p].env = w[p].env /\ w'[p].next = w[p].next /\ w'[p].blank = w[p].blank
         /\ \A q \in Procs \ {p} : w'[q] = w[q]
         /\ w[p].next \in After
<1> DEFINE l == IF w[p].pc = "sec sync" THEN w[p].next ELSE NextPc(w[p].pc)
<1>1. w[p].pc \in Writing /\ Goto(p, l)
  BY DEF WriteEnv, Goto
<1>2. w[p].next \in After
  BY <1>1 DEF ScriptsTyped
<1> HIDE DEF l
<1>3. /\ w'[p].pc = l /\ w'[p].env = w[p].env /\ w'[p].next = w[p].next /\ w'[p].blank = w[p].blank
      /\ \A q \in Procs \ {p} : w'[q] = w[q]
  BY <1>1, GotoSets
<1> QED
  BY <1>1, <1>2, <1>3 DEF l

\* Power's scripts come after the boot, and no two commands' scripts run at once.
Solo ==
  /\ w["init"].pc # "idle" => up = "boot"
  /\ up # "on" => ~started
  /\ ~started => \A p \in Procs \ {"init"} : w[p].pc = "idle"
  /\ w["power"].pc # "idle" => w["rollback"].pc = "idle" /\ w["install"].pc = "idle"
  /\ w["rollback"].pc # "idle" => state = "ROLLINGBACK"
  /\ w["install"].pc # "idle" => state = "UPDATING"

LEMMA OneScript ==
  ASSUME Solo, NEW p \in Procs, NEW q \in Procs, p # q, w[p].pc # "idle"
  PROVE  w[q].pc = "idle"
BY DEF Solo, Procs

LEMMA ProcsAre == Procs = {"init", "power", "rollback", "install"}
BY DEF Procs

LEMMA SoloInit == Init => Solo
BY DEF Init, Solo, Idle, Procs

\* The scripts that run after the step did before it.
LEMMA SoloKept ==
  ASSUME Solo, UNCHANGED <<up, started, state>>,
         \A q \in Procs : w[q].pc = "idle" => w'[q].pc = "idle"
  PROVE  Solo'
BY ProcsAre DEF Solo

LEMMA SoloStopped == ASSUME Stop PROVE Solo'
BY DEF Stop, Solo, Idle, Procs

LEMMA SoloStep == TypeInv /\ Solo /\ PowerOnFirst /\ [Next]_vars => Solo'
<1> SUFFICES ASSUME TypeInv, Solo, PowerOnFirst, [Next]_vars PROVE Solo'
  OBVIOUS
<1>a. ScriptsTyped
  BY DEF TypeInv
<1>1. CASE InitScript
  <2>1. ASSUME NEW l, Goto("init", l), w["init"].pc # "idle"
        PROVE  \A q \in Procs : w[q].pc = "idle" => w'[q].pc = "idle"
    BY <1>a, <2>1, GotoSets, ProcsAre
  <2>2. CASE InitRead
    <3>1. UNCHANGED <<up, started, state>> /\ w["init"].pc # "idle"
      BY <2>2 DEF InitRead, device
    <3>2. \A q \in Procs \ {"init"} : w'[q] = w[q]
      <4>1. CASE cache.pri.data = Missing
        BY <1>a, <2>2, <4>1 DEF InitRead, ScriptsTyped
      <4>2. CASE cache.pri.data # Missing
        BY <1>a, <2>2, <4>2, ReadThenSets, ProcsAre DEF InitRead
      <4> QED
        BY <4>1, <4>2
    <3> QED
      BY <3>1, <3>2, SoloKept, ProcsAre
  <2>3. CASE InitTrial
    <3>1. UNCHANGED <<up, started, state>> /\ w["init"].pc # "idle"
      BY <2>3 DEF InitTrial
    <3>2. \A q \in Procs \ {"init"} : w'[q] = w[q]
      <4>1. CASE w["init"].env.rollback = "none"
        BY <1>a, <2>3, <4>1, GotoSets, ProcsAre DEF InitTrial
      <4>2. CASE w["init"].env.rollback # "none"
        BY <1>a, <2>3, <4>2, WriteThenSets, ProcsAre DEF InitTrial
      <4> QED
        BY <4>1, <4>2
    <3> QED
      BY <3>1, <3>2, SoloKept, ProcsAre
  <2>4. CASE InitPending
    <3>1. UNCHANGED <<up, started, state>> /\ w["init"].pc # "idle"
      BY <2>4 DEF InitPending
    <3>2. \A q \in Procs \ {"init"} : w'[q] = w[q]
      <4>1. CASE w["init"].env.update = "none"
        BY <1>a, <2>4, <4>1, GotoSets, ProcsAre DEF InitPending
      <4>2. CASE w["init"].env.update # "none"
        BY <1>a, <2>4, <4>2, WriteThenSets, ProcsAre DEF InitPending
      <4> QED
        BY <4>1, <4>2
    <3> QED
      BY <3>1, <3>2, SoloKept, ProcsAre
  <2>5. CASE InitMount
    BY <2>1, <2>5, SoloKept DEF InitMount
  <2>6. CASE InitReset
    <3>1. /\ w'["init"].pc = "idle" /\ \A q \in Procs \ {"init"} : w'[q] = w[q]
          /\ up' = "on" /\ UNCHANGED <<started, state>>
      BY <1>a, <2>6, GotoSets, ProcsAre DEF InitReset
    <3> QED
      BY <3>1, ProcsAre DEF Solo
  <2> QED
    BY <1>1, <2>2, <2>3, <2>4, <2>5, <2>6 DEF InitScript
<1>2. CASE Install
  <2>1. UNCHANGED <<up, started, state>> /\ w["install"].pc # "idle"
    BY <1>2 DEF Install, Preinst, Flash, FlashFails, Postinst, device
  <2>2. \A q \in Procs \ {"install"} : w'[q] = w[q]
    <3>1. CASE (\E t \in Types : Preinst(t)) \/ Postinst
      BY <1>a, <3>1 DEF Preinst, Postinst, ScriptsTyped
    <3>2. CASE (\E q \in {"good", "bad"} : Flash(q)) \/ FlashFails
      <4>1. PICK l : Goto("install", l)
        BY <3>2 DEF Flash, FlashFails
      <4> QED
        BY <1>a, <4>1, GotoSets, ProcsAre
    <3> QED
      BY <1>2, <3>1, <3>2 DEF Install
  <2> QED
    BY <2>1, <2>2, SoloKept, ProcsAre
<1>3. ASSUME NEW p \in Procs, WriteEnv(p) PROVE Solo'
  <2>1. w[p].pc # "idle" /\ \A q \in Procs \ {p} : w'[q] = w[q]
    BY <1>a, <1>3, WriteEnvSets DEF Writing
  <2>2. UNCHANGED <<up, started, state>>
    BY <1>3 DEF WriteEnv, device
  <2> QED
    BY <2>1, <2>2, SoloKept
<1>4. ASSUME NEW p \in Procs, ScriptEnds(p) PROVE Solo'
  <2>1. w'[p].pc = "idle" /\ \A q \in Procs \ {p} : w'[q] = w[q]
    BY <1>a, <1>4, GotoSets DEF ScriptEnds
  <2>2. \A q \in Procs : w'[q].pc = "idle"
    BY <1>4, <2>1, OneScript DEF ScriptEnds
  <2> QED
    BY <1>4, <2>2, ProcsAre DEF ScriptEnds, Solo
<1>5. ASSUME NEW p \in {"power", "rollback"}, SuccessfulBoot(p) PROVE Solo'
  <2>1. /\ w[p].pc # "idle" /\ UNCHANGED <<up, started, state>>
        /\ \A q \in Procs \ {p} : w'[q] = w[q]
    BY <1>a, <1>5 DEF SuccessfulBoot, ScriptsTyped, device
  <2> QED
    BY <2>1, SoloKept
<1>6. CASE RunCanquick
  BY <1>6, SoloKept DEF RunCanquick
<1>7. CASE StartCanupdate
  <2>1. /\ w'["power"].pc = "read" /\ \A q \in Procs \ {"power"} : w'[q] = w[q]
        /\ up = "on" /\ up' = up /\ ~started /\ started'
    BY <1>a, <1>7, GotoSets, ProcsAre DEF StartCanupdate
  <2> QED
    BY <2>1, ProcsAre DEF Solo
<1>8. CASE ForceRollBack
  <2>1. /\ w'["rollback"].pc = "read" /\ \A q \in Procs \ {"rollback"} : w'[q] = w[q]
        /\ up = "on" /\ started /\ UNCHANGED <<up, started>>
        /\ w["power"].pc = "idle" /\ state = "READY" /\ state' = "ROLLINGBACK"
    BY <1>a, <1>8, GotoSets, ProcsAre DEF ForceRollBack
  <2> QED
    BY <2>1, ProcsAre DEF Solo
<1>9. CASE UpdateContent
  <2>1. /\ w'["install"].pc = "preinst" /\ \A q \in Procs \ {"install"} : w'[q] = w[q]
        /\ up = "on" /\ started /\ UNCHANGED <<up, started>>
        /\ w["power"].pc = "idle" /\ state = "READY" /\ state' = "UPDATING"
    BY <1>a, <1>9, GotoSets, ProcsAre DEF UpdateContent
  <2> QED
    BY <2>1, ProcsAre DEF Solo
<1>10. CASE PowerUp
  <2>1. /\ w'["init"].pc = "read" /\ \A q \in Procs \ {"init"} : w'[q] = w[q]
        /\ up = "off" /\ up' = "boot" /\ UNCHANGED <<started, state>>
    BY <1>a, <1>10, GotoSets, ProcsAre DEF PowerUp
  <2> QED
    BY <2>1, ProcsAre DEF Solo
<1>11. CASE Watchdog
  <2>1. CASE UNCHANGED <<up, w, started>>
    BY <1>11, <2>1, SoloKept DEF Watchdog
  <2>2. CASE Stop
    BY <2>2, SoloStopped
  <2> QED
    BY <1>11, <2>1, <2>2 DEF Watchdog
<1>12. CASE PowerOff \/ PowerCut
  BY <1>12, SoloStopped DEF PowerOff, PowerCut
<1>13. CASE UNCHANGED vars
  BY <1>13, SoloKept DEF vars
<1> QED
  BY <1>1, <1>2, <1>3, <1>4, <1>5, <1>6, <1>7, <1>8, <1>9, <1>10, <1>11, <1>12, <1>13, ProcsAre DEF Next

-----------------------------------------------------------------------------
(* The files of a device that has them *)

PriPcs == {"pri", "pri fill", "pri sum", "pri sync"}
SecPcs == {"sec", "sec fill", "sec sum", "sec sync"}
InPri == \E p \in Procs : w[p].pc \in PriPcs
InSec == \E p \in Procs : w[p].pc \in SecPcs

\* No file is missing or empty.
Whole(c) == c.data \in Full \cup {Torn} /\ c.sum \in Full \cup {Torn}
FilesWhole == Whole(cache.pri) /\ Whole(cache.sec) /\ Whole(disk.pri) /\ Whole(disk.sec)

\* How far a script that writes has come.
Filled == \A p \in Procs :
  /\ w[p].pc \in {"pri sum", "pri sync"} \cup SecPcs => cache.pri.data = w[p].env
  /\ w[p].pc = "pri sync" => cache.pri.sum = cache.pri.data
  /\ w[p].pc \in {"sec sum", "sec sync"} => cache.sec.data = w[p].env
  /\ w[p].pc = "sec sync" => cache.sec.sum = cache.sec.data

\* The copy that is not being written is on the disk as it is seen.
Quiet ==
  /\ ~InSec => cache.sec = disk.sec /\ dirty \subseteq PriPcs /\ (cuts = 0 => Written(disk.sec))
  /\ ~InPri => cache.pri = disk.pri /\ dirty \subseteq SecPcs
  /\ InSec => Written(disk.pri)

CopyInv == FilesWhole /\ Filled /\ Quiet /\ EnvSurvives

\* What script p writes: only a boot writes an update that is on trial.
Own(p, s) == /\ ~s.blank
             /\ s.pc \in Writing => IF p = "init" THEN s.next \in {"pending", "mount"}
                                                  ELSE s.env.rollback = "none"

\* The variables that the watchdog keeps were written to the end by this boot.
TrialWritten ==
  w["init"].env.rollback # "none" /\ (up = "on" \/ w["init"].pc \in {"pending", "mount", "reset"})
    => cuts = 0

ScriptInv == (\A p \in Procs : Own(p, w[p])) /\ TrialWritten

Inv == TypeInv /\ Solo /\ CopyInv /\ ScriptInv

LEMMA MissingIsNoFile == Missing \notin Full /\ Torn \notin Full /\ Blank # Torn /\ Blank # Missing /\ Torn # Missing
BY FilesAssumption, EnvsAreFullOrBlank

LEMMA ReadsFull ==
  ASSUME FilesTyped, FilesWhole
  PROVE  ReadEnv(cache, Default) \in Full /\ ReadEnv(cache, Default) # Blank
<1>1. Default \in Full /\ Blank \notin Full
  BY EnvsAreFullOrBlank
<1>2. ASSUME NEW c, Whole(c), Matches(c) PROVE Content(c) \in Full
  BY <1>2, MissingIsNoFile DEF Whole, Matches, Content
<1> QED
  BY <1>1, <1>2 DEF ReadEnv, FilesWhole

LEMMA CopyInit == Init /\ Provisioned => CopyInv /\ ScriptInv
<1> SUFFICES ASSUME Init, Provisioned PROVE CopyInv /\ ScriptInv
  OBVIOUS
<1> DEFINE c == [data |-> Default, sum |-> Default]
<1>1. /\ cache.pri = c /\ cache.sec = c /\ disk.pri = c /\ disk.sec = c /\ dirty = {}
  BY DEF Init
<1>2. \A p \in Procs : w[p] = Idle
  BY DEF Init
<1>3. Default \in Full /\ Default # Torn /\ Default # Missing /\ Default # Blank
  BY EnvsAreFullOrBlank, MissingIsNoFile
<1>4. Whole(c) /\ Written(c)
  BY <1>3 DEF Whole, Written, Matches
<1>5. \A p \in Procs : w[p].pc = "idle" /\ w[p].blank = FALSE
  BY <1>2 DEF Idle
<1>6. w["init"].env.rollback = "none"
  BY <1>2 DEF Idle, Default, Procs
<1> HIDE DEF c
<1>7. FilesWhole /\ EnvSurvives
  BY <1>1, <1>4 DEF FilesWhole, EnvSurvives
<1>8. Filled /\ Quiet
  BY <1>1, <1>4, <1>5 DEF Filled, Quiet, InSec, InPri, SecPcs, PriPcs
<1>9. ScriptInv
  BY <1>5, <1>6 DEF ScriptInv, Own, TrialWritten, Writing
<1> QED
  BY <1>7, <1>8, <1>9 DEF CopyInv

\* A step that writes nothing, and after which scripts are where they were or only begin to write.
Calm == /\ UNCHANGED <<files, cuts>>
        /\ \A p \in Procs : \/ w'[p].pc = w[p].pc /\ w'[p].env = w[p].env
                            \/ w[p].pc \notin Writing /\ w'[p].pc \notin Writing \ {"pri"}

LEMMA CalmKeeps ==
  ASSUME CopyInv, Calm
  PROVE  CopyInv'
<1>1. UNCHANGED <<cache, disk, dirty, cuts>>
  BY DEF Calm, files
<1>2. FilesWhole' /\ EnvSurvives'
  BY <1>1 DEF CopyInv, FilesWhole, Whole, EnvSurvives, Written, Matches
<1>3. Filled'
  <2>1. ASSUME NEW p \in Procs
        PROVE  \/ w'[p].pc = w[p].pc /\ w'[p].env = w[p].env
               \/ w'[p].pc \notin {"pri sum", "pri sync"} \cup SecPcs
    BY <2>1 DEF Calm, Writing, SecPcs
  <2> QED
    BY <1>1, <2>1 DEF CopyInv, Filled, SecPcs
<1>4. (InSec => InSec') /\ (InPri => InPri') /\ (InSec' => InSec)
  BY DEF Calm, InSec, InPri, SecPcs, PriPcs, Writing
<1>5. Quiet'
  BY <1>1, <1>4 DEF CopyInv, Quiet, Written, Matches
<1> QED
  BY <1>2, <1>3, <1>5 DEF CopyInv

\* One script moves, and only begins to write.
LEMMA OneMoves ==
  ASSUME ScriptInv, UNCHANGED <<files, cuts>>, NEW p \in Procs,
         w[p].pc \notin Writing, w'[p].pc \notin Writing \ {"pri"}, Own(p, w'[p]), TrialWritten',
         \A q \in Procs \ {p} : w'[q] = w[q]
  PROVE  Calm /\ ScriptInv'
BY DEF Calm, ScriptInv

LEMMA OthersKeepTrial ==
  ASSUME ScriptInv, UNCHANGED <<up, cuts>>, w'["init"] = w["init"]
  PROVE  TrialWritten'
BY DEF ScriptInv, TrialWritten

\* A script is started, or goes on without reading or writing.
LEMMA GotoMoves ==
  ASSUME ScriptsTyped, ScriptInv, UNCHANGED <<files, cuts>>, NEW p \in Procs, NEW l,
         Goto(p, l), w[p].pc \notin Writing, l \notin Writing, TrialWritten' \/ (p # "init" /\ up' = up)
  PROVE  Calm /\ ScriptInv'
<1>1. w'[p].pc = l /\ w'[p].blank = w[p].blank /\ \A q \in Procs \ {p} : w'[q] = w[q]
  BY GotoSets
<1>2. TrialWritten'
  BY <1>1, OthersKeepTrial, ProcsAre
<1>3. Own(p, w'[p])
  BY <1>1 DEF ScriptInv, Own
<1> QED
  BY <1>1, <1>2, <1>3, OneMoves

LEMMA InitScriptMoves == Inv /\ InitScript => Calm /\ ScriptInv'
<1> SUFFICES ASSUME Inv, InitScript PROVE Calm /\ ScriptInv'
  OBVIOUS
<1>a. ScriptsTyped /\ FilesTyped /\ FilesWhole /\ ScriptInv /\ Solo
  BY DEF Inv, TypeInv, CopyInv
<1>b. "init" \in Procs
  BY DEF Procs
<1>c. w["init"].pc # "idle" => up = "boot"
  BY <1>a DEF Solo
<1>d. ~w["init"].blank
  BY <1>a, <1>b DEF ScriptInv, Own
<1>1. CASE InitRead
  <2>1. ReadThen("init", "trial") /\ UNCHANGED <<files, cuts>> /\ up' = up
        /\ w["init"].pc = "read" /\ up = "boot"
    <3>1. cache.pri.data # Missing
      BY <1>a, MissingIsNoFile DEF FilesWhole, Whole
    <3> QED
      BY <1>1, <1>c, <3>1 DEF InitRead, device
  <2>2. /\ w'["init"].pc = "trial" /\ ~w'["init"].blank
        /\ \A q \in Procs \ {"init"} : w'[q] = w[q]
    BY <1>a, <1>b, <2>1, ReadThenSets, ReadsFull
  <2>3. Own("init", w'["init"]) /\ TrialWritten'
    BY <2>1, <2>2 DEF Own, TrialWritten, Writing
  <2>4. w["init"].pc \notin Writing /\ w'["init"].pc \notin Writing
    BY <2>1, <2>2 DEF Writing
  <2> QED
    BY <1>a, <1>b, <2>1, <2>2, <2>3, <2>4, OneMoves
\* A script of the boot goes on at l, its variables as they are, or begins to write.
<1>w. ASSUME NEW l \in {"pending", "mount"}, NEW e, WriteThen("init", e, l),
             UNCHANGED <<files, cuts, up>>, w["init"].pc \in {"trial", "pending"}
      PROVE  Calm /\ ScriptInv'
  <2>1. /\ w'["init"].pc = "pri" /\ w'["init"].next = l /\ w'["init"].blank = w["init"].blank
        /\ \A q \in Procs \ {"init"} : w'[q] = w[q]
    BY <1>a, <1>b, <1>w, WriteThenSets
  <2>2. up' = "boot"
    BY <1>c, <1>w
  <2>3. Own("init", w'["init"]) /\ TrialWritten'
    BY <1>d, <1>w, <2>1, <2>2 DEF Own, TrialWritten
  <2>4. w["init"].pc \notin Writing /\ w'["init"].pc \notin Writing \ {"pri"}
    BY <1>w, <2>1 DEF Writing
  <2> QED
    BY <1>a, <1>b, <1>w, <2>1, <2>3, <2>4, OneMoves
<1>2. CASE InitTrial
  <2>1. UNCHANGED <<files, cuts, up>> /\ w["init"].pc = "trial"
    BY <1>2 DEF InitTrial
  <2>2. CASE w["init"].env.rollback = "none"
    <3>1. Goto("init", "pending")
      BY <1>2, <2>2 DEF InitTrial
    <3>2. TrialWritten'
      BY <1>a, <1>b, <2>2, <3>1, GotoSets DEF TrialWritten
    <3>3. w["init"].pc \notin Writing /\ "pending" \notin Writing
      BY <2>1 DEF Writing
    <3> QED
      BY <1>a, <1>b, <2>1, <3>1, <3>2, <3>3, GotoMoves
  <2>3. CASE w["init"].env.rollback # "none"
    BY <1>2, <1>w, <2>1, <2>3 DEF InitTrial
  <2> QED
    BY <2>2, <2>3
<1>g. ASSUME NEW l, Goto("init", l), UNCHANGED <<files, cuts>>, w["init"].pc \in {"pending", "mount", "reset"},
             l \in {"mount", "reset", "idle"}
      PROVE  Calm /\ ScriptInv'
  <2>1. w'["init"].env = w["init"].env
    BY <1>a, <1>b, <1>g, GotoSets
  <2>2. TrialWritten'
    BY <1>a, <1>g, <2>1 DEF ScriptInv, TrialWritten
  <2>3. w["init"].pc \notin Writing /\ l \notin Writing
    BY <1>g DEF Writing
  <2> QED
    BY <1>a, <1>b, <1>g, <2>2, <2>3, GotoMoves
<1>3. CASE InitPending
  <2>1. UNCHANGED <<files, cuts, up>> /\ w["init"].pc = "pending"
    BY <1>3 DEF InitPending
  <2>2. CASE w["init"].env.update = "none"
    BY <1>3, <1>g, <2>1, <2>2 DEF InitPending
  <2>3. CASE w["init"].env.update # "none"
    BY <1>3, <1>w, <2>1, <2>3 DEF InitPending
  <2> QED
    BY <2>2, <2>3
<1>4. CASE InitMount
  BY <1>4, <1>g DEF InitMount
<1>5. CASE InitReset
  BY <1>5, <1>g DEF InitReset
<1> QED
  BY <1>1, <1>2, <1>3, <1>4, <1>5 DEF InitScript

\* What the device asks for, and what its scripts do between reading and writing.
LEMMA CommandsMove ==
  ASSUME Inv, \/ Install \/ (\E p \in Procs : ScriptEnds(p))
              \/ (\E p \in {"power", "rollback"} : SuccessfulBoot(p))
              \/ StartCanupdate \/ ForceRollBack \/ UpdateContent \/ PowerUp \/ RunCanquick
  PROVE  Calm /\ ScriptInv'
<1>a. ScriptsTyped /\ FilesTyped /\ FilesWhole /\ ScriptInv /\ Solo
  BY DEF Inv, TypeInv, CopyInv
<1>b. Writing \cap {"idle", "read", "preinst", "flash", "postinst", "end"} = {}
  BY DEF Writing
<1>1. ASSUME NEW p \in Procs, p # "init", NEW l \in {"idle", "read", "preinst", "postinst", "end"},
             Goto(p, l), UNCHANGED <<files, cuts, up>>, w[p].pc \in {"idle", "flash", "end"}
      PROVE  Calm /\ ScriptInv'
  BY <1>1, <1>a, <1>b, GotoMoves
\* A script reads the environment, and writes it with no update on trial.
<1>2. ASSUME NEW p \in Procs \ {"init"}, NEW s, w' = [w EXCEPT ![p] = s],
             UNCHANGED <<files, device, cuts>> \/ UNCHANGED <<files, up, cuts>>,
             w[p].pc \in {"read", "preinst", "postinst"}, s.pc \in {"pri", "flash"}, ~s.blank,
             s.pc = "pri" => s.env.rollback = "none"
      PROVE  Calm /\ ScriptInv'
  <2>1. w'[p] = s /\ \A q \in Procs \ {p} : w'[q] = w[q]
    BY <1>2, <1>a DEF ScriptsTyped
  <2>2. UNCHANGED <<files, up, cuts>>
    BY <1>2 DEF device
  <2>3. TrialWritten'
    BY <1>a, <1>2, <2>1, <2>2, OthersKeepTrial, ProcsAre
  <2>4. Own(p, w'[p]) /\ w[p].pc \notin Writing /\ w'[p].pc \notin Writing \ {"pri"}
    BY <1>2, <2>1 DEF Own, Writing
  <2> QED
    BY <1>a, <1>2, <2>1, <2>2, <2>3, <2>4, OneMoves
<1>3. CASE Install
  <2>1. ASSUME NEW t, Preinst(t) PROVE Calm /\ ScriptInv'
    <3> DEFINE s == [pc |-> "flash", next |-> t, env |-> ReadEnv(cache, Default), blank |-> FALSE]
    <3>1. w["install"].pc = "preinst" /\ w' = [w EXCEPT !["install"] = s] /\ UNCHANGED <<files, up, cuts>>
      BY <2>1 DEF Preinst
    <3>2. s.pc = "flash" /\ ~s.blank
      OBVIOUS
    <3> HIDE DEF s
    <3> QED
      BY <1>2, <3>1, <3>2, ProcsAre
  <2>2. ASSUME NEW q, Flash(q) PROVE Calm /\ ScriptInv'
    <3>1. Goto("install", "postinst") /\ w["install"].pc = "flash" /\ UNCHANGED <<files, cuts, up>>
      BY <2>2 DEF Flash
    <3> QED
      BY <1>1, <3>1, ProcsAre
  <2>3. CASE FlashFails
    <3>1. Goto("install", "end") /\ w["install"].pc = "flash" /\ UNCHANGED <<files, cuts, up>>
      BY <2>3 DEF FlashFails, device
    <3> QED
      BY <1>1, <3>1, ProcsAre
  <2>4. CASE Postinst
    <3> DEFINE e == ReadEnv(cache, Default)
               s == [pc |-> "pri", next |-> "end", blank |-> e = Blank,
                     env |-> [e EXCEPT !.update = w["install"].next, !.rollback = "none"]]
    <3>1. w["install"].pc = "postinst" /\ w' = [w EXCEPT !["install"] = s] /\ UNCHANGED <<files, device, cuts>>
      BY <2>4 DEF Postinst
    <3>2. e \in Full /\ e # Blank
      BY <1>a, ReadsFull
    <3> HIDE DEF e
    <3>3. [e EXCEPT !.update = w["install"].next, !.rollback = "none"].rollback = "none"
      BY <3>2 DEF Full
    <3>4. s.pc = "pri" /\ ~s.blank /\ s.env.rollback = "none"
      BY <3>2, <3>3
    <3> HIDE DEF s
    <3> QED
      BY <1>2, <3>1, <3>4, ProcsAre
  <2> QED
    BY <1>3, <2>1, <2>2, <2>3, <2>4 DEF Install
<1>4. ASSUME NEW p \in Procs, ScriptEnds(p) PROVE Calm /\ ScriptInv'
  <2>1. Goto(p, "idle") /\ w[p].pc = "end" /\ UNCHANGED <<files, cuts, up>>
    BY <1>4 DEF ScriptEnds
  <2>2. CASE p = "init"
    <3>1. w'["init"].env = w["init"].env /\ w'["init"].pc = "idle"
      BY <1>a, <2>1, <2>2, GotoSets
    <3>2. TrialWritten'
      BY <1>a, <2>1, <3>1 DEF ScriptInv, TrialWritten
    <3> QED
      BY <1>a, <1>b, <2>1, <3>2, GotoMoves
  <2> QED
    BY <1>1, <2>1, <2>2
<1>5. ASSUME NEW p \in {"power", "rollback"}, SuccessfulBoot(p) PROVE Calm /\ ScriptInv'
  <2> DEFINE e == ReadEnv(cache, Default)
             s == [pc |-> "pri", next |-> "end", blank |-> e = Blank,
                   env |-> [e EXCEPT !.count = 0, !.rollback = "none", !.update = "none"]]
  <2>1. w[p].pc = "read" /\ w' = [w EXCEPT ![p] = s] /\ UNCHANGED <<files, device, cuts>>
    BY <1>5 DEF SuccessfulBoot
  <2>2. e \in Full /\ e # Blank
    BY <1>a, ReadsFull
  <2> HIDE DEF e
  <2>3. [e EXCEPT !.count = 0, !.rollback = "none", !.update = "none"].rollback = "none"
    BY <2>2 DEF Full
  <2>4. s.pc = "pri" /\ ~s.blank /\ s.env.rollback = "none"
    BY <2>2, <2>3
  <2> HIDE DEF s
  <2> QED
    BY <1>2, <1>5, <2>1, <2>4, ProcsAre
<1>6. CASE StartCanupdate
  <2>1. Goto("power", "read") /\ w["power"].pc = "idle" /\ UNCHANGED <<files, cuts, up>>
    BY <1>6, <1>a, ProcsAre DEF StartCanupdate, Solo
  <2> QED
    BY <1>1, <2>1, ProcsAre
<1>7. CASE ForceRollBack
  <2>1. Goto("rollback", "read") /\ w["rollback"].pc = "idle" /\ UNCHANGED <<files, cuts, up>>
    BY <1>7 DEF ForceRollBack
  <2> QED
    BY <1>1, <2>1, ProcsAre
<1>8. CASE UpdateContent
  <2>1. Goto("install", "preinst") /\ w["install"].pc = "idle" /\ UNCHANGED <<files, cuts, up>>
    BY <1>8 DEF UpdateContent
  <2> QED
    BY <1>1, <2>1, ProcsAre
<1>9. CASE PowerUp
  <2>1. Goto("init", "read") /\ UNCHANGED <<files, cuts>> /\ up = "off" /\ up' = "boot"
    BY <1>9 DEF PowerUp
  <2>2. w["init"].pc = "idle" /\ w'["init"].pc = "read"
    BY <1>a, <2>1, GotoSets, ProcsAre DEF Solo
  <2>3. TrialWritten'
    BY <2>1, <2>2 DEF TrialWritten
  <2> QED
    BY <1>a, <1>b, <2>1, <2>2, <2>3, GotoMoves, ProcsAre
<1>10. CASE RunCanquick
  <2>1. UNCHANGED <<files, w, up, cuts>>
    BY <1>10 DEF RunCanquick
  <2> QED
    BY <1>a, <2>1 DEF Calm, ScriptInv, TrialWritten
<1> QED
  BY <1>3, <1>4, <1>5, <1>6, <1>7, <1>8, <1>9, <1>10

\* What a step of write_env_file does to the copies.
LEMMA WriteEnvCopies ==
  ASSUME FilesTyped, NEW p \in Procs, WriteEnv(p)
  PROVE  LET pc == w[p].pc IN
         /\ pc \in PriPcs => cache'.sec = cache.sec
         /\ pc \in SecPcs => cache'.pri = cache.pri
         /\ pc = "pri"      => cache'.pri.data = Torn /\ cache'.pri.sum = cache.pri.sum
         /\ pc = "pri fill" => cache'.pri.data = Lines(w[p]) /\ cache'.pri.sum = cache.pri.sum
         /\ pc = "pri sum"  => cache'.pri.data = cache.pri.data /\ cache'.pri.sum = cache.pri.data
         /\ pc = "sec"      => cache'.sec.data = Torn /\ cache'.sec.sum = cache.sec.sum
         /\ pc = "sec fill" => cache'.sec.data = Lines(w[p]) /\ cache'.sec.sum = cache.sec.sum
         /\ pc = "sec sum"  => cache'.sec.data = cache.sec.data /\ cache'.sec.sum = cache.sec.data
         /\ pc \in Syncs    => cache' = cache
<1>1. cache \in [pri : Copies, sec : Copies]
  BY DEF FilesTyped
<1>2. cache.pri \in Copies /\ cache.sec \in Copies
  BY <1>1
<1> DEFINE pc == w[p].pc
           l == Lines(w[p])
<1>3. /\ pc = "pri"      => cache' = [cache EXCEPT !.pri.data = Torn]
      /\ pc = "pri fill" => cache' = [cache EXCEPT !.pri.data = l]
      /\ pc = "pri sum"  => cache' = [cache EXCEPT !.pri.sum = cache.pri.data]
      /\ pc = "sec"      => cache' = [cache EXCEPT !.sec.data = Torn]
      /\ pc = "sec fill" => cache' = [cache EXCEPT !.sec.data = l]
      /\ pc = "sec sum"  => cache' = [cache EXCEPT !.sec.sum = cache.sec.data]
      /\ pc \in Syncs    => cache' = cache
  BY DEF WriteEnv, Syncs
<1> HIDE DEF l, pc
<1>4. ASSUME NEW x
      PROVE  /\ cache' = [cache EXCEPT !.pri.data = x]
                  => cache'.pri.data = x /\ cache'.pri.sum = cache.pri.sum /\ cache'.sec = cache.sec
             /\ cache' = [cache EXCEPT !.sec.data = x]
                  => cache'.sec.data = x /\ cache'.sec.sum = cache.sec.sum /\ cache'.pri = cache.pri
             /\ cache' = [cache EXCEPT !.pri.sum = x]
                  => cache'.pri.sum = x /\ cache'.pri.data = cache.pri.data /\ cache'.sec = cache.sec
             /\ cache' = [cache EXCEPT !.sec.sum = x]
                  => cache'.sec.sum = x /\ cache'.sec.data = cache.sec.data /\ cache'.pri = cache.pri
  BY <1>1, <1>2 DEF Copies
<1> QED
  BY <1>3, <1>4 DEF pc, l, PriPcs, SecPcs, Syncs

\* One script writes, the others are over: what the invariant says is said of it.
LEMMA OneWrites ==
  ASSUME NEW p \in Procs, \A q \in Procs \ {p} : w[q].pc = "idle"
  PROVE  /\ InPri <=> w[p].pc \in PriPcs
         /\ InSec <=> w[p].pc \in SecPcs
         /\ Filled <=> /\ w[p].pc \in {"pri sum", "pri sync"} \cup SecPcs => cache.pri.data = w[p].env
                       /\ w[p].pc = "pri sync" => cache.pri.sum = cache.pri.data
                       /\ w[p].pc \in {"sec sum", "sec sync"} => cache.sec.data = w[p].env
                       /\ w[p].pc = "sec sync" => cache.sec.sum = cache.sec.data
BY DEF InPri, InSec, Filled, PriPcs, SecPcs

LEMMA WriteKeeps ==
  ASSUME Inv, NEW p \in Procs, WriteEnv(p)
  PROVE  CopyInv' /\ ScriptInv'
<1>a. /\ ScriptsTyped /\ FilesTyped /\ FilesWhole /\ ScriptInv /\ Solo
      /\ Filled /\ Quiet /\ EnvSurvives
  BY DEF Inv, TypeInv, CopyInv
<1>b. /\ w[p].pc \in Writing
      /\ w'[p].pc = (IF w[p].pc = "sec sync" THEN w[p].next ELSE NextPc(w[p].pc))
      /\ w'[p].env = w[p].env /\ w'[p].next = w[p].next /\ w'[p].blank = w[p].blank
      /\ \A q \in Procs \ {p} : w'[q] = w[q]
      /\ w[p].next \in After
  BY <1>a, WriteEnvSets
<1>c. \A q \in Procs \ {p} : w[q].pc = "idle" /\ w'[q].pc = "idle"
  <2>1. w[p].pc # "idle"
    BY <1>b DEF Writing
  <2>2. ASSUME NEW q \in Procs \ {p} PROVE w[q].pc = "idle"
    BY <1>a, <2>1, OneScript
  <2> QED
    BY <1>b, <2>2
<1>d. ~w[p].blank /\ w[p].env \in Full /\ Lines(w[p]) = w[p].env
  BY <1>a, <1>b DEF ScriptInv, Own, ScriptsTyped, Lines
<1>e. After \cap Writing = {} /\ After \cap (PriPcs \cup SecPcs) = {} /\ PriPcs \cap SecPcs = {}
      /\ Writing = PriPcs \cup SecPcs
  BY DEF After, Writing, PriPcs, SecPcs
<1>f. /\ w[p].pc \in Syncs => disk' = cache /\ dirty' = {}
      /\ w[p].pc \notin Syncs => disk' = disk /\ dirty' = dirty \cup {w[p].pc}
      /\ w[p].pc = "sec sync" => cuts' = 0
      /\ w[p].pc # "sec sync" => cuts' = cuts
      /\ up' = up
  BY DEF WriteEnv, device
<1>g. w[p].pc # "sec sync" => w'[p].pc = NextPc(w[p].pc)
  BY <1>b
<1>h. w[p].pc = "sec sync" => w'[p].pc \in After
  BY <1>b
<1>1. FilesWhole'
  <2>1. Whole(cache.pri)' /\ Whole(cache.sec)'
    BY <1>a, <1>b, <1>d, <1>e, WriteEnvCopies DEF FilesWhole, Whole, PriPcs, SecPcs, Syncs
  <2>2. disk' \in {disk, cache}
    BY <1>f
  <2>3. Whole(disk.pri)' /\ Whole(disk.sec)'
    BY <1>a, <2>2 DEF FilesWhole, Whole
  <2> QED
    BY <2>1, <2>3 DEF FilesWhole
<1>2. /\ InPri <=> w[p].pc \in PriPcs
      /\ InSec <=> w[p].pc \in SecPcs
      /\ w[p].pc \in {"pri sum", "pri sync"} \cup SecPcs => cache.pri.data = w[p].env
      /\ w[p].pc = "pri sync" => cache.pri.sum = cache.pri.data
      /\ w[p].pc \in {"sec sum", "sec sync"} => cache.sec.data = w[p].env
      /\ w[p].pc = "sec sync" => cache.sec.sum = cache.sec.data
  BY <1>a, <1>c, OneWrites
<1>3. (\A q \in Procs \ {p} : w[q].pc = "idle")'
  BY <1>c
<1>4. ( /\ InPri <=> w[p].pc \in PriPcs
        /\ InSec <=> w[p].pc \in SecPcs )'
  BY <1>3 DEF InPri, InSec, PriPcs, SecPcs
<1>5. Filled'
  <2>1. /\ w'[p].pc \in {"pri sum", "pri sync"} \cup SecPcs => cache'.pri.data = w'[p].env
        /\ w'[p].pc = "pri sync" => cache'.pri.sum = cache'.pri.data
        /\ w'[p].pc \in {"sec sum", "sec sync"} => cache'.sec.data = w'[p].env
        /\ w'[p].pc = "sec sync" => cache'.sec.sum = cache'.sec.data
    BY <1>b, <1>d, <1>e, <1>g, <1>h, <1>2, <1>a, WriteEnvCopies DEF NextPc, PriPcs, SecPcs, Syncs, Writing
  <2> QED
    BY <1>3, <2>1 DEF Filled, SecPcs
<1>6. Quiet' /\ EnvSurvives'
  <2>1. CASE w[p].pc \in PriPcs \ {"pri sync"}
    <3>1. w'[p].pc \in PriPcs
      BY <1>g, <2>1 DEF NextPc, PriPcs
    <3>2. /\ disk' = disk /\ dirty' = dirty \cup {w[p].pc} /\ cuts' = cuts /\ cache'.sec = cache.sec
      BY <1>a, <1>f, <2>1, WriteEnvCopies DEF PriPcs, Syncs
    <3>3. ~InSec /\ InPri' /\ ~InSec'
      BY <1>2, <1>4, <1>e, <2>1, <3>1
    <3> QED
      BY <1>a, <2>1, <3>2, <3>3 DEF Quiet, EnvSurvives, Written, Matches
  <2>2. CASE w[p].pc = "pri sync"
    <3>1. w'[p].pc = "sec"
      BY <1>g, <2>2 DEF NextPc
    <3>2. disk' = cache /\ dirty' = {} /\ cache' = cache
      BY <1>a, <1>f, <2>2, WriteEnvCopies DEF Syncs
    <3>3. Written(cache.pri)
      BY <1>2, <1>d, <2>2, MissingIsNoFile, EnvsAreFullOrBlank DEF Written, Matches
    <3>4. InSec' /\ ~InPri'
      BY <1>4, <3>1 DEF SecPcs, PriPcs
    <3> QED
      BY <3>2, <3>3, <3>4 DEF Quiet, EnvSurvives, Written, Matches
  <2>3. CASE w[p].pc \in SecPcs \ {"sec sync"}
    <3>1. w'[p].pc \in SecPcs
      BY <1>g, <2>3 DEF NextPc, SecPcs
    <3>2. /\ disk' = disk /\ dirty' = dirty \cup {w[p].pc} /\ cuts' = cuts /\ cache'.pri = cache.pri
      BY <1>a, <1>f, <2>3, WriteEnvCopies DEF SecPcs, Syncs
    <3>3. ~InPri /\ InSec /\ InSec' /\ ~InPri'
      BY <1>2, <1>4, <1>e, <2>3, <3>1
    <3> QED
      BY <1>a, <2>3, <3>2, <3>3 DEF Quiet, EnvSurvives, Written, Matches
  <2>4. CASE w[p].pc = "sec sync"
    <3>1. w'[p].pc \notin PriPcs \cup SecPcs
      BY <1>h, <1>e, <2>4
    <3>2. disk' = cache /\ dirty' = {} /\ cache' = cache
      BY <1>a, <1>f, <2>4, WriteEnvCopies DEF Syncs
    <3>3. Written(cache.sec)
      BY <1>2, <1>d, <2>4, MissingIsNoFile, EnvsAreFullOrBlank DEF Written, Matches
    <3>4. ~InSec' /\ ~InPri'
      BY <1>4, <3>1
    <3> QED
      BY <3>2, <3>3, <3>4 DEF Quiet, EnvSurvives, Written, Matches
  <2> QED
    BY <1>b, <1>e, <2>1, <2>2, <2>3, <2>4
<1>7. \A q \in Procs : Own(q, w[q])'
  <2>1. \A q \in Procs : Own(q, w[q])
    BY <1>a DEF ScriptInv
  <2>2. Own(p, w[p])'
    BY <1>b, <2>1 DEF Own
  <2> QED
    BY <1>b, <2>1, <2>2
<1>8. TrialWritten'
  <2>1. CASE p = "init"
    <3>1. up = "boot"
      BY <1>a, <1>b, <2>1 DEF Solo, Writing
    <3>2. w[p].pc # "sec sync" => w'[p].pc \notin {"pending", "mount", "reset"}
      BY <1>b, <1>g DEF NextPc, Writing
    <3> QED
      BY <1>f, <2>1, <3>1, <3>2 DEF TrialWritten
  <2>2. CASE p # "init"
    <3>1. w'["init"] = w["init"] /\ cuts' \in {0, cuts}
      BY <1>b, <1>f, <2>2, ProcsAre
    <3> QED
      BY <1>a, <1>f, <3>1 DEF ScriptInv, TrialWritten
  <2> QED
    BY <2>1, <2>2
<1> QED
  BY <1>1, <1>5, <1>6, <1>7, <1>8 DEF CopyInv, ScriptInv

-----------------------------------------------------------------------------
(* Power *)

\* The scripts are stopped, and what is seen is what is on the disk.
LEMMA Stopped ==
  ASSUME Stop, FilesWhole', EnvSurvives', cache' = disk', dirty' = {},
         cuts' = 0 => Written(disk.sec)'
  PROVE  CopyInv' /\ ScriptInv'
<1>1. \A p \in Procs : w'[p] = Idle
  BY DEF Stop
<1>2. \A p \in Procs : w'[p].pc = "idle" /\ w'[p].blank = FALSE
  BY <1>1 DEF Idle
<1>3. w'["init"].env.rollback = "none"
  BY <1>1, ProcsAre DEF Idle, Default
<1>4. Filled'
  BY <1>2 DEF Filled, SecPcs
<1>5. ~InSec' /\ ~InPri'
  BY <1>2 DEF InSec, InPri, SecPcs, PriPcs
<1>6. Quiet'
  BY <1>5 DEF Quiet, Written, Matches
<1>7. ScriptInv'
  BY <1>2, <1>3 DEF ScriptInv, Own, TrialWritten, Writing
<1> QED
  BY <1>4, <1>6, <1>7 DEF CopyInv

\* No script writes both copies at a time.
LEMMA OneCopy == Solo => ~(InPri /\ InSec)
<1> SUFFICES ASSUME Solo, NEW p \in Procs, NEW q \in Procs, w[p].pc \in PriPcs, w[q].pc \in SecPcs
             PROVE  FALSE
  BY DEF InPri, InSec
<1>1. w[p].pc # "idle" /\ w[q].pc # "idle" /\ p # q
  BY DEF PriPcs, SecPcs
<1> QED
  BY <1>1, OneScript

\* A good copy that is whole was written.
LEMMA GoodIsWritten == ASSUME NEW c, Whole(c), Matches(c) PROVE Written(c)
BY MissingIsNoFile, EnvsAreFullOrBlank DEF Whole, Matches, Written

LEMMA WatchdogKeeps ==
  ASSUME Inv, Watchdog
  PROVE  CopyInv' /\ ScriptInv'
<1>a. /\ ScriptsTyped /\ FilesWhole /\ ScriptInv /\ Solo
      /\ Filled /\ Quiet /\ EnvSurvives
  BY DEF Inv, TypeInv, CopyInv
<1>b. UNCHANGED <<cache, cuts>> /\ up = "on" /\ w["init"].pc = "idle"
  BY <1>a DEF Watchdog, Solo
<1> DEFINE e == ReadEnv(cache, w["init"].env)
<1>1. CASE e.rollback = "none"
  <2>1. UNCHANGED <<up, w, cache, disk, dirty, cuts>>
    BY <1>1, <1>b DEF Watchdog
  <2>2. Calm /\ ScriptInv'
    BY <1>a, <2>1 DEF Calm, files, ScriptInv, TrialWritten
  <2> QED
    BY <2>2, CalmKeeps DEF Inv
<1>2. CASE e.rollback # "none"
  <2>1. Stop /\ disk' = cache /\ dirty' = {}
    BY <1>2 DEF Watchdog
  <2>2. FilesWhole'
    BY <1>a, <1>b, <2>1 DEF FilesWhole, Whole
  <2>3. ~InSec
    <3> SUFFICES ASSUME NEW p \in Procs, w[p].pc \in SecPcs PROVE FALSE
      BY DEF InSec
    <3>1. InSec /\ ~InPri
      BY <1>a, OneCopy DEF InSec
    <3>2. Written(cache.pri)
      BY <1>a, <3>1 DEF Quiet
    <3>3. e = Content(cache.pri) /\ cache.pri.data # Missing
      BY <3>2 DEF ReadEnv, Written
    <3>4. cache.pri.data = w[p].env
      BY <1>a DEF Filled
    <3>5. w[p].env.rollback = "none"
      BY <1>a, <1>b DEF ScriptInv, Own, Writing, SecPcs
    <3> HIDE DEF e
    <3> QED
      BY <1>2, <3>3, <3>4, <3>5 DEF Content
  <2>4. cache.sec = disk.sec /\ (cuts = 0 => Written(disk.sec))
    BY <1>a, <2>3 DEF Quiet
  <2>5. Written(cache.pri) \/ Written(cache.sec)
    <3>1. CASE Matches(cache.pri) \/ Matches(cache.sec)
      BY <1>a, <3>1, GoodIsWritten DEF FilesWhole
    <3>2. CASE ~Matches(cache.pri) /\ ~Matches(cache.sec)
      <4>1. w["init"].env.rollback # "none"
        BY <1>2, <3>2 DEF ReadEnv
      <4>2. cuts = 0
        BY <1>a, <1>b, <4>1 DEF ScriptInv, TrialWritten
      <4> QED
        BY <2>4, <4>2
    <3> QED
      BY <3>1, <3>2
  <2>6. EnvSurvives'
    BY <2>1, <2>5 DEF EnvSurvives, Written, Matches
  <2>7. cuts' = 0 => Written(disk.sec)'
    BY <1>b, <2>1, <2>4 DEF Written, Matches
  <2> QED
    BY <1>b, <2>1, <2>2, <2>6, <2>7, Stopped
<1> QED
  BY <1>1, <1>2

LEMMA PowerOffKeeps ==
  ASSUME Inv, PowerOff
  PROVE  CopyInv' /\ ScriptInv'
<1>1. FilesWhole /\ Quiet /\ EnvSurvives
  BY DEF Inv, CopyInv
<1>2. Stop /\ disk' = cache /\ dirty' = {} /\ UNCHANGED <<cache, cuts>>
  BY DEF PowerOff
<1>3. ~InSec /\ ~InPri
  BY DEF PowerOff, InSec, InPri, SecPcs, PriPcs
<1>4. cache.pri = disk.pri /\ cache.sec = disk.sec /\ (cuts = 0 => Written(disk.sec))
  BY <1>1, <1>3 DEF Quiet
<1>5. FilesWhole' /\ EnvSurvives' /\ (cuts' = 0 => Written(disk.sec)')
  BY <1>1, <1>2, <1>4 DEF FilesWhole, Whole, EnvSurvives, Written, Matches
<1> QED
  BY <1>2, <1>5, Stopped

LEMMA PowerCutKeeps ==
  ASSUME Inv, MaxCuts <= 1, PowerCut
  PROVE  CopyInv' /\ ScriptInv'
<1>a. FilesWhole /\ Quiet /\ EnvSurvives /\ Solo /\ cuts \in 0 .. MaxCuts
  BY DEF Inv, CopyInv, TypeInv, DeviceTyped
<1>b. Stop /\ disk' = cache' /\ dirty' = {} /\ cuts = 0 /\ cuts' = 1
  <2>1. Stop /\ disk' = cache' /\ dirty' = {} /\ cuts < MaxCuts /\ cuts' = cuts + 1
    BY DEF PowerCut
  <2>2. cuts = 0
    BY <1>a, <2>1, BoundsAssumption
  <2> QED
    BY <2>1, <2>2
<1>c. cache' \in [pri : [data : Left(cache.pri.data, disk.pri.data, {"pri", "pri fill"}),
                         sum  : Left(cache.pri.sum, disk.pri.sum, {"pri sum"})],
                  sec : [data : Left(cache.sec.data, disk.sec.data, {"sec", "sec fill"}),
                         sum  : Left(cache.sec.sum, disk.sec.sum, {"sec sum"})]]
  BY DEF PowerCut
<1>d. /\ cache'.pri.data \in Left(cache.pri.data, disk.pri.data, {"pri", "pri fill"})
      /\ cache'.pri.sum \in Left(cache.pri.sum, disk.pri.sum, {"pri sum"})
      /\ cache'.sec.data \in Left(cache.sec.data, disk.sec.data, {"sec", "sec fill"})
      /\ cache'.sec.sum \in Left(cache.sec.sum, disk.sec.sum, {"sec sum"})
  BY <1>c
<1>1. FilesWhole'
  <2> DEFINE All == Full \cup {Torn}
  <2>1. \A new \in All, old \in All : \A steps : Left(new, old, steps) \subseteq All
    BY DEF Left
  <2>2. /\ cache.pri.data \in All /\ cache.pri.sum \in All /\ cache.sec.data \in All /\ cache.sec.sum \in All
        /\ disk.pri.data \in All /\ disk.pri.sum \in All /\ disk.sec.data \in All /\ disk.sec.sum \in All
    BY <1>a DEF FilesWhole, Whole
  <2> HIDE DEF All
  <2>3. /\ cache'.pri.data \in All /\ cache'.pri.sum \in All
        /\ cache'.sec.data \in All /\ cache'.sec.sum \in All
    BY <1>d, <2>1, <2>2
  <2>4. Whole(cache.pri)' /\ Whole(cache.sec)'
    BY <2>3 DEF Whole, All
  <2> QED
    BY <1>b, <2>4 DEF FilesWhole, Whole
<1>2. EnvSurvives'
  <2>1. CASE InSec
    <3>1. Written(cache.pri) /\ dirty \subseteq SecPcs
      BY <1>a, <2>1, OneCopy DEF Quiet
    <3>2. dirty \cap {"pri", "pri fill"} = {} /\ dirty \cap {"pri sum"} = {}
      BY <3>1 DEF SecPcs
    <3>3. cache'.pri.data = cache.pri.data /\ cache'.pri.sum = cache.pri.sum
      BY <1>d, <3>2 DEF Left
    <3> QED
      BY <1>b, <3>1, <3>3 DEF EnvSurvives, Written, Matches
  <2>2. CASE ~InSec
    <3>1. Written(cache.sec) /\ dirty \subseteq PriPcs
      BY <1>a, <1>b, <2>2 DEF Quiet
    <3>2. dirty \cap {"sec", "sec fill"} = {} /\ dirty \cap {"sec sum"} = {}
      BY <3>1 DEF PriPcs
    <3>3. cache'.sec.data = cache.sec.data /\ cache'.sec.sum = cache.sec.sum
      BY <1>d, <3>2 DEF Left
    <3> QED
      BY <1>b, <3>1, <3>3 DEF EnvSurvives, Written, Matches
  <2> QED
    BY <2>1, <2>2
<1> QED
  BY <1>b, <1>1, <1>2, Stopped

-----------------------------------------------------------------------------

LEMMA InvInit == Init /\ Provisioned => Inv
BY InitTypes, SoloInit, CopyInit DEF Inv

LEMMA InvStep == Inv /\ PowerOnFirst /\ MaxCuts <= 1 /\ [Next]_vars => Inv'
<1> SUFFICES ASSUME Inv, PowerOnFirst, MaxCuts <= 1, [Next]_vars PROVE CopyInv' /\ ScriptInv'
  BY TypeStep, SoloStep DEF Inv
<1>1. ASSUME Calm, ScriptInv' PROVE CopyInv' /\ ScriptInv'
  BY <1>1, CalmKeeps DEF Inv
<1>2. CASE InitScript
  BY <1>1, <1>2, InitScriptMoves
<1>3. CASE \/ Install \/ (\E p \in Procs : ScriptEnds(p))
           \/ (\E p \in {"power", "rollback"} : SuccessfulBoot(p))
           \/ StartCanupdate \/ ForceRollBack \/ UpdateContent \/ PowerUp \/ RunCanquick
  BY <1>1, <1>3, CommandsMove
<1>4. ASSUME NEW p \in Procs, WriteEnv(p) PROVE CopyInv' /\ ScriptInv'
  BY <1>4, WriteKeeps
<1>5. CASE Watchdog
  BY <1>5, WatchdogKeeps
<1>6. CASE PowerOff
  BY <1>6, PowerOffKeeps
<1>7. CASE PowerCut
  BY <1>7, PowerCutKeeps
<1>8. CASE UNCHANGED vars
  <2>1. Calm /\ ScriptInv'
    BY <1>8 DEF vars, Calm, files, Inv, ScriptInv, TrialWritten
  <2> QED
    BY <1>1, <2>1
<1> QED
  BY <1>2, <1>3, <1>4, <1>5, <1>6, <1>7, <1>8 DEF Next

\* On a device that has its environment files, and whose PowerOn is left to end, one of the two
\* copies is good wherever a script is stopped, by the watchdog or by a power cut, if no second
\* cut comes before the environment was written to its end.
THEOREM OneCopySurvives ==
  ASSUME Provisioned, PowerOnFirst, MaxCuts <= 1
  PROVE  Spec => []EnvSurvives
<1>1. Init => Inv
  BY InvInit
<1>2. Inv /\ [Next]_vars => Inv'
  BY InvStep
<1>3. Inv => EnvSurvives
  BY DEF Inv, CopyInv
<1> QED
  BY <1>1, <1>2, <1>3, PTL DEF Spec

=============================================================================
