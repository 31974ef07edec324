--------------------------- MODULE BootTrial_proofs ---------------------------
(***************************************************************************)
(* Proofs about BootUpdate: bad partitions run on trial only, a trial      *)
(* leads back to good ones, and an update that was installed is not        *)
(* forgotten, whatever is installed and wherever power fails.  They rest   *)
(* on what BootUpdate_proofs says of the files.                            *)
(***************************************************************************)
EXTENDS BootUpdate_proofs

\* Partitions m are good in slots s, as Good says of those of a device.
GoodIn(s, m) == s[m.fw] = "good" /\ s[m.media] = "good"

\* Variables e that a boot may start from.
SafeIn(s, e) == /\ e.rollback = "none" => GoodIn(s, e)
                /\ e.rollback # "none" => GoodIn(s, GoBack(e)) /\ e.update = "none"

\* Variables e that mount m, and are not on trial.
KeptIn(m, e) == e.fw = m.fw /\ e.media = m.media /\ e.rollback = "none"

Datas == {cache.pri.data, cache.sec.data, disk.pri.data, disk.sec.data}

Booting == w["init"].pc \in {"trial", "pending", "mount", "reset"}

CopiesSafe == \A d \in Datas : d # Torn => SafeIn(slot, d)

BootSafe == Booting \/ w["init"].pc \in Writing => SafeIn(slot, w["init"].env)

\* The other scripts write, and install beside, what is mounted.
WritersKeep == \A p \in Procs \ {"init"} :
  /\ w[p].pc \in Writing \cup {"flash"} => KeptIn(mounted, w[p].env)
  /\ w[p].pc \in Writing => w[p].next = "end"

\* Once PowerOn's script is over, no copy knows of a trial.
Settled == started /\ w["power"].pc \in {"idle", "end"} => \A d \in Datas : d # Torn => KeptIn(mounted, d)

\* Until PowerOn's script has read it, the environment is that of the boot.
Known == Booting \/ (up = "on" /\ (~started \/ w["power"].pc = "read"))
           => ReadEnv(cache, Default) = w["init"].env

Mounted == w["init"].pc = "reset" \/ up = "on"
             => mounted.fw = w["init"].env.fw /\ mounted.media = w["init"].env.media

StartedGood == started => up = "on" /\ GoodIn(slot, mounted) /\ mounted.fw \in Parts /\ mounted.media \in Parts

TrialInv == CopiesSafe /\ BootSafe /\ WritersKeep /\ Settled /\ Known /\ Mounted /\ StartedGood

-----------------------------------------------------------------------------
(* What the scripts compute *)

LEMMA SwapsBack ==
  ASSUME NEW e \in Full, NEW t \in Kinds
  PROVE  Swap(Swap(e, t), t).fw = e.fw /\ Swap(Swap(e, t), t).media = e.media
BY DEF Swap, SwapFw, SwapMedia, Full, Kinds

LEMMA AttemptSafe ==
  ASSUME NEW s, NEW e \in Full, SafeIn(s, e), e.rollback # "none"
  PROVE  SafeIn(s, Attempt(e))
<1>1. e.update = "none" /\ GoodIn(s, GoBack(e))
  BY DEF SafeIn
<1>2. CASE e.count < MaxAttempts
  <2> DEFINE f == [e EXCEPT !.count = @ + 1]
  <2>1. Attempt(e) = f
    BY <1>2 DEF Attempt
  <2>2. f.rollback = e.rollback /\ f.update = e.update /\ f.fw = e.fw /\ f.media = e.media
    BY DEF Full
  <2>3. GoBack(f).fw = GoBack(e).fw /\ GoBack(f).media = GoBack(e).media
    BY <2>2 DEF GoBack, Swap, Full
  <2> HIDE DEF f
  <2> QED
    BY <1>1, <2>1, <2>2, <2>3 DEF SafeIn, GoodIn
<1>3. CASE ~(e.count < MaxAttempts)
  <2>1. Attempt(e) = GoBack(e)
    BY <1>3 DEF Attempt
  <2>2. Swap(e, e.rollback) \in Full
    BY SwapTyped
  <2>3. GoBack(e).rollback = "none"
    BY <2>2 DEF GoBack, Full
  <2> QED
    BY <1>1, <2>1, <2>3 DEF SafeIn
<1> QED
  BY <1>2, <1>3

LEMMA CompleteSafe ==
  ASSUME NEW s, NEW e \in Full, SafeIn(s, e), e.update # "none"
  PROVE  SafeIn(s, Complete(e))
<1> DEFINE f == Swap(e, e.update)
           g == Complete(e)
<1>1. e.rollback = "none" /\ GoodIn(s, e)
  BY DEF SafeIn
<1>2. e.update \in Kinds
  BY DEF Full, Status, Kinds
<1>3. f \in Full
  BY SwapTyped
<1>4. g = [f EXCEPT !.rollback = e.update, !.update = "none", !.count = 0]
  BY DEF Complete
<1>5. Swap(f, e.update).fw = e.fw /\ Swap(f, e.update).media = e.media
  BY <1>2, SwapsBack
<1> HIDE DEF f, g
<1>6. g.rollback = e.update /\ g.update = "none" /\ g.fw = f.fw /\ g.media = f.media
      /\ g \in Full
  <2>1. g.rollback = e.update /\ g.update = "none" /\ g.fw = f.fw /\ g.media = f.media
    BY <1>3, <1>4 DEF Full
  <2>2. g \in Full
    BY <1>2, CompleteTyped DEF g
  <2> QED
    BY <2>1, <2>2
<1>7. Swap(g, e.update).fw = Swap(f, e.update).fw /\ Swap(g, e.update).media = Swap(f, e.update).media
  BY <1>3, <1>6 DEF Swap, Full
<1>8. Swap(g, e.update) \in Full
  BY <1>6, SwapTyped
<1>9. GoBack(g).fw = e.fw /\ GoBack(g).media = e.media
  BY <1>5, <1>6, <1>7, <1>8 DEF GoBack, Full
<1>10. SafeIn(s, g)
  BY <1>1, <1>2, <1>6, <1>9 DEF SafeIn, GoodIn, Kinds
<1> QED
  BY <1>10 DEF g

LEMMA KeptIsSafe ==
  ASSUME NEW s, NEW m, NEW e, KeptIn(m, e), GoodIn(s, m)
  PROVE  SafeIn(s, e)
BY DEF KeptIn, GoodIn, SafeIn

-----------------------------------------------------------------------------
(* What the scripts read *)

\* A copy that was written, if there is one, is read.
LEMMA WrittenIsRead ==
  ASSUME NEW f, NEW shell, Written(f.pri) \/ Written(f.sec), Whole(f.pri), Whole(f.sec)
  PROVE  /\ ReadEnv(f, shell) \in {f.pri.data, f.sec.data}
         /\ ReadEnv(f, shell) \in Full /\ ReadEnv(f, shell) # Torn
BY MissingIsNoFile DEF ReadEnv, Written, Matches, Whole, Content

LEMMA OnDiskIsData ==
  ASSUME Inv
  PROVE  OnDisk \in Datas /\ OnDisk \in Full /\ OnDisk # Torn
<1>1. Whole(disk.pri) /\ Whole(disk.sec) /\ EnvSurvives
  BY DEF Inv, CopyInv, FilesWhole
<1>2. disk.pri.data # Missing
  BY <1>1, MissingIsNoFile DEF Whole
<1>3. Written(disk.pri) \/ Written(disk.sec)
  BY <1>1, <1>2 DEF EnvSurvives
<1> QED
  BY <1>1, <1>3, WrittenIsRead DEF OnDisk, Datas

LEMMA ReadIsData ==
  ASSUME Inv, \A p \in Procs : w[p].pc \notin Writing
  PROVE  /\ ReadEnv(cache, Default) \in Datas /\ ReadEnv(cache, Default) \in Full
         /\ ReadEnv(cache, Default) # Torn
<1>1. ~InPri /\ ~InSec
  BY DEF InPri, InSec, PriPcs, SecPcs, Writing
<1>2. cache.pri = disk.pri /\ cache.sec = disk.sec
  BY <1>1 DEF Inv, CopyInv, Quiet
<1>3. ReadEnv(cache, Default) = OnDisk
  BY <1>2 DEF ReadEnv, OnDisk
<1> QED
  BY <1>3, OnDiskIsData

\* A script that runs and does not write reads what one of the copies holds.
LEMMA ScriptReads ==
  ASSUME Inv, NEW p \in Procs, w[p].pc \notin Writing \cup {"idle"}
  PROVE  /\ ReadEnv(cache, Default) \in Datas /\ ReadEnv(cache, Default) \in Full
         /\ ReadEnv(cache, Default) # Torn
<1>1. ASSUME NEW q \in Procs PROVE w[q].pc \notin Writing
  BY OneScript DEF Inv, Writing
<1> QED
  BY <1>1, ReadIsData

-----------------------------------------------------------------------------
(* Steps *)

\* Scripts other than the boot's run once it is over and canupdate was started.
LEMMA OthersAreStarted ==
  ASSUME Solo, StartedGood, NEW p \in Procs \ {"init"}, w[p].pc # "idle"
  PROVE  /\ started /\ up = "on" /\ w["init"].pc = "idle"
         /\ p # "power" => w["power"].pc = "idle"
BY ProcsAre DEF Solo, StartedGood

LEMMA BootIsNotStarted ==
  ASSUME Solo, w["init"].pc # "idle" \/ up # "on"
  PROVE  ~started /\ up # "on" /\ \A p \in Procs \ {"init"} : w[p].pc = "idle"
BY DEF Solo

\* What canupdate has started reads is mounted, and not on trial.
LEMMA ReadIsKept ==
  ASSUME Inv, TrialInv, NEW p \in Procs \ {"init"}, w[p].pc \in {"read", "preinst", "postinst"}
  PROVE  KeptIn(mounted, ReadEnv(cache, Default)) \/ p = "power"
<1> SUFFICES ASSUME p # "power" PROVE KeptIn(mounted, ReadEnv(cache, Default))
  OBVIOUS
<1>1. w[p].pc \notin Writing \cup {"idle"}
  BY DEF Writing
<1>2. started /\ w["power"].pc = "idle"
  BY <1>1, OthersAreStarted DEF Inv, TrialInv
<1>3. ReadEnv(cache, Default) \in Datas /\ ReadEnv(cache, Default) # Torn
  BY <1>1, ScriptReads
<1> QED
  BY <1>2, <1>3 DEF TrialInv, Settled

\* A script of the boot moves.
LEMMA BootMoves ==
  ASSUME Inv, TrialInv, w["init"].pc # "idle", UNCHANGED <<cache, disk, slot, started, up>>,
         \A p \in Procs \ {"init"} : w'[p] = w[p],
         SafeIn(slot, w'["init"].env),
         Booting' => ReadEnv(cache, Default) = w'["init"].env,
         w'["init"].pc = "reset" => mounted'.fw = w'["init"].env.fw /\ mounted'.media = w'["init"].env.media
  PROVE  TrialInv'
<1>1. ~started /\ up # "on" /\ \A p \in Procs \ {"init"} : w[p].pc = "idle"
  BY BootIsNotStarted DEF Inv
<1>2. CopiesSafe'
  BY DEF TrialInv, CopiesSafe, Datas
<1>3. BootSafe'
  BY DEF BootSafe
<1>4. WritersKeep'
  BY <1>1 DEF WritersKeep, Writing
<1>5. Settled' /\ StartedGood'
  BY <1>1 DEF Settled, StartedGood
<1>6. Known' /\ Mounted'
  BY <1>1 DEF Known, Mounted
<1> QED
  BY <1>2, <1>3, <1>4, <1>5, <1>6 DEF TrialInv

LEMMA BootKeeps ==
  ASSUME Inv, TrialInv, InitScript
  PROVE  TrialInv'
<1>a. ScriptsTyped /\ FilesTyped /\ FilesWhole /\ Solo /\ "init" \in Procs
  BY DEF Inv, TypeInv, CopyInv, Procs
<1>b. w["init"].env \in Full
  BY <1>a DEF Inv, ScriptInv, Own, ScriptsTyped
<1>c. BootSafe /\ Known
  BY DEF TrialInv
<1>1. CASE InitRead
  <2>1. ReadThen("init", "trial") /\ UNCHANGED <<cache, disk, slot, started, up, mounted>>
        /\ w["init"].pc = "read"
    <3>1. cache.pri.data # Missing
      BY <1>a, MissingIsNoFile DEF FilesWhole, Whole
    <3> QED
      BY <1>1, <3>1 DEF InitRead, device, files
  <2>2. /\ w'["init"].pc = "trial" /\ w'["init"].env = ReadEnv(cache, Default)
        /\ \A p \in Procs \ {"init"} : w'[p] = w[p]
    BY <1>a, <2>1, ReadThenSets
  <2>3. SafeIn(slot, ReadEnv(cache, Default))
    <3>1. w["init"].pc \notin Writing \cup {"idle"}
      BY <2>1 DEF Writing
    <3> QED
      BY <1>a, <3>1, ScriptReads DEF TrialInv, CopiesSafe
  <2> QED
    BY <2>1, <2>2, <2>3, BootMoves
\* The boot goes on at l with its variables, which are those of the files, or writes safe ones.
<1>g. ASSUME NEW l \in {"pending", "mount", "reset"}, Goto("init", l), Booting,
             UNCHANGED <<cache, disk, slot, started, up>>,
             l = "reset" => mounted' = [fw |-> w["init"].env.fw, media |-> w["init"].env.media]
      PROVE  TrialInv'
  <2>1. /\ w'["init"].pc = l /\ w'["init"].env = w["init"].env
        /\ \A p \in Procs \ {"init"} : w'[p] = w[p]
    BY <1>a, <1>g, GotoSets
  <2>2. w["init"].pc # "idle"
    BY <1>g DEF Booting
  <2> QED
    BY <1>c, <1>g, <2>1, <2>2, BootMoves DEF BootSafe, Known
<1>w. ASSUME NEW l, NEW e, WriteThen("init", e, l), SafeIn(slot, e), Booting,
             UNCHANGED <<cache, disk, slot, started, up>>
      PROVE  TrialInv'
  <2>1. /\ w'["init"].pc = "pri" /\ w'["init"].env = e
        /\ \A p \in Procs \ {"init"} : w'[p] = w[p]
    BY <1>a, <1>w, WriteThenSets
  <2>2. w["init"].pc # "idle" /\ ~Booting'
    BY <1>w, <2>1 DEF Booting
  <2> QED
    BY <1>w, <2>1, <2>2, BootMoves
<1>2. CASE InitTrial
  <2>1. Booting /\ UNCHANGED <<cache, disk, slot, started, up>>
    BY <1>2 DEF InitTrial, Booting, files
  <2>2. CASE w["init"].env.rollback = "none"
    BY <1>2, <1>g, <2>1, <2>2 DEF InitTrial
  <2>3. CASE w["init"].env.rollback # "none"
    <3>1. SafeIn(slot, Attempt(w["init"].env))
      BY <1>b, <1>c, <2>1, <2>3, AttemptSafe DEF BootSafe
    <3>2. WriteThen("init", Attempt(w["init"].env), "pending")
      BY <1>2, <2>3 DEF InitTrial
    <3> QED
      BY <1>w, <2>1, <3>1, <3>2
  <2> QED
    BY <2>2, <2>3
<1>3. CASE InitPending
  <2>1. Booting /\ UNCHANGED <<cache, disk, slot, started, up>>
    BY <1>3 DEF InitPending, Booting, files
  <2>2. CASE w["init"].env.update = "none"
    BY <1>3, <1>g, <2>1, <2>2 DEF InitPending
  <2>3. CASE w["init"].env.update # "none"
    <3>1. SafeIn(slot, Complete(w["init"].env))
      BY <1>b, <1>c, <2>1, <2>3, CompleteSafe DEF BootSafe
    <3>2. WriteThen("init", Complete(w["init"].env), "mount")
      BY <1>3, <2>3 DEF InitPending
    <3> QED
      BY <1>w, <2>1, <3>1, <3>2
  <2> QED
    BY <2>2, <2>3
<1>4. CASE InitMount
  <2>1. Booting /\ Goto("init", "reset") /\ UNCHANGED <<cache, disk, slot, started, up>>
        /\ mounted' = [fw |-> w["init"].env.fw, media |-> w["init"].env.media]
    BY <1>4 DEF InitMount, Booting, files
  <2> QED
    BY <1>g, <2>1
<1>5. CASE InitReset
  <2>1. /\ w["init"].pc = "reset" /\ Goto("init", "idle") /\ up' = "on"
        /\ UNCHANGED <<cache, disk, slot, started, mounted>>
    BY <1>5 DEF InitReset, files
  <2>2. /\ w'["init"].pc = "idle" /\ w'["init"].env = w["init"].env
        /\ \A p \in Procs \ {"init"} : w'[p] = w[p]
    BY <1>a, <2>1, GotoSets
  <2>3. ~started /\ \A p \in Procs \ {"init"} : w[p].pc = "idle"
    BY <1>a, <2>1, BootIsNotStarted
  <2>4. CopiesSafe'
    BY <2>1 DEF TrialInv, CopiesSafe, Datas
  <2>5. BootSafe' /\ WritersKeep' /\ Settled' /\ StartedGood'
    BY <2>1, <2>2, <2>3 DEF BootSafe, Booting, WritersKeep, Settled, StartedGood, Writing
  <2>6. Known'
    BY <1>c, <2>1, <2>2 DEF Known, Booting
  <2>7. Mounted'
    BY <2>1, <2>2 DEF TrialInv, Mounted
  <2> QED
    BY <2>4, <2>5, <2>6, <2>7 DEF TrialInv
<1> QED
  BY <1>1, <1>2, <1>3, <1>4, <1>5 DEF InitScript

\* Another script moves; it writes, or installs beside, what is mounted.
LEMMA OtherMoves ==
  ASSUME Solo, TrialInv, NEW p \in Procs \ {"init"}, UNCHANGED <<cache, disk, slot, mounted, up, started>>,
         \A q \in Procs \ {p} : w'[q] = w[q],
         w'[p].pc \in Writing \cup {"flash"} => KeptIn(mounted, w'[p].env),
         w'[p].pc \in Writing => w'[p].next = "end",
         p = "power" => /\ w'[p].pc # "read"
                        /\ w'[p].pc \in {"idle", "end"} => w[p].pc \in {"idle", "end"}
  PROVE  TrialInv'
<1>1. w'["init"] = w["init"] /\ (p # "power" => w'["power"] = w["power"])
  BY ProcsAre
<1>2. CopiesSafe' /\ BootSafe' /\ Mounted' /\ StartedGood'
  BY <1>1 DEF TrialInv, CopiesSafe, Datas, BootSafe, Booting, Mounted, StartedGood
<1>3. WritersKeep'
  BY DEF TrialInv, WritersKeep
<1>4. Settled'
  BY <1>1 DEF TrialInv, Settled, Datas
<1>5. Known'
  BY <1>1 DEF TrialInv, Known, Booting
<1> QED
  BY <1>2, <1>3, <1>4, <1>5 DEF TrialInv

\* It is only started, or over.
LEMMA OtherGoes ==
  ASSUME Inv, TrialInv, NEW p \in Procs \ {"init"}, NEW l \in {"idle", "end", "read", "preinst"}, Goto(p, l),
         UNCHANGED <<cache, disk, slot, mounted, up, started>>,
         p = "power" => l = "idle" /\ w[p].pc = "end"
  PROVE  TrialInv'
<1>1. w'[p].pc = l /\ \A q \in Procs \ {p} : w'[q] = w[q]
  BY GotoSets DEF Inv, TypeInv
<1>2. l \notin Writing \cup {"flash"}
  BY DEF Writing
<1> QED
  BY <1>1, <1>2, OtherMoves DEF Inv

\* It has read the environment and begins to write it, with no update on trial.
LEMMA OtherBegins ==
  ASSUME Inv, TrialInv, NEW p \in Procs \ {"init"}, NEW s, w' = [w EXCEPT ![p] = s],
         UNCHANGED <<cache, disk, slot, mounted, up, started>>,
         s.pc = "pri", s.next = "end", KeptIn(mounted, s.env)
  PROVE  TrialInv'
<1>1. w'[p] = s /\ \A q \in Procs \ {p} : w'[q] = w[q]
  BY DEF Inv, TypeInv, ScriptsTyped
<1> QED
  BY <1>1, OtherMoves DEF Inv

LEMMA SuccessfulBootKeeps ==
  ASSUME Inv, TrialInv, NEW p \in {"power", "rollback"}, SuccessfulBoot(p)
  PROVE  TrialInv'
<1> DEFINE e == ReadEnv(cache, Default)
           f == [e EXCEPT !.count = 0, !.rollback = "none", !.update = "none"]
           s == [pc |-> "pri", next |-> "end", blank |-> e = Blank, env |-> f]
<1>1. /\ w[p].pc = "read" /\ w' = [w EXCEPT ![p] = s] /\ p \in Procs \ {"init"}
      /\ UNCHANGED <<cache, disk, slot, mounted, up, started>>
  BY ProcsAre DEF SuccessfulBoot, files, device
<1>2. w[p].pc \notin Writing \cup {"idle"}
  BY <1>1 DEF Writing
<1>3. e \in Full
  BY <1>1, <1>2, ScriptReads
<1>4. e.fw = mounted.fw /\ e.media = mounted.media
  <2>1. CASE p = "power"
    <3>1. started /\ up = "on"
      BY <1>1, <1>2, OthersAreStarted DEF Inv, TrialInv
    <3>2. e = w["init"].env
      BY <1>1, <2>1, <3>1 DEF TrialInv, Known
    <3> QED
      BY <3>1, <3>2 DEF TrialInv, Mounted
  <2>2. CASE p # "power"
    BY <1>1, <2>2, ReadIsKept DEF KeptIn
  <2> QED
    BY <2>1, <2>2
<1> HIDE DEF e
<1>5. f.rollback = "none" /\ f.fw = e.fw /\ f.media = e.media
  BY <1>3 DEF Full
<1> HIDE DEF f
<1>6. s.pc = "pri" /\ s.next = "end" /\ s.env = f
  OBVIOUS
<1> HIDE DEF s
<1> QED
  BY <1>1, <1>4, <1>5, <1>6, OtherBegins DEF KeptIn

LEMMA PostinstKeeps == Inv /\ TrialInv /\ Postinst => TrialInv'
<1> SUFFICES ASSUME Inv, TrialInv, Postinst PROVE TrialInv'
  OBVIOUS
<1> DEFINE e == ReadEnv(cache, Default)
           f == [e EXCEPT !.update = w["install"].next, !.rollback = "none"]
           s == [pc |-> "pri", next |-> "end", blank |-> e = Blank, env |-> f]
<1>1. /\ w["install"].pc = "postinst" /\ w' = [w EXCEPT !["install"] = s] /\ "install" \in Procs \ {"init"}
      /\ UNCHANGED <<cache, disk, slot, mounted, up, started>>
  BY ProcsAre DEF Postinst, files, device
<1>2. w["install"].pc \notin Writing \cup {"idle"}
  BY <1>1 DEF Writing
<1>3. e \in Full
  BY <1>1, <1>2, ScriptReads
<1>4. e.fw = mounted.fw /\ e.media = mounted.media
  BY <1>1, ReadIsKept DEF KeptIn
<1> HIDE DEF e
<1>5. f.rollback = "none" /\ f.fw = e.fw /\ f.media = e.media
  BY <1>3 DEF Full
<1> HIDE DEF f
<1>6. s.pc = "pri" /\ s.next = "end" /\ s.env = f
  OBVIOUS
<1> HIDE DEF s
<1> QED
  BY <1>1, <1>4, <1>5, <1>6, OtherBegins DEF KeptIn

\* An update is written, well or not, by a script whose variables are e.
LEMMA SlotsMove ==
  ASSUME Inv, TrialInv, w["install"].pc # "idle", NEW e, NEW t, NEW q, KeptIn(mounted, e),
         e.fw \in {"", "5", "7"}, e.media \in {"", "3", "6"},
         slot' = [i \in Parts |-> IF i \in Targets(e, t) THEN q ELSE slot[i]],
         UNCHANGED <<cache, disk, mounted, up, started>>,
         \A p \in Procs \ {"install"} : w'[p] = w[p],
         w'["install"].pc \in {"flash", "postinst"},
         w'["install"].pc = "flash" => KeptIn(mounted, w'["install"].env)
  PROVE  TrialInv'
<1>1. started /\ up = "on" /\ w["init"].pc = "idle" /\ w["power"].pc = "idle"
  <2>1. "install" \in Procs \ {"init"} /\ "install" # "power" /\ Solo /\ StartedGood
    BY ProcsAre DEF Inv, TrialInv
  <2> QED
    BY <2>1, OthersAreStarted
<1>2. GoodIn(slot, mounted) /\ mounted.fw \in Parts /\ mounted.media \in Parts
  BY <1>1 DEF TrialInv, StartedGood
<1>3. e.fw = mounted.fw /\ e.media = mounted.media
  BY DEF KeptIn
<1>4. e.fw \in {"5", "7"} /\ e.media \in {"3", "6"}
  BY <1>2, <1>3 DEF Parts
<1>5. GoodIn(slot', mounted)
  <2>1. mounted.fw \notin Targets(e, t) /\ mounted.media \notin Targets(e, t)
    <3>1. e.fw \notin Targets(e, t) /\ e.media \notin Targets(e, t)
      BY <1>4 DEF Targets, SwapFw, SwapMedia
    <3> QED
      BY <1>3, <3>1
  <2>2. \A i \in Parts : i \notin Targets(e, t) => slot'[i] = slot[i]
    OBVIOUS
  <2> QED
    BY <1>2, <2>1, <2>2 DEF GoodIn
<1>6. \A d \in Datas : d # Torn => KeptIn(mounted, d)
  BY <1>1 DEF TrialInv, Settled
<1>7. CopiesSafe'
  BY <1>5, <1>6, KeptIsSafe DEF CopiesSafe, Datas
<1>8. w'["init"] = w["init"] /\ w'["power"] = w["power"]
  BY ProcsAre
<1>9. BootSafe' /\ Mounted' /\ StartedGood'
  BY <1>1, <1>2, <1>5, <1>8 DEF TrialInv, BootSafe, Booting, Mounted, StartedGood, Writing
<1>10. WritersKeep'
  BY DEF TrialInv, WritersKeep, Writing
<1>11. Settled' /\ Known'
  BY <1>6, <1>8 DEF TrialInv, Settled, Known, Booting, Datas
<1> QED
  BY <1>7, <1>9, <1>10, <1>11 DEF TrialInv

LEMMA InstallKeeps == Inv /\ TrialInv /\ Install => TrialInv'
<1> SUFFICES ASSUME Inv, TrialInv, Install PROVE TrialInv'
  OBVIOUS
<1>a. ScriptsTyped /\ "install" \in Procs \ {"init"}
  BY DEF Inv, TypeInv, Procs
<1>1. ASSUME NEW t, Preinst(t) PROVE TrialInv'
  <2> DEFINE e == ReadEnv(cache, Default)
             s == [pc |-> "flash", next |-> t, env |-> e, blank |-> FALSE]
  <2>1. /\ w["install"].pc = "preinst" /\ w' = [w EXCEPT !["install"] = s]
        /\ slot' = [i \in Parts |-> IF i \in Targets(e, t) THEN "torn" ELSE slot[i]]
        /\ UNCHANGED <<cache, disk, mounted, up, started>>
    BY <1>1 DEF Preinst, files
  <2>2. w["install"].pc \notin Writing \cup {"idle"}
    BY <2>1 DEF Writing
  <2>3. e \in Full /\ KeptIn(mounted, e)
    BY <1>a, <2>1, <2>2, ScriptReads, ReadIsKept
  <2>4. s.pc = "flash" /\ s.env = e
    OBVIOUS
  <2> HIDE DEF s, e
  <2>5. w'["install"] = s /\ \A p \in Procs \ {"install"} : w'[p] = w[p]
    BY <1>a, <2>1 DEF ScriptsTyped
  <2>6. e.fw \in {"", "5", "7"} /\ e.media \in {"", "3", "6"}
    BY <2>3 DEF Full
  <2> QED
    BY <2>1, <2>3, <2>4, <2>5, <2>6, SlotsMove
<1>2. ASSUME NEW q, Flash(q) PROVE TrialInv'
  <2> DEFINE e == w["install"].env
             t == w["install"].next
  <2>1. /\ w["install"].pc = "flash" /\ Goto("install", "postinst")
        /\ slot' = [i \in Parts |-> IF i \in Targets(e, t) THEN q ELSE slot[i]]
        /\ UNCHANGED <<cache, disk, mounted, up, started>>
    BY <1>2 DEF Flash, files
  <2>2. w'["install"].pc = "postinst" /\ \A p \in Procs \ {"install"} : w'[p] = w[p]
    BY <1>a, <2>1, GotoSets
  <2>3. KeptIn(mounted, e)
    BY <1>a, <2>1 DEF TrialInv, WritersKeep
  <2>4. e.fw \in {"", "5", "7"} /\ e.media \in {"", "3", "6"}
    <3>1. w["install"] \in Script
      BY <1>a DEF ScriptsTyped
    <3> QED
      BY <3>1 DEF Script, Vars
  <2> HIDE DEF e, t
  <2> QED
    BY <2>1, <2>2, <2>3, <2>4, SlotsMove
<1>3. CASE FlashFails
  <2>1. Goto("install", "end") /\ UNCHANGED <<cache, disk, slot, mounted, up, started>>
    BY <1>3 DEF FlashFails, files, device
  <2> QED
    BY <1>a, <2>1, OtherGoes
<1>4. CASE Postinst
  BY <1>4, PostinstKeeps
<1> QED
  BY <1>1, <1>2, <1>3, <1>4 DEF Install

\* What a script writes becomes one of the datas, and at the end all of them.
LEMMA WrittenDatas ==
  ASSUME Inv, NEW p \in Procs, WriteEnv(p)
  PROVE  /\ w[p].env \in Full
         /\ Datas' \subseteq Datas \cup {w[p].env, Torn}
         /\ w[p].pc = "sec sync" => Datas' = {w[p].env} /\ ReadEnv(cache', Default) = w[p].env
<1>a. FilesTyped /\ ScriptsTyped /\ Filled /\ Quiet /\ FilesWhole /\ Solo
  BY DEF Inv, TypeInv, CopyInv
<1>b. w[p].pc \in PriPcs \cup SecPcs /\ ~w[p].blank
  BY DEF WriteEnv, Writing, PriPcs, SecPcs, Inv, ScriptInv, Own
<1>c. w[p].env \in Full /\ Lines(w[p]) = w[p].env
  BY <1>a, <1>b DEF ScriptsTyped, Lines, Writing, PriPcs, SecPcs
<1>d. disk' \in {disk, cache} /\ (w[p].pc \in Syncs => disk' = cache)
  BY DEF WriteEnv, Syncs
<1>1. /\ cache'.pri.data \in {cache.pri.data, w[p].env, Torn}
      /\ cache'.sec.data \in {cache.sec.data, w[p].env, Torn}
  BY <1>a, <1>b, <1>c, WriteEnvCopies DEF PriPcs, SecPcs, Syncs
<1>2. Datas' \subseteq Datas \cup {w[p].env, Torn}
  BY <1>1, <1>d DEF Datas
<1>3. ASSUME w[p].pc = "sec sync"
      PROVE  Datas' = {w[p].env} /\ ReadEnv(cache', Default) = w[p].env
  <2>1. cache' = cache /\ disk' = cache
    BY <1>3, <1>a, <1>d, WriteEnvCopies DEF Syncs
  <2>2. cache.pri.data = w[p].env /\ cache.sec.data = w[p].env
    BY <1>3, <1>a DEF Filled, SecPcs
  <2>3. InSec /\ ~InPri
    BY <1>3, <1>a, OneCopy DEF InSec, SecPcs
  <2>4. Written(cache.pri)
    BY <1>a, <2>3 DEF Quiet
  <2>5. ReadEnv(cache, Default) = w[p].env
    BY <2>2, <2>4 DEF ReadEnv, Written, Content
  <2> QED
    BY <2>1, <2>2, <2>5 DEF Datas
<1> QED
  BY <1>c, <1>2, <1>3

LEMMA WriteKeepsTrial ==
  ASSUME Inv, TrialInv, NEW p \in Procs, WriteEnv(p)
  PROVE  TrialInv'
<1>a. ScriptsTyped /\ Solo
  BY DEF Inv, TypeInv
<1>b. /\ w[p].pc \in Writing
      /\ w'[p].pc = (IF w[p].pc = "sec sync" THEN w[p].next ELSE NextPc(w[p].pc))
      /\ w'[p].env = w[p].env /\ w'[p].next = w[p].next
      /\ \A q \in Procs \ {p} : w'[q] = w[q]
  BY <1>a, WriteEnvSets
<1>c. w'[p].pc \in Writing \/ (w[p].pc = "sec sync" /\ w'[p].pc = w[p].next)
  BY <1>b DEF NextPc, Writing
<1>d. UNCHANGED <<slot, mounted, up, started>>
  BY DEF WriteEnv, device
<1>e. w[p].pc # "idle"
  BY <1>b DEF Writing
<1>f. /\ Datas' \subseteq Datas \cup {w[p].env, Torn}
      /\ w[p].pc = "sec sync" => Datas' = {w[p].env} /\ ReadEnv(cache', Default) = w[p].env
  BY WrittenDatas
<1>1. CASE p = "init"
  <2>1. ~started /\ up # "on" /\ \A q \in Procs \ {"init"} : w[q].pc = "idle"
    BY <1>a, <1>1, <1>e, BootIsNotStarted
  <2>2. SafeIn(slot, w["init"].env)
    BY <1>1, <1>b DEF TrialInv, BootSafe
  <2>3. w["init"].next \in {"pending", "mount"}
    BY <1>1, <1>b DEF Inv, ScriptInv, Own
  <2>4. CopiesSafe'
    BY <1>1, <1>d, <1>f, <2>2 DEF TrialInv, CopiesSafe
  <2>5. BootSafe'
    BY <1>1, <1>b, <1>d, <2>2 DEF BootSafe
  <2>6. WritersKeep' /\ Settled' /\ StartedGood'
    BY <1>1, <1>b, <1>d, <2>1 DEF WritersKeep, Settled, StartedGood, Writing
  <2>7. Known'
    <3>1. Booting' => w[p].pc = "sec sync"
      BY <1>1, <1>c DEF Booting, Writing
    <3> QED
      BY <1>1, <1>b, <1>d, <1>f, <2>1, <3>1 DEF Known
  <2>8. Mounted'
    BY <1>1, <1>c, <1>d, <2>1, <2>3 DEF Mounted, Writing
  <2> QED
    BY <2>4, <2>5, <2>6, <2>7, <2>8 DEF TrialInv
<1>2. CASE p # "init"
  <2>1. /\ started /\ up = "on" /\ w["init"].pc = "idle"
        /\ p # "power" => w["power"].pc = "idle"
    BY <1>a, <1>2, <1>e, OthersAreStarted DEF TrialInv
  <2>2. KeptIn(mounted, w[p].env) /\ w[p].next = "end"
    BY <1>2, <1>b DEF TrialInv, WritersKeep
  <2>3. GoodIn(slot, mounted)
    BY <2>1 DEF TrialInv, StartedGood
  <2>4. SafeIn(slot, w[p].env)
    BY <2>2, <2>3, KeptIsSafe
  <2>5. CopiesSafe'
    BY <1>d, <1>f, <2>4 DEF TrialInv, CopiesSafe
  <2>6. w'["init"] = w["init"] /\ (p # "power" => w'["power"] = w["power"])
    BY <1>2, <1>b, ProcsAre
  <2>7. BootSafe' /\ Mounted' /\ StartedGood'
    BY <1>d, <2>1, <2>6 DEF TrialInv, BootSafe, Booting, Mounted, StartedGood, Writing
  <2>8. WritersKeep'
    <3>1. ASSUME NEW q \in Procs \ {"init"}
          PROVE  /\ w'[q].pc \in Writing \cup {"flash"} => KeptIn(mounted, w'[q].env)
                 /\ w'[q].pc \in Writing => w'[q].next = "end"
      BY <1>b, <2>2 DEF TrialInv, WritersKeep
    <3> QED
      BY <1>d, <3>1 DEF WritersKeep
  <2>9. Settled'
    <3>1. CASE p = "power"
      <4>1. CASE w[p].pc = "sec sync"
        BY <1>d, <1>f, <2>2, <4>1 DEF Settled
      <4>2. CASE w[p].pc # "sec sync"
        BY <1>c, <3>1, <4>2 DEF Settled, Writing
      <4> QED
        BY <4>1, <4>2
    <3>2. CASE p # "power"
      BY <1>d, <1>f, <2>1, <2>2, <2>6, <3>2 DEF TrialInv, Settled
    <3> QED
      BY <3>1, <3>2
  <2>10. Known'
    <3>1. w'["power"].pc # "read"
      BY <1>c, <2>1, <2>2, <2>6 DEF Writing
    <3> QED
      BY <1>d, <2>1, <2>6, <3>1 DEF Known, Booting
  <2> QED
    BY <2>5, <2>7, <2>8, <2>9, <2>10 DEF TrialInv
<1> QED
  BY <1>1, <1>2

\* The device is off, and its files hold nothing new.
LEMMA StopKeepsTrial ==
  ASSUME TrialInv, Stop, slot' = slot, Datas' \subseteq Datas \cup {Torn}
  PROVE  TrialInv'
<1>1. ~started' /\ up' = "off" /\ \A p \in Procs : w'[p] = Idle
  BY DEF Stop
<1>2. \A p \in Procs : w'[p].pc = "idle"
  BY <1>1 DEF Idle
<1>3. CopiesSafe'
  BY DEF TrialInv, CopiesSafe
<1>4. BootSafe' /\ WritersKeep' /\ Settled' /\ Known' /\ Mounted' /\ StartedGood'
  BY <1>1, <1>2, ProcsAre DEF BootSafe, Booting, WritersKeep, Settled, Known, Mounted, StartedGood, Writing
<1> QED
  BY <1>3, <1>4 DEF TrialInv

LEMMA PowerKeepsTrial ==
  ASSUME Inv, TrialInv, Watchdog \/ PowerOff \/ PowerCut
  PROVE  TrialInv'
<1>1. CASE Watchdog \/ PowerOff
  <2>1. CASE UNCHANGED <<up, w, started, disk, dirty>> /\ Watchdog
    <3>1. UNCHANGED <<cache, disk, w, slot, mounted, up, started>>
      BY <2>1 DEF Watchdog
    <3> QED
      BY <3>1 DEF TrialInv, CopiesSafe, Datas, BootSafe, Booting, WritersKeep, Settled, Known, Mounted, StartedGood
  <2>2. CASE Stop /\ disk' = cache /\ UNCHANGED <<cache, slot>>
    BY <2>2, StopKeepsTrial DEF Datas
  <2> QED
    BY <1>1, <2>1, <2>2 DEF Watchdog, PowerOff
<1>2. CASE PowerCut
  <2>1. Stop /\ disk' = cache' /\ slot' = slot
    BY <1>2 DEF PowerCut
  <2>2. cache' \in [pri : [data : Left(cache.pri.data, disk.pri.data, {"pri", "pri fill"}),
                           sum  : Left(cache.pri.sum, disk.pri.sum, {"pri sum"})],
                    sec : [data : Left(cache.sec.data, disk.sec.data, {"sec", "sec fill"}),
                           sum  : Left(cache.sec.sum, disk.sec.sum, {"sec sum"})]]
    BY <1>2 DEF PowerCut
  <2>3. /\ cache'.pri.data \in Left(cache.pri.data, disk.pri.data, {"pri", "pri fill"})
        /\ cache'.sec.data \in Left(cache.sec.data, disk.sec.data, {"sec", "sec fill"})
    BY <2>2
  <2>4. Datas' \subseteq Datas \cup {Torn}
    BY <2>1, <2>3 DEF Datas, Left
  <2> QED
    BY <2>1, <2>4, StopKeepsTrial
<1> QED
  BY <1>1, <1>2

-----------------------------------------------------------------------------

LEMMA GoodMeans == \A m : Good(m) <=> m.fw \in Parts /\ m.media \in Parts /\ GoodIn(slot, m)
BY DEF Good, GoodIn

LEMMA TrialInit == Init /\ Provisioned => TrialInv
<1> SUFFICES ASSUME Init, Provisioned PROVE TrialInv
  OBVIOUS
<1>1. Datas = {Default} /\ ~started /\ up = "off" /\ \A p \in Procs : w[p] = Idle
  BY DEF Init, Datas
<1>2. \A p \in Procs : w[p].pc = "idle"
  BY <1>1 DEF Idle
<1>3. slot["5"] = "good" /\ slot["3"] = "good"
  BY DEF Init, Parts
<1>4. SafeIn(slot, Default)
  BY <1>3 DEF SafeIn, GoodIn, Default
<1> QED
  BY <1>1, <1>2, <1>4, ProcsAre DEF TrialInv, CopiesSafe, BootSafe, Booting, WritersKeep, Settled, Known,
                                    Mounted, StartedGood, Writing

LEMMA TrialStep == Inv /\ TrialInv /\ [Next]_vars => TrialInv'
<1> SUFFICES ASSUME Inv, TrialInv, [Next]_vars PROVE TrialInv'
  OBVIOUS
<1>1. CASE InitScript
  BY <1>1, BootKeeps
<1>2. CASE Install
  BY <1>2, InstallKeeps
<1>3. ASSUME NEW p \in Procs, WriteEnv(p) PROVE TrialInv'
  BY <1>3, WriteKeepsTrial
<1>4. ASSUME NEW p \in Procs, ScriptEnds(p) PROVE TrialInv'
  <2>1. w[p].pc = "end" /\ Goto(p, "idle") /\ UNCHANGED <<cache, disk, slot, mounted, up, started>>
    BY <1>4 DEF ScriptEnds, files
  <2>2. CASE p = "init"
    <3>1. w'["init"].pc = "idle" /\ w'["init"].env = w["init"].env /\ \A q \in Procs \ {"init"} : w'[q] = w[q]
      BY <2>1, <2>2, GotoSets DEF Inv, TypeInv
    <3>2. up # "on" /\ ~started
      BY <2>1, <2>2, BootIsNotStarted DEF Inv
    <3>3. w'["power"] = w["power"]
      BY <3>1, ProcsAre
    <3> QED
      BY <2>1, <3>1, <3>2, <3>3 DEF TrialInv, CopiesSafe, Datas, BootSafe, Booting, WritersKeep, Settled, Known,
                                    Mounted, StartedGood, Writing
  <2>3. CASE p # "init"
    BY <2>1, <2>3, OtherGoes
  <2> QED
    BY <2>2, <2>3
<1>5. ASSUME NEW p \in {"power", "rollback"}, SuccessfulBoot(p) PROVE TrialInv'
  BY <1>5, SuccessfulBootKeeps
<1>6. CASE RunCanquick \/ UNCHANGED vars
  <2>1. UNCHANGED <<cache, disk, w, slot, mounted, up, started>>
    BY <1>6 DEF RunCanquick, files, vars
  <2> QED
    BY <2>1 DEF TrialInv, CopiesSafe, Datas, BootSafe, Booting, WritersKeep, Settled, Known, Mounted, StartedGood
<1>7. CASE StartCanupdate
  <2>1. /\ up = "on" /\ Good(mounted) /\ ~started /\ started' /\ Goto("power", "read")
        /\ UNCHANGED <<cache, disk, slot, mounted, up>>
    BY <1>7 DEF StartCanupdate, files
  <2>2. w'["power"].pc = "read" /\ \A q \in Procs \ {"power"} : w'[q] = w[q]
    BY <2>1, GotoSets, ProcsAre DEF Inv, TypeInv
  <2>3. w'["init"] = w["init"]
    BY <2>2, ProcsAre
  <2>4. CopiesSafe' /\ BootSafe' /\ Mounted' /\ Known' /\ Settled'
    BY <2>1, <2>2, <2>3 DEF TrialInv, CopiesSafe, Datas, BootSafe, Booting, Known, Settled, Mounted
  <2>5. WritersKeep'
    BY <2>1, <2>2 DEF TrialInv, WritersKeep, Writing
  <2>6. StartedGood'
    BY <2>1, GoodMeans DEF StartedGood
  <2> QED
    BY <2>4, <2>5, <2>6 DEF TrialInv
<1>8. CASE ForceRollBack
  BY <1>8, OtherGoes, ProcsAre DEF ForceRollBack, files
<1>9. CASE UpdateContent
  BY <1>9, OtherGoes, ProcsAre DEF UpdateContent, files
<1>10. CASE PowerUp
  <2>1. /\ up = "off" /\ up' = "boot" /\ Goto("init", "read") /\ UNCHANGED <<cache, disk, slot, mounted, started>>
    BY <1>10 DEF PowerUp, files
  <2>2. w'["init"].pc = "read" /\ \A q \in Procs \ {"init"} : w'[q] = w[q]
    BY <2>1, GotoSets, ProcsAre DEF Inv, TypeInv
  <2>3. ~started /\ \A q \in Procs \ {"init"} : w[q].pc = "idle"
    BY <2>1, BootIsNotStarted DEF Inv
  <2> QED
    BY <2>1, <2>2, <2>3 DEF TrialInv, CopiesSafe, Datas, BootSafe, Booting, WritersKeep, Settled, Known,
                            Mounted, StartedGood, Writing
<1>11. CASE Watchdog \/ PowerOff \/ PowerCut
  BY <1>11, PowerKeepsTrial
<1> QED
  BY <1>1, <1>2, <1>3, <1>4, <1>5, <1>6, <1>7, <1>8, <1>9, <1>10, <1>11 DEF Next

LEMMA TrialHolds ==
  ASSUME Provisioned, PowerOnFirst, MaxCuts <= 1
  PROVE  Spec => [](Inv /\ TrialInv)
<1>1. Init => Inv /\ TrialInv
  BY InvInit, TrialInit
<1>2. Inv /\ TrialInv /\ [Next]_vars => (Inv /\ TrialInv)'
  BY InvStep, TrialStep
<1> QED
  BY <1>1, <1>2, PTL DEF Spec

\* Whatever is installed, and wherever a script is stopped, partitions that are not good are mounted
\* only while the environment says that they are on trial.
THEOREM BadOnlyOnTrial ==
  ASSUME Provisioned, PowerOnFirst, MaxCuts <= 1
  PROVE  Spec => []OnTrialUnlessGood
<1>1. ASSUME Inv, TrialInv PROVE OnTrialUnlessGood
  <2> SUFFICES ASSUME up = "on", ~Good(mounted) PROVE ReadEnv(cache, Default).rollback # "none"
    BY DEF OnTrialUnlessGood
  <2> DEFINE e == ReadEnv(cache, Default)
  <2>1. ~started
    BY <1>1, GoodMeans DEF TrialInv, StartedGood
  <2>2. \A p \in Procs : w[p].pc = "idle"
    BY <1>1, <2>1, ProcsAre DEF Inv, Solo
  <2>3. e \in Datas /\ e \in Full /\ e # Torn
    BY <1>1, <2>2, ReadIsData DEF Writing
  <2>4. SafeIn(slot, e)
    BY <1>1, <2>3 DEF TrialInv, CopiesSafe
  <2>5. e.fw = mounted.fw /\ e.media = mounted.media
    BY <1>1, <2>1 DEF TrialInv, Known, Mounted
  <2>6. e.fw \in Parts /\ e.media \in Parts
    BY <2>3 DEF Full, Parts
  <2>7. ~GoodIn(slot, e)
    BY <2>5, <2>6, GoodMeans DEF GoodIn
  <2> HIDE DEF e
  <2> QED
    BY <2>4, <2>7 DEF SafeIn, e
<1> QED
  BY <1>1, TrialHolds, PTL

\* Whatever is installed, and wherever a script is stopped, an update on trial goes back to
\* partitions that are good.
THEOREM TrialLeadsBack ==
  ASSUME Provisioned, PowerOnFirst, MaxCuts <= 1
  PROVE  Spec => []GoesBackToGood
<1>1. ASSUME Inv, TrialInv PROVE GoesBackToGood
  <2> SUFFICES ASSUME OnDisk.rollback # "none" PROVE Good(GoBack(OnDisk))
    BY DEF GoesBackToGood
  <2>1. OnDisk \in Datas /\ OnDisk \in Full /\ OnDisk # Torn
    BY <1>1, OnDiskIsData
  <2>2. SafeIn(slot, OnDisk)
    BY <1>1, <2>1 DEF TrialInv, CopiesSafe
  <2>3. GoBack(OnDisk) \in Full
    BY <2>1, GoBackTyped
  <2>4. GoBack(OnDisk).fw \in Parts /\ GoBack(OnDisk).media \in Parts
    BY <2>3 DEF Full, Parts
  <2>5. GoodIn(slot, GoBack(OnDisk))
    BY <2>2 DEF SafeIn
  <2> QED
    BY <2>4, <2>5, GoodMeans
<1> QED
  BY <1>1, TrialHolds, PTL

-----------------------------------------------------------------------------
(* An update that was installed is not forgotten *)

\* Nothing but a cut makes the primary copy say something else than the other.
Alike == cuts = 0 /\ ~InSec /\ Matches(disk.pri) => disk.pri.data = disk.sec.data

\* What of the primary copy is still as it is on the disk.
Unsynced == \A p \in Procs :
  /\ w[p].pc = "pri" => cache.pri = disk.pri
  /\ w[p].pc = "pri fill" => cache.pri.data = Torn
  /\ w[p].pc \in {"pri fill", "pri sum"} => cache.pri.sum = disk.pri.sum

\* Variables b do not forget the update that variables a know of.
Keeps(a, b) == a.update # "none" /\ b.update = "none" => b.rollback = a.update

\* What is written over the disk keeps its update; PowerOn's script finds none.
WritersPass == /\ \A p \in Procs \ {"rollback"} : w[p].pc \in PriPcs => Keeps(OnDisk, w[p].env)
               /\ w["power"].pc \in PriPcs => OnDisk.update = "none"

\* A boot that mounts has completed the update.
BootCompletes ==
  w["init"].pc \in {"mount", "reset"} \/ up = "on" \/ (w["init"].pc \in Writing /\ w["init"].next = "mount")
    => w["init"].env.update = "none"

PendInv == Alike /\ Unsynced /\ WritersPass /\ BootCompletes

\* While nothing is written, what is read is what is on the disk.
LEMMA ReadsDisk ==
  ASSUME Inv, \A p \in Procs : w[p].pc \notin Writing
  PROVE  cache.pri = disk.pri /\ cache.sec = disk.sec /\ ReadEnv(cache, Default) = OnDisk
<1>1. ~InPri /\ ~InSec
  BY DEF InPri, InSec, PriPcs, SecPcs, Writing
<1>2. cache.pri = disk.pri /\ cache.sec = disk.sec
  BY <1>1 DEF Inv, CopyInv, Quiet
<1> QED
  BY <1>2 DEF ReadEnv, OnDisk

LEMMA OneReads ==
  ASSUME Inv, NEW p \in Procs, w[p].pc \notin Writing \cup {"idle"}
  PROVE  ReadEnv(cache, Default) = OnDisk
<1>1. ASSUME NEW q \in Procs PROVE w[q].pc \notin Writing
  BY OneScript DEF Inv, Writing
<1> QED
  BY <1>1, ReadsDisk

LEMMA PcsAre == Writing = PriPcs \cup SecPcs /\ PriPcs \cap SecPcs = {} /\ "idle" \notin Writing
BY DEF Writing, PriPcs, SecPcs

\* A script only moves, or begins to write what keeps the update.
LEMMA CalmPends ==
  ASSUME Inv, PendInv, Calm, Solo', BootCompletes',
         \A p \in Procs : w[p].pc \notin Writing /\ w'[p].pc = "pri" =>
           /\ p # "rollback" => Keeps(OnDisk, w'[p].env)
           /\ p = "power" => OnDisk.update = "none"
  PROVE  PendInv'
<1>a. UNCHANGED <<cache, disk, cuts>> /\ OnDisk' = OnDisk
  BY DEF Calm, files, OnDisk, ReadEnv, Matches, Content
<1>b. ASSUME NEW p \in Procs
      PROVE  \/ w'[p].pc = w[p].pc /\ w'[p].env = w[p].env
             \/ w[p].pc \notin Writing /\ w'[p].pc \notin Writing \ {"pri"}
  BY DEF Calm
<1>1. Alike'
  <2>1. InSec => InSec'
    BY <1>b DEF InSec, SecPcs, Writing
  <2> QED
    BY <1>a, <2>1 DEF PendInv, Alike, Matches
<1>2. Unsynced'
  <2>1. ASSUME NEW p \in Procs, w[p].pc \notin Writing, w'[p].pc = "pri"
        PROVE  cache.pri = disk.pri
    <3>1. ASSUME NEW q \in Procs \ {p} PROVE w'[q].pc = "idle"
      <4>1. w'[p].pc # "idle"
        BY <2>1
      <4> QED
        BY <4>1, ProcsAre DEF Solo
    <3>2. ~InPri
      BY <1>b, <2>1, <3>1 DEF InPri, PriPcs, Writing
    <3> QED
      BY <3>2 DEF Inv, CopyInv, Quiet
  <2>2. ASSUME NEW p \in Procs
        PROVE  /\ w'[p].pc = "pri" => cache.pri = disk.pri
               /\ w'[p].pc = "pri fill" => cache.pri.data = Torn
               /\ w'[p].pc \in {"pri fill", "pri sum"} => cache.pri.sum = disk.pri.sum
    BY <1>b, <2>1 DEF PendInv, Unsynced, Writing
  <2> QED
    BY <1>a, <2>2 DEF Unsynced
<1>3. WritersPass'
  <2>1. ASSUME NEW p \in Procs, w'[p].pc \in PriPcs
        PROVE  /\ p # "rollback" => Keeps(OnDisk, w'[p].env)
               /\ p = "power" => OnDisk.update = "none"
    BY <1>b, <2>1 DEF PendInv, WritersPass, Writing, PriPcs
  <2> QED
    BY <1>a, <2>1, ProcsAre DEF WritersPass, Keeps
<1> QED
  BY <1>1, <1>2, <1>3 DEF PendInv

\* Nobody begins to write.
LEMMA IdlePends ==
  ASSUME Inv, PendInv, Calm, Solo', BootCompletes', NEW p \in Procs, w'[p].pc # "pri",
         \A q \in Procs \ {p} : w'[q] = w[q]
  PROVE  PendInv'
<1>1. \A q \in Procs : w[q].pc \notin Writing /\ w'[q].pc = "pri" => FALSE
  BY DEF Writing
<1> QED
  BY <1>1, CalmPends

LEMMA BootPends ==
  ASSUME Inv, TrialInv, PendInv, Solo', InitScript
  PROVE  PendInv'
<1>a. ScriptsTyped /\ FilesTyped /\ FilesWhole /\ Solo /\ "init" \in Procs
  BY DEF Inv, TypeInv, CopyInv, Procs
<1>b. Calm
  BY InitScriptMoves
<1>c. w["init"].env \in Full
  BY <1>a DEF Inv, ScriptInv, Own, ScriptsTyped
<1>d. BootCompletes
  BY DEF PendInv
\* The boot goes on at l with its variables.
<1>g. ASSUME NEW l \in {"pending", "mount", "reset", "idle"}, Goto("init", l),
             l # "pending" => w["init"].env.update = "none", up' \in {up, "on"},
             up' = "on" => l = "idle"
      PROVE  PendInv'
  <2>1. /\ w'["init"].pc = l /\ w'["init"].env = w["init"].env
        /\ \A p \in Procs \ {"init"} : w'[p] = w[p]
    BY <1>a, <1>g, GotoSets
  <2>2. BootCompletes'
    BY <1>g, <2>1 DEF BootCompletes, Writing
  <2> QED
    BY <1>a, <1>b, <2>1, <2>2, IdlePends
\* It writes e.
<1>w. ASSUME NEW l \in {"pending", "mount"}, NEW e, WriteThen("init", e, l), up' = up, Booting,
             Keeps(w["init"].env, e), l = "mount" => e.update = "none"
      PROVE  PendInv'
  <2>1. /\ w'["init"].pc = "pri" /\ w'["init"].env = e /\ w'["init"].next = l
        /\ \A p \in Procs \ {"init"} : w'[p] = w[p]
    BY <1>a, <1>w, WriteThenSets
  <2>2. up # "on"
    BY <1>a, <1>w DEF Solo, Booting
  <2>3. BootCompletes'
    BY <1>w, <2>1, <2>2 DEF BootCompletes
  <2>4. w["init"].pc \notin Writing \cup {"idle"}
    BY <1>w DEF Booting, Writing
  <2>5. w["init"].env = OnDisk
    BY <1>a, <1>w, <2>4, OneReads DEF TrialInv, Known
  <2>6. \A p \in Procs : w[p].pc \notin Writing /\ w'[p].pc = "pri" =>
           /\ p # "rollback" => Keeps(OnDisk, w'[p].env)
           /\ p = "power" => OnDisk.update = "none"
    <3>1. ASSUME NEW p \in Procs \ {"init"}, w[p].pc \notin Writing, w'[p].pc = "pri" PROVE FALSE
      BY <2>1, <3>1 DEF Writing
    <3> QED
      BY <1>w, <2>1, <2>5, <3>1
  <2> QED
    BY <1>b, <2>3, <2>6, CalmPends
<1>1. CASE InitRead
  <2>1. ReadThen("init", "trial") /\ up' = up /\ w["init"].pc = "read"
    <3>1. cache.pri.data # Missing
      BY <1>a, MissingIsNoFile DEF FilesWhole, Whole
    <3> QED
      BY <1>1, <3>1 DEF InitRead, device
  <2>2. /\ w'["init"].pc = "trial" /\ \A p \in Procs \ {"init"} : w'[p] = w[p]
    BY <1>a, <2>1, ReadThenSets
  <2>3. up # "on"
    BY <1>a, <2>1 DEF Solo
  <2>4. BootCompletes'
    BY <2>1, <2>2, <2>3 DEF BootCompletes, Writing
  <2> QED
    BY <1>a, <1>b, <2>2, <2>4, IdlePends
<1>2. CASE InitTrial
  <2>1. Booting /\ up' = up /\ up # "on"
    BY <1>2, <1>a DEF InitTrial, Booting, Solo
  <2>2. CASE w["init"].env.rollback = "none"
    BY <1>2, <1>g, <2>1, <2>2 DEF InitTrial
  <2>3. CASE w["init"].env.rollback # "none"
    <3>1. w["init"].env.update = "none"
      BY <2>1, <2>3 DEF TrialInv, BootSafe, SafeIn
    <3>2. Keeps(w["init"].env, Attempt(w["init"].env))
      BY <3>1 DEF Keeps
    <3>3. WriteThen("init", Attempt(w["init"].env), "pending")
      BY <1>2, <2>3 DEF InitTrial
    <3> QED
      BY <1>w, <2>1, <3>2, <3>3
  <2> QED
    BY <2>2, <2>3
<1>3. CASE InitPending
  <2> DEFINE e == w["init"].env
             f == Swap(e, e.update)
  <2>1. Booting /\ up' = up /\ up # "on"
    BY <1>3, <1>a DEF InitPending, Booting, Solo
  <2>2. CASE e.update = "none"
    BY <1>3, <1>g, <2>1, <2>2 DEF InitPending
  <2>3. CASE e.update # "none"
    <3>1. f \in Full /\ Complete(e) = [f EXCEPT !.rollback = e.update, !.update = "none", !.count = 0]
      BY <1>c, SwapTyped DEF Complete
    <3> HIDE DEF f
    <3>2. Complete(e).rollback = e.update /\ Complete(e).update = "none"
      BY <3>1 DEF Full
    <3>3. WriteThen("init", Complete(e), "mount")
      BY <1>3, <2>3 DEF InitPending
    <3>4. Keeps(e, Complete(e))
      BY <3>2 DEF Keeps
    <3> QED
      BY <1>w, <2>1, <3>2, <3>3, <3>4
  <2> QED
    BY <2>2, <2>3
<1>4. CASE InitMount
  <2>1. Goto("init", "reset") /\ w["init"].env.update = "none" /\ up' = up /\ up # "on"
    BY <1>4, <1>a, <1>d DEF InitMount, BootCompletes, Solo
  <2> QED
    BY <1>g, <2>1
<1>5. CASE InitReset
  <2>1. Goto("init", "idle") /\ w["init"].env.update = "none" /\ up' = "on"
    BY <1>5, <1>d DEF InitReset, BootCompletes
  <2> QED
    BY <1>g, <2>1
<1> QED
  BY <1>1, <1>2, <1>3, <1>4, <1>5 DEF InitScript

\* Another script moves, and the boot does not.
LEMMA OtherPends ==
  ASSUME Inv, PendInv, Calm, Solo', UNCHANGED up, NEW p \in Procs \ {"init"},
         \A q \in Procs \ {p} : w'[q] = w[q],
         w[p].pc \notin Writing /\ w'[p].pc = "pri" =>
           /\ p # "rollback" => Keeps(OnDisk, w'[p].env)
           /\ p = "power" => OnDisk.update = "none"
  PROVE  PendInv'
<1>1. w'["init"] = w["init"]
  BY ProcsAre
<1>2. BootCompletes'
  BY <1>1 DEF PendInv, BootCompletes
<1>3. ASSUME NEW q \in Procs \ {p}, w[q].pc \notin Writing, w'[q].pc = "pri" PROVE FALSE
  BY <1>3 DEF Writing
<1> QED
  BY <1>2, <1>3, CalmPends

LEMMA SuccessfulBootPends ==
  ASSUME Inv, TrialInv, PendInv, Solo', NEW p \in {"power", "rollback"}, SuccessfulBoot(p)
  PROVE  PendInv'
<1>1. /\ w[p].pc = "read" /\ p \in Procs \ {"init"} /\ UNCHANGED up
      /\ \A q \in Procs \ {p} : w'[q] = w[q]
  BY ProcsAre DEF SuccessfulBoot, device, Inv, TypeInv, ScriptsTyped
<1>2. Calm
  BY CommandsMove
<1>3. OnDisk.update = "none" \/ p = "rollback"
  <2> SUFFICES ASSUME p = "power" PROVE OnDisk.update = "none"
    OBVIOUS
  <2>1. w[p].pc \notin Writing \cup {"idle"}
    BY <1>1 DEF Writing
  <2>2. started /\ up = "on"
    BY <1>1, <2>1, OthersAreStarted DEF Inv, TrialInv
  <2>3. ReadEnv(cache, Default) = w["init"].env
    BY <1>1, <2>2 DEF TrialInv, Known
  <2>4. ReadEnv(cache, Default) = OnDisk
    BY <1>1, <2>1, OneReads
  <2>5. w["init"].env.update = "none"
    BY <2>2 DEF PendInv, BootCompletes
  <2> QED
    BY <2>3, <2>4, <2>5
<1>4. \A e : p # "rollback" => Keeps(OnDisk, e)
  BY <1>3 DEF Keeps
<1> QED
  BY <1>1, <1>2, <1>3, <1>4, OtherPends

LEMMA PostinstPends ==
  ASSUME Inv, PendInv, Solo', Postinst
  PROVE  PendInv'
<1> DEFINE e == ReadEnv(cache, Default)
           t == w["install"].next
           f == [e EXCEPT !.update = t, !.rollback = "none"]
           s == [pc |-> "pri", next |-> "end", blank |-> e = Blank, env |-> f]
<1>1. /\ w["install"].pc = "postinst" /\ w' = [w EXCEPT !["install"] = s] /\ UNCHANGED up
  BY DEF Postinst, device
<1>2. t \in Kinds
  BY <1>1 DEF Inv, TypeInv, ScriptsTyped
<1>3. e \in Full
  BY ReadsFull DEF Inv, TypeInv, CopyInv
<1> HIDE DEF e, t
<1>4. f.update # "none"
  BY <1>2, <1>3 DEF Full, Kinds
<1> HIDE DEF f
<1>5. s.env.update # "none"
  BY <1>4
<1> HIDE DEF s
<1>6. "install" \in Procs \ {"init"} /\ w'["install"] = s /\ \A q \in Procs \ {"install"} : w'[q] = w[q]
  BY <1>1, ProcsAre DEF Inv, TypeInv, ScriptsTyped
<1>7. Calm
  BY CommandsMove DEF Install
<1>8. Keeps(OnDisk, w'["install"].env)
  BY <1>5, <1>6 DEF Keeps
<1> QED
  BY <1>1, <1>6, <1>7, <1>8, OtherPends

\* A script is only started, or over, or goes on.
LEMMA GotoPends ==
  ASSUME Inv, PendInv, Calm, Solo', UNCHANGED up, NEW p \in Procs \ {"init"}, NEW l, l # "pri", Goto(p, l)
  PROVE  PendInv'
<1>1. w'[p].pc # "pri" /\ \A q \in Procs \ {p} : w'[q] = w[q]
  BY GotoSets DEF Inv, TypeInv
<1> QED
  BY <1>1, OtherPends

LEMMA CommandsPend ==
  ASSUME Inv, TrialInv, PendInv, Solo',
         \/ Install \/ (\E p \in Procs : ScriptEnds(p))
         \/ (\E p \in {"power", "rollback"} : SuccessfulBoot(p))
         \/ StartCanupdate \/ ForceRollBack \/ UpdateContent \/ PowerUp \/ RunCanquick
  PROVE  PendInv'
<1>a. Calm /\ ScriptsTyped /\ Solo
  BY CommandsMove DEF Inv, TypeInv
<1>1. CASE Install
  <2>1. ASSUME NEW t, Preinst(t) PROVE PendInv'
    <3> DEFINE s == [pc |-> "flash", next |-> t, env |-> ReadEnv(cache, Default), blank |-> FALSE]
    <3>1. w' = [w EXCEPT !["install"] = s] /\ UNCHANGED up
      BY <2>1 DEF Preinst
    <3>2. s.pc # "pri"
      OBVIOUS
    <3> HIDE DEF s
    <3>3. /\ "install" \in Procs \ {"init"} /\ w'["install"].pc # "pri"
          /\ \A q \in Procs \ {"install"} : w'[q] = w[q]
      BY <1>a, <3>1, <3>2, ProcsAre DEF ScriptsTyped
    <3> QED
      BY <1>a, <3>1, <3>3, OtherPends
  <2>2. ASSUME NEW q, Flash(q) PROVE PendInv'
    BY <1>a, <2>2, GotoPends, ProcsAre DEF Flash
  <2>3. CASE FlashFails
    BY <1>a, <2>3, GotoPends, ProcsAre DEF FlashFails, device
  <2>4. CASE Postinst
    BY <2>4, PostinstPends
  <2> QED
    BY <1>1, <2>1, <2>2, <2>3, <2>4 DEF Install
<1>2. ASSUME NEW p \in Procs, ScriptEnds(p) PROVE PendInv'
  <2>1. w[p].pc = "end" /\ Goto(p, "idle") /\ UNCHANGED up
    BY <1>2 DEF ScriptEnds
  <2>2. CASE p = "init"
    <3>1. w'["init"].pc = "idle" /\ \A q \in Procs \ {"init"} : w'[q] = w[q]
      BY <1>a, <2>1, <2>2, GotoSets
    <3>2. up # "on"
      BY <1>a, <2>1, <2>2 DEF Solo
    <3>3. BootCompletes'
      BY <2>1, <3>1, <3>2 DEF BootCompletes, Writing
    <3> QED
      BY <1>a, <2>2, <3>1, <3>3, IdlePends
  <2>3. CASE p # "init"
    BY <1>a, <2>1, <2>3, GotoPends
  <2> QED
    BY <2>2, <2>3
<1>3. CASE \E p \in {"power", "rollback"} : SuccessfulBoot(p)
  BY <1>3, SuccessfulBootPends
<1>4. CASE StartCanupdate
  BY <1>a, <1>4, GotoPends, ProcsAre DEF StartCanupdate
<1>5. CASE ForceRollBack
  BY <1>a, <1>5, GotoPends, ProcsAre DEF ForceRollBack
<1>6. CASE UpdateContent
  BY <1>a, <1>6, GotoPends, ProcsAre DEF UpdateContent
<1>7. CASE PowerUp
  <2>1. up' = "boot" /\ Goto("init", "read")
    BY <1>7 DEF PowerUp
  <2>2. "init" \in Procs /\ w'["init"].pc = "read" /\ \A q \in Procs \ {"init"} : w'[q] = w[q]
    BY <1>a, <2>1, GotoSets, ProcsAre
  <2>3. BootCompletes'
    BY <2>1, <2>2 DEF BootCompletes, Writing
  <2> QED
    BY <1>a, <2>2, <2>3, IdlePends
<1>8. CASE RunCanquick
  <2>1. UNCHANGED <<w, up>>
    BY <1>8 DEF RunCanquick
  <2>2. "power" \in Procs \ {"init"} /\ \A q \in Procs : w'[q] = w[q]
    BY <2>1, ProcsAre
  <2>3. w[ "power"].pc \notin Writing /\ w'["power"].pc = "pri" => FALSE
    BY <2>2 DEF Writing
  <2> QED
    BY <1>a, <2>1, <2>2, <2>3, OtherPends
<1> QED
  BY <1>1, <1>2, <1>3, <1>4, <1>5, <1>6, <1>7, <1>8

\* A step writes the files: the disk says what it said, or what the script writes.
LEMMA WritePends ==
  ASSUME Inv, PendInv, NEW p \in Procs, WriteEnv(p)
  PROVE  PendInv' /\ (OnDisk' = OnDisk \/ (w[p].pc \in PriPcs /\ OnDisk' = w[p].env))
<1>a. ScriptsTyped /\ FilesTyped /\ Solo /\ Filled /\ Quiet /\ FilesWhole
  BY DEF Inv, TypeInv, CopyInv
<1>b. /\ w[p].pc \in Writing
      /\ w'[p].pc = (IF w[p].pc = "sec sync" THEN w[p].next ELSE NextPc(w[p].pc))
      /\ w'[p].env = w[p].env /\ w'[p].next = w[p].next
      /\ \A q \in Procs \ {p} : w'[q] = w[q]
      /\ w[p].next \in After
  BY <1>a, WriteEnvSets
<1>c. \A q \in Procs \ {p} : w[q].pc = "idle" /\ w'[q].pc = "idle"
  <2>1. ASSUME NEW q \in Procs \ {p} PROVE w[q].pc = "idle"
    BY <1>a, <1>b, PcsAre, OneScript
  <2> QED
    BY <1>b, <2>1
<1>d. /\ InPri <=> w[p].pc \in PriPcs
      /\ InSec <=> w[p].pc \in SecPcs
      /\ w[p].pc \in {"pri sum", "pri sync"} \cup SecPcs => cache.pri.data = w[p].env
      /\ w[p].pc = "pri sync" => cache.pri.sum = cache.pri.data
      /\ w[p].pc \in {"sec sum", "sec sync"} => cache.sec.data = w[p].env
  BY <1>a, <1>c, OneWrites
<1>e. InSec' <=> w'[p].pc \in SecPcs
  BY <1>c DEF InSec, SecPcs
<1>f. /\ w[p].pc \in Syncs => disk' = cache
      /\ w[p].pc \notin Syncs => disk' = disk
      /\ w[p].pc # "sec sync" => cuts' = cuts
      /\ up' = up
  BY DEF WriteEnv, device
<1>g. w[p].env \in Full /\ w[p].env # Torn /\ w[p].env # Missing
  BY WrittenDatas, MissingIsNoFile
<1>h. /\ w[p].pc = "pri" => w'[p].pc = "pri fill"
      /\ w[p].pc = "pri fill" => w'[p].pc = "pri sum"
      /\ w[p].pc = "pri sum" => w'[p].pc = "pri sync"
      /\ w[p].pc = "pri sync" => w'[p].pc = "sec"
      /\ w[p].pc \in SecPcs \ {"sec sync"} => w'[p].pc \in SecPcs
      /\ w[p].pc = "sec sync" => w'[p].pc \in {"read", "pending", "mount", "end"}
  BY <1>b DEF NextPc, SecPcs, After
<1>1. OnDisk' = OnDisk \/ (w[p].pc = "pri sync" /\ OnDisk' = w[p].env)
  <2>1. CASE w[p].pc \notin Syncs
    BY <1>f, <2>1 DEF OnDisk, ReadEnv, Matches, Content
  <2>2. CASE w[p].pc = "pri sync"
    <3>1. disk'.pri.data = w[p].env /\ disk'.pri.sum = w[p].env
      BY <1>d, <1>f, <2>2 DEF Syncs
    <3> QED
      BY <1>g, <2>2, <3>1 DEF OnDisk, ReadEnv, Matches, Content
  <2>3. CASE w[p].pc = "sec sync"
    <3>1. InSec /\ ~InPri
      BY <1>d, <2>3 DEF SecPcs, PriPcs
    <3>2. disk'.pri = disk.pri /\ Written(disk.pri)
      BY <1>a, <1>f, <2>3, <3>1 DEF Quiet, Syncs
    <3> QED
      BY <3>2 DEF OnDisk, ReadEnv, Matches, Content, Written
  <2> QED
    BY <2>1, <2>2, <2>3 DEF Syncs
<1>2. Alike'
  <2>1. CASE w[p].pc = "sec sync"
    <3>1. disk' = cache /\ cache.pri.data = w[p].env /\ cache.sec.data = w[p].env
      BY <1>d, <1>f, <2>1 DEF Syncs, SecPcs
    <3> QED
      BY <3>1 DEF Alike
  <2>2. CASE w[p].pc \in (SecPcs \ {"sec sync"}) \cup {"pri sync"}
    <3>1. InSec'
      BY <1>e, <1>h, <2>2 DEF SecPcs
    <3> QED
      BY <3>1 DEF Alike
  <2>3. CASE w[p].pc \in PriPcs \ {"pri sync"}
    <3>1. ~InSec /\ disk' = disk /\ cuts' = cuts
      BY <1>d, <1>f, <2>3 DEF SecPcs, PriPcs, Syncs
    <3> QED
      BY <3>1 DEF PendInv, Alike, Matches
  <2> QED
    BY <1>b, <2>1, <2>2, <2>3, PcsAre
<1>3. Unsynced'
  <2>1. CASE w[p].pc \in {"pri", "pri fill"}
    <3>1. /\ cache'.pri.sum = cache.pri.sum /\ disk' = disk
          /\ w[p].pc = "pri" => cache'.pri.data = Torn
          /\ cache.pri.sum = disk.pri.sum
      BY <1>a, <1>f, <2>1, WriteEnvCopies DEF PendInv, Unsynced, Syncs
    <3> QED
      BY <1>c, <1>h, <2>1, <3>1 DEF Unsynced
  <2>2. CASE w[p].pc \notin {"pri", "pri fill"}
    <3>1. w'[p].pc \notin {"pri", "pri fill", "pri sum"}
      BY <1>b, <1>h, <2>2, PcsAre DEF PriPcs, SecPcs
    <3> QED
      BY <1>c, <3>1 DEF Unsynced
  <2> QED
    BY <2>1, <2>2
<1>4. WritersPass'
  <2>1. ASSUME w'[p].pc \in PriPcs PROVE w[p].pc \in PriPcs /\ OnDisk' = OnDisk
    BY <1>1, <1>b, <1>h, <2>1, PcsAre DEF PriPcs, SecPcs
  <2>2. \A q \in Procs \ {p} : w'[q].pc \notin PriPcs
    BY <1>c DEF PriPcs
  <2>3. "power" \in Procs
    BY ProcsAre
  <2> QED
    BY <1>b, <2>1, <2>2, <2>3 DEF PendInv, WritersPass, Keeps
<1>5. BootCompletes'
  <2>1. CASE p = "init"
    <3>1. up # "on"
      BY <1>a, <1>b, <2>1, PcsAre DEF Solo
    <3>2. w'[p].pc \in {"mount", "reset"} => w[p].pc = "sec sync" /\ w[p].next = "mount"
      BY <1>b, <1>h, PcsAre DEF PriPcs, SecPcs, After
    <3> QED
      BY <1>b, <1>f, <2>1, <3>1, <3>2 DEF PendInv, BootCompletes
  <2>2. CASE p # "init"
    <3>1. w'["init"] = w["init"]
      BY <1>b, <2>2, ProcsAre
    <3> QED
      BY <1>f, <3>1 DEF PendInv, BootCompletes
  <2> QED
    BY <2>1, <2>2
<1>6. "pri sync" \in PriPcs
  BY DEF PriPcs
<1> QED
  BY <1>1, <1>2, <1>3, <1>4, <1>5, <1>6 DEF PendInv

\* Everything has stopped: what is left to say is said of the copies.
LEMMA StopPends == ASSUME Stop, Alike' PROVE PendInv'
<1>1. up' = "off" /\ \A p \in Procs : w'[p] = Idle
  BY DEF Stop
<1>2. \A p \in Procs : w'[p].pc = "idle"
  BY <1>1 DEF Idle
<1>3. Unsynced' /\ WritersPass' /\ BootCompletes'
  BY <1>1, <1>2, ProcsAre DEF Unsynced, WritersPass, BootCompletes, PriPcs, Writing
<1> QED
  BY <1>3 DEF PendInv

\* Nothing is written: the stop finds the files as they are on the disk.
LEMMA QuietPends ==
  ASSUME Inv, PendInv, Stop, disk' = cache, cuts' = cuts, \A p \in Procs : w[p].pc \notin Writing
  PROVE  PendInv' /\ OnDisk' = OnDisk
<1>1. disk'.pri = disk.pri /\ disk'.sec = disk.sec
  BY ReadsDisk
<1>2. OnDisk' = OnDisk
  BY <1>1 DEF OnDisk, ReadEnv, Matches, Content
<1>3. ~InSec
  BY DEF InSec, SecPcs, Writing
<1>4. Alike'
  BY <1>1, <1>3 DEF PendInv, Alike, Matches
<1> QED
  BY <1>2, <1>4, StopPends

\* The watchdog stops no script but PowerOn's, and that one before it has written a good copy.
LEMMA WatchdogPends ==
  ASSUME Inv, TrialInv, PendInv, Watchdog, ReadEnv(cache, w["init"].env).rollback # "none"
  PROVE  PendInv' /\ (OnDisk' = OnDisk \/ w["power"].pc \in PriPcs)
<1> DEFINE e == ReadEnv(cache, w["init"].env)
<1>a. Solo /\ ScriptInv /\ Quiet /\ Filled /\ FilesWhole
  BY DEF Inv, CopyInv
<1>b. /\ Stop /\ disk' = cache /\ cuts' = cuts /\ up = "on" /\ w["init"].pc = "idle"
  BY <1>a DEF Watchdog, Solo
<1>1. CASE \A p \in Procs : w[p].pc \notin Writing
  BY <1>b, <1>1, QuietPends
<1>2. ASSUME NEW p \in Procs, w[p].pc \in Writing
      PROVE  PendInv' /\ w["power"].pc \in PriPcs
  <2>1. p # "init" /\ w[p].env.rollback = "none"
    <3>1. p # "init"
      BY <1>b, <1>2, PcsAre
    <3> QED
      BY <1>a, <1>2, <3>1 DEF ScriptInv, Own
  <2>2. ASSUME cache.pri.data = w[p].env, Matches(cache.pri) PROVE FALSE
    <3>1. Written(cache.pri)
      BY <1>a, <2>2, GoodIsWritten DEF FilesWhole
    <3>2. e = w[p].env
      BY <2>2, <3>1 DEF ReadEnv, Content, Written
    <3> HIDE DEF e
    <3>3. e.rollback # "none"
      BY DEF e
    <3> QED
      BY <2>1, <3>2, <3>3
  <2>3. w[p].pc \notin SecPcs
    <3> SUFFICES ASSUME w[p].pc \in SecPcs PROVE FALSE
      OBVIOUS
    <3>1. InSec /\ ~InPri
      BY <1>a, OneCopy DEF InSec
    <3>2. Matches(cache.pri) /\ cache.pri.data = w[p].env
      BY <1>a, <3>1 DEF Quiet, Filled, Written, Matches
    <3> QED
      BY <2>2, <3>2
  <2>4. w[p].pc \in PriPcs /\ ~InSec /\ cache.sec = disk.sec /\ (cuts = 0 => Written(disk.sec))
    <3>1. w[p].pc \in PriPcs
      BY <1>2, <2>3, PcsAre
    <3>2. ~InSec
      BY <1>a, <3>1, OneCopy DEF InPri
    <3> QED
      BY <1>a, <3>1, <3>2 DEF Quiet
  <2>5. Matches(cache.pri) => cache.pri = disk.pri
    <3>1. w[p].pc \in {"pri sum", "pri sync"} => ~Matches(cache.pri)
      BY <1>a, <2>2 DEF Filled
    <3>2. w[p].pc = "pri fill" => ~Matches(cache.pri)
      BY DEF PendInv, Unsynced, Matches
    <3>3. w[p].pc = "pri" => cache.pri = disk.pri
      BY DEF PendInv, Unsynced
    <3> QED
      BY <2>4, <3>1, <3>2, <3>3 DEF PriPcs
  <2>6. Alike'
    BY <1>b, <2>4, <2>5 DEF PendInv, Alike, Matches
  <2>7. Written(cache.pri) \/ Written(cache.sec)
    <3>1. CASE Matches(cache.pri) \/ Matches(cache.sec)
      BY <1>a, <3>1, GoodIsWritten DEF FilesWhole
    <3>2. CASE ~Matches(cache.pri) /\ ~Matches(cache.sec)
      <4>1. w["init"].env.rollback # "none"
        BY <3>2 DEF ReadEnv
      <4>2. cuts = 0
        BY <1>a, <1>b, <4>1 DEF ScriptInv, TrialWritten
      <4> QED
        BY <2>4, <4>2
    <3> QED
      BY <3>1, <3>2
  <2>8. e \in Datas /\ e # Torn
    BY <1>a, <2>7, WrittenIsRead DEF FilesWhole, Datas
  <2>9. p = "power"
    <3> SUFFICES ASSUME p # "power" PROVE FALSE
      OBVIOUS
    <3>1. started /\ w["power"].pc = "idle"
      BY <1>a, <1>2, <2>1, PcsAre, OthersAreStarted DEF TrialInv
    <3>2. KeptIn(mounted, e)
      BY <2>8, <3>1 DEF TrialInv, Settled
    <3> HIDE DEF e
    <3>3. e.rollback # "none"
      BY DEF e
    <3> QED
      BY <3>2, <3>3 DEF KeptIn
  <2> QED
    BY <1>b, <2>4, <2>6, <2>9, StopPends
<1> QED
  BY <1>1, <1>2

\* A cut leaves the disk with what it said, or with what the script writes.
LEMMA CutPends ==
  ASSUME Inv, PendInv, MaxCuts <= 1, PowerCut
  PROVE  PendInv' /\ (OnDisk' = OnDisk \/ \E p \in Procs : w[p].pc \in PriPcs /\ OnDisk' = w[p].env)
<1>a. Solo /\ Quiet /\ Filled /\ FilesWhole /\ cuts \in 0 .. MaxCuts
  BY DEF Inv, CopyInv, TypeInv, DeviceTyped
<1>b. Stop /\ disk' = cache' /\ cuts = 0 /\ cuts' = 1
  <2>1. Stop /\ disk' = cache' /\ cuts < MaxCuts /\ cuts' = cuts + 1
    BY DEF PowerCut
  <2>2. cuts = 0
    BY <1>a, <2>1, BoundsAssumption
  <2> QED
    BY <2>1, <2>2
<1>c. /\ disk'.pri.data \in Left(cache.pri.data, disk.pri.data, {"pri", "pri fill"})
      /\ disk'.pri.sum \in Left(cache.pri.sum, disk.pri.sum, {"pri sum"})
      /\ disk'.sec.data \in Left(cache.sec.data, disk.sec.data, {"sec", "sec fill"})
      /\ disk'.sec.sum \in Left(cache.sec.sum, disk.sec.sum, {"sec sum"})
  BY <1>b DEF PowerCut
<1>1. PendInv'
  BY <1>b, StopPends DEF Alike
<1>2. CASE ~InPri
  <2>1. cache.pri = disk.pri /\ dirty \subseteq SecPcs
    BY <1>a, <1>2 DEF Quiet
  <2>2. disk'.pri.data = disk.pri.data /\ disk'.pri.sum = disk.pri.sum
    BY <1>c, <2>1 DEF Left, SecPcs
  <2>3. CASE InSec
    <3>1. Written(disk.pri)
      BY <1>a, <2>3 DEF Quiet
    <3> QED
      BY <1>1, <2>2, <3>1 DEF OnDisk, ReadEnv, Matches, Content, Written
  <2>4. CASE ~InSec
    <3>1. cache.sec = disk.sec /\ dirty = {}
      BY <1>a, <2>1, <2>4 DEF Quiet, PriPcs, SecPcs
    <3>2. disk'.sec.data = disk.sec.data /\ disk'.sec.sum = disk.sec.sum
      BY <1>c, <3>1 DEF Left
    <3> QED
      BY <1>1, <2>2, <3>2 DEF OnDisk, ReadEnv, Matches, Content
  <2> QED
    BY <2>3, <2>4
<1>3. ASSUME NEW p \in Procs, w[p].pc \in PriPcs
      PROVE  OnDisk' = OnDisk \/ OnDisk' = w[p].env
  <2>1. ~InSec
    BY <1>a, <1>3, OneCopy DEF InPri
  <2>2. cache.sec = disk.sec /\ dirty \subseteq PriPcs /\ Written(disk.sec)
    BY <1>a, <1>b, <2>1 DEF Quiet
  <2>3. disk'.sec.data = disk.sec.data /\ disk'.sec.sum = disk.sec.sum
    BY <1>c, <2>2 DEF Left, PriPcs
  <2>4. disk'.pri.data \in {cache.pri.data, disk.pri.data, Torn}
        /\ disk'.pri.sum \in {cache.pri.sum, disk.pri.sum, Torn}
    BY <1>c DEF Left
  <2>5. /\ cache.pri.data \in {disk.pri.data, Torn, w[p].env}
        /\ cache.pri.sum \in {disk.pri.sum, w[p].env}
    BY <1>a, <1>3 DEF PendInv, Unsynced, Filled, PriPcs
  <2>6. w[p].env \in Full
    BY <1>3 DEF Inv, TypeInv, ScriptsTyped, ScriptInv, Own, PriPcs, Writing
  <2>7. w[p].env # Missing /\ disk.pri.data # Missing /\ disk.sec.data # Missing
    BY <1>a, <2>6, MissingIsNoFile DEF FilesWhole, Whole
  <2>8. OnDisk = disk.sec.data
    BY <1>b, <2>1, <2>2, <2>7 DEF PendInv, Alike, OnDisk, ReadEnv, Content, Written
  <2>9. CASE ~Matches(disk'.pri)
    <3>1. OnDisk' = disk'.sec.data
      BY <2>2, <2>3, <2>7, <2>9 DEF OnDisk, ReadEnv, Content, Written, Matches
    <3> QED
      BY <2>3, <2>8, <3>1
  <2>10. CASE Matches(disk'.pri)
    <3>1. disk'.pri.data = w[p].env \/ (disk'.pri.data = disk.pri.data /\ Matches(disk.pri))
      BY <2>4, <2>5, <2>10 DEF Matches
    <3>2. disk'.pri.data # Missing
      BY <2>7, <3>1
    <3>3. OnDisk' = disk'.pri.data
      BY <2>10, <3>2 DEF OnDisk, ReadEnv, Content, Matches
    <3>4. Matches(disk.pri) => OnDisk = disk.pri.data
      BY <2>7 DEF OnDisk, ReadEnv, Content
    <3> QED
      BY <3>1, <3>3, <3>4
  <2> QED
    BY <2>9, <2>10
<1> QED
  BY <1>1, <1>2, <1>3 DEF InPri

\* What a step makes of the disk.
DiskMoves ==
  OnDisk' = OnDisk \/ \E p \in Procs : w[p].pc \in PriPcs /\ (OnDisk' = w[p].env \/ p = "power")

LEMMA PendInit == Init /\ Provisioned => PendInv
<1> SUFFICES ASSUME Init, Provisioned PROVE PendInv
  OBVIOUS
<1>1. /\ disk.pri = [data |-> Default, sum |-> Default] /\ disk.sec = disk.pri /\ up = "off"
      /\ \A p \in Procs : w[p] = Idle
  BY DEF Init
<1>2. \A p \in Procs : w[p].pc = "idle"
  BY <1>1 DEF Idle
<1> QED
  BY <1>1, <1>2, ProcsAre DEF PendInv, Alike, Unsynced, WritersPass, BootCompletes, PriPcs, Writing

LEMMA PendStep ==
  ASSUME Inv, TrialInv, PendInv, Solo', MaxCuts <= 1, [Next]_vars
  PROVE  PendInv' /\ DiskMoves
<1>1. ASSUME UNCHANGED disk PROVE OnDisk' = OnDisk
  BY <1>1 DEF OnDisk, ReadEnv, Matches, Content
<1>2. CASE InitScript
  <2>1. UNCHANGED disk
    BY <1>2, InitScriptMoves DEF Calm, files
  <2> QED
    BY <1>1, <1>2, <2>1, BootPends DEF DiskMoves
<1>3. CASE \/ Install \/ (\E p \in Procs : ScriptEnds(p))
           \/ (\E p \in {"power", "rollback"} : SuccessfulBoot(p))
           \/ StartCanupdate \/ ForceRollBack \/ UpdateContent \/ PowerUp \/ RunCanquick
  <2>1. UNCHANGED disk
    BY <1>3, CommandsMove DEF Calm, files
  <2> QED
    BY <1>1, <1>3, <2>1, CommandsPend DEF DiskMoves
<1>4. ASSUME NEW p \in Procs, WriteEnv(p) PROVE PendInv' /\ DiskMoves
  BY <1>4, WritePends DEF DiskMoves
<1>5. CASE Watchdog
  <2>1. CASE ReadEnv(cache, w["init"].env).rollback = "none"
    <3>1. UNCHANGED <<cache, disk, cuts, w, up>>
      BY <1>5, <2>1 DEF Watchdog
    <3>2. OnDisk' = OnDisk
      BY <1>1, <3>1
    <3>3. PendInv'
      BY <3>1, <3>2 DEF PendInv, Alike, Unsynced, WritersPass, BootCompletes, InSec, Matches
    <3> QED
      BY <3>2, <3>3 DEF DiskMoves
  <2>2. CASE ReadEnv(cache, w["init"].env).rollback # "none"
    BY <1>5, <2>2, WatchdogPends, ProcsAre DEF DiskMoves
  <2> QED
    BY <2>1, <2>2
<1>6. CASE PowerOff
  <2>1. Stop /\ disk' = cache /\ cuts' = cuts /\ \A p \in Procs : w[p].pc \notin Writing
    BY <1>6, PcsAre DEF PowerOff
  <2> QED
    BY <2>1, QuietPends DEF DiskMoves
<1>7. CASE PowerCut
  BY <1>7, CutPends DEF DiskMoves
<1>8. CASE UNCHANGED vars
  <2>1. UNCHANGED <<cache, disk, cuts, w, up>>
    BY <1>8 DEF vars
  <2>2. OnDisk' = OnDisk
    BY <1>1, <2>1
  <2>3. PendInv'
    BY <2>1, <2>2 DEF PendInv, Alike, Unsynced, WritersPass, BootCompletes, InSec, Matches
  <2> QED
    BY <2>2, <2>3 DEF DiskMoves
<1> QED
  BY <1>2, <1>3, <1>4, <1>5, <1>6, <1>7, <1>8 DEF Next

\* On a device that has its environment files, and whose PowerOn is left to end, an update that was
\* installed goes on trial or is rolled back by force, wherever a script is stopped, if no second
\* cut comes before the environment was written to its end.
THEOREM UpdateIsNotForgotten ==
  ASSUME Provisioned, PowerOnFirst, MaxCuts <= 1
  PROVE  Spec => PendingIsKept
<1> DEFINE Forgets == OnDisk.update # "none" /\ OnDisk'.update = "none"
           Gone == Forgets => OnDisk'.rollback = OnDisk.update \/ w["rollback"].pc \in Writing
<1>1. Init => PendInv
  BY PendInit
<1>2. Inv /\ TrialInv /\ PendInv /\ Inv' /\ [Next]_vars => PendInv' /\ DiskMoves
  BY PendStep DEF Inv
<1>3. ASSUME PendInv, DiskMoves PROVE Gone
  <2> SUFFICES ASSUME Forgets, w["rollback"].pc \notin Writing PROVE OnDisk'.rollback = OnDisk.update
    OBVIOUS
  <2>1. OnDisk' # OnDisk
    OBVIOUS
  <2>2. PICK p \in Procs : w[p].pc \in PriPcs /\ (OnDisk' = w[p].env \/ p = "power")
    BY <1>3, <2>1 DEF DiskMoves
  <2>3. p # "power"
    BY <1>3, <2>2 DEF PendInv, WritersPass
  <2>4. p # "rollback"
    BY <2>2, PcsAre
  <2>5. Keeps(OnDisk, OnDisk')
    BY <1>3, <2>2, <2>3, <2>4 DEF PendInv, WritersPass
  <2> QED
    BY <2>5 DEF Keeps
<1>4. PendInv /\ DiskMoves => [Gone]_vars
  BY <1>3
<1> HIDE DEF Gone
<1>5. Spec => [][Gone]_vars
  BY <1>1, <1>2, <1>4, TrialHolds, PTL DEF Spec
<1> QED
  BY <1>5 DEF PendingIsKept, Gone

=============================================================================
