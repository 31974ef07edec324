------------------------------ MODULE BootUpdate ------------------------------
(***************************************************************************)
(* The scripts that install an update and boot into it                     *)
(* (EW8yocto/.../canupdate/files/updater_*.sh, canupdatesvc and            *)
(* canquick/files/update.sh).  Firmware and media have two partitions      *)
(* each.  An environment file, kept twice with an MD5 sum each, says which *)
(* ones are mounted, whether an update waits for the next boot             *)
(* (update_status) and whether the running one is on trial                 *)
(* (rollback_status).  Power may fail within any script.                   *)
(*                                                                         *)
(* A script reads the files in one step (they are read whenever another    *)
(* has them half written) and writes them in eight.  What was written      *)
(* since the last sync is, after a power cut, there, not there, or torn.   *)
(***************************************************************************)
EXTENDS Naturals

CONSTANTS
  MaxCuts,       (* power cuts, within scripts, between two complete       *)
                 (* writes of the environment                              *)
  MaxInstalls,   (* updates installed                                      *)
  Types,         (* the types of updates: of "all", "media", "firmware"    *)
  Provisioned,   (* FALSE: the first boot, without environment files       *)
  PowerOnFirst,  (* no command for another script comes before that of     *)
                 (* PowerOn is over; nothing in the code makes it wait     *)
  Torn, Missing  (* a file cut short, no file                              *)

ASSUME BoundsAssumption == MaxCuts \in Nat /\ MaxInstalls \in Nat
ASSUME TypesAssumption  == Types \subseteq {"all", "media", "firmware"}
ASSUME FlagsAssumption  == Provisioned \in BOOLEAN /\ PowerOnFirst \in BOOLEAN

MaxAttempts == 2           \* MAX_FAILED_BOOT_ATTEMTS
Procs == {"init", "power", "rollback", "install"}
Parts == {"3", "5", "6", "7"}
Status == {"none", "all", "media", "firmware"}

\* The variables of a script; those read from an empty file are empty.
Default == [fw |-> "5", media |-> "3", count |-> 0, rollback |-> "none", update |-> "none"]
Blank   == [fw |-> "", media |-> "", count |-> 0, rollback |-> "", update |-> ""]
Envs == [fw : {"5", "7"}, media : {"3", "6"}, count : 0 .. MaxAttempts,
         rollback : Status, update : Status] \cup {Blank}

ASSUME FilesAssumption == Torn \notin Envs /\ Missing \notin Envs /\ Torn # Missing

VARIABLES
  cache,     \* the environment files as the scripts see them
  disk,      \* as they were at the last sync
  dirty,     \* the files written since, by the step that wrote them
  w,         \* the scripts: pc, where they go on after writing, and their variables
  slot,      \* what is on each partition
  mounted,   \* the partitions mounted as firmware and media
  up,        \* "off", "boot" or "on"
  watching,  \* watchdog_monitor still sleeps
  started,   \* canupdate was started
  state,     \* CANProcessor::m_state
  doReset,   \* do_reset_cache
  config,    \* the partitions whose software wrote config.dat, canquick's cache
  cuts,      \* power cuts since the environment was last written to its end
  installs

vars == <<cache, disk, dirty, w, slot, mounted, up, watching, started, state, doReset, config, cuts, installs>>
files == <<cache, disk, dirty>>
device == <<slot, mounted, up, watching, started, state, doReset, config, installs>>

-----------------------------------------------------------------------------
(* updater_environment.sh *)

SwapFw(i)    == IF i = "5" THEN "7" ELSE "5"
SwapMedia(i) == IF i = "3" THEN "6" ELSE "3"

\* The sum of a missing file is as empty as a missing sum.
Matches(c) == c.data = c.sum /\ c.data # Torn

Content(c) == IF c.data = Missing THEN Blank ELSE c.data

\* Fault: the second copy is not looked at.
ReadPrimaryOnly(f, shell) == IF Matches(f.pri) THEN Content(f.pri) ELSE shell

\* read_env_file; shell is what the variables are when neither copy is good.
ReadEnv(f, shell) ==
  IF Matches(f.pri) THEN Content(f.pri)
  ELSE IF Matches(f.sec) THEN Content(f.sec)
  ELSE shell

\* What script s writes: write_env_param changes lines that are there and adds none.
Lines(s) == IF s.blank THEN Blank ELSE s.env

\* Fault: the first sync is missing.
NextPcUnsynced(pc) ==
  CASE pc = "pri" -> "pri fill" [] pc = "pri fill" -> "pri sum" [] pc = "pri sum" -> "sec"
    [] pc = "sec" -> "sec fill" [] pc = "sec fill" -> "sec sum" [] pc = "sec sum" -> "sec sync"

NextPc(pc) ==
  CASE pc = "pri" -> "pri fill" [] pc = "pri fill" -> "pri sum" [] pc = "pri sum" -> "pri sync"
    [] pc = "pri sync" -> "sec"
    [] pc = "sec" -> "sec fill" [] pc = "sec fill" -> "sec sum" [] pc = "sec sum" -> "sec sync"

Writing == {"pri", "pri fill", "pri sum", "pri sync", "sec", "sec fill", "sec sum", "sec sync"}

Syncs == {"pri sync", "sec sync"}

\* write_env_file, a step of script p: cp empties the copy and fills it, echo writes
\* the sum, sync makes both last.  The bound on the cuts begins anew.
WriteEnv(p) ==
  LET pc == w[p].pc IN
  /\ pc \in Writing
  /\ cache' = CASE pc = "pri"      -> [cache EXCEPT !.pri.data = Torn]
                [] pc = "pri fill" -> [cache EXCEPT !.pri.data = Lines(w[p])]
                [] pc = "pri sum"  -> [cache EXCEPT !.pri.sum = cache.pri.data]
                [] pc = "sec"      -> [cache EXCEPT !.sec.data = Torn]
                [] pc = "sec fill" -> [cache EXCEPT !.sec.data = Lines(w[p])]
                [] pc = "sec sum"  -> [cache EXCEPT !.sec.sum = cache.sec.data]
                [] OTHER           -> cache
  /\ disk' = IF pc \in Syncs THEN cache ELSE disk
  /\ dirty' = IF pc \in Syncs THEN {} ELSE dirty \cup {pc}
  /\ w' = [w EXCEPT ![p].pc = IF pc = "sec sync" THEN w[p].next ELSE NextPc(pc)]
  /\ cuts' = IF pc = "sec sync" THEN 0 ELSE cuts
  /\ UNCHANGED device

\* Script p reads the environment and goes on at pc.
ReadThen(p, pc) ==
  LET e == ReadEnv(cache, Default)
  IN w' = [w EXCEPT ![p].pc = pc, ![p].env = e, ![p].blank = e = Blank]

\* Script p sets its variables to e, writes them and goes on at `next`.
WriteThen(p, e, next) ==
  w' = [w EXCEPT ![p].pc = "pri", ![p].env = e, ![p].next = next]

Goto(p, pc) == w' = [w EXCEPT ![p].pc = pc]

-----------------------------------------------------------------------------
(* updater_init.sh, at every boot *)

\* Exchanges the partitions that an update of type t is for.
Swap(e, t) ==
  CASE t = "all"   -> [e EXCEPT !.fw = SwapFw(@), !.media = SwapMedia(@)]
    [] t = "media" -> [e EXCEPT !.media = SwapMedia(@)]
    [] OTHER       -> [e EXCEPT !.fw = SwapFw(@)]

\* Fault: the new partitions are mounted without a trial.
CompleteUntried(e) == [Swap(e, e.update) EXCEPT !.update = "none", !.count = 0]

\* complete_previous_update
Complete(e) == [Swap(e, e.update) EXCEPT !.rollback = e.update, !.update = "none", !.count = 0]

\* Fault: only the firmware goes back.
GoBackFirmware(e) == [e EXCEPT !.fw = SwapFw(@), !.rollback = "none", !.count = 0]

\* perform_update_rollback
GoBack(e) == [Swap(e, e.rollback) EXCEPT !.rollback = "none", !.count = 0]

\* read_env_variables of the first script; without a primary copy the defaults are
\* written before they are read.
InitRead ==
  /\ w["init"].pc = "read"
  /\ IF cache.pri.data = Missing
     THEN w' = [w EXCEPT !["init"] =
                  [pc |-> "pri", next |-> "read", env |-> Default, blank |-> FALSE]]
     ELSE ReadThen("init", "trial")
  /\ UNCHANGED <<files, device, cuts>>

\* Fault: one attempt too many is counted.
AttemptMore(e) == IF e.count <= MaxAttempts THEN [e EXCEPT !.count = @ + 1] ELSE GoBack(e)

\* What a boot of an update on trial makes of the variables.
Attempt(e) == IF e.count < MaxAttempts THEN [e EXCEPT !.count = @ + 1] ELSE GoBack(e)

InitTrial ==
  LET e == w["init"].env IN
  /\ w["init"].pc = "trial"
  /\ IF e.rollback = "none" THEN Goto("init", "pending")
                            ELSE WriteThen("init", Attempt(e), "pending")
  /\ doReset' = (e.rollback # "none" /\ e.count >= MaxAttempts)
  /\ UNCHANGED <<files, slot, mounted, up, watching, started, state, config, cuts, installs>>

InitPending ==
  LET e == w["init"].env IN
  /\ w["init"].pc = "pending"
  /\ IF e.update = "none" THEN Goto("init", "mount")
                          ELSE WriteThen("init", Complete(e), "mount")
  /\ doReset' = (doReset \/ e.update # "none")
  /\ UNCHANGED <<files, slot, mounted, up, watching, started, state, config, cuts, installs>>

\* mount_partitions
InitMount ==
  /\ w["init"].pc = "mount"
  /\ mounted' = [fw |-> w["init"].env.fw, media |-> w["init"].env.media]
  /\ Goto("init", "reset")
  /\ UNCHANGED <<files, slot, up, watching, started, state, doReset, config, cuts, installs>>

\* reset_main_application_cache; then watchdog_monitor and start_canupdate sleep.
InitReset ==
  /\ w["init"].pc = "reset"
  /\ config' = IF doReset THEN Missing ELSE config
  /\ up' = "on" /\ watching' = TRUE
  /\ Goto("init", "idle")
  /\ UNCHANGED <<files, slot, mounted, started, state, doReset, cuts, installs>>

-----------------------------------------------------------------------------
(* The running device *)

Good(m) == m.fw \in Parts /\ m.media \in Parts /\ slot[m.fw] = "good" /\ slot[m.media] = "good"

\* canquick runs if its partitions are good, and leaves its cache.
RunCanquick ==
  /\ up = "on" /\ Good(mounted)
  /\ config' = mounted
  /\ UNCHANGED <<files, w, slot, mounted, up, watching, started, state, doReset, cuts, installs>>

\* start_canupdate, 20 seconds later; the engine's Launch runs PowerOn.
StartCanupdate ==
  /\ up = "on" /\ Good(mounted) /\ config = mounted /\ ~started
  /\ started' = TRUE /\ state' = "READY"
  /\ Goto("power", "read")
  /\ UNCHANGED <<files, slot, mounted, up, watching, doReset, config, cuts, installs>>

\* CANProcessor::ForceRollBack
ForceRollBack ==
  /\ up = "on" /\ started /\ state = "READY" /\ w["rollback"].pc = "idle"
  /\ PowerOnFirst => w["power"].pc = "idle"
  /\ state' = "ROLLINGBACK"
  /\ Goto("rollback", "read")
  /\ UNCHANGED <<files, slot, mounted, up, watching, started, doReset, config, cuts, installs>>

\* updater_successful_boot.sh, run by RunPowerOn and by RunRollback.
SuccessfulBoot(p) ==
  /\ w[p].pc = "read"
  /\ LET e == ReadEnv(cache, Default) IN
     w' = [w EXCEPT ![p] = [pc |-> "pri", next |-> "end", blank |-> e = Blank,
             env |-> [e EXCEPT !.count = 0, !.rollback = "none", !.update = "none"]]]
  /\ UNCHANGED <<files, device, cuts>>

\* CANProcessor::UpdateContent: RunUpdate runs updater_run.sh, which runs swupdate,
\* which runs update.sh before and after it writes the images.
UpdateContent ==
  /\ up = "on" /\ started /\ state = "READY" /\ w["install"].pc = "idle"
  /\ PowerOnFirst => w["power"].pc = "idle"
  /\ installs < MaxInstalls /\ installs' = installs + 1
  /\ state' = "UPDATING"
  /\ Goto("install", "preinst")
  /\ UNCHANGED <<files, slot, mounted, up, watching, started, doReset, config, cuts>>

\* Fault: the mounted partitions are written.
TargetsMounted(e, t) == (IF t = "media" THEN {} ELSE {e.fw})
                        \cup (IF t = "firmware" THEN {} ELSE {e.media})

\* The partitions an update of type t is written to, when e was read.
Targets(e, t) == (IF t = "media" THEN {} ELSE {SwapFw(e.fw)})
                 \cup (IF t = "firmware" THEN {} ELSE {SwapMedia(e.media)})

\* update.sh preinst; swupdate begins to write.
Preinst(t) ==
  /\ w["install"].pc = "preinst"
  /\ LET e == ReadEnv(cache, Default) IN
     /\ slot' = [i \in Parts |-> IF i \in Targets(e, t) THEN "torn" ELSE slot[i]]
     /\ w' = [w EXCEPT !["install"] = [pc |-> "flash", next |-> t, env |-> e, blank |-> FALSE]]
  /\ UNCHANGED <<files, mounted, up, watching, started, state, doReset, config, cuts, installs>>

\* The images are written, and are good or not.
Flash(quality) ==
  LET i == w["install"] IN
  /\ i.pc = "flash"
  /\ slot' = [j \in Parts |-> IF j \in Targets(i.env, i.next) THEN quality ELSE slot[j]]
  /\ Goto("install", "postinst")
  /\ UNCHANGED <<files, mounted, up, watching, started, state, doReset, config, cuts, installs>>

\* swupdate fails: the status file says so, nothing else does.
FlashFails ==
  /\ w["install"].pc = "flash"
  /\ Goto("install", "end")
  /\ UNCHANGED <<files, device, cuts>>

\* update.sh postinst
Postinst ==
  /\ w["install"].pc = "postinst"
  /\ LET e == ReadEnv(cache, Default) IN
     w' = [w EXCEPT !["install"] = [pc |-> "pri", next |-> "end", blank |-> e = Blank,
             env |-> [e EXCEPT !.update = w["install"].next, !.rollback = "none"]]]
  /\ UNCHANGED <<files, device, cuts>>

\* A script is over; its thread sets m_state, whoever set it before.
ScriptEnds(p) ==
  /\ w[p].pc = "end"
  /\ state' = "READY"
  /\ Goto(p, "idle")
  /\ UNCHANGED <<files, slot, mounted, up, watching, started, doReset, config, cuts, installs>>

-----------------------------------------------------------------------------
(* Power *)

Idle == [pc |-> "idle", next |-> "idle", env |-> Default, blank |-> FALSE]

Stop ==
  /\ up' = "off" /\ w' = [p \in Procs |-> Idle]
  /\ watching' = FALSE /\ started' = FALSE

PowerUp ==
  /\ up = "off" /\ up' = "boot"
  /\ Goto("init", "read")
  /\ UNCHANGED <<files, slot, mounted, watching, started, state, doReset, config, cuts, installs>>

\* watchdog_monitor, 30 seconds after the boot and so after start_canupdate; its
\* variables are those of the boot.  The scripts that run are killed.
Watchdog ==
  /\ up = "on" /\ watching /\ (started \/ ~Good(mounted))
  /\ IF ReadEnv(cache, w["init"].env).rollback = "none"
     THEN watching' = FALSE /\ UNCHANGED <<up, w, started, disk, dirty>>
     ELSE Stop /\ disk' = cache /\ dirty' = {}
  /\ UNCHANGED <<cache, slot, mounted, state, doReset, config, cuts, installs>>

PowerOff ==
  /\ up = "on" /\ \A p \in Procs : w[p].pc = "idle"
  /\ Stop /\ disk' = cache /\ dirty' = {}
  /\ UNCHANGED <<cache, slot, mounted, state, doReset, config, cuts, installs>>

\* What a cut may leave of a file, of which `steps` are the steps that write it.
Left(new, old, steps) == IF dirty \cap steps = {} THEN {new} ELSE {new, old, Torn}

PowerCut ==
  /\ up # "off" /\ \E p \in Procs : w[p].pc # "idle"
  /\ cuts < MaxCuts /\ cuts' = cuts + 1
  /\ cache' \in
       [pri : [data : Left(cache.pri.data, disk.pri.data, {"pri", "pri fill"}),
               sum  : Left(cache.pri.sum, disk.pri.sum, {"pri sum"})],
        sec : [data : Left(cache.sec.data, disk.sec.data, {"sec", "sec fill"}),
               sum  : Left(cache.sec.sum, disk.sec.sum, {"sec sum"})]]
  /\ disk' = cache' /\ dirty' = {}
  /\ Stop
  /\ UNCHANGED <<slot, mounted, state, doReset, config, installs>>

-----------------------------------------------------------------------------

Factory == [fw |-> "5", media |-> "3"]

Init ==
  LET c == [data |-> IF Provisioned THEN Default ELSE Missing,
            sum |-> IF Provisioned THEN Default ELSE Missing] IN
  /\ cache = [pri |-> c, sec |-> c] /\ disk = cache /\ dirty = {}
  /\ w = [p \in Procs |-> Idle]
  /\ slot = [i \in Parts |-> IF i \in {"5", "3"} THEN "good" ELSE "torn"]
  /\ mounted = Factory /\ up = "off" /\ watching = FALSE /\ started = FALSE
  /\ state = "READY" /\ doReset = FALSE /\ config = Missing
  /\ cuts = 0 /\ installs = 0

InitScript == InitRead \/ InitTrial \/ InitPending \/ InitMount \/ InitReset

Install == (\E t \in Types : Preinst(t)) \/ (\E q \in {"good", "bad"} : Flash(q))
           \/ FlashFails \/ Postinst

Next ==
  \/ InitScript \/ Install
  \/ \E p \in Procs : WriteEnv(p) \/ ScriptEnds(p)
  \/ \E p \in {"power", "rollback"} : SuccessfulBoot(p)
  \/ RunCanquick \/ StartCanupdate \/ ForceRollBack \/ UpdateContent
  \/ PowerUp \/ Watchdog \/ PowerOff \/ PowerCut

Spec == Init /\ [][Next]_vars

\* Scripts run to their end, the device is switched on again, the watchdog wakes.
FairSpec ==
  /\ Spec
  /\ WF_vars(InitScript) /\ \A p \in Procs : WF_vars(WriteEnv(p))
  /\ WF_vars(PowerUp) /\ WF_vars(Watchdog)

-----------------------------------------------------------------------------
(* Properties *)

Copies == [data : Envs \cup {Torn, Missing}, sum : Envs \cup {Torn, Missing}]

TypeOK ==
  /\ cache \in [pri : Copies, sec : Copies] /\ disk \in [pri : Copies, sec : Copies]
  /\ \A p \in Procs : w[p].env.count \in 0 .. MaxAttempts /\ w[p].blank \in BOOLEAN
  /\ dirty \subseteq Writing \ Syncs
  /\ slot \in [Parts -> {"good", "bad", "torn"}]
  /\ up \in {"off", "boot", "on"} /\ state \in {"READY", "UPDATING", "ROLLINGBACK"}
  /\ watching \in BOOLEAN /\ started \in BOOLEAN /\ doReset \in BOOLEAN
  /\ cuts \in 0 .. MaxCuts /\ installs \in 0 .. MaxInstalls

\* The environment as the next boot will read it.
OnDisk == ReadEnv(disk, Default)

Written(c) == Matches(c) /\ c.data \notin {Missing, Blank}

\* Once there are environment files, one of the two copies is good on the disk,
\* wherever power failed: the mirroring of write_env_file (lines 100-108).  It takes
\* MaxCuts = 1: nothing repairs a bad copy until the next write, which begins with
\* the primary one, be it the only good one.
EnvSurvives == disk.pri.data = Missing \/ Written(disk.pri) \/ Written(disk.sec)

\* Partitions that are not good are never mounted but on trial, so that the device
\* comes back from them.
OnTrialUnlessGood ==
  up = "on" /\ ~Good(mounted) => ReadEnv(cache, Default).rollback # "none"

\* While an update is on trial, the partitions it would go back to are good.
GoesBackToGood ==
  LET e == OnDisk IN e.rollback # "none" => Good(GoBack(e))

\* An update that was installed is not forgotten: it goes on trial or is rolled back
\* by force (SuccessfulBoot clears update_status whoever runs it).
PendingIsKept ==
  [][OnDisk.update # "none" /\ OnDisk'.update = "none"
       => OnDisk'.rollback = OnDisk.update \/ w["rollback"].pc \in Writing]_vars

\* Whatever was installed, the device keeps coming back to a software that runs.
ComesBack == []<>(up = "on" /\ Good(mounted))

=============================================================================
