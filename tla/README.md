# EW8: a verification of the CAN firmware updater and of the warning display

This directory holds TLA+ models of the program in `src/`, the TLC configurations
that check them and proofs that TLAPS checks. Every definition was translated from
the source; `PROJECT.json` gives the lines each one stands for.

## 1. The system

EW8 is a driver-warning display on an AT91 board. Its own code is in three parts.

| part | directory | language | what it does |
|---|---|---|---|
| firmware updater | `src/canupdate` | C++ | receives an update image over CAN in chunks, survives power cuts, hands the image to scripts that install it |
| installer scripts | `src/EW8yocto/meta-mobileye-master/recipes-baby/canupdate/files` | shell | A/B partitions: run the update, boot the new half, fall back after failed boots |
| display | `src/canquick` | C++/QML | decodes CAN messages, keeps a tree of signal items with minimum and maximum display times, shows and hides them |

The rest of the repository is vendored or generated: `src/at91bootstrap` (boot
loader), kernel, U-Boot and recipe files under `src/EW8yocto`, `peglib.h`, the JSON
signal tables, assets.

### 1.1 Components of the updater

* **CANInterface** (`updatecommon/caninterface.cpp`). A receive thread reads frames
  from a socket and calls the receptor's `IncomingData`; a write retries up to
  `TOO_MANY_RETRIES` times. State: the socket, the thread.
* **CANProtocol** (`updatecommon/updatecanprotocol.cpp`). A logical packet is cut into
  frames of 8 bytes: a sequence number, and in frame 0 the length and a CRC-32. At most
  256 frames. Commands and acknowledgements carry no identifier of the request.
* **CANUpdateEngine** (device, `updateengine/updatecanengine.cpp`). Reassembles frames
  (`READY`, `TRANSPORT`; which frames arrived, how many, when the last one did),
  dispatches a complete packet to the processor and sends the acknowledgement. Runs on
  one thread, the *poll thread*.
* **CANProcessor** (device, `updatecanprocessor.cpp`). The state `READY`, `UPDATING` or
  `ROLLINGBACK` that guards most commands; starts detached threads that run the
  scripts *PowerOn*, *Update* and *Rollback* and set the state back at their end.
* **ControlFile** (device, `updatecontrolfile.cpp`). The chunk store: the image
  `update.swu`, two control files written in turn, two headers in memory, the writer
  thread, the version directories and their status files.
* **CANUpdateAPI** and **UploadFile** (uploader, `updateapi`). One command in flight,
  one slot for its acknowledgement, a timeout for each command; `UploadFile` drives the
  transfer: version, information, `GET_NUM_WR_CH`, then `DATA` for the chunk number of
  each answer, `CHECK_SIGN`, `USER_UPDATE`.
* **Installer scripts**. An environment file with two copies and their checksums, the
  partition indices, the number of failed boots, the update and rollback status; read
  and written by the boot script, the update script and the successful-boot script.

### 1.2 Components of the display

* **CanManager, CanRxMsg** (`canmanager.cpp`, `canrxmsg.cpp`). The thread that reads the
  bus runs a message's rules one by one and ends with `forceUpdate()`. Requests (volume,
  signs, ...) carry an identifier of two bytes that the vehicle repeats in its answer;
  one request is expected at a time.
* **MeDisconnectionReport** (`medisconnectionreport.cpp`). Two timers: no keep-alive for
  too long activates `ALERT_NOCOM`, no answer to a request activates `ALERT_REQFAIL`.
* **core::Timer** (`core/timer.h`). A thread that sleeps and runs a callback; `stop()`
  joins it.
* **SmartItem** (`smartitem.cpp`). An item is shown at least `minActiveTime` and at most
  `maxActiveTime` after its messages.
* **RootedTree** (`rootedtree.cpp`, `rootedtreenode.cpp`). Which items are seen: every
  node counts the activations beneath it, mutex groups let one child be active, layers
  cover one another.
* **MainProcess** (`mainprocess.cpp`). `process()` visits the tree when a change is
  flagged and data are complete, at most once in 30 ms, and tells the QML items.
* **AMJson...**: rules from a JSON table that turn message fields into actions on items.
* **Smoothers, BrightnessControl**: numeric filters and the brightness steps.

### 1.3 How the components interact

    uploader                          device
    UploadFile                        CANProcessor ---- script threads ---- installer scripts
       | calls                          | calls  ^                            | environment file
    CANUpdateAPI  --CAN frames-->  CANUpdateEngine                          boot
       ^  one ack slot, timeouts        | poll thread
       '------ acks -------------- ControlFile <--- m_PD, cond. variable ---> writer thread
                                        |                                      |
                                        '---- update.swu, update.swu.1, .2 ----'

    bus --> CanManager's thread --rules--> RootedTree <--alerts-- timer threads
              | requests, answers             | counts, flag          ^ start, stop
              '--> CanRxMsg <--timeout-- ... MainProcess::process() --'--> QML items (main thread)

### 1.4 What is hard here

1. Two threads share `ControlFile` with one mutex that protects no data, a status flag,
   a condition variable whose predicate is not tested, and a header the poll thread
   advances before the writer has written.
2. Power may fail at any step. What is resumed depends on two control files of three
   parts each, and on the image.
3. Packets carry neither a chunk number nor a request identifier. Both sides must agree
   on the position although frames and acknowledgements are lost, late or duplicated.
4. The state of `CANProcessor` is set by threads that do not know of each other.
5. The environment of the installer is read at boot after any interruption of its write.
6. Display timers fire on their own threads while messages activate and deactivate the
   same items; activation counts in the tree must balance.

### 1.5 What makes each component correct

| component | property |
|---|---|
| ControlFile | no chunk misplaced, none skipped; nothing resumed with a hole; recorded chunks survive a power cut; a verified image stays; uploads end |
| engine reassembly | a packet is delivered only if all its frames, and only its frames, arrived; a loss never blocks the next packet for good |
| CANUpdateAPI | an acknowledgement is attributed to the command it answers; every call returns |
| transfer as a whole | the image on the device is the one sent, whatever is lost |
| installer scripts | whatever is interrupted, one copy of the environment survives, bad partitions run on trial only, an installed update is not forgotten and the board comes back to software that runs |
| item tree, display process | every node counts the active items beneath it; no change is lost between four threads; what is visible comes to be shown, in order |
| connection and requests | the loss of the connection is noticed and withdrawn; no answer counts twice; every request ends |
| smart items | shown while active or within the minimum time, and never else; no timer ends the program |

## 2. The chunk store: `ControlFile.tla`, `ControlFile_proofs.tla`, `ControlFileKept_proofs.tla`

**State.** On disk: `image` (which chunk's content is at each place; `Hole`, `Torn`),
`imageExists`, `ctl` (two control files, each `last` + `sums` + `final`). In memory:
`header`, `currHeader`, `sums`, `finalSum`, `suffix` (empty when `noSuffix`) and `m_PD`
(`writtenStatus`, `PD`, `buffer`). `loaded` says that the header describes an upload, `resumed`
(`m_bootCode`) that it was read from a control file. `poll` and `writer` are the
program counters of the two threads, `chunk`, `wchunk`, `sha2` their locals; `asked` and
`verdict` are what the uploader was told.

**Actions.** The poll thread: `InitControlFile`/`WriteNewControlFile` (SET_INFO),
`GetNextChunk`, `WriteFile` with its wait `WaitTooLong`/`SignalAgain`, then `FillBuffer`,
`SignalWriter`, `MarkSuccessful`; `CheckChunkSHA2`. SET_VERSION of a version that exists reloads
header and sums: in one step when the writer waits (`CheckVersion`), else read by read
(`BeginReload`, `ClearHeaders`, `ReadControlFile`, `EndReload`) between the steps of the writer,
which then may store its chunk at the start of the file (`Place`), compute a wrong final sum, write
its control file over the image (`WriteOverImage`) or end the program (`DaemonEnds`). The writer thread, one action for each
step another thread or a power cut can separate: `AnnounceWritten`, `WaitForSignal`,
`TakeChunk`, `StoreChunk` or `StoreFails`, `RecordSum`, `HashControlFile`,
`WriteControlFile`, `CopyHeader`, `FlipHeader`, `FlipSuffix`. `BootStrap` is the
constructor with the recovery; `PowerCut` leaves of an unsynced write the old bytes, the
new ones or a mixture, part by part for a control file.

**What is abstracted.** A content is the number of the chunk it equals and its SHA-256 is
that number: two sums are equal when the contents are. A packet's data is the chunk the
uploader was last asked for; it carries no number, as in the code. Sizes, padding to 32
bytes and logging are left out.

**Rare events.** `Rare` names what the environment may do beyond ordinary scheduling:

| event | what happens |
|---|---|
| `reconnect` | the uploader starts over and the reload finds the writer waiting. Nothing in the code makes SET_VERSION wait; an uploader that gave up has been silent for nine seconds, and a new one asks twice before SET_VERSION |
| `overlap` | the reload comes while the writer is at work |
| `late` | a `DATA` packet that is not the answer to the device's last answer, as in `transfer_late`; it may come when no chunk is missing and is then number `m_chunks` |
| `resignal` | a write longer than half a second |
| `preempt` | the poll thread stopped between its signal and line 834 for longer than a synced write |
| `ioerror` | open, seek, write or read fails |
| `uninit` | `m_PD` is not zero at start |

With `Rare \subseteq {"reconnect"}` the code keeps its promises, proved in section 10. `overlap`,
`late`, `resignal`, `preempt` and `uninit`, each alone, let TLC violate `NoMisplacedChunk`,
`NoChunkSkipped`, `ResumeSafe`, `VerifiedImageStays`, `ReloadFindsFile` and `KeptNeverDrops` at 3
chunks with one fault (by hand); `ioerror` violates all but `NoMisplacedChunk` and
`VerifiedImageStays`, which hold (proved). These are defects of the code under conditions that
nothing in it excludes; `PROJECT.json` lists each as a hazard. What holds in spite of them is that
the poll thread, and with it every command, is never kept waiting for good (`WriteFileReturns`, run
`store_rare`). `faults` counts power cuts, failing calls and reloads under the writer together.
The directories of the versions are not modelled.

**Why it holds.** The poll thread may only fill the buffer when it saw `writtenStatus = 1`,
which the writer sets when it holds nothing; so at most one chunk is pending, it is the
one `Last` names or the next, and everything before is in the image with its sum recorded
after the write. Both copies of header and sums are then sound at every moment, and a
control file is rewritten only with sums of chunks that were synced before. One of the two
control files can be read at every moment of an upload, since each is rewritten only while the
other one is whole.

## 3. Packet reassembly: `Reassembly.tla`, `MCReassembly.tla`, `Reassembly_proofs.tla`

One receiver (`rx`: state, frames, count, number awaited, whether the timer is older than
`MAX_TIMEOUT`) and the packet on the bus (`kind`, `next`). `IncomingData` is the whole
handler for one frame; `Engine` chooses between the device's text (`CANUpdateEngine::
IncomingCommandData`) and the uploader's (`CANUpdateAPI::IncomingData`), which differ in four
places. `LoseFrame` is a frame the socket or the bus drops, `Silence` the timeout passing.

A frame is the kind of the packet it belongs to; packets of one kind are equal, frames of
two kinds differ, the CRC accepts the frames of one kind only. The bus neither reorders nor
duplicates. The four sizes of `MCReassembly` (1, 2, 2 and 4 frames, `MaxSeq` 6) are those of
the acknowledgements in shape: leftovers may outnumber the next packet, and two packets of
one size differ.

`HandledIsSent`, `CountBelowMax` hold for both sides (proved); `FreshPacketHandled` and
`Recovers` on the device. The uploader's side violates `Recovers` (run `frames_recover`): it
goes back to `READY` on a timeout and stores the late frame, so that the next frame starts
over and erases it; since it does not set its timer there, this repeats for each
acknowledgement that comes after more than a second.

## 4. Installer scripts: `BootUpdate.tla`, `BootUpdate_proofs.tla`, `BootTrial_proofs.tla`

**State.** The two copies of the environment with their sums as the scripts see them
(`cache`), as the disk has them (`disk`) and what was written since the last sync (`dirty`);
for each script (boot, PowerOn, rollback, install) its program counter and its shell
variables; what each of the four partitions holds, which are mounted, and the state of
`CANProcessor`.

**Actions.** A script reads the environment in one step and writes it in the eight steps of
`write_env_file`. `InitRead` ... `InitReset` are `swupdate_mount_partitions`; `StartCanupdate`,
`Watchdog` the two sleepers; `Preinst`, `Flash`, `Postinst`, `FlashFails` an update;
`SuccessfulBoot` the script that PowerOn and rollback run. `PowerCut` leaves of each unsynced
file the new, the old or a torn one.

**Assumptions about the environment.** Reads are atomic. With `PowerOnFirst` no command for
another script comes before that of PowerOn is over; nothing in the code makes it wait, and
`boot_overlap` shows what happens otherwise. The removal of `config.dat` is not undone by a
cut. The sleeper of 20 seconds (`canupdatesvc`) wakes before that of 30 (`watchdog_monitor`).
A partition that is good starts canquick, one that is not does not.

**Power cuts.** Their number has no bound; `MaxCuts` bounds those between two complete runs of
`write_env_file` (`cuts` starts anew with each). The bound matters: a cut may leave one copy
bad, nothing repairs it at the next boot, and the next write begins with the primary copy, be it
the only good one. With `MaxCuts = 2` TLC finds both copies bad after a cut within the secondary
copy and one, a boot later, within the primary copy that `updater_successful_boot.sh` writes:
the defaults are then used, whatever had been installed (`EnvSurvives` violated, checked by
hand). No comment or document promises more than one, so that this is listed as a hazard.

**Results.** With `MaxCuts = 1`, `EnvSurvives`, `OnTrialUnlessGood`, `GoesBackToGood`,
`PendingIsKept` and `ComesBack` hold for updates of every type. `boot_first`: a cut while the
very first boot creates the environment leaves a missing secondary whose sum and `.md5` are both
empty and therefore match. `boot_overlap`: PowerOn's script reads the environment before an
update's postinst writes it, writes after it, and the installed update never boots.

## 5. An upload end to end: `Transfer.tla`, `Upload.tla`, `Transfer_proofs.tla`

**State.** The uploader: the API call it is in (`pc`), its phase (send, sent, wait), the slot
`m_arrAck[m_commandInFly]`, `next_chunk`, `err_count`. The bus: two queues of packets. The
device: what was accepted (`version`, `info`), the image, `m_lastSuccessfulChunk`, the writer's error
and the count it steps back to (`failed`, `before`), whether a script runs and on what it was started.

**Actions.** One for each command the device handles (`HandleData` ...), one for each API call
that returns in `UploadFile` (`ChunkPushed` ...). `AckHandler` stores whatever acknowledgement
arrives. `Waited` is `WaitForAck`: an answer, a timeout because nothing will come, or a timeout
that passes by an answer still to come (counted by `late`), which is possible while the device
is at a command that may take it longer than the uploader waits: `DATA` (`WriteFile` waits for its
writer without limit), `CHECK_SIGN` (hashes the image), `SET_VERSION` (hashes the stored image up to
three times, under a timeout of 3 s), `SET_INFO` (writes and syncs a control file). `HandleData` has
three outcomes: `DataStored`; `DataRefused` when no chunk is missing: the chunk goes to the writer
as number `m_chunks`, `_WriteFile` refuses it and the error stays; `DataDropped` from then on, the
header stepping back. Only late answers lead to the last two (`LossMisplacesNothing`); what the
writer's bookkeeping does with the refused chunk (`m_sums`, a control file) is section 2's `late`.

**What is abstracted.** A packet is lost as a whole (section 3 shows when). A chunk is in the
image when `DATA` was handled (section 2 shows that the hand-over keeps that promise). One
version, one file. `SET_INFO` sets the count back and leaves `update.swu`; the reload of
`SET_VERSION` finds what the device already had, no power being cut here (after a refused chunk and
a `SET_INFO` the control files may hold another count than the header: not followed).

**The abstract specification.** `Upload` is what an upload promises without its packets: the
image is the first `kept` chunks of the file, `Store` adds the next one, `Install` takes the
whole file or nothing. Losses, retries, restarts of either side are stutters there. Only a late
answer shows (`Delay`), and from then on the image may become anything (`Spoil`), but what is
installed still is the file. `Transfer` implements it (`KeepsPromise`) with `kept` read off the
image and `m_lastSuccessfulChunk`: `Kept` is the `n` such that the device has exactly the first
`n` chunks and its count says so, or the whole file whatever the count says.

**Results.** `KeepsPromise` and `OnlyTheFileIsInstalled` hold whatever is lost while at most four
answers are late (proved), and in the larger instances checked by hand: 3 chunks with 5 late answers
and 2 losses (919,949 states), 2 with 7 and 2 (6.4 million), 2 with 10 and none (8.9 million), 1 with
12 and none (17.9 million; `OnlyTheFileIsInstalled` alone). Nothing in the code bounds the late
answers, and whether still more of them let the sum of one image be taken for that of a later one is
open: a `DATA` that finds no chunk missing is refused, so that only a stored image whose upload
`SET_INFO` has started over can still be spoiled. Losses alone misplace nothing and the upload ends. One
late answer is enough to keep the uploader one answer behind for good: `<>(pc = "done")` then has
a counterexample, and with two (run `transfer_late`) a chunk is sent twice and stored at the next
one's place. The sum still differs and `UploadFile` returns -4; every later upload of that version
does the same. A few late answers also lose what was stored: a late `OK` is taken for that of
`SET_VERSION`, so that `SET_INFO` is sent and starts a half-stored upload over.
`Upload` allows this (`Spoil`); without a late answer it does not.

## 6. The item tree and the display: `ItemTree.tla`, `Display.tla`, `MCDisplay.tla`, `Display_proofs.tla`

**State.** `ItemTree` has no variables: it gives the counts (`activationSemaphore`) that
`activate()` and `deactivate()` leave, and what `updateVisibility()` makes visible. In `Display`,
`count` holds the counts, `changed` and `complete` are `flag_tree_changed` and `isDataComplete`,
`window` the single-shot timer of 30 ms, `mutex` the one of `MainProcess`. Each of four threads
has a place (`pc`): `can` (rules, keep-alives), `timer` (callbacks of the alerts), `gui` (Qt's main
thread), `win` (`itsThread`, owner of the window). `drawn` is what the last visit of the tree said,
`posted` the visits on their way to `gui`, `shown` what the QML items show.

**Actions.** `Check`, `Take`, `Lock`, `Visit` are `process()`, taken by any thread; `Rule` a call that
holds the mutex, made by `can` for a message and by `gui` for an item that ends its action
(`itemActionDeactivate`) or whose arguments are complete (`argumentComplete`, which is queued from the
CAN thread's accumulators to `gui`); `Refresh` is `argumentComplete` of an active item, deactivated and
activated in one go; `Begin`/`Call`/`Mark`/`ForceUpdate` one that does not (an alert, a keep-alive's
withdrawal, an item that deactivates itself); `Frame`/`EndFrame` enclose the rules of a message;
`Deliver` is Qt's event loop. `Reenter` is the visit by `gui` that finds the volume's menu visible and
suppressed: its slot (`VolumeMenu.qml:50`) ends the action at once, and
`AMJsonGraphicItemAction::deactivate` locks the mutex that `process()` holds beneath it. The mutex is
not recursive: `gui` stays there (`Stuck`), and whoever updates waits for it. Whether the menu is
suppressed is a state of QML and a free choice. `Overlap` is a call without the mutex that meets a rule's call: a node
both write may keep the writes of one only (`Torn`), and `raced` remembers it. `overtaken` remembers
that the main thread showed its own visit before an older one in its queue.

**What is abstracted.** A visit of the tree is one step; the values of an item's arguments are left
out; the choice of rules is free, so that every JSON table is included. A `gui` that is stuck has told
some items of its visit and draws none of it: `shown` stays. Once `raced` or `overtaken` is set no new
change begins (`Rule`, `Refresh` and `Begin` require both to be FALSE): what goes on is the calls already under
way, the updates and the deliveries. So `NoLostChange`, `ShownInOrder` and `ChangeIsShown` say that
the changes made up to an overlap are flagged and shown, and nothing of those made after it. The
overlap of a `Refresh` with a call without the mutex is left out: it would flag the tree as that of a
`Rule` does, and of the counts nothing is claimed after an overlap.

**Results.** `NoLostChange`, `Counted`, `ShownInOrder` and `ChangeIsShown` hold. The ghosts, and the
place `stuck`, mark where the code gives no more: TLC finds `ChangeIsShown` violated without its exception of
a stuck `gui` (by hand), and as deadlocks are checked in this run, `Stuck` is the only state in which every
thread waits for another; after an overlap (`raced`) an active item may be beneath a node that counts
0, and without `overtaken` TLC finds a deactivated item shown for good (both checked by hand).
`Counted` allows a count above a mutex group to be too high: `handleMutexGroup` zeroes the children
and not what their ancestors counted (`rootedtreenode.cpp:231`).

## 7. Timers, requests and smart items: `Timers.tla`, `Timers_proofs.tla`

**State.** `timer` says of each `core::Timer` whether it is off, runs or is in its callback; `at` is
where each thread is between two accesses of shared variables. `lost`, `noCom`: the connection
alert; `sent`, `lsbSeen`, `id`: the expected request; `written`, `answer`, `accepted`: the requests
on the bus, the answer at hand, the answers acted upon; `smart`: one smart item. `down` is the end of
the program: a thread that joins itself, or two that join the same. `crossed` remembers the timers
that two threads met at.

**Actions.** One for each access of a shared variable by `resetConnectionTimeout`,
`fireConnectionTimeout`, `expectRequestId`, `fireRequestTimeout`, `discardRequestId` and the comparison
of an answer's two bytes; `Joins` makes whoever starts or stops a timer wait for its callback.
`Collide` is `stop()` by one thread and `start()` by another at the same time, whatever the timer's
state: an expired one still has a thread to join, and nothing guards the assignment of the new one. `SetActive`,
`SetInactive` are the smart item's messages and `DurationExpires` the end of one of its durations.

**Results.** `WatchedOrShown`, `AlertIsCleared`, `NoAnswerTwice`, `SmartIsShown`,
`EndsOnlyByDuration` and `RequestEnds` hold. `EndsOnlyByDuration` names the ways the program
may end: the callback of a smart item's duration stops the timer whose callback it is
(`smartitem.cpp:207`, `227`), which glibc refuses with an exception nobody catches, at every end of a
duration that is not zero; and an answer that meets the next request. Without `crossed`,
`AlertIsCleared`, `EndsOnlyByDuration` and `RequestEnds` have counterexamples (by hand): a keep-alive
that tests `isInDisconnectionAlert` while the callback is about to set it leaves an alert that no
keep-alive clears.

**What is left out.** The start of the connection timer by `launch()` while messages already come;
the smart item and the requests share nothing, so that the item's messages come before the first
request (`BeforeRequests`) and requests when it is over (`SmartIsOver`).

## 8. The runs

| run | module, instance | shows |
|---|---|---|
| `store_window` | `ControlFile`, 7 chunks, `FullWriteMax` 1 so that only the window of three sums is rewritten, 1 cut, any number of reconnections | the safety properties of section 2, `KeptNeverDrops`, `UploadCompletes`; 1,077,155 states |
| `store_rare` | 1 chunk, every rare event but `reconnect`, 1 fault | `WriteFileReturns` under slow writes, preemption, an I/O error, uninitialised data, unasked packets, a reload under the writer; 2,671,471 states |
| `store_last_chunk` | no cut | finds the last chunk unwritten |
| `frames_device` | four kinds of packets on the device | `TypeOK`, `CountBelowMax`, `FreshPacketHandled`, `HandledIsSent`, `Recovers` |
| `frames_recover` | the same in the uploader | finds `Recovers` violated |
| `boot_cut` | 2 updates of any type, any number of cuts, one between two writes | the six properties of section 4; 224,874 states |
| `boot_first` | no environment yet, 1 cut | finds `ComesBack` violated |
| `boot_overlap` | 1 update, PowerOn not awaited | finds `PendingIsKept` violated |
| `transfer_loss` | 4 chunks, short last one, 4 losses, 3 late answers | the five properties of section 5, the refinement of `Upload` among them; 244,440 states |
| `transfer_late` | 2 late answers | finds `ChunksInPlace` violated |
| `display` | a mutex group of two items and an alert on a layer above | the five properties of section 6; 923,802 states |
| `timers` | 2 requests, 4 identifiers, a smart item | the seven properties of section 7; 348,234 states |

**Bounds.** `Chunks`: a first, a last, and chunks between that have a predecessor and a successor in
both control files need 4; the moving window of three sums needs 5 to have sums behind it and before
it. `FullWriteMax` is 16 in the code. `MaxFaults`: one cut, or in
`store_rare` one fault; the proofs need no bound. `store_rare` asks whether a thread is kept waiting, which
does not depend on the chunks: one has a first, a last and, with `late`, a packet past the end. `MaxSeq` 6 exceeds the largest packet, 4, by more than one, as 256 does. `MaxInstalls` 2: an update after an update uses
the partitions the first came from. `MaxErrors` is 8 in the code; only the number of repetitions
depends on it. `MaxLost` 4 lets an uploader give up and start again. `MaxCount` 2 in `MCDisplay`: two
items are active at once, of which one may be in the group. `Seldom`: of the timers' thread and the
main thread one works at a time. `MaxPosted` 1: one visit is on its way; the proofs need neither.
`MaxRequests` 2: an answer to the first meets the second; four identifiers of two bytes differ in
either byte. `CHECK_DEADLOCK FALSE`: the uploader ends at "done", and a program that joined one of its
own threads has ended.

**Slow writes.** A signal repeated while a write is merely slow (`resignal`) loses or
misplaces chunks. It needs a synced write of one chunk to take more than half a second, which
is not a disagreement with anything the repository promises; it is listed as a hazard.

## 9. Fairness

* ControlFile: both threads are scheduled (`WF` of the writer and of the poll thread's steps
  within `WriteFile`), power comes back, and the uploader goes on asking and sending, which is
  what its loop does. No fairness is given to power cuts, reconnections or rare events.
* Reassembly: the sender goes on; what it sends is lost or arrives. `SF(got = 0 /\ Silence)`: an
  uploader without an answer waits for its whole timeout, never shorter than `MAX_TIMEOUT`.
* BootUpdate: scripts run to their end, the device is switched on again, the watchdog wakes.
  No fairness for updates, nor for canquick: a board that never starts it is switched off by
  the watchdog or stays as it is.
* Transfer: both sides are scheduled, the script ends, an uploader that gave up is started again.
* Display: every thread goes on, and messages keep coming (the vision unit sends them several times a
  second; without them nothing would call `forceUpdate()` after a self-deactivation).
* Timers: threads go on and a timer that is not stopped expires. None for messages, answers or
  requests.

## 10. What is proved

`ControlFile_proofs`, for every number of chunks, every window and every number of cuts:
`TypeCorrect` for every rare event; `NothingMisplaced` and `VerifiedStays` for
`Rare \subseteq {"reconnect", "ioerror"}`; `NothingSkipped` and `NothingLostByPowerCut` for
`Rare \subseteq {"reconnect"}`: an uploader that comes back finds the writer waiting, and no `DATA` comes
unasked. Section 2 says what the other events do. None of these invariants is inductive; three
strengthenings carry them.

* `IInv` (the last two): the sums on disk and in memory are *backed* (a correct sum means the chunk
  is in the image) and the final sums cover a prefix (`DiskInv`, `MemoryInv`); which steps of the two
  threads can be taken at once (`HandOverInv`); what the shared buffer holds while a chunk is pending
  (`BufferInv`). One lemma for each (`DiskStep`, ...), by cases over the actions.
* `PlaceInv`: with failing calls a sum may be wrong and a chunk missing, but what the buffer holds from the
  hand-over to the write is the chunk whose place it is written to (`OwnPlaceWritten`), because the uploader
  is only taken up on an answer that is still the number after the header. After a failed write `WriteFile`
  takes no chunk until it has stepped back.
* `RangeInv`: but for `overlap` and `late`, the uploader is asked for a chunk only when the header has room for one, and
  nothing raises the header from then on: the writer copies it before it flips it, unless it failed,
  and then `WriteFile` takes no chunk.

`ControlFileKept_proofs`, for every number of chunks and cuts, `Rare \subseteq {"reconnect"}`:
`OneFileIsKept` (its invariant), `ReloadNeverFails` (`ReloadFindsFile`), `KeptWhilePowered` (only a power cut costs
a recorded chunk, whatever happened before) and, without reconnections and up to the first cut,
`FirstCutCostsNothing` (`KeptNeverDrops`). The argument counts the sums on disk that differ from `m_sums`: a
round of the writer rewrites three of them in one file, so that file lags by the chunks of the last two rounds
and the other file by one, which the window `n-2..n` covers (`Near`). While an upload is under way one file
can be read, is near and records most (`KeeperInv`); no file records more than the header (`LastsInv`).
`ReloadNeverFails` says it of every state of the writer; what it cannot say is that a reload under the
writer is harmless. After a resumption a further cut may cost chunks: the best file is then the next to be
rewritten; `KeptNeverDrops` excepts it.

`Reassembly_proofs`, for any kinds, sizes and `MaxSeq` and both sides: `TypeCorrect`,
`CountStaysBelowMax`, `OnlyWhatIsSentIsHandled`; for the device `FreshPacketIsHandled`. The
first invariant says that a receiver in `TRANSPORT` has stored fewer frames than it awaits and that a packet
whose frame 0 was lost cannot be handled; the second, that after a silence exactly the frames
of the current packet are stored.

`Display_proofs`, for any tree that satisfies the named assumptions, any threads and bounds:
`TypeCorrect`, `NothingLost`, `Ordered`, `CountsBalance`. `NoLostChange` is inductive
with the types: whoever takes the flag is on the way to a visit; `ShownInOrder` needs that the last posted visit
is the last one drawn (`PostedInOrder`); `Counted` rests on lemmas about what `Activated` and `Deactivated` do to the set of
active items beneath a node, by the cardinality theorems of finite sets.

`Timers_proofs`, for any identifiers and number of requests: `TypeCorrect`, `ConnectionWatched`,
`AlertCleared`, `AnsweredOnce`, `SmartShown`, `EndsByDuration`. `ConnectionInv` follows the alert through
the threads `can` and `conn`; `RequestInv` says how many answers may still be accepted wherever `win`,
`can` and `req` stand between two accesses of the flags.

`Transfer_proofs`, for every number of chunks and every bound: `TypeCorrect` (its invariant adds that a
`DATA` packet carries a chunk), `NothingMisplaced` (lossy but punctual: at most one packet is under way,
it belongs to the command in flight, and `DATA` carries the chunk the device awaits), `PromiseKept`
(`Spec /\ []OnlyTheFileIsInstalled => KeepsPromise`, every step of `Transfer` a step or a stutter of
`Upload`), `FewLateInstallTheFile` (`Spec => [](late <= 4 => OnlyTheFileIsInstalled)`, whatever `MaxLate`) and
`FewLateKeepThePromise` (both properties outright for `MaxLate <= 4`). The last two say that the bound of the
runs is no accident. `ShiftInv` says how far the answers can fall behind: the packets and answers outstanding are at most
`late + 1`, and a `CHECK_SIGN` or a sum on its way is as many commands old at most as answers were late. Between a
`CHECK_SIGN` and the next `DATA` five commands end (`Stages`), so that with four late answers no sum is
on its way when a chunk is sent, and a sum that says `TRUE` still is that of the image (`CleanInv`).

`BootUpdate_proofs`: `TypeCorrect` for every value of the constants, the first boot and overlapping
scripts included; `OneCopySurvives` (`EnvSurvives`, which no step alone keeps) for a provisioned device,
`PowerOnFirst` and `MaxCuts <= 1`, any types and number of updates. Its invariant `Inv` adds: at most one
script runs (`Solo`); no file is missing or empty (`FilesWhole`); how far the writer has come
(`Filled`); the copy that is not being written is on the disk as it is seen, the primary one is
good while the secondary one is written, and the secondary one is as long as no cut came since the last
complete write (`Quiet`); only a boot writes variables of an update on trial, and before the watchdog acts upon
them they were written to the end (`Own`, `TrialWritten`). The last is needed for the watchdog's
restart: it flushes what a killed script has half written. The proof takes the steps that write nothing
together (`CalmKeeps`), then the eight steps of `write_env_file` (`WriteKeeps`), then the watchdog,
the switch and the cut.

`BootTrial_proofs`, under the assumptions of `OneCopySurvives`: `BadOnlyOnTrial`, `TrialLeadsBack` and
`UpdateIsNotForgotten`. Which copy
is read after a cut or a kill depends on the step that was interrupted, so the invariant `TrialInv` does not
follow the copies: *whatever* any copy holds, stale or new, is safe to boot from (`CopiesSafe`: good partitions,
or a trial that goes back to good ones with nothing pending), and so is what a boot writes (`BootSafe`). What
keeps that true when an installation destroys partitions is `Settled`: commands come only
once PowerOn's script has written both copies, and then every copy names the mounted partitions and no
trial, while the installation goes to the others (`SlotsMove`). `Known` says that the variables
of the boot are still those of the files until PowerOn's script has read them.
`UpdateIsNotForgotten` (`PendingIsKept`) compares what is read before and after a step: a step leaves
what the disk says or makes it what a script writes into the primary copy (`DiskMoves`), and what is written
keeps the update, or belongs to the boot that puts it on trial or rolls it back. PowerOn's script finds none,
because a boot that mounts has completed it (`BootCompletes`), and the watchdog kills no other script. A cut leaves
one of two versions that say the same of the update (`Alike`, `Unsynced`).

Assumptions are the named ones of the modules, of the constants only, and those a theorem states.

**Only model-checked**: liveness (`UploadCompletes`, `WriteFileReturns`, `Recovers`, `ComesBack`,
`UploadSucceeds`, `ChangeIsShown`, `RequestEnds`), which the prover does not do. Every other
property of the passing runs is proved, these under conditions: `OnlyTheFileIsInstalled` and `KeepsPromise` up to
four late answers, which includes the run (beyond, the instances of section 5); `KeptNeverDrops` without
uploaders that come back and with one fault, where the run also has the former; the invariants of the
environment up to one cut between two writes of it (section 4).

## 11. What is not modelled, and why

`PROJECT.json` lists every component. Left out are:

* **version directories and status files**: one system call on one file or directory each; the reload by
  `CheckVersion` is in `ControlFile`. With them, `UploadFile`'s polling after `USER_UPDATE` (and its hazard,
  `updatesample.cpp:150`): how long it lasts is up to a file that scripts write;
* **JSON rules**: `Display` leaves the choice of the rules open; which ones a table and the signals' values
  choose is sequential code over data that only the tables define;
* **smoothers, brightness, signal extraction, accumulators**: arithmetic of one thread;
* **the smart items' pool** and the decoding of their messages; the board's own keep-alive, version
  messages and watchdog device, which are periodic and keep no state;
* hashes (taken as injective), formatting, reading of tables at start, QML pages, load tests, main programs;
* vendored boot loader, kernel, U-Boot and recipes (`at91bootstrap`, `EW8yocto` but for the scripts). They
  are most of the repository's lines.

**Smaller hazards noted on the way**, covered by no model. Updater: the sum of
a chunk whose write failed is recorded all the same (`updatecontrolfile.cpp:38`), `_WriteFile`
leaves its descriptor open on failure (944), `GetVersion` returns an uninitialised buffer when the
file cannot be opened (224), `SetUpdateStatus` reports an error when `remove` succeeded (208), the
status becomes "uploaded" whatever the sum (912), one current directory serves both threads (414),
a chunk size of 0 divides by zero (516), `DiscardContent` overwrites a timeout with an error
(`updatecanapi.cpp:383`), `RunPowerOn` sets `READY` during an update (`updatecanprocessor.cpp:36`).
Display: a full pool yields a null item (`smartitem.cpp:72`), an active item keeps its old arguments
(`mainprocess.cpp:269`), a value that comes while a signal is disabled is dropped
(`amjsonsignal.cpp:367`), a smoothing length of 0 takes the front of an empty queue
(`bufferedsmoother.cpp:38`), `disarm` tests the result of writing two bytes against 1
(`watchdogdevice.cpp:24`).
