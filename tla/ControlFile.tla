---------------------------- MODULE ControlFile ----------------------------
(***************************************************************************)
(* The chunk store of the CAN firmware updater: struct ControlFile of      *)
(* canupdate/updateengine/updatecontrolfile.{h,cpp}.                       *)
(*                                                                         *)
(* Two threads share the object.  The POLL thread runs every command that  *)
(* arrives over CAN (SET_INFO, GET_NUM_WR_CH, DATA, CHECK_SIGN) and hands  *)
(* each chunk to the WRITER thread (IntThread) through the buffer m_PD and *)
(* a condition variable.  The writer stores the chunk in the image file    *)
(* update.swu and then rewrites, alternately, one of the two control files *)
(* update.swu.1 and update.swu.2, from which BootStrap resumes an upload   *)
(* that a power cut interrupted.                                           *)
(*                                                                         *)
(* Abstractions.  The content of a chunk is the number of the image chunk  *)
(* it equals; a SHA-256 sum is the content it is the sum of, so two sums   *)
(* are equal exactly when the contents are.  One version directory and one *)
(* image are considered.  A control file is its three parts: the header,   *)
(* of which only m_lastSuccessfulChunk varies, the per-chunk sums, and the *)
(* final sum over both.                                                    *)
(***************************************************************************)
EXTENDS Integers, FiniteSets

CONSTANTS
  Chunks,       (* m_chunks, the number of chunks of the image             *)
  FullWriteMax, (* up to this many chunks a control file is rewritten as a *)
                (* whole, 16 in the code (line 745)                        *)
  MaxFaults,    (* bounds the power cuts, failing system calls and reloads *)
                (* under the writer of a behaviour, together               *)
  Rare          (* the rare events the environment may produce, below      *)

(***************************************************************************)
(* "resignal": a write lasts longer than the 1000 * 500us after which      *)
(*             WriteFile signals again, so that the second signal may find *)
(*             the writer waiting for the NEXT chunk.                      *)
(* "preempt":  the poll thread is stopped between its signal and line 834  *)
(*             for longer than the writer needs to write and sync a chunk. *)
(* "ioerror":  open, lseek, write or read on the image or a control file   *)
(*             fails.                                                      *)
(* "uninit":   m_PD, which the constructor leaves uninitialised, does not  *)
(*             start out as zeros.                                         *)
(* "reconnect": the uploader is started again and sends SET_VERSION for    *)
(*             the version it was uploading, when the writer is done with  *)
(*             the last chunk that was signalled to it.  The code does not *)
(*             wait for the writer: an uploader that gave up has waited    *)
(*             nine seconds, a new one asks twice before SET_VERSION.      *)
(* "overlap":  that SET_VERSION comes while the writer is at work.         *)
(* "late":     a DATA packet comes that is not the answer to the device's  *)
(*             last answer: the uploader is an answer behind, as the run   *)
(*             transfer_late of module Transfer shows.                     *)
(***************************************************************************)
RareEvents == {"resignal", "preempt", "ioerror", "uninit", "reconnect", "overlap", "late"}

ASSUME ChunksAssumption == Chunks \in Nat \ {0}
ASSUME BoundsAssumption == FullWriteMax \in Nat /\ MaxFaults \in Nat
ASSUME RareAssumption   == Rare \subseteq RareEvents

Chunk == 0 .. Chunks - 1

AllDone == -1  \* DEFAULT_CHUNK_NO, the answer "no chunk is missing"
Unknown == -2  \* the uploader has no answer to its last request

Hole  == -1    \* content: the chunk was never written
Torn  == -2    \* content: a mix of an old and a new content
NoSum == -3    \* sum: the zeros SHASums starts from

Content == Chunk \cup {Hole, Torn}
Sum     == Content \cup {NoSum}
NoSums  == [c \in Chunk |-> NoSum]

Suffix == {1, 2}   \* ".1" and ".2"

\* Every chunk number, including the one past the end that WriteFile falls back
\* to when no chunk is missing (line 803).
ChunkNo == 0 .. Chunks
Lasts   == -1 .. Chunks

VARIABLES
  (* on disk *)
  image,         \* update.swu: the content of each chunk
  imageExists,   \* update.swu was created
  ctl,           \* the control files update.swu.1 and update.swu.2
  (* struct ControlFile *)
  header,        \* m_header[0..1]: their m_lastSuccessfulChunk
  currHeader,    \* m_currHeader
  sums,          \* m_sums
  finalSum,      \* m_sum: the last and sums it was computed from
  suffix,        \* m_suffix
  noSuffix,      \* m_suffix was cleared with the header and is empty
  loaded,        \* the header describes an upload: BootStrap or SET_INFO succeeded
  resumed,       \* m_bootCode is OPENED_OK: the last load of a control file succeeded
  writtenStatus, \* m_PD.writtenStatus
  PD,            \* m_PD: _chunk, last_succ_chunk_before, mErr
  buffer,        \* m_payloadBuffer
  (* the poll thread and the uploader it serves *)
  poll,          \* where the poll thread is
  chunk,         \* local variable of WriteFile
  asked,         \* the chunk number the uploader was answered last
  data,          \* the content of the DATA packet being handled
  verdict,       \* what CHECK_SIGN told the uploader
  (* the writer thread *)
  writer,        \* where IntThread is
  wchunk,        \* its local variable chunk
  sha2,          \* its local variable sha2
  faults         \* power cuts, failing calls and reloads under the writer so far

disk      == <<image, imageExists, ctl>>
headers   == <<header, currHeader, sums, finalSum, suffix, noSuffix, loaded, resumed>>
shared    == <<writtenStatus, PD, buffer>>
pollVars  == <<poll, chunk, asked, data, verdict>>
writeVars == <<writer, wchunk, sha2>>
vars == <<disk, headers, shared, pollVars, writeVars, faults>>

-----------------------------------------------------------------------------
(* Control files *)

NoFile == [last |-> AllDone, sums |-> NoSums, final |-> [last |-> Unknown, sums |-> NoSums]]

Last == header[currHeader]

\* ReadControlFile has cleared two headers' worth of memory from the current one on
\* and not read the header yet; from the second one this covers m_sums, too.
Cleared == {"cleared", "overrun"}

\* The final sum covers the header and every sum in memory.
SumOf(last, ss) == [last |-> last, sums |-> ss]

\* A cleared header has no chunks: the final sum is then computed over, and
\* written to, the wrong bytes of the file.
WrongSum == [last |-> Unknown, sums |-> [c \in Chunk |-> Hole]]
FinalSum == IF poll \in Cleared THEN WrongSum ELSE finalSum

\* Fault: only the sum of chunk n is rewritten.  The file was last written two
\* chunks ago.
RewrittenNarrow(old, n) ==
  [last  |-> Last,
   sums  |-> IF Chunks <= FullWriteMax THEN sums
             ELSE [c \in Chunk |-> IF c = n THEN sums[c] ELSE old.sums[c]],
   final |-> FinalSum]

\* What is in a control file after WriteControlFile(file, n): the header, all
\* the sums or only those of the chunks n-2 .. n, and the final sum.
Rewritten(old, n) ==
  [last  |-> Last,
   sums  |-> IF Chunks <= FullWriteMax THEN sums
             ELSE [c \in Chunk |-> IF c \in n - 2 .. n THEN sums[c] ELSE old.sums[c]],
   final |-> FinalSum]

\* What may be in a control file when power fails before its fsync: each of
\* the three parts is the old one or the new one.
Mixtures(old, new) ==
  { [last |-> l.last, sums |-> s.sums, final |-> f.final] :
      l \in {old, new}, s \in {old, new}, f \in {old, new} }

\* ReadControlFile accepts a file whose final sum is that of its contents.
Readable(f) == f.final = SumOf(f.last, f.sums)

\* CheckStoredImage: the chunks before the last one are compared with their
\* sums; the first that differs ends the usable part of the image.
Mismatches(f) == {c \in Chunk : c < f.last /\ image[c] # f.sums[c]}
CheckStoredImage(f) ==
  IF Mismatches(f) = {} THEN f.last
  ELSE (CHOOSE c \in Mismatches(f) : \A d \in Mismatches(f) : c <= d) - 1

Nothing == -1000

\* CheckAndLoadControlFile: what each file allows to resume from, and the
\* file that allows most.
LastOf(s) == IF Readable(ctl[s]) /\ imageExists THEN CheckStoredImage(ctl[s]) ELSE Nothing
Resumable == \E s \in Suffix : LastOf(s) # Nothing
Best      == IF LastOf(2) > LastOf(1) THEN 2 ELSE 1

NextChunk(n) == IF n + 1 >= Chunks THEN AllDone ELSE n + 1

\* Fault: the suffix is counted instead of alternated.
NextSuffixCounted(s) == s + 1

NextSuffix(s) == 3 - s

-----------------------------------------------------------------------------
(* Power: the constructor with BootStrap, and its loss *)

FreshPD == [chunk |-> 0, before |-> 0, ok |-> TRUE]

Init ==
  /\ image = [c \in Chunk |-> Hole]
  /\ imageExists = FALSE
  /\ ctl = [s \in Suffix |-> NoFile]
  /\ header = [h \in {0, 1} |-> 0] /\ currHeader = 0
  /\ sums = NoSums /\ finalSum = NoFile.final /\ suffix = 1 /\ noSuffix = FALSE
  /\ loaded = FALSE /\ resumed = FALSE
  /\ writtenStatus = 0 /\ PD = FreshPD /\ buffer = Hole
  /\ poll = "off" /\ chunk = 0 /\ asked = Unknown /\ data = 0 /\ verdict = "none"
  /\ writer = "off" /\ wchunk = 0 /\ sha2 = Hole
  /\ faults = 0

\* CheckAndLoadControlFile reads the best file into the current header.  Reading
\* clears the memory of two headers from there on.  What rejected files leave in
\* header and sums is overwritten by SET_INFO before anything uses it.
LoadBest ==
  /\ loaded' = Resumable /\ resumed' = Resumable
  /\ IF Resumable
     THEN /\ header' = [h \in {0, 1} |-> IF h = currHeader THEN LastOf(Best)
                                         ELSE IF h = 1 THEN 0 ELSE header[h]]
          /\ sums' = ctl[Best].sums /\ finalSum' = ctl[Best].final
          /\ suffix' = Best /\ noSuffix' = FALSE
     ELSE /\ noSuffix' = (noSuffix \/ currHeader = 1)
          /\ UNCHANGED <<header, sums, finalSum, suffix>>

\* The constructor starts IntThread and leaves m_PD as it found the memory;
\* BootStrap then looks for an upload to resume.
BootStrap ==
  /\ poll = "off"
  /\ LoadBest
  /\ \/ UNCHANGED <<writtenStatus, PD>>
     \/ /\ "uninit" \in Rare
        /\ writtenStatus' \in {0, 1}
        /\ \E ok \in BOOLEAN : PD' = [PD EXCEPT !.ok = ok]
  /\ poll' = "idle" /\ writer' = "loop"
  /\ UNCHANGED <<disk, currHeader, buffer, chunk, asked, data, verdict, wchunk, sha2,
                 faults>>

\* What a write of content new over content old may leave when power fails:
\* the same bytes written again change nothing.
TornWrite(old, new) == IF old = new THEN {old} ELSE {old, new, Torn}

\* Where _WriteFile writes: m_chunkSize * _chunk_no, which is the start of the file
\* while m_chunkSize is cleared.
Place == IF poll \in Cleared THEN 0 ELSE wchunk

\* The control file being written, if one is; else what is on disk.
Unsynced ==
  IF writer = "ctl" THEN Rewritten(ctl[suffix], PD.chunk)
  ELSE IF poll = "initctl" THEN [last |-> Last, sums |-> sums, final |-> finalSum]
  ELSE ctl[suffix]

\* What a new start of the program finds in memory.
LoseMemory ==
  /\ header' = [h \in {0, 1} |-> 0] /\ currHeader' = 0
  /\ sums' = NoSums /\ finalSum' = NoFile.final /\ suffix' = 1 /\ noSuffix' = FALSE
  /\ loaded' = FALSE /\ resumed' = FALSE
  /\ writtenStatus' = 0 /\ PD' = FreshPD /\ buffer' = Hole
  /\ poll' = "off" /\ chunk' = 0 /\ asked' = Unknown /\ data' = 0 /\ verdict' = "none"
  /\ writer' = "off" /\ wchunk' = 0 /\ sha2' = Hole

\* Power fails.  A chunk or a control file whose fsync has not returned may be
\* on disk wholly, partly or not at all; memory is lost.
PowerCut ==
  /\ poll # "off" /\ faults < MaxFaults
  /\ faults' = faults + 1
  /\ IF writer = "write" /\ wchunk \in Chunk
     THEN /\ \E t \in TornWrite(image[Place], buffer) : image' = [image EXCEPT ![Place] = t]
          /\ imageExists' \in {imageExists, TRUE}
     ELSE UNCHANGED <<image, imageExists>>
  /\ \E f \in Mixtures(ctl[suffix], Unsynced) : ctl' = [ctl EXCEPT ![suffix] = f]
  /\ LoseMemory

-----------------------------------------------------------------------------
(* The poll thread *)

\* SET_VERSION from an uploader that was started again, with the writer waiting:
\* nothing runs between the reads of the control files.
CheckVersion ==
  /\ "reconnect" \in Rare
  /\ poll = "idle" /\ writer = "wait"
  /\ LoadBest
  /\ asked' = Unknown
  /\ UNCHANGED <<disk, currHeader, shared, poll, chunk, data, verdict, writeVars, faults>>

\* SET_VERSION while the writer is at work.  The memory the writer uses changes with
\* every control file that is read, which is up to three times, and the image is
\* hashed in between; how often and in which order is left open.
BeginReload ==
  /\ "overlap" \in Rare
  /\ poll = "idle" /\ writer # "wait" /\ faults < MaxFaults
  /\ faults' = faults + 1
  /\ poll' = "reload" /\ asked' = Unknown
  /\ UNCHANGED <<disk, headers, shared, chunk, data, verdict, writeVars>>

\* Line 560 of ReadControlFile.
ClearHeaders ==
  /\ poll = "reload" /\ \E s \in Suffix : ctl[s] # NoFile
  /\ header' = [h \in {0, 1} |-> IF h >= currHeader THEN 0 ELSE header[h]]
  /\ IF currHeader = 0
     THEN poll' = "cleared" /\ UNCHANGED <<finalSum, noSuffix>>
     ELSE poll' = "overrun" /\ finalSum' = NoFile.final /\ noSuffix' = TRUE
  /\ UNCHANGED <<disk, currHeader, sums, suffix, loaded, resumed, shared, chunk, asked, data,
                 verdict, writeVars, faults>>

\* A control file as a reader finds it while it may be being rewritten.
AsRead(s) == IF s = suffix THEN Mixtures(ctl[s], Unsynced) ELSE {ctl[s]}

\* The rest of ReadControlFile: the header, the new m_sums, the final sum.
ReadControlFile ==
  /\ poll \in Cleared
  /\ \E s \in Suffix :
       /\ ctl[s] # NoFile
       /\ \E f \in AsRead(s) : /\ header' = [header EXCEPT ![currHeader] = f.last]
                               /\ sums' = f.sums /\ finalSum' = f.final
  /\ poll' = "reload"
  /\ UNCHANGED <<disk, currHeader, suffix, noSuffix, loaded, resumed, shared, chunk, asked,
                 data, verdict, writeVars, faults>>

\* The last file read is kept, or none could be used.
EndReload ==
  /\ poll = "reload"
  /\ \/ /\ imageExists
        /\ \E s \in Suffix : \E f \in AsRead(s) :
             /\ Readable(f)
             /\ header' = [header EXCEPT ![currHeader] = CheckStoredImage(f)]
             /\ sums' = f.sums /\ finalSum' = f.final /\ suffix' = s
        /\ noSuffix' = FALSE /\ loaded' = TRUE /\ resumed' = TRUE
     \/ /\ ~imageExists \/ \A s \in Suffix : \E f \in AsRead(s) : ~Readable(f)
        /\ loaded' = FALSE /\ resumed' = FALSE
        /\ UNCHANGED <<header, sums, finalSum, suffix, noSuffix>>
  /\ poll' = "idle"
  /\ UNCHANGED <<disk, currHeader, shared, chunk, asked, data, verdict, writeVars, faults>>

\* SET_INFO, which the uploader sends when the device has nothing to resume:
\* InitControlFile resets the header and the sums and starts with file ".1".
InitControlFile ==
  /\ poll = "idle" /\ ~loaded
  /\ header' = [header EXCEPT ![currHeader] = AllDone]
  /\ sums' = NoSums
  /\ suffix' = 1 /\ noSuffix' = FALSE
  /\ finalSum' = SumOf(AllDone, NoSums)
  /\ poll' = "initctl"
  /\ UNCHANGED <<disk, currHeader, loaded, resumed, shared, chunk, asked, data, verdict,
                 writeVars, faults>>

\* WriteControlFile(file): the whole file is written and synced.
WriteNewControlFile ==
  /\ poll = "initctl"
  /\ ctl' = [ctl EXCEPT ![suffix] = [last |-> Last, sums |-> sums, final |-> finalSum]]
  /\ loaded' = TRUE
  /\ poll' = "idle"
  /\ UNCHANGED <<image, imageExists, header, currHeader, sums, finalSum, suffix, noSuffix,
                 resumed, shared, chunk, asked, data, verdict, writeVars, faults>>

\* The answer to GET_NUM_WR_CH and the one that acknowledges a DATA packet.  An
\* answer that is lost leaves asked as it is: the uploader asks again.
GetNextChunk ==
  /\ poll = "idle" /\ loaded
  /\ asked' = NextChunk(Last)
  /\ UNCHANGED <<disk, headers, shared, poll, chunk, data, verdict, writeVars, faults>>

\* WriteFile of a DATA packet, lines 795 to 806.  The packet holds the chunk the
\* uploader was asked for and no number: the position is the device's own, past the
\* end when no chunk is missing.
WriteFile ==
  /\ poll = "idle" /\ loaded
  /\ \E d \in Chunk :
       /\ d = asked \/ "late" \in Rare
       /\ IF PD.ok
          THEN /\ chunk' = IF NextChunk(Last) = AllDone THEN Chunks ELSE NextChunk(Last)
               /\ data' = d
               /\ poll' = "wait"
               /\ UNCHANGED header
          ELSE \* the writer failed: go back to the chunk before, write nothing
               /\ header' = [header EXCEPT ![currHeader] = PD.before]
               /\ UNCHANGED <<chunk, data, poll>>
  /\ asked' = Unknown
  /\ UNCHANGED <<disk, currHeader, sums, finalSum, suffix, noSuffix, loaded, resumed, shared,
                 verdict, writeVars, faults>>

\* pthread_cond_signal wakes the writer if it is in pthread_cond_wait and is
\* lost otherwise.
WakeWriter == writer' = IF writer = "wait" THEN "woken" ELSE writer

\* The wait for writtenStatus has lasted 1000 rounds (lines 814 to 816).  A
\* writer that is not stuck has answered by then unless writing is slow.
WaitTooLong ==
  /\ poll = "wait" /\ writtenStatus = 0
  /\ writer = "wait" \/ "resignal" \in Rare
  /\ poll' = "resignal"
  /\ UNCHANGED <<disk, headers, shared, chunk, asked, data, verdict, writeVars, faults>>

\* Fault: the chunk counts as stored when the wait is over for its length.
SignalAgainGivesUp ==
  /\ poll = "resignal"
  /\ WakeWriter
  /\ poll' = "mark"
  /\ UNCHANGED <<disk, headers, shared, chunk, asked, data, verdict, wchunk, sha2, faults>>

\* Fault: the wait starts again without a signal.
SignalAgainSilent ==
  /\ poll = "resignal"
  /\ poll' = "wait"
  /\ UNCHANGED <<disk, headers, shared, chunk, asked, data, verdict, writer, wchunk, sha2,
                 faults>>

\* Lines 817 to 819.
SignalAgain ==
  /\ poll = "resignal"
  /\ WakeWriter
  /\ poll' = "wait"
  /\ UNCHANGED <<disk, headers, shared, chunk, asked, data, verdict, wchunk, sha2, faults>>

\* Fault: the buffer is filled without waiting for the writer.
FillBufferAtOnce ==
  /\ poll = "wait"
  /\ writtenStatus' = 0
  /\ buffer' = data
  /\ PD' = [PD EXCEPT !.chunk = chunk, !.before = Last]
  /\ poll' = "signal"
  /\ UNCHANGED <<disk, headers, chunk, asked, data, verdict, writeVars, faults>>

\* The writer is done with the previous chunk: fill m_PD (lines 823 to 828).
FillBuffer ==
  /\ poll = "wait" /\ writtenStatus = 1
  /\ writtenStatus' = 0
  /\ buffer' = data
  /\ PD' = [PD EXCEPT !.chunk = chunk, !.before = Last]
  /\ poll' = "signal"
  /\ UNCHANGED <<disk, headers, chunk, asked, data, verdict, writeVars, faults>>

\* Lines 830 to 832.
SignalWriter ==
  /\ poll = "signal"
  /\ WakeWriter
  /\ poll' = "mark"
  /\ UNCHANGED <<disk, headers, shared, chunk, asked, data, verdict, wchunk, sha2, faults>>

\* Fault: the header counts the next chunk to read, as its comment can be read
\* ("also the first chunk to read", updatecontrolfile.h:28).
MarkNextSuccessful ==
  /\ poll = "mark"
  /\ header' = [header EXCEPT ![currHeader] = chunk + 1]
  /\ poll' = "idle"
  /\ UNCHANGED <<disk, currHeader, sums, finalSum, suffix, noSuffix, loaded, resumed, shared,
                 chunk, asked, data, verdict, writeVars, faults>>

\* Line 834: the chunk counts as stored although the writer may not have begun.
MarkSuccessful ==
  /\ poll = "mark"
  /\ header' = [header EXCEPT ![currHeader] = chunk]
  /\ poll' = "idle"
  /\ UNCHANGED <<disk, currHeader, sums, finalSum, suffix, noSuffix, loaded, resumed, shared,
                 chunk, asked, data, verdict, writeVars, faults>>

StoredUpTo(n) == \A c \in Chunk : c <= n => image[c] = c

\* Fault: the sum leaves out the last chunk.
CheckChunkSHA2Short ==
  /\ poll = "idle" /\ loaded /\ asked = AllDone
  /\ verdict' = IF imageExists /\ StoredUpTo(Chunks - 2) THEN "match" ELSE "mismatch"
  /\ UNCHANGED <<disk, headers, shared, poll, chunk, asked, data, writeVars, faults>>

\* CHECK_SIGN of the whole image: the uploader compares the sum of the file
\* with the one of its own.
CheckChunkSHA2 ==
  /\ poll = "idle" /\ loaded /\ asked = AllDone
  /\ verdict' = IF imageExists /\ StoredUpTo(Chunks - 1) THEN "match" ELSE "mismatch"
  /\ UNCHANGED <<disk, headers, shared, poll, chunk, asked, data, writeVars, faults>>

-----------------------------------------------------------------------------
(* The writer thread, IntThread *)

\* Line 25.
AnnounceWritten ==
  /\ writer = "loop"
  /\ writtenStatus' = 1
  /\ writer' = "lock"
  /\ UNCHANGED <<disk, headers, PD, buffer, pollVars, wchunk, sha2, faults>>

\* Lines 26 and 27: a signal sent before this is lost.
WaitForSignal ==
  /\ writer = "lock"
  /\ writer' = "wait"
  /\ UNCHANGED <<disk, headers, shared, pollVars, wchunk, sha2, faults>>

\* Lines 30 and 31.
TakeChunk ==
  /\ writer = "woken"
  /\ wchunk' = PD.chunk
  /\ writer' = "write"
  /\ UNCHANGED <<disk, headers, shared, pollVars, sha2, faults>>

\* The poll thread needs no longer for lines 831 to 834 than the writer for a
\* synced write, unless it is preempted there.
MarkedInTime == poll # "mark" \/ "preempt" \in Rare

\* _WriteFile: write at the chunk's place, sync, read back, sum.
StoreChunk ==
  /\ writer = "write" /\ wchunk \in Chunk /\ MarkedInTime
  /\ image' = [image EXCEPT ![Place] = buffer]
  /\ imageExists' = TRUE
  /\ sha2' = buffer
  /\ PD' = [PD EXCEPT !.ok = TRUE]
  /\ writer' = "record"
  /\ UNCHANGED <<ctl, headers, writtenStatus, buffer, pollVars, wchunk, faults>>

\* _WriteFile fails, because its chunk number is not below m_chunks (which may be
\* cleared) or because of a system call; IntThread stores the error and goes on, its
\* local sum still the one of an earlier chunk.
StoreFails ==
  /\ writer = "write" /\ MarkedInTime
  /\ IF wchunk \in Chunk /\ poll \notin Cleared
     THEN /\ "ioerror" \in Rare /\ faults < MaxFaults /\ faults' = faults + 1
          /\ \E t \in TornWrite(image[wchunk], buffer) : image' = [image EXCEPT ![wchunk] = t]
          /\ imageExists' \in {imageExists, TRUE}
     ELSE UNCHANGED <<image, imageExists, faults>>
  /\ PD' = [PD EXCEPT !.ok = FALSE]
  /\ writer' = "record"
  /\ UNCHANGED <<ctl, headers, writtenStatus, buffer, pollVars, wchunk, sha2>>

\* Line 38: the sum is recorded whatever _WriteFile returned.  One recorded past the
\* end of m_sums changes memory that is not modelled.
RecordSum ==
  /\ writer = "record" /\ poll # "overrun"
  /\ sums' = IF wchunk \in Chunk THEN [sums EXCEPT ![wchunk] = sha2] ELSE sums
  /\ writer' = "hash"
  /\ UNCHANGED <<disk, header, currHeader, finalSum, suffix, noSuffix, loaded, resumed, shared,
                 pollVars, wchunk, sha2, faults>>

\* WriteControlFile(file, chunk), lines 729 to 735: the final sum is computed
\* from the memory as it is now, the parts are written after.
HashControlFile ==
  /\ writer = "hash" /\ poll # "overrun"
  /\ finalSum' = IF poll \in Cleared THEN WrongSum ELSE SumOf(Last, sums)
  /\ writer' = "ctl"
  /\ UNCHANGED <<disk, header, currHeader, sums, suffix, noSuffix, loaded, resumed, shared,
                 pollVars, wchunk, sha2, faults>>

\* Lines 737 to 788.
WriteControlFile ==
  /\ writer = "ctl" /\ poll # "overrun" /\ ~noSuffix
  /\ LET new == Rewritten(ctl[suffix], PD.chunk)
     IN \/ ctl' = [ctl EXCEPT ![suffix] = new] /\ UNCHANGED faults
        \/ /\ "ioerror" \in Rare /\ faults < MaxFaults /\ faults' = faults + 1
           /\ \E f \in Mixtures(ctl[suffix], new) : ctl' = [ctl EXCEPT ![suffix] = f]
  /\ writer' = "copy"
  /\ UNCHANGED <<image, imageExists, headers, shared, pollVars, wchunk, sha2>>

\* The same with m_suffix empty: m_fileName + m_suffix is the image itself.
WriteOverImage ==
  /\ writer = "ctl" /\ poll # "overrun" /\ noSuffix
  /\ \E hit \in SUBSET Chunk :
       image' = [c \in Chunk |-> IF c \in hit \cup {0} THEN Torn ELSE image[c]]
  /\ imageExists' = TRUE
  /\ writer' = "copy"
  /\ UNCHANGED <<ctl, headers, shared, pollVars, wchunk, sha2, faults>>

\* The writer uses m_sums while it is cleared: the program ends.
DaemonEnds ==
  /\ poll = "overrun" /\ writer \in {"record", "hash", "ctl"}
  /\ \E f \in Mixtures(ctl[suffix], Unsynced) : ctl' = [ctl EXCEPT ![suffix] = f]
  /\ LoseMemory
  /\ UNCHANGED <<image, imageExists, faults>>

\* PropagateHeader, in the order of its two assignments.
CopyHeader ==
  /\ writer = "copy"
  /\ header' = [header EXCEPT ![1 - currHeader] = Last]
  /\ writer' = "flip"
  /\ UNCHANGED <<disk, currHeader, sums, finalSum, suffix, noSuffix, loaded, resumed, shared,
                 pollVars, wchunk, sha2, faults>>

FlipHeader ==
  /\ writer = "flip"
  /\ currHeader' = 1 - currHeader
  /\ writer' = "suffix"
  /\ UNCHANGED <<disk, header, sums, finalSum, suffix, noSuffix, loaded, resumed, shared,
                 pollVars, wchunk, sha2, faults>>

\* Line 42; after an empty suffix comes the first one.
FlipSuffix ==
  /\ writer = "suffix"
  /\ suffix' = IF noSuffix THEN 1 ELSE NextSuffix(suffix)
  /\ noSuffix' = FALSE
  /\ writer' = "loop"
  /\ UNCHANGED <<disk, header, currHeader, sums, finalSum, loaded, resumed, shared, pollVars,
                 wchunk, sha2, faults>>

-----------------------------------------------------------------------------
(* The specification *)

PollThread ==
  \/ CheckVersion \/ BeginReload \/ ClearHeaders \/ ReadControlFile \/ EndReload
  \/ InitControlFile \/ WriteNewControlFile
  \/ GetNextChunk \/ WriteFile
  \/ WaitTooLong \/ SignalAgain \/ FillBuffer \/ SignalWriter \/ MarkSuccessful
  \/ CheckChunkSHA2

IntThread ==
  \/ AnnounceWritten \/ WaitForSignal \/ TakeChunk \/ StoreChunk \/ StoreFails
  \/ RecordSum \/ HashControlFile \/ WriteControlFile \/ WriteOverImage \/ DaemonEnds
  \/ CopyHeader \/ FlipHeader \/ FlipSuffix

Next == BootStrap \/ PowerCut \/ PollThread \/ IntThread

Spec == Init /\ [][Next]_vars

\* Power comes back, both threads are scheduled, and the uploader keeps asking
\* and sending until it is told that no chunk is missing.
FairSpec ==
  /\ Spec
  /\ WF_vars(BootStrap)
  /\ WF_vars(InitControlFile) /\ WF_vars(WriteNewControlFile)
  /\ WF_vars(GetNextChunk) /\ WF_vars(WriteFile)
  /\ WF_vars(ReadControlFile \/ EndReload)
  /\ WF_vars(WaitTooLong \/ SignalAgain \/ FillBuffer \/ SignalWriter \/ MarkSuccessful)
  /\ WF_vars(IntThread)

-----------------------------------------------------------------------------
(* Properties *)

FinalSums == [last : -2 .. Chunks, sums : [Chunk -> Sum]]

\* Every variable stays in its type.
TypeOK ==
  /\ image \in [Chunk -> Content] /\ imageExists \in BOOLEAN
  /\ ctl \in [Suffix -> [last : Lasts, sums : [Chunk -> Sum], final : FinalSums]]
  /\ header \in [{0, 1} -> Lasts] /\ currHeader \in {0, 1}
  /\ sums \in [Chunk -> Sum] /\ finalSum \in FinalSums
  /\ suffix \in Suffix /\ noSuffix \in BOOLEAN /\ loaded \in BOOLEAN /\ resumed \in BOOLEAN
  /\ writtenStatus \in {0, 1}
  /\ PD \in [chunk : ChunkNo, before : Lasts, ok : BOOLEAN]
  /\ buffer \in Content
  /\ poll \in {"off", "idle", "initctl", "wait", "resignal", "signal", "mark", "reload",
              "cleared", "overrun"}
  /\ chunk \in ChunkNo
  /\ asked \in Chunk \cup {AllDone, Unknown} /\ data \in Chunk
  /\ verdict \in {"none", "match", "mismatch"}
  /\ writer \in {"off", "loop", "lock", "wait", "woken", "write", "record", "hash",
                 "ctl", "copy", "flip", "suffix"}
  /\ wchunk \in ChunkNo /\ sha2 \in Content
  /\ faults \in Nat

\* A chunk never lands at another chunk's place in update.swu, although DATA
\* packets carry no number and the two threads share one buffer.
NoMisplacedChunk == \A c \in Chunk : image[c] \in {Hole, Torn, c}

\* The hand-over to the writer loses no chunk: when the device counts chunks
\* up to Last as stored, all before the last one are in the image, and the
\* last one is in the image or still in the writer's buffer.
NoChunkSkipped ==
  loaded /\ poll # "off" =>
    \A c \in Chunk : c <= Last /\ image[c] # c =>
      /\ c = Last /\ buffer = c /\ PD.chunk = c
      /\ writtenStatus = 0

\* A control file that BootStrap would accept records no chunk that is not in
\* the image, whenever power fails: an upload is resumed without a hole.
ResumeSafe == \A s \in Suffix : Readable(ctl[s]) => StoredUpTo(ctl[s].last)

\* The image that CHECK_SIGN confirmed to the uploader, and that USER_UPDATE will
\* install, is not touched by a write the writer still has to do.
VerifiedImageStays == verdict = "match" => StoredUpTo(Chunks - 1)

\* While the second header is current, one of the two control files on disk can be
\* loaded, wherever the two threads are and whatever power cuts tore: a SET_VERSION
\* that found none would leave m_sum, m_sums and m_suffix cleared, since
\* ReadControlFile clears two headers' worth from the current one (line 560).  A
\* control file counts as its old content until its rewriting ends.
ReloadFindsFile == currHeader = 1 => Resumable

\* How many chunks BootStrap would keep if power failed now.
ChunksKept == IF Resumable THEN LastOf(Best) + 1 ELSE 0

\* The two control files are written in turn, so that no step costs a chunk already
\* recorded, and the first power cut, even during one of these writes, costs one only
\* of an upload that was resumed: m_suffix then names the file that was just loaded.
KeptNeverDrops == [][ChunksKept' >= ChunksKept \/ (PowerCut /\ resumed)]_vars

\* Unless uploaders start over for ever, the upload reaches its end, and then every
\* chunk but the last, which may still be with the writer, is in the image; a lost
\* signal is repaired.
UploadCompletes ==
  <>[][~CheckVersion]_vars =>
    <>[](poll # "off" /\ asked = AllDone /\ \A c \in 0 .. Chunks - 2 : image[c] = c)

\* The poll thread, which serves every command, is never kept in the wait of line 814
\* for good, although that wait has no limit and signals may be lost: not by slow or
\* failing writes, by what m_PD holds at the start, by packets nobody asked for or by
\* a reload under the writer.
WriteFileReturns == poll = "wait" ~> poll \notin {"wait", "resignal"}

\* CANUpdateAPI::GetNextChunk is documented to answer -1 "if file was written
\* successfully" (updatecanapi.cpp:182): the last chunk, then still with the
\* writer, should at least be written some time.
LastChunkIsWritten == asked = AllDone ~> (asked # AllDone \/ StoredUpTo(Chunks - 1))

=============================================================================
