----------------------- MODULE ControlFileKept_proofs -----------------------
(***************************************************************************)
(* What the two control files keep of an upload, for every number of       *)
(* chunks and every size of the rewritten window: there is always a file   *)
(* to resume from, and it records as many chunks as were ever recorded.    *)
(*                                                                         *)
(* The argument is about the sums on disk that differ from m_sums.  A      *)
(* round of the writer rewrites the sums of three chunks in one of the     *)
(* files, and the other file was rewritten one round before: it differs by *)
(* the chunk of this round, and the file rewritten by the chunks of the    *)
(* last two.  A file that can be read and differs by no more stays, or     *)
(* becomes again, a file that can be read.                                 *)
(***************************************************************************)
EXTENDS ControlFile_proofs

\* The sums of file s differ from m_sums only for the chunks C.
DiffersOnly(s, C) == \A c \in Chunk : ctl[s].sums[c] # sums[c] => c \in C

\* The writer has not recorded a sum in this round, or has written its file.
Waiting == writer \in {"off", "loop", "lock", "wait", "woken", "write", "record"}
Written == writer \in {"copy", "flip", "suffix"}

\* The file of this round lags two chunks behind, the other file one.
Near(s) ==
  IF s = suffix
  THEN /\ Waiting => DiffersOnly(s, {IF Pending THEN PD.chunk - 1 ELSE Last})
       /\ writer \in {"hash", "ctl"} => DiffersOnly(s, {PD.chunk - 1, PD.chunk})
       /\ Written => DiffersOnly(s, {})
  ELSE /\ Waiting => /\ DiffersOnly(s, {})
                     /\ Pending => poll \in {"signal", "mark"} \/ Last = PD.chunk
       /\ ~Waiting => DiffersOnly(s, {PD.chunk}) /\ Last = PD.chunk

\* One of the files can be read, is near, and records as much as the other.
Top(s) == \A t \in Suffix : Readable(ctl[t]) => ctl[t].last <= ctl[s].last

KeeperInv == loaded => \E s \in Suffix : Readable(ctl[s]) /\ Near(s) /\ Top(s)

\* No file that can be read records more than the header in memory.
LastsInv == loaded => \A s \in Suffix : Readable(ctl[s]) => ctl[s].last <= Last

\* Where the state came from: a round has an image and its header, and an
\* uploader that is told to start over finds nothing to resume from.
OriginInv ==
  /\ writer = "ctl" => finalSum = SumOf(Last, sums)
  /\ poll = "initctl" => finalSum = SumOf(AllDone, NoSums)
  /\ ~Waiting \/ writer = "record" => imageExists
  /\ currHeader = 1 => loaded /\ imageExists
  /\ ~loaded /\ poll # "off" => ~imageExists \/ \A s \in Suffix : ~Readable(ctl[s])
  /\ ~imageExists => sums = NoSums /\ \A s \in Suffix : ctl[s].sums = NoSums

\* Until the first power cut both files are near, and a write never changes the
\* only file that records most.
FirstInv ==
  faults = 0 =>
    /\ ~loaded => ~Pending /\ \A s \in Suffix : ctl[s] = NoFile
    /\ loaded =>
         /\ \A s \in Suffix : Near(s)
         /\ ~Written /\ Readable(ctl[suffix]) /\ ctl[suffix].last >= 0 =>
              /\ Readable(ctl[3 - suffix])
              /\ ctl[suffix].last <= ctl[3 - suffix].last
         /\ Written => Readable(ctl[suffix]) /\ ctl[suffix].last = Last

\* The inductive invariant of an uploader that may come back, and the one of the
\* first power cut.
KeptInv == KeeperInv /\ LastsInv /\ OriginInv

-----------------------------------------------------------------------------
(* What can be resumed *)

\* A readable file matches the image: CheckStoredImage finds no difference, and
\* BootStrap keeps every chunk the file records.
LEMMA ReadableMatches ==
  ASSUME IInv, NEW s \in Suffix, Readable(ctl[s])
  PROVE  /\ CheckStoredImage(ctl[s]) = ctl[s].last
         /\ imageExists => LastOf(s) = ctl[s].last
         /\ ctl[s].last \in Lasts /\ ctl[s].last < Chunks
<1> DEFINE f == ctl[s]
<1>1. f.final = SumOf(f.last, f.sums) /\ Sound(image, f.final)
  BY DEF IInv, DiskInv, Readable
<1>2. \A c \in Chunk : c <= f.last => f.sums[c] = c /\ image[c] = c
  BY <1>1 DEF SumOf, Sound, Backed
<1>3. f.last \in Lasts /\ f.last < Chunks
  BY <1>1 DEF SumOf, Sound, IInv, TypeOK
<1> HIDE DEF f
<1>4. Mismatches(f) = {}
  BY <1>2, <1>3, ChunksAssumption DEF Mismatches, Chunk, Lasts
<1>5. CheckStoredImage(f) = f.last
  BY <1>4 DEF CheckStoredImage
<1>6. QED  BY <1>3, <1>5 DEF f, LastOf

\* So an upload can be resumed exactly when there is an image and a file that can
\* be read.
LEMMA ResumableMeans ==
  ASSUME IInv
  PROVE  Resumable <=> imageExists /\ \E s \in Suffix : Readable(ctl[s])
<1>1. ASSUME NEW s \in Suffix, Readable(ctl[s]), imageExists
      PROVE  LastOf(s) # Nothing
  BY <1>1, ReadableMatches, ChunksAssumption DEF Nothing, Lasts
<1>2. ASSUME NEW s \in Suffix, LastOf(s) # Nothing
      PROVE  Readable(ctl[s]) /\ imageExists
  BY <1>2 DEF LastOf
<1>3. QED  BY <1>1, <1>2 DEF Resumable

\* The file BootStrap resumes from records as much as the other.
LEMMA BestIsTop ==
  ASSUME IInv, Resumable
  PROVE  /\ Best \in Suffix /\ Readable(ctl[Best]) /\ imageExists /\ Top(Best)
         /\ LastOf(Best) = ctl[Best].last
<1> USE ChunksAssumption
<1>1. Best \in Suffix /\ Readable(ctl[Best]) /\ imageExists
  BY BestFile DEF IInv
<1>2. LastOf(Best) = ctl[Best].last
  BY <1>1, ReadableMatches
<1>3. ASSUME NEW t \in Suffix, Readable(ctl[t])
      PROVE  ctl[t].last <= ctl[Best].last
  <2>1. LastOf(t) = ctl[t].last /\ ctl[t].last \in Lasts
    BY <1>1, <1>3, ReadableMatches
  <2>2. ASSUME NEW s \in Suffix
        PROVE  LastOf(s) \in Int
    BY CheckStoredImageType DEF LastOf, IInv, TypeOK, Lasts, Nothing
  <2>3. LastOf(1) \in Int /\ LastOf(2) \in Int
    BY <2>2 DEF Suffix
  <2>4. LastOf(t) <= LastOf(Best)
    BY <2>3 DEF Best, Suffix
  <2>5. QED  BY <1>2, <2>1, <2>4
<1>4. QED  BY <1>1, <1>2, <1>3 DEF Top

\* Without an image no file records a chunk.
LEMMA NoImageNoChunk ==
  ASSUME IInv, OriginInv, ~imageExists, NEW s \in Suffix, Readable(ctl[s])
  PROVE  ctl[s].last = AllDone
<1>1. ctl[s].sums = NoSums /\ ctl[s].final = SumOf(ctl[s].last, NoSums)
  BY DEF OriginInv, Readable
<1>2. \A c \in Chunk : c <= ctl[s].last => NoSums[c] = c
  BY <1>1 DEF IInv, DiskInv, Sound, SumOf
<1>3. 0 \in Chunk /\ NoSums[0] # 0
  BY ChunksAssumption DEF Chunk, NoSums, NoSum
<1>4. ctl[s].last \in Lasts /\ ~(0 <= ctl[s].last)
  BY <1>2, <1>3 DEF IInv, TypeOK
<1>5. QED  BY <1>4, ChunksAssumption DEF Lasts, AllDone


-----------------------------------------------------------------------------
(* Steps *)

\* What the actions that touch no control file leave of the sums on disk.
LEMMA OriginStep ==
  ASSUME IInv, OriginInv, KeeperInv, Rare \subseteq {"reconnect"}, [Next]_vars
  PROVE  OriginInv'
<1> USE ChunksAssumption DEF OriginInv, Waiting
<1>1. CASE BootStrap
  <2>1. /\ poll = "off" /\ writer = "off" /\ currHeader = 0
        /\ poll' = "idle" /\ writer' = "loop"
        /\ loaded' = Resumable /\ LoadBest /\ UNCHANGED <<disk, currHeader>>
    BY <1>1 DEF BootStrap, LoadBest, IInv, Calm, HandOverInv
  <2>2. ~imageExists => sums' = NoSums
    BY <2>1, ResumableMeans DEF LoadBest
  <2>3. QED  BY <2>1, <2>2, ResumableMeans DEF disk, Readable
<1>2. CASE CheckVersion
  <2>1. /\ poll = "idle" /\ writer = "wait"
        /\ loaded' = Resumable /\ LoadBest /\ UNCHANGED <<disk, currHeader, poll, writer>>
    BY <1>2 DEF CheckVersion, LoadBest, writeVars
  <2>2. ~imageExists => sums' = NoSums
    BY <2>1, ResumableMeans DEF LoadBest
  <2>3. currHeader = 1 => loaded'
    BY <2>1, ResumableMeans DEF KeeperInv
  <2>4. QED  BY <2>1, <2>2, <2>3, ResumableMeans DEF disk, Readable
<1>3. CASE PowerCut
  <2>1. /\ poll' = "off" /\ writer' = "off" /\ currHeader' = 0 /\ sums' = NoSums
        /\ imageExists => imageExists'
    BY <1>3 DEF PowerCut, LoseMemory, IInv, TypeOK
  <2>2. ~imageExists => ctl[suffix].sums = NoSums /\ Unsynced.sums = NoSums
    BY DEF Unsynced, IInv, TypeOK
  <2>3. ~imageExists => \A s \in Suffix : ctl'[s].sums = NoSums
    <3>1. PICK f \in Mixtures(ctl[suffix], Unsynced) : ctl' = [ctl EXCEPT ![suffix] = f]
      BY <1>3 DEF PowerCut
    <3>2. ~imageExists => f.sums = NoSums
      BY <2>2 DEF Mixtures
    <3>3. QED  BY <3>1, <3>2 DEF IInv, TypeOK
  <2>4. QED  BY <2>1, <2>3
<1>4. CASE InitControlFile
  <2>1. /\ poll = "idle" /\ ~loaded /\ sums' = NoSums /\ finalSum' = SumOf(AllDone, NoSums)
        /\ poll' = "initctl" /\ UNCHANGED <<disk, currHeader, loaded, writer>>
    BY <1>4 DEF InitControlFile, writeVars
  <2>2. writer \in {"off", "loop", "lock", "wait"}
    BY <2>1 DEF IInv, Calm, HandOverInv
  <2>3. QED  BY <2>1, <2>2 DEF disk, Readable
<1>5. CASE WriteNewControlFile
  <2>1. /\ poll = "initctl" /\ loaded' /\ poll' = "idle"
        /\ ctl' = [ctl EXCEPT ![suffix] = [last |-> Last, sums |-> sums, final |-> finalSum]]
        /\ UNCHANGED <<imageExists, header, currHeader, sums, finalSum, writer>>
    BY <1>5 DEF WriteNewControlFile, writeVars
  <2>2. ~imageExists => \A s \in Suffix : ctl'[s].sums = NoSums
    BY <2>1 DEF IInv, TypeOK
  <2>3. writer \in {"off", "loop", "lock", "wait"} /\ ~loaded
    BY <2>1 DEF IInv, Calm, HandOverInv
  <2>4. QED  BY <2>1, <2>2, <2>3
<1>6. CASE GetNextChunk \/ CheckChunkSHA2
  BY <1>6 DEF GetNextChunk, CheckChunkSHA2, disk, headers, writeVars, Readable, Last
<1>7. CASE WriteFile
  <2>1. loaded /\ poll' \in {"idle", "wait"} /\ UNCHANGED <<disk, currHeader, sums, finalSum, loaded, writer, header>>
    BY <1>7 DEF WriteFile, IInv, Calm, HandOverInv, writeVars
  <2>2. QED  BY <2>1 DEF disk, Last
<1>8. CASE WaitTooLong \/ SignalAgain \/ FillBuffer \/ SignalWriter
  <2>1. /\ poll \notin {"off", "initctl"} /\ poll' \notin {"off", "initctl"}
        /\ writer' = writer \/ (writer = "wait" /\ writer' = "woken")
        /\ UNCHANGED <<disk, headers>>
    BY <1>8 DEF WaitTooLong, SignalAgain, FillBuffer, SignalWriter, WakeWriter, writeVars
  <2>2. QED  BY <2>1 DEF disk, headers, Readable, Last
<1>9. CASE MarkSuccessful
  <2>1. /\ poll = "mark" /\ poll' = "idle" /\ writer # "ctl"
        /\ UNCHANGED <<disk, currHeader, sums, loaded, writer>>
    BY <1>9 DEF MarkSuccessful, IInv, Calm, HandOverInv, writeVars
  <2>2. QED  BY <2>1 DEF disk, Readable
<1>10. CASE AnnounceWritten \/ WaitForSignal \/ TakeChunk
  BY <1>10 DEF AnnounceWritten, WaitForSignal, TakeChunk, disk, headers, pollVars, Readable, Last
<1>11. CASE StoreChunk
  <2>1. writer = "write" /\ writer' = "record" /\ imageExists' /\ UNCHANGED <<ctl, headers, poll>>
    BY <1>11 DEF StoreChunk, pollVars
  <2>2. loaded
    BY <2>1 DEF IInv, Calm, HandOverInv
  <2>3. QED  BY <2>1, <2>2 DEF headers
<1>12. CASE RecordSum
  <2>1. /\ writer = "record" /\ writer' = "hash"
        /\ UNCHANGED <<disk, header, currHeader, finalSum, loaded, poll>>
    BY <1>12 DEF RecordSum, pollVars
  <2>2. loaded /\ poll # "initctl"
    BY <2>1 DEF IInv, Calm, HandOverInv
  <2>3. QED  BY <2>1, <2>2 DEF disk
<1>13. CASE HashControlFile
  <2>1. /\ writer = "hash" /\ writer' = "ctl" /\ finalSum' = SumOf(Last, sums)
        /\ UNCHANGED <<disk, header, currHeader, sums, loaded, poll>>
    BY <1>13 DEF HashControlFile, IInv, Calm, Cleared, pollVars
  <2>2. loaded /\ poll # "initctl"
    BY <2>1 DEF IInv, Calm, HandOverInv
  <2>3. QED  BY <2>1, <2>2 DEF disk, Last
<1>14. CASE WriteControlFile
  <2>1. /\ writer = "ctl" /\ writer' = "copy"
        /\ UNCHANGED <<imageExists, headers, poll>>
    BY <1>14 DEF WriteControlFile, pollVars
  <2>2. loaded /\ poll # "initctl"
    BY <2>1 DEF IInv, Calm, HandOverInv
  <2>3. QED  BY <2>1, <2>2 DEF headers
<1>15. CASE CopyHeader \/ FlipHeader \/ FlipSuffix
  <2>1. /\ writer \in {"copy", "flip", "suffix"} /\ writer' \in {"flip", "suffix", "loop"}
        /\ UNCHANGED <<disk, sums, finalSum, loaded, poll>>
    BY <1>15 DEF CopyHeader, FlipHeader, FlipSuffix, pollVars
  <2>2. loaded /\ poll # "initctl"
    BY <2>1 DEF IInv, Calm, HandOverInv
  <2>3. QED  BY <2>1, <2>2 DEF disk
<1>16. CASE UNCHANGED vars
  BY <1>16 DEF vars, disk, headers, shared, pollVars, writeVars, Readable, Last
<1>17. QED
  BY <1>1, <1>2, <1>3, <1>4, <1>5, <1>6, <1>7, <1>8, <1>9, <1>10, <1>11, <1>12, <1>13,
     <1>14, <1>15, <1>16, WriterSucceeds, CalmSteps
  DEF IInv, CalmNext


\* What a step does to what the header counts as stored.
LEMMA LastMoves ==
  ASSUME IInv, Rare \subseteq {"reconnect"}, [Next]_vars,
         ~BootStrap, ~CheckVersion, ~PowerCut, ~InitControlFile
  PROVE  /\ Last' = Last \/ (MarkSuccessful /\ Last' = PD.chunk /\ Last = PD.chunk - 1)
         /\ WriteNewControlFile \/ loaded' = loaded
<1>1. CASE MarkSuccessful
  <2>1. poll = "mark" /\ header' = [header EXCEPT ![currHeader] = chunk]
        /\ UNCHANGED <<currHeader, loaded>>
    BY <1>1 DEF MarkSuccessful
  <2>2. chunk = PD.chunk /\ Pending
    BY <2>1 DEF IInv, Calm, HandOverInv, Pending
  <2>3. Last = PD.chunk - 1
    BY <2>1, <2>2 DEF IInv, BufferInv
  <2>4. Last' = PD.chunk
    BY <2>1, <2>2 DEF Last, IInv, TypeOK
  <2>5. QED  BY <1>1, <2>1, <2>3, <2>4
<1>2. CASE CopyHeader
  BY <1>2 DEF CopyHeader, Last, IInv, TypeOK
<1>3. CASE FlipHeader
  BY <1>3 DEF FlipHeader, Last, IInv, MemoryInv, TypeOK
<1>4. CASE WriteFile
  BY <1>4 DEF WriteFile, Last, IInv, Calm, HandOverInv
<1>5. CASE WriteNewControlFile
  BY <1>5 DEF WriteNewControlFile, Last
<1>6. CASE UNCHANGED <<header, currHeader, loaded>>
  BY <1>6 DEF Last
<1>7. QED
  BY <1>1, <1>2, <1>3, <1>4, <1>5, <1>6, WriterSucceeds, CalmSteps
  DEF IInv, CalmNext, GetNextChunk, WaitTooLong, SignalAgain, FillBuffer,
      SignalWriter, CheckChunkSHA2, AnnounceWritten, WaitForSignal, TakeChunk, StoreChunk,
      RecordSum, HashControlFile, WriteControlFile, FlipSuffix, headers, vars


\* The file a round writes holds the header and the final sum of the memory.
LEMMA FileWritten ==
  ASSUME IInv, OriginInv, Rare \subseteq {"reconnect"}, WriteControlFile
  PROVE  /\ suffix \in Suffix /\ suffix' = suffix /\ loaded /\ loaded' /\ Last' = Last
         /\ sums' = sums /\ writer = "ctl" /\ writer' = "copy" /\ PD' = PD
         /\ imageExists /\ imageExists'
         /\ \A t \in Suffix : t # suffix => ctl'[t] = ctl[t]
         /\ ctl'[suffix] = Rewritten(ctl[suffix], PD.chunk)
         /\ ctl'[suffix].last = Last /\ ctl'[suffix].final = SumOf(Last, sums)
<1>1. ctl' = [ctl EXCEPT ![suffix] = Rewritten(ctl[suffix], PD.chunk)]
  BY DEF WriteControlFile
<1>2. suffix \in Suffix /\ ctl'[suffix] = Rewritten(ctl[suffix], PD.chunk)
  BY <1>1 DEF IInv, TypeOK
<1>3. finalSum = SumOf(Last, sums)
  BY DEF WriteControlFile, OriginInv
<1>4. ctl'[suffix].last = Last /\ ctl'[suffix].final = SumOf(Last, sums)
  BY <1>2, <1>3, CalmPlace DEF Rewritten, IInv
<1>5. loaded /\ imageExists
  BY DEF WriteControlFile, IInv, Calm, HandOverInv, OriginInv, Waiting
<1>6. QED
  BY <1>1, <1>2, <1>4, <1>5 DEF WriteControlFile, headers, shared, Last, IInv, TypeOK

\* If the file can be read then it holds the sums of the memory, and if it was
\* near it can be read: the window covers all it lags behind.
LEMMA WindowSuffices ==
  ASSUME IInv, OriginInv, Rare \subseteq {"reconnect"}, WriteControlFile
  PROVE  /\ Readable(ctl'[suffix]) <=> ctl'[suffix].sums = sums
         /\ Near(suffix) => ctl'[suffix].sums = sums
<1>1. Readable(ctl'[suffix]) <=> ctl'[suffix].sums = sums
  BY FileWritten DEF Readable, SumOf
<1>2. ASSUME Near(suffix)
      PROVE  ctl'[suffix].sums = sums
  <2>1. CASE Chunks <= FullWriteMax
    BY <2>1, FileWritten DEF Rewritten
  <2>2. CASE ~(Chunks <= FullWriteMax)
    <3>1. ctl'[suffix].sums = [c \in Chunk |-> IF c \in PD.chunk - 2 .. PD.chunk
                                               THEN sums[c] ELSE ctl[suffix].sums[c]]
      BY <2>2, FileWritten DEF Rewritten
    <3>2. DiffersOnly(suffix, {PD.chunk - 1, PD.chunk})
      BY <1>2, FileWritten DEF Near
    <3>3. PD.chunk \in Nat
      BY DEF IInv, TypeOK, ChunkNo
    <3>4. PD.chunk - 1 \in PD.chunk - 2 .. PD.chunk /\ PD.chunk \in PD.chunk - 2 .. PD.chunk
      BY <3>3
    <3>5. \A c \in Chunk : ctl'[suffix].sums[c] = sums[c]
      BY <3>1, <3>2, <3>4 DEF DiffersOnly
    <3>6. ctl'[suffix].sums = [c \in Chunk |-> sums[c]]
      BY <3>1, <3>5
    <3>7. sums = [c \in Chunk |-> sums[c]]
      BY DEF IInv, TypeOK
    <3>8. QED  BY <3>6, <3>7
  <2>3. QED  BY <2>1, <2>2
<1>3. QED  BY <1>1, <1>2

\* In the course of a round a near file stays near.
LEMMA NearStep ==
  ASSUME IInv, OriginInv, Rare \subseteq {"reconnect"}, [Next]_vars, loaded,
         ~CheckVersion, ~PowerCut, NEW s \in Suffix, Near(s)
  PROVE  Near(s)'
<1> USE ChunksAssumption
<1>0. poll \notin {"off", "initctl"} /\ ~BootStrap /\ ~InitControlFile /\ ~WriteNewControlFile
  BY DEF IInv, Calm, HandOverInv, BootStrap, InitControlFile, WriteNewControlFile
<1>0a. Last' = Last \/ (MarkSuccessful /\ Last' = PD.chunk /\ Last = PD.chunk - 1)
  BY <1>0, LastMoves
<1>0b. PD.chunk \in Int /\ Last \in Int /\ suffix \in Suffix
  BY DEF IInv, TypeOK, ChunkNo, Last, Lasts
<1>1. CASE GetNextChunk \/ CheckChunkSHA2 \/ WriteFile \/ WaitTooLong \/ UNCHANGED vars
  <2>1. UNCHANGED <<ctl, sums, suffix, PD, writtenStatus, writer, Last>> /\ (poll' = poll \/ poll \in {"idle", "wait"})
    BY <1>0a, <1>1 DEF GetNextChunk, CheckChunkSHA2, WriteFile, WaitTooLong, MarkSuccessful,
                disk, headers, shared, writeVars, vars, pollVars
  <2>2. QED  BY <2>1 DEF Near, Waiting, Written, DiffersOnly, Pending
<1>2. CASE SignalAgain \/ SignalWriter
  <2>1. /\ UNCHANGED <<ctl, sums, suffix, PD, writtenStatus, Last>>
        /\ writtenStatus = 0 /\ writer \in {"lock", "wait"} /\ writer' \in {"lock", "woken"}
        /\ poll' = "mark" \/ (poll' = "wait" /\ poll = "resignal")
    BY <1>2, <1>0a DEF SignalAgain, SignalWriter, WakeWriter, MarkSuccessful,
                disk, headers, shared, writeVars, IInv, Calm, HandOverInv
  <2>2. QED  BY <2>1 DEF Near, Waiting, Written, DiffersOnly, Pending
<1>3. CASE FillBuffer
  <2>1. /\ UNCHANGED <<ctl, sums, suffix, writer>> /\ writtenStatus = 1 /\ writtenStatus' = 0
        /\ PD'.chunk = chunk /\ poll = "wait" /\ poll' = "signal"
    BY <1>3 DEF FillBuffer, disk, headers, writeVars, IInv, TypeOK
  <2>2. writer \in {"lock", "wait"} /\ chunk = Last + 1 /\ Last' = Last
    BY <2>1, <1>0a DEF IInv, Calm, HandOverInv, MarkSuccessful
  <2>3. PD'.chunk - 1 = Last
    BY <2>1, <2>2, <1>0b
  <2>4. QED  BY <2>1, <2>2, <2>3 DEF Near, Waiting, Written, DiffersOnly, Pending
<1>4. CASE MarkSuccessful
  <2>1. UNCHANGED <<ctl, sums, suffix, PD, writtenStatus, writer>> /\ poll = "mark"
    BY <1>4 DEF MarkSuccessful, disk, shared, writeVars
  <2>2. Pending /\ Waiting
    BY <2>1 DEF IInv, Calm, HandOverInv, Pending, Waiting
  <2>3. Last' = PD.chunk
    <3>1. header' = [header EXCEPT ![currHeader] = chunk] /\ currHeader' = currHeader
          /\ chunk = PD.chunk
      BY <1>4, <2>1 DEF MarkSuccessful, IInv, Calm, HandOverInv
    <3>2. QED  BY <3>1 DEF Last, IInv, TypeOK
  <2>4. QED  BY <2>1, <2>2, <2>3 DEF Near, Waiting, Written, DiffersOnly, Pending
<1>5. CASE AnnounceWritten \/ WaitForSignal \/ TakeChunk \/ StoreChunk
  <2>1. /\ UNCHANGED <<ctl, sums, suffix, poll, Last>> /\ PD'.chunk = PD.chunk
        /\ \/ writer = "loop" /\ writer' = "lock" /\ writtenStatus' = 1
           \/ /\ writer \in {"lock", "woken", "write"} /\ writer' \in {"wait", "write", "record"}
              /\ UNCHANGED writtenStatus
    BY <1>5, <1>0a DEF AnnounceWritten, WaitForSignal, TakeChunk, StoreChunk, MarkSuccessful,
                disk, headers, shared, pollVars, IInv, TypeOK
  <2>2. QED  BY <2>1 DEF Near, Waiting, Written, DiffersOnly, Pending
<1>6. CASE RecordSum
  <2>1. /\ UNCHANGED <<ctl, suffix, poll, PD, writtenStatus, Last>>
        /\ writer = "record" /\ writer' = "hash"
    BY <1>6, <1>0a DEF RecordSum, disk, shared, pollVars, MarkSuccessful
  <2>2. Pending /\ wchunk = PD.chunk /\ poll \notin {"signal", "mark"}
    BY <2>1 DEF Pending, IInv, BufferInv, HandOverInv
  <2>3. \A c \in Chunk : c # PD.chunk => sums'[c] = sums[c]
    BY <1>6, <2>2 DEF RecordSum, IInv, TypeOK
  <2>4. QED  BY <2>1, <2>2, <2>3 DEF Near, Waiting, Written, DiffersOnly
<1>7. CASE HashControlFile \/ CopyHeader \/ FlipHeader
  <2>1. /\ UNCHANGED <<ctl, suffix, sums, PD, Last>>
        /\ \/ writer = "hash" /\ writer' = "ctl"
           \/ Written /\ writer' \in {"flip", "suffix"}
    BY <1>7, <1>0a DEF HashControlFile, CopyHeader, FlipHeader, disk, shared, MarkSuccessful,
                Written, IInv, Calm, HandOverInv
  <2>2. QED  BY <2>1 DEF Near, Waiting, Written, DiffersOnly
<1>8. CASE WriteControlFile
  <2>1. CASE s = suffix
    BY <1>8, <2>1, FileWritten, WindowSuffices DEF Near, Waiting, Written, DiffersOnly
  <2>2. CASE s # suffix
    <3>1. ctl'[s] = ctl[s] /\ UNCHANGED <<sums, suffix, PD, Last>> /\ writer = "ctl" /\ writer' = "copy"
      BY <1>8, <2>2, FileWritten
    <3>2. QED  BY <2>2, <3>1 DEF Near, Waiting, Written, DiffersOnly
  <2>3. QED  BY <2>1, <2>2
<1>9. CASE FlipSuffix
  <2>1. /\ UNCHANGED <<ctl, sums, PD, Last>> /\ writer = "suffix" /\ writer' = "loop"
        /\ suffix' = 3 - suffix
    BY <1>9, <1>0a DEF FlipSuffix, NextSuffix, disk, shared, MarkSuccessful, IInv, Calm, HandOverInv
  <2>2. CASE s = suffix
    <3>1. s # suffix'
      BY <2>1, <2>2, <1>0b DEF Suffix
    <3>2. DiffersOnly(s, {})'
      BY <2>1, <2>2 DEF Near, Waiting, Written, DiffersOnly
    <3>3. QED  BY <2>1, <3>1, <3>2 DEF Near, Waiting, Pending
  <2>3. CASE s # suffix
    <3>1. s = suffix'
      BY <2>1, <2>3, <1>0b DEF Suffix
    <3>2. DiffersOnly(s, {Last})'
      BY <2>1, <2>3 DEF Near, Waiting, Written, DiffersOnly
    <3>3. QED  BY <2>1, <3>1, <3>2 DEF Near, Waiting, Written, Pending
  <2>4. QED  BY <2>2, <2>3
<1>10. QED
  BY <1>0, <1>1, <1>2, <1>3, <1>4, <1>5, <1>6, <1>7, <1>8, <1>9, WriterSucceeds, CalmSteps
  DEF IInv, CalmNext


\* Which actions load and which write a file.
LEMMA KeeperStep ==
  ASSUME IInv, IInv', KeptInv, Rare \subseteq {"reconnect"}, [Next]_vars
  PROVE  KeeperInv'
<1> OriginInv
  BY DEF KeptInv
<1>1. ASSUME LoadBest, loaded' = Resumable, ctl' = ctl, writer' \in {"loop", "wait"}
      PROVE  KeeperInv'
  <2> SUFFICES ASSUME Resumable
               PROVE  \E s \in Suffix : Readable(ctl'[s]) /\ Near(s)' /\ Top(s)'
    BY <1>1 DEF KeeperInv
  <2>1. PICK b \in Suffix : b = Best
    BY BestIsTop
  <2>2. Readable(ctl[b]) /\ Top(b) /\ suffix' = b /\ sums' = ctl[b].sums
    BY <1>1, <2>1, BestIsTop DEF LoadBest
  <2>3. Near(b)'
    BY <1>1, <2>2 DEF Near, Waiting, Written, DiffersOnly
  <2>4. QED  BY <1>1, <2>2, <2>3 DEF Top
<1>2. CASE BootStrap \/ CheckVersion
  BY <1>1, <1>2 DEF BootStrap, CheckVersion, LoadBest, disk, writeVars
<1>3. CASE PowerCut \/ InitControlFile
  BY <1>3 DEF PowerCut, LoseMemory, InitControlFile, KeeperInv
<1>4. CASE WriteNewControlFile
  <2>1. poll = "initctl" /\ suffix \in Suffix
        /\ ctl' = [ctl EXCEPT ![suffix] = [last |-> Last, sums |-> sums, final |-> finalSum]]
        /\ UNCHANGED <<sums, suffix, writer>>
    BY <1>4 DEF WriteNewControlFile, writeVars, IInv, TypeOK
  <2>2. /\ Last = AllDone /\ finalSum = SumOf(Last, sums) /\ ~loaded
        /\ writer \in {"off", "loop", "lock", "wait"}
    BY <2>1 DEF IInv, Calm, HandOverInv, KeptInv, OriginInv
  <2>3. /\ ctl'[suffix] = [last |-> Last, sums |-> sums, final |-> finalSum]
        /\ \A t \in Suffix : t # suffix => ctl'[t] = ctl[t]
    BY <2>1 DEF IInv, TypeOK
  <2>4. Readable(ctl'[suffix])
    BY <2>2, <2>3 DEF Readable, SumOf
  <2>5. Near(suffix)'
    BY <2>1, <2>2, <2>3 DEF Near, Waiting, Written, DiffersOnly
  <2>6. ASSUME NEW t \in Suffix, Readable(ctl'[t])
        PROVE  ctl'[t].last <= ctl'[suffix].last
    <3>1. CASE t = suffix
      BY <2>2, <2>3, <3>1 DEF AllDone
    <3>2. CASE t # suffix
      <4>1. Readable(ctl[t]) /\ poll # "off"
        BY <2>1, <2>3, <2>6, <3>2
      <4>2. ~imageExists
        BY <2>2, <4>1 DEF KeptInv, OriginInv
      <4>3. ctl[t].last = AllDone
        BY <4>1, <4>2, NoImageNoChunk DEF KeptInv
      <4>4. QED  BY <2>2, <2>3, <3>2, <4>3 DEF AllDone
    <3>3. QED  BY <3>1, <3>2
  <2>7. QED  BY <2>1, <2>4, <2>5, <2>6 DEF KeeperInv, Top
<1>5. CASE WriteControlFile
  <2>1. PICK s \in Suffix : Readable(ctl[s]) /\ Near(s) /\ Top(s)
    BY <1>5, FileWritten DEF KeptInv, KeeperInv
  <2>2. ~CheckVersion /\ ~PowerCut
    BY <1>5, FileWritten DEF CheckVersion, PowerCut, LoseMemory
  <2>3. Near(s)'
    BY <1>5, <2>1, <2>2, NearStep, FileWritten DEF KeptInv
  <2>4. \A t \in Suffix : Readable(ctl[t]) => ctl[t].last <= Last
    BY <1>5, FileWritten DEF KeptInv, LastsInv
  <2>5. Last \in Int
    BY DEF IInv, TypeOK, Last, Lasts
  <2>6. CASE Readable(ctl'[suffix])
    <3>1. PICK f \in Suffix : f = suffix
      BY <1>5, FileWritten
    <3>2. Readable(ctl'[f]) /\ ctl'[f].last = Last
      BY <1>5, <2>6, <3>1, FileWritten
    <3>3. f = suffix' /\ ctl'[f].sums = sums' /\ writer' = "copy"
      BY <1>5, <2>6, <3>1, FileWritten, WindowSuffices
    <3>4. Near(f)'
      BY <3>3 DEF Near, Waiting, Written, DiffersOnly
    <3>5. ASSUME NEW t \in Suffix, Readable(ctl'[t])
          PROVE  ctl'[t].last <= ctl'[f].last
      <4>1. t = f \/ (ctl'[t] = ctl[t] /\ ctl[t].last <= Last)
        BY <1>5, <2>4, <3>1, <3>5, FileWritten
      <4>2. QED  BY <2>5, <3>2, <4>1
    <3>6. QED  BY <3>2, <3>4, <3>5 DEF KeeperInv, Top
  <2>7. CASE ~Readable(ctl'[suffix])
    <3>1. s # suffix
      BY <1>5, <2>1, <2>7, WindowSuffices DEF KeptInv
    <3>2. Readable(ctl'[s])
      BY <1>5, <2>1, <3>1, FileWritten
    <3>3. ASSUME NEW t \in Suffix, Readable(ctl'[t])
          PROVE  ctl'[t].last <= ctl'[s].last
      <4>1. t # suffix /\ ctl'[t] = ctl[t] /\ ctl'[s] = ctl[s]
        BY <1>5, <2>7, <3>1, <3>3, FileWritten
      <4>2. QED  BY <2>1, <3>3, <4>1 DEF Top
    <3>4. QED  BY <2>3, <3>2, <3>3 DEF KeeperInv, Top
  <2>8. QED  BY <2>6, <2>7
<1>6. CASE ctl' = ctl /\ ~BootStrap /\ ~CheckVersion /\ ~PowerCut /\ ~InitControlFile
           /\ ~WriteNewControlFile
  <2>1. loaded' = loaded
    BY <1>6, LastMoves
  <2>2. SUFFICES ASSUME loaded PROVE KeeperInv'
    BY <2>1 DEF KeeperInv
  <2>3. PICK s \in Suffix : Readable(ctl[s]) /\ Near(s) /\ Top(s)
    BY <2>2 DEF KeptInv, KeeperInv
  <2>4. Near(s)'
    BY <1>6, <2>2, <2>3, NearStep DEF KeptInv
  <2>5. QED  BY <1>6, <2>3, <2>4 DEF KeeperInv, Top
<1>7. QED  BY <1>2, <1>3, <1>4, <1>5, <1>6, ControlFileWritten

LEMMA LastsStep ==
  ASSUME IInv, IInv', KeptInv, Rare \subseteq {"reconnect"}, [Next]_vars
  PROVE  LastsInv'
<1> OriginInv
  BY DEF KeptInv
<1>0. /\ Last \in Int /\ Last' \in Int
      /\ \A s \in Suffix : ctl[s].last \in Int
  BY ChunksAssumption DEF IInv, TypeOK, Last, Lasts
<1>1. CASE BootStrap \/ CheckVersion
  <2>1. LoadBest /\ loaded' = Resumable /\ ctl' = ctl /\ currHeader' = currHeader
    BY <1>1 DEF BootStrap, CheckVersion, LoadBest, disk
  <2>2. SUFFICES ASSUME Resumable, NEW s \in Suffix, Readable(ctl[s])
                 PROVE  ctl[s].last <= Last'
    BY <2>1 DEF LastsInv
  <2>3. Last' = ctl[Best].last
    BY <2>1, <2>2, BestIsTop DEF LoadBest, Last, IInv, TypeOK
  <2>4. QED  BY <2>2, <2>3, BestIsTop DEF Top
<1>2. CASE PowerCut \/ InitControlFile
  BY <1>2 DEF PowerCut, LoseMemory, InitControlFile, LastsInv
<1>3. CASE WriteNewControlFile
  <2>1. poll = "initctl" /\ suffix \in Suffix
        /\ ctl' = [ctl EXCEPT ![suffix] = [last |-> Last, sums |-> sums, final |-> finalSum]]
        /\ Last' = Last
    BY <1>3 DEF WriteNewControlFile, IInv, TypeOK, Last
  <2>2. Last = AllDone /\ ~loaded
    BY <2>1 DEF IInv, Calm, HandOverInv
  <2>3. ASSUME NEW t \in Suffix, Readable(ctl'[t])
        PROVE  ctl'[t].last <= Last'
    <3>1. CASE t = suffix
      BY <2>1, <3>1, <1>0 DEF IInv, TypeOK
    <3>2. CASE t # suffix
      <4>1. ctl'[t] = ctl[t] /\ Readable(ctl[t]) /\ poll # "off"
        BY <2>1, <2>3, <3>2 DEF IInv, TypeOK
      <4>2. ~imageExists
        BY <2>2, <4>1 DEF KeptInv, OriginInv
      <4>3. ctl[t].last = AllDone
        BY <4>1, <4>2, NoImageNoChunk DEF KeptInv
      <4>4. QED  BY <2>1, <2>2, <4>1, <4>3, <1>0
    <3>3. QED  BY <3>1, <3>2
  <2>4. QED  BY <2>3 DEF LastsInv
<1>4. CASE WriteControlFile
  <2>1. ASSUME NEW t \in Suffix, Readable(ctl'[t])
        PROVE  ctl'[t].last <= Last'
    BY <1>0, <1>4, <2>1, FileWritten DEF KeptInv, LastsInv
  <2>2. QED  BY <2>1 DEF LastsInv
<1>5. CASE ctl' = ctl /\ ~BootStrap /\ ~CheckVersion /\ ~PowerCut /\ ~InitControlFile
           /\ ~WriteNewControlFile
  <2>1. loaded' = loaded /\ Last <= Last'
    BY <1>0, <1>5, LastMoves
  <2>2. QED  BY <1>0, <1>5, <2>1 DEF KeptInv, LastsInv
<1>6. QED  BY <1>1, <1>2, <1>3, <1>4, <1>5, ControlFileWritten

-----------------------------------------------------------------------------
(* There is always a file to resume from *)

LEMMA KeptInit == Init => KeptInv
<1> SUFFICES ASSUME Init PROVE KeptInv
  OBVIOUS
<1>1. OriginInv
  BY DEF Init, OriginInv, Waiting, NoFile
<1>2. QED  BY <1>1 DEF Init, KeptInv, KeeperInv, LastsInv

LEMMA KeptStep ==
  ASSUME Rare \subseteq {"reconnect"}
  PROVE  IInv /\ IInv' /\ KeptInv /\ [Next]_vars => KeptInv'
BY KeeperStep, LastsStep, OriginStep DEF KeptInv

\* Whatever was cut off before, as long as an upload is under way one of the
\* control files can be read and records all that is recorded.
THEOREM OneFileIsKept ==
  ASSUME Rare \subseteq {"reconnect"}
  PROVE  Spec => []KeptInv
BY KeptInit, KeptStep, Invariant, PTL DEF Spec

\* While the second header is current, the case in which ReadControlFile clears m_sum,
\* m_sums and m_suffix, too (line 560), one of the files on disk can be loaded, wherever
\* the two threads are, after any number of cuts and returns of an uploader.  What it
\* does not say: a SET_VERSION that meets the writer at work ("overlap") may find the
\* file of this round half written, and changes memory the writer uses.
THEOREM ReloadNeverFails ==
  ASSUME Rare \subseteq {"reconnect"}
  PROVE  Spec => []ReloadFindsFile
<1>1. ASSUME IInv, KeptInv PROVE ReloadFindsFile
  <2>1. ASSUME currHeader = 1 PROVE Resumable
    BY <1>1, <2>1, ResumableMeans DEF KeptInv, OriginInv, KeeperInv
  <2>2. QED  BY <2>1 DEF ReloadFindsFile
<1>2. QED  BY <1>1, Invariant, OneFileIsKept, PTL


-----------------------------------------------------------------------------
(* What is recorded stays recorded *)

\* ChunksKept in terms of the files that can be read.
KeptMeans ==
  /\ ChunksKept \in Nat
  /\ imageExists => \A s \in Suffix : Readable(ctl[s]) => ctl[s].last + 1 <= ChunksKept
  /\ \/ ChunksKept = 0
     \/ imageExists /\ \E s \in Suffix : Readable(ctl[s]) /\ ChunksKept = ctl[s].last + 1

LEMMA ChunksKeptMeans == IInv => KeptMeans
<1> SUFFICES ASSUME IInv PROVE KeptMeans
  OBVIOUS
<1> USE ChunksAssumption DEF KeptMeans
<1>1. CASE ~Resumable
  BY <1>1, ResumableMeans DEF ChunksKept
<1>2. CASE Resumable
  <2>1. PICK b \in Suffix : b = Best
    BY <1>2, BestIsTop
  <2>2. Readable(ctl[b]) /\ imageExists /\ Top(b) /\ LastOf(Best) = ctl[b].last
    BY <1>2, <2>1, BestIsTop
  <2>3. ChunksKept = ctl[b].last + 1
    BY <1>2, <2>2 DEF ChunksKept
  <2>4. \A s \in Suffix : ctl[s].last \in Lasts
    BY DEF IInv, TypeOK
  <2>5. ChunksKept \in Nat
    BY <2>3, <2>4 DEF Lasts
  <2>6. ASSUME NEW s \in Suffix, Readable(ctl[s])
        PROVE  ctl[s].last + 1 <= ChunksKept
    <3>1. ctl[s].last <= ctl[b].last
      BY <2>2, <2>6 DEF Top
    <3>2. ctl[s].last \in Int /\ ctl[b].last \in Int
      BY <2>4 DEF Lasts
    <3>3. QED  BY <2>3, <3>1, <3>2
  <2>7. QED  BY <2>2, <2>3, <2>5, <2>6
<1>3. QED  BY <1>1, <1>2

LEMMA ChunksKeptMeansNext == IInv' => KeptMeans'
BY ChunksKeptMeans, PTL

\* So nothing is lost by a step that leaves, for every file, one that records as
\* much.
LEMMA KeptByFiles ==
  ASSUME IInv, IInv', imageExists => imageExists',
         \A s \in Suffix : imageExists /\ Readable(ctl[s]) /\ ctl[s].last >= 0 =>
           \E t \in Suffix : Readable(ctl'[t]) /\ ctl[s].last <= ctl'[t].last
  PROVE  ChunksKept' >= ChunksKept
<1>1. KeptMeans /\ KeptMeans'
  BY ChunksKeptMeans, ChunksKeptMeansNext
<1>2. /\ ChunksKept \in Nat /\ ChunksKept' \in Nat
      /\ imageExists' => \A t \in Suffix : Readable(ctl'[t]) => ctl'[t].last + 1 <= ChunksKept'
  BY <1>1 DEF KeptMeans
<1>3. \A s \in Suffix : ctl[s].last \in Int /\ ctl'[s].last \in Int
  BY ChunksAssumption DEF IInv, TypeOK, Lasts
<1>4. CASE ChunksKept = 0
  BY <1>2, <1>4
<1>5. CASE ChunksKept # 0
  <2>1. PICK s \in Suffix : imageExists /\ Readable(ctl[s]) /\ ChunksKept = ctl[s].last + 1
    BY <1>1, <1>5 DEF KeptMeans
  <2>2. ctl[s].last >= 0
    BY <1>2, <1>3, <1>5, <2>1
  <2>3. PICK t \in Suffix : Readable(ctl'[t]) /\ ctl[s].last <= ctl'[t].last
    BY <2>1, <2>2
  <2>4. ctl'[t].last + 1 <= ChunksKept'
    BY <1>2, <2>1, <2>3
  <2>5. QED  BY <1>2, <1>3, <2>1, <2>3, <2>4
<1>6. QED  BY <1>4, <1>5

\* No thread and no return of the uploader costs a chunk that is recorded.
LEMMA PoweredStepKeeps ==
  ASSUME IInv, IInv', KeptInv, KeptInv', Rare \subseteq {"reconnect"}, [Next]_vars, ~PowerCut
  PROVE  ChunksKept' >= ChunksKept
<1> OriginInv
  BY DEF KeptInv
<1>0. \A s \in Suffix : ctl[s].last \in Int /\ ctl'[s].last \in Int
  BY ChunksAssumption DEF IInv, TypeOK, Lasts
<1>1. imageExists => imageExists'
  BY WriterSucceeds, CalmSteps
  DEF IInv, CalmNext, BootStrap, CheckVersion, InitControlFile, WriteNewControlFile,
      GetNextChunk, WriteFile, WaitTooLong, SignalAgain, FillBuffer, SignalWriter,
      MarkSuccessful, CheckChunkSHA2, AnnounceWritten, WaitForSignal, TakeChunk, StoreChunk,
      RecordSum, HashControlFile, WriteControlFile, CopyHeader, FlipHeader, FlipSuffix,
      vars, disk
<1>2. CASE WriteNewControlFile
  <2>1. ~loaded /\ poll # "off"
    BY <1>2 DEF WriteNewControlFile, IInv, Calm, HandOverInv
  <2>2. \A s \in Suffix : ~(imageExists /\ Readable(ctl[s]))
    BY <2>1 DEF OriginInv
  <2>3. QED  BY <1>1, <2>2, KeptByFiles
<1>3. CASE WriteControlFile
  <2>1. loaded' /\ Last' = Last /\ loaded
    BY <1>3, FileWritten
  <2>2. PICK f \in Suffix : f = suffix
    BY <1>3, FileWritten
  <2>3. PICK s \in Suffix : Readable(ctl[s]) /\ Near(s) /\ Top(s)
    BY <2>1 DEF KeptInv, KeeperInv
  <2>4. CASE s = f
    <3>1. Readable(ctl'[f]) /\ ctl'[f].last = Last
      BY <1>3, <2>2, <2>3, <2>4, FileWritten, WindowSuffices
    <3>2. \A t \in Suffix : Readable(ctl[t]) => ctl[t].last <= ctl'[f].last
      BY <2>1, <3>1 DEF KeptInv, LastsInv
    <3>3. QED  BY <1>1, <3>1, <3>2, KeptByFiles
  <2>5. CASE s # f
    <3>1. ctl'[s] = ctl[s]
      BY <1>3, <2>2, <2>5, FileWritten
    <3>2. \A t \in Suffix : Readable(ctl[t]) => ctl[t].last <= ctl'[s].last
      BY <2>3, <3>1 DEF Top
    <3>3. QED  BY <1>1, <2>3, <3>1, <3>2, KeptByFiles
  <2>6. QED  BY <2>4, <2>5
<1>4. CASE ctl' = ctl
  BY <1>0, <1>1, <1>4, KeptByFiles
<1>5. QED  BY <1>2, <1>3, <1>4, ControlFileWritten

\* Only a power cut can cost a chunk that is recorded, for any number of cuts before and
\* of uploaders that return when the writer waits.  A return while the writer records a
\* sum or rewrites a file ("overlap") is excluded: it changes m_header and m_sums under
\* the writer, and can cost what is recorded.
THEOREM KeptWhilePowered ==
  ASSUME Rare \subseteq {"reconnect"}
  PROVE  Spec => [][ChunksKept' >= ChunksKept \/ PowerCut]_vars
<1>1. ASSUME IInv, IInv', KeptInv, KeptInv', [Next]_vars
      PROVE  [ChunksKept' >= ChunksKept \/ PowerCut]_vars
  BY <1>1, PoweredStepKeeps
<1>2. QED  BY <1>1, Invariant, OneFileIsKept, PTL DEF Spec


-----------------------------------------------------------------------------
(* The first power cut *)

\* What a file that was never written is: not one to resume from.
LEMMA NoFileUnreadable == ~Readable(NoFile)
BY DEF Readable, NoFile, SumOf, AllDone, Unknown

LEMMA FirstStep ==
  ASSUME IInv, IInv', KeptInv, KeptInv', FirstInv, Rare = {}, [Next]_vars
  PROVE  FirstInv'
<1> OriginInv
  BY DEF KeptInv
<1> ~CheckVersion
  BY DEF CheckVersion
<1>0. /\ suffix \in Suffix /\ suffix' \in Suffix
      /\ Last \in Int /\ \A s \in Suffix : ctl[s].last \in Int
  BY ChunksAssumption DEF IInv, TypeOK, Last, Lasts
<1>a. CalmNext \/ UNCHANGED vars
  BY CalmSteps DEF IInv
<1>1. CASE PowerCut
  BY <1>1 DEF PowerCut, FirstInv, IInv, TypeOK
<1>2. SUFFICES ASSUME faults = 0, ~PowerCut PROVE FirstInv'
  <2>1. PowerCut \/ faults' = faults
    BY <1>a DEF CalmNext, BootStrap, InitControlFile, WriteNewControlFile,
      GetNextChunk, WriteFile, WaitTooLong, SignalAgain, FillBuffer, SignalWriter,
      MarkSuccessful, CheckChunkSHA2, AnnounceWritten, WaitForSignal, TakeChunk, StoreChunk,
      StoreFails, RecordSum, HashControlFile, WriteControlFile, CopyHeader, FlipHeader,
      FlipSuffix, vars
  <2>2. QED  BY <1>1, <2>1 DEF FirstInv
<1>3. CASE ~loaded
  <2>1. /\ ~Pending /\ \A s \in Suffix : ctl[s] = NoFile
        /\ writer \in {"off", "loop", "lock", "wait"} /\ poll \in {"off", "idle", "initctl"}
    BY <1>2, <1>3 DEF FirstInv, IInv, Calm, HandOverInv
  <2>2. CASE BootStrap
    <3>1. ~loaded' /\ ctl' = ctl /\ writer' = "loop"
      BY <2>1, <2>2, NoFileUnreadable, ResumableMeans DEF BootStrap, LoadBest, disk
    <3>2. QED  BY <2>1, <3>1 DEF FirstInv, Pending
  <2>3. CASE WriteNewControlFile
    <3>1. /\ poll = "initctl"
          /\ ctl' = [ctl EXCEPT ![suffix] = [last |-> Last, sums |-> sums, final |-> finalSum]]
          /\ UNCHANGED <<sums, suffix, writer, writtenStatus>>
      BY <2>3 DEF WriteNewControlFile, writeVars, shared
    <3>2. Last = AllDone /\ sums = NoSums
      BY <3>1 DEF IInv, Calm, HandOverInv
    <3>3. \A s \in Suffix : ctl'[s].sums = sums'
      BY <2>1, <3>1, <3>2 DEF IInv, TypeOK, NoFile
    <3>4. ctl'[suffix'].last = AllDone
      BY <3>1, <3>2 DEF IInv, TypeOK
    <3>5. ~Pending' /\ ~Written' /\ Waiting'
      BY <2>1, <3>1 DEF Pending, Written, Waiting
    <3>6. \A s \in Suffix : Near(s)'
      BY <3>3, <3>5 DEF Near, DiffersOnly, Waiting, Written
    <3>7. loaded'
      BY <2>3 DEF WriteNewControlFile
    <3>8. ~(ctl'[suffix'].last >= 0)
      BY <3>4 DEF AllDone
    <3>9. QED  BY <3>5, <3>6, <3>7, <3>8 DEF FirstInv
  <2>4. CASE ~BootStrap /\ ~WriteNewControlFile
    <3>1. CASE InitControlFile
      BY <2>1, <3>1 DEF InitControlFile, disk, shared, writeVars, FirstInv, Pending
    <3>2. CASE AnnounceWritten \/ WaitForSignal
      BY <1>3, <2>1, <3>2 DEF AnnounceWritten, WaitForSignal, disk, headers, shared, FirstInv, Pending
    <3>3. CASE UNCHANGED vars
      BY <1>3, <2>1, <3>3 DEF vars, disk, headers, shared, writeVars, FirstInv, Pending
    <3>4. QED
      BY <1>a, <1>2, <1>3, <2>1, <2>4, <3>1, <3>2, <3>3
      DEF CalmNext, GetNextChunk, WriteFile, WaitTooLong, SignalAgain,
          FillBuffer, SignalWriter, MarkSuccessful, CheckChunkSHA2, TakeChunk, StoreChunk,
          StoreFails, RecordSum, HashControlFile, WriteControlFile, CopyHeader, FlipHeader,
          FlipSuffix
  <2>5. QED  BY <2>2, <2>3, <2>4
<1>4. CASE loaded
  <2>1. ~BootStrap /\ ~InitControlFile /\ ~WriteNewControlFile
    BY <1>4 DEF IInv, Calm, HandOverInv, BootStrap, InitControlFile, WriteNewControlFile
  <2>2. \A s \in Suffix : Near(s)'
    BY <1>2, <1>4, NearStep DEF FirstInv
  <2>3. /\ loaded' /\ (Last' = Last \/ MarkSuccessful)
        /\ \A s \in Suffix : Readable(ctl[s]) => ctl[s].last <= Last
    BY <1>2, <1>4, <2>1, LastMoves DEF KeptInv, LastsInv
  <2>4. loaded'
    BY <1>2, <1>4, <2>1, LastMoves
  <2>5. CASE WriteControlFile
    <3>1. Near(suffix)
      BY <1>0, <1>2, <1>4 DEF FirstInv
    <3>2. Readable(ctl'[suffix']) /\ ctl'[suffix'].last = Last' /\ Written'
      BY <2>5, <3>1, FileWritten, WindowSuffices DEF Written
    <3>3. QED  BY <2>2, <2>4, <3>2 DEF FirstInv
  <2>6. CASE FlipSuffix
    <3>1. /\ Written /\ ~Written' /\ ctl' = ctl /\ suffix' = 3 - suffix
      BY <1>4, <2>6 DEF FlipSuffix, NextSuffix, disk, Written, IInv, Calm
    <3>2. Readable(ctl[suffix]) /\ ctl[suffix].last = Last
      BY <1>2, <1>4, <3>1 DEF FirstInv
    <3>3. 3 - suffix' = suffix
      BY <1>0, <3>1 DEF Suffix
    <3>4. Readable(ctl[suffix']) => ctl[suffix'].last <= Last
      BY <1>0, <2>3
    <3>5. QED  BY <2>2, <2>4, <3>1, <3>2, <3>3, <3>4 DEF FirstInv
  <2>7. CASE ~WriteControlFile /\ ~FlipSuffix
    <3>1. UNCHANGED <<ctl, suffix>>
      BY <1>a, <1>2, <2>1, <2>7 DEF CalmNext,
        GetNextChunk, WriteFile, WaitTooLong, SignalAgain, FillBuffer, SignalWriter,
        MarkSuccessful, CheckChunkSHA2, AnnounceWritten, WaitForSignal, TakeChunk, StoreChunk,
        StoreFails, RecordSum, HashControlFile, CopyHeader, FlipHeader, vars, headers, disk
    <3>2. Written' = Written
      BY <1>a, <1>2, <2>1, <2>7 DEF CalmNext,
        GetNextChunk, WriteFile, WaitTooLong, SignalAgain, FillBuffer, SignalWriter, WakeWriter,
        MarkSuccessful, CheckChunkSHA2, AnnounceWritten, WaitForSignal, TakeChunk, StoreChunk,
        StoreFails, RecordSum, HashControlFile, CopyHeader, FlipHeader, vars, writeVars, Written
    <3>3. Written => Last' = Last
      <4>1. Written => ~MarkSuccessful
        BY DEF Written, MarkSuccessful, IInv, Calm, HandOverInv
      <4>2. QED  BY <1>2, <2>1, <4>1, LastMoves
    <3>4. QED  BY <1>2, <1>4, <2>2, <2>4, <3>1, <3>2, <3>3 DEF FirstInv
  <2>8. QED  BY <2>5, <2>6, <2>7
<1>5. QED  BY <1>3, <1>4

\* The first cut, even while a control file is being written, costs nothing: the
\* other file records as much as the one that is torn.
LEMMA FirstCutKeeps ==
  ASSUME IInv, IInv', KeptInv, FirstInv, faults = 0, PowerCut
  PROVE  ChunksKept' >= ChunksKept
<1>0. suffix \in Suffix /\ \A s \in Suffix : ctl[s].last \in Int /\ ctl'[s].last \in Int
  BY ChunksAssumption DEF IInv, TypeOK, Lasts
<1>1. imageExists => imageExists'
  BY DEF PowerCut
<1>2. PICK f \in Mixtures(ctl[suffix], Unsynced) : ctl' = [ctl EXCEPT ![suffix] = f]
  BY DEF PowerCut
<1>3. \A s \in Suffix : s # suffix => ctl'[s] = ctl[s]
  BY <1>2 DEF IInv, TypeOK
<1>4. SUFFICES ASSUME NEW s \in Suffix, Readable(ctl[s]), ctl[s].last >= 0
               PROVE  \E t \in Suffix : Readable(ctl'[t]) /\ ctl[s].last <= ctl'[t].last
  BY <1>1, KeptByFiles
<1>5. loaded
  BY <1>4, NoFileUnreadable DEF FirstInv
<1>6. poll # "initctl"
  BY <1>5 DEF IInv, Calm, HandOverInv
<1>7. CASE s # suffix
  BY <1>0, <1>3, <1>4, <1>7
<1>8. CASE s = suffix /\ writer = "ctl"
  <2>1. Readable(ctl[3 - suffix]) /\ ctl[suffix].last <= ctl[3 - suffix].last
    BY <1>4, <1>5, <1>8 DEF FirstInv, Written
  <2>2. 3 - suffix \in Suffix /\ 3 - suffix # suffix
    BY <1>0 DEF Suffix
  <2>3. ctl'[3 - suffix] = ctl[3 - suffix]
    BY <1>3, <2>2
  <2>4. QED  BY <1>8, <2>1, <2>2, <2>3
<1>9. CASE writer # "ctl"
  <2>1. Unsynced = ctl[suffix]
    BY <1>6, <1>9 DEF Unsynced
  <2>2. f.last = ctl[suffix].last /\ f.sums = ctl[suffix].sums /\ f.final = ctl[suffix].final
    BY <2>1 DEF Mixtures
  <2>3. ctl'[suffix] = f
    BY <1>0, <1>2 DEF IInv, TypeOK
  <2>4. CASE s = suffix
    <3>1. Readable(ctl'[s]) /\ ctl'[s].last = ctl[s].last
      BY <1>4, <2>2, <2>3, <2>4 DEF Readable
    <3>2. QED  BY <1>0, <3>1
  <2>5. QED  BY <1>7, <2>4
<1>10. QED  BY <1>7, <1>8, <1>9

\* The property of the run, with one power cut: nothing costs a chunk that is recorded, as
\* long as no uploader returns and no system call fails.
THEOREM FirstCutCostsNothing ==
  ASSUME Rare = {}, MaxFaults <= 1
  PROVE  Spec => KeptNeverDrops
<1> USE DEF KeptNeverDrops
<1>0. Rare \subseteq {"reconnect"}
  OBVIOUS
<1>1. Init => FirstInv
  BY DEF Init, FirstInv, Pending
<1>2. IInv /\ IInv' /\ KeptInv /\ KeptInv' /\ FirstInv /\ [Next]_vars => FirstInv'
  BY FirstStep
<1>3. ASSUME IInv, IInv', KeptInv, KeptInv', FirstInv, [Next]_vars
      PROVE  [ChunksKept' >= ChunksKept \/ (PowerCut /\ resumed)]_vars
  <2>1. PowerCut => faults = 0
    BY <1>3, BoundsAssumption DEF PowerCut, IInv, TypeOK
  <2>2. QED  BY <1>0, <1>3, <2>1, FirstCutKeeps, PoweredStepKeeps
<1>4. Spec => [](IInv /\ KeptInv)
  BY <1>0, Invariant, OneFileIsKept, PTL
<1>5. QED  BY <1>1, <1>2, <1>3, <1>4, PTL DEF Spec

=============================================================================
