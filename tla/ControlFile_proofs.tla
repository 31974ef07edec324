------------------------- MODULE ControlFile_proofs -------------------------
(***************************************************************************)
(* Proofs about the chunk store, for every number of chunks, every size of *)
(* the rewritten window and every number of power cuts.                    *)
(***************************************************************************)
EXTENDS ControlFile, TLAPS, WellFoundedInduction

\* A final sum that is sound: it covers a prefix of correct sums, and a correct
\* sum is the sum of a chunk that is in the image.
Backed(img, ss) == \A c \in Chunk : ss[c] = c => img[c] = c

Sound(img, f) ==
  /\ f.last < Chunks
  /\ \A c \in Chunk : c <= f.last => f.sums[c] = c
  /\ Backed(img, f.sums)

\* A chunk was handed over and its sum is not recorded yet.
Pending == writtenStatus = 0 /\ writer \in {"lock", "wait", "woken", "write", "record"}

DiskInv ==
  /\ NoMisplacedChunk
  /\ \A s \in Suffix : Sound(image, ctl[s].final)
  /\ \A s \in Suffix : Backed(image, ctl[s].sums)

MemoryInv ==
  /\ Sound(image, finalSum)
  /\ Backed(image, sums)
  /\ loaded => /\ Last < Chunks
               /\ \A c \in Chunk : c <= Last => sums[c] = c \/ (Pending /\ c = PD.chunk)
  /\ writer = "flip" => header[1 - currHeader] = Last

\* What the two threads know of each other.
HandOverInv ==
  /\ PD.ok
  /\ poll = "off" <=> writer = "off"
  /\ poll = "off" => currHeader = 0 /\ writtenStatus = 0
  /\ loaded => poll \notin {"off", "initctl"}
  /\ ~loaded => asked = Unknown
  /\ poll = "initctl" => Last = AllDone /\ sums = NoSums
  /\ writtenStatus = 1 => writer \in {"lock", "wait"}
  /\ poll = "signal" => writer \in {"lock", "wait"}
  /\ poll = "mark" => writer \in {"lock", "wait", "woken", "write"}
  /\ poll \in {"signal", "mark"} => writtenStatus = 0 /\ chunk = PD.chunk
  /\ poll = "resignal" => writer = "wait" /\ writtenStatus = 0
  /\ poll \in {"wait", "resignal"} => chunk \in Chunk /\ chunk = Last + 1 /\ data = chunk
  /\ asked # Unknown => poll = "idle" /\ (asked \in Chunk => asked = Last + 1)

BufferInv ==
  /\ Pending => /\ PD.chunk \in Chunk /\ buffer = PD.chunk
                /\ poll \in {"signal", "mark"} => Last = PD.chunk - 1
                /\ Last <= PD.chunk \/ image[PD.chunk] = PD.chunk
  /\ writer \in {"woken", "write", "record"} => writtenStatus = 0
  /\ writer \in {"write", "record"} => wchunk = PD.chunk
  /\ writer = "record" => sha2 = wchunk /\ image[wchunk] = wchunk

\* No control file is read while the writer is at work, and the suffix is empty only
\* before an upload.
Calm ==
  /\ poll \notin {"reload", "cleared", "overrun"}
  /\ noSuffix => ~loaded /\ poll # "initctl"
  /\ ~loaded => /\ poll \in {"off", "idle", "initctl"}
                /\ writer \in {"off", "loop", "lock", "wait"}

\* The inductive invariant.
IInv == TypeOK /\ Calm /\ DiskInv /\ MemoryInv /\ HandOverInv /\ BufferInv

-----------------------------------------------------------------------------
(* Operators *)

\* A non-empty set of natural numbers has a smallest element.
LEMMA Smallest ==
  ASSUME NEW S \in SUBSET Nat, S # {}
  PROVE  \E m \in S : \A n \in S : m <= n
<1>1. PICK m \in S : \A n \in S : ~(<<n, m>> \in OpToRel(<, Nat))
  BY NatLessThanWellFounded, WFMin
<1>2. \A n \in S : ~(n < m)
  BY <1>1 DEF OpToRel
<1>3. QED  BY <1>2

\* CheckStoredImage returns a chunk number, or -1, not beyond the header's.
LEMMA CheckStoredImageType ==
  ASSUME NEW f, f.last \in Lasts
  PROVE  CheckStoredImage(f) \in Lasts /\ CheckStoredImage(f) <= f.last
<1>1. f.last \in Lasts
  OBVIOUS
<1>2. CASE Mismatches(f) = {}
  BY <1>1, <1>2, ChunksAssumption DEF CheckStoredImage, Lasts
<1>3. CASE Mismatches(f) # {}
  <2>1. Mismatches(f) \in SUBSET Nat /\ Mismatches(f) \subseteq Chunk
    BY ChunksAssumption DEF Mismatches, Chunk
  <2>2. \E c \in Mismatches(f) : \A d \in Mismatches(f) : c <= d
    BY <1>3, <2>1, Smallest
  <2> DEFINE first == CHOOSE c \in Mismatches(f) : \A d \in Mismatches(f) : c <= d
  <2>3. first \in Mismatches(f)
    BY <2>2
  <2>4. first \in Chunk /\ first < f.last
    BY <2>3 DEF Mismatches
  <2>5. CheckStoredImage(f) = first - 1
    BY <1>3 DEF CheckStoredImage
  <2>6. QED  BY <1>1, <2>4, <2>5, ChunksAssumption DEF Chunk, Lasts
<1>4. QED  BY <1>2, <1>3

-----------------------------------------------------------------------------
(* Types *)

\* So are the sums that are written while the header is cleared.
LEMMA FinalSumType == TypeOK => FinalSum \in FinalSums /\ WrongSum \in FinalSums
<1>1. WrongSum \in FinalSums
  BY ChunksAssumption DEF WrongSum, FinalSums, Sum, Content, Unknown
<1>2. QED  BY <1>1 DEF FinalSum, TypeOK

\* A file rewritten, wholly or in its window, is a control file.
LEMMA RewrittenType ==
  ASSUME TypeOK, NEW s \in Suffix, NEW n
  PROVE  Rewritten(ctl[s], n) \in [last : Lasts, sums : [Chunk -> Sum], final : FinalSums]
<1>1. Last \in Lasts
  BY DEF TypeOK, Last
<1>2. ctl[s].sums \in [Chunk -> Sum] /\ sums \in [Chunk -> Sum] /\ FinalSum \in FinalSums
  BY FinalSumType DEF TypeOK
<1>3. Rewritten(ctl[s], n).sums \in [Chunk -> Sum]
  BY <1>2 DEF Rewritten
<1>4. QED  BY <1>1, <1>2, <1>3 DEF Rewritten

\* So is a mixture of two control files.
LEMMA MixtureType ==
  ASSUME NEW File, File = [last : Lasts, sums : [Chunk -> Sum], final : FinalSums],
         NEW old \in File, NEW new \in File, NEW f \in Mixtures(old, new)
  PROVE  f \in File
BY DEF Mixtures

\* What a reader finds of a control file, and what a power cut leaves of it.
LEMMA UnsyncedType ==
  ASSUME TypeOK, NEW File, File = [last : Lasts, sums : [Chunk -> Sum], final : FinalSums]
  PROVE  /\ Unsynced \in File /\ suffix \in Suffix
         /\ \A f \in Mixtures(ctl[suffix], Unsynced) : f \in File
         /\ \A s \in Suffix : \A f \in AsRead(s) : f \in File
<1>1. Unsynced \in File /\ suffix \in Suffix /\ \A s \in Suffix : ctl[s] \in File
  BY RewrittenType DEF TypeOK, Unsynced, Last
<1>2. \A s \in Suffix : \A f \in Mixtures(ctl[s], Unsynced) : f \in File
  BY <1>1, MixtureType
<1>3. QED  BY <1>1, <1>2 DEF AsRead

\* A write that fails leaves an image.
LEMMA TornImage ==
  ASSUME TypeOK, NEW p \in Chunk, imageExists' \in {imageExists, TRUE},
         \E t \in TornWrite(image[p], buffer) : image' = [image EXCEPT ![p] = t]
  PROVE  image' \in [Chunk -> Content] /\ imageExists' \in BOOLEAN
<1>1. PICK t \in TornWrite(image[p], buffer) : image' = [image EXCEPT ![p] = t]
  OBVIOUS
<1>2. t \in Content
  BY DEF TypeOK, TornWrite, Content
<1>3. image' \in [Chunk -> Content]
  BY <1>1, <1>2 DEF TypeOK
<1>4. QED  BY <1>3 DEF TypeOK

\* BootStrap resumes from a file it could read, with the number found in it.
LEMMA BestFile ==
  ASSUME TypeOK, Resumable
  PROVE  /\ Best \in Suffix
         /\ LastOf(Best) = CheckStoredImage(ctl[Best]) /\ LastOf(Best) \in Lasts
         /\ Readable(ctl[Best]) /\ imageExists
<1>1. ASSUME NEW s \in Suffix
      PROVE  LastOf(s) = Nothing \/ LastOf(s) \in Lasts
  BY CheckStoredImageType DEF LastOf, TypeOK
<1>2. LastOf(1) \in Int /\ LastOf(2) \in Int
  BY <1>1, ChunksAssumption DEF Suffix, Lasts, Nothing
<1>3. LastOf(Best) # Nothing
  BY <1>1, <1>2, ChunksAssumption DEF Resumable, Best, Suffix, Lasts, Nothing
<1>4. Best \in Suffix
  BY DEF Best, Suffix
<1>5. QED  BY <1>1, <1>3, <1>4 DEF LastOf

\* Reading the best file leaves a header, sums and a suffix.
LEMMA LoadBestType ==
  ASSUME TypeOK, LoadBest
  PROVE  /\ header' \in [{0, 1} -> Lasts] /\ sums' \in [Chunk -> Sum]
         /\ finalSum' \in FinalSums /\ suffix' \in Suffix
         /\ noSuffix' \in BOOLEAN /\ loaded' \in BOOLEAN /\ resumed' \in BOOLEAN
<1> USE ChunksAssumption
<1>0. loaded' \in BOOLEAN /\ resumed' \in BOOLEAN
  BY DEF LoadBest, Resumable
<1>1. CASE Resumable
  <2>1. Best \in Suffix /\ LastOf(Best) \in Lasts
    BY <1>1, BestFile
  <2>2. header[0] \in Lasts /\ 0 \in Lasts
    BY DEF TypeOK, Lasts
  <2>3. header' \in [{0, 1} -> Lasts]
    <3>1. header' = [h \in {0, 1} |-> IF h = currHeader THEN LastOf(Best)
                                     ELSE IF h = 1 THEN 0 ELSE header[h]]
      BY <1>1 DEF LoadBest
    <3> DEFINE L == LastOf(Best)
    <3>2. L \in Lasts
      BY <2>1
    <3> HIDE DEF L
    <3>3. \A h \in {0, 1} : (IF h = currHeader THEN L
                            ELSE IF h = 1 THEN 0 ELSE header[h]) \in Lasts
      BY <2>2, <3>2
    <3>4. QED  BY <3>1, <3>3 DEF L
  <2>4. sums' \in [Chunk -> Sum] /\ finalSum' \in FinalSums
    BY <1>1, <2>1 DEF LoadBest, TypeOK
  <2>5. QED  BY <1>0, <1>1, <2>1, <2>3, <2>4 DEF LoadBest
<1>2. CASE ~Resumable
  BY <1>0, <1>2 DEF LoadBest, TypeOK
<1>3. QED  BY <1>1, <1>2

\* What a new start of the program finds.
LEMMA LoseMemoryType ==
  ASSUME LoseMemory
  PROVE  /\ header' \in [{0, 1} -> Lasts] /\ currHeader' \in {0, 1}
         /\ sums' \in [Chunk -> Sum] /\ finalSum' \in FinalSums
         /\ suffix' \in Suffix /\ noSuffix' = FALSE /\ loaded' = FALSE /\ resumed' = FALSE
         /\ writtenStatus' \in {0, 1}
         /\ PD' \in [chunk : ChunkNo, before : Lasts, ok : BOOLEAN]
         /\ buffer' \in Content /\ sha2' \in Content
         /\ poll' = "off" /\ writer' = "off" /\ verdict' = "none"
         /\ chunk' \in ChunkNo /\ wchunk' \in ChunkNo /\ data' \in Chunk /\ asked' = Unknown
<1> USE ChunksAssumption
<1>1. /\ header' \in [{0, 1} -> Lasts] /\ currHeader' \in {0, 1}
      /\ sums' \in [Chunk -> Sum] /\ finalSum' \in FinalSums
  BY DEF LoseMemory, NoFile, NoSums, FinalSums, Sum, Lasts, Unknown
<1>2. PD' \in [chunk : ChunkNo, before : Lasts, ok : BOOLEAN]
  BY DEF LoseMemory, FreshPD, ChunkNo, Lasts
<1>3. QED
  BY <1>1, <1>2 DEF LoseMemory, Suffix, Content, Chunk, ChunkNo

\* Every action preserves the types, whatever rare event happens.
LEMMA TypeStep == TypeOK /\ [Next]_vars => TypeOK'
<1> SUFFICES ASSUME TypeOK, [Next]_vars PROVE TypeOK'
  OBVIOUS
<1> USE ChunksAssumption
<1> DEFINE File == [last : Lasts, sums : [Chunk -> Sum], final : FinalSums]
<1>1. CASE BootStrap
  <2>1. /\ header' \in [{0, 1} -> Lasts] /\ sums' \in [Chunk -> Sum]
        /\ finalSum' \in FinalSums /\ suffix' \in Suffix
        /\ noSuffix' \in BOOLEAN /\ loaded' \in BOOLEAN /\ resumed' \in BOOLEAN
    BY <1>1, LoadBestType DEF BootStrap
  <2>2. writtenStatus' \in {0, 1} /\ PD' \in [chunk : ChunkNo, before : Lasts, ok : BOOLEAN]
    BY <1>1 DEF BootStrap, TypeOK
  <2>3. UNCHANGED <<disk, currHeader, buffer, chunk, asked, data, verdict, wchunk, sha2,
                    faults>>
    BY <1>1 DEF BootStrap
  <2>4. poll' = "idle" /\ writer' = "loop"
    BY <1>1 DEF BootStrap
  <2>5. QED  BY <2>1, <2>2, <2>3, <2>4 DEF TypeOK, disk
<1>2a. CASE CheckVersion
  <2>1. /\ header' \in [{0, 1} -> Lasts] /\ sums' \in [Chunk -> Sum]
        /\ finalSum' \in FinalSums /\ suffix' \in Suffix
        /\ noSuffix' \in BOOLEAN /\ loaded' \in BOOLEAN /\ resumed' \in BOOLEAN
    BY <1>2a, LoadBestType DEF CheckVersion
  <2>2. asked' = Unknown
    BY <1>2a DEF CheckVersion
  <2>3. UNCHANGED <<disk, currHeader, shared, poll, chunk, data, verdict, writeVars, faults>>
    BY <1>2a DEF CheckVersion
  <2>4. QED  BY <2>1, <2>2, <2>3 DEF TypeOK, disk, shared, writeVars
<1>2. CASE PowerCut
  <2>1. image' \in [Chunk -> Content] /\ imageExists' \in BOOLEAN
    <3>1. CASE writer = "write" /\ wchunk \in Chunk
      <4>1. PICK p \in Chunk : p = Place
        BY <3>1 DEF Place, Chunk
      <4>2. QED  BY <1>2, <3>1, <4>1, TornImage DEF PowerCut
    <3>2. CASE ~(writer = "write" /\ wchunk \in Chunk)
      BY <1>2, <3>2 DEF PowerCut, TypeOK
    <3>3. QED  BY <3>1, <3>2
  <2>2. ctl' \in [Suffix -> File]
    <3>1. PICK f \in Mixtures(ctl[suffix], Unsynced) : ctl' = [ctl EXCEPT ![suffix] = f]
      BY <1>2 DEF PowerCut
    <3>2. f \in File
      BY UnsyncedType
    <3>3. QED  BY <3>1, <3>2 DEF TypeOK
  <2>3. faults' \in Nat /\ LoseMemory
    BY <1>2 DEF PowerCut, TypeOK
  <2>4. QED
    BY <2>1, <2>2, <2>3, LoseMemoryType DEF TypeOK
<1>2b. CASE BeginReload \/ ClearHeaders
  <2>1. header' \in [{0, 1} -> Lasts]
    BY <1>2b DEF BeginReload, ClearHeaders, TypeOK, headers, Lasts
  <2>2. finalSum' \in FinalSums /\ noSuffix' \in BOOLEAN
    <3>1. NoFile.final \in FinalSums
      BY DEF NoFile, NoSums, FinalSums, Sum, Unknown
    <3>2. QED  BY <1>2b, <3>1 DEF BeginReload, ClearHeaders, TypeOK, headers
  <2>3. poll' \in {"reload", "cleared", "overrun"} /\ asked' \in {asked, Unknown} /\ faults' \in Nat
    BY <1>2b DEF BeginReload, ClearHeaders, TypeOK
  <2>4. UNCHANGED <<disk, currHeader, sums, suffix, loaded, resumed, shared, chunk, data, verdict,
                    writeVars>>
    BY <1>2b DEF BeginReload, ClearHeaders, headers
  <2>5. QED  BY <2>1, <2>2, <2>3, <2>4 DEF TypeOK, disk, shared, writeVars
<1>2c. CASE ReadControlFile
  <2>1. PICK s \in Suffix : \E f \in AsRead(s) :
            header' = [header EXCEPT ![currHeader] = f.last] /\ sums' = f.sums /\ finalSum' = f.final
    BY <1>2c DEF ReadControlFile
  <2>2. PICK f \in File :
            header' = [header EXCEPT ![currHeader] = f.last] /\ sums' = f.sums /\ finalSum' = f.final
    BY <2>1, UnsyncedType
  <2>3. /\ header' \in [{0, 1} -> Lasts] /\ sums' \in [Chunk -> Sum] /\ finalSum' \in FinalSums
    BY <2>2 DEF TypeOK
  <2>4. /\ poll' = "reload"
        /\ UNCHANGED <<disk, currHeader, suffix, noSuffix, loaded, resumed, shared, chunk, asked, data,
                        verdict, writeVars, faults>>
    BY <1>2c DEF ReadControlFile
  <2>5. QED  BY <2>3, <2>4 DEF TypeOK, disk, shared, writeVars
<1>2d. CASE EndReload
  <2>1. /\ poll' = "idle"
        /\ UNCHANGED <<disk, currHeader, shared, chunk, asked, data, verdict, writeVars, faults>>
    BY <1>2d DEF EndReload
  <2>2. /\ header' \in [{0, 1} -> Lasts] /\ sums' \in [Chunk -> Sum] /\ finalSum' \in FinalSums
        /\ suffix' \in Suffix /\ noSuffix' \in BOOLEAN /\ loaded' \in BOOLEAN /\ resumed' \in BOOLEAN
    <3>1. CASE UNCHANGED <<header, sums, finalSum, suffix, noSuffix>> /\ ~loaded' /\ ~resumed'
      BY <1>2d, <3>1 DEF EndReload, TypeOK
    <3>2. CASE ~(UNCHANGED <<header, sums, finalSum, suffix, noSuffix>> /\ ~loaded' /\ ~resumed')
      <4>1. /\ noSuffix' = FALSE /\ loaded' = TRUE /\ resumed' = TRUE
            /\ \E s \in Suffix : \E f \in AsRead(s) :
                 /\ header' = [header EXCEPT ![currHeader] = CheckStoredImage(f)]
                 /\ sums' = f.sums /\ finalSum' = f.final /\ suffix' = s
        BY <1>2d, <3>2 DEF EndReload
      <4>2. PICK s \in Suffix, f \in File :
                 /\ header' = [header EXCEPT ![currHeader] = CheckStoredImage(f)]
                 /\ sums' = f.sums /\ finalSum' = f.final /\ suffix' = s
        BY <4>1, UnsyncedType
      <4>3. CheckStoredImage(f) \in Lasts
        BY CheckStoredImageType
      <4>4. header' \in [{0, 1} -> Lasts]
        BY <4>2, <4>3 DEF TypeOK
      <4>5. QED  BY <4>1, <4>2, <4>4
    <3>3. QED  BY <3>1, <3>2
  <2>3. QED  BY <2>1, <2>2 DEF TypeOK, disk, shared, writeVars
<1>2e. CASE WriteOverImage
  <2>1. image' \in [Chunk -> Content]
    BY <1>2e DEF WriteOverImage, TypeOK, Content
  <2>2. /\ imageExists' = TRUE /\ writer' = "copy"
        /\ UNCHANGED <<ctl, headers, shared, pollVars, wchunk, sha2, faults>>
    BY <1>2e DEF WriteOverImage
  <2>3. QED  BY <2>1, <2>2 DEF TypeOK, headers, shared, pollVars
<1>2f. CASE DaemonEnds
  <2>1. ctl' \in [Suffix -> File]
    <3>1. PICK f \in Mixtures(ctl[suffix], Unsynced) : ctl' = [ctl EXCEPT ![suffix] = f]
      BY <1>2f DEF DaemonEnds
    <3>2. f \in File
      BY UnsyncedType
    <3>3. QED  BY <3>1, <3>2 DEF TypeOK
  <2>2. LoseMemory /\ UNCHANGED <<image, imageExists, faults>>
    BY <1>2f DEF DaemonEnds
  <2>3. QED  BY <2>1, <2>2, LoseMemoryType DEF TypeOK
<1>3. CASE InitControlFile
  <2>1. NoSums \in [Chunk -> Sum] /\ AllDone \in Lasts /\ SumOf(AllDone, NoSums) \in FinalSums
    BY DEF SumOf, NoSums, FinalSums, Sum, AllDone, NoSum, Lasts
  <2>2. header' \in [{0, 1} -> Lasts] /\ suffix' \in Suffix
    BY <1>3, <2>1 DEF InitControlFile, TypeOK, Suffix
  <2>3. sums' \in [Chunk -> Sum] /\ finalSum' \in FinalSums /\ noSuffix' \in BOOLEAN /\ poll' = "initctl"
    BY <1>3, <2>1 DEF InitControlFile
  <2>4. UNCHANGED <<disk, currHeader, loaded, resumed, shared, chunk, asked, data, verdict,
                    writeVars, faults>>
    BY <1>3 DEF InitControlFile
  <2>5. QED  BY <2>2, <2>3, <2>4 DEF TypeOK, disk, shared, writeVars
<1>4. CASE WriteNewControlFile
  BY <1>4 DEF WriteNewControlFile, TypeOK, shared, writeVars, Last
<1>5. CASE GetNextChunk
  BY <1>5 DEF GetNextChunk, TypeOK, disk, headers, shared, writeVars, Last, NextChunk, Chunk, AllDone, Lasts
<1>6. CASE WriteFile
  <2>1. NextChunk(Last) # AllDone => NextChunk(Last) \in ChunkNo
    BY DEF TypeOK, Last, NextChunk, ChunkNo, AllDone, Lasts
  <2>2. chunk' \in ChunkNo
    BY <1>6, <2>1 DEF WriteFile, TypeOK, ChunkNo
  <2>3. header' \in [{0, 1} -> Lasts]
    BY <1>6 DEF WriteFile, TypeOK
  <2>4. data' \in Chunk /\ poll' \in {poll, "wait"} /\ asked' = Unknown
    BY <1>6 DEF WriteFile, TypeOK
  <2>5. UNCHANGED <<disk, currHeader, sums, finalSum, suffix, noSuffix, loaded, resumed, shared,
                    verdict, writeVars, faults>>
    BY <1>6 DEF WriteFile
  <2> QED
    BY <2>2, <2>3, <2>4, <2>5 DEF TypeOK, disk, shared, writeVars
<1>7. CASE WaitTooLong
  BY <1>7 DEF WaitTooLong, TypeOK, disk, headers, shared, writeVars
<1>8. CASE SignalAgain
  BY <1>8 DEF SignalAgain, WakeWriter, TypeOK, disk, headers, shared
<1>9. CASE FillBuffer
  <2>1. Last \in Lasts /\ chunk \in ChunkNo
    BY DEF TypeOK, Last
  <2>2. PD' = [PD EXCEPT !.chunk = chunk, !.before = Last]
    BY <1>9 DEF FillBuffer
  <2>3. PD' \in [chunk : ChunkNo, before : Lasts, ok : BOOLEAN]
    BY <2>1, <2>2 DEF TypeOK
  <2>4. buffer' \in Content /\ writtenStatus' = 0 /\ poll' = "signal"
    BY <1>9 DEF FillBuffer, TypeOK, Content
  <2>5. UNCHANGED <<disk, headers, chunk, asked, data, verdict, writeVars, faults>>
    BY <1>9 DEF FillBuffer
  <2>6. QED  BY <2>3, <2>4, <2>5 DEF TypeOK, disk, headers, writeVars
<1>10. CASE SignalWriter
  BY <1>10 DEF SignalWriter, WakeWriter, TypeOK, disk, headers, shared
<1>11. CASE MarkSuccessful
  BY <1>11 DEF MarkSuccessful, TypeOK, disk, shared, writeVars, ChunkNo, Lasts
<1>12. CASE CheckChunkSHA2
  BY <1>12 DEF CheckChunkSHA2, TypeOK, disk, headers, shared, writeVars
<1>13. CASE AnnounceWritten
  BY <1>13 DEF AnnounceWritten, TypeOK, disk, headers, pollVars
<1>14. CASE WaitForSignal
  BY <1>14 DEF WaitForSignal, TypeOK, disk, headers, shared, pollVars
<1>15. CASE TakeChunk
  BY <1>15 DEF TakeChunk, TypeOK, disk, headers, shared, pollVars
<1>16. CASE StoreChunk
  <2>1. image' \in [Chunk -> Content] /\ imageExists' = TRUE /\ sha2' \in Content
    BY <1>16 DEF StoreChunk, TypeOK
  <2>2. PD' \in [chunk : ChunkNo, before : Lasts, ok : BOOLEAN]
    BY <1>16 DEF StoreChunk, TypeOK
  <2>3. /\ writer' = "record"
        /\ UNCHANGED <<ctl, headers, writtenStatus, buffer, pollVars, wchunk, faults>>
    BY <1>16 DEF StoreChunk
  <2>4. QED  BY <2>1, <2>2, <2>3 DEF TypeOK, headers, pollVars
<1>17. CASE StoreFails
  <2>1. image' \in [Chunk -> Content] /\ imageExists' \in BOOLEAN /\ faults' \in Nat
    <3>1. CASE wchunk \in Chunk /\ poll \notin Cleared
      <4>1. /\ faults' = faults + 1 /\ imageExists' \in {imageExists, TRUE}
            /\ \E t \in TornWrite(image[wchunk], buffer) : image' = [image EXCEPT ![wchunk] = t]
        BY <1>17, <3>1 DEF StoreFails
      <4>2. image' \in [Chunk -> Content] /\ imageExists' \in BOOLEAN
        BY <3>1, <4>1, TornImage
      <4>3. QED  BY <4>1, <4>2 DEF TypeOK
    <3>2. CASE ~(wchunk \in Chunk /\ poll \notin Cleared)
      BY <1>17, <3>2 DEF StoreFails, TypeOK
    <3>3. QED  BY <3>1, <3>2
  <2>2. PD' \in [chunk : ChunkNo, before : Lasts, ok : BOOLEAN]
    BY <1>17 DEF StoreFails, TypeOK
  <2>3. QED  BY <1>17, <2>1, <2>2 DEF StoreFails, TypeOK, headers, pollVars
<1>18. CASE RecordSum
  BY <1>18 DEF RecordSum, TypeOK, disk, shared, pollVars, Sum
<1>19. CASE HashControlFile
  <2>1. SumOf(Last, sums) \in FinalSums
    BY DEF TypeOK, SumOf, FinalSums, Last, Lasts
  <2>2. finalSum' \in FinalSums
    BY <1>19, <2>1, FinalSumType DEF HashControlFile
  <2>3. QED  BY <1>19, <2>2 DEF HashControlFile, TypeOK, disk, shared, pollVars
<1>20. CASE WriteControlFile
  <2>1. Rewritten(ctl[suffix], PD.chunk) \in File /\ ctl[suffix] \in File /\ suffix \in Suffix
    BY RewrittenType DEF TypeOK
  <2>2. ctl' \in [Suffix -> File]
    <3>1. CASE ctl' = [ctl EXCEPT ![suffix] = Rewritten(ctl[suffix], PD.chunk)]
      BY <2>1, <3>1 DEF TypeOK
    <3>2. CASE \E f \in Mixtures(ctl[suffix], Rewritten(ctl[suffix], PD.chunk)) :
                 ctl' = [ctl EXCEPT ![suffix] = f]
      <4>1. PICK f \in Mixtures(ctl[suffix], Rewritten(ctl[suffix], PD.chunk)) :
              ctl' = [ctl EXCEPT ![suffix] = f]
        BY <3>2
      <4>2. f \in File
        BY <2>1, MixtureType
      <4>3. QED  BY <4>1, <4>2 DEF TypeOK
    <3>3. QED  BY <1>20, <3>1, <3>2 DEF WriteControlFile
  <2>3. faults' \in Nat
    BY <1>20 DEF WriteControlFile, TypeOK
  <2>4. /\ writer' = "copy"
        /\ UNCHANGED <<image, imageExists, headers, shared, pollVars, wchunk, sha2>>
    BY <1>20 DEF WriteControlFile
  <2>5. QED  BY <2>2, <2>3, <2>4 DEF TypeOK, headers, shared, pollVars
<1>21. CASE CopyHeader
  BY <1>21 DEF CopyHeader, TypeOK, disk, shared, pollVars, Last
<1>22. CASE FlipHeader
  BY <1>22 DEF FlipHeader, TypeOK, disk, shared, pollVars
<1>23. CASE FlipSuffix
  <2>0. suffix' \in {1, NextSuffix(suffix)} /\ suffix \in Suffix
    BY <1>23 DEF FlipSuffix, TypeOK
  <2>a. noSuffix' \in BOOLEAN
    BY <1>23 DEF FlipSuffix
  <2>1. suffix' \in Suffix /\ noSuffix' \in BOOLEAN
    BY <2>0, <2>a DEF NextSuffix, Suffix
  <2>2. /\ writer' = "loop"
        /\ UNCHANGED <<disk, header, currHeader, sums, finalSum, loaded, resumed, shared, pollVars,
                        wchunk, sha2, faults>>
    BY <1>23 DEF FlipSuffix
  <2>3. QED  BY <2>1, <2>2 DEF TypeOK, disk, shared, pollVars
<1>24. CASE UNCHANGED vars
  BY <1>24 DEF vars, TypeOK, disk, headers, shared, pollVars, writeVars
<1>25. QED
  BY <1>1, <1>2, <1>2a, <1>2b, <1>2c, <1>2d, <1>2e, <1>2f, <1>3, <1>4, <1>5, <1>6, <1>7, <1>8,
     <1>9, <1>10, <1>11, <1>12, <1>13, <1>14, <1>15, <1>16, <1>17, <1>18, <1>19, <1>20, <1>21,
     <1>22, <1>23, <1>24
  DEF Next, PollThread, IntThread

\* The initial state is typed: nothing on disk, both threads off.
LEMMA TypeInit == Init => TypeOK
<1> SUFFICES ASSUME Init PROVE TypeOK
  OBVIOUS
<1> USE ChunksAssumption
<1>1. NoSums \in [Chunk -> Sum]
  BY DEF NoSums, Sum
<1>2. NoFile.final \in FinalSums
  BY <1>1 DEF NoFile, FinalSums, Unknown
<1>3. NoFile \in [last : Lasts, sums : [Chunk -> Sum], final : FinalSums]
  BY <1>1, <1>2 DEF NoFile, Lasts, AllDone
<1>4. ctl \in [Suffix -> [last : Lasts, sums : [Chunk -> Sum], final : FinalSums]]
  BY <1>3 DEF Init
<1>5. header \in [{0, 1} -> Lasts] /\ sums \in [Chunk -> Sum] /\ finalSum \in FinalSums
  BY <1>1, <1>2 DEF Init, Lasts
<1>6. image \in [Chunk -> Content] /\ PD \in [chunk : ChunkNo, before : Lasts, ok : BOOLEAN]
  BY DEF Init, Content, FreshPD, ChunkNo, Lasts
<1>7. chunk \in ChunkNo /\ wchunk \in ChunkNo /\ data \in Chunk
  BY DEF Init, Chunk, ChunkNo
<1>8. suffix \in Suffix /\ buffer \in Content /\ sha2 \in Content
  BY DEF Init, Suffix, Content
<1>9. QED
  BY <1>4, <1>5, <1>6, <1>7, <1>8 DEF Init, TypeOK

\* Types hold for every instance and every rare event, a reload under the writer
\* included.
THEOREM TypeCorrect == Spec => []TypeOK
BY TypeInit, TypeStep, PTL DEF Spec

-----------------------------------------------------------------------------
(* Without a reload under the writer *)

\* The steps that are left.
CalmNext ==
  \/ BootStrap \/ PowerCut
  \/ CheckVersion \/ InitControlFile \/ WriteNewControlFile \/ GetNextChunk \/ WriteFile
  \/ WaitTooLong \/ SignalAgain \/ FillBuffer \/ SignalWriter \/ MarkSuccessful
  \/ CheckChunkSHA2
  \/ AnnounceWritten \/ WaitForSignal \/ TakeChunk \/ StoreChunk \/ StoreFails
  \/ RecordSum \/ HashControlFile \/ WriteControlFile
  \/ CopyHeader \/ FlipHeader \/ FlipSuffix

LEMMA CalmSteps ==
  ASSUME Calm, "overlap" \notin Rare, [Next]_vars
  PROVE  CalmNext \/ UNCHANGED vars
BY DEF CalmNext, Next, PollThread, IntThread, Calm, Cleared, BeginReload, ClearHeaders,
       ReadControlFile, EndReload, WriteOverImage, DaemonEnds

\* Then the chunk is written at its place, and the final sum is the one of the memory.
LEMMA CalmPlace ==
  ASSUME Calm
  PROVE  Place = wchunk /\ FinalSum = finalSum
BY DEF Calm, Cleared, Place, FinalSum

LEMMA CalmInit == Init => Calm
BY DEF Init, Calm

LEMMA CalmStep ==
  ASSUME "overlap" \notin Rare
  PROVE  Calm /\ [Next]_vars => Calm'
<1> SUFFICES ASSUME Calm, [Next]_vars PROVE Calm'
  OBVIOUS
<1>1. CASE BootStrap \/ CheckVersion
  BY <1>1 DEF BootStrap, CheckVersion, LoadBest, Calm, writeVars
<1>2. CASE PowerCut
  BY <1>2 DEF PowerCut, LoseMemory, Calm
<1>3. CASE InitControlFile \/ WriteNewControlFile
  BY <1>3 DEF InitControlFile, WriteNewControlFile, Calm, writeVars
<1>4. CASE GetNextChunk \/ WriteFile \/ CheckChunkSHA2 \/ UNCHANGED vars
  BY <1>4 DEF GetNextChunk, WriteFile, CheckChunkSHA2, Calm, vars, headers, pollVars, writeVars
<1>5. CASE WaitTooLong \/ SignalAgain \/ FillBuffer \/ SignalWriter \/ MarkSuccessful
  BY <1>5 DEF WaitTooLong, SignalAgain, FillBuffer, SignalWriter, MarkSuccessful, Calm, headers
<1>6. CASE AnnounceWritten \/ WaitForSignal \/ TakeChunk \/ StoreChunk \/ StoreFails
  <2>1. /\ UNCHANGED <<headers, pollVars>>
        /\ \/ writer = "loop" /\ writer' = "lock"
           \/ writer = "lock" /\ writer' = "wait"
           \/ writer \in {"woken", "write"}
    BY <1>6 DEF AnnounceWritten, WaitForSignal, TakeChunk, StoreChunk, StoreFails
  <2> QED
    BY <2>1 DEF Calm, headers, pollVars
<1>7. CASE RecordSum \/ HashControlFile \/ WriteControlFile \/ CopyHeader \/ FlipHeader
           \/ FlipSuffix
  BY <1>7 DEF RecordSum, HashControlFile, WriteControlFile, CopyHeader, FlipHeader, FlipSuffix,
              Calm, headers, pollVars
<1> QED
  BY <1>1, <1>2, <1>3, <1>4, <1>5, <1>6, <1>7, CalmSteps DEF CalmNext

-----------------------------------------------------------------------------
(* The disk *)

\* Without rare events the writer never fails: it is woken only after a chunk
\* was handed over, and that chunk is one of the image.
LEMMA WriterSucceeds ==
  ASSUME IInv, Rare \subseteq {"reconnect"}
  PROVE  ~StoreFails
BY DEF StoreFails, IInv, BufferInv, Pending, Calm, Cleared

\* Who writes the image, and who the control files.
LEMMA ImageWritten ==
  ASSUME IInv, Rare \subseteq {"reconnect"}, [Next]_vars
  PROVE  PowerCut \/ StoreChunk \/ image' = image
BY WriterSucceeds, CalmSteps
DEF IInv, CalmNext, BootStrap, CheckVersion, InitControlFile, WriteNewControlFile,
    GetNextChunk, WriteFile, WaitTooLong, SignalAgain, FillBuffer, SignalWriter,
    MarkSuccessful, CheckChunkSHA2, AnnounceWritten, WaitForSignal, TakeChunk,
    RecordSum, HashControlFile, WriteControlFile, CopyHeader, FlipHeader, FlipSuffix,
    vars, disk

LEMMA ControlFileWritten ==
  ASSUME IInv, Rare \subseteq {"reconnect"}, [Next]_vars
  PROVE  PowerCut \/ WriteNewControlFile \/ WriteControlFile \/ ctl' = ctl
BY CalmSteps
DEF IInv, CalmNext, BootStrap, CheckVersion, InitControlFile,
    GetNextChunk, WriteFile, WaitTooLong, SignalAgain, FillBuffer, SignalWriter,
    MarkSuccessful, CheckChunkSHA2, AnnounceWritten, WaitForSignal, TakeChunk, StoreChunk,
    StoreFails, RecordSum, HashControlFile, CopyHeader, FlipHeader, FlipSuffix, vars, disk

\* No step, a power cut included, destroys a chunk that is in its place: it is
\* overwritten only with itself.
LEMMA ChunkStays ==
  ASSUME IInv, Rare \subseteq {"reconnect"}, [Next]_vars, NEW c \in Chunk, image[c] = c
  PROVE  image'[c] = c
<1>1. CASE PowerCut
  <2>1. CASE writer = "write" /\ wchunk \in Chunk
    <3>1. buffer = wchunk
      BY <2>1 DEF IInv, BufferInv, Pending
    <3>2. PICK t \in TornWrite(image[wchunk], buffer) : image' = [image EXCEPT ![wchunk] = t]
      BY <1>1, <2>1, CalmPlace DEF PowerCut, IInv
    <3>3. c = wchunk => t = c
      BY <3>1, <3>2 DEF TornWrite
    <3>4. QED  BY <3>2, <3>3 DEF IInv, TypeOK
  <2>2. CASE ~(writer = "write" /\ wchunk \in Chunk)
    BY <1>1, <2>2 DEF PowerCut
  <2>3. QED  BY <2>1, <2>2
<1>2. CASE StoreChunk
  BY <1>2, CalmPlace DEF StoreChunk, IInv, TypeOK, BufferInv, Pending
<1>3. QED  BY <1>1, <1>2, ImageWritten

\* So a final sum that is sound stays sound.
LEMMA SoundStays ==
  ASSUME IInv, Rare \subseteq {"reconnect"}, [Next]_vars
  PROVE  /\ \A ss : Backed(image, ss) => Backed(image', ss)
         /\ \A f : Sound(image, f) => Sound(image', f)
<1>1. \A c \in Chunk : image[c] = c => image'[c] = c
  BY ChunkStays
<1>2. \A ss : Backed(image, ss) => Backed(image', ss)
  BY <1>1 DEF Backed
<1>3. QED  BY <1>2 DEF Sound

\* What a write of a control file leaves on disk, whole or in part, is backed by
\* the image, and so is its final sum.
LEMMA MixtureSound ==
  ASSUME NEW img, NEW old, NEW new, NEW f \in Mixtures(old, new),
         Backed(img, old.sums), Sound(img, old.final),
         Backed(img, new.sums), Sound(img, new.final)
  PROVE  Backed(img, f.sums) /\ Sound(img, f.final)
BY DEF Mixtures

LEMMA RewrittenSound ==
  ASSUME IInv, NEW s \in Suffix, NEW n
  PROVE  /\ Backed(image, Rewritten(ctl[s], n).sums)
         /\ Sound(image, Rewritten(ctl[s], n).final)
BY CalmPlace DEF IInv, DiskInv, MemoryInv, Rewritten, Backed

LEMMA DiskStep ==
  ASSUME IInv, Rare \subseteq {"reconnect"}, [Next]_vars
  PROVE  DiskInv'
<1> DEFINE Good(f) == Backed(image, f.sums) /\ Sound(image, f.final)
<1>1. NoMisplacedChunk'
  <2>1. CASE PowerCut
    <3>1. CASE writer = "write" /\ wchunk \in Chunk
      <4>1. buffer = wchunk
        BY <3>1 DEF IInv, BufferInv, Pending
      <4>2. PICK t \in TornWrite(image[wchunk], buffer) : image' = [image EXCEPT ![wchunk] = t]
        BY <2>1, <3>1, CalmPlace DEF PowerCut, IInv
      <4>3. t \in {Hole, Torn, wchunk}
        BY <3>1, <4>1 DEF TornWrite, IInv, DiskInv, NoMisplacedChunk
      <4>4. QED  BY <4>2, <4>3 DEF IInv, TypeOK, DiskInv, NoMisplacedChunk
    <3>2. CASE ~(writer = "write" /\ wchunk \in Chunk)
      BY <2>1, <3>2 DEF PowerCut, IInv, DiskInv, NoMisplacedChunk
    <3>3. QED  BY <3>1, <3>2
  <2>2. CASE StoreChunk
    BY <2>2, CalmPlace DEF StoreChunk, IInv, TypeOK, DiskInv, BufferInv, Pending, NoMisplacedChunk
  <2>3. CASE image' = image
    BY <2>3 DEF IInv, DiskInv, NoMisplacedChunk
  <2>4. QED  BY <2>1, <2>2, <2>3, ImageWritten
<1>2. ASSUME NEW s \in Suffix
      PROVE  Good(ctl'[s])
  <2>1. Good(ctl[s])
    BY DEF IInv, DiskInv
  <2>2. Good(Rewritten(ctl[suffix], PD.chunk)) /\ Good(ctl[suffix]) /\ suffix \in Suffix
    BY RewrittenSound DEF IInv, TypeOK, DiskInv
  <2>3. Good([last |-> Last, sums |-> sums, final |-> finalSum])
    BY DEF IInv, MemoryInv
  <2> HIDE DEF Good
  <2>4. ASSUME NEW f, Good(f), ctl' = [ctl EXCEPT ![suffix] = f]
        PROVE  Good(ctl'[s])
    BY <2>1, <2>4 DEF IInv, TypeOK
  <2>5. CASE PowerCut
    <3>1. Good(Unsynced)
      BY <2>2, <2>3 DEF Unsynced
    <3>2. PICK f \in Mixtures(ctl[suffix], Unsynced) : ctl' = [ctl EXCEPT ![suffix] = f]
      BY <2>5 DEF PowerCut
    <3>3. Good(f)
      BY <2>2, <3>1, MixtureSound DEF Good
    <3>4. QED  BY <2>4, <3>2, <3>3
  <2>6. CASE WriteNewControlFile
    BY <2>3, <2>4, <2>6 DEF WriteNewControlFile
  <2>7. CASE WriteControlFile
    BY <2>2, <2>4, <2>7 DEF WriteControlFile
  <2>8. CASE ctl' = ctl
    BY <2>1, <2>8
  <2>9. QED  BY <2>5, <2>6, <2>7, <2>8, ControlFileWritten
<1>3. \A s \in Suffix : Backed(image', ctl'[s].sums) /\ Sound(image', ctl'[s].final)
  BY <1>2, SoundStays
<1>4. QED  BY <1>1, <1>3 DEF DiskInv

\* What is loaded from the best file is sound: every chunk up to the last has its
\* sum, and is in the image.
LEMMA LoadBestSound ==
  ASSUME IInv, Rare \subseteq {"reconnect"}, [Next]_vars, LoadBest, currHeader' = currHeader
  PROVE  /\ Sound(image', finalSum') /\ Backed(image', sums') /\ Backed(image, sums')
         /\ Resumable => Last' < Chunks /\ \A c \in Chunk : c <= Last' => sums'[c] = c
<1> USE ChunksAssumption
<1>1. CASE ~Resumable
  BY <1>1, SoundStays DEF LoadBest, IInv, MemoryInv
<1>2. CASE Resumable
  <2> DEFINE f == ctl[Best]
  <2>1. /\ Best \in Suffix /\ LastOf(Best) = CheckStoredImage(f)
        /\ LastOf(Best) \in Lasts /\ Readable(f)
    BY <1>2, BestFile DEF IInv
  <2>2. LastOf(Best) <= f.last
    BY <2>1, CheckStoredImageType DEF IInv, TypeOK
  <2>3. Sound(image, f.final) /\ f.final = SumOf(f.last, f.sums)
    BY <2>1 DEF IInv, DiskInv, Readable
  <2>4. f.last < Chunks /\ Backed(image, f.sums) /\ \A c \in Chunk : c <= f.last => f.sums[c] = c
    BY <2>3 DEF Sound, SumOf
  <2>5. sums' = f.sums /\ finalSum' = f.final
    BY <1>2 DEF LoadBest
  <2>6. Last' = LastOf(Best)
    BY <1>2 DEF LoadBest, Last, IInv, TypeOK
  <2>7. f.last \in Lasts
    BY <2>1 DEF IInv, TypeOK
  <2> HIDE DEF f
  <2>8. Last' < Chunks /\ \A c \in Chunk : c <= Last' => sums'[c] = c
    BY <2>1, <2>2, <2>4, <2>5, <2>6, <2>7 DEF Chunk, Lasts
  <2>9. Backed(image', sums') /\ Sound(image', finalSum')
    BY <2>3, <2>4, <2>5, SoundStays
  <2>10. QED  BY <2>4, <2>5, <2>8, <2>9
<1>3. QED  BY <1>1, <1>2

-----------------------------------------------------------------------------
(* The two threads *)

LEMMA HandOverStep ==
  ASSUME IInv, Rare \subseteq {"reconnect"}, [Next]_vars
  PROVE  HandOverInv'
<1> USE ChunksAssumption
<1>1. CASE BootStrap
  <2>1. UNCHANGED <<writtenStatus, PD, currHeader, chunk, asked, data>>
    BY <1>1 DEF BootStrap
  <2>2. poll = "off" /\ poll' = "idle" /\ writer' = "loop" /\ asked = Unknown /\ PD.ok
    BY <1>1 DEF BootStrap, IInv, HandOverInv
  <2>3. writtenStatus = 0
    BY <2>2 DEF IInv, HandOverInv
  <2>4. QED  BY <2>1, <2>2, <2>3 DEF HandOverInv, Pending
<1>2. CASE PowerCut
  BY <1>2 DEF PowerCut, LoseMemory, HandOverInv, Pending, FreshPD
<1>2a. CASE CheckVersion
  <2>1. UNCHANGED <<poll, writer, currHeader, writtenStatus, PD, chunk, data>>
    BY <1>2a DEF CheckVersion, shared, writeVars
  <2>2. poll = "idle" /\ writer = "wait" /\ asked' = Unknown
    BY <1>2a DEF CheckVersion
  <2>3. QED  BY <2>1, <2>2 DEF IInv, HandOverInv, Unknown
<1>3. CASE InitControlFile
  BY <1>3 DEF InitControlFile, IInv, TypeOK, Calm, HandOverInv, BufferInv, Pending, Last, WakeWriter, NextChunk, AllDone, Unknown, Chunk, ChunkNo, Lasts, disk, headers, shared, pollVars, writeVars
<1>4. CASE WriteNewControlFile
  BY <1>4 DEF WriteNewControlFile, IInv, TypeOK, Calm, HandOverInv, BufferInv, Pending, Last, WakeWriter, NextChunk, AllDone, Unknown, Chunk, ChunkNo, Lasts, disk, headers, shared, pollVars, writeVars
<1>5. CASE GetNextChunk
  BY <1>5 DEF GetNextChunk, IInv, TypeOK, Calm, HandOverInv, BufferInv, Pending, Last, WakeWriter, NextChunk, AllDone, Unknown, Chunk, ChunkNo, Lasts, disk, headers, shared, pollVars, writeVars
<1>6. CASE WriteFile
  BY <1>6 DEF WriteFile, IInv, TypeOK, Calm, HandOverInv, BufferInv, Pending, Last, WakeWriter, NextChunk, AllDone, Unknown, Chunk, ChunkNo, Lasts, disk, headers, shared, pollVars, writeVars
<1>7. CASE WaitTooLong
  BY <1>7 DEF WaitTooLong, IInv, TypeOK, Calm, HandOverInv, BufferInv, Pending, Last, WakeWriter, NextChunk, AllDone, Unknown, Chunk, ChunkNo, Lasts, disk, headers, shared, pollVars, writeVars
<1>8. CASE SignalAgain
  BY <1>8 DEF SignalAgain, IInv, TypeOK, Calm, HandOverInv, BufferInv, Pending, Last, WakeWriter, NextChunk, AllDone, Unknown, Chunk, ChunkNo, Lasts, disk, headers, shared, pollVars, writeVars
<1>9. CASE FillBuffer
  BY <1>9 DEF FillBuffer, IInv, TypeOK, Calm, HandOverInv, BufferInv, Pending, Last, WakeWriter, NextChunk, AllDone, Unknown, Chunk, ChunkNo, Lasts, disk, headers, shared, pollVars, writeVars
<1>10. CASE SignalWriter
  BY <1>10 DEF SignalWriter, IInv, TypeOK, Calm, HandOverInv, BufferInv, Pending, Last, WakeWriter, NextChunk, AllDone, Unknown, Chunk, ChunkNo, Lasts, disk, headers, shared, pollVars, writeVars
<1>11. CASE MarkSuccessful
  BY <1>11 DEF MarkSuccessful, IInv, TypeOK, Calm, HandOverInv, BufferInv, Pending, Last, WakeWriter, NextChunk, AllDone, Unknown, Chunk, ChunkNo, Lasts, disk, headers, shared, pollVars, writeVars
<1>12. CASE CheckChunkSHA2
  BY <1>12 DEF CheckChunkSHA2, IInv, TypeOK, Calm, HandOverInv, BufferInv, Pending, Last, WakeWriter, NextChunk, AllDone, Unknown, Chunk, ChunkNo, Lasts, disk, headers, shared, pollVars, writeVars
<1>13. CASE AnnounceWritten
  BY <1>13 DEF AnnounceWritten, IInv, TypeOK, Calm, HandOverInv, BufferInv, Pending, Last, WakeWriter, NextChunk, AllDone, Unknown, Chunk, ChunkNo, Lasts, disk, headers, shared, pollVars, writeVars
<1>14. CASE WaitForSignal
  BY <1>14 DEF WaitForSignal, IInv, TypeOK, Calm, HandOverInv, BufferInv, Pending, Last, WakeWriter, NextChunk, AllDone, Unknown, Chunk, ChunkNo, Lasts, disk, headers, shared, pollVars, writeVars
<1>15. CASE TakeChunk
  BY <1>15 DEF TakeChunk, IInv, TypeOK, Calm, HandOverInv, BufferInv, Pending, Last, WakeWriter, NextChunk, AllDone, Unknown, Chunk, ChunkNo, Lasts, disk, headers, shared, pollVars, writeVars
<1>16. CASE StoreChunk
  BY <1>16 DEF StoreChunk, MarkedInTime, IInv, TypeOK, Calm, HandOverInv, BufferInv, Pending, Last, WakeWriter, NextChunk, AllDone, Unknown, Chunk, ChunkNo, Lasts, disk, headers, shared, pollVars, writeVars
<1>17. CASE RecordSum
  BY <1>17 DEF RecordSum, IInv, TypeOK, Calm, HandOverInv, BufferInv, Pending, Last, WakeWriter, NextChunk, AllDone, Unknown, Chunk, ChunkNo, Lasts, disk, headers, shared, pollVars, writeVars
<1>18. CASE HashControlFile
  BY <1>18 DEF HashControlFile, IInv, TypeOK, Calm, HandOverInv, BufferInv, Pending, Last, WakeWriter, NextChunk, AllDone, Unknown, Chunk, ChunkNo, Lasts, disk, headers, shared, pollVars, writeVars
<1>19. CASE WriteControlFile
  BY <1>19 DEF WriteControlFile, IInv, TypeOK, Calm, HandOverInv, BufferInv, Pending, Last, WakeWriter, NextChunk, AllDone, Unknown, Chunk, ChunkNo, Lasts, disk, headers, shared, pollVars, writeVars
<1>20. CASE CopyHeader
  BY <1>20 DEF CopyHeader, IInv, TypeOK, Calm, HandOverInv, BufferInv, Pending, Last, WakeWriter, NextChunk, AllDone, Unknown, Chunk, ChunkNo, Lasts, disk, headers, shared, pollVars, writeVars
<1>21. CASE FlipHeader
  BY <1>21 DEF FlipHeader, MemoryInv, IInv, TypeOK, Calm, HandOverInv, BufferInv, Pending, Last, WakeWriter, NextChunk, AllDone, Unknown, Chunk, ChunkNo, Lasts, disk, headers, shared, pollVars, writeVars
<1>22. CASE FlipSuffix
  BY <1>22 DEF FlipSuffix, IInv, TypeOK, Calm, HandOverInv, BufferInv, Pending, Last, WakeWriter, NextChunk, AllDone, Unknown, Chunk, ChunkNo, Lasts, disk, headers, shared, pollVars, writeVars
<1>23. CASE UNCHANGED vars
  BY <1>23 DEF vars, IInv, TypeOK, Calm, HandOverInv, BufferInv, Pending, Last, WakeWriter, NextChunk, AllDone, Unknown, Chunk, ChunkNo, Lasts, disk, headers, shared, pollVars, writeVars
<1>24. QED
  BY <1>1, <1>2, <1>2a, <1>3, <1>4, <1>5, <1>6, <1>7, <1>8, <1>9, <1>10, <1>11, <1>12, <1>13, <1>14, <1>15, <1>16, <1>17, <1>18, <1>19, <1>20, <1>21, <1>22, <1>23,
     WriterSucceeds, CalmSteps
  DEF IInv, CalmNext

LEMMA BufferStep ==
  ASSUME IInv, Rare \subseteq {"reconnect"}, [Next]_vars
  PROVE  BufferInv'
<1> USE ChunksAssumption
<1>1. CASE BootStrap
  BY <1>1 DEF BootStrap, BufferInv, Pending
<1>2. CASE PowerCut
  BY <1>2 DEF PowerCut, LoseMemory, BufferInv, Pending
<1>2a. CASE CheckVersion
  <2>1. UNCHANGED <<image, poll, writer, writtenStatus, PD, buffer, wchunk, sha2>>
    BY <1>2a DEF CheckVersion, disk, shared, writeVars
  <2>2. poll = "idle" /\ writer = "wait"
    BY <1>2a DEF CheckVersion
  <2>3. ASSUME Pending
        PROVE  Last' <= PD.chunk \/ image[PD.chunk] = PD.chunk
    <3>1. CASE Resumable
      <4>1. Backed(image, sums') /\ \A c \in Chunk : c <= Last' => sums'[c] = c
        BY <1>2a, <3>1, LoadBestSound DEF CheckVersion
      <4>2. PD.chunk \in Chunk /\ Last' \in Int
        BY <1>2a, <2>3, LoadBestType DEF CheckVersion, IInv, TypeOK, BufferInv, Last, Lasts
      <4>3. QED  BY <4>1, <4>2 DEF Backed, Chunk
    <3>2. CASE ~Resumable
      BY <1>2a, <2>3, <3>2 DEF CheckVersion, LoadBest, IInv, BufferInv, Last
    <3>3. QED  BY <3>1, <3>2
  <2>4. QED  BY <2>1, <2>2, <2>3 DEF IInv, BufferInv, Pending
<1>3. CASE InitControlFile
  <2>1. UNCHANGED <<image, writer, writtenStatus, PD, buffer, wchunk, sha2>>
    BY <1>3 DEF InitControlFile, disk, shared, writeVars
  <2>2. poll' = "initctl" /\ Last' = AllDone
    BY <1>3 DEF InitControlFile, Last, IInv, TypeOK
  <2>3. Pending => Last' <= PD.chunk
    BY <2>2 DEF IInv, BufferInv, Chunk, AllDone
  <2>4. QED  BY <2>1, <2>2, <2>3 DEF IInv, BufferInv, Pending
<1>4. CASE WriteNewControlFile
  BY <1>4 DEF WriteNewControlFile, IInv, TypeOK, Calm, HandOverInv, BufferInv, Pending, Last, WakeWriter, Chunk, ChunkNo, Lasts, disk, headers, shared, pollVars, writeVars
<1>5. CASE GetNextChunk
  BY <1>5 DEF GetNextChunk, IInv, TypeOK, Calm, HandOverInv, BufferInv, Pending, Last, WakeWriter, Chunk, ChunkNo, Lasts, disk, headers, shared, pollVars, writeVars
<1>6. CASE WriteFile
  BY <1>6 DEF WriteFile, IInv, TypeOK, Calm, HandOverInv, BufferInv, Pending, Last, WakeWriter, Chunk, ChunkNo, Lasts, disk, headers, shared, pollVars, writeVars
<1>7. CASE WaitTooLong
  BY <1>7 DEF WaitTooLong, IInv, TypeOK, Calm, HandOverInv, BufferInv, Pending, Last, WakeWriter, Chunk, ChunkNo, Lasts, disk, headers, shared, pollVars, writeVars
<1>8. CASE SignalAgain
  BY <1>8 DEF SignalAgain, IInv, TypeOK, Calm, HandOverInv, BufferInv, Pending, Last, WakeWriter, Chunk, ChunkNo, Lasts, disk, headers, shared, pollVars, writeVars
<1>9. CASE FillBuffer
  BY <1>9 DEF FillBuffer, IInv, TypeOK, Calm, HandOverInv, BufferInv, Pending, Last, WakeWriter, Chunk, ChunkNo, Lasts, disk, headers, shared, pollVars, writeVars
<1>10. CASE SignalWriter
  BY <1>10 DEF SignalWriter, IInv, TypeOK, Calm, HandOverInv, BufferInv, Pending, Last, WakeWriter, Chunk, ChunkNo, Lasts, disk, headers, shared, pollVars, writeVars
<1>11. CASE MarkSuccessful
  BY <1>11 DEF MarkSuccessful, IInv, TypeOK, Calm, HandOverInv, BufferInv, Pending, Last, WakeWriter, Chunk, ChunkNo, Lasts, disk, headers, shared, pollVars, writeVars
<1>12. CASE CheckChunkSHA2
  BY <1>12 DEF CheckChunkSHA2, IInv, TypeOK, Calm, HandOverInv, BufferInv, Pending, Last, WakeWriter, Chunk, ChunkNo, Lasts, disk, headers, shared, pollVars, writeVars
<1>13. CASE AnnounceWritten
  BY <1>13 DEF AnnounceWritten, IInv, TypeOK, Calm, HandOverInv, BufferInv, Pending, Last, WakeWriter, Chunk, ChunkNo, Lasts, disk, headers, shared, pollVars, writeVars
<1>14. CASE WaitForSignal
  BY <1>14 DEF WaitForSignal, IInv, TypeOK, Calm, HandOverInv, BufferInv, Pending, Last, WakeWriter, Chunk, ChunkNo, Lasts, disk, headers, shared, pollVars, writeVars
<1>15. CASE TakeChunk
  BY <1>15 DEF TakeChunk, IInv, TypeOK, Calm, HandOverInv, BufferInv, Pending, Last, WakeWriter, Chunk, ChunkNo, Lasts, disk, headers, shared, pollVars, writeVars
<1>16. CASE StoreChunk
  BY <1>16, CalmPlace DEF StoreChunk, MarkedInTime, IInv, TypeOK, HandOverInv, BufferInv, Pending, Last, WakeWriter, Chunk, ChunkNo, Lasts, disk, headers, shared, pollVars, writeVars
<1>17. CASE RecordSum
  BY <1>17 DEF RecordSum, IInv, TypeOK, Calm, HandOverInv, BufferInv, Pending, Last, WakeWriter, Chunk, ChunkNo, Lasts, disk, headers, shared, pollVars, writeVars
<1>18. CASE HashControlFile
  BY <1>18 DEF HashControlFile, IInv, TypeOK, Calm, HandOverInv, BufferInv, Pending, Last, WakeWriter, Chunk, ChunkNo, Lasts, disk, headers, shared, pollVars, writeVars
<1>19. CASE WriteControlFile
  BY <1>19 DEF WriteControlFile, IInv, TypeOK, Calm, HandOverInv, BufferInv, Pending, Last, WakeWriter, Chunk, ChunkNo, Lasts, disk, headers, shared, pollVars, writeVars
<1>20. CASE CopyHeader
  BY <1>20 DEF CopyHeader, IInv, TypeOK, Calm, HandOverInv, BufferInv, Pending, Last, WakeWriter, Chunk, ChunkNo, Lasts, disk, headers, shared, pollVars, writeVars
<1>21. CASE FlipHeader
  BY <1>21 DEF FlipHeader, IInv, TypeOK, Calm, HandOverInv, BufferInv, Pending, Last, WakeWriter, Chunk, ChunkNo, Lasts, disk, headers, shared, pollVars, writeVars
<1>22. CASE FlipSuffix
  BY <1>22 DEF FlipSuffix, IInv, TypeOK, Calm, HandOverInv, BufferInv, Pending, Last, WakeWriter, Chunk, ChunkNo, Lasts, disk, headers, shared, pollVars, writeVars
<1>23. CASE UNCHANGED vars
  BY <1>23 DEF vars, IInv, TypeOK, Calm, HandOverInv, BufferInv, Pending, Last, WakeWriter, Chunk, ChunkNo, Lasts, disk, headers, shared, pollVars, writeVars
<1>24. QED
  BY <1>1, <1>2, <1>2a, <1>3, <1>4, <1>5, <1>6, <1>7, <1>8, <1>9, <1>10, <1>11, <1>12, <1>13, <1>14, <1>15, <1>16, <1>17, <1>18, <1>19, <1>20, <1>21, <1>22, <1>23,
     WriterSucceeds, CalmSteps
  DEF IInv, CalmNext

LEMMA MemoryStep ==
  ASSUME IInv, Rare \subseteq {"reconnect"}, [Next]_vars
  PROVE  MemoryInv'
<1> USE ChunksAssumption
<1>1. CASE BootStrap
  <2>1. Sound(image', finalSum') /\ Backed(image', sums')
    BY <1>1, LoadBestSound DEF BootStrap
  <2>2. writer' = "loop" /\ loaded' = Resumable
    BY <1>1 DEF BootStrap, LoadBest
  <2>3. Resumable => Last' < Chunks /\ \A c \in Chunk : c <= Last' => sums'[c] = c
    BY <1>1, LoadBestSound DEF BootStrap
  <2>4. QED  BY <2>1, <2>2, <2>3 DEF MemoryInv
<1>2a. CASE CheckVersion
  <2>1. Sound(image', finalSum') /\ Backed(image', sums')
    BY <1>2a, LoadBestSound DEF CheckVersion
  <2>2. writer' = "wait" /\ loaded' = Resumable
    BY <1>2a DEF CheckVersion, LoadBest, writeVars
  <2>3. Resumable => Last' < Chunks /\ \A c \in Chunk : c <= Last' => sums'[c] = c
    BY <1>2a, LoadBestSound DEF CheckVersion
  <2>4. QED  BY <2>1, <2>2, <2>3 DEF MemoryInv
<1>2. CASE PowerCut
  <2>1. Backed(image', sums')
    BY <1>2 DEF PowerCut, LoseMemory, Backed, NoSums, NoSum, Chunk
  <2>2. Sound(image', finalSum')
    BY <1>2 DEF PowerCut, LoseMemory, Sound, Backed, NoFile, NoSums, NoSum, Unknown, Chunk
  <2>3. QED  BY <1>2, <2>1, <2>2 DEF PowerCut, LoseMemory, MemoryInv
<1>3. CASE InitControlFile
  BY <1>3 DEF InitControlFile, SumOf, NoSums, NoSum, AllDone, Chunk, ChunkNo, Lasts, IInv, TypeOK, Calm, MemoryInv, HandOverInv, BufferInv, Pending, Last, WakeWriter, Backed, Sound, disk, headers, shared, pollVars, writeVars
<1>4. CASE WriteNewControlFile
  BY <1>4 DEF WriteNewControlFile, SumOf, NoSums, NoSum, AllDone, Chunk, ChunkNo, Lasts, IInv, TypeOK, Calm, MemoryInv, HandOverInv, BufferInv, Pending, Last, WakeWriter, Backed, Sound, disk, headers, shared, pollVars, writeVars
<1>5. CASE GetNextChunk
  BY <1>5 DEF GetNextChunk, IInv, TypeOK, Calm, MemoryInv, HandOverInv, BufferInv, Pending, Last, WakeWriter, Backed, Sound, disk, headers, shared, pollVars, writeVars
<1>6. CASE WriteFile
  BY <1>6 DEF WriteFile, IInv, TypeOK, Calm, MemoryInv, HandOverInv, BufferInv, Pending, Last, WakeWriter, Backed, Sound, disk, headers, shared, pollVars, writeVars
<1>7. CASE WaitTooLong
  BY <1>7 DEF WaitTooLong, IInv, TypeOK, Calm, MemoryInv, HandOverInv, BufferInv, Pending, Last, WakeWriter, Backed, Sound, disk, headers, shared, pollVars, writeVars
<1>8. CASE SignalAgain
  BY <1>8 DEF SignalAgain, IInv, TypeOK, Calm, MemoryInv, HandOverInv, BufferInv, Pending, Last, WakeWriter, Backed, Sound, disk, headers, shared, pollVars, writeVars
<1>9. CASE FillBuffer
  BY <1>9 DEF FillBuffer, IInv, TypeOK, Calm, MemoryInv, HandOverInv, BufferInv, Pending, Last, WakeWriter, Backed, Sound, disk, headers, shared, pollVars, writeVars
<1>10. CASE SignalWriter
  BY <1>10 DEF SignalWriter, IInv, TypeOK, Calm, MemoryInv, HandOverInv, BufferInv, Pending, Last, WakeWriter, Backed, Sound, disk, headers, shared, pollVars, writeVars
<1>11. CASE MarkSuccessful
  BY <1>11 DEF MarkSuccessful, SumOf, NoSums, NoSum, AllDone, Chunk, ChunkNo, Lasts, IInv, TypeOK, Calm, MemoryInv, HandOverInv, BufferInv, Pending, Last, WakeWriter, Backed, Sound, disk, headers, shared, pollVars, writeVars
<1>12. CASE CheckChunkSHA2
  BY <1>12 DEF CheckChunkSHA2, IInv, TypeOK, Calm, MemoryInv, HandOverInv, BufferInv, Pending, Last, WakeWriter, Backed, Sound, disk, headers, shared, pollVars, writeVars
<1>13. CASE AnnounceWritten
  BY <1>13 DEF AnnounceWritten, IInv, TypeOK, Calm, MemoryInv, HandOverInv, BufferInv, Pending, Last, WakeWriter, Backed, Sound, disk, headers, shared, pollVars, writeVars
<1>14. CASE WaitForSignal
  BY <1>14 DEF WaitForSignal, IInv, TypeOK, Calm, MemoryInv, HandOverInv, BufferInv, Pending, Last, WakeWriter, Backed, Sound, disk, headers, shared, pollVars, writeVars
<1>15. CASE TakeChunk
  BY <1>15 DEF TakeChunk, IInv, TypeOK, Calm, MemoryInv, HandOverInv, BufferInv, Pending, Last, WakeWriter, Backed, Sound, disk, headers, shared, pollVars, writeVars
<1>16. CASE StoreChunk
  BY <1>16, ChunkStays DEF StoreChunk, IInv, TypeOK, MemoryInv, HandOverInv, BufferInv, Pending, Last, WakeWriter, Backed, Sound, disk, headers, shared, pollVars, writeVars
<1>17. CASE RecordSum
  BY <1>17 DEF RecordSum, IInv, TypeOK, Calm, MemoryInv, HandOverInv, BufferInv, Pending, Last, WakeWriter, Backed, Sound, disk, headers, shared, pollVars, writeVars
<1>18. CASE HashControlFile
  BY <1>18 DEF HashControlFile, Cleared, SumOf, NoSums, NoSum, AllDone, Chunk, ChunkNo, Lasts, IInv, TypeOK, Calm, MemoryInv, HandOverInv, BufferInv, Pending, Last, WakeWriter, Backed, Sound, disk, headers, shared, pollVars, writeVars
<1>19. CASE WriteControlFile
  BY <1>19 DEF WriteControlFile, IInv, TypeOK, Calm, MemoryInv, HandOverInv, BufferInv, Pending, Last, WakeWriter, Backed, Sound, disk, headers, shared, pollVars, writeVars
<1>20. CASE CopyHeader
  BY <1>20 DEF CopyHeader, IInv, TypeOK, Calm, MemoryInv, HandOverInv, BufferInv, Pending, Last, WakeWriter, Backed, Sound, disk, headers, shared, pollVars, writeVars
<1>21. CASE FlipHeader
  BY <1>21 DEF FlipHeader, IInv, TypeOK, Calm, MemoryInv, HandOverInv, BufferInv, Pending, Last, WakeWriter, Backed, Sound, disk, headers, shared, pollVars, writeVars
<1>22. CASE FlipSuffix
  BY <1>22 DEF FlipSuffix, IInv, TypeOK, Calm, MemoryInv, HandOverInv, BufferInv, Pending, Last, WakeWriter, Backed, Sound, disk, headers, shared, pollVars, writeVars
<1>23. CASE UNCHANGED vars
  BY <1>23 DEF vars, IInv, TypeOK, Calm, MemoryInv, HandOverInv, BufferInv, Pending, Last, WakeWriter, Backed, Sound, disk, headers, shared, pollVars, writeVars
<1>24. QED
  BY <1>1, <1>2, <1>2a, <1>3, <1>4, <1>5, <1>6, <1>7, <1>8, <1>9, <1>10, <1>11, <1>12, <1>13, <1>14, <1>15, <1>16, <1>17, <1>18, <1>19, <1>20, <1>21, <1>22, <1>23,
     WriterSucceeds, CalmSteps
  DEF IInv, CalmNext

-----------------------------------------------------------------------------
(* The invariant and what follows from it *)

\* Nothing is stored, handed over or resumed at the start.
LEMMA IInvInit == Init => IInv
<1> SUFFICES ASSUME Init PROVE IInv
  OBVIOUS
<1> USE ChunksAssumption
<1>1. TypeOK
  BY TypeInit
<1>2. \A img : Backed(img, NoSums) /\ Sound(img, NoFile.final)
  BY DEF Backed, Sound, NoFile, NoSums, NoSum, Unknown, Chunk
<1>3. DiskInv
  BY <1>2 DEF Init, DiskInv, NoMisplacedChunk, NoFile
<1>4. MemoryInv
  BY <1>2 DEF Init, MemoryInv
<1>5. HandOverInv /\ BufferInv
  BY DEF Init, HandOverInv, BufferInv, Pending, FreshPD
<1>6. QED  BY <1>1, <1>3, <1>4, <1>5, CalmInit DEF IInv

LEMMA IInvStep ==
  ASSUME Rare \subseteq {"reconnect"}
  PROVE  IInv /\ [Next]_vars => IInv'
BY TypeStep, CalmStep, DiskStep, MemoryStep, HandOverStep, BufferStep DEF IInv

\* The invariant holds of every behaviour in which no rare event but the return of an
\* uploader happens: a write is shorter than half a second, the poll thread is not
\* stopped between its signal and line 834, no system call fails, m_PD starts out as
\* zeros, every DATA packet answers the last answer, and an uploader that returns finds
\* the writer waiting.
THEOREM Invariant ==
  ASSUME Rare \subseteq {"reconnect"}
  PROVE  Spec => []IInv
BY IInvInit, IInvStep, PTL DEF Spec

\* The hand-over through m_PD skips no chunk.
THEOREM NothingSkipped ==
  ASSUME Rare \subseteq {"reconnect"}
  PROVE  Spec => []NoChunkSkipped
<1>1. ASSUME IInv PROVE NoChunkSkipped
  <2>1. ASSUME loaded, NEW c \in Chunk, c <= Last, image[c] # c
        PROVE  c = Last /\ buffer = c /\ PD.chunk = c /\ writtenStatus = 0
    <3>1. Pending /\ c = PD.chunk
      BY <1>1, <2>1 DEF IInv, MemoryInv, Backed
    <3>2. buffer = c /\ writtenStatus = 0
      BY <1>1, <3>1 DEF IInv, BufferInv, Pending
    <3>3. c = Last
      <4>1. c \in Int /\ Last \in Int /\ c <= Last
        BY <1>1, <2>1 DEF IInv, TypeOK, Last, Lasts, Chunk
      <4>2. Last <= c
        BY <1>1, <2>1, <3>1 DEF IInv, BufferInv
      <4>3. QED  BY <4>1, <4>2
    <3>4. QED  BY <3>1, <3>2, <3>3
  <2>2. QED  BY <2>1 DEF NoChunkSkipped
<1>2. QED  BY <1>1, Invariant, PTL

\* Whenever power fails, what BootStrap may resume from has no hole before it.
THEOREM NothingLostByPowerCut ==
  ASSUME Rare \subseteq {"reconnect"}
  PROVE  Spec => []ResumeSafe
<1>1. ASSUME IInv PROVE ResumeSafe
  <2>1. ASSUME NEW s \in Suffix, Readable(ctl[s]), NEW c \in Chunk, c <= ctl[s].last
        PROVE  image[c] = c
    BY <1>1, <2>1 DEF IInv, DiskInv, Readable, SumOf, Sound, Backed
  <2>2. QED  BY <2>1 DEF ResumeSafe, StoredUpTo
<1>2. QED  BY <1>1, Invariant, PTL

-----------------------------------------------------------------------------
(* Bounds, with system calls that fail, too *)

Busy == {"wait", "resignal", "signal", "mark"}

\* The uploader is asked for a chunk only when the header has room for one, and nothing raises
\* the header from then on: not the writer, which copies it before it flips it, unless it failed,
\* and then WriteFile takes no chunk.
RangeInv ==
  /\ chunk \in Chunk /\ PD.chunk \in Chunk /\ wchunk \in Chunk
  /\ asked \in Chunk /\ (PD.ok \/ writer \in {"woken", "write"}) => Last + 1 < Chunks
  /\ writer = "flip" /\ PD.ok => header[1 - currHeader] <= Last
  /\ poll \in Busy => /\ loaded /\ asked = Unknown /\ Last <= chunk
                      /\ writer = "flip" => header[1 - currHeader] <= chunk
  /\ poll = "off" => asked = Unknown
  /\ ~loaded => writer \in {"off", "loop", "lock", "wait"}

LEMMA RangeInit == Init => RangeInv
BY ChunksAssumption DEF Init, RangeInv, Busy, Chunk, FreshPD, Unknown

LEMMA SpecialNumbers == AllDone \notin Chunk /\ Unknown \notin Chunk /\ AllDone = -1 /\ Chunk \subseteq Int
BY ChunksAssumption DEF AllDone, Unknown, Chunk

LEMMA RangeStep ==
  ASSUME Rare \cap {"overlap", "late"} = {}
  PROVE  TypeOK /\ Calm /\ RangeInv /\ [Next]_vars => RangeInv'
<1> SUFFICES ASSUME TypeOK, Calm, RangeInv, [Next]_vars PROVE RangeInv'
  OBVIOUS
<1>a. /\ header \in [{0, 1} -> Lasts] /\ currHeader \in {0, 1} /\ 1 - currHeader \in {0, 1}
      /\ Last \in Lasts /\ header[1 - currHeader] \in Lasts /\ Lasts \subseteq Int
      /\ PD \in [chunk : ChunkNo, before : Lasts, ok : BOOLEAN] /\ chunk \in Chunk
  BY ChunksAssumption DEF TypeOK, Last, Lasts, RangeInv
<1>i. /\ header[1 - currHeader] <= Last => header[1 - currHeader] <= Last + 1
      /\ header[1 - currHeader] <= Last /\ Last + 1 < Chunks => header[1 - currHeader] + 1 < Chunks
      /\ Last <= Last + 1
  <2> DEFINE h == header[1 - currHeader]
             l == Last
  <2>0. h \in Lasts /\ l \in Lasts /\ Lasts \subseteq Int
    BY <1>a
  <2> HIDE DEF h, l
  <2>1. h \in Int /\ l \in Int /\ Chunks \in Int
    BY <2>0, ChunksAssumption
  <2>2. (h <= l => h <= l + 1) /\ (h <= l /\ l + 1 < Chunks => h + 1 < Chunks) /\ l <= l + 1
    BY <2>1
  <2>3. l = Last /\ h = header[1 - currHeader]
    BY DEF h, l
  <2> QED
    BY <2>2, <2>3
\* Steps that leave the headers and the numbers of chunks alone.
<1>b. ASSUME UNCHANGED <<header, currHeader, loaded, PD, chunk, wchunk>>,
             poll' \in Busy => poll \in Busy /\ asked' = asked,
             poll' = "off" => poll = "off" /\ asked' = asked,
             asked' \in Chunk => \/ asked' = asked /\ (PD.ok \/ writer \in {"woken", "write"})
                                 \/ Last + 1 < Chunks
                                 \/ ~PD.ok /\ writer' \notin {"woken", "write"},
             writer' = "flip" => writer = "flip",
             ~loaded => writer' \in {"off", "loop", "lock", "wait"}
      PROVE  RangeInv'
  BY <1>b DEF RangeInv, Last
<1>1. CASE BootStrap
  <2>1. /\ poll' = "idle" /\ writer' = "loop" /\ asked' = Unknown /\ PD'.chunk = PD.chunk
        /\ UNCHANGED <<chunk, wchunk>>
    BY <1>1, <1>a DEF BootStrap, RangeInv
  <2> QED
    BY <2>1, SpecialNumbers DEF RangeInv, Busy
<1>2. CASE CheckVersion
  <2>1. poll' = "idle" /\ writer' = "wait" /\ asked' = Unknown /\ UNCHANGED <<PD, chunk, wchunk>>
    BY <1>2 DEF CheckVersion, shared, writeVars
  <2> QED
    BY <2>1, SpecialNumbers DEF RangeInv, Busy
<1>3. CASE InitControlFile
  <2>1. /\ header' = [header EXCEPT ![currHeader] = AllDone] /\ poll' = "initctl"
        /\ UNCHANGED <<currHeader, loaded, PD, chunk, asked, wchunk, writer>> /\ ~loaded
    BY <1>3 DEF InitControlFile, shared, writeVars
  <2>2. Last' = -1
    BY <1>a, <2>1, SpecialNumbers DEF Last
  <2> QED
    BY <2>1, <2>2, ChunksAssumption DEF RangeInv, Busy
<1>4. CASE GetNextChunk
  <2>1. /\ UNCHANGED <<header, currHeader, loaded, PD, chunk, wchunk, poll, writer>> /\ poll = "idle"
        /\ asked' = NextChunk(Last) /\ loaded
    BY <1>4 DEF GetNextChunk, headers, shared, writeVars
  <2>2. asked' \in Chunk => Last + 1 < Chunks
    BY <1>a, <2>1, SpecialNumbers, ChunksAssumption DEF NextChunk
  <2> QED
    BY <1>b, <2>1, <2>2 DEF Busy
<1>5. CASE WriteFile
  <2>1. /\ poll = "idle" /\ loaded /\ asked \in Chunk /\ asked' = Unknown
        /\ UNCHANGED <<currHeader, loaded, PD, wchunk, writer>>
    BY <1>5 DEF WriteFile, shared, writeVars
  <2>2. CASE PD.ok
    <3>1. /\ chunk' = IF NextChunk(Last) = AllDone THEN Chunks ELSE NextChunk(Last)
          /\ poll' = "wait" /\ header' = header
      BY <1>5, <2>2 DEF WriteFile
    <3>2. Last + 1 < Chunks
      BY <2>1, <2>2 DEF RangeInv
    <3>3. NextChunk(Last) = Last + 1 /\ Last + 1 # -1
      <4>1. NextChunk(Last) = Last + 1
        BY <1>a, <3>2, ChunksAssumption DEF NextChunk
      <4>2. Last >= -1
        BY <1>a DEF Lasts
      <4> QED
        BY <1>a, <4>1, <4>2
    <3>4. chunk' = Last + 1 /\ chunk' \in Chunk
      <4>1. chunk' = Last + 1
        BY <3>1, <3>3, SpecialNumbers
      <4>2. Last >= -1
        BY <1>a DEF Lasts
      <4> QED
        BY <1>a, <3>2, <4>1, <4>2, ChunksAssumption DEF Chunk
    <3>5. writer = "flip" => header[1 - currHeader] <= Last
      BY <2>2 DEF RangeInv
    <3>6. Last' = Last /\ header'[1 - currHeader'] = header[1 - currHeader]
      BY <2>1, <3>1 DEF Last
    <3>7. Last' <= chunk' /\ (writer' = "flip" => header'[1 - currHeader'] <= chunk')
      BY <1>i, <2>1, <3>4, <3>5, <3>6
    <3>8. writer' = "flip" => header'[1 - currHeader'] <= Last'
      BY <2>1, <3>5, <3>6
    <3>9. chunk' \in Chunk /\ PD'.chunk \in Chunk /\ wchunk' \in Chunk /\ asked' \notin Chunk
          /\ poll' # "off" /\ loaded'
      BY <2>1, <3>1, <3>4, SpecialNumbers DEF RangeInv
    <3> QED
      BY <2>1, <3>7, <3>8, <3>9 DEF RangeInv
  <2>3. CASE ~PD.ok
    <3>1. poll' = poll /\ chunk' = chunk
      BY <1>5, <2>3 DEF WriteFile
    <3> QED
      BY <2>1, <2>3, <3>1, SpecialNumbers DEF RangeInv, Busy
  <2> QED
    BY <2>2, <2>3
<1>6. CASE WaitTooLong \/ CheckChunkSHA2 \/ AnnounceWritten \/ WaitForSignal \/ RecordSum
           \/ HashControlFile \/ WriteControlFile \/ FlipSuffix \/ UNCHANGED vars
  <2>1. UNCHANGED <<header, currHeader, loaded, PD, chunk, wchunk, asked>>
    BY <1>6 DEF WaitTooLong, CheckChunkSHA2, AnnounceWritten, WaitForSignal, RecordSum, HashControlFile,
                WriteControlFile, FlipSuffix, vars, headers, shared, pollVars, writeVars
  <2>2. /\ poll' = poll \/ (poll = "wait" /\ poll' = "resignal")
        /\ writer' = writer \/ writer' \in {"lock", "wait", "hash", "ctl", "copy", "loop"}
    BY <1>6 DEF WaitTooLong, CheckChunkSHA2, AnnounceWritten, WaitForSignal, RecordSum, HashControlFile,
                WriteControlFile, FlipSuffix, vars, pollVars, writeVars
  <2>3. ~loaded => writer' \in {"off", "loop", "lock", "wait"}
    <3>1. ~loaded => writer \in {"off", "loop", "lock", "wait"}
      BY DEF RangeInv
    <3> QED
      BY <1>6, <3>1 DEF WaitTooLong, CheckChunkSHA2, AnnounceWritten, WaitForSignal, RecordSum, HashControlFile,
                        WriteControlFile, FlipSuffix, vars, pollVars, writeVars
  <2> QED
    BY <2>1, <2>2, <2>3 DEF RangeInv, Busy, Last
<1>7. CASE WriteNewControlFile
  <2>1. /\ UNCHANGED <<header, currHeader, PD, chunk, wchunk, asked, writer>> /\ loaded' = TRUE
        /\ poll' = "idle"
    BY <1>7 DEF WriteNewControlFile, shared, writeVars
  <2> QED
    BY <2>1 DEF RangeInv, Busy, Last
<1>8. CASE SignalAgain \/ SignalWriter
  <2>1. /\ UNCHANGED <<header, currHeader, loaded, PD, chunk, wchunk, asked>> /\ poll \in Busy /\ poll' \in Busy
        /\ writer' = writer \/ writer' = "woken"
    BY <1>8 DEF SignalAgain, SignalWriter, WakeWriter, headers, shared, Busy
  <2>2. loaded /\ asked = Unknown
    BY <2>1 DEF RangeInv
  <2> QED
    BY <2>1, <2>2, SpecialNumbers DEF RangeInv, Last, Busy
<1>9. CASE FillBuffer
  <2>1. /\ UNCHANGED <<header, currHeader, loaded, chunk, wchunk, asked, writer>> /\ poll \in Busy /\ poll' \in Busy
        /\ PD' = [PD EXCEPT !.chunk = chunk, !.before = Last]
    BY <1>9 DEF FillBuffer, headers, writeVars, Busy
  <2>2. PD'.chunk = chunk /\ PD'.ok = PD.ok
    BY <1>a, <2>1
  <2>3. Last' = Last /\ poll' # "off"
    BY <2>1 DEF Last, Busy
  <2> QED
    BY <1>a, <2>1, <2>2, <2>3 DEF RangeInv
<1>10. CASE MarkSuccessful
  <2>1. /\ header' = [header EXCEPT ![currHeader] = chunk] /\ poll = "mark" /\ poll' = "idle"
        /\ UNCHANGED <<currHeader, loaded, PD, chunk, wchunk, asked, writer>>
    BY <1>10 DEF MarkSuccessful, shared, writeVars
  <2>2. loaded /\ asked = Unknown /\ (writer = "flip" => header[1 - currHeader] <= chunk)
    BY <2>1 DEF RangeInv, Busy
  <2>3. Last' = chunk /\ header'[1 - currHeader] = header[1 - currHeader]
    BY <1>a, <2>1 DEF Last
  <2> QED
    BY <2>1, <2>2, <2>3, SpecialNumbers DEF RangeInv, Busy
<1>11. CASE TakeChunk
  <2>1. /\ UNCHANGED <<header, currHeader, loaded, PD, chunk, asked, poll>>
        /\ wchunk' = PD.chunk /\ writer = "woken" /\ writer' = "write"
    BY <1>11 DEF TakeChunk, headers, shared, pollVars
  <2> QED
    BY <2>1 DEF RangeInv, Last
<1>12. CASE StoreChunk \/ StoreFails
  <2>1. /\ UNCHANGED <<header, currHeader, loaded, chunk, wchunk, asked, poll>>
        /\ writer = "write" /\ writer' = "record"
        /\ PD' = [PD EXCEPT !.ok = TRUE] \/ PD' = [PD EXCEPT !.ok = FALSE]
    BY <1>12 DEF StoreChunk, StoreFails, headers, pollVars
  <2>2. PD'.chunk = PD.chunk
    BY <1>a, <2>1
  <2> QED
    BY <2>1, <2>2 DEF RangeInv, Last
<1>13. CASE CopyHeader
  <2>1. /\ header' = [header EXCEPT ![1 - currHeader] = Last] /\ writer = "copy" /\ writer' = "flip"
        /\ UNCHANGED <<currHeader, loaded, PD, chunk, asked, poll, wchunk>>
    BY <1>13 DEF CopyHeader, shared, pollVars
  <2>2. header'[1 - currHeader] = Last /\ Last' = Last
    BY <1>a, <2>1 DEF Last
  <2>3. loaded
    BY <2>1 DEF RangeInv
  <2> QED
    BY <1>a, <2>1, <2>2, <2>3 DEF RangeInv
<1>14. CASE FlipHeader
  <2>1. /\ currHeader' = 1 - currHeader /\ writer = "flip" /\ writer' = "suffix"
        /\ UNCHANGED <<header, loaded, PD, chunk, asked, poll, wchunk>>
    BY <1>14 DEF FlipHeader, shared, pollVars
  <2>2. Last' = header[1 - currHeader] /\ loaded
    BY <2>1 DEF Last, RangeInv
  <2>3. asked \in Chunk /\ PD.ok => header[1 - currHeader] + 1 < Chunks
    <3>1. asked \in Chunk /\ PD.ok => Last + 1 < Chunks /\ header[1 - currHeader] <= Last
      BY <2>1 DEF RangeInv
    <3> QED
      BY <1>i, <3>1
  <2>4. /\ chunk' \in Chunk /\ PD'.chunk \in Chunk /\ wchunk' \in Chunk
        /\ poll' = "off" => asked' = Unknown
    BY <2>1 DEF RangeInv
  <2>5. poll' \in Busy => loaded' /\ asked' = Unknown /\ Last' <= chunk'
    BY <2>1, <2>2 DEF RangeInv
  <2>6. asked' \in Chunk /\ PD'.ok => Last' + 1 < Chunks
    BY <2>1, <2>2, <2>3
  <2> QED
    BY <2>1, <2>2, <2>4, <2>5, <2>6 DEF RangeInv
<1>15. CASE PowerCut
  <2>1. /\ poll' = "off" /\ chunk' = 0 /\ asked' = Unknown /\ PD' = FreshPD /\ wchunk' = 0
        /\ writer' = "off"
    BY <1>15 DEF PowerCut, LoseMemory
  <2>2. 0 \in Chunk
    BY ChunksAssumption DEF Chunk
  <2> QED
    BY <2>1, <2>2, SpecialNumbers DEF RangeInv, Busy, FreshPD
<1> QED
  BY <1>1, <1>2, <1>3, <1>4, <1>5, <1>6, <1>7, <1>8, <1>9, <1>10, <1>11, <1>12, <1>13, <1>14, <1>15,
     CalmSteps
  DEF CalmNext

-----------------------------------------------------------------------------
(* The places of chunks, with system calls that fail *)

\* What the two threads know of each other although a write may fail: while the poll thread
\* waits, the packet is the chunk the header awaits; what the buffer holds from the hand-over to
\* the write is the chunk of m_PD; and an answer that WriteFile may act upon is the number after
\* the header.
PlaceInv ==
  /\ NoMisplacedChunk
  /\ poll \in {"wait", "resignal"} => data = chunk
  /\ poll = "resignal" => writer = "wait" /\ writtenStatus = 0
  /\ poll = "signal" => writer \in {"lock", "wait"}
  /\ poll = "mark" => writer \in {"lock", "wait", "woken", "write"}
  /\ poll \in {"signal", "mark"} => writtenStatus = 0
  /\ poll = "off" => writer = "off" /\ writtenStatus = 0
  /\ writtenStatus = 1 => writer \in {"lock", "wait"}
  /\ writtenStatus = 0 /\ writer \in {"lock", "wait", "woken", "write"} => buffer = PD.chunk
  /\ writer = "write" => wchunk = PD.chunk
  /\ ~loaded => asked = Unknown
  /\ asked \in Chunk /\ (PD.ok \/ writer \in {"woken", "write"}) => asked = Last + 1
  /\ writer = "flip" /\ PD.ok => header[1 - currHeader] = Last

LEMMA PlaceInit == Init => PlaceInv
BY SpecialNumbers DEF Init, PlaceInv, NoMisplacedChunk

\* What is being written is the chunk of its place, so that a write leaves it there wholly or
\* partly, and a chunk that is there already untouched.
LEMMA OwnPlaceWritten ==
  ASSUME TypeOK, Calm, PlaceInv, "overlap" \notin Rare, [Next]_vars, NEW c \in Chunk
  PROVE  image'[c] \in {image[c], Torn, c} /\ (image[c] = c => image'[c] = c)
<1>1. CASE PowerCut \/ StoreChunk \/ StoreFails
  <2>1. CASE image' = image
    BY <2>1
  <2>2. CASE image' # image
    <3>1. /\ writer = "write" /\ wchunk \in Chunk
          /\ \/ image' = [image EXCEPT ![wchunk] = buffer]
             \/ \E t \in TornWrite(image[wchunk], buffer) : image' = [image EXCEPT ![wchunk] = t]
      BY <1>1, <2>2, CalmPlace DEF PowerCut, StoreChunk, StoreFails
    <3>2. buffer = wchunk
      BY <3>1 DEF PlaceInv, TypeOK
    <3>3. buffer \in TornWrite(image[wchunk], buffer)
      BY DEF TornWrite
    <3>4. PICK t \in TornWrite(image[wchunk], buffer) : image' = [image EXCEPT ![wchunk] = t]
      BY <3>1, <3>3
    <3>5. t \in {image[wchunk], Torn, wchunk} /\ (image[wchunk] = wchunk => t = wchunk)
      BY <3>2 DEF TornWrite
    <3> QED
      BY <3>1, <3>4, <3>5 DEF TypeOK
  <2> QED
    BY <2>1, <2>2
<1>2. CASE ~(PowerCut \/ StoreChunk \/ StoreFails)
  BY <1>2, CalmSteps
  DEF CalmNext, BootStrap, CheckVersion, InitControlFile, WriteNewControlFile,
      GetNextChunk, WriteFile, WaitTooLong, SignalAgain, FillBuffer, SignalWriter,
      MarkSuccessful, CheckChunkSHA2, AnnounceWritten, WaitForSignal, TakeChunk,
      RecordSum, HashControlFile, WriteControlFile, CopyHeader, FlipHeader, FlipSuffix,
      vars, disk
<1> QED
  BY <1>1, <1>2

LEMMA PlaceStep ==
  ASSUME Rare \subseteq {"reconnect", "ioerror"}
  PROVE  TypeOK /\ Calm /\ RangeInv /\ PlaceInv /\ [Next]_vars => PlaceInv'
<1> SUFFICES ASSUME TypeOK, Calm, RangeInv, PlaceInv, [Next]_vars PROVE PlaceInv'
  OBVIOUS
<1>a. NoMisplacedChunk'
  BY OwnPlaceWritten DEF PlaceInv, NoMisplacedChunk
<1>b. /\ header \in [{0, 1} -> Lasts] /\ currHeader \in {0, 1} /\ 1 - currHeader \in {0, 1}
      /\ Last \in Lasts /\ Lasts \subseteq Int /\ writtenStatus \in {0, 1}
      /\ PD \in [chunk : ChunkNo, before : Lasts, ok : BOOLEAN]
  BY ChunksAssumption DEF TypeOK, Last, Lasts
<1>c. /\ poll \in Busy => loaded /\ asked = Unknown
      /\ poll = "off" => asked = Unknown
      /\ ~loaded => writer \in {"off", "loop", "lock", "wait"}
  BY DEF RangeInv
<1>1. CASE BootStrap
  BY <1>a, <1>b, <1>c, <1>1, SpecialNumbers DEF BootStrap, PlaceInv
<1>2. CASE CheckVersion
  BY <1>a, <1>2, SpecialNumbers DEF CheckVersion, PlaceInv, shared, writeVars
<1>3. CASE InitControlFile
  BY <1>a, <1>c, <1>3, SpecialNumbers DEF InitControlFile, PlaceInv, shared, writeVars
<1>4. CASE WriteNewControlFile
  BY <1>a, <1>4 DEF WriteNewControlFile, PlaceInv, shared, writeVars, Last
<1>5. CASE GetNextChunk
  <2>1. /\ UNCHANGED <<header, currHeader, loaded, writtenStatus, PD, buffer, poll, data, writer, wchunk>>
        /\ asked' = NextChunk(Last) /\ loaded
    BY <1>5 DEF GetNextChunk, headers, shared, writeVars
  <2>2. asked' \in Chunk => asked' = Last + 1
    BY <2>1, SpecialNumbers DEF NextChunk
  <2> QED
    BY <1>a, <1>c, <1>5, <2>1, <2>2 DEF PlaceInv, Last, GetNextChunk
<1>6. CASE WriteFile
  <2>1. /\ poll = "idle" /\ loaded /\ asked \in Chunk /\ asked' = Unknown
        /\ UNCHANGED <<currHeader, loaded, writtenStatus, PD, buffer, writer, wchunk>>
    BY <1>6 DEF WriteFile, shared, writeVars
  <2>2. CASE PD.ok
    <3>1. /\ chunk' = IF NextChunk(Last) = AllDone THEN Chunks ELSE NextChunk(Last)
          /\ poll' = "wait" /\ header' = header /\ data' = asked
      BY <1>6, <2>2 DEF WriteFile
    <3>2. asked = Last + 1 /\ Last + 1 < Chunks
      BY <2>1, <2>2 DEF PlaceInv, RangeInv
    <3>3. NextChunk(Last) = asked
      BY <1>b, <3>2, ChunksAssumption DEF NextChunk
    <3>4. data' = chunk'
      BY <2>1, <3>1, <3>3, SpecialNumbers
    <3> QED
      BY <1>a, <2>1, <3>1, <3>4, SpecialNumbers DEF PlaceInv, Last
  <2>3. CASE ~PD.ok
    <3>1. UNCHANGED <<chunk, data, poll>>
      BY <1>6, <2>3 DEF WriteFile
    <3> QED
      BY <1>a, <2>1, <2>3, <3>1, SpecialNumbers DEF PlaceInv
  <2> QED
    BY <2>2, <2>3
<1>7. CASE WaitTooLong
  BY <1>a, <1>7 DEF WaitTooLong, PlaceInv, headers, shared, writeVars, Last
<1>8. CASE SignalAgain
  <2>1. /\ poll = "resignal" /\ poll' = "wait" /\ writer' = "woken" /\ writer = "wait" /\ writtenStatus = 0
        /\ UNCHANGED <<header, currHeader, loaded, writtenStatus, PD, buffer, chunk, asked, data, wchunk>>
    BY <1>8 DEF SignalAgain, WakeWriter, PlaceInv, headers, shared
  <2> QED
    BY <1>a, <1>c, <2>1, SpecialNumbers DEF PlaceInv, Busy
<1>9. CASE FillBuffer
  <2>1. /\ poll = "wait" /\ writtenStatus = 1 /\ writtenStatus' = 0 /\ buffer' = data /\ poll' = "signal"
        /\ PD' = [PD EXCEPT !.chunk = chunk, !.before = Last]
        /\ UNCHANGED <<header, currHeader, loaded, chunk, asked, data, writer, wchunk>>
    BY <1>9 DEF FillBuffer, headers, writeVars
  <2>2. PD'.chunk = chunk /\ PD'.ok = PD.ok
    BY <1>b, <2>1
  <2>3. data = chunk /\ writer \in {"lock", "wait"} /\ asked = Unknown
    BY <1>c, <2>1 DEF PlaceInv, Busy
  <2> QED
    BY <1>a, <2>1, <2>2, <2>3, SpecialNumbers DEF PlaceInv, Last
<1>10. CASE SignalWriter
  <2>1. /\ poll = "signal" /\ poll' = "mark" /\ writer' \in {writer, "woken"} /\ writer \in {"lock", "wait"}
        /\ writtenStatus = 0
        /\ UNCHANGED <<header, currHeader, loaded, writtenStatus, PD, buffer, chunk, asked, data, wchunk>>
    BY <1>10 DEF SignalWriter, WakeWriter, PlaceInv, headers, shared
  <2> QED
    BY <1>a, <1>c, <2>1, SpecialNumbers DEF PlaceInv, Busy
<1>11. CASE MarkSuccessful
  <2>1. /\ poll = "mark" /\ poll' = "idle"
        /\ UNCHANGED <<currHeader, loaded, writtenStatus, PD, buffer, asked, data, writer, wchunk>>
    BY <1>11 DEF MarkSuccessful, shared, writeVars
  <2>2. asked = Unknown /\ writer # "flip"
    BY <1>c, <2>1 DEF PlaceInv, Busy
  <2> QED
    BY <1>a, <2>1, <2>2, SpecialNumbers DEF PlaceInv
<1>12. CASE CheckChunkSHA2 \/ WaitForSignal \/ RecordSum \/ HashControlFile \/ WriteControlFile
            \/ FlipSuffix \/ UNCHANGED vars
  <2>1. UNCHANGED <<header, currHeader, loaded, writtenStatus, PD, buffer, poll, chunk, asked, data, wchunk>>
    BY <1>12 DEF CheckChunkSHA2, WaitForSignal, RecordSum, HashControlFile, WriteControlFile,
                 FlipSuffix, vars, headers, shared, pollVars, writeVars
  <2>2. \/ writer' = writer
        \/ writer = "lock" /\ writer' = "wait"
        \/ writer \in {"record", "hash", "ctl", "suffix"} /\ writer' \in {"hash", "ctl", "copy", "loop"}
    BY <1>12 DEF CheckChunkSHA2, WaitForSignal, RecordSum, HashControlFile, WriteControlFile,
                 FlipSuffix, vars, writeVars
  <2> QED
    BY <1>a, <2>1, <2>2 DEF PlaceInv, Last
<1>13. CASE AnnounceWritten
  <2>1. /\ writer = "loop" /\ writer' = "lock" /\ writtenStatus' = 1
        /\ UNCHANGED <<header, currHeader, loaded, PD, buffer, poll, chunk, asked, data, wchunk>>
    BY <1>13 DEF AnnounceWritten, headers, pollVars
  <2> QED
    BY <1>a, <2>1 DEF PlaceInv, Last
<1>14. CASE TakeChunk
  <2>1. /\ writer = "woken" /\ writer' = "write" /\ wchunk' = PD.chunk
        /\ UNCHANGED <<header, currHeader, loaded, writtenStatus, PD, buffer, poll, chunk, asked, data>>
    BY <1>14 DEF TakeChunk, headers, shared, pollVars
  <2> QED
    BY <1>a, <2>1 DEF PlaceInv, Last
<1>15. CASE StoreChunk \/ StoreFails
  <2>1. /\ writer = "write" /\ writer' = "record" /\ poll # "mark"
        /\ UNCHANGED <<header, currHeader, loaded, writtenStatus, buffer, poll, chunk, asked, data>>
    BY <1>15 DEF StoreChunk, StoreFails, MarkedInTime, headers, pollVars
  <2> QED
    BY <1>a, <2>1 DEF PlaceInv, Last
<1>16. CASE CopyHeader
  <2>1. /\ header' = [header EXCEPT ![1 - currHeader] = Last] /\ writer = "copy" /\ writer' = "flip"
        /\ UNCHANGED <<currHeader, loaded, writtenStatus, PD, buffer, poll, chunk, asked, data>>
    BY <1>16 DEF CopyHeader, shared, pollVars
  <2>2. header'[1 - currHeader] = Last /\ Last' = Last
    BY <1>b, <2>1 DEF Last
  <2> QED
    BY <1>a, <2>1, <2>2 DEF PlaceInv
<1>17. CASE FlipHeader
  <2>1. /\ currHeader' = 1 - currHeader /\ writer = "flip" /\ writer' = "suffix"
        /\ UNCHANGED <<header, loaded, writtenStatus, PD, buffer, poll, chunk, asked, data>>
    BY <1>17 DEF FlipHeader, shared, pollVars
  <2>2. Last' = header[1 - currHeader]
    BY <2>1 DEF Last
  <2>3. PD.ok => Last' = Last
    BY <2>1, <2>2 DEF PlaceInv
  <2> QED
    BY <1>a, <2>1, <2>3 DEF PlaceInv
<1>18. CASE PowerCut
  BY <1>a, <1>18, SpecialNumbers DEF PowerCut, LoseMemory, PlaceInv
<1> QED
  BY <1>1, <1>2, <1>3, <1>4, <1>5, <1>6, <1>7, <1>8, <1>9, <1>10, <1>11, <1>12, <1>13, <1>14, <1>15,
     <1>16, <1>17, <1>18, CalmSteps
  DEF CalmNext

LEMMA PlaceAlways ==
  ASSUME Rare \subseteq {"reconnect", "ioerror"}
  PROVE  Spec => [](TypeOK /\ Calm /\ PlaceInv)
<1>1. "overlap" \notin Rare /\ Rare \cap {"overlap", "late"} = {}
  OBVIOUS
<1>2. Calm /\ [Next]_vars => Calm'
  BY <1>1, CalmStep
<1>3. TypeOK /\ Calm /\ RangeInv /\ [Next]_vars => RangeInv'
  BY <1>1, RangeStep
<1> QED
  BY <1>2, <1>3, PlaceInit, PlaceStep, RangeInit, CalmInit, TypeInit, TypeStep, PTL DEF Spec

\* No chunk is stored at the place of another, for any number of chunks, of power cuts and of
\* failing system calls.  An uploader may return any number of times when the writer waits: it
\* has been silent for seconds by then, though no code makes it wait.  One that returned earlier
\* ("overlap") could have a chunk
\* written at the start of the file, whose m_chunkSize is then cleared; an answer that is late
\* ("late"), a slow write ("resignal") and the other rare events misplace chunks, too.
THEOREM NothingMisplaced ==
  ASSUME Rare \subseteq {"reconnect", "ioerror"}
  PROVE  Spec => []NoMisplacedChunk
<1>1. PlaceInv => NoMisplacedChunk
  BY DEF PlaceInv
<1> QED
  BY <1>1, PlaceAlways, PTL

\* An image that CHECK_SIGN confirmed is complete for as long as power lasts, even when system
\* calls fail: the writer has nothing left to write but what is there already.  As above, an
\* uploader that returns finds the writer waiting and no answer is late.
THEOREM VerifiedStays ==
  ASSUME Rare \subseteq {"reconnect", "ioerror"}
  PROVE  Spec => []VerifiedImageStays
<1>0. "overlap" \notin Rare
  OBVIOUS
<1>1. Init => VerifiedImageStays
  BY DEF Init, VerifiedImageStays
<1>2. TypeOK /\ Calm /\ PlaceInv /\ VerifiedImageStays /\ [Next]_vars => VerifiedImageStays'
  <2> SUFFICES ASSUME TypeOK, Calm, PlaceInv, VerifiedImageStays, [Next]_vars
               PROVE  VerifiedImageStays'
    OBVIOUS
  <2>1. CASE StoredUpTo(Chunks - 1)
    BY <1>0, <2>1, OwnPlaceWritten DEF StoredUpTo, VerifiedImageStays
  <2>2. CASE ~StoredUpTo(Chunks - 1)
    <3>1. verdict # "match"
      BY <2>2 DEF VerifiedImageStays
    <3>2. verdict' # "match"
      BY <1>0, <2>2, <3>1, CalmSteps
      DEF CalmNext, BootStrap, CheckVersion, PowerCut, LoseMemory, InitControlFile,
          WriteNewControlFile, GetNextChunk, WriteFile, WaitTooLong, SignalAgain,
          FillBuffer, SignalWriter, MarkSuccessful, CheckChunkSHA2, AnnounceWritten,
          WaitForSignal, TakeChunk, StoreChunk, StoreFails, RecordSum, HashControlFile,
          WriteControlFile, CopyHeader, FlipHeader, FlipSuffix, vars, pollVars
    <3> QED
      BY <3>2 DEF VerifiedImageStays
  <2> QED
    BY <2>1, <2>2
<1> QED
  BY <1>1, <1>2, PlaceAlways, PTL DEF Spec

=============================================================================
