SPECIFICATION FairSpec
CONSTANTS
  Chunks = 7
  FullWriteMax = 1
  MaxFaults = 1
  Rare = {"reconnect"}
INVARIANTS TypeOK NoMisplacedChunk NoChunkSkipped ResumeSafe VerifiedImageStays ReloadFindsFile
PROPERTIES KeptNeverDrops UploadCompletes
