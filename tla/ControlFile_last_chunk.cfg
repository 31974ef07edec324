SPECIFICATION FairSpec
CONSTANTS
  Chunks = 2
  FullWriteMax = 16
  MaxFaults = 0
  Rare = {}
PROPERTY LastChunkIsWritten
