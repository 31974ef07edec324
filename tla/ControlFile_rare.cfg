SPECIFICATION FairSpec
CONSTANTS
  Chunks = 1
  FullWriteMax = 16
  MaxFaults = 1
  Rare = {"resignal", "preempt", "uninit", "ioerror", "overlap", "late"}
PROPERTY WriteFileReturns
