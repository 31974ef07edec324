SPECIFICATION Spec
CONSTANTS
  Chunks = 4
  ShortLast = FALSE
  MaxErrors = 1
  MaxLost = 0
  MaxLate = 2
INVARIANT ChunksInPlace
CHECK_DEADLOCK FALSE
