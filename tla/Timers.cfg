SPECIFICATION FairSpec
CONSTANTS
  Byte = {0, 1}
  None = None
  MaxRequests = 2
INVARIANTS TypeOK WatchedOrShown AlertIsCleared NoAnswerTwice SmartIsShown EndsOnlyByDuration
PROPERTIES RequestEnds
CHECK_DEADLOCK FALSE
