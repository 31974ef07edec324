SPECIFICATION FairSpec
CONSTANTS
  Chunks = 4
  ShortLast = TRUE
  MaxErrors = 1
  MaxLost = 4
  MaxLate = 3
INVARIANTS TypeOK OnlyTheFileIsInstalled LossMisplacesNothing
PROPERTIES KeepsPromise UploadSucceeds
CHECK_DEADLOCK FALSE
