SPECIFICATION FairSpec
CONSTANTS
  Kinds = {"one", "two", "pair", "four"}
  Size <- MCSize
  MaxSeq = 6
  Engine = TRUE
  None = None
INVARIANTS TypeOK CountBelowMax FreshPacketHandled
PROPERTIES HandledIsSent Recovers
