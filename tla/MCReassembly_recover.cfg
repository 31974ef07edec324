SPECIFICATION FairSpec
CONSTANTS
  Kinds = {"one", "two", "pair", "four"}
  Size <- MCSize
  MaxSeq = 6
  Engine = FALSE
  None = None
PROPERTIES Recovers
