SPECIFICATION FairSpec
CONSTANTS
  MaxCuts = 1
  MaxInstalls = 0
  Types = {}
  Provisioned = FALSE
  PowerOnFirst = TRUE
  Torn = Torn
  Missing = Missing
PROPERTIES ComesBack
