SPECIFICATION Spec
CONSTANTS
  MaxCuts = 0
  MaxInstalls = 1
  Types = {"all"}
  Provisioned = TRUE
  PowerOnFirst = FALSE
  Torn = Torn
  Missing = Missing
PROPERTIES PendingIsKept
