SPECIFICATION FairSpec
CONSTANTS
  MaxCuts = 1
  MaxInstalls = 2
  Types = {"all", "media", "firmware"}
  Provisioned = TRUE
  PowerOnFirst = TRUE
  Torn = Torn
  Missing = Missing
INVARIANTS TypeOK EnvSurvives OnTrialUnlessGood GoesBackToGood
PROPERTIES PendingIsKept ComesBack
