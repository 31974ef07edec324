SPECIFICATION FairSpec
CONSTANTS
  Node <- MCNode
  Root = "root"
  Item = {"sli", "tsr", "alert"}
  Parent <- MCParent
  Above <- MCAbove
  Layer <- MCLayer
  MutexGroup = {"group"}
  ModeGroup = {}
  Ruled = {"sli", "tsr"}
  Suppressible = {"tsr"}
  Alert = "alert"
  MaxCount = 2
  Seldom = {"timer", "gui"}
  MaxPosted = 1
INVARIANTS TypeOK NoLostChange Counted ShownInOrder
PROPERTIES ChangeIsShown
