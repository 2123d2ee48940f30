SPECIFICATION Spec
CONSTANTS
  RatioTable <- GoldenRatioTable
  ExpThreshold = 10
  Sections <- Pages
  LeafRatios <- Leaves
  MinCost <- Quarter
  BestSize = 3
INVARIANTS
  JoinsSettled
  GroupsAreFilled
  BestAreCheapest
  LeastDamageFirst
PROPERTY Termination
