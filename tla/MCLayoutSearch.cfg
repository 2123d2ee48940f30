SPECIFICATION Spec
CONSTANTS
  GroupLists <- Lists
  Importance <- Four
  LayoutWidth <- Width
  MinRectangle <- Least
  MaxRectangle <- Most
  MinCost <- Quarter
  MaxLayouts = 2
  Uninitialized <- Garbage
INVARIANTS
  TypeOK
  BuilderMatchesStack
  LayoutsArePartitions
  CheapestFirst
  FirstOfEachSeed
PROPERTY Termination
CHECK_DEADLOCK FALSE
