SPECIFICATION Spec
CONSTANTS
  GroupLists <- Lists
  Importance <- Four
  LayoutWidth <- Width
  MinRectangle <- Least
  MaxRectangle <- Most
  MinCost <- Quarter
  MaxLayouts = 2
  Uninitialized <- Garbage
INVARIANTS
  CostIsOfItems
CHECK_DEADLOCK FALSE
