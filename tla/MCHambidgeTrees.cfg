SPECIFICATION Spec
CONSTANTS
  RatioTable <- SmallTable
  scale <- Scale
  Problems <- MCProblems
  Cost <- MCCost
INVARIANTS
  LeavesTileTheRoot
  EveryTreeInEveryOrder
  OnlyTheCheapestIsLeft
