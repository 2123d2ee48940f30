SPECIFICATION Spec
CONSTANTS
  RatioTable <- GoldenRatioTable
  ExpThreshold = 10
  Sections <- SquareFirst
  LeafRatios <- Leaves
  MinCost <- Quarter
  BestSize = 3
INVARIANT FindsEveryJoin
