\* Every step of the constructor's loops over the real table.
SPECIFICATION MapSpec
CONSTANTS
  RatioTable <- GoldenRatioTable
  HeapWords <- SomeHeapWords
INVARIANTS
  FlatAgreesWithMap
  FlatIsEveryJoin
CHECK_DEADLOCK FALSE
