SPECIFICATION MapSpec
CONSTANTS
  RatioTable <- GoldenRatioTable
  HeapWords <- SomeHeapWords
INVARIANT CompactIndexInBounds
CHECK_DEADLOCK FALSE
