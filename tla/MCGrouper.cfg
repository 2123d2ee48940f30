SPECIFICATION Spec
CONSTANTS
  RatioTable <- Table
  RatioGroups <- Groups
  HeapWords <- Garbage
  HashSize = 8
INVARIANTS
  TypeOK
  Saturated
  NoEqualNodes
  DeletedOnce
  ScalesAreLeafHeights
  CompleteTreesAreLayouts
  FindsEveryTree
PROPERTIES
  ImplementsClosure
  Termination
