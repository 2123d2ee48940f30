SPECIFICATION Spec
CONSTANTS
  RatioTable <- Table
  ExpThreshold = 6
  Pages <- MCPages
  BaseGroupsOf <- MCBaseGroups
  MaxSectionSize = 3
  ManyGroups = 17
  LayoutTargets = 2
  SizeMod = 64
  IntMax = 10
  MaxRetries = 3
INVARIANTS
  WindowsTried
  BasesAreKept
  SettledOrBases
  UndefinedOnSmallPages
PROPERTY Termination
