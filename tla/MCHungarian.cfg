SPECIFICATION Spec
CONSTANT Problems <- MCProblems
INVARIANTS
  HungarianInv
  NeverExits
  CheapestAssignment
PROPERTY Termination
