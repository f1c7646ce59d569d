SPECIFICATION Spec
CONSTANTS
  o1 = o1
  o2 = o2
  None = None
  Op <- MCOp
  MaxApplies = 1
SYMMETRY MCSymmetry
INVARIANTS
  NoOrphans
  SourceIsCommitted
  ResultsAreTrue
PROPERTIES
  SealedAfterRelease
CHECK_DEADLOCK FALSE
