SPECIFICATION Spec
CONSTANTS
  o1 = o1
  o2 = o2
  None = None
  Op <- MCOneOp
  MaxApplies = 1
INVARIANTS
  NothingOutlivesTheLock
CHECK_DEADLOCK FALSE
