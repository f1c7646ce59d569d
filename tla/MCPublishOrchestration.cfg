SPECIFICATION Spec
CONSTANTS
  c1 = c1
  c2 = c2
  None = None
  Caller <- MCCaller
  MaxStops = 2
SYMMETRY MCSymmetry
INVARIANTS
  ResultIsTrue
PROPERTIES
  TerminalIsFinal
  OrderedSides
CHECK_DEADLOCK FALSE
