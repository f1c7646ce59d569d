SPECIFICATION Spec
CONSTANTS
  c1 = c1
  c2 = c2
  c3 = c3
  i1 = i1
  None = None
  Client <- MCClient
  Inspector <- MCInspector
  Keys = 2
INVARIANTS
  OwnedExactlyFlocked
  OwnerIsRecorded
  NoCircularWait
PROPERTIES
  ImplementsExclusion
