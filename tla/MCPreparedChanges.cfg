SPECIFICATION Spec
CONSTANTS
  o1 = o1
  None = None
  Adds <- MCAdds
  Update <- MCUpdate
  Loader <- MCLoader
  Exact <- MCExact
  Profiles <- MCProfiles
  Import <- MCImport
  Versions <- MCVersions
INVARIANTS
  AppliedIsChosen
  IntentIsKept
  NothingForgotten
PROPERTIES
  LeavingEnds
  ImplementsPrepared
CHECK_DEADLOCK FALSE
