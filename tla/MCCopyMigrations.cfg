\* Migrations of a Pack with two root MODs, one replacement and a dependency
\* whose version is fixed, and of three Templates; two conflict rounds with
\* one root or one with two, the second instead of the step of another
\* program; one error.
CONSTANTS
  Source <- MCSource
  Spare <- MCSpare
  Deps <- MCDeps
  Pins <- MCPins
  Templates <- MCTemplates
  Identity <- MCIdentity
  CurseForge = {3}
  Urls = {4}
  Offers <- MCOffers
  MaxAttempts = 2
  MaxDecisions = 2
  MaxFaults = 1
  MaxOutside = 1
SPECIFICATION Spec
INVARIANTS
  PublishedIsConfirmed
  LocksOutliveTree
  OutcomeIsTrue
PROPERTIES
  ImplementsCopy
  LeavingEnds
CHECK_DEADLOCK FALSE
