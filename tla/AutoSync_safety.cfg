SPECIFICATION Spec
CONSTANTS
  Data = {a, b}
  None = None
  Scenarios <- MixedAndChecks
CHECK_DEADLOCK FALSE
SYMMETRY Symmetry
INVARIANTS TypeOK WorkIsPermitted OneLiveCheck
