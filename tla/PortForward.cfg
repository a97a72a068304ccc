SPECIFICATION Spec
CONSTANTS
  Rule = {r1, r2}
  None = None
  MaxStarts = 2
  MaxAsks = 2
  MaxFaults = 1
  MaxReconnects = 1
  Capacity = 2
CHECK_DEADLOCK FALSE
SYMMETRY Symmetry
INVARIANTS TypeOK OneConnection NoOrphan PublishedFresh FinishedIsRemoved FlagFollowsRuntime
