SPECIFICATION Spec
CONSTANTS
  Data = {a, b}
  None = None
  Scenarios <- OnAndOff
CHECK_DEADLOCK FALSE
SYMMETRY Symmetry
INVARIANTS StaysOff
