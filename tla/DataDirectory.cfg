SPECIFICATION Spec
CONSTANTS
  p1 = p1
  p2 = p2
  f1 = f1
  f2 = f2
  d1 = d1
  d2 = d2
  Process = {p1, p2}
  File = {f1, f2}
  Chosen = {d1, d2}
  None = None
  Scenarios <- Everything
SYMMETRY Symmetry
INVARIANTS TypeOK NothingLost MovesSettle
