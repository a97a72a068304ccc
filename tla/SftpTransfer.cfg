SPECIFICATION FairSpec
CONSTANTS
  t1 = t1
  t2 = t2
  p1 = p1
  p2 = p2
  Transfer = {t1, t2}
  Path = {p1, p2}
  Scenarios <- Everything
CHECK_DEADLOCK FALSE
INVARIANTS TypeOK NothingLeft
PROPERTIES ReplacesFiles FinishedStaysFinished TransfersEnd
