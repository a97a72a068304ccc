SPECIFICATION FairSpec
CONSTANTS
  w1 = w1
  w2 = w2
  p1 = p1
  p2 = p2
  Window = {w1, w2}
  Secret = {s1, s2}
  s1 = s1
  s2 = s2
  Value = {1, 2}
  Passphrase = {p1, p2}
  None = None
  Scenarios <- Everything
CHECK_DEADLOCK FALSE
INVARIANTS TypeOK NoSecretLost SessionMatchesDisk NothingBehind
PROPERTIES OperationsEnd
