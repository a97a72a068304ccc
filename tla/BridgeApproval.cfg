SPECIFICATION FairSpec
CONSTANTS
  c1 = c1
  c2 = c2
  c3 = c3
  h1 = h1
  h2 = h2
  h3 = h3
  Client = {c1, c2, c3}
  Profile = {h1, h2, h3}
  None = None
  MaxPending = 2
  MaxPerProfile = 1
  MaxConnections = 3
  Scenarios <- Everything
CHECK_DEADLOCK FALSE
INVARIANTS TypeOK Answerable NoLostUnlock StoppedIsQuiet
PROPERTIES ConnectsWithConsent RequestsEnd StopsListening
