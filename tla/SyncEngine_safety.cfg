SPECIFICATION Spec
CONSTANTS
  Setups <- Everything
  Device = {d1, d2}
  Resource = {r1}
  Data = {a, b, c}
  Passphrase = {k1, k2}
  Nothing = Nothing
  Unbound = Unbound
  Torn = Torn
  MaxVersion = 3
  MaxFaults = 1
SYMMETRY Symmetry
INVARIANTS TypeOK IInv
PROPERTIES PushKeepsForeignContent RefusalMeansRemoteChanged UnguardedPushComparesContent PullKeepsLocalEdits UpToDateMeansRemoteHasIt
