SPECIFICATION Spec
CONSTANTS
  Setups <- FirstPush
  Device = {d1}
  Resource = {r1}
  Data = {a, b}
  Passphrase = {k1, k2}
  Nothing = Nothing
  Unbound = Unbound
  Torn = Torn
  MaxVersion = 1
  MaxFaults = 0
INVARIANTS BaselineReadable
