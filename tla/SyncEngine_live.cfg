SPECIFICATION FairSpec
CONSTANTS
  Setups <- SoundRemotes
  Device = {d1}
  Resource = {r1, r2}
  Data = {a, b}
  Passphrase = {k1}
  Nothing = Nothing
  Unbound = Unbound
  Torn = Torn
  MaxVersion = 2
  MaxFaults = 0
PROPERTIES OperationsEnd
