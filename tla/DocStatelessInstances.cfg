\* Two processes on one Postgres, with one configured key.
SPECIFICATION SystemSpec
CONSTANTS
  SigningKeys = {k1}
  Machines = {m1}
  Grants = {g1}
  RootKeys = {a1, a2}
  MaxTime = 0
  ClockSkew = 1
  TokenTTL = 1
  LeafBackdate = 1
  LeafTTL = 2
  CaBackdate = 1
  CaTTL = 3
  Handles = {h1}
  LicenseKeys = {lk}
  Configs <- MCUnpinned
  Default = Default
  None = None
  Instances = {i1, i2}
  ConfiguredKey = k1
  DurableStore = TRUE
PROPERTIES FailsOnlyIfDisturbed
