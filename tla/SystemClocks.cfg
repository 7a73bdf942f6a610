\* One license and a Postgres, but no configured key; clocks that drift apart.
SPECIFICATION SystemSpec
VIEW MCExchangeView
CONSTRAINT MCUnpinnedStays
SYMMETRY MCSymmetry
CONSTANTS
  SigningKeys = {k1, k2}
  Machines = {m1}
  Grants = {g1}
  RootKeys = {a1, a2}
  MaxTime = 2
  ClockSkew = 1
  TokenTTL = 1
  LeafBackdate = 1
  LeafTTL = 1
  CaBackdate = 1
  CaTTL = 1
  Handles = {h1}
  LicenseKeys = {lk}
  Configs <- MCUnpinned
  Default = Default
  None = None
  Instances = {i1}
  ConfiguredKey = None
  DurableStore = TRUE
PROPERTIES ClientSafety FailsOnlyIfDisturbed ReactivationLosesOnlyBy
