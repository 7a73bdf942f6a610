\* Two licenses and two fingerprints; a server process with a configured key and no Postgres.
SPECIFICATION SystemSpec
VIEW MCView
SYMMETRY MCSymmetry
CONSTANTS
  SigningKeys = {k1}
  Machines = {m1, m2}
  Grants = {g1, g2}
  RootKeys = {a1, a2}
  MaxTime = 0
  ClockSkew = 1
  TokenTTL = 1
  LeafBackdate = 1
  LeafTTL = 2
  CaBackdate = 1
  CaTTL = 3
  Handles = {h1}
  LicenseKeys = {lk1, lk2}
  Configs <- MCUnpinned
  Default = Default
  None = None
  Instances = {i1}
  ConfiguredKey = k1
  DurableStore = FALSE
INVARIANTS SystemTypeOK OnlineMeansGranted
PROPERTIES StoreIsRegistry
