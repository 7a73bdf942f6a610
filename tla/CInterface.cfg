\* One C handle on a machine whose fingerprint changes; one grant.
SPECIFICATION CSpec
CONSTANTS
  SigningKeys = {k1}
  Machines = {m1, m2}
  Grants = {g1}
  RootKeys = {a1}
  MaxTime = 1
  ClockSkew = 0
  TokenTTL = 1
  LeafBackdate = 0
  LeafTTL = 2
  CaBackdate = 1
  CaTTL = 3
  Handles = {h1}
  LicenseKeys = {lk}
  Configs <- MCPinned
  Default = Default
  None = None
  g1 = g1
  Features = {"base", "pro"}
  GrantedFeatures <- MCFeatures
INVARIANTS CTypeOK SlotIsCurrent CheckedFeaturesAreSigned
PROPERTIES CImplementsClient ValidMeansBound FunctionsReturn
