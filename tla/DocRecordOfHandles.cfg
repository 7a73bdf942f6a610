\* Two handles that rewrite the marker at once.
SPECIFICATION Spec
CONSTANTS
  SigningKeys = {k1}
  Machines = {m1}
  Grants = {g1}
  RootKeys = {a1}
  MaxTime = 1
  ClockSkew = 0
  TokenTTL = 2
  LeafBackdate = 0
  LeafTTL = 2
  CaBackdate = 1
  CaTTL = 3
  Handles = {h1, h2}
  LicenseKeys = {lk}
  Configs <- MCUnpinned
  Default = Default
  None = None
INVARIANTS HonouredIsRecorded
