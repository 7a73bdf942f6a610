\* Two handles sharing the files.
SPECIFICATION SharingSpec
SYMMETRY Symmetry
CONSTANTS
  SigningKeys = {k1, k2}
  Machines = {m1}
  Grants = {g1, g2}
  RootKeys = {}
  MaxTime = 1
  ClockSkew = 0
  TokenTTL = 1
  LeafBackdate = 0
  LeafTTL = 2
  CaBackdate = 1
  CaTTL = 3
  Handles = {h1, h2}
  LicenseKeys = {lk}
  Configs <- MCUnpinned
  Default = Default
  None = None
PROPERTIES ValidMeansGenuine SignedOnlyOnSuccess
