\* A restart of a process that learned the token key during activate.
SPECIFICATION Spec
CONSTANTS
  SigningKeys = {k1}
  Machines = {m1}
  Grants = {g1}
  RootKeys = {a1}
  MaxTime = 1
  ClockSkew = 0
  TokenTTL = 2
  LeafBackdate = 0
  LeafTTL = 2
  CaBackdate = 1
  CaTTL = 3
  Handles = {h1}
  LicenseKeys = {lk}
  Configs <- MCUnpinned
  Default = Default
  None = None
PROPERTIES LicenseSurvivesRestart
