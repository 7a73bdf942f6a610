\* One handle, a server whose token key changes, a machine whose fingerprint
\* changes, every activation outcome.
SPECIFICATION Safety
SYMMETRY Symmetry
CONSTANTS
  SigningKeys = {k1, k2}
  Machines = {m1, m2}
  Grants = {g1}
  RootKeys = {a1}
  MaxTime = 3
  ClockSkew = 1
  TokenTTL = 1
  LeafBackdate = 1
  LeafTTL = 2
  CaBackdate = 1
  CaTTL = 3
  Handles = {h1}
  LicenseKeys = {lk}
  Configs <- MCAnyUrl
  Default = Default
  None = None
INVARIANTS TypeOK OnlineActivationIsDurable HonouredIsRecorded
PROPERTIES RollbackBound ExpiredMeansGenuine ChecksNeverRevoke RecordIsAtomic
