\* Two processes and two requests on one database, two licenses.
SPECIFICATION Spec
CONSTANTS
  Instances = {i1, i2}
  Requests = {r1, r2}
  Ids = {l1, l2}
  Keys = {k1, k2}
  Uploads = {u1, u2}
  None = None
INVARIANTS TypeOK ServingMeansSchema AcknowledgedIsKept
PROPERTIES RevocationUndoneOnlyBy ImplementsRegistry StartsEnd
