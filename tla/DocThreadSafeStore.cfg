\* A rejected update of one license.
SPECIFICATION Spec
SYMMETRY Symmetry
CONSTANTS
  Requests = {r1, r2}
  Ids = {i1}
  Keys = {key1}
  Uploads = {u1}
  SeatCounts = {n1, n2}
  Cells = {c1, c2, c3, c4}
  None = None
  Bodies <- MCBodies

PROPERTY ShownChangesUnderLock
