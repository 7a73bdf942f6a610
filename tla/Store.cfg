\* Two requests in flight over two licenses; states up to the names of cells.
SPECIFICATION Spec
SYMMETRY Symmetry
VIEW UpToCells
CONSTANTS
  Requests = {r1, r2}
  Ids = {i1, i2}
  Keys = {key1, key2}
  Uploads = {u1}
  SeatCounts = {n1, n2}
  Cells = {c1, c2, c3, c4, c5}
  None = None
  Bodies <- MCBodies
INVARIANTS TypeOK KeyUnique SignsOnlyRegistered
PROPERTIES RegistrationKept RevocationUndoneOnlyBy ImplementsRegistry
