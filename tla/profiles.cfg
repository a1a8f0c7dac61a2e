SPECIFICATION Spec
CONSTANTS
  Customers = {c1}
  Requests = {r1, r2, r3}
  TextField = {name}
  None = None
  MaxInFlight = 2
SYMMETRY RequestSymmetry
INVARIANTS
  TypeOK
  CompleteProfileIsWhole
  NothingHalfDone
  FilesAccounted
