SPECIFICATION Spec
CONSTANTS
  FINAL_STAGE = 2
  Customers = {c1, c2}
  Products = {p1}
  Staff = {s1, s2}
  None = None
  Requests = {r1, r2}
  MaxAttempts = 2
  MaxApplications = 3
  MaxSerial = 2
  MaxChanges = 2
  MaxFailures = 1
SYMMETRY Symmetry
INVARIANTS
  TypeOK
  OpenOnceIfCalm
  RefusedOnlyAfterRace
  LoadsStayClose
  CreatedIsSeededAndLogged
