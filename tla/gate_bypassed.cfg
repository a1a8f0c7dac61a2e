SPECIFICATION Spec
CONSTANTS
  FINAL_STAGE = 3
  Apps = {a1}
  h1 = h1
  h2 = h2
  Handlers = {h1}
  c1 = c1
  s1 = s1
  s2 = s2
  d1 = d1
  Customers = {c1}
  Staff = {s1, s2}
  Admins = {d1}
  Partners = {p1}
  Reasons = {why}
  None = None
  customerId <- OwnedByC1
  staffId <- AssignedToS1
  MaxWrites = 3
  MaxFailures = 0
PROPERTIES
  DocumentsGateStageOne
