SPECIFICATION DeliverySpec
CONSTANTS
  FINAL_STAGE = 2
  Apps = {a1}
  Handlers = {h1}
  c1 = c1
  s1 = s1
  d1 = d1
  Customers = {c1}
  Staff = {s1}
  Admins = {}
  Partners = {p1}
  Reasons = {why}
  None = None
  customerId <- OwnedByC1
  staffId <- AssignedToS1
  MaxWrites = 1
  MaxFailures = 1
  Callers = {k1, k2}
  MaxPosts = 1
  MaxTaps = 1
  MaxLost = 1
SYMMETRY CallerSymmetry
INVARIANTS
  DeliveryTypeOK
  BadgeCountsUnseen
  LateMessagesWereInFlight
