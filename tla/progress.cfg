SPECIFICATION DeliveryFairSpec
CONSTANTS
  FINAL_STAGE = 2
  Apps = {a1}
  Handlers = {h1, h2}
  c1 = c1
  s1 = s1
  d1 = d1
  Customers = {c1}
  Staff = {s1}
  Admins = {d1}
  Partners = {}
  Reasons = {why}
  None = None
  customerId <- OwnedByC1
  staffId <- AssignedToS1
  MaxWrites = 2
  MaxFailures = 0
  Callers = {}
  MaxPosts = 0
  MaxTaps = 0
  MaxLost = 1
INVARIANTS
  InboxFollowsThread
PROPERTIES
  EveryChangeTold
