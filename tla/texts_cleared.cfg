SPECIFICATION Spec
CONSTANTS
  Customers = {c1}
  Requests = {r1, r2}
  TextField = {name}
  None = None
  MaxInFlight = 1
INVARIANT
  CompleteHasEveryText
