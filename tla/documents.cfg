SPECIFICATION Spec
CONSTANTS
  Apps = {a1}
  pan = pan
  bank = bank
  DocumentType = {pan, bank}
  BankStatement = bank
  k1 = k1
  k2 = k2
  Keys = {k1, k2}
  Accounts = {acc}
  s1 = s1
  s2 = s2
  Staff = {s1, s2}
  Notes = {n1}
  h1 = h1
  h2 = h2
  Handlers = {h1, h2}
  None = None
  MaxReviews = 2
  MaxFailures = 1
SYMMETRY Symmetry
INVARIANTS
  TypeOK
  ReviewsReachAudit
  PromptsAgree
  GateBackedBySomeone
  VerdictIsOfStoredSubmission
PROPERTIES
  GateReopenedByRejection
