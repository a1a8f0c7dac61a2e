SPECIFICATION Spec
CONSTANTS
  n1 = n1
  n2 = n2
  k1 = k1
  k2 = k2
  admin = admin
  officer = officer
  demo = demo
  Emails = {admin, officer}
  PartnerCodes = {demo}
  Handlers = {h1, h2}
  None = None
  MaxRequests = 3
  MaxChanges = 1
  Names = {n1, n2}
  SeedNames <- OneProduct
  Codes = {k1, k2}
  seedCode <- SameCode
  derived <- SameCode
  Dtos <- FewFields
  AdminEmail = admin
  OfficerEmail = officer
  DemoPartner = demo
  MaxRuns = 2
SYMMETRY HandlerSymmetry
INVARIANTS
  TypeOK
  ActivityAudited
  SeedConverges
PROPERTIES
  AuthorityIsCurrent
