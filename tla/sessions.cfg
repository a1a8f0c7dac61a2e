SPECIFICATION Spec
CONSTANTS
  c1 = c1
  c2 = c2
  c3 = c3
  u1 = u1
  u2 = u2
  Clients = {c1, c2, c3}
  Subjects = {u1, u2}
  subjectOf <- Devices
  Handlers = {h1, h2}
  MaxTokens = 5
  MaxFailures = 1
SYMMETRY Symmetry
INVARIANTS
  TypeOK
  SessionsSurvive
  NoStrayTokens
  RotationIsALine
