SPECIFICATION Spec
CONSTANTS
  Mobiles = {m1, m2}
  Codes = {k1, k2}
  Handlers = {h1, h2}
  MaxAttempts = 2
  MaxCodes = 2
  MaxFailures = 1
SYMMETRY Symmetry
INVARIANTS
  TypeOK
  OneLiveCodeIfCalm
  WrongCodesCounted
  CodeUsedOnce
  WelcomedOnce
