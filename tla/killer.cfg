CONSTANTS
  Clients = {c1}
  Killers = {t1, t2}
  Cleaners = {k1, k2}
  BlockDuration = 2
  MaxRules = 4
  MaxFailures = 1
  MaxRestarts = 1
SPECIFICATION FairKillerSpec
INVARIANTS
  KillerTypeOK
  DuplicatesBounded
PROPERTIES
  BlocksAreForgotten
