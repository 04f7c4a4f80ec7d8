CONSTANTS
  Clients = {c1}
  Killers = {t1}
  Cleaners = {k1}
  BlockDuration = 2
  MaxRules = 3
  MaxFailures = 0
  MaxRestarts = 0
SPECIFICATION FairKillerSpec
PROPERTIES
  RulesAreRemoved
