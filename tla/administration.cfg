CONSTANTS
  Migrators = {m1, m2}
  Latest = 3
  Statements <- MCStatements
  Files = {db, env}
  Database = db
  DbThreads = {t1}
  Creators = {c1, c2}
  MaxSnapshots = 4
  ProfileIds <- MCIds
  Clients <- MCClients
  RangeSets <- MCRangeSets
  Names <- MCIds
  ProfileTtl = 1
  Words = {w1, w2}
  TopWeight = 2
  Wizards = {z1, z2}
  Setups = {z1, z2}
  MaxDoubts = 1
  MaxModels = 4
  KeptModels = 2
  MinSamples = 2
  MinPerClass = 1
  Labels <- MCLabels
  UnitCount = 2
  MaxRestarts = 2
  Hour = 2
SPECIFICATION Spec
INVARIANTS
  RecordedIsComplete
  SuccessMeansRestored
  CachedProfileIsCurrent
  SyncedIsMerged
  
  ServedModelSurvives
PROPERTIES
  FirstFactoryWins
  NeverGivesUp
CHECK_DEADLOCK FALSE
