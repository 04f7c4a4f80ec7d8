CONSTANTS
  TokenSets <- MCTokenSets
  Rows <- MCRows
  Tiers = {"none", "block"}
  CacheTtl = 1
  CacheSize = 1
  Conns = {c1, c2}
  PoolSize = 1
  Requests <- MCRequests
  Videos = {v1, v2}
  Workers = {w1}
  QueueMax = 2
  NoVideo = NoVideo
SPECIFICATION Spec
INVARIANTS
  SteadyTablesDecide
  CacheForgets
PROPERTIES
  ConnectionsEnd
  PlaysAreSubmitted
  SharedClickIsAnalysed
CHECK_DEADLOCK FALSE
