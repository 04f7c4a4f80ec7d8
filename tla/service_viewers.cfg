CONSTANTS
  Videos = {v1}
  Workers = {w1, w2}
  QueueMax = 1
  NoVideo = NoVideo
  Clients = {c1, c2}
  NoClient = NoClient
  PendingTimeout = 2
  CdnTtl = 1
  RecentMax = 3
  Parallel = TRUE
SPECIFICATION ServiceSpec
SYMMETRY ServiceSymmetry
INVARIANTS
  ServiceTypeOK

  
