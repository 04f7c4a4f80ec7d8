CONSTANTS
  Videos = {v1}
  Workers = {w1}
  QueueMax = 1
  NoVideo = NoVideo
  Clients = {c1}
  NoClient = NoClient
  PendingTimeout = 2
  CdnTtl = 1
  RecentMax = 3
  Parallel = FALSE
SPECIFICATION FairServiceSpec
PROPERTIES
  DenialEnds
