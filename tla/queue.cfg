CONSTANTS
  Videos = {v1, v2, v3}
  Workers = {w1, w2}
  QueueMax = 2
  NoVideo = NoVideo
SPECIFICATION FairQueueSpec
INVARIANTS
  QueueTypeOK
  OneJobPerVideo
  JobsInFlight
  PutIsFresh
PROPERTIES
  ImplementsBoard
  UrgentServed
  NormalServed
