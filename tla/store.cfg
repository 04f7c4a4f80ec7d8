CONSTANTS
  Videos = {v1, v2}
  Analyses = {t1, t2}
  Scores = {1, 2}
  Weights = {1, 2}
  Limits = {1, 2}
  MaxScore = 2
  Ids <- MCIds
  Writers = {w1, w2}
  ChannelVideos = {c1, c2, c3}
  Profilers = {p1, p2}
  FlagLimits = {40, 101}
  MaxMoments = 2
SPECIFICATION Spec
INVARIANTS
  StoreTypeOK
PROPERTIES
  ManualStatusKept
  RecalculationTakesEffect
  UndisturbedListIsExact
  ProfileDescribesAMoment
