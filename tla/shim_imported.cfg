CONSTANTS
  Videos = {v1, v2}
  Workers = {w1, w2}
  QueueMax = 2
  NoVideo = NoVideo
SPECIFICATION FairShimSpec
PROPERTIES
  ClickIsAnalysed
