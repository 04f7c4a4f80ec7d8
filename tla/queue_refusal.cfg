CONSTANTS
  Videos = {v1}
  Workers = {w1}
  QueueMax = 1
  NoVideo = NoVideo
SPECIFICATION QueueSpec
PROPERTIES
  RefusalMeansQueued
