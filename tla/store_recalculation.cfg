CONSTANTS
  Videos = {v1}
  Analyses = {t1}
  Scores = {1, 2}
  Weights = {1, 2}
  Limits = {1, 2}
  MaxScore = 2
SPECIFICATION StoreSpec
PROPERTIES
  RecalculatedFromStoredScores
