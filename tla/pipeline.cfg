SPECIFICATION Spec
CONSTANTS
  Videos <- MCVideos
  Settings <- MCSettings
INVARIANTS PipelineTypeOK ExtractorsHaveTheirFile
PROPERTIES FailureNeverRaises EarlyExitAgrees AnalysisEnds
