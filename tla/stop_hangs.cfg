SPECIFICATION FairSpec
CONSTANTS
  base = base
  thumbnail = thumbnail
  NoPipeline = NoPipeline
  Pipelines <- MCPipelines
  RunPipelines <- MCRunPipelines
  Segmented = base
  Finite <- MCFinite
  ErrorsCap = 2
  MaxPosts = 1
  Client = "main"
CHECK_DEADLOCK FALSE
PROPERTIES
  StopReturns
