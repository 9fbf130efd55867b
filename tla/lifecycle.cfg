SPECIFICATION FairSpec
CONSTANTS
  base = base
  thumbnail = thumbnail
  NoPipeline = NoPipeline
  Pipelines <- MCPipelines
  RunPipelines <- MCRunPipelines
  Segmented = base
  Finite <- MCFinite
  ErrorsCap = 2
  MaxPosts = 1
  Client = "api"
CHECK_DEADLOCK FALSE
INVARIANTS
  TypeOK
  ErrorsChannelSafe
  WatchdogQuitSafe
  StopJoins
  DeliveredOnce
  NoErrorLost
PROPERTIES
  ErrorReachesRun
  BusIsServed
  LoopingStopReturns
