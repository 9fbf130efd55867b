SPECIFICATION PathSpec
CONSTANTS
  Branches = {"stream", "segmentation"}
  Encodings = {"raw", "h264", "h265", "other"}
  MaxNotify = 2
  MaxPads = 3
CHECK_DEADLOCK FALSE
INVARIANTS
  PathTypeOK
  PausedByBranch
  UnhandledIsReported
  NoStreamChange
  NeverPanics
PROPERTIES
  PlaysAgain
