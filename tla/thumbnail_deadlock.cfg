SPECIFICATION FairSpec
CONSTANTS
  MaxCaps = 2
  MaxSegments = 1
CHECK_DEADLOCK FALSE
PROPERTIES
  ConnectReturns
