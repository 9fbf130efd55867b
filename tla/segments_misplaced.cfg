SPECIFICATION Spec
CONSTANTS
  MaxSegments = 4
  MaxFinalizing = 2
CHECK_DEADLOCK FALSE
INVARIANTS
  CalledOnOpening
