SPECIFICATION RecordingSpec
CONSTANTS
  MaxCaps = 3
  MaxSegments = 2
  MaxFinalizing = 1
CHECK_DEADLOCK FALSE
INVARIANTS
  RecordingTypeOK
  FrameRefs
  NumbersDense
  QueueMatchesCaps
  OneProbe
  ThumbnailPerSegment
PROPERTIES
  FlushReturns
  QueueIsServed
  FlushPerSegment
  BusDrains
