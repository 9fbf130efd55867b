SPECIFICATION Spec
CONSTANTS
  Sessions = {s1, s2, s3}
  Nobody = Nobody
CHECK_DEADLOCK FALSE
INVARIANTS
  OnlyPublisherWrites
