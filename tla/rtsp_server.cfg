SPECIFICATION FairSpec
CONSTANTS
  Sessions = {s1, s2, s3}
  Nobody = Nobody
CHECK_DEADLOCK FALSE
INVARIANTS
  TypeOK
  OnlyStreamOpen
  PublisherKeepsStream
PROPERTIES
  ReplacedLeaves
