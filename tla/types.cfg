SPECIFICATION TypesSpec
CONSTANTS
  Threads = {t1, t2, t3}
  Types = {y1, y2}
  MaxObjects = 2
INVARIANTS TypeOK ObjectsHaveTheirGoObject
PROPERTY CallsReturn
CHECK_DEADLOCK FALSE
