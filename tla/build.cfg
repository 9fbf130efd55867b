SPECIFICATION BuildSpec
CONSTANTS
  CBits = 4
  WideBits = 6
  MaxBuilds = 2
INVARIANTS TypeOK BuiltByTheFirst PropertyAsAsked
CHECK_DEADLOCK FALSE
