SPECIFICATION BindingsSpec
CONSTANTS
  Addresses = {a1, a2}
  Frames = {f1}
  MaxCalls = 2
  Threads = {t1, t2}
  MaxWrappers = 1
  MaxParents = 1
INVARIANTS TypeOK ContextsMatchClosures RefsMatchOwners FinalisedHasNoContext
SYMMETRY Symmetry
CHECK_DEADLOCK FALSE
