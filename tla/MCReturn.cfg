CONSTANTS
  IRING_SIZE = 3
  FRING_SIZE = 2
  Funcs = {main, f}
  Bare = bare
  MaxDepth = 2
  Labels = 5
SPECIFICATION TraceSpec
INVARIANTS ReturnAfterCall
CHECK_DEADLOCK FALSE
