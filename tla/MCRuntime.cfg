CONSTANTS
  STACK_SIZE = 4
  Locals = {7, 8}
  MaxDepth = 2
  CPU = {c0, c1}
  Space = {s1, s2}
  Va = {v1, v2}
  Pa = {p1}
  NULL = NULL
  MaxMaps = 3
  KEY_QUEUE_LEN = 4
  MaxEvents = 12
  MaxOut = 4
  MaxIn = 4
  NCHAR = 2
  FPS = 2
  CPS = 1
  Bottom = 5
  Letters = {A, B}
  None = None
  IntSize = 4
SPECIFICATION RuntimeSpec
INVARIANTS OwnState  InputKept ScoredOnce
PROPERTIES YieldBothPrint  InOrder OutputOnce CallsReturn
CHECK_DEADLOCK FALSE
