CONSTANTS
  NR_WP = 3
  Exprs = {e1}
  Values = {0, 1}
  Fail = fail
  Difftest = TRUE
  MaxNO = 4
  MaxSi = 1
  Width = 4
  Mem <- MCMem
  Readable <- MCReadable
  MaxOps = 3
  MaxTokens = 6
  Alphabet <- MCAlphabet
  Leaves = {0, 3}
SPECIFICATION SdbSpec
INVARIANTS PoolOK NumbersFall EndIsFinal BatchVerdict EvaluatesTree AcceptsExpressions
PROPERTIES GoesOnReported
CHECK_DEADLOCK FALSE
