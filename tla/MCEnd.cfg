CONSTANTS
  NR_WP = 1
  Exprs = {e1}
  Values = {0, 1}
  Fail = fail
  Difftest = TRUE
  MaxNO = 2
  MaxSi = 1
SPECIFICATION Spec
INVARIANTS NoneAfterEnd
CHECK_DEADLOCK FALSE
