CONSTANTS
  WordSize = 3
  MaxTime = 10
  MaxPrinted = 1
SPECIFICATION BusSpec
INVARIANTS ClockAnswers
CHECK_DEADLOCK FALSE
