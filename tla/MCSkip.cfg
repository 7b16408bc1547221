CONSTANTS
  N = 3
  M = 3
  Progs <- MCProgs
  Pc <- MCPc
  Gpr <- MCGpr
  BootPc = 0
  BootGpr = 0
  TrapPc = 3
  Exec <- MCExec
  IsDevice <- MCIsDevice
  MaxFaults = 1
  MaxSkips = 1
SPECIFICATION DifftestSpec
PROPERTIES EveryResultCompared
CHECK_DEADLOCK FALSE
