CONSTANTS
  ByteBits = 2
  Word <- Words
  Zero = 0
  Reg <- MCReg
  X0 = 0
  A0 = 1
  ResetPc = 0
  MachineMode = 8
  EcallCause = 11
  MemAddr <- MCAddrs
  Plus4 <- DPlus4
  Alu <- DAlu
  LessS <- DLessS
  LessU <- DLessU
  WordAddr <- DWordAddr
  ReadLanes <- DReadLanes
  Extend <- DExtend
  StoreMask <- DStoreMask
  StoreData <- DStoreData
  MergeBytes <- DMergeBytes
  MaxCycle = 60000
  Accesses <- Aligned
  Data <- MCData
  N = 3
  M = 3
  Progs <- MCProgs
  Pc <- MCPc
  Gpr <- MCGpr
  BootPc = 0
  BootGpr = 0
  TrapPc = 3
  Exec <- MCExec
  IsDevice <- MCIsDevice
  MaxFaults = 1
  MaxSkips = 1
  IRING_SIZE = 3
  FRING_SIZE = 2
  Funcs = {main, f}
  Bare = bare
  MaxDepth = 2
  Labels = 5
  WordSize = 3
  MaxTime = 10
  MaxPrinted = 1
SPECIFICATION SimulatorSpec
INVARIANTS NoFalseAlarm LastRecords ReadsATime WaitsForCache
PROPERTIES DetectsNext RefinesByteMemory
CHECK_DEADLOCK FALSE
