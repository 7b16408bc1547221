CONSTANTS
  ByteBits = 1
  Word <- Words
  Zero = 0
  Reg <- MCReg
  X0 = 0
  A0 = 1
  ResetPc = 0
  MachineMode = 8
  EcallCause = 11
  MemAddr <- MCAddrs
  Plus4 <- DPlus4
  Alu <- DAlu
  LessS <- DLessS
  LessU <- DLessU
  WordAddr <- DWordAddr
  ReadLanes <- DReadLanes
  Extend <- DExtend
  StoreMask <- DStoreMask
  StoreData <- DStoreData
  MergeBytes <- DMergeBytes
  MaxCycle = 60000
SPECIFICATION SimSpec
INVARIANTS FinishesIn40
CHECK_DEADLOCK FALSE
