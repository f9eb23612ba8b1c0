SPECIFICATION Spec
CONSTANTS
  Loads = "none"
  CountMod = 272
  PoolCapacity = 16
  CountPerOp = 16
  InitCount = 16
  BlockCounts = {0, 16}
  MaxInstr = 1
  Dma = {"SP_INT"}
  DmaDelays = {16}
  ViDelay = 64
  NmiDelay = 64
  CompareWrites = {}
  CountWrites = {}
  StatusWrites <- MCStatusWrites
  MaskWrites <- MCMaskWrites
  Requests = {"none"}
  GuestFaults = TRUE
  WrapSafe = TRUE
  RearmAtZero = FALSE
  CauseAnytime = FALSE
INVARIANTS IrqLevel IrqNotLost
CHECK_DEADLOCK FALSE
