SPECIFICATION FairSpec
CONSTANTS
  Loads = "none"
  CountMod = 128
  PoolCapacity = 16
  CountPerOp = 2
  InitCount = 1
  BlockCounts = {0, 2}
  MaxInstr = 1
  Dma = {}
  DmaDelays = {}
  ViDelay = 20
  NmiDelay = 26
  CompareWrites = {}
  CountWrites = {}
  StatusWrites = {}
  MaskWrites = {}
  Requests = {"none", "soft", "hard"}
  GuestFaults = FALSE
  WrapSafe = TRUE
  RearmAtZero = FALSE
  CauseAnytime = TRUE
INVARIANT FrameScheduled
PROPERTIES FramesForever ResetCompletes HardResetCompletes
