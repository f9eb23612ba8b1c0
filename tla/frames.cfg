SPECIFICATION SpecLoads
CONSTANTS
  Loads = "same"
  CountMod = 272
  PoolCapacity = 4
  CountPerOp = 2
  InitCount = 1
  BlockCounts = {0, 2}
  MaxInstr = 1
  Dma = {"SI_INT", "AI_INT"}
  DmaDelays = {2, 6}
  ViDelay = 18
  NmiDelay = 30
  CompareWrites = {}
  CountWrites = {}
  StatusWrites = {}
  MaskWrites = {}
  Requests = {"none"}
  GuestFaults = FALSE
  WrapSafe = TRUE
  RearmAtZero = FALSE
  CauseAnytime = TRUE
INVARIANTS TypeOK FrameOnTime NotEarly InOrder ReloadKeepsOrder
PROPERTY ImplementsDevices
