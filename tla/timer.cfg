SPECIFICATION Spec
CONSTANTS
  Loads = "none"
  CountMod = 16
  PoolCapacity = 3
  CountPerOp = 1
  InitCount = 1
  BlockCounts = {0, 4}
  MaxInstr = 1
  Dma = {}
  DmaDelays = {2}
  ViDelay = 4
  NmiDelay = 8
  CompareWrites = {5, 14}
  CountWrites = {9}
  StatusWrites = {}
  MaskWrites = {}
  Requests = {"none", "soft", "hard"}
  GuestFaults = FALSE
  WrapSafe = TRUE
  RearmAtZero = FALSE
  CauseAnytime = TRUE
INVARIANTS SpecialOnce TimerFollowsCompare FirstNotNull
