SPECIFICATION Spec
CONSTANTS
  Loads = "none"
  CountMod = 256
  PoolCapacity = 16
  CountPerOp = 2
  InitCount = 1
  BlockCounts = {0, 2}
  MaxInstr = 1
  Dma = {}
  DmaDelays = {}
  ViDelay = 14
  NmiDelay = 30
  CompareWrites = {29, 61}
  CountWrites = {}
  StatusWrites = {}
  MaskWrites = {}
  Requests = {"none"}
  GuestFaults = FALSE
  WrapSafe = TRUE
  RearmAtZero = FALSE
  CauseAnytime = TRUE
INVARIANT NotEarly
