SPECIFICATION FairSpec
CONSTANTS
  Tasks = {"dlist", "video", "known", "unknown"}
  SpWrites = {{"CLR_HALT", "CLR_BROKE", "SET_INTR_BREAK"}, {"CLR_HALT", "CLR_BROKE", "CLR_INTR_BREAK"}, {"CLR_INTR"}, {"SET_INTR"}, {}}
  MaxDpEvents = 2
INVARIANTS TypeOK LoopLocked OwedPending DeferredFrozen OneCompletion RunningEnds
PROPERTIES Delivered HardResetCompletes
