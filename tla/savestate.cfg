SPECIFICATION SpecSave
CONSTANTS
  Tasks = {"dlist"}
  SpWrites = {{"CLR_HALT", "CLR_BROKE", "SET_INTR_BREAK"}, {"CLR_INTR"}}
  MaxDpEvents = 1
  Counts = {"later"}
INVARIANTS FrameOnce LoadExact OwedSaved
