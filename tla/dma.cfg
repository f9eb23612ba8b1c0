SPECIFICATION FairSpec
CONSTANTS
  AiLengths = {1, 3}
  MaxEvents = 2
INVARIANTS TypeOK BusyPending SiBusyPending AudioComplete CarryFresh
PROPERTIES SiCompletes FifoDrains
