SPECIFICATION Spec
CONSTANTS
  Cells = {0, 1}
  GuestValues = {0, 1}
  CheatValues = {8, 9}
  Names = {"cheat_0"}
  Lists <- MCLists
  Hacks <- MCHacks
  BootFrames = 2
  MaxSessions = 2
INVARIANT CoreFinishes
CHECK_DEADLOCK FALSE
