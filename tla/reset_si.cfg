SPECIFICATION Spec
CONSTANTS
  AiLengths = {1, 3}
  MaxEvents = 2
INVARIANT SiNeverStuck
