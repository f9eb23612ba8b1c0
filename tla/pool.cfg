SPECIFICATION Spec
CONSTANTS
  CountMod = 16
  PoolCapacity = 3
  Types = {"VI_INT"}
  Delays = {1, 9}
  Advances = {4}
  Rebases = {8}
INVARIANT NodesAccountedFor
PROPERTY ImplementsQueue
