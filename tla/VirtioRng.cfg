SPECIFICATION Spec
CONSTANTS
  QueueSize = 2
  IdxMod = 8
  Sizes = {1, 2}
  MaxTimeouts = 3
INVARIANTS FreshBytes LagIsTimeouts
