SPECIFICATION Spec
CONSTANTS
  Capacity = 3
  MaxNodes = 4
  MaxDepth = 3
  MaxPci = 1
INVARIANT OnlyChosenArgs
CHECK_DEADLOCK FALSE
