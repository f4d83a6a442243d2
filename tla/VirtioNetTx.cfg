SPECIFICATION BusySpec
CONSTANTS
  QueueSize = 2
  RingSizes = {2, 4}
  IdxMod = 8
  f1 = f1
  f2 = f2
  None = None
  Frames <- MCFrames
INVARIANT TxOwnership
PROPERTIES SendsEveryFrame AcceptsAgain
