SPECIFICATION Spec
CONSTANTS
  QueueSize = 2
  RingSizes = {2}
  IdxMod = 8
  HdrLen = 1
  MaxPacket = 4
  small = small
  large = large
  runt = runt
  None = None
  Frames <- MCGoodFrames
  packet_len <- MCGood_len
  BufferSizes = {3}
  WeakLoads = TRUE
INVARIANT KeepsDescriptors
