SPECIFICATION FairSpec
CONSTANTS
  QueueSize = 2
  RingSizes = {2, 4}
  IdxMod = 8
  HdrLen = 1
  MaxPacket = 4
  small = small
  large = large
  runt = runt
  None = None
  Frames <- MCFrames
  packet_len <- MCpacket_len
  BufferSizes = {2, 3}
  WeakLoads = FALSE
INVARIANTS RxOwnership KeepsDescriptors
PROPERTY ReceivesInOrder
