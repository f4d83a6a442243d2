SPECIFICATION FairSpec
CONSTANTS
  NumRx = 3
  NumTx = 2
  small = small
  large = large
  part = part
  None = None
  Frames <- MCFrames
  TxFrames <- MCTxFrames
  pkt_len <- MCpkt_len
  Parts <- MCParts
  BufferSizes = {1, 2}
INVARIANT RingsAgree
PROPERTIES ReceivesInOrder KeepsReceiving SendsIntact HeadLeaves
