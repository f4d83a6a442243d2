SPECIFICATION FairSpec
CONSTANTS
  RingWords = 6
  short = short
  long = long
  None = None
  Garbage = Garbage
  Frames <- MCFrames
  flen <- MCflen
  crc_hdr <- MCcrc_hdr
  data_hdr <- MCdata_hdr
  BufferSizes = {2}
  MaxOutstanding = 2
PROPERTY EveryFrameIntact
