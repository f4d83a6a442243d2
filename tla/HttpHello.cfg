SPECIFICATION HttpFairSpec
CONSTANTS
  NULL = NULL
  c1 = c1
  c2 = c2
  Clients <- MCClients
  ip <- MCip
  port <- MCport
  iss <- MCiss
  SeqSpace <- MCSeqMod
  FirstIsn <- MCFirstIsn
  Noise <- MCNoise
  ReqLen = 4
  requests <- MCrequests
  MaxTrouble = 3
INVARIANTS FramesVerify Streams
PROPERTIES Service Closes
CHECK_DEADLOCK FALSE
