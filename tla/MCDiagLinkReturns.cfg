CONSTANTS
  FrameSize = 3
  MaxPayload = 6
  SnRange = 3
  ByteRange = 3
  Byte <- MCByte
  Pad <- MCPad
  TimeRange = 6
  N_Bs = 1
  N_Cr = 1
  Client = "client"
  Server = "server"
  Lengths <- MCOneRequest
  MaxLag = 1
  MaxLost = 0
  MaxFaults = 1
  ForeignTraffic = TRUE
  PeerWaits = TRUE
SPECIFICATION FairSpec
PROPERTIES
  SendReturns
