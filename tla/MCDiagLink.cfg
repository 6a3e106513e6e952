CONSTANTS
  FrameSize = 3
  MaxPayload = 6
  SnRange = 3
  ByteRange = 3
  Byte <- MCByte
  Pad <- MCPad
  TimeRange = 10
  N_Bs = 2
  N_Cr = 2
  Client = "client"
  Server = "server"
  Lengths <- MCLongRequests
  MaxLag = 1
  MaxLost = 1
  MaxFaults = 1
  ForeignTraffic = FALSE
  PeerWaits = FALSE
SPECIFICATION Spec
INVARIANTS
  LinkStaysReady
PROPERTIES
  ImplementsTransfer
