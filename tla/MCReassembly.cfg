CONSTANTS
  FrameSize = 4
  MaxPayload = 8
  SnRange = 3
  ByteRange = 4
  Byte <- MCByte
  Pad = "pad"
  TimeRange = 5
  N_Bs = 2
  N_Cr = 2
  Traffic <- MCTraffic
  MaxPollGap = 2
SPECIFICATION Spec
INVARIANTS
  BufferIsWhatWasHeard
PROPERTIES
  DeliveredAsAnnounced
  SequenceIsSuccessor
  TimeoutIsExact
