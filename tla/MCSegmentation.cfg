\* A poll at least every TimeRange - N_Bs ticks.
CONSTANTS
  FrameSize = 4
  MaxPayload = 12
  SnRange = 3
  ByteRange = 3
  Byte <- MCByte
  Pad <- MCPad
  TimeRange = 6
  N_Bs = 3
  N_Cr = 3
  Messages <- MCMessages
  Controls <- MCControls
  MaxPollGap = 3
SPECIFICATION Spec
INVARIANTS
  ProgressIsHonest
PROPERTIES
  LastFrameCompletes
  NoFrameUnasked
  SeparationKept
  WaitIsBounded
