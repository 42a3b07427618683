SPECIFICATION Spec
CONSTANTS
  MOD8 = 4
  SlotCount = 2
  MaxRetries = 1
  U8 = 256
  PayloadCount = 4
  MaxChunk = 2
  StaleExpiry = FALSE
  Frames <- AllFrames
  SendOn = {}
  SetupOn = {}
INVARIANT FaithfulFrames
