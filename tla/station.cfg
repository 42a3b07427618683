SPECIFICATION Spec
CONSTANTS
  MOD8 = 4
  SlotCount = 2
  MaxRetries = 1
  U8 = 256
  PayloadCount = 4
  MaxChunk = 1
  StaleExpiry = TRUE
  Frames <- AllFrames
  SendOn = {"DATA", "CONN_ACCEPTED", "CONN_REQ", "PEER_BUSY", "PEER_READY", "PROTOCOL_ERROR"}
  SetupOn = {"DISC_DONE", "PEER_DISC", "PEER_REJECT"}
INVARIANTS TypeOK WindowBound UnackedWatched SetupWatched AckPromised SlotsHoldWindow FaithfulFrames QuietWhenDown RetriesBounded
PROPERTIES FreshStart LossReported
