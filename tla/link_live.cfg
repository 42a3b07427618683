SPECIFICATION FairSpec
CONSTANTS
  MOD8 = 4
  SlotCount = 2
  MaxRetries = 2
  U8 = 256
  PayloadCount = 4
  SendOn = {}
  SetupOn = {}
  Provisioned = {2}
  MaxSends <- TwoNone
  MaxCalls <- TwoEach
  Calls = {"LinkSetup", "Disconnect", "LinkReset", "SetLocalBusy", "Abort"}
  Patient = FALSE
  MaxLosses = 1
  MaxEarly = 1
PROPERTIES Settles AllAcked
CHECK_DEADLOCK FALSE
