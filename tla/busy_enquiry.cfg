SPECIFICATION Spec
CONSTANTS
  MOD8 = 4
  SlotCount = 2
  MaxRetries = 2
  U8 = 256
  PayloadCount = 4
  SendOn = {}
  SetupOn = {}
  Provisioned = {1, 2}
  MaxSends <- OneEach
  MaxCalls <- OneEach
  Calls = {"LinkSetup", "SetLocalBusy"}
  Patient = FALSE
  MaxLosses = 1
  MaxEarly = 0
PROPERTY StaysUp
CHECK_DEADLOCK FALSE
