SPECIFICATION Spec
CONSTANTS
  MOD8 = 4
  SlotCount = 2
  MaxRetries = 2
  U8 = 256
  PayloadCount = 8
  SendOn = {}
  SetupOn = {}
  Provisioned = {1, 2}
  MaxSends <- FiveTwo
  MaxCalls <- TwoOne
  Calls = {"LinkSetup", "Disconnect"}
  Patient = TRUE
  MaxLosses = 2
  MaxEarly = 0
INVARIANTS TypeOK Agreement Attended
PROPERTIES StreamForth StreamBack InOrder StaysUp
CHECK_DEADLOCK FALSE
