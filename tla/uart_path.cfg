SPECIFICATION Spec
CONSTANTS
  CrcUpdate <- atc_hdlc_crc_ccitt_update
  my_address = 1
  peer_address = 2
  Capacity = 7
  RX_RING_SIZE = 3
  FrameSet <- MCFrameSet
  StreamFrames <- MCStreamFrames
  Noise = {126, 125, 1, 0}
  MaxFrames = 3
  MaxFaults = 1
INVARIANTS TypeOK FetchedIsOldest IntactDelivered RunningCrc
PROPERTIES DeliversFrames CheckedDelivery
CHECK_DEADLOCK FALSE
VIEW Live
