SPECIFICATION FairSpec
CONSTANTS
  RingRoom = 2
  MaxBurst = 3
INVARIANTS TypeOK ActiveIsTimed StoppedIsSilent
PROPERTIES ExpiryTaken NoTimerHangs
