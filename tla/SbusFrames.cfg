SPECIFICATION FairReceiver
CONSTANTS
  Frames <- SomeFrames
  Chunks = {13, 25}
  RingSize = 20
  MaxFrames = 2
  MaxLost = 2
  RcDepth = 1
CHECK_DEADLOCK FALSE
INVARIANTS
  ReceiverTypeOK
  NoLostWakeup
  FramesIntact
PROPERTIES
  LastFrameArrives
