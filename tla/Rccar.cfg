SPECIFICATION FairSpec
CONSTANTS
  RcFrames <- SomeFrames
  rc_timeout_count = 1
  LinearDeadzone = 50
  AngularDeadzone = 100
  MaxRpm = 23250
  VescId = 104
  MaxFailures = 1
  Depth = 1
  MotionDepth = 2
INVARIANTS
  TypeOK
  OneAfterStop
  StaleOnce
  VescReadsCommand
PROPERTIES
  SticksReachVesc
