SPECIFICATION FairSystem
CONSTANTS
  Motions <- WalkingPace
  BusTargets <- OneSpeed
  SupModes = {0, 1}
  kNonSupervised = 0
  accel = 3
  decel = 8
  Int16Max = 32767
  Depth = 1
INVARIANTS
  BlockTakesEffect
PROPERTIES
  RampLimited
  RampHeadsForCommand
  CommandReachesWheels
