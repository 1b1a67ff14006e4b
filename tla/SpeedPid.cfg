SPECIFICATION Spec
CONSTANTS
  Targets <- SomeTargets
  Estimates <- SomeEstimates
  kp <- Kp
  ki <- Ki
  umax = 100000
  Garbage = Garbage
  Depth = 1
  CmdDepth = 1
INVARIANTS
  IntegralBounded
PROPERTIES
  SaturatesTowardsTarget
