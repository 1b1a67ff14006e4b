SPECIFICATION FairSpec
CONSTANTS
  RcFrames <- FourFrames
  NoRc = NoRc
  CanMotions <- TwoCanMotions
  SupModes = {0, 1}
  kNonSupervised = 0
  rc_timeout_count = 2
  can_timeout_count = 2
  Depth = 1
INVARIANTS
  EstopFollowsSwitch
  RcVerdict
PROPERTIES
  SentMotionIsLive
  PromiseKept
  SilenceStopsRobot
