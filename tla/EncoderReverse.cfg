SPECIFICATION EncoderSpec
CONSTANTS
  Deltas <- SomeDeltas
  Elapsed = {5}
  Starts <- SomeStarts
  MaxChanges = 1
  OverflowAtStart = {TRUE}
  MaxPulse = 16384
  PulsePerRound = 4915200
  FilterLen = 2
  MaxRpm = 26
  MinEstimates = 3
  RpmDepth = 1
PROPERTIES
  BackwardsIsDown
