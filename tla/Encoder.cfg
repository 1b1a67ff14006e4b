SPECIFICATION FairEncoder
CONSTANTS
  Deltas <- SomeDeltas
  Elapsed = {4, 6}
  Starts = {57344}
  MaxChanges = 1
  OverflowAtStart = {TRUE, FALSE}
  MaxPulse = 16384
  PulsePerRound = 4915200
  FilterLen = 2
  MaxRpm = 26
  MinEstimates = 3
  RpmDepth = 1
INVARIANTS
  EncoderTypeOK
  SpeedPlausible
PROPERTIES
  CountExact
  FilterSettles
