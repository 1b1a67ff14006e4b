SPECIFICATION Spec
CONSTANTS
  rx = rx
  motion = motion
  Producers <- BothWriters
  Prio <- TbotPrio
  Depth = 2
  MaxIssued = 6
INVARIANTS
  NewestSurvives
PROPERTIES
  ReaderGoesForward
  AtomicSpec
