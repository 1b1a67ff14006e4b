SPECIFICATION Spec
CONSTANTS
  Commands <- SomeCommands
  CanDepth = 2
  Depth = 1
  CmdDepth = 2
INVARIANTS
  TypeOK
  DeliveredAsSent
  NewestOffered
