SPECIFICATION FairStartup
CONSTANTS
  Cmds <- SomeCmds
  Full = 1000
  MaxCmd = 990
  DeadZone = 50
  Depth = 2
  Lacks <- BoundAtRunTime
CHECK_DEADLOCK FALSE
INVARIANTS
  CommandApplied
  NoSurge
  ReadyBeforeUse
  BuffersApart
  PanicIsStill
PROPERTIES
  NewestApplied
  BootCompletes
