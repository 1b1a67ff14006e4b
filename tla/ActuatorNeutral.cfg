SPECIFICATION Spec
CONSTANTS
  Cmds <- NeutralCmds
  Full = 1000
  MaxCmd = 990
  DeadZone = 50
  Depth = 1
INVARIANTS
  NeutralNeverMoves
