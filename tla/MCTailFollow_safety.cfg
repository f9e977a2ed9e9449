SPECIFICATION Spec
CONSTANTS
  MaxTip = 3
  Window = 1
  RangeSize = 1
  JobsCap = 1
  CmdCap = 2
  MaxSafety = 2
  ShrinkAfter = 1
  RpcMayLag = TRUE
  MaxForces = 1
  MaxOutcomes = 1
INVARIANTS HoleFromCutOrPurge NoGhostChase
