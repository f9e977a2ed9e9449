SPECIFICATION Spec
CONSTANTS
  MaxTip = 4
  Window = 2
  RangeSize = 1
  JobsCap = 2
  CmdCap = 2
  MaxSafety = 2
  ShrinkAfter = 2
  RpcMayLag = FALSE
  MaxForces = 0
  MaxOutcomes = 1
INVARIANTS NoScheduleHole
