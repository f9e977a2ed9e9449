SPECIFICATION FairSpec
CONSTANTS
  MaxTip = 4
  Window = 1
  RangeSize = 1
  JobsCap = 1
  CmdCap = 2
  MaxSafety = 2
  ShrinkAfter = 1
  RpcMayLag = TRUE
  MaxForces = 0
  MaxOutcomes = 1
PROPERTIES HeadCatchesUp EventuallyScheduled
