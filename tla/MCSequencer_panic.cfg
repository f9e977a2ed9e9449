SPECIFICATION FairSpec
CONSTANTS
  StartBlock = 1
  MaxBlock = 3
  BufferLimit = 4
  HighWater = 2
  LowWater = 1
  GapFillMax = 1
  MaxBatch = 2
  MaxInflight = 2
  GapThreshold = 0
  CanReorg = FALSE
  HydrateMayFail = TRUE
  WatchdogEnabled = FALSE
PROPERTIES RestartRecovers
CHECK_DEADLOCK FALSE
