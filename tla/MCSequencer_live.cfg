SPECIFICATION FairSpec
CONSTANTS
  StartBlock = 1
  MaxBlock = 4
  BufferLimit = 4
  HighWater = 2
  LowWater = 1
  GapFillMax = 1
  MaxBatch = 2
  MaxInflight = 2
  GapThreshold = 0
  CanReorg = TRUE
  HydrateMayFail = FALSE
  WatchdogEnabled = FALSE
PROPERTIES ImplementsHandOver EventuallyPasses
CHECK_DEADLOCK FALSE
