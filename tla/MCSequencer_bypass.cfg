SPECIFICATION Spec
CONSTANTS
  StartBlock = 1
  MaxBlock = 3
  BufferLimit = 4
  HighWater = 2
  LowWater = 1
  GapFillMax = 1
  MaxBatch = 2
  MaxInflight = 2
  GapThreshold = 0
  CanReorg = FALSE
  HydrateMayFail = FALSE
  WatchdogEnabled = FALSE
PROPERTIES BypassResumesAtBuffered
CHECK_DEADLOCK FALSE
