SPECIFICATION Spec
CONSTANTS
  StartBlock = 1
  MaxBlock = 4
  BufferLimit = 2
  HighWater = 1
  LowWater = 1
  GapFillMax = 1
  MaxBatch = 2
  MaxInflight = 1
  GapThreshold = 2
  CanReorg = TRUE
  HydrateMayFail = TRUE
  WatchdogEnabled = TRUE
INVARIANTS TypeOK BufferBounded NoUnaccountedHeight
PROPERTIES BufferedNotJumped
CHECK_DEADLOCK FALSE
