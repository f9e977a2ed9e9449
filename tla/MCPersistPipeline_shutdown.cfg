SPECIFICATION Spec
CONSTANTS
  MaxHeight = 3
  CmdCap = 8
  TaskCap = 4
  BatchSize = 2
  DBMayFail = FALSE
  MaxNoise = 0
  MaxCrashes = 0
PROPERTIES ShutdownFlushes
CHECK_DEADLOCK FALSE
