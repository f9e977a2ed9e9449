SPECIFICATION FairSpec
CONSTANTS
  MaxHeight = 3
  CmdCap = 2
  TaskCap = 1
  BatchSize = 2
  DBMayFail = TRUE
  MaxNoise = 1
  MaxCrashes = 1
INVARIANTS NoSilentLoss CheckpointCovers CursorBehindDisk
PROPERTIES ImplementsResumeLog EventuallySettled
CHECK_DEADLOCK FALSE
