SPECIFICATION Spec
CONSTANTS
  Workers = {w1}
  Ranges <- MCRanges
  JobsCap = 1
  ResultsCap = 1
  Retries = 2
  Tps = 2
  MaxBurst = 4
  LogCount <- MCLogCount
  StateCap = 1
  WithStateManager = {FALSE}
  MaxAccessors = 1
INVARIANT NeverDropsSilently
CHECK_DEADLOCK FALSE
