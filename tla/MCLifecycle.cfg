SPECIFICATION FairSpec
CONSTANTS
  Workers = {w1, w2}
  Ranges <- MCRanges
  JobsCap = 1
  ResultsCap = 1
  Retries = 2
  Tps = 2
  MaxBurst = 4
  LogCount <- MCLogCount
  StateCap = 2
  WithStateManager = {TRUE, FALSE}
  MaxAccessors = 1
INVARIANTS TakenIsAnswered ActiveMeansRunning AsleepMeansPaused ModeMatchesState
PROPERTIES StopEndsWorkers AccessActivates
CHECK_DEADLOCK FALSE
