SPECIFICATION Spec
CONSTANTS
  PoolSize = 2
  PoolCallers = {c1, c2}
  CountMod = 2
  MaxCooldowns = 1
  MaxHeight = 3
  LeapGap = 1
  ResetGap = 2
  TearGap = 1
  DemoMode = TRUE
  LocalChain = TRUE
  MaxLag = 1
  Checkers = {k1}
  MaxRestarts = 1
  MaxResets = 1
  ReorgHeight = 5
  MaxReorgs = 2
  MaxSkips = 1
  ChainOne = FALSE
  WindowLimit = 3
  WindowLength = 3
  Waiters = {w1, w2}
  DailyLimit = 8
  ReportedUses = {0, 5, 7, 8, 10}
  Requesters = {w1, w2}
  ReplayBatch = 1
  MaxLines = 4
  MaxNumber = 3
  WsClients = {a, b}
  SendCap = 1
  BroadcastCap = 1
  AggregateCap = 2
  ThrottledTypes = {"block", "gas"}
  Tokens = {t1, t2, t3}
  Askers = {a, b}
  TokenQueueCap = 1
  TokenBatch = 2
  MaxTxs = 2
  MaxLogs = 3
  SyntheticBase = 2
  MockBase = 5
  MockLast = 10
  MaxNonce = 4
  SyncEvery = 2
  MarkHeight = 2
  MarkCmdCap = 1
  MaxForced = 1
  DynamicCallers = {w1, w2}
  DynamicRanges = {"head"}
  MergeWindow = 5
  MaxLevel = 2
  NewBlocksCap = 2
  MaxReconnects = 2
INVARIANTS
  CooldownKept AllFailedTriedAll CheckpointHolesExplained RollbackAgrees
  WindowQuotaKept SleepsOnlyWhenFull OvershootBounded OnlyStopsLost PanicsOnlyInFlush
  NoZombieClient OnceUnderWay MarksExplained StoredCompletely
  GapsAreAbandoned WatermarksOrdered MergedHasTwin ConnectedIsHonest
PROPERTIES ReprocessingIdempotent
CHECK_DEADLOCK FALSE
