SPECIFICATION MCSpec
CONSTANTS
  Threads = {main, gate}
  Amounts <- MCAmounts
  DailyLossLimit = 2
  MaxDay = 1
  MaxTrades = 3
  BackupCount = 2
  MaxSaves = 4
  Symbols = {"a", "b"}
  MaxQty = 2
  Orders = {"a", "b"}
  Size = 2
  MaxInbox = 3
  MaxStarts = 2
  MaxSockets = 3
  BarInterval = 2
  Grace = 1
  MaxStale = 3
  BarsTtl = 2
  Lookback = {1, 3}
  BarProviders = 2
  BarsEnd = 8
  TrailPrices = {94, 97, 100, 103, 106}
  Trail = 2
  Activation = 3
  MaxUpdates = 4
  MaxSignals = 2
  MaxWorkers = 1
  MaxThreads = 2
  ExecutorEnd = 4
  Components = {"c"}
  Statuses = {"HEALTHY", "DEGRADED", "UNHEALTHY"}
  CheckInterval = 1
  Threshold = 2
  MaxChecks = 2
  MaxLoops = 1
  MaxRuns = 3
  ChecksEnd = 3
  BookSymbols = {"s"}
  BookOrders = {"o"}
  BookQty = 1
  ReconcileInterval = 2
  ReconcileEnd = 4
  HandledOrders = {"a"}
  HandlerCrashes = 2
  MaxRecords = 9
  GuardedSymbols = {"a", "b"}
  Gains = {2}
  Losses = {1, 5}
  MaxClosed = 2
  GuardsEnd = 6
  MaxStoplosses = 2
  StopLookback = 3
  StopCooldown = 2
  DrawLookback = 4
  DrawCooldown = 3
  MajorLoss = 5
  LossCooldown = 2
  TradingWindow = {2, 3, 4, 5, 6}
  DayLength = 16
  OpenAt = 8
  CloseAt = 13
  Ttl = 3
  BaseInterval = 2
  ClosedInterval = 4
  PreOpenInterval = 2
  PreOpenWindow = 5
  MaxFailures = 2
  MaxCall = 2
  MaxCycle = 3
  HoursEnd = 32
  HeadlinesTtl = 1
  HeadlinesEnd = 2
  MaxHeadlines = 1
  QuoteProviders = 2
  Retries = 2
  Staleness = 1
  CacheTtl = 2
  Ages = {0, 2}
  QuotesEnd = 3
  MaxAttempts = 3
INVARIANTS
  RowIsLedger
  SnapshotSurvives
  StartupAgrees
  DriftIsReported
  LiveOrdersAreTracked
  MovesAreRecordedOnce
  CallbacksAreOwn
  QuietAfterStop
  MajorLossIsCooled
  StopFollowsHistory
  AlertsAreDeserved
  ServedWithinBound
  KeepsHours
  VetoWithinTtl
  QuotesAreHonest
CHECK_DEADLOCK FALSE
