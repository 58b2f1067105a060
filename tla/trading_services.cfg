SPECIFICATION MCSpec
CONSTANTS
  MaxRecords = 5
  BarPrices = {2, 3, 4}
  Vwap = 4
  MinBars = 2
  MaxTrades = 2
  LossLimit = 4
  MaxTimeInTrade = 2
  FirstEntry = 1
  LastEntry = 3
  FlatTime = 4
  LastBar = 4
  MaxBars = 5
  MaxUnits = 1
  ReversionDays = 1
  InboxSymbols = {"a", "b"}
  Core = {"SPY"}
  MaxAccepted = 1
  Dedupe = 2
  DayLength = 2
  InboxLines = 2
  InboxCrashes = 1
  InboxEnd = 2
  Processes = {"p", "q"}
  ListedSymbols = {"a"}
  ListedPrices = {5}
  ListedVolumes = {1}
  Filters <- MCFilters
  HoursPerDay = 2
  ListedAge = 1
  BuilderEnd = 2
  Roll <- MCRoll
  BatchSize = 3
  MinPersistence = 2
  ScanLevels = {0, 2}
  ScanDays = 1
  MaxScans = 3
  Tasks = {"t1", "t2"}
  MaxRequests = 2
  Window = 4
  LimiterEnd = 12
  FeedSymbols = {"a", "b"}
  SessionLength = 2
  MaxAge = 1
  Limit = 1
  MaxLines = 3
  MaxFeedCrashes = 1
  FeedEnd = 2
  ListingOrder <- MCOrder
  FoundGaps = {2}
  FoundVolumes = {1, 2}
  FoundLevels = {1}
  MinGap = 2
  MinVolume = 2
  LabelPersistence = 2
  TopN = 1
  AlertStep = 1
  BackoffStep = 2
  BackoffMax = 5
  MaxRows = 2
  ListingDays = 1
  PortfolioSymbols = {"x", "y", "z"}
  PortfolioEquities = {88, 100}
  SizingBases = {6, 15}
  MaxPosition = 10
  SingleLimit = 20
  SectorLimit = 30
  CorrelatedLimit = 25
  WarnLimit = 5
  HaltLimit = 10
  WatchSymbols = {"AAPL", "MSFT", "SPY"}
  WatchPrices = {1, 2}
  WatchEquities = {0, 10, 20}
  MaxSingle = 20
  WarnSingle = 10
  MaxSector = 30
  WarnSector = 20
  MaxLoss = 0
  MaxSize = 40
  MaxEntries = 3
  FillIds = {"i", "j"}
  ExpectedPrices = {0, 3}
  FillPrices = {2}
  FillQuantities = {1, 2}
  Large = 2
  MaxHistory = 1
  RecordsKept = 2
  MinFillRate = 90
  MaxFillTime = 1
  MaxOrders = 2
  MaxFills = 2
  FillsEnd = 1
  BookStrategies = {"s1", "s2"}
  TradeGains = {0, 2}
  TradeLosses = {1}
  BookEquities = {80, 100, 120}
  StartingEquity = 100
  Lookback = 2
  MinTrades = 1
  MaxConsecutiveLosses = 2
  MinWinRate = 40
  MaxDrawdown = 50
  MinSharpe = 1
  BooksEnd = 1
  MaxReports = 4
INVARIANTS
  BooksAreExact
  ReportsAgree
  NothingSkipped
  ServedIsCurrent
  LabelsAndPausesAreEarned
  WindowKept
  HandedOutOnce
  PortfolioWithinLimits
  WatchKeepsUp
PROPERTIES
  AckedStaysSeen
  OvernightHasReason
  ReadyIsEarned
CHECK_DEADLOCK FALSE
