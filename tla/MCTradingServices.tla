------------------------- MODULE MCTradingServices --------------------------
(***************************************************************************)
(* The components that look for trades, bound them as a portfolio and      *)
(* report on them, the services that supply them with signals and          *)
(* requests, and TransactionLog, which the module extends.                 *)
(* A behaviour chooses one of them and moves only it: they share no state. *)
(* The bounds of each are named in its module.                             *)
(***************************************************************************)
EXTENDS TransactionLog, FiniteSets

(* Two settings of the universe builder's price bands.                     *)
MCFilters ==
  [f1 |-> [penny |-> <<1, 5>>, normal |-> <<5, 9>>, pennyVolume |-> 5, normalVolume |-> 1],
   f2 |-> [penny |-> <<1, 2>>, normal |-> <<2, 9>>, pennyVolume |-> 5, normalVolume |-> 1]]

MCRoll == <<"a", "b">>
MCOrder == <<"a">>

CONSTANTS
  BarPrices, Vwap, MinBars, MaxTrades, LossLimit, MaxTimeInTrade,
  FirstEntry, LastEntry, FlatTime, LastBar,
  MaxBars, MaxUnits, ReversionDays,      \* strategy
  InboxSymbols, Core, MaxAccepted, Dedupe, DayLength,
  InboxLines, InboxCrashes, InboxEnd,    \* universe inbox
  Processes, ListedSymbols, ListedPrices, ListedVolumes, Filters,
  HoursPerDay, ListedAge, BuilderEnd,    \* universe cache
  Roll, BatchSize, MinPersistence, ScanLevels, ScanDays,
  MaxScans,                              \* scanner
  ListingOrder, FoundGaps, FoundVolumes, FoundLevels,
  MinGap, MinVolume, LabelPersistence, TopN, AlertStep,
  BackoffStep, BackoffMax, MaxRows,
  ListingDays,                           \* watchlist
  Tasks, MaxRequests, Window, LimiterEnd,\* throttler
  FeedSymbols, SessionLength, MaxAge,
  Limit, MaxLines, MaxFeedCrashes,
  FeedEnd,                               \* signal feed
  PortfolioSymbols, PortfolioEquities,
  SizingBases, MaxPosition, SingleLimit,
  SectorLimit, CorrelatedLimit,
  WarnLimit, HaltLimit,                  \* risk toolkit
  WatchSymbols, WatchPrices, WatchEquities,
  MaxSingle, WarnSingle, MaxSector, WarnSector,
  MaxLoss, MaxSize, MaxEntries,          \* portfolio watch
  FillIds, ExpectedPrices, FillPrices,
  FillQuantities, Large, MaxHistory,
  RecordsKept, MinFillRate, MaxFillTime,
  MaxOrders, MaxFills, FillsEnd,         \* execution reports
  BookStrategies, TradeGains, TradeLosses,
  BookEquities, StartingEquity, Lookback,
  MinTrades, MaxConsecutiveLosses,
  MinWinRate, MaxDrawdown, MinSharpe,
  BooksEnd, MaxReports                   \* performance

ASSUME ReversionAssumption ==
  /\ 0 \notin BarPrices /\ MinBars \in Int
  /\ LastEntry \in Int /\ FlatTime \in Int /\ LastEntry < FlatTime
ASSUME InboxAssumption ==
  /\ "torn line" \notin InboxSymbols /\ "garbage" \notin InboxSymbols
  /\ Dedupe \in Nat /\ DayLength \in Nat \ {0} /\ InboxLines \in Nat
ASSUME BuilderAssumption == HoursPerDay \in Nat \ {0}
ASSUME ScannerAssumption ==
  /\ Roll \in Seq({Roll[i] : i \in DOMAIN Roll}) /\ Roll # <<>>
  /\ BatchSize \in Nat /\ MinPersistence \in Nat \ {0}
ASSUME ListingAssumption ==
  LabelPersistence \in Nat \ {0} /\ BackoffStep \in Nat /\ BackoffMax \in Nat
ASSUME LimiterAssumption == MaxRequests \in Nat \ {0} /\ Window \in Nat
ASSUME FeedAssumption == "torn line" \notin FeedSymbols /\ SessionLength \in Nat \ {0}
ASSUME ToolkitAssumption ==
  /\ IsFiniteSet(PortfolioSymbols)
  /\ PortfolioEquities \subseteq Nat \ {0}
  /\ \E e \in PortfolioEquities : \A d \in PortfolioEquities : d <= e
  /\ SizingBases \subseteq Int /\ MaxPosition \in Nat
  /\ SingleLimit \in Nat \ {0} /\ SectorLimit \in Nat \ {0}
  /\ CorrelatedLimit \in Nat /\ HaltLimit \in Nat \ {0}
ASSUME WatchAssumption ==
  /\ IsFiniteSet(WatchSymbols) /\ {"Technology", "Financials", "Unknown"} \cap WatchSymbols = {}
  /\ WatchPrices \subseteq Nat /\ WatchEquities \subseteq Nat
  /\ \A p \in WatchPrices, e \in WatchEquities \ {0} : (100 * p) % e = 0
  /\ MaxSingle \in Int /\ WarnSingle \in Int /\ MaxSector \in Int /\ WarnSector \in Int
ASSUME FillsAssumption ==
  /\ IsFiniteSet(FillIds) /\ ExpectedPrices \subseteq Nat /\ FillPrices \subseteq Nat
  /\ FillQuantities \subseteq Nat /\ Large \in Int
  /\ MaxHistory \in Nat /\ RecordsKept \in Nat /\ MinFillRate \in Nat \ {0}
ASSUME BooksAssumption ==
  /\ IsFiniteSet(BookStrategies) /\ TradeGains \subseteq Int /\ TradeLosses \subseteq Int
  /\ BookEquities \subseteq Int /\ StartingEquity \in Nat \ {0}

VARIABLES
  subject,   \* the component this behaviour is about
  (* strategy *)
  reversionDay, time, enabled, bars, reversionTrades, disabled, estimate,
  position, entryTime, signal, price, held, orphaned, late, asked,
  (* performance *)
  booksNow, booksTrades, curve, peak, worst, drawdownStart, longest, snaps,
  benched, equities,
  (* execution reports *)
  fillsNow, pending, executions, records, submissions, fills, lost,
  (* universe inbox *)
  inboxNow, inbox, written, state, stored, recent, batch, decisions, snapshot,
  inboxStage, fate, crashes,
  (* universe cache *)
  builderNow, filters, builderFile, builderStage, building, result, served,
  (* scanner *)
  scanningDay, scanningSession, mode, scanningResetDay, next, persistence,
  scanningGapping, scanningBest, ready, scanningFound, scanningGaps,
  scanningScans,
  (* watchlist *)
  today, listingSession, listingResetDay, listingBest, lasting,
  listingGapping, alerted, shown, watchlist, backoff, listingFound,
  listingGaps, limited, listingScans,
  (* throttler *)
  limiterClock, limiterStage, limiterWake, started, times, requests,
  (* signal feed *)
  feedNow, feedLines, offset, feedSeen, reading, feedPosition, feedSignals,
  handed, feedCrashes,
  (* risk toolkit *)
  toolkitEquity, toolkitPeak, toolkitStatus, toolkitPositions, correlated,
  approval, toolkitSteady, overridden,
  (* portfolio watch *)
  watchAccount, lots, side, value, watchEquity, exposure, sectors, tracked,
  watchBlocked

Reversion == INSTANCE Strategy WITH
  Prices <- BarPrices, Flat <- FlatTime, Close <- LastBar, MaxDays <- ReversionDays,
  day <- reversionDay, trades <- reversionTrades
Books == INSTANCE Performance WITH
  Strategies <- BookStrategies, Gains <- TradeGains, Losses <- TradeLosses,
  Equities <- BookEquities, EndOfTime <- BooksEnd,
  now <- booksNow, trades <- booksTrades
Fills == INSTANCE ExecutionReports WITH
  Ids <- FillIds, Expected <- ExpectedPrices, Prices <- FillPrices,
  Quantities <- FillQuantities, MaxRecords <- RecordsKept, EndOfTime <- FillsEnd,
  now <- fillsNow
Inbox == INSTANCE Universe WITH
  Symbols <- InboxSymbols, MaxLines <- InboxLines,
  MaxCrashes <- InboxCrashes, EndOfTime <- InboxEnd, now <- inboxNow,
  stage <- inboxStage
Builder == INSTANCE UniverseCache WITH
  Symbols <- ListedSymbols, Prices <- ListedPrices, Volumes <- ListedVolumes,
  MaxAge <- ListedAge, EndOfTime <- BuilderEnd, now <- builderNow,
  file <- builderFile, stage <- builderStage
Scanning == INSTANCE Scanner WITH
  Levels <- ScanLevels, MaxDays <- ScanDays, day <- scanningDay,
  session <- scanningSession,
  resetDay <- scanningResetDay, gapping <- scanningGapping,
  best <- scanningBest, found <- scanningFound, gaps <- scanningGaps,
  scans <- scanningScans
Listing == INSTANCE Watchlist WITH
  Order <- ListingOrder, Gaps <- FoundGaps, Volumes <- FoundVolumes,
  Levels <- FoundLevels, MinPersistence <- LabelPersistence,
  MaxDays <- ListingDays, session <- listingSession, resetDay <- listingResetDay,
  best <- listingBest, gapping <- listingGapping, found <- listingFound,
  gaps <- listingGaps, scans <- listingScans
Limiter == INSTANCE Throttler WITH
  EndOfTime <- LimiterEnd, clock <- limiterClock, stage <- limiterStage,
  wake <- limiterWake
Feed == INSTANCE SignalFeed WITH
  Symbols <- FeedSymbols, MaxCrashes <- MaxFeedCrashes, EndOfTime <- FeedEnd,
  now <- feedNow, lines <- feedLines, position <- feedPosition,
  seen <- feedSeen, signals <- feedSignals, crashes <- feedCrashes
Toolkit == INSTANCE RiskToolkit WITH
  Symbols <- PortfolioSymbols, Equities <- PortfolioEquities, Bases <- SizingBases,
  equity <- toolkitEquity, peak <- toolkitPeak, status <- toolkitStatus,
  positions <- toolkitPositions, steady <- toolkitSteady
Watch == INSTANCE PortfolioWatch WITH
  Symbols <- WatchSymbols, Prices <- WatchPrices, Equities <- WatchEquities,
  account <- watchAccount, equity <- watchEquity, blocked <- watchBlocked

reversionVars == <<reversionDay, time, enabled, bars, reversionTrades,
  disabled, estimate, position, entryTime, signal, price, held, orphaned,
  late, asked>>
booksVars == <<booksNow, booksTrades, curve, peak, worst, drawdownStart,
  longest, snaps, benched, equities>>
fillsVars == <<fillsNow, pending, executions, records, submissions, fills,
  lost>>
inboxVars == <<inboxNow, inbox, written, state, stored, recent, batch,
  decisions, snapshot, inboxStage, fate, crashes>>
builderVars == <<builderNow, filters, builderFile, builderStage, building,
  result, served>>
scanningVars == <<scanningDay, scanningSession, mode, scanningResetDay,
  next, persistence, scanningGapping, scanningBest, ready, scanningFound,
  scanningGaps, scanningScans>>
listingVars == <<today, listingSession, listingResetDay, listingBest,
  lasting, listingGapping, alerted, shown, watchlist, backoff, listingFound,
  listingGaps, limited, listingScans>>
limiterVars == <<limiterClock, limiterStage, limiterWake, started, times,
  requests>>
feedVars == <<feedNow, feedLines, offset, feedSeen, reading, feedPosition,
  feedSignals, handed, feedCrashes>>
toolkitVars == <<toolkitEquity, toolkitPeak, toolkitStatus, toolkitPositions,
  correlated, approval, toolkitSteady, overridden>>
watchVars == <<watchAccount, lots, side, value, watchEquity, exposure,
  sectors, tracked, watchBlocked>>

Subjects ==
  {"Log", "Reversion", "Books", "Fills", "Inbox", "Builder", "Scanning",
  "Listing", "Limiter", "Feed", "Toolkit", "Watch"}

MCInit ==
  /\ subject \in Subjects /\ Init
  /\ Reversion!Init /\ Books!Init /\ Fills!Init /\ Inbox!Init /\ Builder!Init
  /\ Scanning!Init /\ Listing!Init /\ Limiter!Init /\ Feed!Init
  /\ Toolkit!Init /\ Watch!Init
  (* What may start in several ways starts in one where it does not move. *)
  /\ subject # "Builder" => filters \in [Processes -> {CHOOSE f \in DOMAIN Filters : TRUE}]
  /\ subject # "Watch" => watchAccount = CHOOSE e \in WatchEquities : TRUE

(* Only the subject moves; its step is Next of its module.                 *)
MCNext ==
  /\ subject' = subject
  /\ IF subject = "Log" THEN Next ELSE UNCHANGED vars
  /\ IF subject = "Reversion" THEN Reversion!Next ELSE UNCHANGED reversionVars
  /\ IF subject = "Books" THEN Books!Next ELSE UNCHANGED booksVars
  /\ IF subject = "Fills" THEN Fills!Next ELSE UNCHANGED fillsVars
  /\ IF subject = "Inbox" THEN Inbox!Next ELSE UNCHANGED inboxVars
  /\ IF subject = "Builder" THEN Builder!Next ELSE UNCHANGED builderVars
  /\ IF subject = "Scanning" THEN Scanning!Next ELSE UNCHANGED scanningVars
  /\ IF subject = "Listing" THEN Listing!Next ELSE UNCHANGED listingVars
  /\ IF subject = "Limiter" THEN Limiter!Next ELSE UNCHANGED limiterVars
  /\ IF subject = "Feed" THEN Feed!Next ELSE UNCHANGED feedVars
  /\ IF subject = "Toolkit" THEN Toolkit!Next ELSE UNCHANGED toolkitVars
  /\ IF subject = "Watch" THEN Watch!Next ELSE UNCHANGED watchVars

allVars == <<subject, vars,
  reversionVars, booksVars, fillsVars, inboxVars, builderVars, scanningVars,
  listingVars, limiterVars, feedVars, toolkitVars, watchVars>>

MCSpec == MCInit /\ [][MCNext]_allVars
-----------------------------------------------------------------------------
(* A position is held overnight only for a reason.                         *)
OvernightHasReason == Reversion!OvernightHasReason
(* The three books of trades agree.                                        *)
BooksAreExact == subject = "Books" => Books!BooksAreExact
(* Two reports of the same fills agree.                                    *)
ReportsAgree == subject = "Fills" => Fills!ReportsAgree
(* A candidate that was written is decided.                                *)
NothingSkipped == subject = "Inbox" => Inbox!NothingSkipped
(* The universe served is today's.                                         *)
ServedIsCurrent == subject = "Builder" => Builder!ServedIsCurrent
(* A symbol is READY by persistence.                                       *)
ReadyIsEarned == Scanning!ReadyIsEarned
(* A label is earned, and a pause grows.                                   *)
LabelsAndPausesAreEarned == subject = "Listing" => Listing!LabelsAndPausesAreEarned
(* The rate limit is kept.                                                 *)
WindowKept == subject = "Limiter" => Limiter!WindowKept
(* A signal is handed out once.                                            *)
HandedOutOnce == subject = "Feed" => Feed!HandedOutOnce
(* Approved positions keep the limits.                                     *)
PortfolioWithinLimits == subject = "Toolkit" => Toolkit!PortfolioWithinLimits
(* The heat map and the entries follow the book.                           *)
WatchKeepsUp == subject = "Watch" => Watch!WatchKeepsUp
=============================================================================
