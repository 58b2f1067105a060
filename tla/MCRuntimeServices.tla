------------------------- MODULE MCRuntimeServices --------------------------
(***************************************************************************)
(* The services under the trading loop: orders and positions known, risk   *)
(* bounded, bars, quotes, headlines and clock supplied; and LimitsTracker, *)
(* which the module extends.                                               *)
(* A behaviour chooses one of them and moves only it: they share no state. *)
(* The bounds of each are named in its module.                             *)
(***************************************************************************)
EXTENDS LimitsTracker

(* A loss that reaches the limit in two sales, and a gain that takes it    *)
(* back.                                                                   *)
MCAmounts == {-1, 1}

CONSTANTS
  BackupCount, MaxSaves,                 \* state files
  Symbols, MaxQty,                       \* recovery
  Orders, Size, MaxInbox,                \* order tracker
  MaxStarts, MaxSockets,                 \* user stream
  BarInterval, Grace, MaxStale,
  BarsTtl, Lookback, BarProviders,
  BarsEnd,                               \* market data
  TrailPrices, Trail, Activation,
  MaxUpdates,                            \* trailing stops
  MaxSignals, MaxWorkers, MaxThreads,
  ExecutorEnd,                           \* realtime executor
  Components, Statuses, CheckInterval,
  Threshold, MaxChecks, MaxLoops,
  MaxRuns, ChecksEnd,                    \* health checks
  BookSymbols, BookOrders, BookQty,
  ReconcileInterval, ReconcileEnd,       \* periodic reconciler
  HandledOrders, HandlerCrashes,
  MaxRecords,                            \* event handlers
  GuardedSymbols, Gains, Losses,
  MaxClosed, GuardsEnd, MaxStoplosses,
  StopLookback, StopCooldown,
  DrawLookback, DrawCooldown,
  MajorLoss, LossCooldown,
  TradingWindow,                         \* protections
  DayLength, OpenAt, CloseAt, Ttl,
  BaseInterval, ClosedInterval,
  PreOpenInterval, PreOpenWindow,
  MaxFailures, MaxCall, MaxCycle,
  HoursEnd,                              \* market hours
  HeadlinesTtl, HeadlinesEnd,
  MaxHeadlines,                          \* news
  QuoteProviders, Retries, Staleness,
  CacheTtl, Ages, QuotesEnd, MaxAttempts \* quotes

ASSUME OrdersAssumption == Size \in Nat \ {0}
ASSUME StreamAssumption == MaxStarts \in Nat
ASSUME BarsAssumption ==
  Lookback \subseteq Nat \ {0} /\ BarsTtl \in Nat /\ MaxStale \in Nat
ASSUME TrailingAssumption ==
  TrailPrices \subseteq Int /\ Trail \in Int /\ Activation \in Int
ASSUME ExecutorAssumption ==
  MaxWorkers \in Nat /\ MaxThreads \in Nat /\ ExecutorEnd \in Nat \ {0}
ASSUME ChecksAssumption == Threshold \in Nat
ASSUME ReconcilingAssumption ==
  ReconcileInterval \in Nat \ {0} /\ BookQty \in Nat /\ BookSymbols \cap BookOrders = {}
ASSUME GuardsAssumption == LossCooldown \in Nat
(* The loop sleeps 120 s while the market is closed, 20 s in the ten       *)
(* minutes before it opens.                                                *)
ASSUME HoursAssumption ==
  /\ DayLength \in Nat /\ OpenAt \in Nat /\ CloseAt \in Nat
  /\ OpenAt < CloseAt /\ CloseAt <= DayLength
  /\ BaseInterval \in Int /\ ClosedInterval \in Int
  /\ PreOpenInterval \in Nat \ {0} /\ PreOpenWindow \in Nat
  /\ ClosedInterval <= PreOpenWindow + PreOpenInterval
ASSUME HeadlinesAssumption == HeadlinesTtl \in Nat \ {0}
ASSUME QuotesAssumption == Ages \subseteq Nat /\ Staleness \in Nat /\ CacheTtl \in Nat

VARIABLES
  subject,   \* the component this behaviour is about
  (* state files *)
  step, tmp, persistenceCurrent, bak, backups, persistenceAttempt, kept,
  loaded,
  (* recovery *)
  startupStage, startupRows, snapshot, view, startupTodo, startupAccount,
  working, startupSteady,
  (* periodic reconciler *)
  reconcilingNow, reconcilingStage, reconcilingRows, reconcilingKnown,
  reconcilingAccount, reconcilingOpen, lastRun, at, reconcilingPositions,
  stored, listed, report, reconcilingSince,
  (* order tracker *)
  streaming, trackingBroker, inbox, polled, flight, completed, trackingKnown,
  pending,
  (* event handlers *)
  handlersBroker, handlersCalls, updates, table, log, handlersStage, event,
  handlersCrashes,
  (* realtime executor *)
  executorNow, queue, executorSignals, executorRunning, threads,
  executorStage, signal, id, orders, active, executorCalls, holders,
  (* user stream *)
  streamRunning, ws, sockets, streamOpen, starter, reader, task, stopper,
  closing, starts, overlapped,
  (* protections *)
  guardsNow, trades, guardsBlocked, drawUntil, coolUntil, lastCheck,
  guardsEnabled, answer, resetAt,
  (* trailing stops *)
  stop, check, trailingSeen,
  (* health *)
  checksNow, made, checks, checksEnabled, last, checksResult, checksFailures,
  checksRunning, checksStage, checksTodo, checksCurrent, found, count,
  outcomes, alerts, doubled,
  (* market data *)
  barsClock, paper, barsCache, barsCachedAt, barsStage, barsProvider, frame,
  barsAsked,
  (* market hours *)
  hoursNow, failOpen, hoursCache, hoursCachedAt, hoursStage, began, hoursWake,
  hoursStatus, breaker,
  (* news *)
  headlinesNow, headlinesProvider, fmpOn, feed, headlinesSince, published,
  headlinesCache, headlinesDisabled, headlinesStage, hit, headlinesAsked,
  headlinesReady, failed,
  (* quotes *)
  quotingNow, up, quotingStatus, quotingFailures, quotingCache, turn,
  quotingAttempt, quotingResult, answers

Persistence == INSTANCE StatePersistence WITH
  current <- persistenceCurrent, attempt <- persistenceAttempt
Startup == INSTANCE Recovery WITH
  stage <- startupStage,
  rows <- startupRows, todo <- startupTodo, account <- startupAccount,
  steady <- startupSteady
Reconciling == INSTANCE Reconciler WITH
  EndOfTime <- ReconcileEnd, Interval <- ReconcileInterval,
  Symbols <- BookSymbols, Orders <- BookOrders, MaxQty <- BookQty,
  now <- reconcilingNow, stage <- reconcilingStage, rows <- reconcilingRows,
  known <- reconcilingKnown, account <- reconcilingAccount,
  open <- reconcilingOpen, positions <- reconcilingPositions,
  since <- reconcilingSince
Tracking == INSTANCE OrderTracker WITH
  broker <- trackingBroker, known <- trackingKnown
Handlers == INSTANCE EventHandlers WITH
  Orders <- HandledOrders, MaxCrashes <- HandlerCrashes,
  broker <- handlersBroker, calls <- handlersCalls, stage <- handlersStage,
  crashes <- handlersCrashes
Executor == INSTANCE RealtimeExecutor WITH
  EndOfTime <- ExecutorEnd, now <- executorNow, signals <- executorSignals,
  running <- executorRunning, stage <- executorStage, calls <- executorCalls
Stream == INSTANCE UserStream WITH
  running <- streamRunning, open <- streamOpen
Guards == INSTANCE Protections WITH
  Symbols <- GuardedSymbols, MaxTrades <- MaxClosed, EndOfTime <- GuardsEnd,
  now <- guardsNow, blocked <- guardsBlocked, enabled <- guardsEnabled
Trailing == INSTANCE TrailingStops WITH
  Prices <- TrailPrices, seen <- trailingSeen
Checks == INSTANCE Health WITH
  EndOfTime <- ChecksEnd, Interval <- CheckInterval, now <- checksNow,
  enabled <- checksEnabled, result <- checksResult,
  failures <- checksFailures, running <- checksRunning, stage <- checksStage,
  todo <- checksTodo, current <- checksCurrent
Bars == INSTANCE MarketData WITH
  Interval <- BarInterval, Ttl <- BarsTtl, Providers <- BarProviders,
  EndOfTime <- BarsEnd, clock <- barsClock, cache <- barsCache,
  cachedAt <- barsCachedAt, stage <- barsStage, provider <- barsProvider,
  asked <- barsAsked
Hours == INSTANCE MarketHours WITH
  EndOfTime <- HoursEnd,
  now <- hoursNow, cache <- hoursCache, cachedAt <- hoursCachedAt,
  stage <- hoursStage, wake <- hoursWake, status <- hoursStatus
Headlines == INSTANCE News WITH
  Ttl <- HeadlinesTtl, EndOfTime <- HeadlinesEnd, now <- headlinesNow,
  provider <- headlinesProvider, since <- headlinesSince,
  cache <- headlinesCache, stage <- headlinesStage, asked <- headlinesAsked,
  disabled <- headlinesDisabled, ready <- headlinesReady
Quoting == INSTANCE Quotes WITH
  Providers <- QuoteProviders, EndOfTime <- QuotesEnd, now <- quotingNow,
  status <- quotingStatus, failures <- quotingFailures, cache <- quotingCache,
  attempt <- quotingAttempt, result <- quotingResult

persistenceVars == <<step, tmp, persistenceCurrent, bak, backups,
  persistenceAttempt, kept, loaded>>
startupVars == <<startupStage, startupRows, snapshot, view, startupTodo,
  startupAccount, working, startupSteady>>
reconcilingVars == <<reconcilingNow, reconcilingStage, reconcilingRows,
  reconcilingKnown, reconcilingAccount, reconcilingOpen, lastRun, at,
  reconcilingPositions, stored, listed, report, reconcilingSince>>
trackingVars == <<streaming, trackingBroker, inbox, polled, flight,
  completed, trackingKnown, pending>>
handlersVars == <<handlersBroker, handlersCalls, updates, table, log,
  handlersStage, event, handlersCrashes>>
executorVars == <<executorNow, queue, executorSignals, executorRunning,
  threads, executorStage, signal, id, orders, active, executorCalls, holders>>
streamVars == <<streamRunning, ws, sockets, streamOpen, starter, reader,
  task, stopper, closing, starts, overlapped>>
guardsVars == <<guardsNow, trades, guardsBlocked, drawUntil, coolUntil,
  lastCheck, guardsEnabled, answer, resetAt>>
trailingVars == <<stop, check, trailingSeen>>
checksVars == <<checksNow, made, checks, checksEnabled, last, checksResult,
  checksFailures, checksRunning, checksStage, checksTodo, checksCurrent,
  found, count, outcomes, alerts, doubled>>
barsVars == <<barsClock, paper, barsCache, barsCachedAt, barsStage,
  barsProvider, frame, barsAsked>>
hoursVars == <<hoursNow, failOpen, hoursCache, hoursCachedAt, hoursStage,
  began, hoursWake, hoursStatus, breaker>>
headlinesVars == <<headlinesNow, headlinesProvider, fmpOn, feed,
  headlinesSince, published, headlinesCache, headlinesDisabled,
  headlinesStage, hit, headlinesAsked, headlinesReady, failed>>
quotingVars == <<quotingNow, up, quotingStatus, quotingFailures,
  quotingCache, turn, quotingAttempt, quotingResult, answers>>

Subjects ==
  {"Limits", "Persistence", "Startup", "Reconciling", "Tracking", "Handlers",
  "Executor", "Stream", "Guards", "Trailing", "Checks", "Bars", "Hours",
  "Headlines", "Quoting"}

MCInit ==
  /\ subject \in Subjects /\ Init
  /\ Persistence!Init /\ Startup!Init /\ Reconciling!Init /\ Tracking!Init
  /\ Handlers!Init /\ Executor!Init /\ Stream!Init /\ Guards!Init
  /\ Trailing!Init /\ Checks!Init /\ Bars!Init /\ Hours!Init
  /\ Headlines!Init /\ Quoting!Init
  (* What may start in several ways starts in one where it does not move. *)
  /\ subject # "Tracking" => ~streaming
  /\ subject # "Reconciling" =>
       reconcilingRows = Reconciling!Flat /\ reconcilingAccount = Reconciling!Flat
  /\ subject # "Bars" => ~paper
  /\ subject # "Hours" => ~failOpen
  /\ subject # "Headlines" => headlinesProvider = "AUTO" /\ ~fmpOn

(* Only the subject moves; its step is Next of its module.                 *)
MCNext ==
  /\ subject' = subject
  /\ IF subject = "Limits" THEN Next ELSE UNCHANGED vars
  /\ IF subject = "Persistence" THEN Persistence!Next ELSE UNCHANGED persistenceVars
  /\ IF subject = "Startup" THEN Startup!Next ELSE UNCHANGED startupVars
  /\ IF subject = "Reconciling" THEN Reconciling!Next ELSE UNCHANGED reconcilingVars
  /\ IF subject = "Tracking" THEN Tracking!Next ELSE UNCHANGED trackingVars
  /\ IF subject = "Handlers" THEN Handlers!Next ELSE UNCHANGED handlersVars
  /\ IF subject = "Executor" THEN Executor!Next ELSE UNCHANGED executorVars
  /\ IF subject = "Stream" THEN Stream!Next ELSE UNCHANGED streamVars
  /\ IF subject = "Guards" THEN Guards!Next ELSE UNCHANGED guardsVars
  /\ IF subject = "Trailing" THEN Trailing!Next ELSE UNCHANGED trailingVars
  /\ IF subject = "Checks" THEN Checks!Next ELSE UNCHANGED checksVars
  /\ IF subject = "Bars" THEN Bars!Next ELSE UNCHANGED barsVars
  /\ IF subject = "Hours" THEN Hours!Next ELSE UNCHANGED hoursVars
  /\ IF subject = "Headlines" THEN Headlines!Next ELSE UNCHANGED headlinesVars
  /\ IF subject = "Quoting" THEN Quoting!Next ELSE UNCHANGED quotingVars

allVars == <<subject, vars,
  persistenceVars, startupVars, reconcilingVars, trackingVars, handlersVars,
  executorVars, streamVars, guardsVars, trailingVars, checksVars,
  barsVars, hoursVars, headlinesVars, quotingVars>>

MCSpec == MCInit /\ [][MCNext]_allVars
-----------------------------------------------------------------------------
(* A crash in a save costs no more than the save.                          *)
SnapshotSurvives == subject = "Persistence" => Persistence!SnapshotSurvives
(* The runtime starts to trade with the broker's positions.                *)
StartupAgrees == subject = "Startup" => Startup!StartupAgrees
(* A lasting difference is reported.                                       *)
DriftIsReported == subject = "Reconciling" => Reconciling!DriftIsReported
(* No live order is taken for a finished one.                              *)
LiveOrdersAreTracked == subject = "Tracking" => Tracking!LiveOrdersAreTracked
(* Handlers are idempotent.                                                *)
MovesAreRecordedOnce == subject = "Handlers" => Handlers!MovesAreRecordedOnce
(* A signal hears of its own order.                                        *)
CallbacksAreOwn == subject = "Executor" => Executor!CallbacksAreOwn
(* A stopped stream is closed.                                             *)
QuietAfterStop == subject = "Stream" => Stream!QuietAfterStop
(* A major loss is followed by its cooldown.                               *)
MajorLossIsCooled == subject = "Guards" => Guards!MajorLossIsCooled
(* The stop is where the prices seen put it.                               *)
StopFollowsHistory == subject = "Trailing" => Trailing!StopFollowsHistory
(* An alert follows failures in a row.                                     *)
AlertsAreDeserved == subject = "Checks" => Checks!AlertsAreDeserved
(* Bars served are not too old.                                            *)
ServedWithinBound == subject = "Bars" => Bars!ServedWithinBound
(* The loop trades in hours it was told of.                                *)
KeepsHours == subject = "Hours" => Hours!KeepsHours
(* Bad news vetoes within the cache's lifetime.                            *)
VetoWithinTtl == subject = "Headlines" => Headlines!VetoWithinTtl
(* A quote is live, or says that it is cached.                             *)
QuotesAreHonest == subject = "Quoting" => Quoting!QuotesAreHonest
=============================================================================
