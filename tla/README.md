# A TLA+ model of MiniQuantDesk v3

MiniQuantDesk is an automated trading program: strategies turn market bars into
signals, a runtime loop turns signals into orders at a broker (Alpaca), and
fills into positions, protective orders and a daily profit-and-loss record.
Beside the loop run a scanner, which finds symbols worth trading, a universe
process, which decides on them, and a set of monitoring, risk and recovery
services. This directory holds TLA+ modules of the parts where orders, money,
limits and stored state can go wrong, the TLC instances that check them, and
proofs of their main invariants for every value of the parameters.

Paths below are relative to the repository root; `core/` and `scanners/` are
under `src/`.

## 1. The system

| Component | State it keeps | Operations | Module |
|---|---|---|---|
| Order state machine, `core/state/order_machine.py` | table of orders, a lock | create_order, transition, restore_pending_orders | `OrderStateMachine`, `OrderLifecycle` |
| Event handlers, `core/events/handlers.py`, `types.py` | none | turn a broker update into an event, a transition and a log record | `EventHandlers` |
| Event bus, `core/events/bus.py` | bounded queue, consumer thread, two flags | emit, start, stop, drain | `EventBus` |
| Execution engine, `core/execution/engine.py` | duplicate guard, id mapping, cumulative fills | submit, poll, wait, book, brackets, OCO, cancel | `ExecutionEngine` |
| Broker connector, `core/brokers/alpaca_connector.py` | cached market clock | submit, status, cancel, clock, with retries | external part of `ExecutionEngine`; `MarketHours` |
| Position store, `core/state/position_store.py` | one SQLite row per symbol | upsert, get, delete, restore | rows of `ExecutionEngine`, `RuntimeLoop`, `Recovery` |
| Runtime loop, `core/runtime/app.py` | cooldowns, failure count | one cycle after another | `RuntimeLoop`, `MarketHours` |
| Transaction log, `core/state/transaction_log.py` | append-only file with checksums, its buffer | append, iter_events | `TransactionLog` |
| Limits tracker, `core/risk/limits.py` | one SQLite row per day, a lock | record, check, reset | `LimitsTracker` |
| Risk gate, `core/risk/gate.py` | request queue, decision map, daily counters, worker | submit_order, evaluate, start, stop | `RiskGate` |
| Order tracker, `core/state/order_tracker.py`, callbacks of `core/di/container.py` | orders in flight and completed, id map | start_tracking, process_fill, process_order_update | `OrderTracker` |
| Snapshots, `core/recovery/persistence.py` | current file, temporary file, backups | save_state, load_latest_state | `StatePersistence` |
| Recovery, `core/recovery/coordinator.py`, healing in `core/runtime/` | none of its own | load, compare, restore, reconcile, heal | `Recovery` |
| Reconciler, `core/state/reconciler.py` | time of the last run | compare own books with the broker's | `Reconciler` |
| User stream, `core/realtime/user_stream_tracker.py` | socket, receive task, running flag | start, stop, connect, receive, reconnect | `UserStream` |
| Realtime executor, `core/realtime/executor.py` | signal queue, workers, active orders | submit_signal, start, stop | `RealtimeExecutor` |
| Throttler, `core/net/throttler.py` | times of recent requests, a lock | execute | `Throttler` |
| Data pipeline, `core/data/` | cache of bars | fetch with fallback, validate, staleness | `MarketData` |
| Quotes with fallback, `core/recovery/degradation.py` | provider health, cached quotes | get_quote, reset | `Quotes` |
| Protections, `core/risk/protections/` | locks over time | check, enable, disable, reset | `Protections` |
| Risk toolkit, `core/risk_management/` | exposures, drawdown, correlations, trailing stops | check and report positions, prices, equity | `RiskToolkit`, `PortfolioWatch`, `TrailingStops` |
| Health checks, `core/monitoring/health.py` | registered checks, failure counts, loop thread | register, run, alert, start, stop | `Health` |
| Strategy and lifecycle, `strategies/` | day state, own idea of the position | on_bar, on_order_filled, enable, disable | `Strategy` |
| Trade books, `core/analytics/`, `core/strategies/performance_tracker.py` | closed trades, equity curve, retirement | record_trade, update_equity, metrics | `Performance` |
| Execution reports, `core/monitoring/execution.py`, `core/analytics/slippage.py` | pending and finished orders, slippage | record submission, fill, rejection; summaries | `ExecutionReports` |
| Universe inbox, `core/universe/` | files: inbox, state, decisions, snapshot | append, decide in batches, load | `Universe` |
| Scanner, `scanners/standalone_scanner.py` | persistence counts, rows of the day, news caches, backoff | scan, label, alert, export | `Scanner`, `Watchlist`, `News` |
| Universe builder, `scanners/universe_builder.py` | cache file of the day | load_or_build | `UniverseCache` |
| Signal consumer, `scanners/signal_consumer.py` | offset and seen signals in SQLite | get_candidates | `SignalFeed` |
| Logging, journal, Discord, configuration, clock, backtest, tools | - | reporting, formatting, simulation | not modelled |

How they interact. The runtime loop (one thread) calls the strategies, the
engine, the risk manager, the position store and the limits tracker directly.
The engine calls the broker, the position store, the transaction log, the order
tracker and the state machine. The state machine appends to the log and emits on
the bus under its lock; the bus calls its handlers on its own thread. The risk
gate has a worker thread, which asks the limits tracker before every approval.
Scanner, universe process and bot share nothing but files. A crash loses
everything but the log, the databases, the snapshots and those files; the broker
goes on meanwhile.

Facts about the wiring that matter when reading the models:

* The runtime never calls `create_order()`, so in production the state machine's
  table is empty and the machine only validates the `from_state` it is passed.
  The handler registry is never attached to the bus. The risk gate starts only
  with `MQD_ENABLE_ASYNC_RISK_GATE=1`. Nobody polls protective legs.
* `single_trade_guard`, `replay_handler`, `subsystem_health`,
  `runtime/coordinator.py`, `degradation`, `risk_management/`, `monitoring/`,
  `analytics/`, `core/strategies/` and `realtime/executor.py` are imported by
  tests, not by the runtime.

The models describe what the classes do when they are used as their interfaces
and tests intend; where the wiring decides, the wiring is modelled.

### What is hard here, and what makes each part correct

* State machine and bus: a state read outside the lock, exceptions between log,
  event and table, emitters against stop(), restarts. Table and log agree,
  the lifecycle is respected, events follow the log.
* Engine and loop: the broker moves between any two calls, fills are cumulative,
  answers are lost, the process dies between two effects, helpers are looked up
  by name. No share is booked twice, brackets match entries, orders are spaced.
* Log, snapshots, recovery, reconciliation: torn writes, crashes in a save or a
  restore, failing reads that look like an empty account. What was acknowledged
  stays, a start ends with the broker's positions, a lasting difference is told.
* Limits, gate, protections, risk toolkit: two statements for one update,
  midnight, late decisions, limits checked one position at a time. The day's row
  is the day's sales, caps hold, a loss is followed by its pause.
* Trackers, streams, executors, health checks: two sources of one fill, tasks
  that outlive stop(), workers of two starts. Nothing is lost, done twice, or
  still running.
* Data, quotes, market hours, news: caches on top of fallbacks on top of time
  limits. What is used is young enough and says where it comes from.
* Scanner, universe, feed, books: processes that share files and die, counters
  that rotate over batches, sessions and days. Nothing is skipped or handed out
  twice, labels are earned, three books tell one story.

`PROJECT.json` lists each hazard with its line and the properties that cover it.

## 2. The modules

Every module keeps to the same layout: constants, variables with the name each
has in the code, actions in the order of the code, the specification, then the
properties. A comment at the head says who the actors are, what is external,
and which bounds there are. Definitions named `Broken...` are deliberate
mistakes that stand before the definition they would replace; they show that
each property notices a plausible bug, and nothing else uses them.

### Orders and money

**OrderLifecycle** is the promise of the state machine: one status per order,
moving along `VALID_TRANSITIONS`, final when terminal. A crash may make an order
that is still PENDING disappear.

**OrderStateMachine** has `orders` (the table), `logged` (per order, what a
replay of the log finds), `reads` (the `from_state`s that callers have read and
not used yet), `bus` (emit() does not raise) and the history `behind` (the orders
for which emit() raised after the append, so that the table lacks a move the log
has). `Transition` is `transition()` as a whole, since it runs under the lock;
`Read` is the `get_order()` of a caller, outside it. The constant `Disciplined`
says that no two callers work on one order at a time and none moves an order
again for which emit() raised, which is how the single-threaded runtime uses the
machine: it stops the bus after its loop. The module implements `OrderLifecycle`
with the status of an order read from the log, or from the table while the log
does not know it.

**EventBus** splits `emit()` into its test of `_running` and its put, and `stop()`
into setting the event and returning from the join. Producers are threads inside
`transition()`: they append to the log, then emit, holding the machine's lock.
Events are numbered by their log records, so dispatch order can be compared with
log order. `accepted`, `early` and `dispatched` are history variables.

**EventHandlers** puts the four order handlers between a broker whose updates
arrive in any order, again or never, and the machine with its log. The consumer
makes the transition, then appends the handler's own record; a crash may fall
between the two.

**ExecutionEngine** runs the engine's calls as a list of effects, `todo`. Each
`Do...` action performs the first: one broker call, one log append, one database
write. Between two of them the broker may fill, reject or expire an order, or the
process may restart. `Poll` is a poll of the wait in progress up to its fill
events; `AfterFilled` gives the effects that follow a final fill in the order of
the code. The variables are the engine's own (`submitted`, `mapped`, `linked`,
`cum`), what its submits have returned (`returned`), the durable ones
(`position`, `owner`, `logSubmit`), the broker's `book`, the driver's (`wait`,
`done`) and two history variables (`booked`, `failed`). A submit that the broker
has accepted records its id and may then raise in the state machine's
transition: the order is mapped, but not returned, and counts as `failed`, like
one whose booking or cancel raised. Two legs are linked only when both submits
returned. A restart rebuilds the guard with any part of the logged ids, as
reading the log may raise at any line (`Seeds`).

**RuntimeLoop** is the loop of `run()`: a cycle visits each symbol, a signal
passes the single-trade check, the cooldown and the risk manager, an order is
submitted and awaited, its fill is accounted in the loop's own way. `Offers` is
the set of helpers that `hasattr()` finds. The engine is what the loop sees of
it; the broker (`orders`, `held`) moves between any two steps. `bought` is a
history variable: the shares all entries of a symbol have filled.

**TransactionLog** is the file as a sequence of lines, plus what the file object
still holds in its buffer after an append that raised: the next write goes behind
it. Of a line the model keeps what `iter_events()` tells apart: whether it is
exactly one record, where its first colon stands, and whether it has ended. A
torn line that the next process appends to is `Glued`. `Restart` drops the
buffer and seeds the engine's guard with what a reader gets.

**LimitsTracker** models the lock explicitly: a thread is outside, waits, or
holds. `record_realized_pnl()` is a read, a write, and then the check it makes
while still holding the lock. `sold` is the history of sales.

**RiskGate** has the request queue, the worker's place in its loop, the decision
map, the clients and the counters. Checks that read no state of the gate itself
give an arbitrary verdict. `statsHolds` is a `get_stats()` inside the gate's lock,
where it asks the limits tracker; clients look for their decision, and at the
clock, only with the lock free. `hung` is a tracker that has deadlocked and
answers nobody. `granted` and `delivered` are history variables.

**OrderTracker** is fed by polls and, when `streaming`, by late websocket
updates. `stop_tracking()` at the end of a fill comes after the lock's release:
`pending` holds such calls.

### Stored state

**StatePersistence** takes `save_state()` file by file, each write first torn and
then whole; **Recovery** starts the process on such a snapshot, a store and a
broker that goes on trading, with reads that fail and crashes between rows;
**Reconciler** is the comparison the running loop makes once per interval.

### Services of the loop

**UserStream** and **RealtimeExecutor** go from await to await and from queue
operation to queue operation, with starts and stops in between. **Throttler** is
one limit with its sleep and a clock that moves. **MarketData**, **Quotes**,
**News** and **MarketHours** are caches over providers over clocks; the world
outside answers late, with gaps, or not at all. **Protections** is the manager
with the five default protections and the order it asks them in.
**RiskToolkit** is `RiskManager` with what it owns; **PortfolioWatch** and
**TrailingStops** compare state kept piece by piece with the positions or the
whole price history. **Health** has loops that survive `stop()` and results
recorded in two steps.

### Looking for trades, and reporting on them

**Scanner** rotates batches and counts persistence; **Watchlist** is what becomes
of the rows: labels, alerts, exports, backoff. **Universe** and **SignalFeed**
are the two hand-overs through files, with both processes dying anywhere;
**UniverseCache** is one cache file and two processes. **Strategy** is
`on_bar()` against an account in which its signals may fail. **Performance** and
**ExecutionReports** report one history to several books and compare them.

### Instances

**MCExecutionEngine** chooses at the start between entries that fill in parts,
and an entry and an exit that each fill at once. **MCRuntimeLoop** chooses
between the container's objects, which offer none of the helpers, and objects
that offer all of them. **MCRuntimeServices** (services under the loop) and
**MCTradingServices** (what looks for trades, bounds and reports them) hold
fifteen and twelve components that share no state: `subject` is chosen at the
start and only that component moves, by the `Next` of its module. A behaviour of
the group is a behaviour of one component, so its properties are those of the
components, each under its own name (`P == subject = "X" => X!P`). The constants
of the components that have theorems are constants of the group: the `.cfg`
gives them values, the named assumptions say what the theorems need of them. The
others are instantiated with the bounds written there. The other runs take the
component itself.

## 3. What TLC checks

| Run | Shows |
|---|---|
| `order_machine` | three orders, two disciplined callers, appends and emits that raise: `TableIsLog`, and refinement of `OrderLifecycle` |
| `engine` | an entry of two shares with both legs, or an entry and an exit of one, submits that raise and guards rebuilt in part: `BookedWithinFills`, `LegsMatchTheTrade`, and that calls return (`CallsReturn`) |
| `gate` | two clients, two ids, one worker, a cap of one order, two days, `get_stats()` in the lock, a tracker that may hang: `DailyCap`, `ApprovalsAreSpentOnce`, `ClientsReturn` |
| `bus` | two producers, a queue of two, four log records: `EventsFollowLog`, `EarlyEventsAreDispatched` |
| `runtime` | two orders of one symbol, with and without the helpers: `RowWithinBought`, `OrdersSpaced` |
| `runtime_services` | one of fifteen components, see below |
| `trading_services` | one of twelve components, see below |
| `limits_record_returns` | `RecordReturns` fails: the recheck waits for the lock its own thread holds |
| `runtime_entry` | `EntryFindsFlat` fails: an entry goes into an open order or position |
| `recovery_resumes` | `RecoveryResumes` fails: a start with an open position ends as failed |
| `strategy_force_flat` | `ForcedFlat` fails: a disabled day is not forced flat |
| `engine_cancel_race` | `CancelledIsBooked` fails: shares filled just before a TTL cancel are never booked |

| In `runtime_services` | says |
|---|---|
| LimitsTracker `RowIsLedger` | the row of a day is the sum of the day's sales and their verdict |
| StatePersistence `SnapshotSurvives` | a crash or error in a save costs at most that save |
| Recovery `StartupAgrees` | a start that is over has the positions of every symbol the broker left alone |
| Reconciler `DriftIsReported` | a difference older than an interval is in the report, an old agreement is not |
| OrderTracker `LiveOrdersAreTracked` | a tracked order is never an orphan while it works, and ids are known exactly in flight |
| EventHandlers `MovesAreRecordedOnce` | no update delivered again makes a move twice, and no record lacks its move |
| RealtimeExecutor `CallbacksAreOwn` | a callback is for the signal whose order it is, once |
| UserStream `QuietAfterStop` | one reader at a time, none after stop() |
| Protections `MajorLossIsCooled` | no entry within the cooldown of a major loss |
| TrailingStops `StopFollowsHistory` | the incremental stop is the stop of the whole history |
| Health `AlertsAreDeserved` | alerts are exactly the threshold of unhealthy results in a row |
| MarketData `ServedWithinBound` | a bar is no older than staleness limit plus cache lifetime |
| MarketHours `KeepsHours` | no cycle begins outside the session, none is slept through |
| Quotes `QuotesAreHonest` | a provider's status is its history, FAILED until a reset; an old quote is called stale; None is answered only when nothing young enough is cached |
| News `VetoWithinTtl` | a bad headline older than a cache entry's lifetime vetoes |

| In `trading_services` | says |
|---|---|
| TransactionLog `AckedStaysSeen` | an acknowledged record that can be read stays readable |
| Strategy `OvernightHasReason` | a position is held overnight only for a named reason |
| Performance `BooksAreExact` | three books of trades agree for every period |
| ExecutionReports `ReportsAgree` | both reports of the same fills agree, over reused ids |
| Universe `NothingSkipped` | a line below the stored offset was decided or has its reason |
| UniverseCache `ServedIsCurrent` | lists served are of the day, of the own filters, and disjoint |
| Scanner `ReadyIsEarned` | READY needs the persistence it claims |
| Watchlist `LabelsAndPausesAreEarned` | labels are earned since the reset; rate limits lengthen the pause |
| Throttler `WindowKept` | never one request too many in a window |
| SignalFeed `HandedOutOnce` | a symbol is handed out once per session, over crashes |
| RiskToolkit `PortfolioWithinLimits` | limits checked one position at a time hold for the portfolio |
| PortfolioWatch `WatchKeepsUp` | exposures kept piece by piece find what a fresh check would; no loss is averaged down |

Some properties exclude a case the code does not handle, and say so in their
comment: a `stop()` that meets a `start()` still connecting (UserStream), two
signals in one millisecond (RealtimeExecutor), a failed news request, which
caches an empty answer (News), two health loops alive at once (Health), a lower
equity or new correlations under open positions (RiskToolkit), a `get_stats()`
that hangs with the lock (RiskGate), legs without a broker id and legs with a
submit, booking or cancel that raised (ExecutionEngine). Of two linked legs the
engine cancels the second once the first is booked in full; that both fill before
either is polled is possible, and no property denies it.

### Bounds

* Orders: three suffice for one being created, one moving and one being restored
  in the same state; two callers are enough for a stale read. Restarts of the
  machine, the engine, the log, the bus and the gate are unbounded.
* `Qty` 2 gives a partial and a final fill; 1 removes partial fills. With an
  exit, no acknowledged submit, no booking and no cancel raises, and the process
  lives on once an order is acknowledged; the first kind has all failures.
* `MaxTrades` stops sales from beginning; two threads may pass it by one.
  Amounts -1 and 1 with a limit of 2 reach the limit, pass it and come back.
* `MaxDay` 1 is one midnight between any two steps. `MaxQueue` 2 makes the gate's
  queue finite and holds both clients' requests. `MaxOrders` 1 in the gate puts
  the second id over the cap. `Capacity` 2 with four records drops events.
* Two orders in the loop are what a second booking over a first one, a cooldown
  and a double entry need; `EndOfTime` 2 lets the cooldown of one cycle end.
* `MaxRecords` 5 in the log: a whole record, a torn one, one glued to it, one
  behind that and one in the buffer.
* The services take one to three symbols, orders, tasks or processes, and clocks
  that run to the end of the longest of their intervals or past it; the two
  modules of services and their `.cfg` files list the values. Two crashes at most
  where crashes are counted: one in a step, and one in what follows it.

Deadlock is checked in the runs of the machine, the engine, the gate, the bus,
the limits tracker alone and the cancel race. It is off where bounded clocks or
counters end a behaviour, or where the code itself ends (the loop stops at its
failure breaker and hangs in `record_realized_pnl()`).

### Fairness

* Engine: weak fairness of `Step` (a call that has begun goes on; the broker and
  the databases answer or raise) and of `WaitReturns` (`wait_for_order` compares
  the clock with its timeout in every turn). Nothing is assumed of the broker,
  of polls or of the driver.
* Limits: weak fairness of each thread; a restart is not fair.
* Gate: strong fairness of each client's look for its decision, timeout
  included (the lock is free again and again, and a client that keeps asking for
  it gets it), and weak fairness of `get_stats()` returning, which is possible
  only while the tracker answers. The worker may hang.
* Bus: weak fairness of the consumer thread; handlers return or raise.
* All others: none; they promise safety only, and may stop anywhere.

### Disagreements between code and documents

`PROJECT.json` quotes them under `findings`. In short: `record_realized_pnl()`
never returns once the sale is written; the loop's check for one position per
symbol looks for helpers and a field that do not exist; recovery reads `.qty`
where the broker's positions have `.quantity`, so a start with an open position
fails; the strategy's loss limit comes before its force-flat; a TTL cancel
forgets what was filled just before it. For each of these a run finds the
violation. Three more are exceptions that a property of a passing run states,
because the code does not keep what is said: two legs one of whose submits
raised after the broker had accepted it are never linked, so neither cancels the
other; a `get_stats()` that asks a hung tracker keeps the lock, and the clients,
who should fail safe after their timeout, never look at the clock again; a FAILED
quote provider is never asked again until a manual reset, so there is no automatic
recovery, and with nothing young enough cached None is returned, where
`degradation.py` says that data always is.

The models also contain, without a run of their own: a second reader of an order
may move it out of a terminal state, as `transition()` checks only the
`from_state` it is given; a leg's partial fill that closes a position cancels no
other leg, if legs are polled; a log record appended behind a torn line is
acknowledged and lost; a partial SELL deletes the position row; the websocket's
cumulative quantity is added as an increment; with a batch larger than the
universe the scanner's rotation skips symbols; healing can delete rows but not
create them; an order whose submission never reached the log, or which the guard
was not rebuilt with, is known to the broker only.

## 4. What is proved

For every value of the constants that satisfies the named assumptions: any
number of orders, threads, symbols, records, retries or restarts, any limit and
any interval. A property of a run that has a theorem is named in parentheses.
Where a property is inductive only with more, the conjuncts that make it so are
named; TLC has checked them on the instances too.

**OrderStateMachine_proofs.** `Typing`, `TableMatchesLog` (`TableIsLog`) and
`Confirmed` are the three invariants; `Implementation` (`ImplementsLifecycle`) is
the refinement of `OrderLifecycle` for disciplined callers. `TableIsLog` says for
any callers that an order the table holds is what the log says of it, unless
emit() raised for it, and for disciplined callers that the log is then exactly
one legal move ahead (`OneMoveBehind`). `Confirmed` needs `ReadIsConfirmed`: a caller that has
read a confirmed state still finds the broker id in the table, and the log has
every broker id the table has. `TableIsLog` and `Implementation` need `Fresh`:
under `Disciplined` the state a caller holds is still the table's, and at most
one caller holds a read of an order. With it a move whose emit() raised began at
the table's state, and every action maps to a step of the lifecycle or to a
stutter.

**ExecutionEngine_proofs**, for any entries, exits, quantity, waits and restarts,
with every submit, booking or cancel that may raise and a guard rebuilt in part:
`Typing`, `NoFillTwice`, `LegsFollowFills` and `LegEndsSibling`. The state of
the engine's calls is the list `todo`: the invariant is about lists of effects.
`HeadOnly` and `TasksOK` say what an effect that is still to be made may rely on
(a submit of a leg: its entry is booked in full). `Counted` says that an order
which can be polled again has `cum` equal to what was booked of it; once `DoPop`
has dropped `cum`, no poll of it can follow. `SiblingStops` says of two linked
legs that when one is booked in full, the other is dead or a cancel of it is
still in `todo`. That is about linked legs; `PairInv` is about which legs are linked: a
mapped leg has a submit that returned or raised, legs that are still to be placed
are followed in `todo` by their link and nothing is placed behind it, so that two
legs whose submits returned are linked or about to be. The lemmas about lists (which effects are pending in a
concatenation, which cancel is owed for a link) carry these over `AfterFilled`.

**MCExecutionEngine_proofs** carries them to the instance TLC checks, in both its
kinds of behaviour: `FillsAreBookedOnce` (`BookedWithinFills`) and, for one entry,
`LegsMatch` (`LegsMatchTheTrade`). The kind in which orders fill at once is a
second instance of the engine; its invariant is that of the first with `PairInv`,
and `StrayInv` besides: for every leg that can still trade
after the position is closed, its cancel, or the OCO that makes it, is in `todo`.
One entry is assumed since legs of another entry outlive a position they do not
belong to, in the code as in the model.

**RuntimeLoop_proofs.** `Spacing` (`OrdersSpaced`), for any symbols, sizes,
limits and helpers. Nothing in the property says what the map of last actions has
to do with the orders; `Stamped` does: the map is never ahead of the clock and
never behind an order of its symbol and side, orders of submissions that raised
included. `Honest` (`RowWithinBought`): `Polled` says of every order that what
the loop saw filled is at most what was filled, and that at most what was bought;
`Unbooked`, that while an entry is awaited the row and the fills not seen so far
are together within what was bought, so that accounting them cannot pass it.

**RiskGate_proofs.** `Typing`; `OncePerDay`, `Cap` (`DailyCap`) and `SpentOnce`
(`ApprovalsAreSpentOnce`) for one worker. `IInv` says that the ids approved under
the current date are exactly the ids in the duplicate set, that the counter is
their number, that no day after the current one has approvals, and that an order
about to be approved has passed its checks against these counters. `SpentOnce`
counts: what clients have got of an id, what lies in the decision map for it and
what the worker is about to store are together no more than its approved days.
One worker is assumed because with two the counters are wrong, and so is
`DailyCap`.

**EventBus_proofs.** `Typing`; `Fifo` and `LogOrder` (`EventsFollowLog`) for one
consumer. `Fifo` is inductive by itself with the typing of the consumer.
`LogOrder` rests on `AcceptedInOrder`: what has been accepted is increasing and
below the event a producer has in hand, which holds because the append and the
emit are under one lock; with `Fifo`, what has been dispatched is a prefix of it.

**RuntimeServices_proofs**, first about LimitsTracker on its own, then about the
components as MCRuntimeServices composes them:

| Theorem | Property | What makes it inductive |
|---|---|---|
| `LimitsTyping`, `Ledger`, `Kept` | `RowIsLedger` | mutual exclusion: the holder of the lock is the one thread inside, and between its two statements the row it has read is still the row of its day |
| `Survival` | `SnapshotSurvives` | `CurrentIsWhole`, `StepsInOrder`: the current file is never torn, the temporary one is whole before it replaces it, a save is reported only after |
| `Agreement` | `StartupAgrees` | `StartupFollowed`: what was read is still the account of every steady symbol; once restored, a row is wrong only where the account holds nothing |
| `Drift` | `DriftIsReported` | `ReadsAreCurrent`, `ReportIsCurrent`, `ReportIsRecent`: what has not moved since the check began is what the reads found; checks come an interval apart |
| `Tracked` | `LiveOrdersAreTracked` | `PollsAreTruth`: the tracker's count is bounded by what was polled, that by what was filled, also while a `stop_tracking()` is pending after the lock |
| `RecordedOnce` | `MovesAreRecordedOnce` | `RanksRise`, `LastIsState`, `EventIsHeld`: records of an order rise in rank, a restart restores the last one or nothing, a handler's record is owed from the machine's move to its own |
| `Callbacks` | `CallbacksAreOwn` | `WorkersAreAlone`, `OrdersAreHeld`, `CallsAreOwn`: what the worker that holds an unshared id has done so far |
| `Quiet` | `QuietAfterStop` | `OneReader`: the live task is the last start's, the one `_receive_task` holds, and no start is still on its way to another |
| `Cooled` | `MajorLossIsCooled` | `LossesAreHeld`: what a check has seen holds the cooldown until its end, although the protections before it may have ended many checks |
| `Trails` | `StopFollowsHistory` | `ExtremeIsBest`, `ActiveIsEarned`: what the extreme and the flag keep of the history |
| `Alerts` | `AlertsAreDeserved` | `OneLoopCounts`: with one loop the counter it has read is still the counter, and is the length of the run of failures at the end |
| `Served` | `ServedWithinBound` | `CachedWasFresh`: what the first look at a bar's age leaves for the second |
| `Hourly` | `KeepsHours` | `CacheIsClock`, `StatusIsClock`: until the next boundary of the session the broker would say again what it said, so a cycle decides on what is so now, or on the fallback; assumes that the interval of a closed market is no longer than the window before the open and the interval in it, as 120 s is by default to 10 minutes |
| `Vetoes` | `VetoWithinTtl` | `CacheIsTheFeed`, `HitIsKept`: how a cache entry may differ from the feed; what one source said is not lost to the answers of the others |
| `Honesty` | `QuotesAreHonest` | `FailuresAreCounted`: the counter is the length of the longest run of failures that ends the log |

**TradingServices_proofs**, about TransactionLog on its own, then about
components of MCTradingServices. TransactionLog: `Typing`; `Order`
(`ReadInOrder`), `Blocked` (`SeenIsBlocked`) and `Durable` (`AckedStaysSeen`). All
rest on three lemmas about one write: it changes the last line or adds one; what
can be read after it could be read before or is its record; a line that has ended
and can be read stays so. `InOrder` says that what can be read increases and the
buffer continues it, `GuardCovers` that the guard holds what can be read and what
waits in the buffer, `AckedEnded` that only the last line may be open and that an
acknowledged record is never on an open line.

| Theorem | Property | What makes it inductive |
|---|---|---|
| `Rate` | `WindowKept` | `TimesAreRecent`, `OldestIsOld`: the deque is the end of the history, holds at most one request too many, and then its oldest is out of the window when the lock is free |
| `HandedOut` | `HandedOutOnce` | `HandedAreBehind`, `SignalsAreLater`: nothing at or behind the offset's end is read again unless it was not handed out; what is left over is of a later session |
| `NoForgottenNight` | `OvernightHasReason` | `OneUnit`, `SignalFits`, `WarmedUp`, `Answered`: the account holds what the strategy thinks it holds until it forgets a position, and the first bar from the flat time on that finds one sells it; assumes the last entry before the flat time |
| `Handover` | `NothingSkipped` | `OffsetsAgree`, `AllExplained`, `RecentWasDecided`: the stored offset is behind the one in memory, which is behind the file; what the memory calls recent was decided on an earlier line |
| `Served` | `ServedIsCurrent` | `FileIsSplit`, `ResultIsOwn`: whoever wrote the file, its two lists are disjoint; what a process is about to write has its own filters |
| `Readiness` | `ReadyIsEarned` | `AllBacked`: behind a counter stand the last scans, from one of them on, which saw the symbol more often than not by that many |
| `Labels` | `LabelsAndPausesAreEarned` | `AllLast`, `PauseGrows`: as for `Readiness`; a label is given when its counter stands at the persistence, and what earned it stays in the history until the reset that drops the label |
| `Portfolio` | `PortfolioWithinLimits` | `ApprovalFits`: nothing between a check and the report of its purchase can make it unfit; a symbol that is bought joins the clusters of its neighbours to its own, whose sum was checked, and leaves the others as they were |
| `Watched` | `WatchKeepsUp` | `MapIsKept`, `AddsWell`: the mapper's exposures and sectors are those of the lots at its equity; each share was added when the shares before it made money together, so that none is at a price worse than the first; assumes prices that are whole percentages of the equities, since the model divides integers where the code divides exactly |
| `ReportedTwice` | `ReportsAgree` | `OrdersKept`, `OutcomesKept`, `FilledWereTold`, `RecordsMatch`: every submission is lost, waits or had an outcome, once; the history lacks an outcome only when it is full; each record is the report of its fill |
| `BooksKept` | `BooksAreExact` | `AccountsKept`, `CurveKept`: a strategy's account is the sum of its trades that are not benched; the peak is the high of the whole curve, and the drawdown under way started at the earliest point from which nothing rose above what came before |

The last four are about sums and counts over positions, orders and trades, and
the models add with a fold that takes the elements of a set in an order it does
not say. The section "Sums" proves, about a fold as it is defined, that there is
such a sum for any finite set, that it is the same in every order, also in that
of a list, and what one more, one less or one other number makes of it; that the
sums of disjoint parts, and of all kinds, add up to the whole; and that a count is
a sum of ones. The induction is over the sizes of the subsets: a set of numbers
that holds 0 and with each number the next holds all, by the well-foundedness of
the naturals.

Only model-checked:

* the liveness properties `CallsReturn`, `ClientsReturn`,
  `EarlyEventsAreDispatched`: fairness and ENABLED are out of the prover's reach;
* and of the engine, `NoStrayLegs` with partial fills, which is false there (see
  above) and is stated for orders that fill at once only.

## 5. What is not modelled, and why

* Prices where no property tells them apart, commissions, rounding to lot sizes,
  formulas over price series, statistics of returns.
* `SingleTradeGuard`, `IdempotentReplayHandler`, `SubsystemHealth` and the
  runtime coordinator: nothing but their tests uses them. The drift detector
  calls methods the position store lacks and always reports nothing.
* Protective stops of the loop: its call of `submit_stop_order()` raises on the
  keyword `reason`, so the map of stops stays empty. The engine's own legs are
  modelled.
* A second worker of the gate and a second consumer of the bus, which a stop()
  that times out can leave behind: the modules allow them (`Workers`,
  `Consumers`), the runs and the proofs take one.
* Events emitted while stop() runs: one of them may stay in the queue of a
  stopped bus until the next start().
* Of the transaction log: loss of power, where fsync() matters, and whose failure
  the code ignores; the validation of fields; the filters over `iter_events()`.
* Live mode of the runtime, which refuses to start; the order list of the
  recovery, which changes nothing; the GUI and the REST formats of the scanner;
  scores and features of the universe.
* The second mean-reversion strategy, a variant of the modelled one; retirement
  scripts, offline evaluation, backtest and research, which run once, alone.
* Logging, journal, Discord, configuration and the clock change no trading state.

What would come next: the engine and the loop composed, so that the loop's
accounting meets the engine's brackets; two workers of the gate after a stop()
that timed out, with the guarantee that is left; and what `NoStrayLegs` leaves of
an entry that fills in parts.
