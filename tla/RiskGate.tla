------------------------------ MODULE RiskGate ------------------------------
(***************************************************************************)
(* core/risk/gate.py, PreTradeRiskGate: clients put requests on a queue    *)
(* and poll a map for the decision; a worker thread takes the requests one *)
(* by one, evaluates them and stores the decisions; start(), stop() and    *)
(* the daily reset of the counters.                                        *)
(*                                                                         *)
(* The lock guards the decision map, the reset of the counters and         *)
(* get_stats().  The evaluation and the counters it reads and writes are   *)
(* not under it: they are safe as long as one worker lives.  Checks that   *)
(* read no state of the gate itself (protections, position size, exposure, *)
(* sizer, price deviation) are one arbitrary verdict, ok.  Once the limits *)
(* tracker hangs (LimitsTracker), is_daily_loss_limit_breached() does not  *)
(* return any more: not to the worker, which asks it outside the lock, and *)
(* not to get_stats(), which asks it inside.                               *)
(*                                                                         *)
(* Definitions named Broken... are wrong on purpose: each is the body a    *)
(* plausible bug would give the definition that follows it.                *)
(***************************************************************************)
EXTENDS Integers, Sequences, FiniteSets

CONSTANTS
  Clients,        \* threads that call submit_order()
  Orders,         \* order ids; a client may submit an id again
  Workers,        \* worker threads that may be alive at one time
  MaxOrders,      \* max_orders_per_day
  MaxDay,         \* bound: days
  MaxQueue        \* bound: requests in the queue

NoOrder == "no order"

ASSUME GateAssumption ==
  /\ NoOrder \notin Orders
  /\ MaxOrders \in Nat
  /\ MaxDay \in Nat
  /\ MaxQueue \in Nat

VARIABLES
  running,        \* _running
  shutdown,       \* _shutdown_event
  worker,         \* the worker threads
  queue,          \* _request_queue
  decision,       \* _decision_map
  client,         \* what each client waits for
  statsHolds,     \* a call of get_stats() is inside the lock
  hung,           \* the limits tracker does not answer any more
  today,          \* the UTC date
  lastReset,      \* _last_reset_date
  count,          \* _order_count_today
  ids,            \* _submitted_orders_today
  granted,        \* history: approvals made, per order and day of the counters
  delivered       \* history: approvals returned to a client, per order

counters == <<lastReset, count, ids>>

locking == <<statsHolds, hung>>

vars == <<running, shutdown, worker, queue, decision, client, locking, today,
          counters, granted, delivered>>

Day == 0..MaxDay

Decision == {"none", "approved", "rejected"}

\* A worker between two requests, and with one in hand.
Free(where) == [at |-> where, order |-> NoOrder, verdict |-> "none"]

Busy(where, o, verdict) == [at |-> where, order |-> o, verdict |-> verdict]

Stopped == Free("stopped")

Looping == Free("loop")

WorkerState ==
  [at : {"stopped", "loop", "get"}, order : {NoOrder}, verdict : {"none"}]
    \cup [at : {"reset", "evaluate", "approve", "store"}, order : Orders, verdict : Decision]

-----------------------------------------------------------------------------

Init ==
  /\ running = FALSE /\ shutdown = FALSE
  /\ worker = [w \in Workers |-> Stopped]
  /\ queue = <<>>
  /\ decision = [o \in Orders |-> "none"]
  /\ client = [c \in Clients |-> NoOrder]
  /\ statsHolds = FALSE /\ hung = FALSE
  /\ today = 0 /\ lastReset = 0
  /\ count = 0 /\ ids = {}
  /\ granted = [o \in Orders |-> [d \in Day |-> 0]]
  /\ delivered = [o \in Orders |-> 0]

-----------------------------------------------------------------------------
(* Lifecycle.                                                              *)

\* start(): nothing checks that an earlier worker has ended; the event that
\* should end it is cleared.
Start(w) ==
  /\ ~running
  /\ worker[w] = Stopped
  /\ running' = TRUE /\ shutdown' = FALSE
  /\ worker' = [worker EXCEPT ![w] = Looping]
  /\ UNCHANGED <<queue, decision, client, locking, today, counters, granted,
                 delivered>>

\* stop() waits for the worker, but for five seconds only.
Stop ==
  /\ running
  /\ running' = FALSE /\ shutdown' = TRUE
  /\ UNCHANGED <<worker, queue, decision, client, locking, today, counters,
                 granted, delivered>>

Midnight ==
  /\ today < MaxDay
  /\ today' = today + 1
  /\ UNCHANGED <<running, shutdown, worker, queue, decision, client, locking,
                 counters, granted, delivered>>

-----------------------------------------------------------------------------
(* The lock and the limits tracker.                                        *)

\* Bug: the worker evaluates inside the lock.
BrokenLockFree == ~statsHolds /\ \A w \in Workers : worker[w].at # "evaluate"

\* The lock can be taken.  What a client, the worker or the reset does inside
\* it is one step; get_stats() asks the limits tracker there.
LockFree == ~statsHolds

GetStats ==
  /\ LockFree
  /\ statsHolds' = TRUE
  /\ UNCHANGED <<running, shutdown, worker, queue, decision, client, hung, today,
                 counters, granted, delivered>>

StatsReturn ==
  /\ statsHolds
  /\ ~hung
  /\ statsHolds' = FALSE
  /\ UNCHANGED <<running, shutdown, worker, queue, decision, client, hung, today,
                 counters, granted, delivered>>

\* record_realized_pnl() waits for itself inside the tracker's lock.
TrackerHangs ==
  /\ hung' = TRUE
  /\ UNCHANGED <<running, shutdown, worker, queue, decision, client, statsHolds,
                 today, counters, granted, delivered>>

-----------------------------------------------------------------------------
(* Clients.                                                                *)

\* submit_order(); with the gate not running it rejects at once and changes
\* nothing.
SubmitOrder(c, o) ==
  /\ client[c] = NoOrder
  /\ running
  /\ Len(queue) < MaxQueue
  /\ queue' = Append(queue, o)
  /\ client' = [client EXCEPT ![c] = o]
  /\ UNCHANGED <<running, shutdown, worker, decision, locking, today, counters,
                 granted, delivered>>

\* Bug: the decision stays in the map.
BrokenCollected(o) == decision

Collected(o) == [decision EXCEPT ![o] = "none"]

\* The poll finds a decision for the id and takes it out of the map.
Receive(c) ==
  LET o == client[c] IN
  /\ o # NoOrder
  /\ LockFree
  /\ decision[o] # "none"
  /\ decision' = Collected(o)
  /\ delivered' = IF decision[o] = "approved" THEN [delivered EXCEPT ![o] = @ + 1]
                  ELSE delivered
  /\ client' = [client EXCEPT ![c] = NoOrder]
  /\ UNCHANGED <<running, shutdown, worker, queue, locking, today, counters,
                 granted>>

\* The poll finds none and the timeout is over: the client reports a rejection.
\* The request stays in the queue, and its decision will stay in the map.  A
\* poll before the timeout changes nothing; a decision that comes between the
\* look at the map and the test of the timeout is one that comes after both.
TimeOut(c) ==
  /\ client[c] # NoOrder
  /\ LockFree
  /\ decision[client[c]] = "none"
  /\ client' = [client EXCEPT ![c] = NoOrder]
  /\ UNCHANGED <<running, shutdown, worker, queue, decision, locking, today, counters,
                 granted, delivered>>

-----------------------------------------------------------------------------
(* The worker.                                                             *)

At(w, where) == worker[w].at = where

Goto(w, state) == worker' = [worker EXCEPT ![w] = state]

\* The loop condition: on to get(), or out when the event is set.
Loop(w) ==
  /\ At(w, "loop")
  /\ Goto(w, IF shutdown THEN Stopped ELSE Free("get"))
  /\ UNCHANGED <<running, shutdown, queue, decision, client, locking, today,
                 counters, granted, delivered>>

\* get(timeout=0.5): a request, or Empty and back to the loop condition.
Get(w) ==
  /\ At(w, "get")
  /\ \/ /\ queue # <<>>
        /\ Goto(w, Busy("reset", Head(queue), "none"))
        /\ queue' = Tail(queue)
     \/ /\ queue = <<>>
        /\ Goto(w, Looping)
        /\ UNCHANGED queue
  /\ UNCHANGED <<running, shutdown, decision, client, locking, today, counters,
                 granted, delivered>>

\* Bug: the counters are reset on every request of the day.
BrokenNewDay == today >= lastReset

NewDay == today > lastReset

\* _check_and_reset_daily_counters(): the lock is asked for on a new day only.
Reset(w) ==
  /\ At(w, "reset")
  /\ NewDay => LockFree
  /\ Goto(w, Busy("evaluate", worker[w].order, "none"))
  /\ IF NewDay
     THEN lastReset' = today /\ count' = 0 /\ ids' = {}
     ELSE UNCHANGED counters
  /\ UNCHANGED <<running, shutdown, queue, decision, client, locking, today,
                 granted, delivered>>

\* Bug: one order too many.
BrokenWithinLimits(o) == o \notin ids /\ count <= MaxOrders

\* The checks on the gate's own state: duplicate id, orders of the day.
WithinLimits(o) == o \notin ids /\ count < MaxOrders

\* Bug: a rejection by the gate's own limits becomes a third kind of decision.
BrokenVerdict(o, ok) ==
  IF ~ok THEN "rejected" ELSE IF WithinLimits(o) THEN "approved" ELSE "duplicate"

Verdict(o, ok) == IF ok /\ WithinLimits(o) THEN "approved" ELSE "rejected"

\* The checks of _evaluate_order(); or one of them raises, and the worker goes
\* on with the next request without storing a decision.  When the limits
\* tracker hangs only the protections, which come first, still decide: the
\* other requests leave the worker here for good.
Evaluate(w, ok) ==
  LET o       == worker[w].order
      verdict == Verdict(o, ok)
  IN
  /\ At(w, "evaluate")
  /\ hung => ~ok
  /\ \/ Goto(w, Busy(IF verdict = "rejected" THEN "store" ELSE "approve", o, verdict))
     \/ Goto(w, Looping)
  /\ UNCHANGED <<running, shutdown, queue, decision, client, locking, today,
                 counters, granted, delivered>>

\* The bookkeeping of an approval.  _pending_orders has no reader.
Approve(w) ==
  LET o == worker[w].order IN
  /\ At(w, "approve")
  /\ count' = count + 1
  /\ ids' = ids \cup {o}
  /\ granted' = [granted EXCEPT ![o][lastReset] = @ + 1]
  /\ Goto(w, Busy("store", o, worker[w].verdict))
  /\ UNCHANGED <<running, shutdown, queue, decision, client, locking, today,
                 lastReset, delivered>>

\* The decision goes into the map, over one that nobody has collected.
Store(w) ==
  /\ At(w, "store")
  /\ LockFree
  /\ decision' = [decision EXCEPT ![worker[w].order] = worker[w].verdict]
  /\ Goto(w, Looping)
  /\ UNCHANGED <<running, shutdown, queue, client, locking, today, counters,
                 granted, delivered>>

Work(w) ==
  \/ Loop(w) \/ Get(w) \/ Reset(w)
  \/ \E ok \in BOOLEAN : Evaluate(w, ok)
  \/ Approve(w) \/ Store(w)

Next ==
  \/ \E w \in Workers : Start(w)
  \/ Stop
  \/ Midnight
  \/ GetStats \/ StatsReturn \/ TrackerHangs
  \/ \E c \in Clients :
       (\E o \in Orders : SubmitOrder(c, o)) \/ Receive(c) \/ TimeOut(c)
  \/ \E w \in Workers : Work(w)

\* The worker may hang and is not fair.  A client that asks for the lock again
\* and again gets it, in the end after its timeout; a tracker that answers lets
\* get_stats() return.
Fairness ==
  /\ \A c \in Clients : SF_vars(Receive(c) \/ TimeOut(c))
  /\ WF_vars(StatsReturn)

Spec == Init /\ [][Next]_vars /\ Fairness

-----------------------------------------------------------------------------

\* The variables have their types.
TypeOK ==
  /\ running \in BOOLEAN /\ shutdown \in BOOLEAN
  /\ worker \in [Workers -> WorkerState]
  /\ queue \in Seq(Orders)
  /\ decision \in [Orders -> Decision]
  /\ client \in [Clients -> Orders \cup {NoOrder}]
  /\ statsHolds \in BOOLEAN /\ hung \in BOOLEAN
  /\ today \in Day /\ lastReset \in Day
  /\ count \in Nat /\ ids \subseteq Orders
  /\ granted \in [Orders -> [Day -> Nat]]
  /\ delivered \in [Orders -> Nat]

\* No id is approved twice on one day, whatever times out, is retried, or is
\* decided across midnight and restarts of the worker.
ApprovedOncePerDay == \A o \in Orders, d \in Day : granted[o][d] <= 1

\* The orders approved on day d.
Approved(d) == {o \in Orders : granted[o][d] > 0}

\* The orders approved on one day stay within max_orders_per_day, over the same
\* histories.
DailyCap == \A d \in Day : Cardinality(Approved(d)) <= MaxOrders

\* An approval is used at most once: clients are told "approved" for an id no
\* more often than the worker approved it, also when a decision that a client
\* no longer waited for is found by a retry of the id.
ApprovalsAreSpentOnce ==
  \A o \in Orders : delivered[o] <= Cardinality({d \in Day : o \in Approved(d)})

\* A client gets an answer when the worker hangs in the limits tracker, has
\* died of a stop(), or lost the request to an exception ("Fail-safe: If gate
\* unavailable, BLOCK all orders"), and while get_stats() is called again and
\* again: the worker does not ask the tracker inside the lock.  The one thing
\* that keeps every client out is a get_stats() that hangs with the lock.
ClientsReturn ==
  \A c \in Clients : client[c] # NoOrder ~> client[c] = NoOrder \/ (statsHolds /\ hung)

=============================================================================
