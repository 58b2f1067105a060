-------------------------- MODULE OrderStateMachine -------------------------
(***************************************************************************)
(* core/state/order_machine.py: the table of orders, transition() with its *)
(* caller-supplied from_state, the durable trace every transition leaves   *)
(* in the transaction log, and restore_pending_orders() after a restart.   *)
(*                                                                         *)
(* transition() holds the machine's lock, so its checks, the append to the *)
(* log, emit() and the table update are one action.  What is NOT under the *)
(* lock is the caller's read: EventHandlerRegistry's handlers and          *)
(* OrderExecutionEngine.cancel_order first call get_order(), then pass     *)
(* order.state as from_state.  Read and Transition are therefore two       *)
(* actions of a caller.                                                    *)
(*                                                                         *)
(* Two of the calls under the lock may raise.  transaction_log.append():   *)
(* create_order() has stored the order by then, transition() has not       *)
(* changed anything yet.  event_bus.emit(), once the bus is stopped:       *)
(* transition() has written the log by then, but not the table.            *)
(*                                                                         *)
(* The log is abstracted to what restore_pending_orders() keeps of it: for *)
(* each order its latest state and whether a broker order id was recorded. *)
(* An append that raises is taken to leave nothing behind; what it may     *)
(* leave, and what the next one then makes of it, is TransactionLog's.     *)
(*                                                                         *)
(* Definitions named Broken... are wrong on purpose: each is the body a    *)
(* plausible bug would give the definition that follows it.                *)
(***************************************************************************)

CONSTANTS
  Orders,             \* internal order ids; each is a fresh uuid, never reused
  Callers,            \* threads that drive the state machine
  Disciplined         \* TRUE: no two callers work on one order at a time, and
                      \* none moves an order again for which transition() has
                      \* raised out of emit() (the runtime drives all orders
                      \* from its main loop thread, and stops the container,
                      \* and with it the bus, after the loop)

ASSUME DisciplineIsBoolean == Disciplined \in BOOLEAN

VARIABLES
  orders,             \* _orders: table entry of every id, in memory
  logged,             \* what the transaction log says of every id, durable
  reads,              \* from_states read by callers and not used yet
  bus,                \* the event bus runs: emit() does not raise
  behind              \* history: orders whose table entry a raising emit() left behind

vars == <<orders, logged, reads, bus, behind>>

Terminal == {"FILLED", "CANCELLED", "REJECTED", "EXPIRED"}

Status == {"PENDING", "SUBMITTED", "PARTIALLY_FILLED"} \cup Terminal

\* Pairs <<from, to>> that need a broker_order_id, and those that do not.
NeedConfirmation ==
  { <<"PENDING",          "SUBMITTED">>,
    <<"SUBMITTED",        "FILLED">>,
    <<"SUBMITTED",        "PARTIALLY_FILLED">>,
    <<"PARTIALLY_FILLED", "FILLED">>,
    <<"SUBMITTED",        "CANCELLED">>,
    <<"PARTIALLY_FILLED", "CANCELLED">>,
    <<"SUBMITTED",        "REJECTED">> }

Unconfirmed == { <<"PENDING", "REJECTED">>, <<"SUBMITTED", "EXPIRED">> }

NoEntry == [state |-> "ABSENT", broker |-> FALSE]

Entry == [state : Status, broker : BOOLEAN] \cup {NoEntry}

\* The table holds order o.
Stored(o) == orders[o].state # "ABSENT"

PendingRead == [caller : Callers, order : Orders, from : Status]

-----------------------------------------------------------------------------

Init ==
  /\ orders = [o \in Orders |-> NoEntry]
  /\ logged = [o \in Orders |-> NoEntry]
  /\ reads = {}
  /\ bus = TRUE
  /\ behind = {}

\* Bug: the broker confirmation is not asked for.
BrokenAccepted(from, to, broker) ==
  /\ from \notin Terminal
  /\ <<from, to>> \in Unconfirmed \cup NeedConfirmation

\* The checks of _execute_transition, in its order; broker is whether the
\* caller passed a broker_order_id.
Accepted(from, to, broker) ==
  /\ from \notin Terminal
  /\ \/ <<from, to>> \in Unconfirmed
     \/ <<from, to>> \in NeedConfirmation /\ broker

\* Bug: a state the enumeration does not have.
BrokenNewEntry == [state |-> "NEW", broker |-> FALSE]

NewEntry == [state |-> "PENDING", broker |-> FALSE]

\* create_order(): stores the order as PENDING, then logs ORDER_CREATED, which
\* may raise.  For an id already in the table it returns the existing order and
\* changes nothing.
Create(o) ==
  /\ ~Stored(o)
  /\ logged[o].state = "ABSENT"
  /\ orders' = [orders EXCEPT ![o] = NewEntry]
  /\ logged' \in {logged, [logged EXCEPT ![o] = NewEntry]}
  /\ UNCHANGED <<reads, bus, behind>>

\* get_order() by a caller that will pass order.state to transition().
Read(c, o) ==
  /\ Stored(o)
  /\ \A r \in reads : r.caller # c
  /\ Disciplined => \A r \in reads : r.order # o
  /\ reads' = reads \cup {[caller |-> c, order |-> o, from |-> orders[o].state]}
  /\ UNCHANGED <<orders, logged, bus, behind>>

\* Bug: the broker order id is not copied to the table.
BrokenUpdated(o, to, broker) == [orders[o] EXCEPT !.state = to]

\* _update_order_from_transition().
Updated(o, to, broker) == [state |-> to, broker |-> orders[o].broker \/ broker]

\* transition(): validated against the from_state the caller passes, appended
\* to the log, then written to the table entry if there still is one.  With the
\* bus stopped emit() raises in between: the entry stays as it was.
Transition(r, to, broker) ==
  /\ r \in reads
  /\ Disciplined => r.order \notin behind
  /\ Accepted(r.from, to, broker)
  /\ logged' = [logged EXCEPT ![r.order] =
                  [state |-> to, broker |-> logged[r.order].broker \/ broker]]
  /\ orders' = IF bus /\ Stored(r.order)
               THEN [orders EXCEPT ![r.order] = Updated(r.order, to, broker)]
               ELSE orders
  /\ behind' = IF bus THEN behind ELSE behind \cup {r.order}
  /\ reads' = reads \ {r}
  /\ UNCHANGED bus

\* transition() raises TerminalStateError, InvalidTransitionError or
\* BrokerConfirmationRequiredError, or the append to the log does: nothing has
\* changed yet.  Or the caller, having read the state, does not call it at all
\* (cancel_order skips a terminal order).
Refused(r) ==
  /\ r \in reads
  /\ reads' = reads \ {r}
  /\ UNCHANGED <<orders, logged, bus, behind>>

\* Container.stop().
StopBus ==
  /\ bus' = FALSE
  /\ UNCHANGED <<orders, logged, reads, behind>>

\* The process ends and is started again.  A crash between the append and the
\* table update of one transition is this action too: the table is lost.
Crash ==
  /\ orders' = [o \in Orders |-> NoEntry]
  /\ reads' = {}
  /\ bus' = TRUE
  /\ behind' = {}
  /\ UNCHANGED logged

\* Bug: every order comes back as a new one.
BrokenRestored(o) == [logged[o] EXCEPT !.state = "PENDING"]

Restored(o) == logged[o]

\* restore_pending_orders(): every order whose last logged state is not
\* terminal and that is not in the table is put back with that state.
Restore ==
  /\ orders' = [o \in Orders |->
       IF Stored(o) \/ logged[o].state \in Terminal \cup {"ABSENT"}
       THEN orders[o] ELSE Restored(o)]
  /\ UNCHANGED <<logged, reads, bus, behind>>

Next ==
  \/ \E o \in Orders : Create(o)
  \/ \E c \in Callers, o \in Orders : Read(c, o)
  \/ \E r \in reads, to \in Status, broker \in BOOLEAN : Transition(r, to, broker)
  \/ \E r \in reads : Refused(r)
  \/ StopBus
  \/ Crash
  \/ Restore

Spec == Init /\ [][Next]_vars

-----------------------------------------------------------------------------

\* The variables have their types: table and log entries, pending reads.
TypeOK ==
  /\ orders \in [Orders -> Entry]
  /\ logged \in [Orders -> Entry]
  /\ reads \subseteq PendingRead
  /\ bus \in BOOLEAN
  /\ behind \subseteq Orders

\* The log is one legal move ahead of the table.
OneMoveBehind(o) == <<orders[o].state, logged[o].state>> \in NeedConfirmation \cup Unconfirmed

\* An order the table holds is in the state the log records for it, broker id
\* included, whatever the interleaving of callers, failing appends, crashes and
\* restores: a crash at any moment loses nothing that restore_pending_orders()
\* would not bring back.  The exceptions are an order whose creation could not
\* be logged, and one whose last transition() raised out of emit(), after its
\* append: the log then has exactly that one move more than the table, as long
\* as no caller moves the order on from the old entry.
TableIsLog ==
  /\ \A o \in Orders : Stored(o) =>
       \/ orders[o] = logged[o]
       \/ orders[o] = NewEntry /\ logged[o] = NoEntry
       \/ o \in behind
  /\ Disciplined => \A o \in behind : OneMoveBehind(o)

\* An order that has left PENDING by any way but a local rejection carries the
\* broker's order id, in memory and in the log, also after a restart: there is
\* something to poll, cancel and reconcile by.
ConfirmedByBroker ==
  \A o \in Orders :
    /\ orders[o].state \notin {"ABSENT", "PENDING", "REJECTED"} => orders[o].broker
    /\ logged[o].state \notin {"ABSENT", "PENDING", "REJECTED"} => logged[o].broker

\* The state of an order is what the log says, or the table while the log does
\* not know the order.
StateOf(o) == IF logged[o].state = "ABSENT" THEN orders[o].state ELSE logged[o].state

\* The machine implements OrderLifecycle: callers, failing appends, crashes and
\* restores never move an order off the lifecycle.
Lifecycle == INSTANCE OrderLifecycle WITH status <- [o \in Orders |-> StateOf(o)]

ImplementsLifecycle == Lifecycle!Spec

=============================================================================
