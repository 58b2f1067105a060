------------------------------ MODULE EventBus ------------------------------
(***************************************************************************)
(* core/events/bus.py, OrderEventBus: emit() from any thread into a        *)
(* bounded queue, one consumer thread that dispatches in order, start(),   *)
(* stop() with its drain.                                                  *)
(*                                                                         *)
(* The producer of the events is transition() of OrderStateMachine, which  *)
(* appends to the transaction log and emits under one lock.  An event is   *)
(* the number of its log record, so that the order of the events can be    *)
(* compared with the order of the log.                                     *)
(*                                                                         *)
(* emit() reads _running and then puts; stop() sets the stop event, joins  *)
(* the consumer for a limited time, and only then clears _running.         *)
(* Handlers return or raise; dispatching goes on with the next event.      *)
(*                                                                         *)
(* Definitions named Broken... are wrong on purpose: each is the body a    *)
(* plausible bug would give the definition that follows it.                *)
(***************************************************************************)
EXTENDS Integers, Sequences

CONSTANTS
  Producers,      \* threads that make transitions
  Consumers,      \* consumer threads that may be alive at one time
  Capacity,       \* max_queue_size
  MaxEvents       \* bound: records in the log

ASSUME BusAssumption == Capacity \in Nat \ {0} /\ MaxEvents \in Nat

VARIABLES
  log,            \* number of records in the transaction log
  producer,       \* what each producer is doing
  running,        \* _running
  stopEvent,      \* _stop_event
  stopping,       \* a stop() waits in join()
  queue,          \* _queue
  consumer,       \* the consumer threads
  accepted,       \* history: events put into the queue, in order
  early,          \* history: of these, the ones put with the stop event clear
  dispatched      \* history: events dispatched, in order

control == <<running, stopEvent, stopping>>

vars == <<log, producer, control, queue, consumer, accepted, early, dispatched>>

Event == 1..MaxEvents

\* No event: log records are numbered from 1.
Nothing == 0

Idle == [at |-> "idle", event |-> Nothing]

\* Between two events, and with one in hand.
Producer == {Idle} \cup [at : {"emit", "put"}, event : Event]

Ended == [at |-> "ended", event |-> Nothing]

Looping == [at |-> "loop", event |-> Nothing]

Consumer ==
  [at : {"ended", "loop", "get", "drain"}, event : {Nothing}]
    \cup [at : {"dispatch", "drainDispatch"}, event : Event]

Init ==
  /\ log = 0
  /\ producer = [p \in Producers |-> Idle]
  /\ running = FALSE /\ stopEvent = FALSE /\ stopping = FALSE
  /\ queue = <<>>
  /\ consumer = [k \in Consumers |-> Ended]
  /\ accepted = <<>> /\ early = {} /\ dispatched = <<>>

-----------------------------------------------------------------------------
(* Producers: transition(), under the lock of the state machine.           *)

\* Bug: the lock is released before emit().
BrokenLockIsFree == TRUE

LockIsFree == \A p \in Producers : producer[p] = Idle

\* The record is appended to the log; the event is about to be emitted.
AppendToLog(p) ==
  /\ producer[p] = Idle
  /\ LockIsFree
  /\ log < MaxEvents
  /\ log' = log + 1
  /\ producer' = [producer EXCEPT ![p] = [at |-> "emit", event |-> log + 1]]
  /\ UNCHANGED <<control, queue, consumer, accepted, early, dispatched>>

\* emit() raises when the bus is not running; otherwise it goes on to the put.
EmitChecks(p) ==
  /\ producer[p].at = "emit"
  /\ producer' = [producer EXCEPT ![p] =
       IF running THEN [at |-> "put", event |-> producer[p].event] ELSE Idle]
  /\ UNCHANGED <<log, control, queue, consumer, accepted, early, dispatched>>

\* Bug: one event too many is let in.
BrokenHasRoom == Len(queue) <= Capacity

HasRoom == Len(queue) < Capacity

\* put_nowait(); with the queue full the event is dropped and counted.
EmitPuts(p) ==
  LET e == producer[p].event IN
  /\ producer[p].at = "put"
  /\ IF HasRoom
     THEN /\ queue' = Append(queue, e)
          /\ accepted' = Append(accepted, e)
          /\ early' = IF stopEvent THEN early ELSE early \cup {e}
     ELSE UNCHANGED <<queue, accepted, early>>
  /\ producer' = [producer EXCEPT ![p] = Idle]
  /\ UNCHANGED <<log, control, consumer, dispatched>>

-----------------------------------------------------------------------------
(* start() and stop().                                                     *)

\* Nothing checks that the consumer of an earlier start() has ended.
Start(k) ==
  /\ ~running
  /\ consumer[k] = Ended
  /\ running' = TRUE /\ stopEvent' = FALSE
  /\ consumer' = [consumer EXCEPT ![k] = Looping]
  /\ UNCHANGED <<log, producer, stopping, queue, accepted, early, dispatched>>

StopBegins ==
  /\ running /\ ~stopping
  /\ stopEvent' = TRUE /\ stopping' = TRUE
  /\ UNCHANGED <<log, producer, running, queue, consumer, accepted, early, dispatched>>

\* The join ends with the consumer, or at its timeout.
StopReturns ==
  /\ stopping
  /\ stopping' = FALSE /\ running' = FALSE
  /\ UNCHANGED <<log, producer, stopEvent, queue, consumer, accepted, early, dispatched>>

-----------------------------------------------------------------------------
(* The consumer thread.                                                    *)

Goto(k, where) == consumer' = [consumer EXCEPT ![k] = [at |-> where, event |-> Nothing]]

\* Bug: the thread ends with the loop.
BrokenAfterLoop == "ended"

\* After the loop the queue is drained.
AfterLoop == "drain"

\* The loop condition of _process_events().
Loop(k) ==
  /\ consumer[k].at = "loop"
  /\ Goto(k, IF stopEvent THEN AfterLoop ELSE "get")
  /\ UNCHANGED <<log, producer, control, queue, accepted, early, dispatched>>

\* Bug: the newest event first.
BrokenTake(q) == [event |-> q[Len(q)], rest |-> SubSeq(q, 1, Len(q) - 1)]

\* The oldest event, and the queue without it.
Take(q) == [event |-> Head(q), rest |-> Tail(q)]

\* get(timeout=0.1) in the loop, get(block=False) in the drain.  An empty queue
\* is back to the loop condition, or the end of the thread.
Get(k, where, then, empty) ==
  /\ consumer[k].at = where
  /\ IF queue # <<>>
     THEN /\ consumer' = [consumer EXCEPT ![k] = [at |-> then, event |-> Take(queue).event]]
          /\ queue' = Take(queue).rest
     ELSE Goto(k, empty) /\ UNCHANGED queue
  /\ UNCHANGED <<log, producer, control, accepted, early, dispatched>>

\* _dispatch_event(); a handler that raises is logged.
Dispatch(k, where, next) ==
  /\ consumer[k].at = where
  /\ dispatched' = Append(dispatched, consumer[k].event)
  /\ Goto(k, next)
  /\ UNCHANGED <<log, producer, control, queue, accepted, early>>

Consume(k) ==
  \/ Loop(k)
  \/ Get(k, "get", "dispatch", "loop")
  \/ Dispatch(k, "dispatch", "loop")
  \/ Get(k, "drain", "drainDispatch", "ended")
  \/ Dispatch(k, "drainDispatch", "drain")

Next ==
  \/ \E p \in Producers : AppendToLog(p) \/ EmitChecks(p) \/ EmitPuts(p)
  \/ \E k \in Consumers : Start(k)
  \/ StopBegins
  \/ StopReturns
  \/ \E k \in Consumers : Consume(k)

\* The consumer thread is scheduled and handlers return; nobody has to emit,
\* start or stop.
Fairness == \A k \in Consumers : WF_vars(Consume(k))

Spec == Init /\ [][Next]_vars /\ Fairness

-----------------------------------------------------------------------------

\* The variables have their types; the queue keeps its bound.
TypeOK ==
  /\ log \in 0..MaxEvents
  /\ producer \in [Producers -> Producer]
  /\ running \in BOOLEAN /\ stopEvent \in BOOLEAN /\ stopping \in BOOLEAN
  /\ queue \in Seq(Event) /\ Len(queue) <= Capacity
  /\ consumer \in [Consumers -> Consumer]
  /\ accepted \in Seq(Event)
  /\ early \subseteq Event
  /\ dispatched \in Seq(Event)

\* What the consumers have in hand; with one consumer, at most one event.
Held(k) == IF consumer[k].event = Nothing THEN <<>> ELSE <<consumer[k].event>>

\* "FIFO event processing": what was accepted is, in this order, what has been
\* dispatched, what the consumer holds, and what is queued.  Nothing is lost,
\* duplicated or overtaken, across stop(), drain and a new start().
FirstInFirstOut ==
  \A k \in Consumers : accepted = dispatched \o Held(k) \o queue

\* Handlers see the transitions in the order of the transaction log, whichever
\* threads made them; records whose event was refused or dropped are missing.
EventsFollowLog ==
  \A i, j \in DOMAIN dispatched : i < j => dispatched[i] < dispatched[j]

\* An event emitted before stop() is dispatched: by the loop, by the drain, or
\* by the consumer of the next start().
EarlyEventsAreDispatched ==
  \A e \in Event : e \in early ~> \E i \in DOMAIN dispatched : dispatched[i] = e

=============================================================================
