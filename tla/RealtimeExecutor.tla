-------------------------- MODULE RealtimeExecutor --------------------------
(***************************************************************************)
(* core/realtime/executor.py: EventDrivenExecutor, whose worker threads    *)
(* take signals from a queue, submit a market order for each, wait for it  *)
(* and call the fill or the reject callbacks.                              *)
(*                                                                         *)
(* A signal is its number.  The internal order id is the clock in          *)
(* milliseconds, so two workers can make the same one; the engine then     *)
(* hands out the order it has already submitted under that id, or the      *)
(* broker refuses the second client_order_id.  stop() waits ten seconds    *)
(* for each worker: longer than an idle worker needs to end, shorter than  *)
(* wait_for_order() can take.  start() adds workers to the old ones.       *)
(***************************************************************************)
EXTENDS Naturals, Sequences, FiniteSets

CONSTANTS MaxSignals, MaxWorkers, MaxThreads, EndOfTime

VARIABLES
  now, queue, signals,   \* clock, _signal_queue, signals submitted so far
  running, threads,      \* _running, worker threads started so far
  stage, signal, id,     \* per worker: where it is, with which signal and id
  orders,                \* the engine's guard and the broker: orders by id
  active,                \* _active_orders: the signal of an id
  calls,                 \* history: callbacks made: kind, signal, id
  holders                \* history: signals that got an id

vars == <<now, queue, signals, running, threads, stage, signal, id, orders, active, calls, holders>>

Workers == 1 .. MaxThreads
Ids == 1 .. EndOfTime
Idle(w) == stage[w] = "idle"

NoOrder == [for |-> 0, status |-> "none"]

Init ==
  /\ now = 1 /\ queue = <<>> /\ signals = 0 /\ running = FALSE /\ threads = 0
  /\ stage = [w \in Workers |-> "none"]
  /\ signal = [w \in Workers |-> 0] /\ id = [w \in Workers |-> 0]
  /\ orders = [i \in Ids |-> NoOrder] /\ active = [i \in Ids |-> 0]
  /\ calls = <<>> /\ holders = [i \in Ids |-> {}]

-----------------------------------------------------------------------------
SubmitSignal ==
  /\ signals < MaxSignals
  /\ signals' = signals + 1 /\ queue' = Append(queue, signals + 1)
  /\ UNCHANGED <<now, running, threads, stage, signal, id, orders, active, calls, holders>>

Start ==
  /\ ~running /\ \A w \in Workers : ~Idle(w)
  /\ threads + MaxWorkers <= MaxThreads
  /\ running' = TRUE /\ threads' = threads + MaxWorkers
  /\ stage' = [w \in Workers |-> IF w \in threads + 1 .. threads + MaxWorkers THEN "idle" ELSE stage[w]]
  /\ UNCHANGED <<now, queue, signals, signal, id, orders, active, calls, holders>>

Stop ==
  /\ running /\ running' = FALSE
  /\ UNCHANGED <<now, queue, signals, threads, stage, signal, id, orders, active, calls, holders>>

WorkerEnds(w) ==
  /\ Idle(w) /\ ~running
  /\ stage' = [stage EXCEPT ![w] = "none"]
  /\ UNCHANGED <<now, queue, signals, running, threads, signal, id, orders, active, calls, holders>>

-----------------------------------------------------------------------------
BrokenRest == queue
Rest == Tail(queue)

(* A worker takes a signal; one that is neither long nor short is dropped. *)
Take(w) ==
  /\ Idle(w) /\ running /\ queue # <<>>
  /\ queue' = Rest
  /\ \/ /\ stage' = [stage EXCEPT ![w] = "check"]
        /\ signal' = [signal EXCEPT ![w] = Head(queue)] /\ id' = [id EXCEPT ![w] = now]
        /\ holders' = [holders EXCEPT ![now] = @ \cup {Head(queue)}]
     \/ UNCHANGED <<stage, signal, id, holders>>
  /\ UNCHANGED <<now, signals, running, threads, orders, active, calls>>

(* submit_market_order(): an id the engine knows is answered with the order *)
(* it has.                                                                 *)
CheckGuard(w) ==
  /\ stage[w] = "check"
  /\ stage' = [stage EXCEPT ![w] = IF orders[id[w]] # NoOrder THEN "register" ELSE "submit"]
  /\ UNCHANGED <<now, queue, signals, running, threads, signal, id, orders, active, calls, holders>>

SubmitOrder(w) ==
  /\ stage[w] = "submit" /\ orders[id[w]] = NoOrder
  /\ orders' = [orders EXCEPT ![id[w]] = [for |-> signal[w], status |-> "live"]]
  /\ stage' = [stage EXCEPT ![w] = "register"]
  /\ UNCHANGED <<now, queue, signals, running, threads, signal, id, active, calls, holders>>

(* The engine or the broker refuses: logged, and the signal is gone.       *)
SubmitFails(w) ==
  /\ stage[w] = "submit"
  /\ stage' = [stage EXCEPT ![w] = "idle"]
  /\ UNCHANGED <<now, queue, signals, running, threads, signal, id, orders, active, calls, holders>>

Register(w) ==
  /\ stage[w] = "register"
  /\ active' = [active EXCEPT ![id[w]] = signal[w]]
  /\ stage' = [stage EXCEPT ![w] = "wait"]
  /\ UNCHANGED <<now, queue, signals, running, threads, signal, id, orders, calls, holders>>

(* wait_for_order() ends with a final status or, after its timeout, with   *)
(* the status the order has then; only FILLED is a fill.                   *)
WaitEnds(w) ==
  /\ stage[w] = "wait"
  /\ stage' = [stage EXCEPT ![w] = IF orders[id[w]].status = "filled" THEN "fill" ELSE "reject"]
  /\ UNCHANGED <<now, queue, signals, running, threads, signal, id, orders, active, calls, holders>>

(* _handle_fill() and _handle_reject(): take the entry out, call back.     *)
CallBack(w) ==
  /\ stage[w] \in {"fill", "reject"}
  /\ active' = [active EXCEPT ![id[w]] = 0]
  /\ calls' = IF active[id[w]] = 0 THEN calls
              ELSE Append(calls, [kind |-> stage[w], signal |-> active[id[w]], id |-> id[w]])
  /\ stage' = [stage EXCEPT ![w] = "idle"]
  /\ UNCHANGED <<now, queue, signals, running, threads, signal, id, orders, holders>>

BrokerEnds(i) ==
  /\ orders[i].status = "live"
  /\ \E s \in {"filled", "dead"} : orders' = [orders EXCEPT ![i].status = s]
  /\ UNCHANGED <<now, queue, signals, running, threads, stage, signal, id, active, calls, holders>>

Tick ==
  /\ now < EndOfTime
  /\ now' = now + 1
  /\ UNCHANGED <<queue, signals, running, threads, stage, signal, id, orders, active, calls, holders>>

Next ==
  \/ SubmitSignal \/ Start \/ Stop \/ Tick
  \/ \E w \in Workers : \/ WorkerEnds(w) \/ Take(w) \/ CheckGuard(w) \/ SubmitOrder(w)
                        \/ SubmitFails(w) \/ Register(w) \/ WaitEnds(w) \/ CallBack(w)
  \/ \E i \in Ids : BrokerEnds(i)

Spec == Init /\ [][Next]_vars

-----------------------------------------------------------------------------
(* Across stops and starts no signal is traded twice, and a callback is    *)
(* made for the signal whose order it is, once, with a fill only when that *)
(* order has filled - as long as no two signals got the same id.           *)
Shared(i) == Cardinality(holders[i]) > 1

CallbacksAreOwn ==
  /\ \A i, j \in Ids : orders[i] # NoOrder /\ orders[i].for = orders[j].for => i = j
  /\ \A k \in DOMAIN calls : LET c == calls[k] IN ~Shared(c.id) =>
       /\ orders[c.id].for = c.signal
       /\ c.kind = "fill" => orders[c.id].status = "filled"
       /\ \A l \in DOMAIN calls : calls[l].id = c.id => l = k
=============================================================================
