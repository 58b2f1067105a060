--------------------------- MODULE EventHandlers ---------------------------
(***************************************************************************)
(* core/events/handlers.py: EventHandlerRegistry, fed with what            *)
(* EventFactory (core/events/types.py) makes of the broker's order         *)
(* updates.  One consumer handles an event at a time; updates are          *)
(* delivered in any order, again, or never; the process may die between    *)
(* the machine's record of a transition and the handler's own, and         *)
(* restores its open orders from the transaction log.  Orders come from    *)
(* the engine, which may still be submitting one that is told about.       *)
(*                                                                         *)
(* The handlers' last step, PositionStore.add_or_update(), does not exist: *)
(* it raises, and the exception is logged.  Handlers of positions, limits  *)
(* and the kill switch append what they get, and are left out.             *)
(*                                                                         *)
(* Bounds: MaxCrashes; MaxRecords records in the log.                      *)
(***************************************************************************)
EXTENDS Integers, Sequences, FiniteSets

CONSTANTS Orders, MaxCrashes, MaxRecords

VARIABLES
  broker,    \* per order: the broker's status, "none" before submission
  calls,     \* orders the engine is submitting
  updates,   \* per order: the statuses the broker has told about
  table,     \* OrderStateMachine._orders: state, "absent" without an entry
  log,       \* transaction log: records [by, order, state]
  stage,     \* the consumer: "idle", or about to append its record
  event,     \* the event it handles
  crashes

vars == <<broker, calls, updates, table, log, stage, event, crashes>>
machine == <<calls, table, log, stage, event, crashes>>

Final == {"FILLED", "CANCELLED", "REJECTED", "EXPIRED"}
NoEvent == [order |-> "none", to |-> "none"]

Init ==
  /\ broker = [o \in Orders |-> "none"] /\ calls = {}
  /\ updates = [o \in Orders |-> {}]
  /\ table = [o \in Orders |-> "absent"] /\ log = <<>>
  /\ stage = "idle" /\ event = NoEvent /\ crashes = 0

-----------------------------------------------------------------------------
(* The broker, and the orders others put into the machine.                 *)

CreateOrder(o) ==
  /\ table[o] = "absent" /\ broker[o] = "none" /\ \A i \in DOMAIN log : log[i].order # o
  /\ table' = [table EXCEPT ![o] = "PENDING"]
  /\ log' = Append(log, [by |-> "machine", order |-> o, state |-> "PENDING"])
  /\ UNCHANGED <<broker, calls, updates, stage, event, crashes>>

(* The engine submits and, when the call returns, moves the order from     *)
(* PENDING, whatever its state has become.                                 *)
Submit(o) ==
  /\ table[o] = "PENDING" /\ broker[o] = "none"
  /\ broker' = [broker EXCEPT ![o] = "new"]
  /\ updates' = [updates EXCEPT ![o] = {"new"}]
  /\ calls' = calls \cup {o}
  /\ UNCHANGED <<table, log, stage, event, crashes>>

SubmitReturns(o) ==
  /\ o \in calls /\ calls' = calls \ {o}
  /\ table' = [table EXCEPT ![o] = "SUBMITTED"]
  /\ log' = Append(log, [by |-> "machine", order |-> o, state |-> "SUBMITTED"])
  /\ UNCHANGED <<broker, updates, stage, event, crashes>>

Moves(s) ==
  CASE s = "new" -> {"partially_filled", "filled", "canceled", "rejected", "expired", "pending_cancel"}
    [] s = "partially_filled" -> {"filled", "canceled", "expired", "pending_cancel"}
    [] s = "pending_cancel" -> {"filled", "canceled"}
    [] OTHER -> {}
BrokerMoves(o) ==
  /\ \E s \in Moves(broker[o]) :
       /\ broker' = [broker EXCEPT ![o] = s]
       /\ updates' = [updates EXCEPT ![o] = @ \cup {s}]
  /\ UNCHANGED machine

-----------------------------------------------------------------------------
(* EventFactory.from_alpaca_order_update(); other events have no handler   *)
(* that moves the order.                                                   *)
Made(status) ==
  CASE status = "partially_filled" -> "PARTIALLY_FILLED"
    [] status = "filled" -> "FILLED"
    [] status = "canceled" -> "CANCELLED"
    [] status \in {"rejected", "pending_cancel", "stopped"} -> "REJECTED"
    [] OTHER -> "none"

(* The broker's id comes with every event but a rejection.                 *)
BrokenAllowed(from, to) == to # "none"
Allowed(from, to) ==
  \/ from = "SUBMITTED" /\ to \in {"PARTIALLY_FILLED", "FILLED", "CANCELLED"}
  \/ from = "PARTIALLY_FILLED" /\ to \in {"FILLED", "CANCELLED"}
  \/ from = "PENDING" /\ to = "REJECTED"

(* An event comes in: the order's state is looked up and moved; a refusal  *)
(* ends the handler.                                                       *)
Handle(o, to) ==
  /\ stage = "idle" /\ Len(log) < MaxRecords
  /\ \E u \in updates[o] : Made(u) = to
  /\ table[o] # "absent" /\ Allowed(table[o], to)
  /\ table' = [table EXCEPT ![o] = to]
  /\ log' = Append(log, [by |-> "machine", order |-> o, state |-> to])
  /\ stage' = "recording" /\ event' = [order |-> o, to |-> to]
  /\ UNCHANGED <<broker, calls, updates, crashes>>

HandleOrderFilled(o) == Handle(o, "FILLED")
HandleOrderPartiallyFilled(o) == Handle(o, "PARTIALLY_FILLED")
HandleOrderCancelled(o) == Handle(o, "CANCELLED")
HandleOrderRejected(o) == Handle(o, "REJECTED")

(* After it the position update raises.                                    *)
Record ==
  /\ stage = "recording"
  /\ log' = Append(log, [by |-> "handler", order |-> event.order, state |-> event.to])
  /\ stage' = "idle" /\ event' = NoEvent
  /\ UNCHANGED <<broker, calls, updates, table, crashes>>

Last(o) ==
  LET of == {i \in DOMAIN log : log[i].order = o}
  IN IF of = {} THEN "absent" ELSE log[CHOOSE i \in of : \A j \in of : j <= i].state

(* restore_pending_orders(): the handlers' records of a partial fill name  *)
(* no state, those of an end do.                                           *)
Crash ==
  /\ crashes < MaxCrashes /\ crashes' = crashes + 1
  /\ table' = [o \in Orders |-> IF Last(o) \in Final THEN "absent" ELSE Last(o)]
  /\ stage' = "idle" /\ event' = NoEvent /\ calls' = {}
  /\ UNCHANGED <<broker, updates, log>>

Next ==
  \/ \E o \in Orders :
       \/ CreateOrder(o) \/ Submit(o) \/ SubmitReturns(o) \/ BrokerMoves(o)
       \/ HandleOrderFilled(o) \/ HandleOrderPartiallyFilled(o)
       \/ HandleOrderCancelled(o) \/ HandleOrderRejected(o)
  \/ Record \/ Crash

Spec == Init /\ [][Next]_vars
-----------------------------------------------------------------------------
Records(by, o, s) == {i \in DOMAIN log : log[i] = [by |-> by, order |-> o, state |-> s]}

(* "Idempotent handlers (safe to replay)": over redelivery, reordering and *)
(* restarts an order makes each move at most once, a handler records it at *)
(* most once and after the machine did, an order filled or cancelled moves *)
(* no more, and the broker told of what ended it.                          *)
MovesAreRecordedOnce ==
  \A o \in Orders :
    /\ \A s \in Final \cup {"PARTIALLY_FILLED"} :
         /\ Cardinality(Records("machine", o, s)) <= 1
         /\ \A i \in Records("handler", o, s) : \E j \in Records("machine", o, s) : j < i
         /\ Cardinality(Records("handler", o, s)) <= Cardinality(Records("machine", o, s))
    /\ \A s \in {"FILLED", "CANCELLED"} : \A i \in Records("machine", o, s) :
         /\ \A j \in DOMAIN log : j > i /\ log[j].order = o => log[j].state = s
         /\ \E u \in updates[o] : Made(u) = s
=============================================================================
