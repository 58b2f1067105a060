---------------------------- MODULE OrderTracker -----------------------------
(***************************************************************************)
(* core/state/order_tracker.py: OrderTracker, between the two sources that *)
(* feed it: the engine's polls, and the websocket's trade updates through  *)
(* Container._handle_trade_update().                                       *)
(*                                                                         *)
(* Every operation runs under the lock but one: the call of stop_tracking() *)
(* that ends process_fill() and process_order_update() comes after its     *)
(* release, so the other thread can run in between (pending).  Updates     *)
(* arrive in order and late, also before the order is tracked, when they   *)
(* are dropped.  The main loop starts the websocket never, an asynchronous *)
(* caller of start_async() does: streaming tells the two apart.            *)
(*                                                                         *)
(* The websocket's statuses are spelled in lower case.  OrderStatus()      *)
(* accepts none of them, so process_order_update() raises after it noted   *)
(* the exchange id, and an order that ended without a fill stays in flight. *)
(* An order has one exchange id for life: both ids are the order itself.   *)
(***************************************************************************)
EXTENDS Integers, Sequences

CONSTANTS Orders, Size, MaxInbox

VARIABLES
  streaming,  \* the websocket runs
  broker,     \* broker: state and filled quantity of each order
  inbox,      \* trade updates on their way
  polled,     \* engine: cumulative quantity it has handed on
  flight,     \* _in_flight_orders: filled_quantity of the orders tracked
  completed,  \* _completed_orders
  known,      \* _exchange_id_to_client_id
  pending     \* stop_tracking() calls flagged under the lock

vars == <<streaming, broker, inbox, polled, flight, completed, known, pending>>

Nowhere == [state |-> "none", filled |-> 0]
Live == {o \in Orders : broker[o].state = "live"}

Init ==
  /\ streaming \in BOOLEAN
  /\ broker = [o \in Orders |-> Nowhere]
  /\ inbox = <<>> /\ polled = [o \in Orders |-> 0]
  /\ flight = [o \in {} |-> 0] /\ completed = {} /\ known = {} /\ pending = {}

-----------------------------------------------------------------------------
(* The broker.                                                             *)

Notify(o, event, qty) ==
  IF streaming /\ Len(inbox) < MaxInbox
  THEN inbox' = Append(inbox, [order |-> o, event |-> event, qty |-> qty])
  ELSE inbox' = inbox

Accept(o) ==
  /\ broker[o].state = "none"
  /\ broker' = [broker EXCEPT ![o].state = "live"]
  /\ Notify(o, "new", 0)
  /\ UNCHANGED <<streaming, polled, flight, completed, known, pending>>

Fill(o) ==
  /\ o \in Live
  /\ LET filled == broker[o].filled + 1
     IN /\ broker' = [broker EXCEPT ![o] =
             [state |-> IF filled = Size THEN "filled" ELSE "live", filled |-> filled]]
        /\ Notify(o, "fill", filled)
  /\ UNCHANGED <<streaming, polled, flight, completed, known, pending>>

(* Cancelled from elsewhere, rejected or expired.                          *)
End(o) ==
  /\ o \in Live
  /\ broker' = [broker EXCEPT ![o].state = "ended"]
  /\ Notify(o, "ended", 0)
  /\ UNCHANGED <<streaming, polled, flight, completed, known, pending>>

-----------------------------------------------------------------------------
(* The tracker.                                                            *)

Tracked == DOMAIN flight

StartTracking(o) ==
  /\ broker[o].state # "none" /\ o \notin Tracked \cup completed
  /\ flight' = [t \in Tracked \cup {o} |-> IF t = o THEN 0 ELSE flight[t]]
  /\ known' = known \cup {o}
  /\ UNCHANGED <<streaming, broker, inbox, polled, completed, pending>>

(* add_fill(), and the flag for the call after the lock is released.       *)
BrokenIsDone(filled) == filled + 1 >= Size

IsDone(filled) == filled >= Size

ProcessFill(o, qty, who) ==
  IF o \in Tracked
  THEN /\ flight' = [flight EXCEPT ![o] = @ + qty]
       /\ pending' = IF IsDone(flight[o] + qty) THEN pending \cup {<<who, o>>} ELSE pending
  ELSE UNCHANGED <<flight, pending>>

(* The exchange id is noted before the status raises.                      *)
ProcessUpdate(o) == known' = IF o \in Tracked THEN known \cup {o} ELSE known

BrokenUnmapped(o) == known

Unmapped(o) == known \ {o}

StopTracking(o) ==
  IF o \in Tracked
  THEN /\ flight' = [t \in Tracked \ {o} |-> flight[t]]
       /\ completed' = completed \cup {o}
       /\ known' = Unmapped(o)
  ELSE UNCHANGED <<flight, completed, known>>

Stop(who, o) ==
  /\ <<who, o>> \in pending /\ pending' = pending \ {<<who, o>>}
  /\ StopTracking(o)
  /\ UNCHANGED <<streaming, broker, inbox, polled>>

-----------------------------------------------------------------------------
(* The engine: it is out of process_fill() before it does anything else.   *)

EngineIsFree == \A o \in Orders : <<"engine", o>> \notin pending

Submitted(o) == EngineIsFree /\ StartTracking(o)

(* A poll that sees the filled quantity grow, on an order it submitted.    *)
Poll(o) ==
  /\ EngineIsFree /\ o \in Tracked \cup completed
  /\ broker[o].filled > polled[o]
  /\ polled' = [polled EXCEPT ![o] = broker[o].filled]
  /\ ProcessFill(o, broker[o].filled - polled[o], "engine")
  /\ UNCHANGED <<streaming, broker, inbox, completed, known>>

(* cancel_order(): only after the broker agreed.                           *)
Cancel(o) ==
  /\ EngineIsFree /\ o \in Live /\ o \in Tracked \cup completed
  /\ broker' = [broker EXCEPT ![o].state = "ended"]
  /\ Notify(o, "ended", 0)
  /\ StopTracking(o)
  /\ UNCHANGED <<streaming, polled, pending>>

-----------------------------------------------------------------------------
(* The websocket: the quantity of an update is cumulative, and is handed   *)
(* on as if it were the fill's own.                                        *)

StreamIsFree == \A o \in Orders : <<"stream", o>> \notin pending

Receive ==
  /\ StreamIsFree /\ inbox # <<>> /\ inbox' = Tail(inbox)
  /\ LET u == Head(inbox) IN
       IF u.event = "fill"
       THEN ProcessFill(u.order, u.qty, "stream") /\ UNCHANGED known
       ELSE ProcessUpdate(u.order) /\ UNCHANGED <<flight, pending>>
  /\ UNCHANGED <<streaming, broker, polled, completed>>

Next ==
  \/ \E o \in Orders :
       \/ Accept(o) \/ Fill(o) \/ End(o) \/ Submitted(o) \/ Poll(o) \/ Cancel(o)
       \/ \E who \in {"engine", "stream"} : Stop(who, o)
  \/ Receive

Spec == Init /\ [][Next]_vars

-----------------------------------------------------------------------------
(* get_orphaned_orders() over the broker's open orders.                    *)
Orphans == Live \ known

(* As the main loop runs it, no order that works at the broker is reported *)
(* as an orphan once it was tracked: polls that skip partial fills or come *)
(* late never complete an order early.  And whoever completes an order,    *)
(* however the websocket's updates fall between the engine's calls, its    *)
(* exchange id is known while it is in flight and no longer.               *)
LiveOrdersAreTracked ==
  /\ ~streaming => Orphans \cap (Tracked \cup completed) = {}
  /\ known = Tracked /\ Tracked \cap completed = {}
=============================================================================
