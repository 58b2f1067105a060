--------------------------- MODULE ExecutionEngine --------------------------
(***************************************************************************)
(* core/execution/engine.py, OrderExecutionEngine: submission with its     *)
(* duplicate guard, polling and booking of fills, protective SL and TP     *)
(* legs, OCO cancellation, cancel_order, and the restart that rebuilds the *)
(* guard from the transaction log.  The driver is the main loop of         *)
(* core/runtime/app.py: submit, wait, and on the TTL cancel.               *)
(*                                                                         *)
(* The engine runs on one thread, but every call it makes to the broker,   *)
(* the log and the position database is a point where the broker may move  *)
(* on or the process may die.  The call in progress is therefore a list of *)
(* the effects it still has to make, todo; each action Do... performs the  *)
(* first of them.  Nothing else of the engine runs until todo is empty.    *)
(*                                                                         *)
(* The broker is external.  It is modelled from how AlpacaBrokerConnector  *)
(* uses it: it keeps one order per client_order_id (= internal id), fills  *)
(* it bit by bit, may reject or expire it, and cancels at once an order    *)
(* that is not final yet.  All orders are for one symbol and one quantity. *)
(*                                                                         *)
(* The runtime never calls create_order(), so OrderStateMachine's table is *)
(* empty here and get_order() returns None: transition() only validates    *)
(* the from_state that the engine itself passes.                           *)
(*                                                                         *)
(* Definitions named Broken... are wrong on purpose: each is the body a    *)
(* plausible bug would give the definition that follows it.                *)
(***************************************************************************)
EXTENDS Integers, Sequences

CONSTANTS
  Entries,       \* ids of BUY orders that open a position
  Exits,         \* ids of SELL orders that close it
  Qty            \* quantity of every order

ASSUME QtyAssumption == Qty \in Nat \ {0}

ASSUME IdsAssumption == Entries \cap Exits = {}

VARIABLES
  book,          \* broker: status and filled quantity of every order
  submitted,     \* _submitted_order_ids
  mapped,        \* ids with an entry in _internal_to_broker_id
  returned,      \* ids whose submit returned to its caller: for the legs
                 \* created_sl and created_tp, for the rest the broker id
  linked,        \* entries whose two legs are OCO siblings in _order_metadata
  cum,           \* _cumulative_filled_qty
  position,      \* PositionStore: quantity held, 0 when there is no row
  owner,         \* PositionStore: order_id of the row
  logSubmit,     \* transaction log: ids with an ORDER_SUBMIT event
  booked,        \* history: sum of incremental_qty over the fill events of an order
  todo,          \* effects the current call of the engine has still to make
  wait,          \* the wait_for_order() in progress, if any
  done,          \* orders the driver has finished with
  failed         \* history: orders with a submit, a cancel or a position
                 \* booking that raised once the broker had the order

memory == <<submitted, mapped, returned, linked, cum>>

durable == <<position, owner, logSubmit, booked>>

driver == <<wait, done>>

vars == <<book, memory, durable, todo, driver, failed>>

-----------------------------------------------------------------------------

\* Internal order ids; protective legs carry the suffix of their kind.
MainId == [base : Entries \cup Exits, suffix : {""}]

LegId == [base : Entries, suffix : {"::SL", "::TP"}]

OrderId == MainId \cup LegId

IsProtective(o) == o.suffix # ""

Leg(e, s) == [base |-> e, suffix |-> s]

Sibling(o) == Leg(o.base, IF o.suffix = "::SL" THEN "::TP" ELSE "::SL")

IsBuy(o) == o.base \in Entries /\ ~IsProtective(o)

Terminal == {"FILLED", "CANCELLED", "REJECTED", "EXPIRED"}

Status == {"NONE", "SUBMITTED", "PARTIALLY_FILLED"} \cup Terminal

Live == {"SUBMITTED", "PARTIALLY_FILLED"}

\* VALID_TRANSITIONS from the states a poll can start in.
Pollable ==
  { <<"SUBMITTED",        "FILLED">>,
    <<"SUBMITTED",        "PARTIALLY_FILLED">>,
    <<"PARTIALLY_FILLED", "FILLED">>,
    <<"SUBMITTED",        "CANCELLED">>,
    <<"PARTIALLY_FILLED", "CANCELLED">>,
    <<"SUBMITTED",        "REJECTED">>,
    <<"SUBMITTED",        "EXPIRED">> }

Task == [do : {"submit", "record", "cancel", "book", "oco", "link", "pop"},
         order : OrderId, qty : 0..Qty]

Do(what, o) == [do |-> what, order |-> o, qty |-> 0]

NoOwner == "none"

Waiting == [order : OrderId, state : Status, prev : Status]

-----------------------------------------------------------------------------

Init ==
  /\ book = [o \in OrderId |-> [status |-> "NONE", filled |-> 0]]
  /\ submitted = {} /\ mapped = {} /\ returned = {} /\ linked = {}
  /\ cum = [o \in OrderId |-> 0]
  /\ position = 0 /\ owner = NoOwner
  /\ logSubmit = {}
  /\ booked = [o \in OrderId |-> 0]
  /\ todo = <<>>
  /\ wait = {} /\ done = {}
  /\ failed = {}

-----------------------------------------------------------------------------
(* The broker.                                                             *)

Fill(o) ==
  /\ book[o].status \in Live
  /\ LET n == book[o].filled + 1 IN
     book' = [book EXCEPT ![o] =
       [status |-> IF n = Qty THEN "FILLED" ELSE "PARTIALLY_FILLED", filled |-> n]]
  /\ UNCHANGED <<memory, durable, todo, driver, failed>>

\* An order that was accepted may still be rejected before it trades, and a
\* day order expires with whatever has been filled of it.
GiveUp(o) ==
  /\ \/ book[o].status = "SUBMITTED" /\ book' = [book EXCEPT ![o].status = "REJECTED"]
     \/ book[o].status \in Live /\ book' = [book EXCEPT ![o].status = "EXPIRED"]
  /\ UNCHANGED <<memory, durable, todo, driver, failed>>

-----------------------------------------------------------------------------
(* The driver: calls into the engine, one at a time.                       *)

Idle == todo = <<>> /\ wait = {}

\* submit_market_order / submit_limit_order.  An OrderValidationError changes
\* nothing and is left out.
Submit(o) ==
  /\ Idle
  /\ o \in MainId
  /\ todo' = <<Do("submit", o)>>
  /\ UNCHANGED <<book, memory, durable, driver, failed>>

\* wait_for_order() assumes SUBMITTED whatever has happened to the order.  It
\* needs the broker id that the submit returned.  The callers do not wait again
\* for an order that was final.
Wait(o) ==
  /\ Idle
  /\ o \in returned
  /\ o \notin done
  /\ wait' = {[order |-> o, state |-> "SUBMITTED", prev |-> "SUBMITTED"]}
  /\ UNCHANGED <<book, memory, durable, todo, done, failed>>

\* Bug: the wait has no timeout.
BrokenWaitMayEnd(w) == w.state \in Terminal

\* A wait may end in any state: at a terminal one, or at its timeout.
WaitMayEnd(w) == TRUE

\* wait_for_order() returns a terminal state, or gives up at its timeout.  On
\* the TTL of a limit order the loop cancels the order unless it is FILLED or
\* PARTIALLY_FILLED, and never looks at it again whatever the cancel returned.
WaitReturns ==
  /\ todo = <<>>
  /\ \E w \in wait : WaitMayEnd(w) /\
       \/ /\ w.state \in Terminal
          /\ done' = done \cup {w.order}
          /\ todo' = <<>>
       \/ /\ w.state \notin Terminal
          /\ UNCHANGED <<done, todo>>
       \/ /\ w.state \notin {"FILLED", "PARTIALLY_FILLED"}
          /\ done' = done \cup {w.order}
          /\ todo' = <<Do("cancel", w.order)>>
  /\ wait' = {}
  /\ UNCHANGED <<book, memory, durable, failed>>

-----------------------------------------------------------------------------
(* The engine.                                                             *)

\* What follows the booking of a final fill, in order: a protective leg
\* cancels its OCO sibling; an entry gets the legs its stop_loss and
\* take_profit ask for (each left out when absent or on the wrong side of the
\* fill price), linked when both exist; then the cumulative count is dropped.
AfterFilled(o, legs) ==
  (IF IsProtective(o) THEN <<Do("oco", o)>> ELSE <<>>)
  \o (IF IsBuy(o) /\ "::SL" \in legs THEN <<Do("submit", Leg(o.base, "::SL"))>> ELSE <<>>)
  \o (IF IsBuy(o) /\ "::TP" \in legs THEN <<Do("submit", Leg(o.base, "::TP"))>> ELSE <<>>)
  \o (IF IsBuy(o) THEN <<Do("link", o)>> ELSE <<>>)
  \o <<Do("pop", o)>>

\* Bug: the cumulative quantity is booked again at every fill.
BrokenIncrement(o) == book[o].filled

\* The part of the broker's cumulative filled quantity not booked yet.
Increment(o) == book[o].filled - cum[o]

\* Bug: brackets are placed at the first partial fill.
BrokenFinalFill(b) == TRUE

\* Only a final fill triggers OCO and brackets.
FinalFill(b) == b.status = "FILLED"

\* poll_order_status() with _handle_status_change() up to the fill events in
\* the log.  A status the from_state cannot move to raises inside transition()
\* and is swallowed: such a poll changes nothing.  Quantities are booked as
\* increments over the cumulative count of the order.
Poll(w, legs) ==
  LET o    == w.order
      b    == book[o]
      inc  == Increment(o)
      fill == b.status \in {"PARTIALLY_FILLED", "FILLED"} /\ inc > 0
  IN
  /\ todo = <<>>
  /\ w \in wait
  /\ <<w.state, b.status>> \in Pollable
  /\ wait' = {[order |-> o, state |-> b.status, prev |-> w.state]}
  /\ IF fill
     THEN /\ cum' = [cum EXCEPT ![o] = b.filled]
          /\ booked' = [booked EXCEPT ![o] = @ + inc]
          /\ todo' = <<[do |-> "book", order |-> o, qty |-> inc]>>
                       \o (IF FinalFill(b) THEN AfterFilled(o, legs) ELSE <<>>)
     ELSE UNCHANGED <<cum, booked, todo>>
  /\ UNCHANGED <<book, submitted, mapped, returned, linked, position, owner,
                 logSubmit, done, failed>>

\* submit_market_order(), submit_limit_order(), submit_stop_order() of the
\* connector, when the broker accepts: a day order under the internal id.  The
\* broker refuses an id it knows.
Place(o) ==
  /\ book[o].status = "NONE"
  /\ book' = [book EXCEPT ![o].status = "SUBMITTED"]

\* cancel_order() of the connector, when the order can still be cancelled.
CancelAtBroker(o) ==
  /\ book[o].status \in Live
  /\ book' = [book EXCEPT ![o].status = "CANCELLED"]

Next1(what) == todo # <<>> /\ Head(todo).do = what

\* The broker call of submit_*_order().  A known id returns its broker id, or
\* raises DuplicateOrderError when it has none, without calling the broker.
\* Otherwise the order is not accepted (the broker refuses an id it knows), or
\* accepted while the answer is lost (the engine then treats it as rejected),
\* or accepted and acknowledged.
Sent(o) ==
  /\ Next1("submit") /\ Head(todo).order = o
  /\ \/ /\ o \in submitted
        /\ returned' = returned \cup ({o} \cap mapped)
        /\ todo' = Tail(todo)
        /\ UNCHANGED book
     \/ /\ o \notin submitted
        /\ todo' = Tail(todo)
        /\ UNCHANGED <<book, returned>>
     \/ /\ o \notin submitted
        /\ Place(o)
        /\ todo' \in {Tail(todo), <<Do("record", o)>> \o Tail(todo)}
        /\ UNCHANGED returned
  /\ UNCHANGED <<submitted, mapped, linked, cum, durable, driver, failed>>

\* After the acknowledgement: guard, id mapping and ORDER_SUBMIT in the log (a
\* failing append is swallowed), then state_machine.transition().  The submit
\* returns, or the transition raises and so does the submit, with the order at
\* the broker and mapped.  (A submission that failed is logged and moved to
\* REJECTED instead, which changes nothing that is kept here.)
Recorded(o) ==
  /\ Next1("record") /\ Head(todo).order = o
  /\ submitted' = submitted \cup {o}
  /\ mapped' = mapped \cup {o}
  /\ logSubmit' \in {logSubmit, logSubmit \cup {o}}
  /\ \/ returned' = returned \cup {o} /\ UNCHANGED failed
     \/ failed' = failed \cup {o} /\ UNCHANGED returned
  /\ todo' = Tail(todo)
  /\ UNCHANGED <<book, linked, cum, position, owner, booked, driver>>

\* Entries and exits are market orders (limit orders of the driver take the
\* same steps), stop losses go through submit_stop_order() and take profits
\* through submit_limit_order().  The caller that places the legs logs what
\* they raise and goes on.
DoSubmit == \E o \in MainId : Sent(o)
DoRecord == \E o \in MainId : Recorded(o)

DoSubmitStop == \E e \in Entries : Sent(Leg(e, "::SL"))
DoRecordStop == \E e \in Entries : Recorded(Leg(e, "::SL"))

DoSubmitLimit == \E e \in Entries : Sent(Leg(e, "::TP"))
DoRecordLimit == \E e \in Entries : Recorded(Leg(e, "::TP"))

\* cancel_order(): accepted, refused because the order is final already, or
\* the request raised; the callers ignore the result.
DoCancel ==
  LET o == Head(todo).order IN
  /\ Next1("cancel")
  /\ \/ CancelAtBroker(o) /\ UNCHANGED failed
     \/ book[o].status \notin Live /\ UNCHANGED <<book, failed>>
     \/ /\ failed' = failed \cup {o}
        /\ UNCHANGED book
  /\ todo' = Tail(todo)
  /\ UNCHANGED <<memory, durable, driver>>

\* PositionStore: the row of the symbol is written as a whole, or deleted, in a
\* transaction of its own.
Upsert(quantity, entry) == position' = quantity /\ owner' = entry

Delete == position' = 0 /\ owner' = NoOwner

\* _create_position() for a fill of an entry: a new row, or quantity added to
\* the row there is, which keeps its order_id.
BookBuy(o, n) ==
  /\ Upsert(position + n, IF position = 0 THEN o.base ELSE owner)
  /\ todo' = Tail(todo)

\* Bug: only the stop loss is cancelled.
BrokenCancelLegs(e) ==
  IF Leg(e, "::SL") \in mapped THEN <<Do("cancel", Leg(e, "::SL"))>> ELSE <<>>

\* _cancel_protective_orders_for_entry(): the legs whose broker id is known.
CancelLegs(e) ==
  (IF Leg(e, "::SL") \in mapped THEN <<Do("cancel", Leg(e, "::SL"))>> ELSE <<>>)
  \o (IF Leg(e, "::TP") \in mapped THEN <<Do("cancel", Leg(e, "::TP"))>> ELSE <<>>)

\* Bug: an over-closing sale is not floored at zero.
BrokenRemaining(n) == position - n

\* What is left of the row after selling n; below zero counts as zero.
Remaining(n) == IF n > position THEN 0 ELSE position - n

\* _create_position() for a sale: the row shrinks; at zero (or below) it is
\* deleted, and an ordinary exit then cancels the legs of the row's entry.
BookSell(o, n) ==
  IF position = 0
  THEN todo' = Tail(todo) /\ UNCHANGED <<position, owner>>
  ELSE /\ IF Remaining(n) = 0 THEN Delete ELSE Upsert(Remaining(n), owner)
       /\ todo' = (IF Remaining(n) = 0 /\ ~IsProtective(o) THEN CancelLegs(owner) ELSE <<>>)
                    \o Tail(todo)

\* Applying a fill to the position database, which may raise: then the rest of
\* the handler is skipped and the poll returns the state it started from.
DoBook ==
  LET t == Head(todo) IN
  /\ Next1("book")
  /\ \/ /\ IF IsBuy(t.order) THEN BookBuy(t.order, t.qty) ELSE BookSell(t.order, t.qty)
        /\ UNCHANGED <<wait, failed>>
     \/ /\ todo' = <<>>
        /\ wait' = {[w EXCEPT !.state = w.prev] : w \in wait}
        /\ failed' = failed \cup {t.order}
        /\ UNCHANGED <<position, owner>>
  /\ UNCHANGED <<book, memory, logSubmit, booked, done>>

\* Bug: the leg that filled is cancelled, not its sibling.
BrokenCancelSibling(o) ==
  IF o.base \in linked THEN <<Do("cancel", o)>> ELSE <<>>

\* _maybe_cancel_oco_sibling_on_fill().
CancelSibling(o) ==
  IF o.base \in linked /\ Sibling(o) \in mapped THEN <<Do("cancel", Sibling(o))>> ELSE <<>>

DoOco ==
  /\ Next1("oco")
  /\ todo' = CancelSibling(Head(todo).order) \o Tail(todo)
  /\ UNCHANGED <<book, memory, durable, driver, failed>>

\* _link_oco(), when the submits of both legs returned.
DoLink ==
  LET e == Head(todo).order.base IN
  /\ Next1("link")
  /\ linked' = IF {Leg(e, "::SL"), Leg(e, "::TP")} \subseteq returned
               THEN linked \cup {e} ELSE linked
  /\ todo' = Tail(todo)
  /\ UNCHANGED <<book, submitted, mapped, returned, cum, durable, driver, failed>>

\* The cumulative count of a filled order is dropped.
DoPop ==
  /\ Next1("pop")
  /\ cum' = [cum EXCEPT ![Head(todo).order] = 0]
  /\ todo' = Tail(todo)
  /\ UNCHANGED <<book, submitted, mapped, returned, linked, durable, driver, failed>>

Step ==
  \/ DoSubmit \/ DoRecord \/ DoSubmitStop \/ DoRecordStop
  \/ DoSubmitLimit \/ DoRecordLimit
  \/ DoCancel \/ DoBook \/ DoOco \/ DoLink \/ DoPop

\* _seed_submitted_ids_from_log(): what the guard may be rebuilt as.  Reading
\* the log may raise at any event, the first included; the ids read before are
\* kept and the engine goes on.  (Any part of the log stands for a prefix.)
Seeds == SUBSET logSubmit

\* The process dies at any point and is started again: a new engine, its
\* duplicate guard seeded from the ORDER_SUBMIT events of the log.
Restart ==
  /\ submitted' \in Seeds
  /\ mapped' = {} /\ returned' = {} /\ linked' = {}
  /\ cum' = [o \in OrderId |-> 0]
  /\ todo' = <<>>
  /\ wait' = {} /\ done' = {}
  /\ UNCHANGED <<book, durable, failed>>

Next ==
  \/ \E o \in OrderId : Fill(o) \/ GiveUp(o) \/ Submit(o) \/ Wait(o)
  \/ \E w \in wait, legs \in SUBSET {"::SL", "::TP"} : Poll(w, legs)
  \/ WaitReturns
  \/ Step
  \/ Restart

Fairness == WF_vars(Step) /\ WF_vars(WaitReturns)

Spec == Init /\ [][Next]_vars /\ Fairness

-----------------------------------------------------------------------------

\* The variables have their types.
TypeOK ==
  /\ book \in [OrderId -> [status : Status, filled : 0..Qty]]
  /\ submitted \subseteq OrderId
  /\ mapped \subseteq OrderId
  /\ returned \subseteq OrderId
  /\ linked \subseteq Entries
  /\ cum \in [OrderId -> 0..Qty]
  /\ position \in Nat
  /\ owner \in Entries \cup {NoOwner}
  /\ logSubmit \subseteq OrderId
  /\ booked \in [OrderId -> Nat]
  /\ todo \in Seq(Task)
  /\ wait \subseteq Waiting
  /\ done \subseteq OrderId
  /\ failed \subseteq OrderId

\* No order is booked beyond what the broker filled of it, over all polls,
\* timeouts, repeated waits, failing bookings and restarts (PATCH 3: "tracking
\* cumulative filled_qty and updating positions incrementally").
BookedWithinFilled == \A o \in OrderId : booked[o] <= book[o].filled

\* A protective leg is at the broker only for an entry the broker has filled
\* completely and the engine has booked completely: never for a partial fill.
LegsOnlyForFilledEntries ==
  \A o \in LegId :
    book[o].status # "NONE" =>
      LET e == [base |-> o.base, suffix |-> ""] IN
      book[e].status = "FILLED" /\ booked[e] >= Qty

\* A leg that is booked completely leaves its sibling unable to trade once the
\* engine is at rest: cancelled, or over before the cancel reached it, which may
\* be by a fill of its own (_maybe_cancel_oco_sibling_on_fill).  Excepted are
\* legs the engine has no broker id for, and legs with a submit, a booking or a
\* cancel that raised: a submit that raised leaves the pair without its link.
FilledLegEndsSibling ==
  Idle => \A o \in LegId :
    {o, Sibling(o)} \subseteq mapped \ failed /\ booked[o] = Qty
      => book[Sibling(o)].status \notin Live

\* _cancel_protective_orders_for_entry: "we must cancel the leftover protective
\* legs or they can re-open/flip exposure later".  With the position gone and
\* the engine at rest, no leg it knows of can still trade.
NoStrayLegs ==
  position = 0 /\ Idle /\ failed = {} =>
    \A o \in LegId : o \in mapped => book[o].status \notin Live

\* Every call into the engine returns, whatever the broker does meanwhile.
CallsReturn == ~Idle ~> Idle

\* EXECUTION_INVARIANTS.md, section 7: a limit order not filled within its TTL
\* is cancelled and done with.  What the broker filled of it before the cancel
\* should be on the books.
CancelledIsBooked ==
  \A o \in OrderId :
    Idle /\ o \in mapped /\ o \in done /\ book[o].status = "CANCELLED"
      => booked[o] = book[o].filled

=============================================================================
