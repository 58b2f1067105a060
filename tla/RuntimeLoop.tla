---------------------------- MODULE RuntimeLoop -----------------------------
(***************************************************************************)
(* core/runtime/app.py, run(): the trading loop over the engine, the risk  *)
(* manager, the position store, the limits tracker and the broker.         *)
(*                                                                         *)
(* One thread runs the loop; the broker (external) fills, ends or keeps    *)
(* the orders it accepted at any time between two of the loop's steps.     *)
(* The engine is modelled by what the loop sees of it: a submission that   *)
(* is accepted, refused, or accepted with its answer lost, polls that book *)
(* the growth of the filled quantity, and a wait that ends at a final      *)
(* status or at its timeout.  ExecutionEngine has the inside.              *)
(*                                                                         *)
(* The loop looks several helpers up with hasattr() and goes on without    *)
(* them.  Offers is the set of those the objects really have: the          *)
(* container's engine, tracker, store and connector have none of them, the *)
(* stand-ins of the tests have all three.  RecordReturns says whether      *)
(* record_realized_pnl() comes back; LimitsTracker shows that it does not. *)
(* Signals carry no bracket: submit_stop_order() refuses the loop's        *)
(* keyword reason=, so protective_stop_ids stays empty, and the engine's   *)
(* own legs are ExecutionEngine's subject.  Prices are 1 and one strategy  *)
(* runs, so a cooldown key is a symbol and a side.                         *)
(*                                                                         *)
(* Ctrl-C and a kill end the loop between any two steps: behaviours may    *)
(* stop anywhere, as no fairness is assumed.                               *)
(*                                                                         *)
(* Bounds: MaxOrders orders, EndOfTime cycles.                             *)
(***************************************************************************)
EXTENDS Integers, Sequences, FiniteSets, FiniteSetsExt

CONSTANTS
  Symbols,        \* all_symbols
  Sizes,          \* quantities a signal may ask for
  Cooldown,       \* cooldown_s, in cycles
  MaxFailures,    \* MAX_CONSECUTIVE_FAILURES
  MaxExposure,    \* max_portfolio_exposure_usd
  MaxPositions,   \* max_positions
  MaxSymbol,      \* max_concentration_per_symbol_pct of the account value
  Offers,         \* helpers the loop finds: subset of Helpers
  RecordReturns,  \* record_realized_pnl() returns
  MaxOrders, EndOfTime

ASSUME CooldownAssumption == Cooldown \in Nat

ASSUME SizesAssumption == Sizes \subseteq Nat

Helpers == {"open_orders", "position", "broker_position"}

VARIABLES
  phase,          \* where the loop is
  todo,           \* symbols this cycle has still to visit
  current,        \* order the loop is waiting for, 0 when there is none
  now,            \* cycles done: the clock of the cooldown
  lastAction,     \* last_action_ts, per symbol and side
  failures,       \* ConsecutiveFailureBreaker._count
  orders,         \* broker: the orders it accepted, in order
  seen,           \* engine: last status and booked quantity of each order
  row,            \* PositionStore: quantity and order_id, per symbol
  held,           \* broker: shares held, per symbol
  bought          \* history: shares its entries filled, per symbol

loop == <<phase, todo, current, now, lastAction, failures>>
shares == <<held, bought>>
vars == <<loop, orders, seen, row, shares>>

Never == -Cooldown
NoRow == [qty |-> 0, order |-> 0]
Rows == {s \in Symbols : row[s].qty # 0}
Exposure == MapThenSumSet(LAMBDA s : row[s].qty, Symbols)
Live(s) == {o \in DOMAIN orders : orders[o].symbol = s /\ orders[o].live}

Init ==
  /\ phase = "idle" /\ todo = {} /\ current = 0
  /\ now = 0 /\ failures = 0
  /\ lastAction = [k \in Symbols \X {"BUY", "SELL"} |-> Never]
  /\ orders = <<>> /\ seen = <<>>
  /\ row = [s \in Symbols |-> NoRow]
  /\ held = [s \in Symbols |-> 0]
  /\ bought = [s \in Symbols |-> 0]

Tick == IF now < EndOfTime THEN now + 1 ELSE now

(* The broker's clock says closed, or cannot be read: no symbol is visited *)
(* and the breaker counts a success.                                       *)
MarketClosed ==
  /\ phase = "idle" /\ failures' = 0 /\ now' = Tick
  /\ UNCHANGED <<phase, todo, current, lastAction, orders, seen, row, shares>>

BeginCycle ==
  /\ phase = "idle" /\ phase' = "scan" /\ todo' = Symbols
  /\ UNCHANGED <<current, now, lastAction, failures, orders, seen, row, shares>>

(* No closed bar, invalid data, or no signal left for the symbol.          *)
NextSymbol(s) ==
  /\ phase = "scan" /\ s \in todo /\ todo' = todo \ {s}
  /\ UNCHANGED <<phase, current, now, lastAction, failures, orders, seen, row, shares>>

-----------------------------------------------------------------------------
(* The guards of a signal.                                                 *)

(* _is_exit_signal(): without an action or intent of its own, a sale.      *)
IsExitSignal(side) == side = "SELL"

BrokenSingleTradeBlocks(s, side) ==
  ~IsExitSignal(side) /\ "position" \in Offers /\ row[s].qty # 0

(* Single trade: for an entry, a position or an open order, as far as the  *)
(* loop can look them up.                                                  *)
SingleTradeBlocks(s, side) ==
  /\ ~IsExitSignal(side)
  /\ \/ "position" \in Offers /\ row[s].qty # 0
     \/ "open_orders" \in Offers /\ Live(s) # {}

CoolingDown(s, side) == now - lastAction[<<s, side>>] < Cooldown

(* RiskManager.validate_trade(): every check but max_positions treats a    *)
(* sale like a purchase.                                                   *)
RiskApproves(s, side, qty) ==
  /\ Exposure + qty <= MaxExposure
  /\ side = "BUY" => Cardinality(Rows) < MaxPositions
  /\ row[s].qty # 0 => row[s].qty + qty <= MaxSymbol

(* broker.get_position(): no entry into a position, no sale without one,   *)
(* and a sale of no more than is held.                                     *)
Sized(s, side, qty) ==
  IF "broker_position" \notin Offers THEN qty
  ELSE IF side = "BUY" THEN (IF held[s] > 0 THEN 0 ELSE qty)
  ELSE IF qty > held[s] THEN held[s] ELSE qty

Allowed(s, side, qty) ==
  /\ phase = "scan" /\ s \in todo
  /\ ~SingleTradeBlocks(s, side)
  /\ ~CoolingDown(s, side)
  /\ RiskApproves(s, side, qty)
  /\ Sized(s, side, qty) > 0

Order(s, side, qty, kind) ==
  [symbol |-> s, side |-> side, size |-> qty, kind |-> kind, filled |-> 0,
   live |-> TRUE, at |-> now,
   flat |-> held[s] <= 0 /\ Live(s) = {}]

Accept(s, side, qty, kind) ==
  /\ Len(orders) < MaxOrders
  /\ orders' = Append(orders, Order(s, side, Sized(s, side, qty), kind))
  /\ seen' = Append(seen, [status |-> "SUBMITTED", qty |-> 0])

BrokenCooled(s, side) == [lastAction EXCEPT ![<<s, "BUY">>] = now]

Cooled(s, side) == [lastAction EXCEPT ![<<s, side>>] = now]

Submit(s, side, qty, kind) ==
  /\ Allowed(s, side, qty)
  /\ Accept(s, side, qty, kind)
  /\ lastAction' = Cooled(s, side)
  /\ current' = Len(orders') /\ phase' = "wait"
  /\ UNCHANGED <<todo, now, failures, row, shares>>

(* An exception that leaves the cycle: the breaker counts it, and the last *)
(* one it tolerates halts the loop.                                        *)
Tripped == failures + 1 >= MaxFailures

Raised ==
  /\ failures' = failures + 1
  /\ phase' = IF Tripped THEN "stopped" ELSE "idle"
  /\ todo' = {} /\ now' = Tick

(* The account, a strategy or the validator raises.                        *)
Fail ==
  /\ phase = "scan" /\ Raised
  /\ UNCHANGED <<current, lastAction, orders, seen, row, shares>>

(* A submission raises: refused, or accepted with its answer lost.         *)
SubmitRaises(s, side, qty, kind) ==
  /\ Allowed(s, side, qty)
  /\ lastAction' = Cooled(s, side)
  /\ \/ Accept(s, side, qty, kind)
     \/ UNCHANGED <<orders, seen>>
  /\ Raised
  /\ UNCHANGED <<current, row, shares>>

-----------------------------------------------------------------------------
(* The broker, watched for as long as the loop is.                         *)

Fill(o) ==
  /\ orders[o].live /\ phase \notin {"hung", "stopped"}
  /\ LET filled == orders[o].filled + 1
         sign == IF orders[o].side = "BUY" THEN 1 ELSE -1
     IN /\ orders' = [orders EXCEPT ![o].filled = filled,
                                    ![o].live = filled < orders[o].size]
        /\ held' = [held EXCEPT ![orders[o].symbol] = @ + sign]
        /\ bought' = IF orders[o].side = "BUY"
                     THEN [bought EXCEPT ![orders[o].symbol] = @ + 1] ELSE bought
  /\ UNCHANGED <<loop, seen, row>>

(* Rejection, expiry, or a cancel from elsewhere.                          *)
GiveUp(o) ==
  /\ orders[o].live /\ phase \notin {"hung", "stopped"}
  /\ orders' = [orders EXCEPT ![o].live = FALSE]
  /\ UNCHANGED <<loop, seen, row, shares>>

StatusOf(o) ==
  CASE orders[o].filled = orders[o].size -> "FILLED"
    [] orders[o].filled < orders[o].size /\ ~orders[o].live -> "ENDED"
    [] orders[o].filled = 0 /\ orders[o].live -> "SUBMITTED"
    [] OTHER -> "PARTIALLY_FILLED"

-----------------------------------------------------------------------------
(* Waiting for the order.                                                  *)

(* _create_position() with the growth of the filled quantity.              *)
Booked(o, more) ==
  LET s == orders[o].symbol
      r == row[s]
      left == r.qty - more
  IN CASE orders[o].side = "BUY" ->
            [row EXCEPT ![s] = [qty |-> r.qty + more,
                                order |-> IF r.qty = 0 THEN o ELSE r.order]]
       [] orders[o].side = "SELL" /\ (r.qty = 0 \/ left <= 0) ->
            [row EXCEPT ![s] = NoRow]
       [] OTHER -> [row EXCEPT ![s].qty = left]

(* One poll: only a change of status is looked at, and only a status that  *)
(* is a fill books anything.                                               *)
Poll ==
  /\ phase = "wait" /\ StatusOf(current) # seen[current].status
  /\ IF StatusOf(current) \in {"FILLED", "PARTIALLY_FILLED"}
     THEN /\ row' = Booked(current, orders[current].filled - seen[current].qty)
          /\ seen' = [seen EXCEPT ![current] =
                        [status |-> StatusOf(current), qty |-> orders[current].filled]]
     ELSE /\ seen' = [seen EXCEPT ![current].status = StatusOf(current)]
          /\ UNCHANGED row
  /\ UNCHANGED <<loop, orders, shares>>

(* A limit order that is neither filled nor partially filled at the end of *)
(* its TTL is cancelled, as far as the broker lets it be, and forgotten.   *)
NoChase == orders[current].kind = "LIMIT"
           /\ seen[current].status \notin {"FILLED", "PARTIALLY_FILLED"}

WaitEnds ==
  /\ phase = "wait"
  /\ IF NoChase
     THEN /\ phase' = "scan" /\ current' = 0
          /\ \/ orders' = [orders EXCEPT ![current].live = FALSE]
             \/ UNCHANGED orders
     ELSE phase' = "account" /\ UNCHANGED <<current, orders>>
  /\ UNCHANGED <<todo, now, lastAction, failures, seen, row, shares>>

-----------------------------------------------------------------------------
(* Accounting for the order: get_fill_details() knows no order, so the     *)
(* broker is asked once more.                                              *)

NothingFilled ==
  /\ phase = "account" /\ phase' = "scan" /\ current' = 0
  /\ UNCHANGED <<todo, now, lastAction, failures, orders, seen, row, shares>>

BrokenRowOf(o) == [qty |-> row[orders[o].symbol].qty + orders[o].filled, order |-> o]

(* The row becomes the order's fill, whatever it was.                      *)
RowOf(o) == [qty |-> orders[o].filled, order |-> o]

AccountBuy ==
  /\ phase = "account" /\ orders[current].side = "BUY" /\ orders[current].filled > 0
  /\ row' = [row EXCEPT ![orders[current].symbol] = RowOf(current)]
  /\ phase' = "scan" /\ current' = 0
  /\ UNCHANGED <<todo, now, lastAction, failures, orders, seen, shares>>

(* Realized P&L needs the row; the row is deleted whatever was sold.       *)
AccountSell ==
  LET s == orders[current].symbol IN
  /\ phase = "account" /\ orders[current].side = "SELL" /\ orders[current].filled > 0
  /\ IF row[s].qty # 0 /\ ~RecordReturns
     THEN phase' = "hung" /\ UNCHANGED <<current, row>>
     ELSE /\ row' = [row EXCEPT ![s] = NoRow]
          /\ phase' = "scan" /\ current' = 0
  /\ UNCHANGED <<todo, now, lastAction, failures, orders, seen, shares>>

EndCycle ==
  /\ phase = "scan" /\ todo = {}
  /\ phase' = "idle" /\ failures' = 0 /\ now' = Tick
  /\ UNCHANGED <<todo, current, lastAction, orders, seen, row, shares>>

Next ==
  \/ MarketClosed \/ BeginCycle \/ EndCycle \/ Fail
  \/ \E s \in Symbols : NextSymbol(s)
  \/ \E s \in Symbols, side \in {"BUY", "SELL"}, qty \in Sizes, kind \in {"MARKET", "LIMIT"} :
       Submit(s, side, qty, kind) \/ SubmitRaises(s, side, qty, kind)
  \/ \E o \in DOMAIN orders : Fill(o) \/ GiveUp(o)
  \/ Poll \/ WaitEnds \/ NothingFilled \/ AccountBuy \/ AccountSell

Spec == Init /\ [][Next]_vars
-----------------------------------------------------------------------------
(* A row never claims more shares than the entries for its symbol filled:  *)
(* engine and loop both book an entry (_create_position, then upsert), and *)
(* whatever is missed or polled late in between, no share counts twice.    *)
RowWithinBought == \A s \in Symbols : row[s].qty <= bought[s]

(* A symbol is not traded again on one side before the cooldown is over,   *)
(* not even after a submission that raised with its order accepted.        *)
OrdersSpaced ==
  \A a, b \in DOMAIN orders :
    (a < b /\ orders[a].symbol = orders[b].symbol /\ orders[a].side = orders[b].side)
      => orders[b].at - orders[a].at >= Cooldown

(* An entry is submitted only for a symbol of which the broker holds no    *)
(* share and works no order.                                               *)
EntryFindsFlat ==
  \A o \in DOMAIN orders :
    orders[o].side = "BUY" => orders[o].flat
=============================================================================
