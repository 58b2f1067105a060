------------------------- MODULE RuntimeLoop_proofs -------------------------
(***************************************************************************)
(* Proofs that the loop's cooldown spaces its orders and that no row of    *)
(* the position store claims more than was bought, for any symbols, sizes, *)
(* cooldown and limits, and whichever helpers the loop finds.              *)
(*                                                                         *)
(* OrdersSpaced is not inductive: nothing in it says what the map of last  *)
(* actions has to do with the orders.  Stamped does: the map is never      *)
(* ahead of the clock and never behind an order of its symbol and side,    *)
(* the orders of submissions that raised included.                         *)
(***************************************************************************)
EXTENDS RuntimeLoop, SequenceTheorems, TLAPS

Sides == {"BUY", "SELL"}

OrderRecord ==
  [symbol : Symbols, side : Sides, size : Int, kind : {"MARKET", "LIMIT"},
   filled : Int, live : BOOLEAN, at : Nat, flat : BOOLEAN]

Typed ==
  /\ now \in Nat
  /\ lastAction \in [Symbols \X Sides -> Int]
  /\ orders \in Seq(OrderRecord)
  /\ held \in [Symbols -> Int]

Stamped ==
  /\ \A k \in Symbols \X Sides : lastAction[k] <= now
  /\ \A o \in DOMAIN orders :
       orders[o].at <= lastAction[<<orders[o].symbol, orders[o].side>>]

IInv == Typed /\ Stamped /\ OrdersSpaced

-----------------------------------------------------------------------------
(* Nothing but the clock, and what is filled, moves.                       *)
LEMMA NoNewOrder ==
  ASSUME IInv, now' \in {now, Tick}, lastAction' = lastAction,
         orders' \in Seq(OrderRecord), DOMAIN orders' = DOMAIN orders,
         \A o \in DOMAIN orders :
           /\ orders'[o].symbol = orders[o].symbol
           /\ orders'[o].side = orders[o].side
           /\ orders'[o].at = orders[o].at,
         held' \in [Symbols -> Int]
  PROVE  IInv'
<1>1. now' \in Nat /\ now' >= now
  BY DEF IInv, Typed, Tick
<1>2. Typed'
  BY <1>1 DEF IInv, Typed
<1>3. \A k \in Symbols \X Sides : lastAction'[k] <= now'
  <2> SUFFICES ASSUME NEW k \in Symbols \X Sides PROVE lastAction[k] <= now'
    OBVIOUS
  <2>1. lastAction[k] \in Int /\ lastAction[k] <= now /\ now \in Nat
    BY DEF IInv, Typed, Stamped
  <2> QED BY <2>1, <1>1
<1>4. \A o \in DOMAIN orders' :
        orders'[o].at <= lastAction'[<<orders'[o].symbol, orders'[o].side>>]
  BY DEF IInv, Stamped
<1>5. OrdersSpaced'
  BY DEF IInv, OrdersSpaced
<1> QED BY <1>2, <1>3, <1>4, <1>5 DEF IInv, Stamped

(* The broker's changes of an order keep its symbol, its side and when it  *)
(* was accepted.                                                           *)
LEMMA FilledRecord ==
  ASSUME IInv, NEW o \in DOMAIN orders, NEW filled \in Int, NEW live \in BOOLEAN,
         orders' = [orders EXCEPT ![o].filled = filled, ![o].live = live]
  PROVE  /\ orders' \in Seq(OrderRecord) /\ DOMAIN orders' = DOMAIN orders
         /\ \A p \in DOMAIN orders :
              /\ orders'[p].symbol = orders[p].symbol
              /\ orders'[p].side = orders[p].side
              /\ orders'[p].at = orders[p].at
<1>1. orders \in Seq(OrderRecord)
  BY DEF IInv, Typed
<1>2. orders[o] \in OrderRecord
  BY <1>1
<1>3. orders' = [orders EXCEPT ![o] = [orders[o] EXCEPT !.filled = filled, !.live = live]]
  OBVIOUS
<1>4. [orders[o] EXCEPT !.filled = filled, !.live = live] \in OrderRecord
  BY <1>2 DEF OrderRecord
<1>5. orders' \in Seq(OrderRecord) /\ DOMAIN orders' = DOMAIN orders
  <2> DEFINE changed == [orders[o] EXCEPT !.filled = filled, !.live = live]
  <2>1. changed \in OrderRecord /\ orders' = [orders EXCEPT ![o] = changed]
    BY <1>3, <1>4
  <2> HIDE DEF changed
  <2>2. Len(orders) \in Nat /\ DOMAIN orders = 1..Len(orders)
    BY <1>1
  <2>3. o \in 1..Len(orders)
    BY <2>2
  <2>4. [orders EXCEPT ![o] = changed] \in Seq(OrderRecord)
    BY <1>1, <2>1, <2>3, ExceptSeq
  <2> QED BY <2>1, <2>4
<1>6. ASSUME NEW p \in DOMAIN orders
      PROVE  /\ orders'[p].symbol = orders[p].symbol
             /\ orders'[p].side = orders[p].side
             /\ orders'[p].at = orders[p].at
  <2>1. orders[p] \in OrderRecord
    BY <1>1
  <2>2. CASE p = o
    BY <2>2, <1>2, <1>3 DEF OrderRecord
  <2>3. CASE p # o
    BY <2>3, <1>3
  <2> QED BY <2>2, <2>3
<1> QED BY <1>5, <1>6

(* What the loop may submit is a whole number of shares.                   *)
LEMMA SizedIsInt ==
  ASSUME Typed, NEW s \in Symbols, NEW side \in Sides, NEW qty \in Sizes
  PROVE  Sized(s, side, qty) \in Int
<1>1. qty \in Int /\ held[s] \in Int
  BY SizesAssumption DEF Typed
<1> QED BY <1>1 DEF Sized

(* A submission the guards let through, whether or not it raises, and      *)
(* whether or not the broker has accepted its order when it does.          *)
LEMMA Submission ==
  ASSUME IInv,
         NEW s \in Symbols, NEW side \in Sides, NEW qty \in Sizes,
         NEW kind \in {"MARKET", "LIMIT"},
         Allowed(s, side, qty), lastAction' = Cooled(s, side),
         Accept(s, side, qty, kind) \/ orders' = orders,
         now' \in {now, Tick}, held' = held
  PROVE  IInv'
<1> DEFINE key == <<s, side>>
<1>1. now \in Nat /\ now' \in Nat /\ now' >= now
  BY DEF IInv, Typed, Tick
<1>2. key \in Symbols \X Sides /\ lastAction \in [Symbols \X Sides -> Int]
  BY DEF IInv, Typed
<1>3. lastAction' \in [Symbols \X Sides -> Int]
  BY <1>1, <1>2 DEF Cooled
<1>4. lastAction'[key] = now
      /\ \A k \in Symbols \X Sides : k # key => lastAction'[k] = lastAction[k]
  BY <1>2 DEF Cooled
<1>5. now - lastAction[key] >= Cooldown
  <2>1. ~(now - lastAction[key] < Cooldown)
    BY DEF Allowed, CoolingDown
  <2>2. lastAction[key] \in Int
    BY <1>2
  <2> QED BY <2>1, <2>2, <1>1, CooldownAssumption
<1>6. \A k \in Symbols \X Sides : lastAction[k] \in Int /\ lastAction[k] <= now
  BY <1>2 DEF IInv, Stamped
<1>7. \A k \in Symbols \X Sides :
        lastAction'[k] \in Int /\ lastAction[k] <= lastAction'[k] /\ lastAction'[k] <= now'
  <2> SUFFICES ASSUME NEW k \in Symbols \X Sides
               PROVE lastAction'[k] \in Int /\ lastAction[k] <= lastAction'[k]
                     /\ lastAction'[k] <= now'
    OBVIOUS
  <2>1. CASE k = key
    BY <2>1, <1>1, <1>4, <1>6
  <2>2. CASE k # key
    BY <2>2, <1>1, <1>4, <1>6
  <2> QED BY <2>1, <2>2
<1>8. ASSUME NEW o \in DOMAIN orders
      PROVE  /\ orders[o] \in OrderRecord
             /\ <<orders[o].symbol, orders[o].side>> \in Symbols \X Sides
             /\ orders[o].at \in Nat
             /\ orders[o].at <= lastAction[<<orders[o].symbol, orders[o].side>>]
             /\ orders[o].at <= lastAction'[<<orders[o].symbol, orders[o].side>>]
  <2>1. orders[o] \in OrderRecord
    BY DEF IInv, Typed
  <2>2. <<orders[o].symbol, orders[o].side>> \in Symbols \X Sides /\ orders[o].at \in Nat
    BY <2>1 DEF OrderRecord
  <2>3. orders[o].at <= lastAction[<<orders[o].symbol, orders[o].side>>]
    BY DEF IInv, Stamped
  <2> DEFINE k == <<orders[o].symbol, orders[o].side>>
  <2>4. lastAction[k] \in Int /\ lastAction'[k] \in Int /\ lastAction[k] <= lastAction'[k]
    BY <2>2, <1>6, <1>7
  <2> QED BY <2>1, <2>2, <2>3, <2>4
<1>9. CASE orders' = orders
  <2>1. Typed'
    BY <1>1, <1>3, <1>9 DEF IInv, Typed
  <2>2. Stamped'
    BY <1>7, <1>8, <1>9 DEF Stamped
  <2>3. OrdersSpaced'
    BY <1>9 DEF IInv, OrdersSpaced
  <2> QED BY <2>1, <2>2, <2>3 DEF IInv
<1>10. CASE Accept(s, side, qty, kind)
  <2> DEFINE sent == Order(s, side, Sized(s, side, qty), kind)
  <2>1. orders' = Append(orders, sent)
    BY <1>10 DEF Accept
  <2>2. /\ sent \in OrderRecord
        /\ sent.symbol = s /\ sent.side = side /\ sent.at = now
    <3>1. Sized(s, side, qty) \in Int
      BY SizedIsInt DEF IInv
    <3> QED BY <3>1, <1>1 DEF Order, OrderRecord
  <2>3. /\ orders \in Seq(OrderRecord) /\ Len(orders) \in Nat
        /\ DOMAIN orders = 1..Len(orders)
    BY SMTT(40) DEF IInv, Typed
  <2> HIDE DEF sent
  <2>4. /\ orders' \in Seq(OrderRecord) /\ DOMAIN orders' = 1..(Len(orders) + 1)
        /\ orders'[Len(orders) + 1] = sent
        /\ \A o \in DOMAIN orders : orders'[o] = orders[o]
    <3>1. /\ Append(orders, sent) \in Seq(OrderRecord)
          /\ Len(Append(orders, sent)) = Len(orders) + 1
          /\ \A i \in 1..Len(orders) : Append(orders, sent)[i] = orders[i]
          /\ Append(orders, sent)[Len(orders) + 1] = sent
      BY <2>2, <2>3, AppendProperties
    <3>2. DOMAIN Append(orders, sent) = 1..Len(Append(orders, sent))
      BY <3>1
    <3> QED BY <2>1, <2>3, <3>1, <3>2
  <2>5. Typed'
    BY <1>1, <1>3, <2>4 DEF IInv, Typed
  <2>6. \A o \in DOMAIN orders' : o \in DOMAIN orders \/ o = Len(orders) + 1
    BY <2>3, <2>4
  <2>7. Stamped'
    <3>1. ASSUME NEW o \in DOMAIN orders'
          PROVE orders'[o].at <= lastAction'[<<orders'[o].symbol, orders'[o].side>>]
      <4>1. CASE o \in DOMAIN orders
        BY <4>1, <1>8, <2>4
      <4>2. CASE o = Len(orders) + 1
        BY <4>2, <2>2, <2>4, <1>1, <1>4
      <4> QED BY <4>1, <4>2, <2>6
    <3> QED BY <3>1, <1>7 DEF Stamped
  <2>8. OrdersSpaced'
    <3> SUFFICES ASSUME NEW a \in DOMAIN orders', NEW b \in DOMAIN orders', a < b,
                        orders'[a].symbol = orders'[b].symbol,
                        orders'[a].side = orders'[b].side
                 PROVE  orders'[b].at - orders'[a].at >= Cooldown
      BY DEF OrdersSpaced
    <3>1. a \in DOMAIN orders
      BY <2>3, <2>4
    <3>2. CASE b \in DOMAIN orders
      BY <3>1, <3>2, <2>4 DEF IInv, OrdersSpaced
    <3>3. CASE b = Len(orders) + 1
      <4>1. orders'[b].at = now /\ <<orders[a].symbol, orders[a].side>> = key
        BY <3>1, <3>3, <2>2, <2>4
      <4>2. orders[a].at \in Nat /\ orders[a].at <= lastAction[key]
        BY <3>1, <4>1, <1>8
      <4>3. lastAction[key] \in Int
        BY <1>2
      <4> QED BY <4>1, <4>2, <4>3, <3>1, <2>4, <1>1, <1>5, CooldownAssumption
    <3> QED BY <3>2, <3>3, <2>6
  <2> QED BY <2>5, <2>7, <2>8 DEF IInv
<1> QED BY <1>9, <1>10

-----------------------------------------------------------------------------
LEMMA InitSpaced == Init => IInv
<1> SUFFICES ASSUME Init PROVE IInv
  OBVIOUS
<1>1. orders \in Seq(OrderRecord) /\ DOMAIN orders = {}
  BY EmptySeq DEF Init
<1>2. lastAction = [k \in Symbols \X Sides |-> -Cooldown]
  BY DEF Init, Never, Sides
<1>3. Typed
  <2>1. -Cooldown \in Int
    BY CooldownAssumption
  <2>2. lastAction \in [Symbols \X Sides -> Int]
    BY <1>2, <2>1
  <2>3. now \in Nat /\ held \in [Symbols -> Int]
    BY DEF Init
  <2> QED BY <1>1, <2>2, <2>3 DEF Typed
<1>4. Stamped
  <2>1. now = 0 /\ -Cooldown <= 0
    BY CooldownAssumption DEF Init
  <2> QED BY <1>1, <1>2, <2>1 DEF Stamped
<1> QED BY <1>1, <1>3, <1>4 DEF IInv, OrdersSpaced

LEMMA StepSpaced == IInv /\ [Next]_vars => IInv'
<1> SUFFICES ASSUME IInv, [Next]_vars PROVE IInv'
  OBVIOUS
<1> USE DEF loop, shares
<1>0. now' = now => now' \in {now, Tick}
  OBVIOUS
<1>1. /\ orders \in Seq(OrderRecord) /\ held \in [Symbols -> Int]
  BY DEF IInv, Typed
<1>2. ASSUME UNCHANGED <<lastAction, orders, held>>, now' \in {now, Tick}
      PROVE  IInv'
  BY <1>1, <1>2, NoNewOrder
<1>3. CASE UNCHANGED vars
  BY <1>2, <1>3 DEF vars
<1>4. CASE MarketClosed \/ BeginCycle \/ EndCycle \/ Fail
  BY <1>2, <1>4 DEF MarketClosed, BeginCycle, EndCycle, Fail, Raised
<1>5. CASE \E s \in Symbols : NextSymbol(s)
  BY <1>2, <1>5 DEF NextSymbol
<1>6. ASSUME NEW s \in Symbols, NEW side \in Sides, NEW qty \in Sizes,
             NEW kind \in {"MARKET", "LIMIT"},
             Submit(s, side, qty, kind) \/ SubmitRaises(s, side, qty, kind)
      PROVE  IInv'
  BY <1>6, Submission DEF Submit, SubmitRaises, Raised
<1>7. ASSUME NEW o \in DOMAIN orders, Fill(o) PROVE IInv'
  <2> DEFINE filled == orders[o].filled + 1
  <2>1. orders[o] \in OrderRecord
    BY <1>1
  <2>2. filled \in Int /\ orders[o].symbol \in Symbols
    BY <2>1 DEF OrderRecord
  <2>3. orders' = [orders EXCEPT ![o].filled = filled,
                                 ![o].live = filled < orders[o].size]
    BY <1>7 DEF Fill
  <2>4. held' \in [Symbols -> Int]
    BY <1>1, <1>7, <2>2 DEF Fill
  <2>5. now' = now /\ lastAction' = lastAction
    BY <1>7 DEF Fill
  <2> HIDE DEF filled
  <2>6. (filled < orders[o].size) \in BOOLEAN
    OBVIOUS
  <2> QED BY <2>2, <2>3, <2>4, <2>5, <2>6, FilledRecord, NoNewOrder
<1>8. ASSUME NEW o \in DOMAIN orders, orders' = [orders EXCEPT ![o].live = FALSE],
             UNCHANGED <<now, lastAction, held>>
      PROVE  IInv'
  <2>1. orders[o] \in OrderRecord
    BY <1>1
  <2>2. orders[o].filled \in Int
    BY <2>1 DEF OrderRecord
  <2>3. [orders[o] EXCEPT !.live = FALSE]
          = [orders[o] EXCEPT !.filled = orders[o].filled, !.live = FALSE]
    BY <2>1 DEF OrderRecord
  <2>4. orders' = [orders EXCEPT ![o].filled = orders[o].filled, ![o].live = FALSE]
    BY <1>8, <2>3
  <2> QED BY <1>1, <1>8, <2>2, <2>4, FilledRecord, NoNewOrder
<1>9. ASSUME NEW o \in DOMAIN orders, GiveUp(o) PROVE IInv'
  BY <1>8, <1>9 DEF GiveUp
<1>10. CASE WaitEnds
  <2>1. now' = now /\ lastAction' = lastAction /\ held' = held
    BY <1>10 DEF WaitEnds
  <2>2. CASE orders' = orders
    BY <2>1, <2>2, <1>2
  <2>3. CASE orders' = [orders EXCEPT ![current].live = FALSE]
    <3>1. CASE current \in DOMAIN orders
      BY <3>1, <2>1, <2>3, <1>8
    <3>2. CASE current \notin DOMAIN orders
      <4>1. orders' = orders
        BY <3>2, <2>3, <1>1
      <4> QED BY <4>1, <2>1, <1>2
    <3> QED BY <3>1, <3>2
  <2> QED BY <1>10, <2>2, <2>3 DEF WaitEnds
<1>11. CASE Poll \/ NothingFilled \/ AccountBuy \/ AccountSell
  BY <1>2, <1>11 DEF Poll, NothingFilled, AccountBuy, AccountSell
<1>12. CASE Next
  BY <1>4, <1>5, <1>6, <1>7, <1>9, <1>10, <1>11, <1>12 DEF Next, Sides
<1> QED BY <1>3, <1>12

(* Orders for one symbol and side are at least a cooldown apart, also when *)
(* the submission raised with its order accepted (app.py 1264-1279).       *)
THEOREM Spacing == Spec => []OrdersSpaced
<1>1. IInv => OrdersSpaced
  BY DEF IInv
<1> QED BY <1>1, InitSpaced, StepSpaced, PTL DEF Spec
-----------------------------------------------------------------------------
(* A row within what was bought is not inductive either.  A poll adds to a *)
(* row what was filled since the poll before, and the accounting replaces  *)
(* it by all the order filled.  Unbooked leaves room for the first as long *)
(* as the loop waits for the order, Polled bounds the second.              *)

Statuses == {"SUBMITTED", "PARTIALLY_FILLED", "FILLED", "ENDED"}

SeenRecord == [status : Statuses, qty : Int]

Rowed ==
  /\ row \in [Symbols -> [qty : Int, order : Int]]
  /\ bought \in [Symbols -> Nat]
  /\ seen \in Seq(SeenRecord) /\ Len(seen) = Len(orders)

Polled ==
  \A o \in DOMAIN orders :
    /\ seen[o].qty <= orders[o].filled
    /\ orders[o].side = "BUY" => orders[o].filled <= bought[orders[o].symbol]

Watched == phase \in {"wait", "account"} => current \in DOMAIN orders

Unbooked ==
  (phase = "wait" /\ orders[current].side = "BUY") =>
    row[orders[current].symbol].qty + (orders[current].filled - seen[current].qty)
      <= bought[orders[current].symbol]

RowInv == Rowed /\ Polled /\ Watched /\ Unbooked /\ RowWithinBought

(* What the two invariants say of one order.                               *)
LEMMA OneOrder ==
  ASSUME IInv, RowInv, NEW o \in DOMAIN orders
  PROVE  /\ orders[o] \in OrderRecord /\ o \in Int
         /\ orders[o].symbol \in Symbols /\ orders[o].side \in Sides
         /\ orders[o].filled \in Int
         /\ seen[o] \in SeenRecord /\ seen[o].qty \in Int
         /\ DOMAIN seen = DOMAIN orders
<1>1. orders \in Seq(OrderRecord) /\ seen \in Seq(SeenRecord) /\ Len(seen) = Len(orders)
  BY DEF IInv, Typed, RowInv, Rowed
<1>2. DOMAIN orders = 1..Len(orders) /\ DOMAIN seen = 1..Len(seen) /\ Len(orders) \in Nat
  BY <1>1
<1>3. orders[o] \in OrderRecord /\ seen[o] \in SeenRecord /\ o \in Int
  BY <1>1, <1>2
<1> QED
  BY <1>1, <1>2, <1>3 DEF OrderRecord, SeenRecord

(* What it says of one row.                                                *)
LEMMA OneRow ==
  ASSUME RowInv, NEW s \in Symbols
  PROVE  /\ row[s] \in [qty : Int, order : Int] /\ row[s].qty \in Int
         /\ bought[s] \in Nat /\ row[s].qty <= bought[s]
<1>1. row[s] \in [qty : Int, order : Int] /\ bought[s] \in Nat
  BY DEF RowInv, Rowed
<1> QED
  BY <1>1 DEF RowInv, RowWithinBought

(* Nothing is filled, nothing is booked, and no other order is waited for. *)
LEMMA NothingMoves ==
  ASSUME IInv, RowInv, DOMAIN orders' = DOMAIN orders, orders' \in Seq(OrderRecord),
         \A o \in DOMAIN orders :
           /\ orders'[o].symbol = orders[o].symbol
           /\ orders'[o].side = orders[o].side
           /\ orders'[o].filled = orders[o].filled,
         UNCHANGED <<seen, row, bought>>,
         \/ phase' = phase /\ current' = current
         \/ phase' \notin {"wait", "account"}
         \/ phase = "wait" /\ phase' = "account" /\ current' = current
  PROVE  RowInv'
<1>1. Len(orders') = Len(orders)
  BY DEF IInv, Typed
<1>2. Rowed' /\ RowWithinBought' /\ Watched'
  BY <1>1 DEF RowInv, Rowed, RowWithinBought, Watched
<1>3. Polled'
  BY DEF RowInv, Polled
<1>4. Unbooked'
  <2> SUFFICES ASSUME phase' = "wait", orders'[current'].side = "BUY"
               PROVE  row[orders'[current'].symbol].qty
                        + (orders'[current'].filled - seen[current'].qty)
                        <= bought[orders'[current'].symbol]
    BY DEF Unbooked
  <2>1. phase = "wait" /\ current' = current /\ current \in DOMAIN orders
    BY DEF RowInv, Watched
  <2> QED
    BY <2>1 DEF RowInv, Unbooked
<1> QED
  BY <1>2, <1>3, <1>4 DEF RowInv

(* The broker accepts an order, which the loop then waits for, unless the  *)
(* submission raised.                                                      *)
LEMMA AcceptRows ==
  ASSUME IInv, RowInv, IInv',
         NEW s \in Symbols, NEW side \in Sides, NEW qty, NEW kind,
         Accept(s, side, qty, kind), UNCHANGED <<row, bought>>,
         \/ phase' = "wait" /\ current' = Len(orders')
         \/ phase' \notin {"wait", "account"}
  PROVE  RowInv'
<1> DEFINE sent == Order(s, side, Sized(s, side, qty), kind)
           first == [status |-> "SUBMITTED", qty |-> 0]
           n == Len(orders) + 1
<1>1. orders' = Append(orders, sent) /\ seen' = Append(seen, first)
  BY DEF Accept
<1>2. sent.symbol = s /\ sent.side = side /\ sent.filled = 0
  BY DEF Order
<1>3. first \in SeenRecord /\ first.qty = 0
  BY DEF SeenRecord, Statuses
<1>4. /\ orders \in Seq(OrderRecord) /\ seen \in Seq(SeenRecord)
      /\ Len(seen) = Len(orders) /\ Len(orders) \in Nat
      /\ orders' \in Seq(OrderRecord)
  BY DEF IInv, Typed, RowInv, Rowed
<1> HIDE DEF sent, first
<1>5. /\ seen' \in Seq(SeenRecord) /\ Len(seen') = n
      /\ \A o \in 1..Len(orders) : seen'[o] = seen[o]
      /\ seen'[n] = first
  BY <1>1, <1>3, <1>4, AppendProperties
<1>6. /\ Len(orders') = n /\ DOMAIN orders' = 1..n /\ DOMAIN orders = 1..Len(orders)
      /\ \A o \in 1..Len(orders) : orders'[o] = orders[o]
      /\ orders'[n] = sent
  BY <1>1, <1>4
<1>7. Rowed'
  BY <1>5, <1>6 DEF RowInv, Rowed
<1>8. Polled'
  <2> SUFFICES ASSUME NEW o \in DOMAIN orders'
               PROVE  /\ seen'[o].qty <= orders'[o].filled
                      /\ orders'[o].side = "BUY"
                           => orders'[o].filled <= bought[orders'[o].symbol]
    BY DEF Polled
  <2>1. CASE o \in DOMAIN orders
    BY <2>1, <1>5, <1>6 DEF RowInv, Polled
  <2>2. CASE o = n
    BY <2>2, <1>2, <1>3, <1>5, <1>6, OneRow
  <2>3. o \in 1..Len(orders) \/ o = n
    BY <1>4, <1>6
  <2> QED
    BY <2>1, <2>2, <2>3, <1>6
<1>9. Watched' /\ Unbooked'
  <2>1. n \in 1..n
    BY <1>4
  <2>2. row[s].qty + (0 - 0) <= bought[s]
    BY OneRow
  <2>3. current' = n => /\ orders'[current'].symbol = s
                        /\ orders'[current'].filled = 0 /\ seen'[current'].qty = 0
    BY <1>2, <1>3, <1>5, <1>6
  <2> QED
    BY <2>1, <2>2, <2>3, <1>6 DEF Watched, Unbooked
<1>10. RowWithinBought'
  BY DEF RowInv, RowWithinBought
<1> QED
  BY <1>7, <1>8, <1>9, <1>10 DEF RowInv

(* A fill makes an order and, of an entry, what was bought grow by one.    *)
LEMMA FillRows ==
  ASSUME IInv, RowInv, NEW o \in DOMAIN orders, Fill(o)
  PROVE  RowInv'
<1> DEFINE s == orders[o].symbol
           filled == orders[o].filled + 1
           live == filled < orders[o].size
<1>1. /\ orders[o] \in OrderRecord /\ s \in Symbols /\ orders[o].side \in Sides
      /\ orders[o].filled \in Int
  BY OneOrder
<1>2. /\ orders' = [orders EXCEPT ![o].filled = filled, ![o].live = live]
      /\ bought' = IF orders[o].side = "BUY" THEN [bought EXCEPT ![s] = @ + 1] ELSE bought
      /\ UNCHANGED <<phase, current, seen, row>>
  BY DEF Fill, loop
<1>3. filled \in Int /\ live \in BOOLEAN
  BY <1>1
<1>4. /\ orders' \in Seq(OrderRecord) /\ DOMAIN orders' = DOMAIN orders
      /\ \A p \in DOMAIN orders : /\ orders'[p].symbol = orders[p].symbol
                                  /\ orders'[p].side = orders[p].side
  BY <1>2, <1>3, FilledRecord
<1>5. \A p \in DOMAIN orders :
        orders'[p].filled = IF p = o THEN orders[o].filled + 1 ELSE orders[p].filled
  <2>1. orders'[o].filled = filled
    BY <1>1, <1>2 DEF OrderRecord
  <2>2. \A p \in DOMAIN orders : p # o => orders'[p] = orders[p]
    BY <1>2
  <2> QED
    BY <2>1, <2>2
<1> HIDE DEF live
<1>6. bought \in [Symbols -> Nat]
  BY DEF RowInv, Rowed
<1>7. /\ bought' \in [Symbols -> Nat]
      /\ \A t \in Symbols : bought[t] \in Nat /\ bought[t] <= bought'[t]
      /\ orders[o].side = "BUY" => bought'[s] = bought[s] + 1
  BY <1>1, <1>2, <1>6
<1>8. Rowed'
  <2>1. Len(orders') = Len(orders)
    BY <1>4 DEF IInv, Typed
  <2> QED
    BY <1>2, <1>7, <2>1 DEF RowInv, Rowed
<1>9. Polled'
  <2> SUFFICES ASSUME NEW p \in DOMAIN orders
               PROVE  /\ seen[p].qty <= orders'[p].filled
                      /\ orders[p].side = "BUY"
                           => orders'[p].filled <= bought'[orders[p].symbol]
    BY <1>2, <1>4 DEF Polled
  <2>1. /\ orders[p].filled \in Int /\ seen[p].qty \in Int /\ orders[p].symbol \in Symbols
        /\ seen[p].qty <= orders[p].filled
        /\ orders[p].side = "BUY" => orders[p].filled <= bought[orders[p].symbol]
    BY OneOrder DEF RowInv, Polled
  <2>2. bought[orders[p].symbol] \in Nat /\ bought'[orders[p].symbol] \in Nat
        /\ bought[orders[p].symbol] <= bought'[orders[p].symbol]
    BY <1>7, <2>1
  <2>3. CASE p = o
    BY <1>5, <1>7, <2>1, <2>2, <2>3
  <2>4. CASE p # o
    BY <1>5, <2>1, <2>2, <2>4
  <2> QED
    BY <2>3, <2>4
<1>10. Watched'
  BY <1>2, <1>4 DEF RowInv, Watched
<1>11. Unbooked'
  <2> SUFFICES ASSUME phase = "wait", orders[current].side = "BUY", current \in DOMAIN orders
               PROVE  row[orders[current].symbol].qty
                        + (orders'[current].filled - seen[current].qty)
                        <= bought'[orders[current].symbol]
    BY <1>2, <1>4 DEF RowInv, Watched, Unbooked
  <2>1. /\ orders[current].filled \in Int /\ seen[current].qty \in Int
        /\ orders[current].symbol \in Symbols
    BY OneOrder
  <2>2. /\ row[orders[current].symbol].qty \in Int
        /\ row[orders[current].symbol].qty + (orders[current].filled - seen[current].qty)
             <= bought[orders[current].symbol]
    BY <2>1, OneRow DEF RowInv, Unbooked
  <2>3. bought[orders[current].symbol] \in Nat /\ bought'[orders[current].symbol] \in Nat
        /\ bought[orders[current].symbol] <= bought'[orders[current].symbol]
    BY <1>7, <2>1
  <2>4. CASE current = o
    BY <1>5, <1>7, <2>1, <2>2, <2>3, <2>4
  <2>5. CASE current # o
    BY <1>5, <2>1, <2>2, <2>3, <2>5
  <2> QED
    BY <2>4, <2>5
<1>12. RowWithinBought'
  <2> SUFFICES ASSUME NEW t \in Symbols PROVE row[t].qty <= bought'[t]
    BY <1>2 DEF RowWithinBought
  <2>1. row[t].qty \in Int /\ bought[t] \in Nat /\ row[t].qty <= bought[t]
    BY OneRow
  <2>2. bought'[t] \in Nat /\ bought[t] <= bought'[t]
    BY <1>7
  <2> QED
    BY <2>1, <2>2
<1> QED
  BY <1>8, <1>9, <1>10, <1>11, <1>12 DEF RowInv

(* A poll books what was filled since the one before.                      *)
LEMMA PollRows ==
  ASSUME IInv, RowInv, Poll
  PROVE  RowInv'
<1> DEFINE o == current
           s == orders[o].symbol
           more == orders[o].filled - seen[o].qty
<1>1. /\ phase = "wait" /\ o \in DOMAIN orders
      /\ UNCHANGED <<phase, current, orders, bought>>
  BY DEF Poll, loop, shares, RowInv, Watched
<1>2. /\ o \in Int /\ s \in Symbols /\ orders[o].side \in Sides
      /\ orders[o].filled \in Int /\ seen[o].qty \in Int /\ seen[o] \in SeenRecord
      /\ o \in DOMAIN seen
  BY <1>1, OneOrder
<1>3. /\ row[s] \in [qty : Int, order : Int] /\ row[s].qty \in Int
      /\ bought[s] \in Nat /\ row[s].qty <= bought[s]
  BY <1>2, OneRow
<1>4. more \in Int /\ more >= 0
  BY <1>1, <1>2 DEF RowInv, Polled
<1>5. seen \in Seq(SeenRecord) /\ row \in [Symbols -> [qty : Int, order : Int]]
  BY DEF RowInv, Rowed
<1>6. StatusOf(o) \in Statuses
  BY DEF StatusOf, Statuses
<1>7. ASSUME NEW rec \in SeenRecord, seen' = [seen EXCEPT ![o] = rec]
      PROVE  /\ seen' \in Seq(SeenRecord) /\ Len(seen') = Len(seen) /\ seen'[o] = rec
             /\ \A p \in DOMAIN seen : p # o => seen'[p] = seen[p]
  <2>1. o \in 1..Len(seen) /\ DOMAIN seen = 1..Len(seen)
    BY <1>2, <1>5
  <2> QED
    BY <1>5, <1>7, <2>1, ExceptSeq
<1>8. Polled /\ Len(seen) = Len(orders) /\ DOMAIN seen = DOMAIN orders
  BY <1>1, OneOrder DEF RowInv, Rowed
<1>9. CASE StatusOf(o) \in {"FILLED", "PARTIALLY_FILLED"}
  <2> DEFINE rec == [status |-> StatusOf(o), qty |-> orders[o].filled]
  <2>1. rec \in SeenRecord /\ rec.qty = orders[o].filled
    BY <1>2, <1>6 DEF SeenRecord
  <2>2. row' = Booked(o, more) /\ seen' = [seen EXCEPT ![o] = rec]
    BY <1>9 DEF Poll
  <2> HIDE DEF rec
  <2>3. /\ seen' \in Seq(SeenRecord) /\ Len(seen') = Len(seen)
        /\ seen'[o].qty = orders[o].filled
        /\ \A p \in DOMAIN seen : p # o => seen'[p] = seen[p]
    BY <2>1, <2>2, <1>7
  <2>4. /\ row' \in [Symbols -> [qty : Int, order : Int]]
        /\ \A t \in Symbols : t # s => row'[t] = row[t]
        /\ orders[o].side = "BUY" => row'[s].qty = row[s].qty + more
        /\ orders[o].side = "SELL" =>
             row'[s].qty \in {0, row[s].qty - more}
    <3>1. CASE orders[o].side = "BUY"
      <4> DEFINE new == [qty |-> row[s].qty + more,
                         order |-> IF row[s].qty = 0 THEN o ELSE row[s].order]
      <4>1. row' = [row EXCEPT ![s] = new]
        BY <2>2, <3>1 DEF Booked
      <4>2. new \in [qty : Int, order : Int] /\ new.qty = row[s].qty + more
        BY <1>2, <1>3, <1>4
      <4> HIDE DEF new
      <4> QED
        BY <3>1, <4>1, <4>2, <1>2, <1>5
    <3>2. CASE orders[o].side = "SELL" /\ (row[s].qty = 0 \/ row[s].qty - more <= 0)
      <4>1. row' = [row EXCEPT ![s] = NoRow]
        BY <2>2, <3>2 DEF Booked
      <4>2. NoRow \in [qty : Int, order : Int] /\ NoRow.qty = 0
        BY DEF NoRow
      <4> QED
        BY <3>2, <4>1, <4>2, <1>2, <1>5
    <3>3. CASE orders[o].side = "SELL" /\ ~(row[s].qty = 0 \/ row[s].qty - more <= 0)
      <4> DEFINE new == [row[s] EXCEPT !.qty = row[s].qty - more]
      <4>1. row' = [row EXCEPT ![s] = new]
        BY <2>2, <3>3 DEF Booked
      <4>2. new \in [qty : Int, order : Int] /\ new.qty = row[s].qty - more
        BY <1>3, <1>4
      <4> HIDE DEF new
      <4> QED
        BY <3>3, <4>1, <4>2, <1>2, <1>5
    <3> QED
      BY <3>1, <3>2, <3>3, <1>2 DEF Sides
  <2>5. orders[o].side = "BUY" => row[s].qty + more <= bought[s]
    BY <1>1 DEF RowInv, Unbooked
  <2>6. row'[s].qty \in Int /\ row'[s].qty <= bought[s]
    BY <2>4, <2>5, <1>2, <1>3, <1>4 DEF Sides
  <2>7. Rowed'
    BY <2>3, <2>4, <1>1, <1>8 DEF RowInv, Rowed
  <2>8. Polled'
    <3> SUFFICES ASSUME NEW p \in DOMAIN orders
                 PROVE  /\ seen'[p].qty <= orders[p].filled
                        /\ orders[p].side = "BUY"
                             => orders[p].filled <= bought[orders[p].symbol]
      BY <1>1 DEF Polled
    <3>1. CASE p = o
      BY <3>1, <2>3, <1>2, <1>8 DEF Polled
    <3>2. CASE p # o
      BY <3>2, <2>3, <1>8 DEF Polled
    <3> QED
      BY <3>1, <3>2
  <2>9. Unbooked' /\ Watched'
    BY <2>3, <2>6, <1>1, <1>2 DEF Unbooked, Watched
  <2>10. RowWithinBought'
    BY <2>4, <2>6, <1>1, OneRow DEF RowWithinBought
  <2> QED
    BY <2>7, <2>8, <2>9, <2>10 DEF RowInv
<1>10. CASE StatusOf(o) \notin {"FILLED", "PARTIALLY_FILLED"}
  <2> DEFINE rec == [seen[o] EXCEPT !.status = StatusOf(o)]
  <2>1. rec \in SeenRecord /\ rec.qty = seen[o].qty
    BY <1>2, <1>6 DEF SeenRecord
  <2>2. row' = row /\ seen' = [seen EXCEPT ![o] = rec]
    BY <1>10 DEF Poll
  <2> HIDE DEF rec
  <2>3. /\ seen' \in Seq(SeenRecord) /\ Len(seen') = Len(seen)
        /\ \A p \in DOMAIN orders : seen'[p].qty = seen[p].qty
    BY <2>1, <2>2, <1>7, <1>8
  <2>4. Rowed' /\ Polled' /\ Watched' /\ RowWithinBought'
    BY <2>2, <2>3, <1>1, <1>8 DEF RowInv, Rowed, Polled, Watched, RowWithinBought
  <2>5. Unbooked'
    BY <2>2, <2>3, <1>1 DEF RowInv, Unbooked
  <2> QED
    BY <2>4, <2>5 DEF RowInv
<1> QED
  BY <1>9, <1>10

(* The accounting leaves for the scan, with the entry's whole quantity in  *)
(* the row or with no row after an exit, or it never comes back.           *)
LEMMA AccountRows ==
  ASSUME IInv, RowInv, AccountBuy \/ AccountSell
  PROVE  RowInv'
<1> DEFINE o == current
           s == orders[o].symbol
<1>1. /\ o \in DOMAIN orders /\ phase' \notin {"wait", "account"}
      /\ UNCHANGED <<orders, seen, bought>>
  BY DEF AccountBuy, AccountSell, shares, RowInv, Watched
<1>2. o \in Int /\ s \in Symbols /\ orders[o].filled \in Int
  BY <1>1, OneOrder
<1>3. Polled' /\ Watched' /\ Unbooked'
  BY <1>1 DEF RowInv, Polled, Watched, Unbooked
<1>4. row \in [Symbols -> [qty : Int, order : Int]] /\ bought[s] \in Nat
  BY <1>2 DEF RowInv, Rowed
<1>5. ASSUME NEW new \in [qty : Int, order : Int], row' = [row EXCEPT ![s] = new],
             new.qty <= bought[s]
      PROVE  RowInv'
  <2>1. /\ row' \in [Symbols -> [qty : Int, order : Int]]
        /\ row'[s] = new /\ \A t \in Symbols : t # s => row'[t] = row[t]
    BY <1>2, <1>4, <1>5
  <2>2. Rowed'
    BY <2>1, <1>1 DEF RowInv, Rowed
  <2>3. RowWithinBought'
    BY <2>1, <1>1, <1>5, OneRow DEF RowWithinBought
  <2> QED
    BY <2>2, <2>3, <1>3 DEF RowInv
<1>6. CASE AccountBuy
  <2>1. row' = [row EXCEPT ![s] = RowOf(o)] /\ orders[o].side = "BUY"
    BY <1>6 DEF AccountBuy
  <2>2. RowOf(o) \in [qty : Int, order : Int] /\ RowOf(o).qty = orders[o].filled
    BY <1>2 DEF RowOf
  <2>3. orders[o].filled <= bought[s]
    BY <1>1, <2>1 DEF RowInv, Polled
  <2> QED
    BY <1>5, <2>1, <2>2, <2>3
<1>7. CASE AccountSell
  <2>1. row' = row \/ row' = [row EXCEPT ![s] = NoRow]
    BY <1>7 DEF AccountSell
  <2>2. CASE row' = row
    BY <2>2, <1>1, <1>3 DEF RowInv, Rowed, RowWithinBought
  <2>3. CASE row' = [row EXCEPT ![s] = NoRow]
    <3>1. NoRow \in [qty : Int, order : Int] /\ NoRow.qty <= bought[s]
      BY <1>4 DEF NoRow
    <3> QED
      BY <2>3, <3>1, <1>5
  <2> QED
    BY <2>1, <2>2, <2>3
<1> QED
  BY <1>6, <1>7

LEMMA InitRows == Init => RowInv
<1> SUFFICES ASSUME Init PROVE RowInv
  OBVIOUS
<1>1. NoRow \in [qty : Int, order : Int] /\ NoRow.qty = 0
  BY DEF NoRow
<1>2. orders = <<>> /\ seen = <<>> /\ seen \in Seq(SeenRecord) /\ DOMAIN orders = {}
  BY EmptySeq DEF Init
<1>3. Rowed /\ RowWithinBought
  BY <1>1, <1>2 DEF Init, Rowed, RowWithinBought
<1>4. Polled /\ Watched /\ Unbooked
  BY <1>2 DEF Init, Polled, Watched, Unbooked
<1> QED
  BY <1>3, <1>4 DEF RowInv

LEMMA StepRows == IInv /\ IInv' /\ RowInv /\ [Next]_vars => RowInv'
<1> SUFFICES ASSUME IInv, IInv', RowInv, [Next]_vars PROVE RowInv'
  OBVIOUS
<1> USE DEF loop, shares
<1>1. orders \in Seq(OrderRecord) /\ orders' \in Seq(OrderRecord)
  BY DEF IInv, Typed
<1>2. ASSUME UNCHANGED <<orders, seen, row, bought>>,
             \/ phase' = phase /\ current' = current
             \/ phase' \notin {"wait", "account"}
             \/ phase = "wait" /\ phase' = "account" /\ current' = current
      PROVE  RowInv'
  BY <1>1, <1>2, NothingMoves
<1>3. CASE UNCHANGED vars
  BY <1>2, <1>3 DEF vars
<1>4. CASE MarketClosed \/ BeginCycle \/ EndCycle \/ Fail \/ NothingFilled
  BY <1>2, <1>4 DEF MarketClosed, BeginCycle, EndCycle, Fail, Raised, NothingFilled
<1>5. CASE \E s \in Symbols : NextSymbol(s)
  BY <1>2, <1>5 DEF NextSymbol
<1>6. ASSUME NEW s \in Symbols, NEW side \in Sides, NEW qty \in Sizes,
             NEW kind \in {"MARKET", "LIMIT"},
             Submit(s, side, qty, kind) \/ SubmitRaises(s, side, qty, kind)
      PROVE  RowInv'
  <2>1. CASE Submit(s, side, qty, kind)
    BY <2>1, AcceptRows DEF Submit
  <2>2. CASE SubmitRaises(s, side, qty, kind)
    <3>1. UNCHANGED <<row, bought>> /\ phase' \notin {"wait", "account"}
      BY <2>2 DEF SubmitRaises, Raised
    <3>2. CASE Accept(s, side, qty, kind)
      BY <3>1, <3>2, AcceptRows
    <3>3. CASE UNCHANGED <<orders, seen>>
      BY <3>1, <3>3, <1>2
    <3> QED
      BY <2>2, <3>2, <3>3 DEF SubmitRaises
  <2> QED
    BY <1>6, <2>1, <2>2
<1>7. ASSUME NEW o \in DOMAIN orders, Fill(o) PROVE RowInv'
  BY <1>7, FillRows
<1>8. ASSUME NEW o \in DOMAIN orders, orders' = [orders EXCEPT ![o].live = FALSE],
             UNCHANGED <<seen, row, bought>>,
             \/ phase' = phase /\ current' = current
             \/ phase' \notin {"wait", "account"}
      PROVE  RowInv'
  <2>1. DOMAIN orders' = DOMAIN orders
    BY <1>8
  <2>2. \A p \in DOMAIN orders : /\ orders'[p].symbol = orders[p].symbol
                                 /\ orders'[p].side = orders[p].side
                                 /\ orders'[p].filled = orders[p].filled
    <3> SUFFICES ASSUME NEW p \in DOMAIN orders
                 PROVE  /\ orders'[p].symbol = orders[p].symbol
                        /\ orders'[p].side = orders[p].side
                        /\ orders'[p].filled = orders[p].filled
      OBVIOUS
    <3>1. orders[p] \in OrderRecord
      BY OneOrder
    <3> QED
      BY <3>1, <1>8 DEF OrderRecord
  <2> QED
    BY <1>1, <1>8, <2>1, <2>2, NothingMoves
<1>9. ASSUME NEW o \in DOMAIN orders, GiveUp(o) PROVE RowInv'
  BY <1>8, <1>9 DEF GiveUp
<1>10. CASE WaitEnds
  <2>1. phase = "wait" /\ current \in DOMAIN orders /\ UNCHANGED <<seen, row, bought>>
    BY <1>10 DEF WaitEnds, RowInv, Watched
  <2>2. CASE NoChase
    <3>1. phase' \notin {"wait", "account"}
      BY <1>10, <2>2 DEF WaitEnds
    <3>2. orders' = [orders EXCEPT ![current].live = FALSE] \/ orders' = orders
      BY <1>10, <2>2 DEF WaitEnds
    <3> QED
      BY <2>1, <3>1, <3>2, <1>2, <1>8
  <2>3. CASE ~NoChase
    <3>1. phase' = "account" /\ UNCHANGED <<current, orders>>
      BY <1>10, <2>3 DEF WaitEnds
    <3> QED
      BY <2>1, <3>1, <1>2
  <2> QED
    BY <2>2, <2>3
<1>11. CASE Poll
  BY <1>11, PollRows
<1>12. CASE AccountBuy \/ AccountSell
  BY <1>12, AccountRows
<1>13. CASE Next
  BY <1>4, <1>5, <1>6, <1>7, <1>9, <1>10, <1>11, <1>12, <1>13 DEF Next, Sides
<1> QED
  BY <1>3, <1>13

(* A row never claims more shares than the entries for its symbol filled,  *)
(* although engine and loop both book an entry and fills arrive between    *)
(* the two (order_execution_engine.py, _create_position; app.py 1604).     *)
THEOREM Honest == Spec => []RowWithinBought
<1>1. Init => IInv /\ RowInv
  BY InitSpaced, InitRows
<1>2. IInv /\ RowInv /\ [Next]_vars => (IInv /\ RowInv)'
  BY StepSpaced, StepRows
<1>3. RowInv => RowWithinBought
  BY DEF RowInv
<1> QED BY <1>1, <1>2, <1>3, PTL DEF Spec
=============================================================================
