--------------------------- MODULE TrailingStops ----------------------------
(***************************************************************************)
(* core/risk_management/trailing_stops.py: TrailingStopManager for one     *)
(* symbol.                                                                 *)
(*                                                                         *)
(* The stop is kept incrementally: an extreme price, a flag that the       *)
(* profit once reached the activation threshold, and a stop price derived  *)
(* from the extreme after activation.  Nothing removes a stop that has     *)
(* triggered; it goes on being checked until the position is removed.      *)
(* Percentages are whole, a stop price is kept a hundredfold.              *)
(*                                                                         *)
(* Bounds: MaxUpdates on the prices seen for one position.                 *)
(***************************************************************************)
EXTENDS Integers, Sequences, FiniteSetsExt

CONSTANTS Prices, Trail, Activation, MaxUpdates

VARIABLES
  stop,    \* TrailingStopState of the symbol, or NoStop
  check,   \* the last StopCheck
  seen     \* history: entry price and the prices since

vars == <<stop, check, seen>>

NoStop == [side |-> "none"]

Init == stop = NoStop /\ check = "NOT_ACTIVE" /\ seen = <<>>

(* Adding to a position starts its stop again.                             *)
AddPosition(side, price) ==
  /\ stop' = [side |-> side, entry |-> price, active |-> FALSE,
              extreme |-> price, stopPrice |-> 0]
  /\ seen' = <<price>> /\ check' = "NOT_ACTIVE"

RemovePosition ==
  /\ stop # NoStop
  /\ stop' = NoStop /\ seen' = <<>> /\ check' = "NOT_ACTIVE"

-----------------------------------------------------------------------------
Better(side, price, extreme) == IF side = "LONG" THEN price > extreme ELSE price < extreme

BrokenExtreme(price) == stop.extreme
Extreme(price) == IF Better(stop.side, price, stop.extreme) THEN price ELSE stop.extreme

Gain(side, entry, price) == IF side = "LONG" THEN price - entry ELSE entry - price

Activates(price) == 100 * Gain(stop.side, stop.entry, price) >= Activation * stop.entry

StopPrice(side, extreme) ==
  extreme * (IF side = "LONG" THEN 100 - Trail ELSE 100 + Trail)

Crossed(side, price, stopPrice) ==
  IF side = "LONG" THEN 100 * price <= stopPrice ELSE 100 * price >= stopPrice

UpdatePrice(price) ==
  /\ stop # NoStop /\ Len(seen) <= MaxUpdates
  /\ LET active == stop.active \/ Activates(price)
         extreme == Extreme(price)
         stopPrice == IF active THEN StopPrice(stop.side, extreme) ELSE stop.stopPrice
     IN /\ stop' = [stop EXCEPT !.active = active, !.extreme = extreme, !.stopPrice = stopPrice]
        /\ check' = IF active /\ Crossed(stop.side, price, stopPrice)
                    THEN "TRIGGERED" ELSE "NOT_TRIGGERED"
  /\ seen' = Append(seen, price)

Next ==
  \/ \E side \in {"LONG", "SHORT"}, price \in Prices : AddPosition(side, price)
  \/ RemovePosition
  \/ \E price \in Prices : UpdatePrice(price)

Spec == Init /\ [][Next]_vars
-----------------------------------------------------------------------------
(* The incremental stop is the stop of the whole price history, for both   *)
(* sides: it triggers exactly when some price since the entry reached the  *)
(* activation profit and the last one is the trailing percentage or more   *)
(* worse than the best of them.                                            *)
StopFollowsHistory ==
  Len(seen) > 1 =>
    LET side == stop.side
        entry == seen[1]
        last == seen[Len(seen)]
        best == CHOOSE p \in {seen[i] : i \in DOMAIN seen} :
                  \A i \in DOMAIN seen : ~Better(side, seen[i], p)
        activated == \E i \in 2..Len(seen) :
                       100 * Gain(side, entry, seen[i]) >= Activation * entry
    IN check = "TRIGGERED" <=> activated /\ Crossed(side, last, StopPrice(side, best))
=============================================================================
