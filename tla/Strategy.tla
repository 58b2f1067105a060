------------------------------ MODULE Strategy ------------------------------
(***************************************************************************)
(* strategies/vwap_micro_mean_reversion.py with the lifecycle manager that *)
(* feeds it (strategies/lifecycle.py) and the account its signals trade.   *)
(*                                                                         *)
(* Prices are whole numbers around a VWAP that does not move: an entry is  *)
(* below it, a stop one under the entry.  A bar has a time of day; the     *)
(* loop may feed the same bar again.  A signal is tried once before the    *)
(* next bar: it fills, or for whatever reason it does not.  One unit is    *)
(* one position; sizing and limit prices are left out.                     *)
(*                                                                         *)
(* Bounds: MaxDays; MaxBars of a day's bars are looked at, which bounds    *)
(* the day's estimate too; a process starts with at most MaxUnits held.    *)
(***************************************************************************)
EXTENDS Integers

CONSTANTS
  Prices, Vwap,
  MinBars,           \* vwap_min_bars
  MaxTrades,         \* max_trades_per_day
  LossLimit,         \* daily_loss_limit_usd, in halves of risk_dollars
  MaxTimeInTrade,    \* max_time_in_trade_minutes, 0 for none
  FirstEntry, LastEntry,   \* trade_start_time, trade_end_time
  Flat, Close,             \* flat_time, the day's last bar
  MaxBars, MaxDays,
  MaxUnits           \* bound: units in the account when a process starts

VARIABLES
  day, time,
  enabled,      \* by the lifecycle manager
  bars,         \* _bars_today
  trades,       \* _trades_today
  disabled,     \* _disabled_today
  estimate,     \* _daily_pnl_est, in halves of risk_dollars
  position,     \* _in_position, with entry price and time; NoPosition
  entryTime,    \* _pending_entry_bar_time
  signal,       \* returned for the last bar
  price,        \* of it
  held,         \* external: units in the account
  orphaned,     \* history: a position the strategy has forgotten
  late,         \* history: a bar from Flat on found a running strategy in position
  asked         \* history: and it answered with a SELL

vars == <<day, time, enabled, bars, trades, disabled, estimate, position, entryTime,
          signal, price, held, orphaned, late, asked>>
today == <<bars, trades, disabled, estimate>>

NoPosition == [price |-> 0, at |-> 0]
NoSignal == "none"
InPosition == position # NoPosition

Init ==
  /\ day = 0 /\ time = 0 /\ enabled = TRUE
  /\ bars = 0 /\ trades = 0 /\ disabled = FALSE /\ estimate = 0
  /\ position = NoPosition /\ entryTime = 0 /\ signal = NoSignal /\ price = Vwap
  /\ held = 0 /\ orphaned = FALSE /\ late = FALSE /\ asked = FALSE

-----------------------------------------------------------------------------
(* on_bar()                                                                *)

Forgotten == held > 0 /\ InPosition

(* _reset_if_new_day() at the first bar of a day.                          *)
NewDay ==
  /\ day < MaxDays /\ signal = NoSignal
  /\ day' = day + 1 /\ time' = 0 /\ late' = FALSE /\ asked' = FALSE
  /\ bars' = 0 /\ trades' = 0 /\ disabled' = FALSE /\ estimate' = 0
  /\ position' = NoPosition
  /\ orphaned' = (orphaned \/ Forgotten)
  /\ UNCHANGED <<enabled, entryTime, signal, price, held>>

Sell == "SELL"
Buy == "BUY"

TimeIsUp(t) == MaxTimeInTrade > 0 /\ t - position.at >= MaxTimeInTrade
Stopped(p) == p <= position.price - 1
Reverted(p) == p >= Vwap
AbsOf(n) == IF n < 0 THEN -n ELSE n

BrokenIsFlatTime(t) == t > Flat
IsFlatTime(t) == t >= Flat

Exits(t, p) ==
  LET forced == IsFlatTime(t) \/ TimeIsUp(t)
      loss == ~forced /\ Stopped(p)
      gain == ~forced /\ ~loss /\ Reverted(p)
  IN
  /\ signal' = (IF forced \/ loss \/ gain THEN Sell ELSE NoSignal)
  /\ estimate' = (IF loss THEN estimate - 2 ELSE IF gain THEN estimate + 1 ELSE estimate)
  /\ disabled' = (loss /\ AbsOf(estimate') >= LossLimit)
  /\ UNCHANGED <<trades, entryTime>>

MayEnter(t, p) == t \in FirstEntry..LastEntry /\ trades < MaxTrades /\ p < Vwap

Enters(t, p) ==
  /\ IF MayEnter(t, p)
     THEN signal' = Buy /\ trades' = trades + 1 /\ entryTime' = t
     ELSE signal' = NoSignal /\ UNCHANGED <<trades, entryTime>>
  /\ UNCHANGED <<disabled, estimate>>

OnBar(t, p) ==
  /\ signal = NoSignal /\ bars < MaxBars /\ t \in time..Close
  /\ time' = t /\ price' = p
  /\ IF ~enabled \/ disabled
     THEN UNCHANGED <<today, entryTime, signal>>
     ELSE /\ bars' = bars + 1
          /\ IF bars + 1 < MinBars THEN UNCHANGED <<trades, disabled, estimate, entryTime, signal>>
             ELSE IF InPosition THEN Exits(t, p) ELSE Enters(t, p)
  /\ LET due == enabled /\ InPosition /\ t >= Flat IN
     /\ late' = (late \/ due)
     /\ asked' = (asked \/ (due /\ signal' = Sell))
  /\ UNCHANGED <<day, enabled, position, held, orphaned>>

-----------------------------------------------------------------------------
(* What becomes of a signal                                                *)

(* on_order_filled(): any fill turns the strategy's position over.         *)
Fills ==
  /\ signal # NoSignal
  /\ signal = Sell => held > 0
  /\ signal' = NoSignal
  /\ held' = (IF signal = Buy THEN held + 1 ELSE held - 1)
  /\ position' = (IF InPosition THEN NoPosition ELSE [price |-> price, at |-> entryTime])
  /\ UNCHANGED <<day, time, enabled, today, entryTime, price, orphaned, late, asked>>

Fails ==
  /\ signal # NoSignal /\ signal' = NoSignal
  /\ UNCHANGED <<day, time, enabled, today, position, entryTime, price, held, orphaned, late, asked>>

(* stop_strategy() and start_strategy() keep what the strategy knows.      *)
StopStrategy ==
  /\ signal = NoSignal /\ enabled /\ enabled' = FALSE
  /\ UNCHANGED <<day, time, today, position, entryTime, signal, price, held, orphaned, late, asked>>

StartStrategy ==
  /\ ~enabled /\ enabled' = TRUE
  /\ UNCHANGED <<day, time, today, position, entryTime, signal, price, held, orphaned, late, asked>>

(* A new process: nothing about the position is restored to the strategy.  *)
Restart ==
  /\ held <= MaxUnits
  /\ bars' = 0 /\ trades' = 0 /\ disabled' = FALSE /\ estimate' = 0
  /\ position' = NoPosition /\ entryTime' = 0 /\ signal' = NoSignal /\ enabled' = TRUE
  /\ orphaned' = (orphaned \/ Forgotten)
  /\ UNCHANGED <<day, time, price, held, late, asked>>

Next ==
  \/ NewDay \/ Fills \/ Fails \/ StopStrategy \/ StartStrategy \/ Restart
  \/ \E t \in 0..Close, p \in Prices : OnBar(t, p)

Spec == Init /\ [][Next]_vars

-----------------------------------------------------------------------------
(* Properties                                                              *)

(* A position is carried into the next day only for a reason: the strategy *)
(* no longer knows of it (a restart or an earlier night), no bar reached   *)
(* it after flat_time, the day was switched off by the loss estimate, or   *)
(* it asked for the sale and the sale failed.  (on_bar() 200-220,          *)
(* on_order_filled() 309-324, _reset_if_new_day() 127-138.)                *)
OvernightHasReason ==
  [][day' # day /\ held > 0 => orphaned \/ ~late \/ disabled \/ asked]_vars

(* What docs/SYSTEM_SPEC.md:326 says: the force-flat signal is emitted     *)
(* whatever the profit or loss of the day.                                 *)
ForcedFlat == late => asked
=============================================================================
