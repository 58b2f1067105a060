---------------------------- MODULE Protections -----------------------------
(***************************************************************************)
(* core/risk/protections/: the ProtectionManager with the five protections *)
(* of create_default_protections(), asked before every entry.              *)
(*                                                                         *)
(* The callers of the manager: a loop that checks a symbol, with the trades *)
(* closed so far, and an operator who disables, enables and resets.  A     *)
(* trade is an object of the class the tests pass, which has attributes    *)
(* and get(); profits are whole numbers.  The trades reach the manager in  *)
(* the order they closed in, each stamped with a moment of its own.        *)
(* Whether prices are volatile is arbitrary at every check.                *)
(*                                                                         *)
(* Bounds: EndOfTime on the clock, MaxTrades on the trades.                *)
(***************************************************************************)
EXTENDS Integers, Sequences, FiniteSets, Folds, SequencesExt

CONSTANTS Symbols, Gains, Losses, MaxTrades, EndOfTime,
          MaxStoplosses, StopLookback, StopCooldown,   \* StoplossGuard
          DrawLookback, DrawCooldown,                  \* MaxDrawdownProtection
          MajorLoss, LossCooldown,                     \* CooldownPeriod
          TradingWindow                                \* TimeWindowProtection

VARIABLES
  now,
  trades,     \* completed trades: symbol, profit, close time
  blocked,    \* StoplossGuard._protected_symbols, 0 for none
  drawUntil,  \* MaxDrawdownProtection._protected_until, 0 for None
  coolUntil,  \* CooldownPeriod._protected_until, 0 for None
  lastCheck,  \* CooldownPeriod._last_check_time
  enabled,    \* protections that are enabled
  answer,     \* the last check: was the entry allowed
  resetAt     \* history: when the protections were last reset

vars == <<now, trades, blocked, drawUntil, coolUntil, lastCheck, enabled, answer, resetAt>>

Profits == Gains \cup {-l : l \in Losses}
Names == {"StoplossGuard", "MaxDrawdown", "CooldownPeriod", "TimeWindow", "VolatilityHalt"}

Init ==
  /\ now = 1 /\ trades = <<>>
  /\ blocked = [s \in Symbols |-> 0] /\ drawUntil = 0 /\ coolUntil = 0
  /\ lastCheck = 1 /\ enabled = Names
  /\ answer = "none" /\ resetAt = 1

Tick ==
  /\ now < EndOfTime /\ now' = now + 1 /\ answer' = "none"
  /\ UNCHANGED <<trades, blocked, drawUntil, coolUntil, lastCheck, enabled, resetAt>>

Close(s, p) ==
  /\ now < EndOfTime /\ Len(trades) < MaxTrades
  /\ now' = now + 1
  /\ trades' = Append(trades, [symbol |-> s, profit |-> p, close |-> now'])
  /\ answer' = "none"
  /\ UNCHANGED <<blocked, drawUntil, coolUntil, lastCheck, enabled, resetAt>>

Toggle(name) ==
  /\ enabled' = IF name \in enabled THEN enabled \ {name} ELSE enabled \cup {name}
  /\ answer' = "none"
  /\ UNCHANGED <<now, trades, blocked, drawUntil, coolUntil, lastCheck, resetAt>>

(* reset_all(): StoplossGuard forgets its blocks and CooldownPeriod the    *)
(* trades it has not looked at.  The until of the global protections stays: *)
(* the reset() they call is the empty abstract one.                        *)
Reset ==
  /\ blocked' = [s \in Symbols |-> 0] /\ lastCheck' = now
  /\ answer' = "none" /\ resetAt' = now
  /\ UNCHANGED <<now, trades, drawUntil, coolUntil, enabled>>
-----------------------------------------------------------------------------
Held(until) == until # 0 /\ now < until

(* The until of a protection after a check: kept while it holds, set anew  *)
(* by a trigger, and gone with neither.                                    *)
Renewed(on, until, triggers, cooldown) ==
  IF ~on \/ Held(until) THEN until ELSE IF triggers THEN now + cooldown ELSE 0

(* The losses in a row that end the symbol's trades within the lookback.   *)
Streak(s) ==
  LET Mine == {i \in DOMAIN trades : trades[i].symbol = s}
      Counts(i) == trades[i].profit < 0 /\ trades[i].close >= now - StopLookback
  IN Cardinality({i \in Mine : \A j \in Mine : j >= i => Counts(j)})

StoplossTriggers(s) == Streak(s) >= MaxStoplosses

SymbolRenewed(s) ==
  Renewed("StoplossGuard" \in enabled, blocked[s], StoplossTriggers(s), StopCooldown)

(* More than 15% under the peak of the profits summed over the lookback.   *)
DrawdownTriggers ==
  LET Recent == SelectSeq(trades, LAMBDA t : t.close >= now - DrawLookback)
      Sum(k) == FoldLeft(LAMBDA sum, t : sum + t.profit, 0, SubSeq(Recent, 1, k))
      Final == Sum(Len(Recent))
  IN \E k \in DOMAIN Recent : Sum(k) > 0 /\ 20 * (Sum(k) - Final) > 3 * Sum(k)

BrokenUnseen == {i \in DOMAIN trades : trades[i].close >= now}
Unseen == {i \in DOMAIN trades : trades[i].close > lastCheck}
CooldownTriggers == \E i \in Unseen : trades[i].profit <= -MajorLoss

OutsideWindow == now \notin TradingWindow

(* ProtectionManager.check(): in order, up to the first that protects; a   *)
(* protection that was not reached looks at its trades at a later check.   *)
Check(s, volatile) ==
  LET On(name) == name \in enabled
      Stop == On("StoplossGuard") /\ (Held(blocked[s]) \/ StoplossTriggers(s))
      Draw == On("MaxDrawdown") /\ (Held(drawUntil) \/ DrawdownTriggers)
      Cool == On("CooldownPeriod") /\ (Held(coolUntil) \/ CooldownTriggers)
      Outside == On("TimeWindow") /\ OutsideWindow
      Jumpy == On("VolatilityHalt") /\ volatile
  IN
  /\ answer = "none"
  /\ blocked' = [blocked EXCEPT ![s] = SymbolRenewed(s)]
  /\ drawUntil' = Renewed(On("MaxDrawdown") /\ ~Stop, drawUntil, DrawdownTriggers, DrawCooldown)
  /\ LET reached == On("CooldownPeriod") /\ ~Stop /\ ~Draw
     IN /\ coolUntil' = Renewed(reached, coolUntil, CooldownTriggers, LossCooldown)
        /\ lastCheck' = IF reached /\ ~Held(coolUntil) /\ trades # <<>> THEN now ELSE lastCheck
  /\ answer' = IF Stop \/ Draw \/ Cool \/ Outside \/ Jumpy THEN "protected" ELSE "allowed"
  /\ UNCHANGED <<now, trades, enabled, resetAt>>

Next ==
  \/ Tick \/ Reset
  \/ \E s \in Symbols, p \in Profits : Close(s, p)
  \/ \E name \in {"CooldownPeriod"} : Toggle(name)
  \/ \E s \in Symbols, volatile \in BOOLEAN : Check(s, volatile)

Spec == Init /\ [][Next]_vars
-----------------------------------------------------------------------------
(* A major loss closes every symbol for the cooldown, although the         *)
(* cooldown is not even asked while another protection holds, and may have *)
(* been disabled when the loss came: no check with it enabled allows an    *)
(* entry less than LossCooldown after a major loss, save by a reset.       *)
MajorLossIsCooled ==
  answer = "allowed" /\ "CooldownPeriod" \in enabled =>
    \A i \in DOMAIN trades :
      trades[i].profit <= -MajorLoss /\ trades[i].close > resetAt =>
        now >= trades[i].close + LossCooldown
=============================================================================
