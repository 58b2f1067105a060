----------------------------- MODULE Performance -----------------------------
(***************************************************************************)
(* The three books that are kept of closed trades:                         *)
(* core/analytics/performance.py (PerformanceTracker, which also follows   *)
(* the equity), core/analytics/attribution.py (TradeAttributionAnalyzer)   *)
(* and core/strategies/performance_tracker.py, which retires a strategy    *)
(* that does badly.                                                        *)
(*                                                                         *)
(* One thread reports every closed trade to the three of them, and the     *)
(* equity at any time.  A trade is its strategy, the part of the session   *)
(* it was entered in, its result and its exit time; money is whole.  The   *)
(* groupings by symbol and by signal are the one by strategy with another  *)
(* key, and ratios that only divide two reported numbers are left out.     *)
(***************************************************************************)
EXTENDS Integers, Sequences, FiniteSets, SequencesExt, FiniteSetsExt

CONSTANTS Strategies,
          Gains, Losses, \* what a trade can win or lose
          Equities,      \* equities that are reported, the first one included
          StartingEquity,
          Lookback,      \* points the equity curve keeps
          MinTrades, MaxConsecutiveLosses, MinWinRate, MaxDrawdown,
          MinSharpe,
          EndOfTime,
          MaxReports     \* equities reported, a trade counting for two

VARIABLES
  now,
  trades,                    \* both analytics classes' trades
  curve, peak, worst,        \* equity_curve, peak_equity, max_drawdown
  drawdownStart, longest,    \* current_drawdown_start, max_drawdown_duration
  snaps,                     \* StrategyPerformanceTracker._snaps
  benched,                   \* history: trades closed while their strategy was off
  equities                   \* history: every equity reported and when

vars == <<now, trades, curve, peak, worst, drawdownStart, longest, snaps, benched, equities>>

Buckets == {"session", "off hours"}
Reports == 2 * Len(trades) + Len(equities)
NoStart == -1
Results == Gains \cup {-x : x \in Losses}

Snapshot == [status |-> "ACTIVE", wins |-> 0, losses |-> 0, streak |-> 0,
             equity |-> 0, peak |-> 0, pnls |-> <<>>]

Init ==
  /\ now = 0 /\ trades = <<>> /\ curve = <<>>
  /\ peak = StartingEquity /\ worst = 0 /\ drawdownStart = NoStart /\ longest = 0
  /\ snaps = [s \in Strategies |-> Snapshot]
  /\ benched = {} /\ equities = <<>>

-----------------------------------------------------------------------------
Sum(numbers) == FoldLeft(+, 0, numbers)

(* Drawdown in thousandths of the peak.                                    *)
Drop(top, e) == (1000 * (top - e)) \div top

(* The sample variance times n(n-1), without a division.                   *)
Spread(n, results) == n * Sum([i \in DOMAIN results |-> results[i] * results[i]]) - Sum(results) * Sum(results)

(* sharpe_ratio() < min_sharpe_ratio: the ratio is 0 when the results do   *)
(* not vary, however good they are.                                        *)
SharpeTooLow(results) ==
  LET n == Len(results) total == Sum(results) spread == Spread(n, results) IN
  IF n < 2 \/ spread <= 0 THEN 0 < MinSharpe
  ELSE total < 0 \/ total * total * (n - 1) < MinSharpe * MinSharpe * spread

(* The four rules of _evaluate_and_maybe_disable().                        *)
Retires(snap) ==
  LET n == Len(snap.pnls) IN
  /\ n >= MinTrades
  /\ \/ snap.streak >= MaxConsecutiveLosses
     \/ 100 * snap.wins < MinWinRate * n
     \/ snap.peak > 0 /\ 100 * (snap.peak - snap.equity) > MaxDrawdown * snap.peak
     \/ SharpeTooLow(snap.pnls)

(* One more result of an active strategy: a result of zero neither counts  *)
(* as a win or a loss nor ends a losing streak.                            *)
Recorded(snap, pnl) ==
  LET equity == snap.equity + pnl
      counted == [snap EXCEPT
        !.wins = @ + (IF pnl > 0 THEN 1 ELSE 0),
        !.losses = @ + (IF pnl < 0 THEN 1 ELSE 0),
        !.streak = IF pnl > 0 THEN 0 ELSE IF pnl < 0 THEN @ + 1 ELSE @,
        !.equity = equity, !.peak = Max({@, equity}), !.pnls = Append(@, pnl)]
  IN  IF Retires(counted) THEN [counted EXCEPT !.status = "DISABLED_PERFORMANCE"] ELSE counted

BrokenCounts(s) == TRUE
Counts(s) == snaps[s].status = "ACTIVE"

(* add_trade() of both analytics classes, record_trade() of the tracker.   *)
CloseTrade(s, bucket, pnl) ==
  /\ Reports + 2 <= MaxReports
  /\ trades' = Append(trades, [strategy |-> s, bucket |-> bucket, pnl |-> pnl, exit |-> now])
  /\ snaps' = IF Counts(s) THEN [snaps EXCEPT ![s] = Recorded(@, pnl)] ELSE snaps
  /\ benched' = IF snaps[s].status = "ACTIVE" THEN benched ELSE benched \cup {Len(trades')}
  /\ UNCHANGED <<now, curve, peak, worst, drawdownStart, longest, equities>>

DisableStrategy(s) ==
  /\ snaps' = [snaps EXCEPT ![s].status = "DISABLED_MANUAL"]
  /\ UNCHANGED <<now, trades, curve, peak, worst, drawdownStart, longest, benched, equities>>

EnableStrategy(s) ==
  /\ snaps' = [snaps EXCEPT ![s].status = "ACTIVE", ![s].streak = 0]
  /\ UNCHANGED <<now, trades, curve, peak, worst, drawdownStart, longest, benched, equities>>

-----------------------------------------------------------------------------
(* update_equity(): a new peak ends a drawdown; the peak itself, reached   *)
(* again, starts one or goes on with it.                                   *)
BrokenNewPeak(e) == e >= peak
NewPeak(e) == e > peak
DrawdownSince(e) ==
  IF NewPeak(e) THEN NoStart ELSE IF drawdownStart = NoStart THEN now ELSE drawdownStart

UpdateEquity(e) ==
  /\ Reports < MaxReports
  /\ curve' = LET all == Append(curve, e) IN SubSeq(all, Max({1, Len(all) - Lookback + 1}), Len(all))
  /\ peak' = IF NewPeak(e) THEN e ELSE peak
  /\ worst' = IF NewPeak(e) THEN worst ELSE Max({worst, Drop(peak, e)})
  /\ drawdownStart' = DrawdownSince(e)
  /\ longest' = IF NewPeak(e) THEN longest ELSE Max({longest, now - DrawdownSince(e)})
  /\ equities' = Append(equities, [at |-> now, equity |-> e])
  /\ UNCHANGED <<now, trades, snaps, benched>>

Tick ==
  /\ now < EndOfTime
  /\ now' = now + 1
  /\ UNCHANGED <<trades, curve, peak, worst, drawdownStart, longest, snaps, benched, equities>>

Next ==
  \/ \E s \in Strategies :
       \/ \E b \in Buckets, p \in Results : CloseTrade(s, b, p)
       \/ DisableStrategy(s)
       \/ EnableStrategy(s)
  \/ \E e \in Equities : UpdateEquity(e)
  \/ Tick

Spec == Init /\ [][Next]_vars

-----------------------------------------------------------------------------
(* What the books report.                                                  *)

SumOver(D, numbers) == FoldFunctionOnSet(+, 0, numbers, D)
Pnl(S) == SumOver(S, [i \in S |-> trades[i].pnl])
Winners(S) == {i \in S : trades[i].pnl > 0}
Losers(S) == {i \in S : trades[i].pnl <= 0}

(* _calculate_attribution() of a group of trades.                          *)
Attribution(S) ==
  [count |-> Cardinality(S), wins |-> Cardinality(Winners(S)),
   losses |-> Cardinality(Losers(S)), pnl |-> Pnl(S)]

ByStrategy(S) == [s \in Strategies |-> Attribution({i \in S : trades[i].strategy = s})]

(* The buckets of the day, one here, leave out what was entered off hours. *)
ByTimeOfDay(S) ==
  [b \in Buckets \ {"off hours"} |-> Attribution({i \in S : trades[i].bucket = b})]

InPeriod(from, to) == {i \in DOMAIN trades : from <= trades[i].exit /\ trades[i].exit <= to}

(* get_metrics(): gross_loss is the absolute value of the losers' sum.     *)
AbsOf(x) == IF x < 0 THEN -x ELSE x
Metrics(from, to) ==
  LET S == InPeriod(from, to) IN
  [trades |-> Cardinality(S), wins |-> Cardinality(Winners(S)),
   losses |-> Cardinality(Losers(S)), net |-> Pnl(Winners(S)) - AbsOf(Pnl(Losers(S)))]

-----------------------------------------------------------------------------
(* For every period the tracker's report is the sum of the analyzer's      *)
(* groups, the hours of the day leave out exactly what was entered outside *)
(* the session, and a strategy's own account differs from its attribution  *)
(* by exactly the trades that closed while it was disabled.                *)
PeriodAddsUp(from, to) ==
  LET S == InPeriod(from, to) groups == ByStrategy(S) hours == ByTimeOfDay(S)
      report == Metrics(from, to)
  IN  /\ report.net = SumOver(Strategies, [s \in Strategies |-> groups[s].pnl])
      /\ report.wins = SumOver(Strategies, [s \in Strategies |-> groups[s].wins])
      /\ report.net - SumOver(DOMAIN hours, [b \in DOMAIN hours |-> hours[b].pnl])
           = Pnl({i \in S : trades[i].bucket = "off hours"})

AccountIsAttribution(s) ==
  LET group == ByStrategy(DOMAIN trades)[s]
      off == {i \in benched : trades[i].strategy = s}
      zeros == {i \in DOMAIN trades \ benched : trades[i].strategy = s /\ trades[i].pnl = 0}
  IN  /\ snaps[s].equity = group.pnl - Pnl(off)
      /\ snaps[s].wins = group.wins - Cardinality(Winners(off))
      /\ snaps[s].losses + Cardinality(zeros) = group.losses - Cardinality(Losers(off))

BooksAgree ==
  /\ \A to \in 0 .. EndOfTime : \A from \in 0 .. to : PeriodAddsUp(from, to)
  /\ \A s \in Strategies : AccountIsAttribution(s)

(* The drawdown and its duration, which update_equity() keeps point by     *)
(* point with a curve that forgets, are those of the whole history: the    *)
(* deepest fall below an earlier equity, and the longest time between two  *)
(* reports without a new high since before the first.                      *)
HighBefore(j) == Max({StartingEquity} \cup {equities[i].equity : i \in 1 .. j - 1})
UnderWater(i, j) == i <= j /\ \A k \in i .. j : equities[k].equity <= HighBefore(k)

DrawdownIsExact ==
  /\ worst = Max({0} \cup {Drop(HighBefore(j + 1), equities[j].equity) : j \in DOMAIN equities})
  /\ longest = Max({0} \cup {equities[p[2]].at - equities[p[1]].at :
                  p \in {q \in (DOMAIN equities) \X (DOMAIN equities) : UnderWater(q[1], q[2])}})

(* Three reports of the same trades agree, and so do the drawdown kept     *)
(* point by point and that of the whole curve.                             *)
BooksAreExact == BooksAgree /\ DrawdownIsExact
=============================================================================
