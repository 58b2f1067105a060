----------------------------- MODULE RiskToolkit -----------------------------
(***************************************************************************)
(* core/risk_management/: RiskManager, with the position sizer, the        *)
(* correlation matrix, the drawdown monitor and the heat map it owns.      *)
(*                                                                         *)
(* One caller asks for one position at a time, and reports it with the     *)
(* symbol's whole exposure once it is bought.  Money is in whole dollars,  *)
(* a share costs one; limits are percentages of the equity.  All symbols   *)
(* are of one sector.  What the returns say is the set of symbol pairs     *)
(* whose correlation is high, and changes at any time; the matrix forgets  *)
(* a cached pair with every new return, so the set is never stale.         *)
(*                                                                         *)
(* A finding of the heat map has no attribute "symbols", which the manager *)
(* filters by: with any concentration the check raises, it does not reject. *)
(***************************************************************************)
EXTENDS Integers, FiniteSets, FiniteSetsExt, Functions

CONSTANTS Symbols,
          Equities,       \* equities the account takes
          Bases,          \* shares the sizing method comes to
          MaxPosition, SingleLimit, SectorLimit, CorrelatedLimit,
          WarnLimit, HaltLimit

VARIABLES
  equity, peak,   \* RiskManager.account_equity, the monitor's peak_equity
  status,         \* DrawdownMonitor.current_status
  positions,      \* current_positions: exposure per symbol, 0 for none
  correlated,     \* pairs whose correlation is high
  approval,       \* the check's answer: a symbol and an exposure, or none
  steady,         \* history: since the account was last flat the equity never
                  \* fell and the correlations stayed
  overridden      \* history: the status was set by hand after the last equity

vars == <<equity, peak, status, positions, correlated, approval, steady, overridden>>

None == [symbol |-> "none", exposure |-> 0]
Pairs == {{s, t} : s, t \in Symbols} \ {{s} : s \in Symbols}
Start == Max(Equities)
Flat == [s \in Symbols |-> 0]
Held == {s \in Symbols : positions[s] > 0}

Init ==
  /\ equity = Start /\ peak = Start /\ status = "NORMAL"
  /\ positions = Flat /\ correlated = {} /\ approval = None
  /\ steady = TRUE /\ overridden = FALSE

-----------------------------------------------------------------------------
Below(limit, e, top) == top > 0 /\ 100 * (top - e) >= limit * top

StatusOf(e, top) ==
  IF Below(HaltLimit, e, top) THEN "HALT"
  ELSE IF Below(WarnLimit, e, top) THEN "WARNING" ELSE "NORMAL"

(* DynamicPositionSizer.calculate_size(): at least one share, at most the  *)
(* notional limit.                                                         *)
Sized(base) == Min({Max({base, 1}), (equity * MaxPosition) \div 100})

Total(exposures, S) == FoldFunctionOnSet(+, 0, exposures, S)

(* The cluster of highly correlated symbols a symbol joins.                *)
Cluster(s) ==
  LET Nodes == Held \cup {s}
      Closed(S) == \A t \in S, u \in Nodes : {t, u} \in correlated => u \in S
  IN {t \in Nodes : \A S \in SUBSET Nodes : s \in S /\ Closed(S) => t \in S}

CorrelationAllows(s, exposure) ==
  Cardinality(Cluster(s)) >= 2 =>
    100 * (Total(positions, Cluster(s)) + exposure) <= equity * CorrelatedLimit

BrokenConcentrated(exposures) == \E s \in Symbols : 100 * exposures[s] >= equity * SingleLimit
Concentrated(exposures) ==
  \/ \E s \in Symbols : 100 * exposures[s] >= equity * SingleLimit
  \/ 100 * Total(exposures, Symbols) >= equity * SectorLimit

CheckNewPosition(s, base) ==
  LET exposure == Sized(base)
      after == [positions EXCEPT ![s] = @ + exposure]
  IN /\ approval = None
     /\ status # "HALT" /\ CorrelationAllows(s, exposure)
     /\ ~Concentrated(after) /\ exposure >= 1
     /\ approval' = [symbol |-> s, exposure |-> exposure]
     /\ UNCHANGED <<equity, peak, status, positions, correlated, steady, overridden>>

AddPosition ==
  /\ approval # None
  /\ positions' = [positions EXCEPT ![approval.symbol] = @ + approval.exposure]
  /\ approval' = None
  /\ UNCHANGED <<equity, peak, status, correlated, steady, overridden>>

(* The order of an approved position was not filled.                       *)
Drop ==
  /\ approval # None /\ approval' = None
  /\ UNCHANGED <<equity, peak, status, positions, correlated, steady, overridden>>

RemovePosition(s) ==
  /\ s \in Held /\ approval = None
  /\ positions' = [positions EXCEPT ![s] = 0]
  /\ steady' = (steady \/ positions' = Flat)
  /\ UNCHANGED <<equity, peak, status, correlated, approval, overridden>>

UpdateReturns(pairs) ==
  /\ approval = None /\ correlated' = pairs
  /\ steady' = (steady /\ (positions = Flat \/ pairs = correlated))
  /\ UNCHANGED <<equity, peak, status, positions, approval, overridden>>

-----------------------------------------------------------------------------
(* The monitor sets its status by the drawdown alone, also over a halt     *)
(* that was forced by hand.                                                *)
Monitored(e) == peak' = Max({peak, e}) /\ status' = StatusOf(e, peak')

DayStarted(e) == peak' = e /\ status' = "NORMAL"

(* The equity reaches the sizer, the heat map and the monitor.             *)
UpdateEquity(e) ==
  /\ approval = None
  /\ equity' = e /\ Monitored(e)
  /\ steady' = (steady /\ (positions = Flat \/ e >= equity)) /\ overridden' = FALSE
  /\ UNCHANGED <<positions, correlated, approval>>

ResetDaily(e) ==
  /\ approval = None
  /\ equity' = e /\ DayStarted(e)
  /\ steady' = (steady /\ (positions = Flat \/ e >= equity)) /\ overridden' = FALSE
  /\ UNCHANGED <<positions, correlated, approval>>

ForceHalt ==
  /\ approval = None /\ status' = "HALT" /\ overridden' = TRUE
  /\ UNCHANGED <<equity, peak, positions, correlated, approval, steady>>

ResetHalt ==
  /\ approval = None
  /\ status' = IF Below(WarnLimit, equity, peak) THEN "WARNING" ELSE "NORMAL"
  /\ overridden' = TRUE
  /\ UNCHANGED <<equity, peak, positions, correlated, approval, steady>>

Next ==
  \/ \E s \in Symbols : RemovePosition(s) \/ \E base \in Bases : CheckNewPosition(s, base)
  \/ AddPosition \/ Drop \/ ForceHalt \/ ResetHalt
  \/ \E pairs \in SUBSET Pairs : UpdateReturns(pairs)
  \/ \E e \in Equities : UpdateEquity(e) \/ ResetDaily(e)

Spec == Init /\ [][Next]_vars
-----------------------------------------------------------------------------
(* Checks of single positions add up: while the equity has not fallen and  *)
(* the correlations have not changed under open positions, no symbol, no   *)
(* correlated cluster and not the sector grows past its limit, whatever    *)
(* was bought and sold in between; and nothing is approved in a drawdown   *)
(* past the halt limit, unless by a reset by hand.                         *)
PortfolioWithinLimits ==
  /\ steady => /\ \A s \in Symbols : 100 * positions[s] < equity * SingleLimit
               /\ 100 * Total(positions, Symbols) < equity * SectorLimit
               /\ \A s \in Held : Cardinality(Cluster(s)) >= 2 =>
                    100 * Total(positions, Cluster(s)) <= equity * CorrelatedLimit
  /\ approval # None /\ ~overridden => ~Below(HaltLimit, equity, peak)
=============================================================================
