--------------------------- MODULE PortfolioWatch ----------------------------
(***************************************************************************)
(* core/risk_management/heat_map.py (PortfolioHeatMapper, which keeps the  *)
(* exposure of every position and sector) and anti_pyramiding.py           *)
(* (AntiPyramidingGuardian, asked before a position is added to).          *)
(*                                                                         *)
(* One caller holds positions of whole shares, asks the guardian before    *)
(* every entry and reports entries, prices and exits to both.  Equities    *)
(* divide a hundred times every value, as Decimal divides them exactly.    *)
(* Volatilities and correlations are the defaults, so risk contribution is *)
(* the notional's; to_dict() and the texts are left out, and the copies    *)
(* that check_concentration() and calculate_heat_map() keep of their last  *)
(* answers.                                                                *)
(*                                                                         *)
(* Bounds: MaxEntries shares held; one refusal is counted.                 *)
(***************************************************************************)
EXTENDS Integers, Sequences, FiniteSets, FiniteSetsExt, Functions, SequencesExt

CONSTANTS Symbols, Prices, Equities,
          MaxSingle, WarnSingle, MaxSector, WarnSector, \* the mapper's limits, percent
          MaxLoss, MaxSize,                             \* the guardian's, percent
          MaxEntries

VARIABLES
  account,    \* the account's equity
  lots, side, \* the caller's positions: price of every share bought, direction
  value,      \* its value at the last report
  equity,     \* PortfolioHeatMapper.account_equity
  exposure,   \* _positions: exposure_pct
  sectors,    \* _sector_exposures
  tracked,    \* AntiPyramidingGuardian.positions: unrealized P&L
  blocked     \* number of blocked_pyramids

vars == <<account, lots, side, value, equity, exposure, sectors, tracked, blocked>>
mapper == <<equity, exposure, sectors>>
guardian == <<tracked, blocked>>

Default == 100000

SectorOf(s) ==
  IF s \in {"AAPL", "MSFT", "NVDA", "QQQ"} THEN "Technology"
  ELSE IF s \in {"JPM", "BAC"} THEN "Financials" ELSE "Unknown"

Empty == [s \in {} |-> 0]

Init ==
  /\ account \in Equities /\ lots = [s \in Symbols |-> <<>>]
  /\ side = [s \in Symbols |-> "LONG"] /\ value = [s \in Symbols |-> 0]
  /\ equity = (IF account = 0 THEN Default ELSE account)
  /\ exposure = Empty /\ sectors = Empty
  /\ tracked = Empty /\ blocked = 0

-----------------------------------------------------------------------------
(* PortfolioHeatMapper                                                     *)
Percent(v, e) == IF e = 0 THEN 0 ELSE (100 * v) \div e
Members(f, sector) == {s \in DOMAIN f : SectorOf(s) = sector}
Total(f, S) == FoldFunctionOnSet(+, 0, f, S)

(* _recalculate_sectors(), and calculate_sector_exposure() of notionals.   *)
BySector(f) == [sector \in {SectorOf(s) : s \in DOMAIN f} |-> Total(f, Members(f, sector))]

UpdatePosition(s, v) ==
  /\ exposure' = [t \in DOMAIN exposure \cup {s} |-> IF t = s THEN Percent(v, equity) ELSE exposure[t]]
  /\ sectors' = BySector(exposure')

RemovePosition(s) ==
  /\ exposure' = Restrict(exposure, DOMAIN exposure \ {s})
  /\ sectors' = BySector(exposure')

BrokenReweighed(e) == exposure
Reweighed(e) == [s \in DOMAIN exposure |-> Percent(value[s], e)]

UpdateAccountEquity(e) ==
  /\ equity' = e
  /\ exposure' = Reweighed(e)
  /\ sectors' = BySector(exposure')

AtLeast(f, limit) == {k \in DOMAIN f : f[k] >= limit}
ConcentratedRisks == AtLeast(exposure, MaxSingle) \cup AtLeast(sectors, MaxSector)
IsConcentrated == \E s \in DOMAIN exposure : exposure[s] >= MaxSingle \/ sectors[SectorOf(s)] >= MaxSector
DetectConcentrations == {s \in DOMAIN exposure : exposure[s] > MaxSingle}
Hottest == {s \in DOMAIN exposure : \A t \in DOMAIN exposure : exposure[t] <= exposure[s]}

(* check_concentration() of the positions and the value it is given: not   *)
(* for the sector of unknown symbols.                                      *)
Severity(percent, warn, max) ==
  IF percent >= max THEN "CRITICAL" ELSE IF percent >= warn THEN "WARNING" ELSE "none"

Alerts(notional, e) ==
  LET total == BySector(notional) pct(v) == IF e > 0 THEN (100 * v) \div e ELSE 0 IN
  {a \in {[of |-> s, severity |-> Severity(pct(notional[s]), WarnSingle, MaxSingle)] : s \in DOMAIN notional}
         \cup {[of |-> x, severity |-> Severity(pct(total[x]), WarnSector, MaxSector)]
                 : x \in DOMAIN total \ {"Unknown"}} :
     a.severity # "none"}

(* calculate_heat_map(): the score of a position in thousandths, at the    *)
(* default volatility 0.25 and correlation 0.5.                            *)
HeatScore(percent) == Min({50 * Min({percent, 10}) + 150 + 100, 1000})
HeatMap(notional, e) ==
  [s \in DOMAIN notional |-> HeatScore(IF e > 0 THEN (100 * notional[s]) \div e ELSE 0)]

Statistics == [positions |-> Cardinality(AtLeast(exposure, MaxSingle)),
               sectors |-> Cardinality(AtLeast(sectors, MaxSector)),
               single |-> Max(Range(exposure) \cup {0}), sector |-> Max(Range(sectors) \cup {0})]

-----------------------------------------------------------------------------
(* AntiPyramidingGuardian: the profit of a position at a price, and the    *)
(* answer to an entry; a first entry is allowed whatever its size.         *)
Sum(numbers) == FoldLeft(+, 0, numbers)
Profit(s, d, p) == (p * Len(lots[s]) - Sum(lots[s])) * (IF d = "LONG" THEN 1 ELSE -1)
MaxLossPercent == IF MaxLoss < 0 THEN -MaxLoss ELSE MaxLoss

BrokenLosing(s, p) == FALSE
Losing(s, p) == 100 * Profit(s, side[s], p) < -MaxLossPercent * Sum(lots[s])
TooLarge(s, p) == account > 0 /\ 100 * (p * Len(lots[s]) + p) > MaxSize * account

Allowed(s, p) ==
  \/ lots[s] = <<>>
  \/ ~Losing(s, p) /\ Profit(s, side[s], p) # 0 /\ ~TooLarge(s, p)

TrackPosition(s, pnl) ==
  tracked' = [t \in DOMAIN tracked \cup {s} |-> IF t = s THEN pnl ELSE tracked[t]]

-----------------------------------------------------------------------------
(* The caller                                                              *)
Enter(s, d, p) ==
  /\ FoldFunction(LAMBDA l, n : Len(l) + n, 0, lots) < MaxEntries
  /\ lots[s] # <<>> => d = side[s]
  /\ Allowed(s, p)
  /\ lots' = [lots EXCEPT ![s] = Append(@, p)] /\ side' = [side EXCEPT ![s] = d]
  /\ value' = [value EXCEPT ![s] = p * Len(lots'[s])]
  /\ UpdatePosition(s, value'[s])
  /\ TrackPosition(s, Profit(s, d, p))
  /\ UNCHANGED <<account, equity, blocked>>

Blocked(s, p) ==
  /\ ~Allowed(s, p) /\ blocked < 1
  /\ blocked' = blocked + 1
  /\ UNCHANGED <<account, lots, side, value, mapper, tracked>>

Mark(s, p) ==
  /\ lots[s] # <<>>
  /\ value' = [value EXCEPT ![s] = p * Len(lots[s])]
  /\ UpdatePosition(s, value'[s])
  /\ TrackPosition(s, Profit(s, side[s], p))
  /\ UNCHANGED <<account, lots, side, equity, blocked>>

Exit(s) ==
  /\ lots[s] # <<>>
  /\ lots' = [lots EXCEPT ![s] = <<>>] /\ side' = [side EXCEPT ![s] = "LONG"]
  /\ value' = [value EXCEPT ![s] = 0]
  /\ RemovePosition(s)
  /\ tracked' = Restrict(tracked, DOMAIN tracked \ {s})
  /\ UNCHANGED <<account, equity, blocked>>

EquityMoves(e) ==
  /\ account' = e
  /\ UpdateAccountEquity(e)
  /\ UNCHANGED <<lots, side, value, guardian>>

Held == {s \in Symbols : lots[s] # <<>>}

Next ==
  \/ \E e \in Equities : EquityMoves(e)
  \/ \E s \in Symbols :
       \/ Exit(s)
       \/ \E p \in Prices : Mark(s, p) \/ Blocked(s, p) \/ \E d \in {"LONG", "SHORT"} : Enter(s, d, p)

Spec == Init /\ [][Next]_vars

-----------------------------------------------------------------------------
(* What the mapper keeps, updated piece by piece, finds what a check of    *)
(* the positions as they are would: the critical alerts are the            *)
(* concentrated risks but for the unknown sector, the mapper calls the     *)
(* portfolio concentrated when it names a risk, and the heat map puts the  *)
(* largest exposure on top.                                                *)
Notional == Restrict(value, Held)
Critical == {a.of : a \in {b \in Alerts(Notional, account) : b.severity = "CRITICAL"}}
AnyHeat == LET heat == HeatMap(Notional, account) IN
  \A s \in Hottest : \A t \in Held : heat[t] <= heat[s]

MapIsCurrent ==
  equity = account =>
    /\ DOMAIN exposure = Held
    /\ Critical = ConcentratedRisks \ {"Unknown"}
    /\ IsConcentrated <=> ConcentratedRisks # {}
    /\ DetectConcentrations \subseteq ConcentratedRisks
    /\ Statistics.positions + Statistics.sectors = Cardinality(ConcentratedRisks)
    /\ AnyHeat

(* Without an allowed loss no share is ever added at a price worse than    *)
(* the position's first, and only a first entry may exceed the size limit. *)
Better(d, p, q) == IF d = "LONG" THEN p > q ELSE p < q
NeverAveragesDown ==
  MaxLoss = 0 => \A s \in Held : \A k \in 2 .. Len(lots[s]) : Better(side[s], lots[s][k], lots[s][1])

WatchKeepsUp == MapIsCurrent /\ NeverAveragesDown
=============================================================================
