-------------------------- MODULE ExecutionReports ---------------------------
(***************************************************************************)
(* What is reported of executions: core/monitoring/execution.py            *)
(* (ExecutionMonitor, which follows orders by id) and                      *)
(* core/analytics/slippage.py (SlippageAnalyzer, which is only told of     *)
(* fills).                                                                 *)
(*                                                                         *)
(* One thread reports each event to both, a fill possibly twice, and may   *)
(* submit under an id that is in use.  One symbol; prices, quantities and  *)
(* the time are whole; basis points are exact fractions in the monitor and *)
(* truncated in the analyzer.  The order sizes are two of the four groups. *)
(*                                                                         *)
(* Bounds: MaxOrders submissions, MaxFills fills reported, EndOfTime.      *)
(***************************************************************************)
EXTENDS Integers, Sequences, FiniteSets, FiniteSetsExt, Functions

CONSTANTS Ids,
          Expected, Prices,     \* expected prices, 0 for a market order; fill prices
          Quantities, Large,    \* quantities; the least one of the larger group
          MaxHistory, MaxRecords,
          MinFillRate, MaxFillTime, \* percent; ticks
          MaxOrders, MaxFills, EndOfTime

VARIABLES
  now,
  pending,     \* ExecutionMonitor._pending
  executions,  \* ExecutionMonitor._executions
  records,     \* SlippageAnalyzer.records
  submissions, \* history: every record_submission()
  fills,       \* history: every record_fill(), with the submission it found
  lost         \* history: submissions whose id was used again while they waited

vars == <<now, pending, executions, records, submissions, fills, lost>>

NoOrder == [number |-> 0]
Unknown == 0

Init ==
  /\ now = 0 /\ pending = [i \in Ids |-> NoOrder] /\ executions = <<>> /\ records = <<>>
  /\ submissions = <<>> /\ fills = <<>> /\ lost = {}

IsPending(i) == pending[i] # NoOrder
Latest(log, n) == SubSeq(log, Max({1, Len(log) - n + 1}), Len(log))

-----------------------------------------------------------------------------
(* An id in use: the older order is forgotten without an outcome.          *)
RecordSubmission(i, side, expected, quantity) ==
  /\ Len(submissions) < MaxOrders
  /\ LET order == [number |-> Len(submissions) + 1, side |-> side, expected |-> expected,
                   quantity |-> quantity, at |-> now]
     IN  /\ pending' = [pending EXCEPT ![i] = order]
         /\ submissions' = Append(submissions, order)
         /\ lost' = IF IsPending(i) THEN lost \cup {pending[i].number} ELSE lost
  /\ UNCHANGED <<now, executions, records, fills>>

BrokenPopped(i) == pending
Popped(i) == [pending EXCEPT ![i] = NoOrder]

(* An order leaves _pending with its outcome; price and time of a fill.    *)
Close(i, outcome, price) ==
  /\ pending' = Popped(i)
  /\ executions' = Latest(Append(executions,
       [order |-> pending[i], status |-> outcome, price |-> price, took |-> now - pending[i].at]),
       MaxHistory)

(* The sign of slippage is a cost for both sides in basis points; in       *)
(* dollars the monitor leaves out the side.                                *)
Cost(side, expected, price) == IF side = "BUY" THEN price - expected ELSE expected - price
MonitorDollars(m) == (m.price - m.order.expected) * m.order.quantity

(* int(float(x) * 10000): towards zero, and a whole result may come out    *)
(* just below itself.                                                      *)
Toward0(n, d) == IF n < 0 THEN -((-n) \div d) ELSE n \div d
Truncated(n, d) ==
  {Toward0(n, d)} \cup (IF n # 0 /\ n % d = 0 THEN {Toward0(n, d) - (IF n < 0 THEN -1 ELSE 1)} ELSE {})

Bps(side, expected, price) ==
  IF expected = 0 THEN {0} ELSE Truncated(10000 * Cost(side, expected, price), expected)

RecordExecution(order, price, took) ==
  \E bps \in Bps(order.side, order.expected, price) :
    records' = Latest(Append(records,
      [side |-> order.side, quantity |-> order.quantity, bps |-> bps, took |-> took,
       dollars |-> Cost(order.side, order.expected, price) * order.quantity]), MaxRecords)

(* A fill: the monitor ignores one of an order it does not know or has     *)
(* closed, the analyzer takes all.                                         *)
RecordFill(i, n, price) ==
  /\ Len(fills) < MaxFills
  /\ LET order == submissions[n] known == pending[i] = order IN
       /\ IF known THEN Close(i, "FILLED", price) ELSE UNCHANGED <<pending, executions>>
       /\ RecordExecution(order, price, now - order.at)
       /\ fills' = Append(fills, [number |-> IF known THEN n ELSE Unknown, order |-> order, price |-> price])
  /\ UNCHANGED <<now, submissions, lost>>

RecordRejection(i) ==
  /\ IsPending(i)
  /\ Close(i, "REJECTED", 0)
  /\ UNCHANGED <<now, records, submissions, fills, lost>>

RecordCancellation(i) ==
  /\ IsPending(i)
  /\ Close(i, "CANCELLED", 0)
  /\ UNCHANGED <<now, records, submissions, fills, lost>>

Tick ==
  /\ now < EndOfTime
  /\ now' = now + 1
  /\ UNCHANGED <<pending, executions, records, submissions, fills, lost>>

Next ==
  \/ Tick
  \/ \E i \in Ids :
       \/ \E s \in {"BUY", "SELL"}, e \in Expected, q \in Quantities : RecordSubmission(i, s, e, q)
       \/ \E n \in DOMAIN submissions, p \in Prices :
            (pending[i] = submissions[n] \/ \A j \in Ids : pending[j] # submissions[n]) /\ RecordFill(i, n, p)
       \/ RecordRejection(i)
       \/ RecordCancellation(i)

Spec == Init /\ [][Next]_vars

-----------------------------------------------------------------------------
(* get_summary(): orders count by the time they were submitted.            *)
Recent(window) == {k \in DOMAIN executions : executions[k].order.at >= now - window}
RecentPending(window) == {i \in Ids : IsPending(i) /\ pending[i].at >= now - window}
WithStatus(S, s) == {k \in S : executions[k].status = s}
SumOver(S, f) == FoldFunctionOnSet(+, 0, f, S)

Summary(window) ==
  LET recent == Recent(window)
      filled == WithStatus(recent, "FILLED")
  IN  [total |-> Cardinality(recent) + Cardinality(RecentPending(window)),
       filled |-> Cardinality(filled), rejected |-> Cardinality(WithStatus(recent, "REJECTED")),
       time |-> SumOver(filled, [k \in filled |-> executions[k].took]),
       dollars |-> SumOver(filled, [k \in filled |->
         IF executions[k].order.expected = 0 THEN 0 ELSE MonitorDollars(executions[k])])]

(* detect_anomalies(), average slippage left out.                          *)
Anomalies(window) ==
  LET s == Summary(window) IN
  (IF 100 * s.filled < MinFillRate * s.total THEN {"fill rate"} ELSE {})
  \cup (IF s.time > MaxFillTime * s.filled THEN {"fill time"} ELSE {})
  \cup (IF 100 * s.rejected > 5 * s.total THEN {"rejections"} ELSE {})

(* _calculate_statistics() of a group of records.                          *)
Statistics(S) == [count |-> Cardinality(S), bps |-> SumOver(S, [k \in S |-> records[k].bps]),
                  dollars |-> SumOver(S, [k \in S |-> records[k].dollars])]
ByOrderSize == <<Statistics({k \in DOMAIN records : records[k].quantity < Large}),
                 Statistics({k \in DOMAIN records : records[k].quantity >= Large})>>

-----------------------------------------------------------------------------
(* Every order counts once in the monitor's summary of a window, as long   *)
(* as no outcome had to leave the history: what was submitted in it but    *)
(* for the orders whose id was used again while they waited.  A window     *)
(* with waiting orders and no fill is an anomaly.                          *)
Waiting == {i \in Ids : IsPending(i)}
NothingDropped == Len(submissions) - Cardinality(lost) - Cardinality(Waiting) <= MaxHistory
Since(window) == {n \in DOMAIN submissions : submissions[n].at >= now - window}

CountedOnce(window) ==
  NothingDropped =>
    /\ Summary(window).total = Cardinality(Since(window) \ lost)
    /\ RecentPending(window) # {} /\ Summary(window).filled = 0 => "fill rate" \in Anomalies(window)

(* For the fills both know, the analyzer's dollars are the monitor's for a *)
(* BUY and their opposite for a SELL, its basis points are within one of   *)
(* the exact ones, and its groups by size add up to the whole; what the    *)
(* monitor did not know is in the analyzer's records only.                 *)
Known == {n \in DOMAIN fills : fills[n].number # Unknown}
Opposite(f) == IF f.order.side = "BUY" THEN 1 ELSE -1

SameFills ==
  LET told == Latest(fills, MaxRecords) all == DOMAIN records IN
  /\ Len(records) = Len(told)
  /\ \A k \in DOMAIN told : LET f == told[k] r == records[k] IN
       /\ r.dollars = Opposite(f) * MonitorDollars(f)
       /\ f.order.expected # 0 =>
            LET exact == 10000 * (f.price - f.order.expected) * Opposite(f)
            IN  r.bps * f.order.expected - exact \in -f.order.expected .. f.order.expected
  /\ \A k \in WithStatus(DOMAIN executions, "FILLED") : \E n \in Known :
       fills[n].number = executions[k].order.number /\ fills[n].price = executions[k].price
  /\ Statistics(all).dollars = ByOrderSize[1].dollars + ByOrderSize[2].dollars
  /\ Statistics(all).bps = ByOrderSize[1].bps + ByOrderSize[2].bps
  /\ Statistics(all).count = ByOrderSize[1].count + ByOrderSize[2].count

ReportsAgree == SameFills /\ \A window \in 0 .. EndOfTime : CountedOnce(window)
=============================================================================
