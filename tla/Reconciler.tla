----------------------------- MODULE Reconciler ------------------------------
(***************************************************************************)
(* core/state/reconciler.py in the loop: BrokerReconciler compares the     *)
(* position store with the broker's positions and the order machine's      *)
(* pending orders with the broker's open ones, and PeriodicReconciler does *)
(* it once per interval.  The loop heals once before it starts, and then   *)
(* only writes down what a check returns.                                  *)
(*                                                                         *)
(* The broker moves between the reads of a check, the loop (which holds    *)
(* the store) does not.  A read may fail: then the check returns an error  *)
(* for the whole interval.  An Order of the machine has a state but no     *)
(* status, so of two orders with one id nothing is compared; one without a *)
(* broker id is skipped.  Recovery shows the comparison before the loop.   *)
(*                                                                         *)
(* Bound: EndOfTime.                                                       *)
(***************************************************************************)
EXTENDS Naturals

CONSTANTS Symbols, Orders, MaxQty,
          Interval,       \* PeriodicReconciler._interval_s
          EndOfTime

VARIABLES
  now, stage,             \* clock; where the loop is
  rows, known,            \* position store; pending orders with a broker id
  account, open,          \* broker: quantities, open orders
  lastRun, at,            \* _last_run; when the check in progress was called
  positions, stored,      \* what the check has read: broker's and own positions,
  listed,                 \* broker's open orders
  report,                 \* discrepancies of the last check that ran
  since                   \* history: when a symbol or an order last changed

vars == <<now, stage, rows, known, account, open, lastRun, at, positions, stored, listed,
          report, since>>
read == <<positions, stored, listed>>

Never == 0
Flat == [s \in Symbols |-> 0]
Changed(x) == since' = [since EXCEPT ![x] = now]

Init ==
  /\ now = 1 /\ stage = "startup"
  /\ rows \in [Symbols -> 0 .. MaxQty] /\ known = {}
  /\ account \in [Symbols -> 0 .. MaxQty] /\ open = {}
  /\ lastRun = Never /\ at = Never
  /\ positions = Flat /\ stored = Flat /\ listed = {} /\ report = {}
  /\ since = [x \in Symbols \cup Orders |-> Never]

-----------------------------------------------------------------------------
(* heal_startup(): rows that the broker does not have are deleted.  The    *)
(* store refuses the dictionary of an upsert, and the adapter of the order *)
(* machine offers none of the calls that would reset or track its orders.  *)
Deleted == [s \in Symbols |-> IF account[s] = 0 THEN 0 ELSE rows[s]]
OrdersHealed == known

Heal ==
  /\ stage = "startup"
  /\ rows' = Deleted /\ known' = OrdersHealed
  /\ since' = [x \in DOMAIN since |->
       IF x \in Symbols /\ rows[x] # Deleted[x] THEN now ELSE since[x]]
  /\ stage' = "loop"
  /\ UNCHANGED <<now, account, open, lastRun, at, read, report>>

-----------------------------------------------------------------------------
(* PeriodicReconciler.check()                                              *)
BrokenDue == lastRun = Never \/ now - lastRun > Interval
Due == lastRun = Never \/ now - lastRun >= Interval

Skip ==
  /\ stage = "loop" /\ ~Due
  /\ at' = now /\ stage' = "checked"
  /\ UNCHANGED <<now, rows, known, account, open, lastRun, read, report, since>>

ReadBrokerPositions ==
  /\ stage = "loop" /\ Due
  /\ at' = now /\ positions' = account /\ stage' = "positions"
  /\ UNCHANGED <<now, rows, known, account, open, lastRun, stored, listed, report, since>>

ReadLocalPositions ==
  /\ stage = "positions"
  /\ stored' = rows /\ stage' = "orders"
  /\ UNCHANGED <<now, rows, known, account, open, lastRun, at, positions, listed, report, since>>

ReadBrokerOrders ==
  /\ stage = "orders"
  /\ listed' = open /\ stage' = "diff"
  /\ UNCHANGED <<now, rows, known, account, open, lastRun, at, positions, stored, report, since>>

(* _diff_positions() and _diff_orders().                                   *)
DiffPositions ==
  {[type |-> IF stored[s] = 0 THEN "missing_position"
             ELSE IF positions[s] = 0 THEN "extra_position" ELSE "qty_mismatch", of |-> s]
     : s \in {t \in Symbols : stored[t] # positions[t]}}

DiffOrders ==
  {[type |-> "missing_order", of |-> o] : o \in listed \ known}
  \cup {[type |-> "extra_order", of |-> o] : o \in known \ listed}

Ran(discrepancies) ==
  /\ report' = discrepancies /\ lastRun' = at /\ stage' = "checked"
  /\ positions' = Flat /\ stored' = Flat /\ listed' = {}
  /\ UNCHANGED <<now, rows, known, account, open, at, since>>

Compare == stage = "diff" /\ Ran(DiffPositions \cup DiffOrders)

Error == [type |-> "reconciliation_error", of |-> "*"]

ReadFails ==
  /\ stage \in {"positions", "orders", "diff"}
  /\ Ran({Error})

(* The rest of the cycle: the loop trades, and sleeps.                     *)
EndCycle ==
  /\ stage = "checked" /\ stage' = "loop"
  /\ UNCHANGED <<now, rows, known, account, open, lastRun, at, read, report, since>>

Book(s, q) ==
  /\ stage = "loop" /\ q # rows[s]
  /\ rows' = [rows EXCEPT ![s] = q] /\ Changed(s)
  /\ UNCHANGED <<now, stage, known, account, open, lastRun, at, read, report>>

Track(o) ==
  /\ stage = "loop"
  /\ known' = IF o \in known THEN known \ {o} ELSE known \cup {o}
  /\ Changed(o)
  /\ UNCHANGED <<now, stage, rows, account, open, lastRun, at, read, report>>

-----------------------------------------------------------------------------
(* The broker and the clock.                                               *)
Trade(s, q) ==
  /\ q # account[s]
  /\ account' = [account EXCEPT ![s] = q] /\ Changed(s)
  /\ UNCHANGED <<now, stage, rows, known, open, lastRun, at, read, report>>

OpenOrEnd(o) ==
  /\ open' = IF o \in open THEN open \ {o} ELSE open \cup {o}
  /\ Changed(o)
  /\ UNCHANGED <<now, stage, rows, known, account, lastRun, at, read, report>>

Tick ==
  /\ now < EndOfTime
  /\ now' = now + 1
  /\ UNCHANGED <<stage, rows, known, account, open, lastRun, at, read, report, since>>

Next ==
  \/ Heal \/ Skip \/ ReadBrokerPositions \/ ReadLocalPositions \/ ReadBrokerOrders
  \/ Compare \/ ReadFails \/ EndCycle \/ Tick
  \/ \E s \in Symbols, q \in 0 .. MaxQty : Book(s, q) \/ Trade(s, q)
  \/ \E o \in Orders : Track(o) \/ OpenOrEnd(o)

Spec == Init /\ [][Next]_vars

-----------------------------------------------------------------------------
(* A difference between the broker and the own books that has lasted for   *)
(* an interval when the loop checks is in the report it gets or got last,  *)
(* and what has been equal for that long is not, whatever moved between    *)
(* the reads, unless that report is an error.                              *)
Differ(x) == IF x \in Symbols THEN rows[x] # account[x] ELSE (x \in open) # (x \in known)

DriftIsReported ==
  stage = "checked" /\ Error \notin report =>
    \A x \in Symbols \cup Orders :
      since[x] + Interval <= at => (Differ(x) <=> \E d \in report : d.of = x)
=============================================================================
