--------------------------- MODULE RiskGate_proofs --------------------------
(***************************************************************************)
(* Theorems about RiskGate, for any clients, orders and limit.  The two    *)
(* safety theorems assume one worker thread at a time: with two the checks *)
(* and the bookkeeping of _evaluate_order() interleave.                    *)
(***************************************************************************)
EXTENDS RiskGate, FiniteSetTheorems, SequenceTheorems, TLAPS

LEMMA WorkerStates ==
  /\ \A where \in {"stopped", "loop", "get"} : Free(where) \in WorkerState
  /\ \A where \in {"reset", "evaluate", "approve", "store"}, o \in Orders, v \in Decision :
       Busy(where, o, v) \in WorkerState
  BY DEF Free, Busy, WorkerState

\* A worker that is evaluating has an order in hand.
LEMMA BusyHasOrder ==
  ASSUME NEW s \in WorkerState, s.at \notin {"stopped", "loop", "get"}
  PROVE  s.order \in Orders /\ s.verdict \in Decision
  BY DEF WorkerState

\* The variables start with their types and every step keeps them.
THEOREM Typing == Spec => []TypeOK
<1>1. Init => TypeOK
  <2> SUFFICES ASSUME Init PROVE TypeOK
    OBVIOUS
  <2>1. queue \in Seq(Orders)
    BY EmptySeq DEF Init
  <2>2. worker \in [Workers -> WorkerState]
    BY WorkerStates DEF Init, Stopped
  <2>3. today \in Day /\ lastReset \in Day /\ count \in Nat
    BY GateAssumption DEF Init, Day
  <2> QED
    BY <2>1, <2>2, <2>3 DEF Init, TypeOK, Decision
<1>2. TypeOK /\ [Next]_vars => TypeOK'
  <2> SUFFICES ASSUME TypeOK, [Next]_vars PROVE TypeOK'
    OBVIOUS
  <2> USE DEF counters, locking
  <2>1. ASSUME NEW w \in Workers, Start(w) PROVE TypeOK'
    BY <2>1, WorkerStates DEF Start, Looping, TypeOK
  <2>2. CASE Stop
    BY <2>2 DEF Stop, TypeOK
  <2>3. CASE Midnight
    BY <2>3, GateAssumption DEF Midnight, TypeOK, Day
  <2>4. ASSUME NEW c \in Clients, NEW o \in Orders, SubmitOrder(c, o) PROVE TypeOK'
    <3>1. queue' \in Seq(Orders)
      BY <2>4, AppendProperties DEF SubmitOrder, TypeOK
    <3> QED
      BY <2>4, <3>1 DEF SubmitOrder, TypeOK
  <2>5. ASSUME NEW c \in Clients, Receive(c) PROVE TypeOK'
    BY <2>5 DEF Receive, Collected, TypeOK, Decision
  <2>6. ASSUME NEW c \in Clients, TimeOut(c) PROVE TypeOK'
    BY <2>6 DEF TimeOut, TypeOK
  <2>7. ASSUME NEW w \in Workers, Loop(w) PROVE TypeOK'
    BY <2>7, WorkerStates DEF Loop, Goto, Stopped, TypeOK
  <2>8. ASSUME NEW w \in Workers, Get(w) PROVE TypeOK'
    <3>1. CASE queue = <<>>
      BY <2>8, <3>1, WorkerStates DEF Get, Goto, Looping, TypeOK
    <3>2. CASE queue # <<>>
      <4>1. Head(queue) \in Orders /\ Tail(queue) \in Seq(Orders)
        BY <3>2, HeadTailProperties DEF TypeOK
      <4>2. Busy("reset", Head(queue), "none") \in WorkerState
        BY <4>1, WorkerStates DEF Decision
      <4> QED
        BY <2>8, <3>2, <4>1, <4>2 DEF Get, Goto, TypeOK
    <3> QED
      BY <3>1, <3>2
  <2>9. ASSUME NEW w \in Workers, Reset(w) PROVE TypeOK'
    <3>1. Busy("evaluate", worker[w].order, "none") \in WorkerState
      BY <2>9, BusyHasOrder, WorkerStates DEF Reset, At, TypeOK, Decision
    <3>2. lastReset' \in Day /\ count' \in Nat /\ ids' \subseteq Orders
      BY <2>9 DEF Reset, TypeOK
    <3> QED
      BY <2>9, <3>1, <3>2 DEF Reset, Goto, TypeOK
  <2>10. ASSUME NEW w \in Workers, NEW ok \in BOOLEAN, Evaluate(w, ok) PROVE TypeOK'
    <3> DEFINE o == worker[w].order
               v == Verdict(o, ok)
    <3>1. o \in Orders /\ v \in Decision
      BY <2>10, BusyHasOrder DEF Evaluate, At, TypeOK, Verdict, Decision
    <3>2. Busy(IF v = "rejected" THEN "store" ELSE "approve", o, v) \in WorkerState
      BY <3>1, WorkerStates
    <3> QED
      BY <2>10, <3>2, WorkerStates DEF Evaluate, Goto, Looping, TypeOK
  <2>11. ASSUME NEW w \in Workers, Approve(w) PROVE TypeOK'
    <3>1. worker[w].order \in Orders
          /\ Busy("store", worker[w].order, worker[w].verdict) \in WorkerState
      BY <2>11, BusyHasOrder, WorkerStates DEF Approve, At, TypeOK
    <3>2. granted' \in [Orders -> [Day -> Nat]]
      BY <2>11, <3>1 DEF Approve, TypeOK
    <3> QED
      BY <2>11, <3>1, <3>2 DEF Approve, Goto, TypeOK
  <2>12. ASSUME NEW w \in Workers, Store(w) PROVE TypeOK'
    <3>1. worker[w].verdict \in Decision
      BY <2>12, BusyHasOrder DEF Store, At, TypeOK
    <3> QED
      BY <2>12, <3>1, WorkerStates DEF Store, Goto, Looping, TypeOK
  <2>13. CASE GetStats \/ StatsReturn \/ TrackerHangs
    BY <2>13 DEF GetStats, StatsReturn, TrackerHangs, TypeOK
  <2>14. CASE UNCHANGED vars
    BY <2>14 DEF vars, TypeOK
  <2> QED
    BY <2>1, <2>2, <2>3, <2>4, <2>5, <2>6, <2>7, <2>8, <2>9, <2>10, <2>11, <2>12, <2>13, <2>14
       DEF Next, Work
<1> QED
  BY <1>1, <1>2, PTL DEF Spec

-----------------------------------------------------------------------------

\* The ids are exactly the orders approved on the day of the counters; later
\* days have none; the count is their number.
CountersAgree ==
  /\ lastReset <= today
  /\ ids = Approved(lastReset)
  /\ \A d \in Day : d > lastReset => Approved(d) = {}
  /\ \A d \in Day : IsFiniteSet(Approved(d)) /\ Cardinality(Approved(d)) <= MaxOrders
  /\ count = Cardinality(ids)

\* The checks a worker has passed still hold when it does the bookkeeping.
ChecksHold == \A w \in Workers : At(w, "approve") => WithinLimits(worker[w].order)

IInv == TypeOK /\ CountersAgree /\ ChecksHold /\ ApprovedOncePerDay

\* The strengthening of both limits that every step keeps.
LEMMA Inductive == ASSUME NEW w, Workers = {w} PROVE Spec => []IInv
<1>1. Init => CountersAgree /\ ChecksHold /\ ApprovedOncePerDay
  <2> SUFFICES ASSUME Init PROVE CountersAgree /\ ChecksHold /\ ApprovedOncePerDay
    OBVIOUS
  <2>1. \A d \in Day : Approved(d) = {}
    BY DEF Init, Approved
  <2>2. ApprovedOncePerDay /\ ChecksHold
    BY DEF Init, ApprovedOncePerDay, ChecksHold, At, Stopped, Free
  <2>3. Approved(lastReset) = {} /\ lastReset <= today /\ ids = {} /\ count = 0
    BY <2>1, GateAssumption DEF Init, Day
  <2>4. \A d \in Day : IsFiniteSet(Approved(d)) /\ Cardinality(Approved(d)) <= MaxOrders
    BY <2>1, FS_EmptySet, GateAssumption
  <2>5. count = Cardinality(ids)
    BY <2>3, FS_EmptySet
  <2> QED
    BY <2>1, <2>2, <2>3, <2>4, <2>5 DEF CountersAgree
<1>2. IInv /\ TypeOK' /\ [Next]_vars => CountersAgree' /\ ChecksHold' /\ ApprovedOncePerDay'
  <2> SUFFICES ASSUME TypeOK, CountersAgree, ChecksHold, ApprovedOncePerDay, TypeOK', [Next]_vars
               PROVE  CountersAgree' /\ ChecksHold' /\ ApprovedOncePerDay'
    BY DEF IInv
  <2> USE DEF counters, locking
  <2>1. ASSUME UNCHANGED <<counters, granted>>, today' >= today
        PROVE  CountersAgree' /\ ApprovedOncePerDay'
    <3>1. \A d : Approved(d)' = Approved(d)
      BY <2>1 DEF Approved
    <3>2. lastReset' <= today'
      BY <2>1 DEF CountersAgree, TypeOK, Day
    <3>3. Approved(lastReset)' = Approved(lastReset)
      BY <2>1 DEF Approved
    <3> QED
      BY <2>1, <3>1, <3>2, <3>3 DEF CountersAgree, ApprovedOncePerDay
  <2>2. ASSUME UNCHANGED <<counters, granted, today>>,
               UNCHANGED worker \/ \E where : where # "approve" /\ worker'[w].at = where
        PROVE  CountersAgree' /\ ChecksHold' /\ ApprovedOncePerDay'
    <3>1. CountersAgree' /\ ApprovedOncePerDay'
      BY <2>1, <2>2 DEF TypeOK, Day
    <3>2. ChecksHold'
      BY <2>2 DEF ChecksHold, At, WithinLimits
    <3> QED
      BY <3>1, <3>2
  <2>3. CASE Midnight
    <3>1. ChecksHold'
      BY <2>3 DEF Midnight, ChecksHold, At, WithinLimits
    <3> QED
      BY <2>1, <2>3, <3>1 DEF Midnight, TypeOK, Day
  <2>4. CASE Start(w)
    BY <2>2, <2>4 DEF Start, Looping, Free, TypeOK
  <2>5. CASE Loop(w)
    BY <2>2, <2>5 DEF Loop, Goto, Stopped, Free, TypeOK
  <2>6. CASE Get(w)
    BY <2>2, <2>6 DEF Get, Goto, Looping, Free, Busy, TypeOK
  <2>7. CASE Store(w)
    BY <2>2, <2>7 DEF Store, Goto, Looping, Free, TypeOK
  <2>8. CASE Reset(w)
    <3>1. worker'[w].at = "evaluate"
      BY <2>8 DEF Reset, Goto, Busy, TypeOK
    <3>2. CASE ~NewDay
      BY <2>2, <2>8, <3>1, <3>2 DEF Reset
    <3>3. CASE NewDay
      <4>1. /\ lastReset' = today /\ count' = 0 /\ ids' = {} /\ today' = today
            /\ granted' = granted
        BY <2>8, <3>3 DEF Reset
      <4>2. ApprovedOncePerDay'
        BY <4>1 DEF ApprovedOncePerDay
      <4>3. ChecksHold'
        BY <3>1 DEF ChecksHold, At
      <4>4. \A d \in Day : Approved(d)' = Approved(d)
        BY <4>1 DEF Approved
      <4>5. today \in Day /\ today > lastReset /\ \A d \in Day : d > today => d > lastReset
        BY <3>3 DEF NewDay, TypeOK, Day
      <4>6. Approved(lastReset)' = {}
        BY <4>1, <4>4, <4>5 DEF CountersAgree, Approved
      <4>7. CountersAgree'
        BY <4>1, <4>4, <4>5, <4>6, FS_EmptySet DEF CountersAgree, Day
      <4> QED
        BY <4>2, <4>3, <4>7
    <3> QED
      BY <3>2, <3>3
  <2>9. ASSUME NEW ok \in BOOLEAN, Evaluate(w, ok)
        PROVE  CountersAgree' /\ ChecksHold' /\ ApprovedOncePerDay'
    <3> DEFINE o == worker[w].order
               v == Verdict(o, ok)
    <3>1. CASE worker' = [worker EXCEPT ![w] = Looping]
      BY <2>2, <2>9, <3>1 DEF Evaluate, Looping, Free, TypeOK
    <3>2. CASE worker' = [worker EXCEPT ![w] =
                            Busy(IF v = "rejected" THEN "store" ELSE "approve", o, v)]
      <4>1. CASE v = "rejected"
        BY <2>2, <2>9, <3>2, <4>1 DEF Evaluate, Busy, TypeOK
      <4>2. CASE v # "rejected"
        <5>1. WithinLimits(o) /\ worker'[w].order = o
          BY <3>2, <4>2 DEF Verdict, Busy, TypeOK
        <5>2. UNCHANGED <<counters, granted, today>>
          BY <2>9 DEF Evaluate
        <5>3. ChecksHold'
          BY <5>1, <5>2 DEF ChecksHold, WithinLimits
        <5> QED
          BY <2>1, <5>2, <5>3 DEF TypeOK, Day
      <4> QED
        BY <4>1, <4>2
    <3> QED
      BY <2>9, <3>1, <3>2 DEF Evaluate, Goto
  <2>10. CASE Approve(w)
    <3> DEFINE o == worker[w].order
    <3>1. o \in Orders /\ o \notin ids /\ count < MaxOrders
      BY <2>10, BusyHasOrder DEF Approve, ChecksHold, At, WithinLimits, TypeOK
    <3>2. ChecksHold'
      BY <2>10 DEF Approve, Goto, Busy, ChecksHold, At, TypeOK
    <3>3. lastReset \in Day /\ lastReset' = lastReset /\ today' = today
      BY <2>10 DEF Approve, TypeOK
    <3>4. granted[o][lastReset] = 0
      BY <3>1, <3>3 DEF CountersAgree, Approved, TypeOK
    <3>5. \A p \in Orders, d \in Day : granted'[p][d] =
            IF p = o /\ d = lastReset THEN 1 ELSE granted[p][d]
      BY <2>10, <3>1, <3>3, <3>4 DEF Approve, TypeOK
    <3>6. ApprovedOncePerDay'
      BY <3>5 DEF ApprovedOncePerDay
    <3>7. \A d \in Day : Approved(d)' =
            IF d = lastReset THEN Approved(d) \cup {o} ELSE Approved(d)
      BY <3>1, <3>5 DEF Approved
    <3>8. /\ IsFiniteSet(ids \cup {o})
          /\ Cardinality(ids \cup {o}) = Cardinality(ids) + 1
      BY <3>1, <3>3, FS_AddElement DEF CountersAgree
    <3>9. ids' = ids \cup {o} /\ count' = count + 1 /\ count \in Nat
      BY <2>10 DEF Approve, TypeOK
    <3>10. ids' = Approved(lastReset)'
      BY <3>3, <3>7, <3>9 DEF CountersAgree, Approved
    <3>11. \A d \in Day : d > lastReset => Approved(d)' = {}
      BY <3>3, <3>7 DEF CountersAgree, Day
    <3>12. \A d \in Day : IsFiniteSet(Approved(d)') /\ Cardinality(Approved(d)') <= MaxOrders
      <4> SUFFICES ASSUME NEW d \in Day
                   PROVE  IsFiniteSet(Approved(d)') /\ Cardinality(Approved(d)') <= MaxOrders
        OBVIOUS
      <4>1. CASE d = lastReset
        <5>1. Approved(d)' = ids \cup {o}
          BY <3>7, <4>1 DEF CountersAgree
        <5>2. Cardinality(ids) + 1 <= MaxOrders
          BY <3>1, <3>9, GateAssumption DEF CountersAgree
        <5> QED
          BY <3>8, <5>1, <5>2
      <4>2. CASE d # lastReset
        BY <3>7, <4>2 DEF CountersAgree
      <4> QED
        BY <4>1, <4>2
    <3>13. CountersAgree'
      BY <3>3, <3>8, <3>9, <3>10, <3>11, <3>12 DEF CountersAgree
    <3> QED
      BY <3>2, <3>6, <3>13
  <2>11. CASE UNCHANGED <<worker, counters, granted, today>>
    BY <2>2, <2>11
  <2> QED
    BY <2>3, <2>4, <2>5, <2>6, <2>7, <2>8, <2>9, <2>10, <2>11
       DEF Next, Work, Stop, GetStats, StatsReturn, TrackerHangs, SubmitOrder, Receive,
           TimeOut, vars
<1> QED
  BY <1>1, <1>2, Typing, PTL DEF Spec, IInv

\* No id is approved twice on a day.
THEOREM OncePerDay == ASSUME NEW w, Workers = {w} PROVE Spec => []ApprovedOncePerDay
<1>1. IInv => ApprovedOncePerDay
  BY DEF IInv
<1> QED
  BY <1>1, Inductive, PTL

\* No day has more approved orders than max_orders_per_day.
THEOREM Cap == ASSUME NEW w, Workers = {w} PROVE Spec => []DailyCap
<1>1. IInv => DailyCap
  BY DEF IInv, CountersAgree, DailyCap
<1> QED
  BY <1>1, Inductive, PTL

-----------------------------------------------------------------------------

\* The days on which o has been approved.
DaysOf(o) == {d \in Day : o \in Approved(d)}

\* The worker has approved o and not stored the decision yet.
InHand(o) ==
  \E w \in Workers : At(w, "store") /\ worker[w].order = o /\ worker[w].verdict = "approved"

One(condition) == IF condition THEN 1 ELSE 0

\* An approval is in the worker's hand, in the map, with a client, or lost:
\* never in two of these places.
EachSpentOnce ==
  \A o \in Orders :
    delivered[o] + One(decision[o] = "approved") + One(InHand(o)) <= Cardinality(DaysOf(o))

LEMMA DaysAreFinite ==
  ASSUME NEW o PROVE IsFiniteSet(DaysOf(o)) /\ Cardinality(DaysOf(o)) \in Nat
<1>1. IsFiniteSet(Day)
  BY FS_Interval, GateAssumption DEF Day
<1>2. IsFiniteSet(DaysOf(o))
  BY <1>1, FS_Subset DEF DaysOf
<1> QED
  BY <1>2, FS_CardinalityType

LEMMA SpentInit == Init => EachSpentOnce
<1> SUFFICES ASSUME Init, NEW o \in Orders
             PROVE  delivered[o] + One(decision[o] = "approved") + One(InHand(o))
                      <= Cardinality(DaysOf(o))
  BY DEF EachSpentOnce
<1>1. delivered[o] = 0 /\ decision[o] # "approved" /\ ~InHand(o)
  BY DEF Init, InHand, At, Stopped, Free
<1> QED
  BY <1>1, DaysAreFinite DEF One

LEMMA SpentStep ==
  ASSUME NEW w, Workers = {w}, IInv, TypeOK', EachSpentOnce, [Next]_vars
  PROVE  EachSpentOnce'
<1> USE DEF counters, locking
<1> SUFFICES ASSUME NEW o \in Orders
             PROVE  (delivered[o] + One(decision[o] = "approved") + One(InHand(o))
                       <= Cardinality(DaysOf(o)))'
  BY DEF EachSpentOnce
<1>1. delivered[o] + One(decision[o] = "approved") + One(InHand(o)) <= Cardinality(DaysOf(o))
  BY DEF EachSpentOnce
<1>2. /\ worker \in [Workers -> WorkerState] /\ decision \in [Orders -> Decision]
      /\ delivered \in [Orders -> Nat] /\ granted \in [Orders -> [Day -> Nat]]
      /\ lastReset \in Day
  BY DEF IInv, TypeOK
<1>3. delivered[o] \in Nat /\ Cardinality(DaysOf(o)) \in Nat /\ Cardinality(DaysOf(o)') \in Nat
  <2>1. IsFiniteSet(Day) /\ DaysOf(o)' \subseteq Day
    BY FS_Interval, GateAssumption DEF Day, DaysOf
  <2> QED
    BY <1>2, <2>1, DaysAreFinite, FS_Subset, FS_CardinalityType
<1>4. ASSUME granted' = granted PROVE DaysOf(o)' = DaysOf(o)
  BY <1>4 DEF DaysOf, Approved
\* A step that only moves the worker to a place that holds no approval.
<1>0. ASSUME \E where : where # "store" /\ worker'[w].at = where PROVE ~InHand(o)'
  BY <1>0 DEF InHand, At
<1>5. ASSUME UNCHANGED <<decision, delivered, granted>>, InHand(o)' => InHand(o)
      PROVE  (delivered[o] + One(decision[o] = "approved") + One(InHand(o))
                <= Cardinality(DaysOf(o)))'
  <2>1. DaysOf(o)' = DaysOf(o)
    BY <1>4, <1>5
  <2> QED
    BY <1>1, <1>3, <1>5, <2>1 DEF One
<1>6. ASSUME UNCHANGED <<decision, delivered, granted>>, UNCHANGED worker
      PROVE  (delivered[o] + One(decision[o] = "approved") + One(InHand(o))
                <= Cardinality(DaysOf(o)))'
  BY <1>5, <1>6 DEF InHand, At
<1>7. CASE Start(w)
  <2>1. ~InHand(o)'
    BY <1>0, <1>2, <1>7 DEF Start, Looping, Free
  <2> QED
    BY <1>5, <1>7, <2>1 DEF Start
<1>8. CASE Loop(w)
  <2>1. ~InHand(o)'
    BY <1>0, <1>2, <1>8 DEF Loop, Goto, Stopped, Looping, Free
  <2> QED
    BY <1>5, <1>8, <2>1 DEF Loop
<1>9. CASE Get(w)
  <2>1. ~InHand(o)'
    BY <1>0, <1>2, <1>9 DEF Get, Goto, Looping, Free, Busy
  <2> QED
    BY <1>5, <1>9, <2>1 DEF Get
<1>10. CASE Reset(w)
  <2>1. ~InHand(o)'
    BY <1>0, <1>2, <1>10 DEF Reset, Goto, Busy
  <2> QED
    BY <1>5, <1>10, <2>1 DEF Reset
<1>11. ASSUME NEW ok \in BOOLEAN, Evaluate(w, ok)
       PROVE  (delivered[o] + One(decision[o] = "approved") + One(InHand(o))
                 <= Cardinality(DaysOf(o)))'
  <2> DEFINE p == worker[w].order
             v == Verdict(p, ok)
  <2>1. ~InHand(o)'
    <3>1. CASE worker' = [worker EXCEPT ![w] = Looping]
      BY <1>0, <1>2, <3>1 DEF Looping, Free
    <3>2. CASE worker' = [worker EXCEPT ![w] =
                            Busy(IF v = "rejected" THEN "store" ELSE "approve", p, v)]
      <4>1. worker'[w].verdict = "approved" => worker'[w].at = "approve"
        BY <1>2, <3>2 DEF Busy
      <4> QED
        BY <4>1 DEF InHand, At
    <3> QED
      BY <1>11, <3>1, <3>2 DEF Evaluate, Goto
  <2> QED
    BY <1>5, <1>11, <2>1 DEF Evaluate
<1>12. CASE Approve(w)
  <2> DEFINE p == worker[w].order
  <2>1. p \in Orders /\ p \notin ids
    BY <1>2, <1>12, BusyHasOrder DEF Approve, IInv, ChecksHold, At, WithinLimits
  <2>2. UNCHANGED <<decision, delivered>> /\ ~InHand(o)
    BY <1>12 DEF Approve, InHand, At
  <2>3. granted[p][lastReset] = 0
    BY <1>2, <2>1 DEF IInv, CountersAgree, Approved
  <2>4. \A q \in Orders, d \in Day : granted'[q][d] =
          IF q = p /\ d = lastReset THEN 1 ELSE granted[q][d]
    BY <1>2, <1>12, <2>1, <2>3 DEF Approve
  <2>5. CASE o = p
    <3>1. DaysOf(o)' = DaysOf(o) \cup {lastReset} /\ lastReset \notin DaysOf(o)
      BY <1>2, <2>1, <2>3, <2>4, <2>5 DEF DaysOf, Approved
    <3>2. Cardinality(DaysOf(o)') = Cardinality(DaysOf(o)) + 1
      BY <3>1, DaysAreFinite, FS_AddElement
    <3> QED
      BY <1>1, <1>3, <2>2, <3>2 DEF One
  <2>6. CASE o # p
    <3>1. DaysOf(o)' = DaysOf(o)
      BY <2>4, <2>6 DEF DaysOf, Approved
    <3>2. ~InHand(o)'
      BY <1>2, <1>12, <2>6 DEF Approve, Goto, Busy, InHand, At
    <3> QED
      BY <1>1, <1>3, <2>2, <3>1, <3>2 DEF One
  <2> QED
    BY <2>5, <2>6
<1>13. CASE Store(w)
  <2>1. /\ DaysOf(o)' = DaysOf(o) /\ delivered' = delivered /\ ~InHand(o)'
    BY <1>2, <1>4, <1>13 DEF Store, Goto, Looping, Free, InHand, At
  <2>2. decision'[o] = "approved" => decision[o] = "approved" \/ InHand(o)
    BY <1>2, <1>13 DEF Store, InHand
  <2> QED
    BY <1>1, <1>3, <2>1, <2>2 DEF One
<1>14. ASSUME NEW c \in Clients, Receive(c)
       PROVE  (delivered[o] + One(decision[o] = "approved") + One(InHand(o))
                 <= Cardinality(DaysOf(o)))'
  <2>1. DaysOf(o)' = DaysOf(o) /\ InHand(o)' = InHand(o)
    BY <1>4, <1>14 DEF Receive, InHand, At
  <2>2. CASE o = client[c]
    <3>1. /\ decision'[o] # "approved"
          /\ delivered'[o] = delivered[o] + One(decision[o] = "approved")
      BY <1>2, <1>14, <2>2 DEF Receive, Collected, One
    <3> QED
      BY <1>1, <1>3, <2>1, <3>1 DEF One
  <2>3. CASE o # client[c]
    <3>1. decision'[o] = decision[o] /\ delivered'[o] = delivered[o]
      BY <1>2, <1>14, <2>3 DEF Receive, Collected
    <3> QED
      BY <1>1, <1>3, <2>1, <3>1 DEF One
  <2> QED
    BY <2>2, <2>3
<1>15. CASE UNCHANGED <<worker, decision, delivered, granted>>
  BY <1>6, <1>15
<1> QED
  BY <1>7, <1>8, <1>9, <1>10, <1>11, <1>12, <1>13, <1>14, <1>15
     DEF Next, Work, Stop, Midnight, GetStats, StatsReturn, TrackerHangs, SubmitOrder,
         TimeOut, vars

\* No approval reaches two clients: a decision left in the map by a client that
\* timed out is taken once, by whoever asks for the id next (gate.py,
\* submit_order and _store_decision).
THEOREM SpentOnce == ASSUME NEW w, Workers = {w} PROVE Spec => []ApprovalsAreSpentOnce
<1>1. IInv /\ TypeOK' /\ EachSpentOnce /\ [Next]_vars => EachSpentOnce'
  BY SpentStep
<1>2. TypeOK /\ EachSpentOnce => ApprovalsAreSpentOnce
  <2> SUFFICES ASSUME TypeOK, EachSpentOnce, NEW o \in Orders
               PROVE  delivered[o] <= Cardinality(DaysOf(o))
    BY DEF ApprovalsAreSpentOnce, DaysOf
  <2>1. delivered[o] + One(decision[o] = "approved") + One(InHand(o)) <= Cardinality(DaysOf(o))
    BY DEF EachSpentOnce
  <2>2. delivered[o] \in Nat /\ Cardinality(DaysOf(o)) \in Nat
    BY DaysAreFinite DEF TypeOK
  <2> QED
    BY <2>1, <2>2 DEF One
<1> QED
  BY <1>1, <1>2, SpentInit, Inductive, Typing, PTL DEF Spec

=============================================================================
