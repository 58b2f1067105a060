---------------------- MODULE OrderStateMachine_proofs ----------------------
(***************************************************************************)
(* Theorems about OrderStateMachine, for every set of orders and callers.  *)
(* The safety invariants hold whatever the interleaving of the callers;    *)
(* finality of terminal states, and with it the implementation of          *)
(* OrderLifecycle, holds under Disciplined.                                *)
(***************************************************************************)
EXTENDS OrderStateMachine, TLAPS

\* The only entry in state ABSENT is the blank one.
LEMMA AbsentIsBlank == \A e \in Entry : e.state = "ABSENT" => e = NoEntry
  BY DEF Entry, NoEntry, Status, Terminal

\* Every action of the machine keeps the types of its variables.
THEOREM Typing == Spec => []TypeOK
<1>1. Init => TypeOK
  BY DEF Init, TypeOK, Entry
<1>2. TypeOK /\ [Next]_vars => TypeOK'
  <2> SUFFICES ASSUME TypeOK, [Next]_vars PROVE TypeOK'
    OBVIOUS
  <2>1. ASSUME NEW o \in Orders, Create(o) PROVE TypeOK'
    <3>1. NewEntry \in Entry
      BY DEF NewEntry, Entry, Status
    <3>2. [logged EXCEPT ![o] = NewEntry] \in [Orders -> Entry]
      BY <3>1 DEF TypeOK
    <3>3. QED
      BY <2>1, <3>1, <3>2 DEF Create, TypeOK
  <2>2. ASSUME NEW c \in Callers, NEW o \in Orders, Read(c, o) PROVE TypeOK'
    <3>1. orders[o].state \in Status
      BY <2>2 DEF Read, Stored, TypeOK, Entry, NoEntry
    <3>2. QED
      BY <2>2, <3>1 DEF Read, TypeOK, PendingRead
  <2>3. ASSUME NEW r \in reads, NEW to \in Status, NEW broker \in BOOLEAN,
               Transition(r, to, broker)
        PROVE TypeOK'
    <3>1. r.order \in Orders
      BY DEF TypeOK, PendingRead
    <3>2. behind' \subseteq Orders
      BY <2>3, <3>1 DEF Transition, TypeOK
    <3>3. QED
      BY <2>3, <3>1, <3>2 DEF Transition, Updated, TypeOK, Entry
  <2>4. ASSUME NEW r \in reads, Refused(r) PROVE TypeOK'
    BY <2>4 DEF Refused, TypeOK
  <2>5. CASE Crash
    BY <2>5 DEF Crash, TypeOK, Entry
  <2>6. CASE Restore
    BY <2>6 DEF Restore, Restored, TypeOK, Entry
  <2>7. CASE StopBus
    BY <2>7 DEF StopBus, TypeOK
  <2>8. CASE UNCHANGED vars
    BY <2>8 DEF vars, TypeOK
  <2>9. QED
    BY <2>1, <2>2, <2>3, <2>4, <2>5, <2>6, <2>7, <2>8 DEF Next
<1>3. QED
  BY <1>1, <1>2, PTL DEF Spec

\* Under Disciplined the from_state a caller holds is what the table says, and
\* nobody else holds one for the order.
Fresh ==
  Disciplined =>
    /\ \A r \in reads : Stored(r.order) /\ r.from = orders[r.order].state
    /\ \A r, s \in reads : r.order = s.order => r = s

LEMMA FreshStep == TypeOK /\ Fresh /\ [Next]_vars => Fresh'
<1> SUFFICES ASSUME TypeOK, Fresh, [Next]_vars, Disciplined
             PROVE Fresh'
  BY DEF Fresh
<1> USE DEF Fresh, TypeOK, Entry, PendingRead, Stored, NoEntry, NewEntry
<1>1. ASSUME NEW o \in Orders, Create(o) PROVE Fresh'
  <2>1. \A r \in reads : r.order # o
    BY <1>1 DEF Create
  <2>2. QED
    BY <1>1, <2>1 DEF Create
<1>2. ASSUME NEW c \in Callers, NEW o \in Orders, Read(c, o) PROVE Fresh'
  BY <1>2 DEF Read
<1>3. ASSUME NEW r \in reads, NEW to \in Status, NEW broker \in BOOLEAN,
             Transition(r, to, broker)
      PROVE Fresh'
  <2>1. \A q \in reads' : q \in reads /\ q.order # r.order
    BY <1>3 DEF Transition
  <2>2. \A o \in Orders \ {r.order} : orders'[o] = orders[o]
    BY <1>3 DEF Transition
  <2>3. QED
    BY <2>1, <2>2
<1>4. ASSUME NEW r \in reads, Refused(r) PROVE Fresh'
  BY <1>4 DEF Refused
<1>5. CASE Crash
  BY <1>5 DEF Crash
<1>6. CASE Restore
  BY <1>6 DEF Restore, Restored
<1>7. CASE StopBus
  BY <1>7 DEF StopBus
<1>8. CASE UNCHANGED vars
  BY <1>8 DEF vars
<1>9. QED
  BY <1>1, <1>2, <1>3, <1>4, <1>5, <1>6, <1>7, <1>8 DEF Next

\* The table never disagrees with the log about an order it holds, but by the
\* one move whose emit() raised.  Inductive with Fresh: that move began at the
\* state of the table.
THEOREM TableMatchesLog == Spec => []TableIsLog
<1> USE DEF TableIsLog, Stored, NoEntry, NewEntry
<1>1. Init => TableIsLog /\ Fresh
  BY DEF Init, Fresh
<1>2. TypeOK /\ Fresh /\ TableIsLog /\ [Next]_vars => TableIsLog'
  <2> SUFFICES ASSUME TypeOK, Fresh, TableIsLog, [Next]_vars PROVE TableIsLog'
    OBVIOUS
  <2> USE DEF TypeOK, Entry
  <2>1. ASSUME NEW o \in Orders, Create(o) PROVE TableIsLog'
    <3>1. logged[o] = NoEntry
      BY <2>1, AbsentIsBlank DEF Create
    <3>2. Disciplined => o \notin behind
      BY <3>1 DEF OneMoveBehind, NeedConfirmation, Unconfirmed
    <3>3. \A q \in Orders \ {o} : orders'[q] = orders[q] /\ logged'[q] = logged[q]
      BY <2>1 DEF Create
    <3>4. orders'[o] = NewEntry /\ logged'[o] \in {NoEntry, NewEntry} /\ behind' = behind
      BY <2>1, <3>1 DEF Create
    <3>5. QED
      BY <3>2, <3>3, <3>4 DEF OneMoveBehind
  <2>2. ASSUME NEW c \in Callers, NEW o \in Orders, Read(c, o) PROVE TableIsLog'
    BY <2>2 DEF Read, OneMoveBehind
  <2>3. ASSUME NEW r \in reads, NEW to \in Status, NEW broker \in BOOLEAN,
               Transition(r, to, broker)
        PROVE TableIsLog'
    <3>1. r.order \in Orders
      BY DEF PendingRead
    <3>2. \A q \in Orders \ {r.order} : orders'[q] = orders[q] /\ logged'[q] = logged[q]
      BY <2>3 DEF Transition
    <3>3. logged'[r.order].state = to
      BY <2>3, <3>1 DEF Transition
    <3>4. orders[r.order].state = "ABSENT" => orders'[r.order].state = "ABSENT"
      BY <2>3, <3>1 DEF Transition
    <3>5. CASE bus
      <4>1. orders[r.order].state # "ABSENT" /\ r.order \notin behind =>
              orders'[r.order] = logged'[r.order]
        <5> SUFFICES ASSUME orders[r.order].state # "ABSENT", r.order \notin behind
                     PROVE  orders'[r.order] = logged'[r.order]
          OBVIOUS
        <5>1. orders[r.order].broker = logged[r.order].broker
          <6>1. CASE orders[r.order] = logged[r.order]
            BY <6>1
          <6>2. CASE orders[r.order] = NewEntry /\ logged[r.order] = NoEntry
            <7>1. orders[r.order].broker = FALSE /\ logged[r.order].broker = FALSE
              BY <6>2
            <7>2. QED
              BY <7>1
          <6>3. QED
            BY <3>1, <6>1, <6>2
        <5>2. QED
          BY <2>3, <3>1, <3>5, <5>1 DEF Transition, Updated
      <4>2. behind' = behind /\ (Disciplined => r.order \notin behind)
        BY <2>3, <3>5 DEF Transition
      <4>3. QED
        BY <3>1, <3>2, <3>4, <4>1, <4>2 DEF OneMoveBehind
    <3>6. CASE ~bus
      <4>1. behind' = behind \cup {r.order} /\ orders' = orders
        BY <2>3, <3>6 DEF Transition
      <4>2. Disciplined => orders'[r.order].state = r.from
        BY <4>1 DEF Fresh
      <4>3. Disciplined => OneMoveBehind(r.order)'
        BY <2>3, <3>3, <4>2 DEF OneMoveBehind, Transition, Accepted
      <4>4. QED
        BY <3>1, <3>2, <4>1, <4>3 DEF OneMoveBehind
    <3>7. QED
      BY <3>5, <3>6
  <2>4. ASSUME NEW r \in reads, Refused(r) PROVE TableIsLog'
    BY <2>4 DEF Refused, OneMoveBehind
  <2>5. CASE Crash
    BY <2>5 DEF Crash
  <2>6. CASE Restore
    <3>1. \A o \in behind : Disciplined => orders'[o] = orders[o]
      BY <2>6 DEF Restore, OneMoveBehind, NeedConfirmation, Unconfirmed
    <3>2. QED
      BY <2>6, <3>1 DEF Restore, Restored, OneMoveBehind
  <2>7. CASE StopBus
    BY <2>7 DEF StopBus, OneMoveBehind
  <2>8. CASE UNCHANGED vars
    BY <2>8 DEF vars, OneMoveBehind
  <2>9. QED
    BY <2>1, <2>2, <2>3, <2>4, <2>5, <2>6, <2>7, <2>8 DEF Next
<1>3. QED
  BY <1>1, <1>2, FreshStep, Typing, PTL DEF Spec

-----------------------------------------------------------------------------

\* What makes ConfirmedByBroker inductive: the only way to EXPIRED without a
\* broker id in hand starts from SUBMITTED; a table entry keeps its broker id,
\* so a caller that read a confirmed state, however long ago, still finds the
\* id there; and the log has every broker id the table has.
ReadIsConfirmed ==
  /\ \A r \in reads :
       /\ Stored(r.order)
       /\ r.from \notin {"PENDING", "REJECTED"} => orders[r.order].broker
  /\ \A o \in Orders : orders[o].broker => logged[o].broker

\* From ConfirmedByBroker and ReadIsConfirmed together.
ConfirmedInv == ConfirmedByBroker /\ ReadIsConfirmed

LEMMA ConfirmedStep == TypeOK /\ ConfirmedInv /\ [Next]_vars => ConfirmedInv'
<1> SUFFICES ASSUME TypeOK, ConfirmedInv, [Next]_vars PROVE ConfirmedInv'
  OBVIOUS
<1> USE DEF ConfirmedInv, ConfirmedByBroker, ReadIsConfirmed, Stored, NoEntry,
            NewEntry, TypeOK, Entry
<1>1. ASSUME NEW o \in Orders, Create(o) PROVE ConfirmedInv'
  <2>1. \A r \in reads : r.order # o
    BY <1>1 DEF Create
  <2>2. QED
    BY <1>1, <2>1 DEF Create, PendingRead
<1>2. ASSUME NEW c \in Callers, NEW o \in Orders, Read(c, o) PROVE ConfirmedInv'
  BY <1>2 DEF Read
<1>3. ASSUME NEW r \in reads, NEW to \in Status, NEW broker \in BOOLEAN,
             Transition(r, to, broker)
      PROVE ConfirmedInv'
  <2>1. r.order \in Orders
    BY DEF PendingRead
  <2>2. to \notin {"ABSENT", "PENDING", "REJECTED"} => orders[r.order].broker \/ broker
    BY <1>3 DEF Transition, Accepted, NeedConfirmation, Unconfirmed, Status, Terminal
  <2>3. \A o \in Orders :
          /\ orders[o].broker => orders'[o].broker
          /\ orders'[o].broker => logged'[o].broker
    BY <1>3, <2>1 DEF Transition, Updated
  <2>4. ConfirmedByBroker'
    BY <1>3, <2>1, <2>2 DEF Transition, Updated
  <2>5. \A q \in reads : Stored(q.order)'
    BY <1>3, <2>1 DEF Transition, Updated, PendingRead, Status, Terminal
  <2>6. ReadIsConfirmed'
    BY <1>3, <2>1, <2>3, <2>5 DEF Transition, PendingRead
  <2>7. QED
    BY <2>4, <2>6
<1>4. ASSUME NEW r \in reads, Refused(r) PROVE ConfirmedInv'
  BY <1>4 DEF Refused
<1>5. CASE Crash
  BY <1>5 DEF Crash
<1>6. CASE Restore
  <2>1. ConfirmedByBroker'
    BY <1>6 DEF Restore, Restored
  <2>2. ReadIsConfirmed'
    BY <1>6 DEF Restore, Restored, PendingRead
  <2>3. QED
    BY <2>1, <2>2
<1>7. CASE StopBus
  BY <1>7 DEF StopBus
<1>8. CASE UNCHANGED vars
  BY <1>8 DEF vars
<1>9. QED
  BY <1>1, <1>2, <1>3, <1>4, <1>5, <1>6, <1>7, <1>8 DEF Next

\* Orders past PENDING carry the broker's id, in memory and in the log.
THEOREM Confirmed == Spec => []ConfirmedByBroker
<1>1. Init => ConfirmedInv
  BY DEF Init, ConfirmedInv, ConfirmedByBroker, ReadIsConfirmed, NoEntry
<1>2. ConfirmedInv => ConfirmedByBroker
  BY DEF ConfirmedInv
<1>3. QED
  BY <1>1, <1>2, ConfirmedStep, Typing, PTL DEF Spec

-----------------------------------------------------------------------------

\* Every step of the machine is a step of the lifecycle or a stutter.
LEMMA LifecycleStep ==
  TypeOK /\ TableIsLog /\ Fresh /\ Disciplined /\ [Next]_vars
    => [Lifecycle!Next]_([o \in Orders |-> StateOf(o)])
<1> DEFINE status == [o \in Orders |-> StateOf(o)]
<1> SUFFICES ASSUME TypeOK, TableIsLog, Fresh, Disciplined, [Next]_vars
             PROVE Lifecycle!Next \/ UNCHANGED status
  OBVIOUS
<1> USE DEF TypeOK, Entry, StateOf, Stored, NoEntry, NewEntry
<1>1. ASSUME NEW o \in Orders, Create(o) PROVE Lifecycle!Create(o) \/ UNCHANGED status
  <2>1. \A q \in Orders \ {o} : orders'[q] = orders[q] /\ logged'[q] = logged[q]
    BY <1>1 DEF Create
  <2>2. status[o] = "ABSENT" /\ status'[o] = "PENDING"
    BY <1>1 DEF Create
  <2>3. status' = [status EXCEPT ![o] = "PENDING"]
    BY <2>1, <2>2
  <2>4. QED
    BY <2>2, <2>3 DEF Lifecycle!Create, Lifecycle!Absent
<1>2. ASSUME NEW c \in Callers, NEW o \in Orders, Read(c, o) PROVE UNCHANGED status
  BY <1>2 DEF Read
<1>3. ASSUME NEW r \in reads, NEW to \in Status, NEW broker \in BOOLEAN,
             Transition(r, to, broker)
      PROVE Lifecycle!Advance(r.order, to) /\ r.order \in Orders
  <2>1. r.order \in Orders /\ r.from = status[r.order]
    <3>1. r.order \in Orders /\ Stored(r.order) /\ r.from = orders[r.order].state
      BY DEF Fresh, PendingRead
    <3>2. r.order \notin behind
      BY <1>3 DEF Transition
    <3>3. QED
      BY <3>1, <3>2 DEF TableIsLog
  <2>2. <<status[r.order], to>> \in Lifecycle!ValidTransitions
    <3>1. <<r.from, to>> \in Lifecycle!ValidTransitions
      BY <1>3 DEF Transition, Accepted, NeedConfirmation, Unconfirmed,
                  Lifecycle!ValidTransitions
    <3>2. QED
      BY <2>1, <3>1
  <2>3. \A q \in Orders \ {r.order} : orders'[q] = orders[q] /\ logged'[q] = logged[q]
    BY <1>3 DEF Transition
  <2>4. status'[r.order] = to
    BY <1>3, <2>1 DEF Transition, Status, Terminal
  <2>5. status' = [status EXCEPT ![r.order] = to]
    BY <2>1, <2>3, <2>4
  <2>6. QED
    BY <2>1, <2>2, <2>5 DEF Lifecycle!Advance
<1>4. ASSUME NEW r \in reads, Refused(r) PROVE UNCHANGED status
  BY <1>4 DEF Refused
<1>5. ASSUME Crash PROVE \E lost \in SUBSET Orders : Lifecycle!Forget(lost)
  <2> DEFINE unlogged == {o \in Orders : Stored(o) /\ logged[o].state = "ABSENT"}
  <2>1. \A o \in unlogged : status[o] = "PENDING"
    BY DEF TableIsLog, OneMoveBehind, NeedConfirmation, Unconfirmed
  <2>2. status' = [o \in Orders |-> IF o \in unlogged THEN "ABSENT" ELSE status[o]]
    BY <1>5 DEF Crash
  <2>3. unlogged \in SUBSET Orders
    OBVIOUS
  <2> HIDE DEF unlogged, status
  <2>4. QED
    BY <2>1, <2>2, <2>3 DEF Lifecycle!Forget, Lifecycle!Absent, status
<1>6. ASSUME Restore PROVE UNCHANGED status
  <2>1. \A o \in Orders : StateOf(o)' = StateOf(o)
    BY <1>6 DEF Restore, Restored
  <2>2. QED
    BY <2>1
<1>7. ASSUME StopBus PROVE UNCHANGED status
  BY <1>7 DEF StopBus
<1>8. ASSUME UNCHANGED vars PROVE UNCHANGED status
  BY <1>8 DEF vars
<1>9. Lifecycle!Status = Status
  BY DEF Lifecycle!Status, Lifecycle!Terminal, Status, Terminal
<1>10. QED
  BY <1>1, <1>2, <1>3, <1>4, <1>5, <1>6, <1>7, <1>8, <1>9 DEF Next, Lifecycle!Next

\* With one caller per order, which does not move an order on after emit() has
\* raised for it, the machine implements the order lifecycle: terminal states
\* are final, across failing appends, stops of the bus, crashes and restores.
THEOREM Implementation ==
  ASSUME Disciplined
  PROVE  Spec => ImplementsLifecycle
<1>1. Init => Lifecycle!Init
  BY DEF Init, Lifecycle!Init, Lifecycle!Absent, NoEntry, StateOf
<1>2. Init => Fresh
  BY DEF Init, Fresh
<1>3. TypeOK /\ TableIsLog /\ Fresh /\ [Next]_vars
        => [Lifecycle!Next]_([o \in Orders |-> StateOf(o)])
  BY LifecycleStep, Disciplined
<1>4. QED
  BY <1>1, <1>2, <1>3, FreshStep, Typing, TableMatchesLog, PTL
     DEF Spec, ImplementsLifecycle, Lifecycle!Spec

=============================================================================
