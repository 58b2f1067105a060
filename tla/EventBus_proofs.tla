--------------------------- MODULE EventBus_proofs --------------------------
(***************************************************************************)
(* Theorems about EventBus, for any producers, any capacity and any number *)
(* of events.  The order theorems assume what the runtime does: one        *)
(* consumer is alive at a time, because the bus is started once.           *)
(***************************************************************************)
EXTENDS EventBus, SequenceTheorems, TLAPS

-----------------------------------------------------------------------------
(* The sequences of the bus.                                               *)

\* Moving the first queued event into the consumer's empty hands, and from
\* there to the dispatched ones, changes nothing of their concatenation.
LEMMA TakeKeepsOrder ==
  ASSUME NEW S, NEW d \in Seq(S), NEW q \in Seq(S), q # <<>>
  PROVE  (d \o <<Head(q)>>) \o Tail(q) = (d \o <<>>) \o q
<1>1. Head(q) \in S /\ Tail(q) \in Seq(S) /\ <<Head(q)>> \in Seq(S)
  BY HeadTailProperties
<1>2. <<Head(q)>> \o Tail(q) = q
  <2>1. <<Head(q)>> \o Tail(q) \in Seq(S)
    BY <1>1, ConcatProperties
  <2>2. Len(<<Head(q)>>) = 1 /\ Len(q) \in Nat \ {0} /\ Len(Tail(q)) = Len(q) - 1
    BY HeadTailProperties, EmptySeq
  <2>3. Len(<<Head(q)>> \o Tail(q)) = Len(q)
    BY <1>1, <2>2, ConcatProperties
  <2>4. ASSUME NEW i \in 1..Len(q) PROVE (<<Head(q)>> \o Tail(q))[i] = q[i]
    <3>1. (<<Head(q)>> \o Tail(q))[i] = IF i <= 1 THEN <<Head(q)>>[i] ELSE Tail(q)[i - 1]
      BY <1>1, <2>2, ConcatProperties
    <3>2. CASE i = 1
      BY <3>1, <3>2
    <3>3. CASE i # 1
      <4>1. i - 1 \in 1..Len(Tail(q))
        BY <2>2, <3>3
      <4>2. Tail(q)[i - 1] = q[(i - 1) + 1]
        BY <4>1, HeadTailProperties
      <4> QED
        BY <3>1, <3>3, <4>2
    <3> QED
      BY <3>2, <3>3
  <2> QED
    BY <2>1, <2>3, <2>4, SeqEqual
<1>3. d \o <<>> = d
  BY ConcatEmptySeq
<1> QED
  BY <1>1, <1>2, <1>3, ConcatAssociative

-----------------------------------------------------------------------------
(* Types.                                                                  *)

LEMMA TypeInit == Init => TypeOK
<1> SUFFICES ASSUME Init PROVE TypeOK
  OBVIOUS
<1>1. <<>> \in Seq(Event) /\ Len(<<>>) = 0
  BY EmptySeq
<1>2. Idle \in Producer /\ Ended \in Consumer
  BY DEF Producer, Ended, Consumer
<1>3. log \in 0..MaxEvents /\ Len(<<>>) <= Capacity
  BY <1>1, BusAssumption DEF Init
<1>4. producer \in [Producers -> Producer] /\ consumer \in [Consumers -> Consumer]
  BY <1>2 DEF Init
<1> QED
  BY <1>1, <1>3, <1>4 DEF Init, TypeOK

\* The variables start with their types and every step keeps them; in
\* particular the queue never exceeds its capacity.
THEOREM Typing == Spec => []TypeOK
<1>1. TypeOK /\ [Next]_vars => TypeOK'
  <2> SUFFICES ASSUME TypeOK, [Next]_vars PROVE TypeOK'
    OBVIOUS
  <2> USE BusAssumption DEF control
  <2>a. Idle \in Producer
    BY DEF Producer
  <2>b. \A at \in {"ended", "loop", "get", "drain"} : [at |-> at, event |-> Nothing] \in Consumer
    BY DEF Consumer
  <2>c. \A at \in {"dispatch", "drainDispatch"}, e \in Event : [at |-> at, event |-> e] \in Consumer
    BY DEF Consumer
  <2>1. ASSUME NEW p \in Producers, AppendToLog(p) PROVE TypeOK'
    <3>1. log + 1 \in Event /\ log + 1 \in 0..MaxEvents
      BY <2>1 DEF AppendToLog, TypeOK, Event
    <3>2. [at |-> "emit", event |-> log + 1] \in Producer
      BY <3>1 DEF Producer
    <3> QED
      BY <2>1, <3>1, <3>2 DEF AppendToLog, TypeOK
  <2>2. ASSUME NEW p \in Producers, EmitChecks(p) PROVE TypeOK'
    <3>1. producer[p].event \in Event
      BY <2>2 DEF EmitChecks, TypeOK, Producer, Idle
    <3>2. [at |-> "put", event |-> producer[p].event] \in Producer
      BY <3>1 DEF Producer
    <3> QED
      BY <2>2, <2>a, <3>2 DEF EmitChecks, TypeOK
  <2>3. ASSUME NEW p \in Producers, EmitPuts(p) PROVE TypeOK'
    <3>1. producer[p].event \in Event
      BY <2>3 DEF EmitPuts, TypeOK, Producer, Idle
    <3>2. CASE HasRoom
      <4>1. queue' \in Seq(Event) /\ Len(queue') <= Capacity /\ accepted' \in Seq(Event)
        <5> DEFINE e == producer[p].event
        <5>1. queue' = Append(queue, e) /\ accepted' = Append(accepted, e)
          BY <2>3, <3>2 DEF EmitPuts
        <5>2. /\ Append(queue, e) \in Seq(Event) /\ Len(Append(queue, e)) = Len(queue) + 1
              /\ Append(accepted, e) \in Seq(Event)
          BY <3>1, AppendProperties DEF TypeOK
        <5>3. Len(queue) \in Nat
          BY LenProperties DEF TypeOK
        <5>4. Len(queue) + 1 <= Capacity
          BY <3>2, <5>3 DEF HasRoom
        <5> QED
          BY <5>1, <5>2, <5>4
      <4> QED
        BY <2>3, <2>a, <3>1, <3>2, <4>1 DEF EmitPuts, TypeOK
    <3>3. CASE ~HasRoom
      BY <2>3, <2>a, <3>3 DEF EmitPuts, TypeOK
    <3> QED
      BY <3>2, <3>3
  <2>4. ASSUME NEW k \in Consumers, Start(k) PROVE TypeOK'
    BY <2>4, <2>b DEF Start, Looping, TypeOK
  <2>5. CASE StopBegins
    BY <2>5 DEF StopBegins, TypeOK
  <2>6. CASE StopReturns
    BY <2>6 DEF StopReturns, TypeOK
  <2>7. ASSUME NEW k \in Consumers, Loop(k) PROVE TypeOK'
    <3>1. (IF stopEvent THEN AfterLoop ELSE "get") \in {"drain", "get"}
      BY DEF AfterLoop
    <3> QED
      BY <2>7, <2>b, <3>1 DEF Loop, Goto, TypeOK
  <2>8. ASSUME NEW k \in Consumers, NEW where, NEW then \in {"dispatch", "drainDispatch"},
               NEW empty \in {"loop", "ended"}, Get(k, where, then, empty)
        PROVE  TypeOK'
    <3>1. CASE queue = <<>>
      BY <2>8, <2>b, <3>1 DEF Get, Goto, TypeOK
    <3>2. CASE queue # <<>>
      <4>1. Head(queue) \in Event /\ Tail(queue) \in Seq(Event) /\ Len(Tail(queue)) <= Capacity
        BY <3>2, HeadTailProperties, LenProperties DEF TypeOK
      <4> QED
        BY <2>8, <2>c, <3>2, <4>1 DEF Get, Take, TypeOK
    <3> QED
      BY <3>1, <3>2
  <2>9. ASSUME NEW k \in Consumers, NEW where \in {"dispatch", "drainDispatch"},
               NEW next \in {"loop", "drain"}, Dispatch(k, where, next)
        PROVE  TypeOK'
    <3>1. consumer[k].event \in Event
      BY <2>9 DEF Dispatch, TypeOK, Consumer
    <3>2. dispatched' \in Seq(Event)
      BY <2>9, <3>1, AppendProperties DEF Dispatch, TypeOK
    <3> QED
      BY <2>9, <2>b, <3>2 DEF Dispatch, Goto, TypeOK
  <2>10. CASE UNCHANGED vars
    BY <2>10 DEF vars, TypeOK
  <2> QED
    BY <2>1, <2>2, <2>3, <2>4, <2>5, <2>6, <2>7, <2>8, <2>9, <2>10 DEF Next, Consume
<1> QED
  BY TypeInit, <1>1, PTL DEF Spec

-----------------------------------------------------------------------------
(* Order.                                                                  *)

\* Nothing is lost, duplicated or overtaken between emit() and the handlers, as
\* long as one consumer is alive.
THEOREM Fifo == ASSUME NEW c, Consumers = {c} PROVE Spec => []FirstInFirstOut
<1> DEFINE J == accepted = (dispatched \o Held(c)) \o queue
<1>1. Init => J
  BY EmptySeq, ConcatEmptySeq DEF Init, Held, Ended
<1>2. TypeOK /\ J /\ [Next]_vars => J'
  <2> SUFFICES ASSUME TypeOK, J, [Next]_vars PROVE J'
    OBVIOUS
  <2> USE DEF control
  <2>a. Held(c) \in Seq(Event) /\ (dispatched \o Held(c)) \in Seq(Event)
    <3>1. Held(c) \in Seq(Event)
      BY DEF Held, TypeOK, Consumer
    <3> QED
      BY <3>1, ConcatProperties DEF TypeOK
  <2>1. ASSUME UNCHANGED <<accepted, dispatched, queue, consumer>> PROVE J'
    BY <2>1 DEF Held
  <2>2. ASSUME NEW p \in Producers, EmitPuts(p) PROVE J'
    <3>1. producer[p].event \in Event
      BY <2>2 DEF EmitPuts, TypeOK, Producer, Idle
    <3>2. CASE HasRoom
      <4> DEFINE e == producer[p].event
      <4>1. accepted' = accepted \o <<e>> /\ queue' = queue \o <<e>>
        BY ZenonT(60), <2>2, <3>1, <3>2, AppendIsConcat DEF EmitPuts, TypeOK
      <4>2. accepted \o <<e>> = (dispatched \o Held(c)) \o (queue \o <<e>>)
        <5>1. <<e>> \in Seq(Event) /\ queue \in Seq(Event)
          BY <3>1 DEF TypeOK
        <5>2. ((dispatched \o Held(c)) \o queue) \o <<e>>
                = (dispatched \o Held(c)) \o (queue \o <<e>>)
          BY SMTT(40), <2>a, <5>1, ConcatAssociative
        <5> QED
          BY <5>2
      <4>3. dispatched' = dispatched /\ Held(c)' = Held(c)
        BY <2>2 DEF EmitPuts, Held
      <4> QED
        BY <4>1, <4>2, <4>3
    <3>3. CASE ~HasRoom
      BY <2>1, <2>2, <3>3 DEF EmitPuts
    <3> QED
      BY <3>2, <3>3
  <2>3. ASSUME NEW where, NEW next, UNCHANGED <<accepted, dispatched, queue>>,
               consumer[c].event = Nothing, Goto(c, next)
        PROVE  J'
    BY <2>3 DEF Goto, Held, TypeOK
  <2>4. ASSUME Start(c) PROVE J'
    BY <2>4 DEF Start, Ended, Looping, Held, TypeOK
  <2>5. ASSUME Loop(c) PROVE J'
    <3>1. consumer[c].event = Nothing
      BY <2>5 DEF Loop, TypeOK, Consumer
    <3> QED
      BY <2>3, <2>5, <3>1 DEF Loop
  <2>6. ASSUME NEW where \in {"get", "drain"}, NEW then, NEW empty, Get(c, where, then, empty)
        PROVE  J'
    <3>1. consumer[c].event = Nothing /\ Held(c) = <<>>
      BY <2>6 DEF Get, TypeOK, Consumer, Held
    <3>2. CASE queue = <<>>
      BY <2>3, <2>6, <3>1, <3>2 DEF Get
    <3>3. CASE queue # <<>>
      <4>1. Head(queue) \in Event
        BY <3>3, HeadTailProperties DEF TypeOK
      <4>2. Held(c)' = <<Head(queue)>> /\ queue' = Tail(queue)
        BY <2>6, <3>3, <4>1 DEF Get, Take, Held, TypeOK, Event, Nothing
      <4>3. accepted' = (dispatched \o <<>>) \o queue /\ dispatched' = dispatched
        BY <2>6, <3>1 DEF Get
      <4> QED
        BY <3>3, <4>2, <4>3, TakeKeepsOrder DEF TypeOK
    <3> QED
      BY <3>2, <3>3
  <2>7. ASSUME NEW where \in {"dispatch", "drainDispatch"}, NEW next, Dispatch(c, where, next)
        PROVE  J'
    <3> DEFINE e == consumer[c].event
    <3>1. e \in Event /\ Held(c) = <<e>>
      BY <2>7 DEF Dispatch, TypeOK, Consumer, Held, Event, Nothing
    <3>2. dispatched' = dispatched \o <<e>> /\ dispatched' \in Seq(Event)
      BY <2>7, <3>1, AppendIsConcat, AppendProperties DEF Dispatch, TypeOK
    <3>3. Held(c)' = <<>>
      BY <2>7 DEF Dispatch, Goto, Held, TypeOK
    <3>4. dispatched' \o <<>> = dispatched'
      BY <3>2, ConcatEmptySeq
    <3> QED
      BY <2>7, <3>1, <3>2, <3>3, <3>4 DEF Dispatch
  <2> QED
    BY <2>1, <2>2, <2>4, <2>5, <2>6, <2>7
       DEF Next, Consume, AppendToLog, EmitChecks, StopBegins, StopReturns, vars
<1>3. J => FirstInFirstOut
  BY DEF FirstInFirstOut
<1> QED
  BY <1>1, <1>2, <1>3, Typing, PTL DEF Spec

\* What a producer that holds the lock is about to emit is the last record of
\* the log; everything accepted comes before it, in the order of the log.
Numbered ==
  /\ \A p, q \in Producers : producer[p] # Idle /\ producer[q] # Idle => p = q
  /\ \A p \in Producers : producer[p] # Idle =>
       producer[p].event = log /\ \A i \in 1..Len(accepted) : accepted[i] < log
  /\ \A i \in 1..Len(accepted) : accepted[i] <= log
  /\ \A i, j \in 1..Len(accepted) : i < j => accepted[i] < accepted[j]

\* Events are accepted in the order of the log, from any number of producers,
\* because transition() appends and emits under one lock.
LEMMA AcceptedInOrder == Spec => []Numbered
<1>1. Init => Numbered
  BY EmptySeq DEF Init, Numbered
<1>2. TypeOK /\ Numbered /\ [Next]_vars => Numbered'
  <2> SUFFICES ASSUME TypeOK, Numbered, [Next]_vars PROVE Numbered'
    OBVIOUS
  <2> USE DEF control
  <2>a. log \in Nat /\ Len(accepted) \in Nat
        /\ \A i \in 1..Len(accepted) : accepted[i] \in Int
    BY LenProperties, BusAssumption DEF TypeOK, Event
  <2>1. ASSUME UNCHANGED <<log, producer, accepted>> PROVE Numbered'
    BY <2>1 DEF Numbered
  <2>2. ASSUME NEW p \in Producers, AppendToLog(p) PROVE Numbered'
    <3>1. \A q \in Producers : producer[q] = Idle
      BY <2>2 DEF AppendToLog, LockIsFree
    <3>2. accepted' = accepted /\ log' = log + 1
      BY <2>2 DEF AppendToLog
    <3>3. producer'[p].event = log' /\ \A q \in Producers : q # p => producer'[q] = Idle
      BY <2>2, <3>1 DEF AppendToLog, TypeOK
    <3>4. \A i \in 1..Len(accepted) : accepted[i] < log'
      BY <2>a, <3>2 DEF Numbered
    <3> QED
      BY <2>a, <3>2, <3>3, <3>4 DEF Numbered
  <2>3. ASSUME NEW p \in Producers, EmitChecks(p) PROVE Numbered'
    <3>1. UNCHANGED <<log, accepted>> /\ producer[p] # Idle
      BY <2>3 DEF EmitChecks, Idle
    <3>2. /\ producer'[p] # Idle => producer'[p].event = producer[p].event
          /\ \A q \in Producers : q # p => producer'[q] = producer[q]
      BY <2>3 DEF EmitChecks, TypeOK
    <3> QED
      BY <3>1, <3>2 DEF Numbered
  <2>4. ASSUME NEW p \in Producers, EmitPuts(p) PROVE Numbered'
    <3> DEFINE e == producer[p].event
    <3>1. producer[p] # Idle /\ e = log /\ log' = log /\ e \in Event
      BY <2>4 DEF EmitPuts, Idle, Numbered, TypeOK, Producer
    <3>2. \A q \in Producers : producer'[q] = Idle
      BY <2>4, <3>1 DEF EmitPuts, Numbered, TypeOK
    <3>3. CASE accepted' = accepted
      BY <3>1, <3>2, <3>3 DEF Numbered
    <3>4. CASE accepted' = Append(accepted, e)
      <4>1. /\ Len(accepted') = Len(accepted) + 1
            /\ \A i \in 1..Len(accepted) : accepted'[i] = accepted[i]
            /\ accepted'[Len(accepted) + 1] = log
        BY <3>1, <3>4, AppendProperties DEF TypeOK
      <4>2. \A i \in 1..Len(accepted) : accepted[i] < log
        BY <3>1 DEF Numbered
      <4>3. \A i \in 1..Len(accepted') : i \in 1..Len(accepted) \/ i = Len(accepted) + 1
        BY <2>a, <4>1
      <4>4. \A i \in 1..Len(accepted') : accepted'[i] <= log'
        BY <2>a, <3>1, <4>1, <4>2, <4>3
      <4>5. ASSUME NEW i \in 1..Len(accepted'), NEW j \in 1..Len(accepted'), i < j
            PROVE  accepted'[i] < accepted'[j]
        <5>1. i \in 1..Len(accepted)
          BY <2>a, <4>1, <4>5
        <5> QED
          BY <2>a, <4>1, <4>2, <4>3, <4>5, <5>1 DEF Numbered
      <4> QED
        BY <3>2, <4>4, <4>5 DEF Numbered
    <3> QED
      BY <2>4, <3>3, <3>4 DEF EmitPuts
  <2> QED
    BY <2>1, <2>2, <2>3, <2>4
       DEF Next, Consume, Start, StopBegins, StopReturns, Loop, Get, Dispatch, vars
<1> QED
  BY <1>1, <1>2, Typing, PTL DEF Spec

\* Handlers see the transitions in the order of the log, from any number of
\* producers, as long as one consumer is alive.
THEOREM LogOrder == ASSUME NEW c, Consumers = {c} PROVE Spec => []EventsFollowLog
<1>1. TypeOK /\ FirstInFirstOut /\ Numbered => EventsFollowLog
  <2> SUFFICES ASSUME TypeOK, FirstInFirstOut, Numbered PROVE EventsFollowLog
    OBVIOUS
  <2>1. Held(c) \in Seq(Event) /\ (dispatched \o Held(c)) \in Seq(Event)
    <3>1. Held(c) \in Seq(Event)
      BY DEF Held, TypeOK, Consumer
    <3> QED
      BY <3>1, ConcatProperties DEF TypeOK
  <2>2. accepted = (dispatched \o Held(c)) \o queue
    BY DEF FirstInFirstOut
  <2>3. /\ DOMAIN dispatched = 1..Len(dispatched) /\ Len(dispatched) \in Nat
        /\ Len(Held(c)) \in Nat /\ Len(queue) \in Nat
    BY <2>1, LenProperties DEF TypeOK
  <2>4. /\ Len(dispatched \o Held(c)) = Len(dispatched) + Len(Held(c))
        /\ \A i \in 1..Len(dispatched) : (dispatched \o Held(c))[i] = dispatched[i]
    BY <2>1, <2>3, ConcatProperties DEF TypeOK
  <2>5. /\ Len(accepted) = Len(dispatched \o Held(c)) + Len(queue)
        /\ \A i \in 1..Len(dispatched \o Held(c)) : accepted[i] = (dispatched \o Held(c))[i]
    BY <2>1, <2>2, <2>3, <2>4, ConcatProperties DEF TypeOK
  <2>6. \A i \in 1..Len(dispatched) : i \in 1..Len(accepted) /\ accepted[i] = dispatched[i]
    BY <2>3, <2>4, <2>5
  <2> QED
    BY <2>3, <2>6 DEF EventsFollowLog, Numbered
<1> QED
  BY <1>1, Typing, Fifo, AcceptedInOrder, PTL

=============================================================================
