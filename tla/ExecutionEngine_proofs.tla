----------------------- MODULE ExecutionEngine_proofs -----------------------
(***************************************************************************)
(* Theorems about ExecutionEngine, for any entries, exits and quantity,    *)
(* any number of waits and restarts, and every submit, booking or cancel   *)
(* that may raise.                                                         *)
(*                                                                         *)
(* The three ideas of the proof.  An order is counted right as long as it  *)
(* can be polled again: cum is what has been booked of it, and once DoPop  *)
(* has dropped cum, no poll of the order can follow (Counted).  What the   *)
(* engine owes the legs of an entry is in todo: a leg that is booked in    *)
(* full either has a sibling that is dead or a cancel of it still to make  *)
(* (SiblingStops).  And two legs whose submits both returned are linked,   *)
(* or their link is still to be made behind everything that places legs    *)
(* (PairInv).                                                              *)
(***************************************************************************)
EXTENDS ExecutionEngine, SequenceTheorems, TLAPS

\* The effects in a list of them.
Pending(s) == {s[i] : i \in 1..Len(s)}

Entry(e) == [base |-> e, suffix |-> ""]

\* An order is filled when its quantity is, can trade below that, and has
\* traded nothing before it is accepted.
BookShape ==
  \A o \in OrderId :
    /\ book[o].status = "FILLED" <=> book[o].filled = Qty
    /\ book[o].status \in {"NONE", "SUBMITTED", "REJECTED"} => book[o].filled = 0

\* What the engine knows has been at the broker.
Known ==
  /\ returned \subseteq mapped
  /\ mapped \subseteq submitted
  /\ \A o \in submitted \cup logSubmit : book[o].status # "NONE"

\* At most one wait, for an order that is known and not finished with.
OneWait ==
  /\ \A v, w \in wait : v = w
  /\ \A w \in wait : w.order \in mapped /\ w.order \notin done

\* Only the first effect may be a booking or a record of an acknowledgement.
\* A call that starts with a booking cancels nothing else and looks at the OCO
\* sibling of no other order.
HeadOnly ==
  todo # <<>> =>
    \A t \in Pending(Tail(todo)) :
      /\ t.do \notin {"book", "record"}
      /\ Head(todo).do = "book" =>
           t.do # "cancel" /\ (t.do = "oco" => t.order = Head(todo).order)

\* The entry e is filled, and booked, in full.
EntryDone(e) == book[Entry(e)].status = "FILLED" /\ booked[Entry(e)] >= Qty

\* What an effect still to be made may rely on.
TaskOK(t) ==
  /\ t.do = "record" =>
       booked[t.order] = 0 /\ t.order \notin mapped /\ book[t.order].status # "NONE"
  /\ t.do = "pop" => \E w \in wait : w.order = t.order /\ w.state = "FILLED"
  /\ t.do = "submit" /\ IsProtective(t.order) => EntryDone(t.order.base)
  /\ t.do = "link" =>
       /\ t.order.base \in Entries
       /\ booked[Leg(t.order.base, "::SL")] = 0
       /\ booked[Leg(t.order.base, "::TP")] = 0
  /\ t.do = "oco" => t.order \in LegId

TasksOK == \A t \in Pending(todo) : TaskOK(t)

\* No poll of o can follow.
Settled(o) ==
  \/ o \in done
  \/ \E w \in wait : /\ w.order = o /\ w.state = "FILLED"
                     /\ \A t \in Pending(todo) : t.do # "book"

Counted ==
  \A o \in OrderId :
    /\ o \notin mapped => cum[o] = 0
    /\ o \in mapped => cum[o] = booked[o] \/ Settled(o)

LinkedKnown ==
  \A e \in linked : Leg(e, "::SL") \in mapped /\ Leg(e, "::TP") \in mapped

\* The engine still has to cancel the sibling of o, or to see that it must.
Owed(o) ==
  \E t \in Pending(todo) :
    \/ t.do = "oco" /\ t.order = o
    \/ t.do = "cancel" /\ t.order = Sibling(o)

SiblingStops ==
  \A o \in LegId :
    o.base \in linked /\ booked[o] = Qty /\ o \notin failed
      => book[Sibling(o)].status \notin Live \/ Sibling(o) \in failed \/ Owed(o)

IInv ==
  /\ TypeOK /\ BookShape /\ Known /\ OneWait /\ HeadOnly /\ TasksOK /\ Counted
  /\ BookedWithinFilled /\ LegsOnlyForFilledEntries /\ LinkedKnown /\ SiblingStops

-----------------------------------------------------------------------------
(* Lists of effects.                                                       *)

LEMMA PendingOfNone == Pending(<<>>) = {}
  BY DEF Pending

LEMMA PendingOfOne == ASSUME NEW x PROVE Pending(<<x>>) = {x}
  BY DEF Pending

LEMMA PendingOfBoth ==
  ASSUME NEW S, NEW s \in Seq(S), NEW t \in Seq(S)
  PROVE  Pending(s \o t) = Pending(s) \cup Pending(t)
<1>1. /\ Len(s \o t) = Len(s) + Len(t)
      /\ \A i \in 1..(Len(s) + Len(t)) :
           (s \o t)[i] = IF i <= Len(s) THEN s[i] ELSE t[i - Len(s)]
  BY ConcatProperties
<1>2. Len(s) \in Nat /\ Len(t) \in Nat
  BY LenProperties
<1>3. ASSUME NEW i \in 1..Len(t) PROVE t[i] \in Pending(s \o t)
  <2>1. Len(s) + i \in 1..(Len(s) + Len(t)) /\ (s \o t)[Len(s) + i] = t[i]
    BY <1>1, <1>2
  <2> QED
    BY <1>1, <2>1 DEF Pending
<1>4. ASSUME NEW i \in 1..Len(s) PROVE s[i] \in Pending(s \o t)
  <2>1. i \in 1..(Len(s) + Len(t)) /\ (s \o t)[i] = s[i]
    BY <1>1, <1>2
  <2> QED
    BY <1>1, <2>1 DEF Pending
<1>5. ASSUME NEW i \in 1..(Len(s) + Len(t)) PROVE (s \o t)[i] \in Pending(s) \cup Pending(t)
  BY <1>1, <1>2, <1>5 DEF Pending
<1> QED
  BY <1>1, <1>3, <1>4, <1>5 DEF Pending

LEMMA HeadAndTail ==
  ASSUME NEW S, NEW s \in Seq(S), s # <<>>
  PROVE  /\ Head(s) \in S /\ Tail(s) \in Seq(S)
         /\ Pending(s) = {Head(s)} \cup Pending(Tail(s))
<1>1. /\ Head(s) \in S /\ Tail(s) \in Seq(S) /\ Len(s) \in Nat \ {0}
      /\ Len(Tail(s)) = Len(s) - 1 /\ \A i \in 1..Len(Tail(s)) : Tail(s)[i] = s[i + 1]
      /\ Head(s) = s[1]
  BY HeadTailProperties, EmptySeq, LenProperties
<1>2. ASSUME NEW i \in 1..Len(s) PROVE s[i] = Head(s) \/ s[i] \in Pending(Tail(s))
  <2>1. CASE i = 1
    BY <1>1, <2>1
  <2>2. CASE i # 1
    <3>1. i - 1 \in 1..Len(Tail(s)) /\ Tail(s)[i - 1] = s[i]
      BY <1>1, <2>2
    <3> QED
      BY <3>1 DEF Pending
  <2> QED
    BY <2>1, <2>2
<1>3. ASSUME NEW i \in 1..Len(Tail(s)) PROVE Tail(s)[i] \in Pending(s)
  <2>1. i + 1 \in 1..Len(s)
    BY <1>1
  <2> QED
    BY <1>1, <2>1 DEF Pending
<1>4. Head(s) \in Pending(s)
  BY <1>1 DEF Pending
<1> QED
  BY <1>1, <1>2, <1>3, <1>4 DEF Pending

LEMMA Prefixed ==
  ASSUME NEW S, NEW x \in S, NEW s \in Seq(S)
  PROVE  /\ <<x>> \o s \in Seq(S) /\ <<x>> \o s # <<>>
         /\ Head(<<x>> \o s) = x /\ Tail(<<x>> \o s) = s
         /\ Pending(<<x>> \o s) = {x} \cup Pending(s)
<1>1. <<x>> \in Seq(S) /\ Len(<<x>>) = 1 /\ <<x>>[1] = x
  OBVIOUS
<1>2. /\ <<x>> \o s \in Seq(S) /\ Len(<<x>> \o s) = 1 + Len(s)
      /\ \A i \in 1..(1 + Len(s)) :
           (<<x>> \o s)[i] = IF i <= 1 THEN x ELSE s[i - 1]
  BY <1>1, ConcatProperties
<1>3. Len(s) \in Nat
  BY LenProperties
<1>4. <<x>> \o s # <<>> /\ Head(<<x>> \o s) = x
  BY <1>2, <1>3, HeadTailProperties, EmptySeq
<1>5. Tail(<<x>> \o s) = s
  <2>1. /\ Tail(<<x>> \o s) \in Seq(S) /\ Len(Tail(<<x>> \o s)) = Len(s)
        /\ \A i \in 1..Len(s) : Tail(<<x>> \o s)[i] = (<<x>> \o s)[i + 1]
    BY <1>2, <1>3, <1>4, HeadTailProperties
  <2>2. \A i \in 1..Len(s) : Tail(<<x>> \o s)[i] = s[i]
    BY <1>2, <1>3, <2>1
  <2> QED
    BY <2>1, <2>2, SeqEqual
<1>6. Pending(<<x>> \o s) = {x} \cup Pending(s)
  <2>1. Pending(<<x>> \o s) = Pending(<<x>>) \cup Pending(s)
    BY ZenonT(60), <1>1, PendingOfBoth
  <2> QED
    BY <2>1, PendingOfOne
<1> QED
  BY <1>2, <1>4, <1>5, <1>6

-----------------------------------------------------------------------------
(* Ids and statuses.                                                       *)

LEMMA Ids ==
  /\ \A e \in Entries :
       /\ Leg(e, "::SL") \in LegId /\ Leg(e, "::TP") \in LegId
       /\ Entry(e) \in MainId /\ ~IsProtective(Entry(e))
       /\ Leg(e, "::SL").base = e /\ Leg(e, "::TP").base = e /\ Entry(e).base = e
  /\ \A o \in LegId :
       /\ o \in OrderId /\ IsProtective(o) /\ o.base \in Entries
       /\ Sibling(o) \in LegId /\ Sibling(Sibling(o)) = o /\ Sibling(o).base = o.base
       /\ \/ o = Leg(o.base, "::SL") /\ Sibling(o) = Leg(o.base, "::TP")
          \/ o = Leg(o.base, "::TP") /\ Sibling(o) = Leg(o.base, "::SL")
  /\ \A o \in MainId : o \in OrderId /\ ~IsProtective(o) /\ o \notin LegId
  /\ \A o \in OrderId : IsBuy(o) => o.base \in Entries /\ o = Entry(o.base)
  /\ \A o \in OrderId : IsProtective(o) => o \in LegId
<1>1. ASSUME NEW e \in Entries
      PROVE  /\ Leg(e, "::SL") \in LegId /\ Leg(e, "::TP") \in LegId
             /\ Entry(e) \in MainId /\ ~IsProtective(Entry(e))
             /\ Leg(e, "::SL").base = e /\ Leg(e, "::TP").base = e /\ Entry(e).base = e
  BY DEF Leg, Entry, LegId, MainId, IsProtective
<1>2. ASSUME NEW o \in LegId
      PROVE  /\ o \in OrderId /\ IsProtective(o) /\ o.base \in Entries
             /\ o = Leg(o.base, "::SL") \/ o = Leg(o.base, "::TP")
  BY DEF LegId, OrderId, IsProtective, Leg
<1>3. ASSUME NEW e \in Entries
      PROVE  Sibling(Leg(e, "::SL")) = Leg(e, "::TP") /\ Sibling(Leg(e, "::TP")) = Leg(e, "::SL")
  BY DEF Leg, Sibling
<1>4. ASSUME NEW o \in MainId PROVE o \in OrderId /\ ~IsProtective(o) /\ o \notin LegId
  BY DEF MainId, LegId, OrderId, IsProtective
<1>5. ASSUME NEW o \in OrderId, IsBuy(o) PROVE o.base \in Entries /\ o = Entry(o.base)
  BY <1>5 DEF OrderId, MainId, LegId, IsProtective, IsBuy, Entry
<1>6. ASSUME NEW o \in OrderId, IsProtective(o) PROVE o \in LegId
  BY <1>6 DEF OrderId, MainId, IsProtective
<1>7. ASSUME NEW o \in LegId
      PROVE  /\ Sibling(o) \in LegId /\ Sibling(Sibling(o)) = o /\ Sibling(o).base = o.base
             /\ \/ o = Leg(o.base, "::SL") /\ Sibling(o) = Leg(o.base, "::TP")
                \/ o = Leg(o.base, "::TP") /\ Sibling(o) = Leg(o.base, "::SL")
  BY <1>1, <1>2, <1>3
<1> QED
  BY <1>1, <1>2, <1>4, <1>5, <1>6, <1>7

LEMMA Tasks ==
  \A o \in OrderId :
    \A d \in {"submit", "record", "cancel", "oco", "link", "pop"} :
      Do(d, o) \in Task /\ Do(d, o).do = d /\ Do(d, o).order = o
  BY QtyAssumption DEF Do, Task

\* What the broker may do to its book: trade more, and end orders for good.
BrokerMoves ==
  /\ book' \in [OrderId -> [status : Status, filled : 0..Qty]]
  /\ BookShape'
  /\ \A o \in OrderId :
       /\ book'[o].filled >= book[o].filled
       /\ book[o].status \notin Live \cup {"NONE"} => book'[o] = book[o]
       /\ book[o].status # "NONE" => book'[o].status # "NONE"

LEMMA BrokerRests == ASSUME TypeOK, BookShape, book' = book PROVE BrokerMoves
  BY DEF BrokerMoves, TypeOK, BookShape

LEMMA FillMoves == ASSUME TypeOK, BookShape, NEW o \in OrderId, Fill(o) PROVE BrokerMoves
<1> DEFINE n == book[o].filled + 1
           b == [status |-> IF n = Qty THEN "FILLED" ELSE "PARTIALLY_FILLED", filled |-> n]
<1>1. /\ book \in [OrderId -> [status : Status, filled : 0..Qty]]
      /\ book' = [book EXCEPT ![o] = b] /\ book[o].status \in Live
  BY DEF Fill, TypeOK
<1>2. book[o].filled \in 0..Qty /\ book[o].filled # Qty
  BY <1>1 DEF BookShape, Live
<1>3. n \in 1..Qty /\ n >= book[o].filled
  BY <1>2, QtyAssumption
<1>4. b \in [status : Status, filled : 0..Qty]
  BY <1>3 DEF Status, Terminal
<1>5. book' \in [OrderId -> [status : Status, filled : 0..Qty]]
  BY <1>1, <1>4
<1>6. BookShape'
  BY <1>1, <1>3 DEF BookShape
<1>7. \A p \in OrderId : book'[p] = IF p = o THEN b ELSE book[p]
  BY <1>1
<1>8. b.status # "NONE"
  OBVIOUS
<1>9. \A p \in OrderId : book[p].filled \in 0..Qty
  BY <1>1
<1> QED
  BY <1>1, <1>3, <1>5, <1>6, <1>7, <1>8, <1>9 DEF BrokerMoves

\* Orders that are placed, cancelled or given up: the status alone changes.
LEMMA StatusMoves ==
  ASSUME TypeOK, BookShape, NEW o \in OrderId, NEW v, v \in Status \ {"NONE", "FILLED"},
         book' = [book EXCEPT ![o].status = v],
         \/ book[o].status = "NONE" /\ v = "SUBMITTED"
         \/ book[o].status = "SUBMITTED" /\ v = "REJECTED"
         \/ book[o].status \in Live /\ v \in {"CANCELLED", "EXPIRED"}
  PROVE  BrokerMoves
<1>1. book \in [OrderId -> [status : Status, filled : 0..Qty]]
  BY DEF TypeOK
<1>2. \A p \in OrderId :
        /\ book'[p].filled = book[p].filled
        /\ book'[p].status = IF p = o THEN v ELSE book[p].status
  BY <1>1
<1>3. book' \in [OrderId -> [status : Status, filled : 0..Qty]]
  BY <1>1
<1>4. BookShape'
  <2> SUFFICES ASSUME NEW p \in OrderId
               PROVE  /\ book'[p].status = "FILLED" <=> book'[p].filled = Qty
                      /\ book'[p].status \in {"NONE", "SUBMITTED", "REJECTED"}
                           => book'[p].filled = 0
    BY DEF BookShape
  <2> QED
    BY <1>2, QtyAssumption DEF BookShape, Live
<1>5. \A p \in OrderId : book[p].status \notin Live \cup {"NONE"} => book'[p] = book[p]
  BY <1>1 DEF Live
<1>6. \A p \in OrderId : book'[p].filled >= book[p].filled
  <2> SUFFICES ASSUME NEW p \in OrderId PROVE book'[p].filled >= book[p].filled
    OBVIOUS
  <2>1. book[p].filled \in 0..Qty
    BY <1>1
  <2> QED
    BY <1>2, <2>1, QtyAssumption
<1> QED
  BY <1>2, <1>3, <1>4, <1>5, <1>6 DEF BrokerMoves

\* Steps that move the broker's book, mark failures, and change what is still
\* to be done, and nothing else of the engine.
LEMMA TodoStep ==
  ASSUME IInv, BrokerMoves, UNCHANGED <<submitted, mapped, linked, cum, durable, driver>>,
         returned' \subseteq mapped,
         failed \subseteq failed', failed' \subseteq OrderId,
         todo' \in Seq(Task), HeadOnly',
         \A t \in Pending(todo)' : t \in Pending(todo) \/ (TaskOK(t)' /\ t.do # "book"),
         \A o \in LegId : book'[o].status # "NONE" =>
           book[o].status # "NONE" \/ EntryDone(o.base),
         \A o \in LegId : o.base \in linked /\ Owed(o) =>
           Owed(o)' \/ book'[Sibling(o)].status \notin Live \/ Sibling(o) \in failed'
  PROVE  IInv'
<1> USE DEF IInv, durable, driver
<1>1. TypeOK'
  BY DEF TypeOK, BrokerMoves
<1>2. BookShape'
  BY DEF BrokerMoves
<1>3. Known'
  BY DEF Known, BrokerMoves, TypeOK
<1>4. OneWait'
  BY DEF OneWait
<1>5. \A e \in Entries : EntryDone(e) => EntryDone(e)'
  BY Ids DEF EntryDone, BrokerMoves, Live
<1>6. TasksOK'
  <2> SUFFICES ASSUME NEW t \in Pending(todo) PROVE TaskOK(t)'
    BY DEF TasksOK
  <2>1. TaskOK(t) /\ t.order \in OrderId
    <3>1. t \in Task
      BY ElementOfSeq DEF TypeOK, Pending
    <3> QED
      BY <3>1 DEF TasksOK, Task
  <2>2. IsProtective(t.order) => t.order.base \in Entries
    BY <2>1, Ids
  <2>3. t.do = "submit" /\ IsProtective(t.order) => EntryDone(t.order.base)'
    BY <1>5, <2>1, <2>2 DEF TaskOK
  <2> QED
    BY <2>1, <2>3 DEF TaskOK, BrokerMoves
<1>7. Counted'
  <2> SUFFICES ASSUME NEW o \in OrderId, Settled(o) PROVE Settled(o)'
    BY DEF Counted
  <2> QED
    BY DEF Settled
<1>8. BookedWithinFilled'
  <2> SUFFICES ASSUME NEW o \in OrderId PROVE booked[o] <= book'[o].filled
    BY DEF BookedWithinFilled
  <2>1. book[o].filled \in Nat /\ book'[o].filled \in Nat /\ booked[o] \in Nat
    BY QtyAssumption DEF TypeOK, BrokerMoves
  <2> QED
    BY <2>1 DEF BookedWithinFilled, BrokerMoves
<1>9. LegsOnlyForFilledEntries'
  <2> SUFFICES ASSUME NEW o \in LegId, book'[o].status # "NONE" PROVE EntryDone(o.base)'
    BY DEF LegsOnlyForFilledEntries, EntryDone, Entry
  <2>1. EntryDone(o.base)
    BY DEF LegsOnlyForFilledEntries, EntryDone, Entry
  <2> QED
    BY <1>5, <2>1, Ids
<1>10. LinkedKnown'
  BY DEF LinkedKnown
<1>11. SiblingStops'
  <2> SUFFICES ASSUME NEW o \in LegId, o.base \in linked, booked[o] = Qty, o \notin failed'
               PROVE  book'[Sibling(o)].status \notin Live \/ Sibling(o) \in failed' \/ Owed(o)'
    BY DEF SiblingStops
  <2>1. Sibling(o) \in mapped /\ Sibling(o) \in OrderId
    BY Ids DEF LinkedKnown
  <2>2. book[Sibling(o)].status # "NONE"
    BY <2>1 DEF Known
  <2>3. book[Sibling(o)].status \notin Live => book'[Sibling(o)].status \notin Live
    BY <2>1, <2>2 DEF BrokerMoves
  <2> QED
    BY <2>3 DEF SiblingStops
<1> QED
  BY <1>1, <1>2, <1>3, <1>4, <1>6, <1>7, <1>8, <1>9, <1>10, <1>11

\* Most of these leave the engine's memory as it is.
LEMMA MemoryRests ==
  ASSUME IInv, UNCHANGED memory
  PROVE  UNCHANGED <<submitted, mapped, linked, cum>> /\ returned' \subseteq mapped
  BY DEF memory, IInv, Known

\* No booking and no record: such effects may come in any order.
Free(s) == \A t \in Pending(s) : t.do \notin {"book", "record"}

LEMMA FreeIsHeadOnly ==
  ASSUME todo' \in Seq(Task), Free(todo') PROVE HeadOnly'
<1> SUFFICES ASSUME todo' # <<>>, NEW t \in Pending(Tail(todo'))
             PROVE  /\ t.do \notin {"book", "record"}
                    /\ Head(todo').do = "book" =>
                         t.do # "cancel" /\ (t.do = "oco" => t.order = Head(todo').order)
  BY DEF HeadOnly
<1>1. Pending(todo') = {Head(todo')} \cup Pending(Tail(todo'))
  BY HeadAndTail
<1> QED
  BY <1>1 DEF Free

\* The effects behind the first one.
LEMMA Behind ==
  ASSUME TypeOK, HeadOnly, todo # <<>>
  PROVE  /\ Head(todo) \in Task /\ Tail(todo) \in Seq(Task) /\ Free(Tail(todo))
         /\ Pending(todo) = {Head(todo)} \cup Pending(Tail(todo))
         /\ Head(todo).order \in OrderId
<1>1. todo \in Seq(Task)
  BY DEF TypeOK
<1>2. /\ Head(todo) \in Task /\ Tail(todo) \in Seq(Task)
      /\ Pending(todo) = {Head(todo)} \cup Pending(Tail(todo))
  BY <1>1, HeadAndTail
<1> QED
  BY <1>2 DEF HeadOnly, Free, Task

-----------------------------------------------------------------------------
(* The steps that TodoStep is about.                                       *)

LEMMA BrokerStep ==
  ASSUME IInv, NEW o \in OrderId, Fill(o) \/ GiveUp(o) PROVE IInv'
<1>1. UNCHANGED <<memory, durable, todo, driver, failed>>
  BY DEF Fill, GiveUp
<1>2. BrokerMoves
  <2>1. CASE Fill(o)
    BY <2>1, FillMoves DEF IInv
  <2>2. CASE GiveUp(o)
    <3>1. PICK v \in {"REJECTED", "EXPIRED"} :
            /\ book' = [book EXCEPT ![o].status = v]
            /\ \/ book[o].status = "SUBMITTED" /\ v = "REJECTED"
               \/ book[o].status \in Live /\ v \in {"CANCELLED", "EXPIRED"}
      BY <2>2 DEF GiveUp
    <3>2. v \in Status \ {"NONE", "FILLED"}
      BY DEF Status, Terminal
    <3> QED
      BY <3>1, <3>2, StatusMoves DEF IInv
  <2> QED
    BY <2>1, <2>2
<1>3. \A p \in OrderId : book'[p].status # "NONE" => book[p].status # "NONE"
  <2>1. book \in [OrderId -> [status : Status, filled : 0..Qty]] /\ book[o].status # "NONE"
    BY DEF IInv, TypeOK, Fill, GiveUp, Live
  <2> QED
    BY <2>1 DEF Fill, GiveUp
<1>4. /\ todo' \in Seq(Task) /\ HeadOnly' /\ failed' = failed /\ failed \subseteq OrderId
      /\ \A p : Owed(p)' = Owed(p)
  BY <1>1 DEF IInv, TypeOK, HeadOnly, Owed
<1>5. \A p \in LegId : p \in OrderId
  BY Ids
<1> QED
  BY <1>1, <1>2, <1>3, <1>4, <1>5, MemoryRests, TodoStep

LEMMA SubmitStep == ASSUME IInv, NEW o \in OrderId, Submit(o) PROVE IInv'
<1>1. /\ UNCHANGED <<book, memory, durable, driver, failed>> /\ todo = <<>>
      /\ o \in MainId /\ todo' = <<Do("submit", o)>>
  BY DEF Submit, Idle
<1>2. todo' \in Seq(Task) /\ Pending(todo') = {Do("submit", o)}
  BY <1>1, Tasks, PendingOfOne
<1>3. \A t \in Pending(todo') : t.do = "submit" /\ t.order = o
  BY <1>2, Tasks
<1>4. HeadOnly' /\ \A t \in Pending(todo') : TaskOK(t)' /\ t.do # "book"
  BY <1>1, <1>2, <1>3, FreeIsHeadOnly, Ids DEF Free, TaskOK
<1>5. \A p : ~Owed(p)
  BY <1>1, PendingOfNone DEF Owed
<1>6. BrokerMoves
  BY <1>1, BrokerRests DEF IInv
<1>7. failed' = failed /\ failed \subseteq OrderId
  BY <1>1 DEF IInv, TypeOK
<1> QED
  BY <1>1, <1>2, <1>4, <1>5, <1>6, <1>7, MemoryRests, TodoStep

LEMMA SentStep == ASSUME IInv, NEW o \in OrderId, Sent(o) PROVE IInv'
<1>1. /\ todo # <<>> /\ Head(todo).do = "submit" /\ Head(todo).order = o
      /\ UNCHANGED <<submitted, mapped, linked, cum, durable, driver, failed>>
      /\ returned' \subseteq mapped
  BY DEF Sent, Next1, IInv, Known
<1>2. /\ Head(todo) \in Task /\ Tail(todo) \in Seq(Task) /\ Free(Tail(todo))
      /\ Pending(todo) = {Head(todo)} \cup Pending(Tail(todo))
  BY <1>1, Behind DEF IInv
<1>3. \A p \in LegId : Owed(p) => \E t \in Pending(Tail(todo)) :
        \/ t.do = "oco" /\ t.order = p
        \/ t.do = "cancel" /\ t.order = Sibling(p)
  BY <1>1, <1>2 DEF Owed
<1>4. failed' = failed /\ failed \subseteq OrderId
  BY <1>1 DEF IInv, TypeOK
<1>5. CASE book' = book /\ todo' = Tail(todo)
  <2>1. HeadOnly' /\ todo' \in Seq(Task) /\ \A t \in Pending(todo)' : t \in Pending(todo)
    BY <1>2, <1>5, FreeIsHeadOnly DEF IInv
  <2>2. BrokerMoves
    BY <1>5, BrokerRests DEF IInv
  <2>3. \A p \in LegId : Owed(p) => Owed(p)'
    BY <1>3, <1>5 DEF Owed
  <2> QED
    BY <1>1, <1>4, <1>5, <2>1, <2>2, <2>3, TodoStep
<1>6. CASE /\ o \notin submitted /\ Place(o)
           /\ todo' \in {Tail(todo), <<Do("record", o)>> \o Tail(todo)}
  <2>1. book[o].status = "NONE" /\ book' = [book EXCEPT ![o].status = "SUBMITTED"]
    BY <1>6 DEF Place
  <2>2. BrokerMoves
    BY <2>1, StatusMoves DEF IInv, Status, Terminal
  <2>3. \A p \in OrderId : book'[p].status # "NONE" => p = o \/ book[p].status # "NONE"
    BY <2>1 DEF IInv, TypeOK
  <2>4. /\ o \notin mapped /\ booked[o] = 0 /\ book'[o].status = "SUBMITTED"
    <3>1. book[o].filled = 0 /\ booked[o] \in Nat /\ booked[o] <= book[o].filled
      BY <2>1 DEF IInv, BookShape, BookedWithinFilled, TypeOK
    <3>2. o \notin mapped
      BY <1>6 DEF IInv, Known
    <3> QED
      BY <2>1, <3>1, <3>2 DEF IInv, TypeOK
  <2>5. IsProtective(o) => EntryDone(o.base)
    BY <1>1, <1>2 DEF IInv, TasksOK, TaskOK
  <2>6. \A p \in LegId : book'[p].status # "NONE" => book[p].status # "NONE" \/ EntryDone(p.base)
    BY <2>3, <2>5, Ids
  <2>7. CASE todo' = Tail(todo)
    <3>1. HeadOnly' /\ todo' \in Seq(Task) /\ \A t \in Pending(todo)' : t \in Pending(todo)
      BY <1>2, <2>7, FreeIsHeadOnly DEF IInv
    <3>2. \A p \in LegId : Owed(p) => Owed(p)'
      BY <1>3, <2>7 DEF Owed
    <3> QED
      BY <1>1, <1>4, <2>2, <2>6, <3>1, <3>2, TodoStep
  <2>8. CASE todo' = <<Do("record", o)>> \o Tail(todo)
    <3>1. Do("record", o) \in Task /\ Do("record", o).do = "record" /\ Do("record", o).order = o
      BY Tasks
    <3>2. /\ todo' \in Seq(Task) /\ Head(todo') = Do("record", o) /\ Tail(todo') = Tail(todo)
          /\ Pending(todo') = {Do("record", o)} \cup Pending(Tail(todo))
      <4> DEFINE x == Do("record", o)
                 later == Tail(todo)
      <4>1. x \in Task /\ later \in Seq(Task) /\ todo' = <<x>> \o later
        BY <1>2, <2>8, <3>1
      <4> HIDE DEF x, later
      <4>2. /\ todo' \in Seq(Task) /\ Head(todo') = x /\ Tail(todo') = later
            /\ Pending(todo') = {x} \cup Pending(later)
        BY <4>1, Prefixed
      <4> QED
        BY <4>2 DEF x, later
    <3>3. HeadOnly'
      BY <1>2, <3>1, <3>2 DEF HeadOnly, Free
    <3>4. TaskOK(Do("record", o))'
      BY <1>1, <2>4, <3>1 DEF TaskOK, durable
    <3>5. \A p \in LegId : Owed(p) => Owed(p)'
      BY <1>3, <3>2 DEF Owed
    <3>6. \A t \in Pending(todo)' : t \in Pending(todo) \/ (TaskOK(t)' /\ t.do # "book")
      BY <1>2, <3>1, <3>2, <3>4
    <3> QED
      BY <1>1, <1>4, <2>2, <2>6, <3>2, <3>3, <3>5, <3>6, TodoStep
  <2> QED
    BY <1>6, <2>7, <2>8
<1> QED
  BY <1>5, <1>6 DEF Sent

LEMMA CancelStep == ASSUME IInv, DoCancel PROVE IInv'
<1> DEFINE o == Head(todo).order
<1>1. /\ todo # <<>> /\ Head(todo).do = "cancel" /\ todo' = Tail(todo)
      /\ UNCHANGED <<memory, durable, driver>>
      /\ \/ CancelAtBroker(o) /\ failed' = failed
         \/ book[o].status \notin Live /\ book' = book /\ failed' = failed
         \/ failed' = failed \cup {o} /\ book' = book
  BY DEF DoCancel, Next1
<1>2. /\ Tail(todo) \in Seq(Task) /\ Free(Tail(todo)) /\ o \in OrderId
      /\ Pending(todo) = {Head(todo)} \cup Pending(Tail(todo))
  BY <1>1, Behind DEF IInv
<1>3. BrokerMoves
  <2>1. CASE CancelAtBroker(o)
    BY <1>2, <2>1, StatusMoves DEF CancelAtBroker, IInv, Status, Terminal
  <2>2. CASE book' = book
    BY <2>2, BrokerRests DEF IInv
  <2> QED
    BY <1>1, <2>1, <2>2
<1>4. /\ \A p \in OrderId : book'[p].status # "NONE" => book[p].status # "NONE"
      /\ book'[o].status \notin Live \/ o \in failed'
  <2>1. book \in [OrderId -> [status : Status, filled : 0..Qty]]
    BY DEF IInv, TypeOK
  <2>2. CASE CancelAtBroker(o)
    <3>1. book[o].status # "NONE" /\ book' = [book EXCEPT ![o].status = "CANCELLED"]
      BY <2>2 DEF CancelAtBroker, Live
    <3>2. "CANCELLED" \notin Live
      BY DEF Live
    <3> QED
      BY <1>2, <2>1, <3>1, <3>2
  <2>3. CASE book' = book /\ (book[o].status \notin Live \/ o \in failed')
    BY <2>3
  <2> QED
    BY <1>1, <2>2, <2>3
<1>5. failed \subseteq failed' /\ failed' \subseteq OrderId
  BY <1>1, <1>2 DEF IInv, TypeOK
<1>6. \A p \in LegId : Owed(p) =>
        Owed(p)' \/ book'[Sibling(p)].status \notin Live \/ Sibling(p) \in failed'
  BY <1>1, <1>2, <1>4 DEF Owed
<1>7. todo' \in Seq(Task) /\ HeadOnly' /\ \A t \in Pending(todo)' : t \in Pending(todo)
  BY <1>1, <1>2, FreeIsHeadOnly
<1>8. \A p \in LegId : p \in OrderId
  BY Ids
<1> QED
  BY <1>1, <1>3, <1>4, <1>5, <1>6, <1>7, <1>8, MemoryRests, TodoStep

LEMMA OcoStep == ASSUME IInv, DoOco PROVE IInv'
<1> DEFINE o == Head(todo).order
           later == Tail(todo)
<1>1. /\ todo # <<>> /\ Head(todo).do = "oco" /\ todo' = CancelSibling(o) \o later
      /\ UNCHANGED <<book, memory, durable, driver, failed>>
  BY DEF DoOco, Next1
<1>2. /\ later \in Seq(Task) /\ Free(later)
      /\ Pending(todo) = {Head(todo)} \cup Pending(later)
  BY <1>1, Behind DEF IInv
<1>3. o \in LegId /\ o \in OrderId /\ Sibling(o) \in OrderId
  BY <1>1, <1>2, Ids DEF IInv, TasksOK, TaskOK
<1>4. /\ BrokerMoves /\ failed' = failed /\ failed \subseteq OrderId
  BY <1>1, BrokerRests DEF IInv, TypeOK
<1> HIDE DEF o, later
<1>5. CASE o.base \in linked
  <2>1. PICK c \in Task : c = Do("cancel", Sibling(o)) /\ c.do = "cancel" /\ c.order = Sibling(o)
    BY <1>3, Tasks
  <2>2. Sibling(o) \in mapped
    BY <1>3, <1>5, Ids DEF IInv, LinkedKnown
  <2>3. todo' = <<c>> \o later
    BY <1>1, <1>5, <2>1, <2>2 DEF CancelSibling
  <2>4. todo' \in Seq(Task) /\ Pending(todo') = {c} \cup Pending(later)
    BY <1>2, <2>1, <2>3, Prefixed
  <2>5. HeadOnly' /\ TaskOK(c)' /\ c.do # "book"
    BY <1>2, <2>1, <2>4, FreeIsHeadOnly DEF Free, TaskOK
  <2>6. \A t \in Pending(todo)' : t \in Pending(todo) \/ (TaskOK(t)' /\ t.do # "book")
    BY <1>2, <2>4, <2>5
  <2>7. \A p \in LegId : Owed(p) => Owed(p)'
    <3> SUFFICES ASSUME NEW p \in LegId, Owed(p) PROVE Owed(p)'
      OBVIOUS
    <3>1. PICK t \in Pending(todo) : \/ t.do = "oco" /\ t.order = p
                                     \/ t.do = "cancel" /\ t.order = Sibling(p)
      BY DEF Owed
    <3>2. CASE t \in Pending(later)
      BY <2>4, <3>1, <3>2 DEF Owed
    <3>3. CASE t = Head(todo)
      <4>1. p = o
        BY <1>1, <3>1, <3>3 DEF o
      <4> QED
        BY <2>1, <2>4, <4>1 DEF Owed
    <3> QED
      BY <1>2, <3>2, <3>3
  <2> QED
    BY <1>1, <1>4, <2>4, <2>5, <2>6, <2>7, MemoryRests, TodoStep
<1>6. CASE o.base \notin linked
  <2>1. CancelSibling(o) = <<>> /\ <<>> \o later = later
    BY <1>2, <1>6, ConcatEmptySeq DEF CancelSibling
  <2>2. todo' = later
    BY <1>1, <2>1
  <2>3. todo' \in Seq(Task) /\ HeadOnly' /\ \A t \in Pending(todo)' : t \in Pending(todo)
    BY <1>2, <2>2, FreeIsHeadOnly
  <2>4. \A p \in LegId : p.base \in linked /\ Owed(p) => Owed(p)'
    BY <1>1, <1>2, <1>6, <2>2 DEF Owed, o
  <2> QED
    BY <1>1, <1>4, <2>3, <2>4, MemoryRests, TodoStep
<1> QED
  BY <1>5, <1>6

-----------------------------------------------------------------------------
(* The driver.                                                             *)

LEMMA WaitStep == ASSUME IInv, NEW o \in OrderId, Wait(o) PROVE IInv'
<1>1. /\ todo = <<>> /\ wait = {} /\ o \in mapped /\ o \notin done
      /\ wait' = {[order |-> o, state |-> "SUBMITTED", prev |-> "SUBMITTED"]}
      /\ UNCHANGED <<book, memory, durable, todo, done, failed>>
  BY DEF Wait, Idle, IInv, Known
<1> USE <1>1 DEF IInv, memory, durable
<1>2. TypeOK'
  BY DEF TypeOK, Waiting, Status
<1>3. OneWait'
  BY DEF OneWait
<1>4. \A p : Settled(p) => Settled(p)'
  BY DEF Settled
<1>5. Counted'
  BY <1>4 DEF Counted
<1>6. TasksOK'
  BY PendingOfNone DEF TasksOK
<1>7. BookShape' /\ Known' /\ HeadOnly' /\ BookedWithinFilled' /\ LinkedKnown'
  BY DEF BookShape, Known, HeadOnly, BookedWithinFilled, LinkedKnown
<1>8. LegsOnlyForFilledEntries' /\ SiblingStops'
  BY DEF LegsOnlyForFilledEntries, SiblingStops, Owed
<1> QED
  BY <1>2, <1>3, <1>5, <1>6, <1>7, <1>8

LEMMA WaitReturnsStep == ASSUME IInv, WaitReturns PROVE IInv'
<1>1. PICK w \in wait :
        \/ /\ w.state \in Terminal
           /\ done' = done \cup {w.order}
           /\ todo' = <<>>
        \/ /\ w.state \notin Terminal
           /\ UNCHANGED <<done, todo>>
        \/ /\ w.state \notin {"FILLED", "PARTIALLY_FILLED"}
           /\ done' = done \cup {w.order}
           /\ todo' = <<Do("cancel", w.order)>>
  BY DEF WaitReturns
<1>2. /\ todo = <<>> /\ wait' = {} /\ UNCHANGED <<book, memory, durable, failed>>
  BY DEF WaitReturns
<1>3. w.order \in OrderId /\ \A v \in wait : v = w
  BY DEF IInv, TypeOK, Waiting, OneWait
<1>4. /\ todo' \in Seq(Task) /\ done' \subseteq OrderId
      /\ \A t \in Pending(todo') : t.do = "cancel"
  <2>1. CASE todo' = <<>>
    BY <1>1, <1>3, <2>1, PendingOfNone, EmptySeq DEF IInv, TypeOK
  <2>2. CASE todo' = <<Do("cancel", w.order)>>
    <3>1. Pending(todo') = {Do("cancel", w.order)} /\ todo' \in Seq(Task)
      BY <1>3, <2>2, PendingOfOne, Tasks
    <3> QED
      BY <1>1, <1>3, <3>1, Tasks DEF IInv, TypeOK
  <2> QED
    BY <1>1, <1>2, <2>1, <2>2
<1>5. \A o : Settled(o) => o \in done'
  BY <1>1, <1>3 DEF Settled, Terminal
<1> USE <1>2 DEF IInv, memory, durable
<1>6. TypeOK'
  BY <1>4 DEF TypeOK
<1>7. OneWait'
  BY DEF OneWait
<1>8. Counted'
  BY <1>5 DEF Counted, Settled
<1>9. TasksOK' /\ HeadOnly'
  BY <1>4, FreeIsHeadOnly DEF TasksOK, TaskOK, Free
<1>10. BookShape' /\ Known' /\ BookedWithinFilled' /\ LinkedKnown'
  BY DEF BookShape, Known, BookedWithinFilled, LinkedKnown
<1>11. LegsOnlyForFilledEntries'
  BY DEF LegsOnlyForFilledEntries
<1>12. SiblingStops'
  BY PendingOfNone DEF SiblingStops, Owed
<1> QED
  BY <1>6, <1>7, <1>8, <1>9, <1>10, <1>11, <1>12

-----------------------------------------------------------------------------
(* The engine.                                                             *)

LEMMA RecordedStep == ASSUME IInv, NEW o \in OrderId, Recorded(o) PROVE IInv'
<1>1. /\ todo # <<>> /\ Head(todo).do = "record" /\ Head(todo).order = o
      /\ submitted' = submitted \cup {o} /\ mapped' = mapped \cup {o}
      /\ logSubmit' \in {logSubmit, logSubmit \cup {o}} /\ todo' = Tail(todo)
      /\ returned' \subseteq returned \cup {o}
      /\ failed \subseteq failed' /\ failed' \subseteq failed \cup {o}
      /\ UNCHANGED <<book, linked, cum, position, owner, booked, driver>>
  BY DEF Recorded, Next1
<1>2. /\ Head(todo) \in Task /\ Tail(todo) \in Seq(Task) /\ Free(Tail(todo))
      /\ Pending(todo) = {Head(todo)} \cup Pending(Tail(todo))
  BY <1>1, Behind DEF IInv
<1>3. booked[o] = 0 /\ o \notin mapped /\ book[o].status # "NONE" /\ cum[o] = 0
  BY <1>1, <1>2 DEF IInv, TasksOK, TaskOK, Counted
<1> USE <1>1 DEF IInv, driver
<1>4. TypeOK'
  BY <1>2 DEF TypeOK
<1>5. Known'
  BY <1>3 DEF Known
<1>6. OneWait' /\ LinkedKnown'
  BY DEF OneWait, LinkedKnown
<1>7. HeadOnly'
  BY <1>2, FreeIsHeadOnly
<1>8. TasksOK'
  BY <1>2 DEF TasksOK, TaskOK, Free, EntryDone
<1>9. \A p : Settled(p) => Settled(p)'
  BY <1>2 DEF Settled
<1>10. Counted'
  BY <1>3, <1>9 DEF Counted
<1>11. BookShape' /\ BookedWithinFilled' /\ LegsOnlyForFilledEntries'
  BY DEF BookShape, BookedWithinFilled, LegsOnlyForFilledEntries
<1>12. \A p : Owed(p) => Owed(p)'
  BY <1>2 DEF Owed
<1>13. SiblingStops'
  BY <1>12 DEF SiblingStops
<1> QED
  BY <1>4, <1>5, <1>6, <1>7, <1>8, <1>10, <1>11, <1>13

LEMMA LinkStep == ASSUME IInv, DoLink PROVE IInv'
<1> DEFINE e == Head(todo).order.base
<1>1. /\ todo # <<>> /\ Head(todo).do = "link" /\ todo' = Tail(todo)
      /\ linked' = IF {Leg(e, "::SL"), Leg(e, "::TP")} \subseteq returned
                   THEN linked \cup {e} ELSE linked
      /\ UNCHANGED <<book, submitted, mapped, returned, cum, durable, driver, failed>>
  BY DEF DoLink, Next1
<1>2. /\ Head(todo) \in Task /\ Tail(todo) \in Seq(Task) /\ Free(Tail(todo))
      /\ Pending(todo) = {Head(todo)} \cup Pending(Tail(todo))
  BY <1>1, Behind DEF IInv
<1>3. e \in Entries /\ booked[Leg(e, "::SL")] = 0 /\ booked[Leg(e, "::TP")] = 0
  BY <1>1, <1>2 DEF IInv, TasksOK, TaskOK
<1> HIDE DEF e
<1> USE <1>1 DEF IInv, driver, durable
<1>4. TypeOK'
  BY <1>2, <1>3 DEF TypeOK
<1>5. Known' /\ OneWait' /\ BookShape' /\ BookedWithinFilled' /\ LegsOnlyForFilledEntries'
  BY DEF Known, OneWait, BookShape, BookedWithinFilled, LegsOnlyForFilledEntries
<1>6. LinkedKnown'
  BY DEF LinkedKnown, Known
<1>7. HeadOnly'
  BY <1>2, FreeIsHeadOnly
<1>8. TasksOK'
  BY <1>2 DEF TasksOK, TaskOK, EntryDone
<1>9. Counted'
  BY <1>2 DEF Counted, Settled
<1>10. SiblingStops'
  <2> SUFFICES ASSUME NEW o \in LegId, o.base \in linked', booked[o] = Qty, o \notin failed
               PROVE  book[Sibling(o)].status \notin Live \/ Sibling(o) \in failed \/ Owed(o)'
    BY DEF SiblingStops
  <2>1. o.base \in linked
    BY <1>3, Ids, QtyAssumption
  <2>2. Owed(o) => Owed(o)'
    BY <1>2 DEF Owed
  <2> QED
    BY <2>1, <2>2 DEF SiblingStops
<1> QED
  BY <1>4, <1>5, <1>6, <1>7, <1>8, <1>9, <1>10

LEMMA PopStep == ASSUME IInv, DoPop PROVE IInv'
<1>0. PICK o \in OrderId : o = Head(todo).order
  BY Behind DEF DoPop, Next1, IInv
<1>1. /\ todo # <<>> /\ Head(todo).do = "pop" /\ todo' = Tail(todo)
      /\ cum' = [cum EXCEPT ![o] = 0]
      /\ UNCHANGED <<book, submitted, mapped, returned, linked, durable, driver, failed>>
  BY <1>0 DEF DoPop, Next1
<1>2. /\ Tail(todo) \in Seq(Task) /\ Free(Tail(todo)) /\ o \in OrderId
      /\ Pending(todo) = {Head(todo)} \cup Pending(Tail(todo))
  BY <1>0, <1>1, Behind DEF IInv
<1>3. \E w \in wait : w.order = o /\ w.state = "FILLED"
  BY <1>0, <1>1, <1>2 DEF IInv, TasksOK, TaskOK
<1> USE <1>1 DEF IInv, driver, durable
<1>4. TypeOK'
  BY <1>2, QtyAssumption DEF TypeOK
<1>5. /\ Known' /\ OneWait' /\ BookShape' /\ BookedWithinFilled' /\ LegsOnlyForFilledEntries'
      /\ LinkedKnown'
  BY DEF Known, OneWait, BookShape, BookedWithinFilled,
         LegsOnlyForFilledEntries, LinkedKnown
<1>6. HeadOnly'
  BY <1>2, FreeIsHeadOnly
<1>7. TasksOK'
  BY <1>2 DEF TasksOK, TaskOK, EntryDone
<1>8. Counted'
  <2>1. PICK w \in wait : w.order = o /\ w.state = "FILLED"
    BY <1>3
  <2>2. w \in wait' /\ todo' = Tail(todo)
    OBVIOUS
  <2>3. \A t \in Pending(todo') : t.do # "book"
    BY <1>2 DEF Free
  <2>4. Settled(o)'
    BY <2>1, <2>2, <2>3 DEF Settled
  <2>5. \A p : Settled(p) => Settled(p)'
    BY <1>2 DEF Settled
  <2>6. \A p \in OrderId : cum'[p] = IF p = o THEN 0 ELSE cum[p]
    BY DEF TypeOK
  <2> QED
    BY <2>4, <2>5, <2>6 DEF Counted
<1>9. \A p : Owed(p) => Owed(p)'
  BY <1>2 DEF Owed
<1>10. SiblingStops'
  BY <1>9 DEF SiblingStops
<1> QED
  BY <1>4, <1>5, <1>6, <1>7, <1>8, <1>10

LEMMA RestartStep == ASSUME IInv, Restart PROVE IInv'
<1> USE PendingOfNone DEF IInv, Restart, Seeds, durable
<1>1. TypeOK'
  BY QtyAssumption, EmptySeq DEF TypeOK
<1>2. /\ Known' /\ OneWait' /\ BookShape' /\ BookedWithinFilled' /\ LegsOnlyForFilledEntries'
      /\ LinkedKnown' /\ HeadOnly' /\ TasksOK'
  BY DEF Known, OneWait, BookShape, BookedWithinFilled,
         LegsOnlyForFilledEntries, LinkedKnown, HeadOnly, TasksOK
<1>3. Counted' /\ SiblingStops'
  BY DEF Counted, SiblingStops
<1> QED
  BY <1>1, <1>2, <1>3

\* A list of one effect, or of none.
LEMMA Optional ==
  ASSUME NEW d \in {"submit", "record", "cancel", "oco", "link", "pop"}, NEW o, NEW c,
         c => o \in OrderId
  PROVE  \E s \in Seq(Task) : /\ s = IF c THEN <<Do(d, o)>> ELSE <<>>
                             /\ \A t \in Pending(s) : t.do = d
<1> DEFINE s == IF c THEN <<Do(d, o)>> ELSE <<>>
<1>1. s \in Seq(Task) /\ \A t \in Pending(s) : t.do = d
  <2>1. CASE c
    <3>1. Do(d, o) \in Task /\ Do(d, o).do = d
      BY <2>1, Tasks
    <3> QED
      BY <2>1, <3>1, PendingOfOne
  <2>2. CASE ~c
    BY <2>2, PendingOfNone, EmptySeq
  <2> QED
    BY <2>1, <2>2
<1> QED
  BY <1>1

\* The cancels of an entry's legs: of those that are known.
LEMMA CancelsOfLegs ==
  ASSUME TypeOK, NEW e
  PROVE  /\ CancelLegs(e) \in Seq(Task)
         /\ \A t \in Pending(CancelLegs(e)) : t.do = "cancel"
         /\ \A o \in LegId : o.base = e /\ o \in mapped =>
              \E t \in Pending(CancelLegs(e)) : t.do = "cancel" /\ t.order = o
<1> DEFINE sl == Leg(e, "::SL")
           tp == Leg(e, "::TP")
           one == IF sl \in mapped THEN <<Do("cancel", sl)>> ELSE <<>>
           two == IF tp \in mapped THEN <<Do("cancel", tp)>> ELSE <<>>
<1>1. mapped \subseteq OrderId
  BY DEF TypeOK
<1>2. /\ one \in Seq(Task)
      /\ \A t \in Pending(one) : t.do = "cancel"
      /\ sl \in mapped => \E t \in Pending(one) : t.do = "cancel" /\ t.order = sl
  <2>1. CASE sl \in mapped
    <3>1. Do("cancel", sl) \in Task /\ Do("cancel", sl).do = "cancel" /\ Do("cancel", sl).order = sl
      BY <1>1, <2>1, Tasks
    <3> QED
      BY <2>1, <3>1, PendingOfOne
  <2>2. CASE sl \notin mapped
    BY <2>2, PendingOfNone, EmptySeq
  <2> QED
    BY <2>1, <2>2
<1>3. /\ two \in Seq(Task)
      /\ \A t \in Pending(two) : t.do = "cancel"
      /\ tp \in mapped => \E t \in Pending(two) : t.do = "cancel" /\ t.order = tp
  <2>1. CASE tp \in mapped
    <3>1. Do("cancel", tp) \in Task /\ Do("cancel", tp).do = "cancel" /\ Do("cancel", tp).order = tp
      BY <1>1, <2>1, Tasks
    <3> QED
      BY <2>1, <3>1, PendingOfOne
  <2>2. CASE tp \notin mapped
    BY <2>2, PendingOfNone, EmptySeq
  <2> QED
    BY <2>1, <2>2
<1>4. CancelLegs(e) = one \o two
  BY DEF CancelLegs
<1> HIDE DEF one, two, sl, tp
<1>5. one \o two \in Seq(Task) /\ Pending(one \o two) = Pending(one) \cup Pending(two)
  BY <1>2, <1>3, PendingOfBoth, ConcatProperties
<1>6. \A o \in LegId : o.base = e => o = sl \/ o = tp
  BY Ids DEF sl, tp
<1> QED
  BY <1>2, <1>3, <1>4, <1>5, <1>6

\* What a booking that does not raise leaves to be done.
LEMMA BookedTodo ==
  ASSUME IInv, DoBook, UNCHANGED wait, todo # <<>>, Head(todo).do = "book",
         IF IsBuy(Head(todo).order) THEN BookBuy(Head(todo).order, Head(todo).qty)
                                    ELSE BookSell(Head(todo).order, Head(todo).qty)
  PROVE  /\ todo' \in Seq(Task) /\ Free(todo')
         /\ Pending(Tail(todo)) \subseteq Pending(todo')
         /\ \A t \in Pending(todo') : t \in Pending(Tail(todo)) \/ t.do = "cancel"
         /\ position' \in Nat /\ owner' \in Entries \cup {NoOwner}
<1> DEFINE o == Head(todo).order
           n == Head(todo).qty
<1>1. /\ o \in OrderId /\ n \in 0..Qty /\ n \in Nat
      /\ Tail(todo) \in Seq(Task) /\ Free(Tail(todo))
  BY Behind, QtyAssumption DEF IInv, Task
<1>2. position \in Nat /\ owner \in Entries \cup {NoOwner}
  BY DEF IInv, TypeOK
<1>3. CASE todo' = Tail(todo)
  <2>1. position' \in Nat /\ owner' \in Entries \cup {NoOwner}
    <3>1. CASE IsBuy(o)
      BY <1>1, <1>2, <3>1, Ids DEF BookBuy, Upsert
    <3>2. CASE ~IsBuy(o)
      BY <1>1, <1>2, <3>2 DEF BookSell, Upsert, Delete, Remaining
    <3> QED
      BY <3>1, <3>2
  <2> QED
    BY <1>1, <1>3, <2>1
<1>4. CASE ~IsBuy(o) /\ position # 0
  <2>1. /\ IF Remaining(n) = 0 THEN Delete ELSE Upsert(Remaining(n), owner)
        /\ todo' = (IF Remaining(n) = 0 /\ ~IsProtective(o) THEN CancelLegs(owner) ELSE <<>>)
                     \o Tail(todo)
    BY <1>4 DEF BookSell
  <2>2. position' \in Nat /\ owner' \in Entries \cup {NoOwner}
    BY <1>1, <1>2, <2>1 DEF Upsert, Delete, Remaining
  <2> DEFINE first == IF Remaining(n) = 0 /\ ~IsProtective(o) THEN CancelLegs(owner) ELSE <<>>
  <2>3. first \in Seq(Task) /\ \A t \in Pending(first) : t.do = "cancel"
    BY CancelsOfLegs, PendingOfNone, EmptySeq DEF IInv
  <2>4. todo' = first \o Tail(todo)
    BY <2>1
  <2> DEFINE later == Tail(todo)
  <2>5. later \in Seq(Task) /\ todo' = first \o later
    BY <1>1, <2>4
  <2> HIDE DEF first, later
  <2>6. todo' \in Seq(Task)
    BY <2>3, <2>5, ConcatProperties
  <2>7. Pending(todo') = Pending(first) \cup Pending(later)
    BY <2>3, <2>5, PendingOfBoth
  <2> QED
    BY <1>1, <2>2, <2>3, <2>6, <2>7 DEF Free, later
<1> QED
  BY <1>3, <1>4 DEF BookBuy, BookSell

LEMMA BookStep == ASSUME IInv, DoBook PROVE IInv'
<1>1. /\ todo # <<>> /\ Head(todo).do = "book"
      /\ UNCHANGED <<book, memory, logSubmit, booked, done>>
  BY DEF DoBook, Next1
<1>2. /\ Head(todo).order \in OrderId
      /\ Pending(todo) = {Head(todo)} \cup Pending(Tail(todo))
  BY <1>1, Behind DEF IInv
<1>3. \A p : Settled(p) => p \in done
  BY <1>1, <1>2 DEF Settled
<1>4. Counted'
  BY <1>1, <1>3 DEF IInv, Counted, Settled, memory
<1>5. Known' /\ BookShape' /\ BookedWithinFilled' /\ LegsOnlyForFilledEntries' /\ LinkedKnown'
  BY <1>1 DEF IInv, memory, Known, BookShape, BookedWithinFilled,
              LegsOnlyForFilledEntries, LinkedKnown
<1>6. CASE /\ UNCHANGED <<wait, failed>>
           /\ IF IsBuy(Head(todo).order) THEN BookBuy(Head(todo).order, Head(todo).qty)
                                         ELSE BookSell(Head(todo).order, Head(todo).qty)
  <2>1. /\ todo' \in Seq(Task) /\ Free(todo')
        /\ Pending(Tail(todo)) \subseteq Pending(todo')
        /\ \A t \in Pending(todo') : t \in Pending(Tail(todo)) \/ t.do = "cancel"
        /\ position' \in Nat /\ owner' \in Entries \cup {NoOwner}
    BY <1>1, <1>6, BookedTodo
  <2>2. TypeOK' /\ HeadOnly' /\ OneWait'
    BY <1>1, <1>6, <2>1, FreeIsHeadOnly DEF IInv, TypeOK, OneWait, memory
  <2>3. TasksOK'
    BY <1>1, <1>2, <1>6, <2>1 DEF IInv, TasksOK, TaskOK, EntryDone, memory
  <2>4. \A p : Owed(p) => Owed(p)'
    BY <1>1, <1>2, <2>1 DEF Owed
  <2>5. SiblingStops'
    BY <1>1, <1>6, <2>4 DEF IInv, SiblingStops, memory
  <2> QED
    BY <1>4, <1>5, <2>2, <2>3, <2>5 DEF IInv
<1>7. CASE /\ todo' = <<>> /\ wait' = {[w EXCEPT !.state = w.prev] : w \in wait}
           /\ failed' = failed \cup {Head(todo).order}
           /\ UNCHANGED <<position, owner>>
  <2>1. \A w \in wait : [w EXCEPT !.state = w.prev] \in Waiting
                        /\ [w EXCEPT !.state = w.prev].order = w.order
    BY DEF IInv, TypeOK, Waiting
  <2>2. TypeOK' /\ HeadOnly' /\ TasksOK'
    BY <1>1, <1>2, <1>7, <2>1, PendingOfNone, EmptySeq
       DEF IInv, TypeOK, HeadOnly, TasksOK, memory
  <2>3. OneWait'
    BY <1>1, <1>7, <2>1 DEF IInv, OneWait, memory
  <2>4. \A p : Owed(p) => p = Head(todo).order
    BY <1>1, <1>2 DEF IInv, HeadOnly, Owed
  <2>5. SiblingStops'
    BY <1>1, <1>7, <2>4 DEF IInv, SiblingStops, memory
  <2> QED
    BY <1>4, <1>5, <2>2, <2>3, <2>5 DEF IInv
<1> QED
  BY <1>6, <1>7 DEF DoBook

LEMMA Joined ==
  ASSUME NEW s \in Seq(Task), NEW t \in Seq(Task)
  PROVE  s \o t \in Seq(Task) /\ Pending(s \o t) = Pending(s) \cup Pending(t)
<1>1. s \o t \in Seq(Task)
  BY ConcatProperties
<1>2. Pending(s \o t) = Pending(s) \cup Pending(t)
  BY PendingOfBoth
<1> QED
  BY <1>1, <1>2

\* An effect that may follow the booking of o's final fill.
Follows(o, t) ==
  \/ t.do = "oco" /\ t.order = o /\ IsProtective(o)
  \/ t.do = "submit" /\ IsBuy(o) /\ t.order \in LegId /\ t.order.base = o.base
  \/ t.do = "link" /\ IsBuy(o) /\ t.order = o
  \/ t.do = "pop" /\ t.order = o

LEMMA AfterFilledList ==
  ASSUME NEW o \in OrderId, NEW legs
  PROVE  /\ AfterFilled(o, legs) \in Seq(Task)
         /\ \A t \in Pending(AfterFilled(o, legs)) : Follows(o, t)
         /\ IsProtective(o) => Do("oco", o) \in Pending(AfterFilled(o, legs))
         /\ IsBuy(o) => Do("link", o) \in Pending(AfterFilled(o, legs))
<1> DEFINE sl == Leg(o.base, "::SL")
           tp == Leg(o.base, "::TP")
           A == IF IsProtective(o) THEN <<Do("oco", o)>> ELSE <<>>
           B == IF IsBuy(o) /\ "::SL" \in legs THEN <<Do("submit", sl)>> ELSE <<>>
           C == IF IsBuy(o) /\ "::TP" \in legs THEN <<Do("submit", tp)>> ELSE <<>>
           D == IF IsBuy(o) THEN <<Do("link", o)>> ELSE <<>>
           E == <<Do("pop", o)>>
<1>1. IsBuy(o) => /\ sl \in LegId /\ sl \in OrderId /\ sl.base = o.base
                  /\ tp \in LegId /\ tp \in OrderId /\ tp.base = o.base
  BY Ids
<1>2. /\ A \in Seq(Task)
      /\ IsProtective(o) => Do("oco", o) \in Pending(A)
      /\ \A t \in Pending(A) : Follows(o, t)
  BY Tasks, PendingOfOne, PendingOfNone, EmptySeq DEF Follows
<1>3. /\ B \in Seq(Task)
      /\ \A t \in Pending(B) : Follows(o, t)
  <2>1. CASE IsBuy(o) /\ "::SL" \in legs
    BY <1>1, <2>1, Tasks, PendingOfOne DEF Follows
  <2>2. CASE ~(IsBuy(o) /\ "::SL" \in legs)
    BY <2>2, PendingOfNone, EmptySeq
  <2> QED
    BY <2>1, <2>2
<1>4. /\ C \in Seq(Task)
      /\ \A t \in Pending(C) : Follows(o, t)
  <2>1. CASE IsBuy(o) /\ "::TP" \in legs
    BY <1>1, <2>1, Tasks, PendingOfOne DEF Follows
  <2>2. CASE ~(IsBuy(o) /\ "::TP" \in legs)
    BY <2>2, PendingOfNone, EmptySeq
  <2> QED
    BY <2>1, <2>2
<1>5. /\ D \in Seq(Task)
      /\ IsBuy(o) => Do("link", o) \in Pending(D)
      /\ \A t \in Pending(D) : Follows(o, t)
  BY Tasks, PendingOfOne, PendingOfNone, EmptySeq DEF Follows
<1>6. E \in Seq(Task) /\ \A t \in Pending(E) : Follows(o, t)
  BY Tasks, PendingOfOne DEF Follows
<1>7. AfterFilled(o, legs) = A \o B \o C \o D \o E
  BY DEF AfterFilled
<1> HIDE DEF A, B, C, D, E
<1>8. A \o B \in Seq(Task) /\ Pending(A \o B) = Pending(A) \cup Pending(B)
  BY <1>2, <1>3, Joined
<1>9. /\ A \o B \o C \in Seq(Task)
      /\ Pending(A \o B \o C) = Pending(A \o B) \cup Pending(C)
  BY <1>4, <1>8, Joined
<1>10. /\ A \o B \o C \o D \in Seq(Task)
       /\ Pending(A \o B \o C \o D) = Pending(A \o B \o C) \cup Pending(D)
  BY <1>5, <1>9, Joined
<1>11. /\ A \o B \o C \o D \o E \in Seq(Task)
       /\ Pending(A \o B \o C \o D \o E) = Pending(A \o B \o C \o D) \cup Pending(E)
  BY <1>6, <1>10, Joined
<1>12. /\ AfterFilled(o, legs) \in Seq(Task)
       /\ Pending(AfterFilled(o, legs)) =
            Pending(A) \cup Pending(B) \cup Pending(C) \cup Pending(D) \cup Pending(E)
  BY <1>7, <1>8, <1>9, <1>10, <1>11
<1> QED
  BY <1>2, <1>3, <1>4, <1>5, <1>6, <1>12

\* A poll that sees no new fill.
LEMMA PollNoFill ==
  ASSUME IInv, NEW w \in wait, todo = <<>>, <<w.state, book[w.order].status>> \in Pollable,
         wait' = {[order |-> w.order, state |-> book[w.order].status, prev |-> w.state]},
         UNCHANGED <<book, memory, durable, todo, done, failed>>
  PROVE  IInv'
<1>1. w.order \in OrderId /\ w.state \in Status /\ w.state # "FILLED"
      /\ book[w.order].status \in Status
  BY DEF IInv, TypeOK, Waiting, Pollable
<1> USE DEF IInv, memory, durable
<1>2. TypeOK'
  BY <1>1 DEF TypeOK, Waiting
<1>3. OneWait'
  BY DEF OneWait
<1>4. \A p : Settled(p) => Settled(p)'
  BY <1>1 DEF Settled, OneWait
<1>5. Counted'
  BY <1>4 DEF Counted
<1>6. /\ BookShape' /\ Known' /\ HeadOnly' /\ BookedWithinFilled' /\ LegsOnlyForFilledEntries'
      /\ LinkedKnown' /\ SiblingStops'
  BY DEF BookShape, Known, HeadOnly, BookedWithinFilled,
         LegsOnlyForFilledEntries, LinkedKnown, SiblingStops, Owed
<1>7. TasksOK'
  BY PendingOfNone DEF TasksOK
<1> QED
  BY <1>2, <1>3, <1>5, <1>6, <1>7

\* A poll that sees one: it is what has not been booked yet.
LEMMA PollFill ==
  ASSUME IInv, NEW w \in wait, NEW legs, NEW o, o = w.order,
         todo = <<>>, <<w.state, book[o].status>> \in Pollable,
         book[o].status \in {"PARTIALLY_FILLED", "FILLED"}, Increment(o) > 0,
         wait' = {[order |-> o, state |-> book[o].status, prev |-> w.state]},
         cum' = [cum EXCEPT ![o] = book[o].filled],
         booked' = [booked EXCEPT ![o] = @ + Increment(o)],
         todo' = <<[do |-> "book", order |-> o, qty |-> Increment(o)]>>
                   \o (IF FinalFill(book[o]) THEN AfterFilled(o, legs) ELSE <<>>),
         UNCHANGED <<book, submitted, mapped, returned, linked, position, owner, logSubmit,
                     done, failed>>
  PROVE  IInv'
<1>1. /\ o \in OrderId /\ w.state \in Status /\ w.state # "FILLED" /\ book[o].status \in Status
      /\ \A v \in wait : v = w
      /\ o \in mapped /\ o \notin done
  BY DEF IInv, TypeOK, Waiting, OneWait, Pollable
<1>2. /\ book[o].filled \in 0..Qty /\ cum[o] \in 0..Qty /\ booked[o] \in Nat
      /\ booked \in [OrderId -> Nat] /\ cum \in [OrderId -> 0..Qty]
  BY <1>1 DEF IInv, TypeOK
<1>3. \A p \in OrderId : Settled(p) => p \in done
  BY <1>1 DEF Settled
<1>4. cum[o] = booked[o]
  BY <1>1, <1>3 DEF IInv, Counted
<1>5. /\ Increment(o) = book[o].filled - booked[o] /\ Increment(o) \in 0..Qty
      /\ booked[o] < book[o].filled
  BY <1>2, <1>4, QtyAssumption DEF Increment
<1>6. /\ booked' \in [OrderId -> Nat] /\ booked'[o] = book[o].filled
      /\ \A p \in OrderId : p # o => booked'[p] = booked[p]
  BY <1>1, <1>2, <1>5, QtyAssumption
<1>7. /\ cum' \in [OrderId -> 0..Qty] /\ cum'[o] = book[o].filled
      /\ \A p \in OrderId : p # o => cum'[p] = cum[p]
  BY <1>1, <1>2
<1>8. \A p \in OrderId : booked'[p] >= booked[p]
  BY <1>2, <1>5, <1>6, QtyAssumption
<1>9. PICK x \in Task : x = [do |-> "book", order |-> o, qty |-> Increment(o)]
  BY <1>1, <1>5 DEF Task
<1>10. PICK later \in Seq(Task) :
       /\ later = IF FinalFill(book[o]) THEN AfterFilled(o, legs) ELSE <<>>
       /\ \A t \in Pending(later) : FinalFill(book[o]) /\ Follows(o, t)
       /\ FinalFill(book[o]) /\ IsProtective(o) => Do("oco", o) \in Pending(later)
  BY <1>1, AfterFilledList, PendingOfNone, EmptySeq
<1>11. x.do = "book" /\ x.order = o /\ todo' = <<x>> \o later
  BY <1>9, <1>10
<1>12. /\ todo' \in Seq(Task) /\ Head(todo') = x /\ Tail(todo') = later
       /\ Pending(todo') = {x} \cup Pending(later)
  <2>1. /\ <<x>> \o later \in Seq(Task)
        /\ Head(<<x>> \o later) = x /\ Tail(<<x>> \o later) = later
        /\ Pending(<<x>> \o later) = {x} \cup Pending(later)
    BY Prefixed
  <2> QED
    BY <1>11, <2>1
<1>13. TypeOK'
  BY <1>1, <1>6, <1>7, <1>12 DEF IInv, TypeOK, Waiting
<1>14. OneWait'
  BY <1>1 DEF IInv, OneWait
<1>15. HeadOnly'
  BY <1>10, <1>11, <1>12 DEF HeadOnly, Follows
<1>16. Counted'
  <2>1. \A p \in OrderId : p \in mapped /\ p # o => cum[p] = booked[p] \/ p \in done
    BY <1>3 DEF IInv, Counted
  <2> QED
    BY <1>1, <1>6, <1>7, <2>1 DEF IInv, Counted, Settled
<1>17. BookedWithinFilled'
  BY <1>2, <1>6 DEF IInv, BookedWithinFilled, TypeOK
<1>18. \A e \in Entries : EntryDone(e) => EntryDone(e)'
  <2> SUFFICES ASSUME NEW e \in Entries, EntryDone(e) PROVE EntryDone(e)'
    OBVIOUS
  <2>1. Entry(e) \in OrderId
    BY Ids
  <2>2. booked[Entry(e)] \in Nat /\ booked'[Entry(e)] \in Nat
    BY <1>2, <1>6, <2>1
  <2> QED
    BY <1>8, <2>1, <2>2, QtyAssumption DEF EntryDone
<1>19. LegsOnlyForFilledEntries'
  <2> SUFFICES ASSUME NEW p \in LegId, book[p].status # "NONE" PROVE EntryDone(p.base)'
    BY DEF LegsOnlyForFilledEntries, EntryDone, Entry
  <2>1. EntryDone(p.base)
    BY DEF IInv, LegsOnlyForFilledEntries, EntryDone, Entry
  <2> QED
    BY <1>18, <2>1, Ids
\* The legs of an entry that is only now booked in full are not placed yet.
<1>20. ASSUME IsBuy(o), FinalFill(book[o])
       PROVE  /\ o.base \in Entries /\ o = Entry(o.base) /\ EntryDone(o.base)'
              /\ \A p \in LegId : p.base = o.base => booked'[p] = 0
  <2>1. o.base \in Entries /\ o = Entry(o.base) /\ ~IsProtective(o)
    BY <1>1, <1>20, Ids DEF IsBuy
  <2>2. book[o].filled = Qty
    BY <1>1, <1>20 DEF IInv, BookShape, FinalFill
  <2>3. EntryDone(o.base)' /\ ~EntryDone(o.base)
    BY <1>2, <1>5, <1>6, <1>20, <2>1, <2>2, QtyAssumption DEF EntryDone, FinalFill
  <2>4. ASSUME NEW p \in LegId, p.base = o.base PROVE booked'[p] = 0
    <3>1. book[p].status = "NONE"
      BY <2>3, <2>4 DEF IInv, LegsOnlyForFilledEntries, EntryDone, Entry
    <3>2. p \in OrderId /\ p # o
      BY <2>1, <2>4, Ids
    <3>3. book[p].filled = 0 /\ booked[p] <= 0 /\ booked[p] \in Nat
      BY <1>2, <3>1, <3>2 DEF IInv, BookShape, BookedWithinFilled
    <3> QED
      BY <1>6, <3>2, <3>3
  <2> QED
    BY <2>1, <2>3, <2>4
<1>21. TasksOK'
  <2> SUFFICES ASSUME NEW t \in Pending(later) PROVE TaskOK(t)'
    BY <1>11, <1>12 DEF TasksOK, TaskOK
  <2>1. CASE t.do = "oco" /\ t.order = o /\ IsProtective(o)
    BY <1>1, <2>1, Ids DEF TaskOK
  <2>2. CASE t.do = "submit" /\ IsBuy(o) /\ t.order \in LegId /\ t.order.base = o.base
    BY <1>10, <1>20, <2>2 DEF TaskOK
  <2>3. CASE t.do = "link" /\ IsBuy(o) /\ t.order = o
    <3>1. /\ o.base \in Entries
          /\ booked'[Leg(o.base, "::SL")] = 0 /\ booked'[Leg(o.base, "::TP")] = 0
      BY <1>10, <1>20, <2>3, Ids
    <3> QED
      BY <2>3, <3>1 DEF TaskOK
  <2>4. CASE t.do = "pop" /\ t.order = o
    BY <1>10, <2>4 DEF TaskOK, FinalFill
  <2> QED
    BY <1>10, <2>1, <2>2, <2>3, <2>4 DEF Follows
<1>22. SiblingStops'
  <2> SUFFICES ASSUME NEW p \in LegId, p.base \in linked, booked'[p] = Qty, p \notin failed
               PROVE  book[Sibling(p)].status \notin Live \/ Sibling(p) \in failed \/ Owed(p)'
    BY DEF SiblingStops
  <2>1. CASE p = o
    <3>1. FinalFill(book[o]) /\ IsProtective(o)
      BY <1>1, <1>6, <2>1, Ids DEF IInv, BookShape, FinalFill
    <3>2. Do("oco", o) \in Pending(todo')
      BY <1>10, <1>12, <3>1
    <3>3. Do("oco", o).do = "oco" /\ Do("oco", o).order = o
      BY Tasks DEF Do
    <3>4. Owed(p)'
      BY <2>1, <3>2, <3>3 DEF Owed
    <3> QED
      BY <3>4
  <2>2. CASE p # o
    <3>1. booked[p] = Qty
      BY <1>6, <2>2, Ids
    <3> QED
      BY <3>1, PendingOfNone DEF IInv, SiblingStops, Owed
  <2> QED
    BY <2>1, <2>2
<1>23. BookShape' /\ Known' /\ LinkedKnown'
  BY DEF IInv, BookShape, Known, LinkedKnown
<1> QED
  BY <1>13, <1>14, <1>15, <1>16, <1>17, <1>19, <1>21, <1>22, <1>23 DEF IInv

LEMMA PollStep ==
  ASSUME IInv, NEW w \in wait, NEW legs \in SUBSET {"::SL", "::TP"}, Poll(w, legs)
  PROVE  IInv'
<1>1. CASE book[w.order].status \in {"PARTIALLY_FILLED", "FILLED"} /\ Increment(w.order) > 0
  BY <1>1, PollFill DEF Poll
<1>2. CASE ~(book[w.order].status \in {"PARTIALLY_FILLED", "FILLED"} /\ Increment(w.order) > 0)
  BY <1>2, PollNoFill DEF Poll, memory, durable
<1> QED
  BY <1>1, <1>2

-----------------------------------------------------------------------------

LEMMA EngineInit == Init => IInv
<1> SUFFICES ASSUME Init PROVE IInv
  OBVIOUS
<1> USE QtyAssumption, EmptySeq, PendingOfNone DEF Init
<1>1. TypeOK
  BY DEF TypeOK, Status
<1>2. BookShape /\ Known /\ OneWait /\ HeadOnly /\ TasksOK
  BY DEF BookShape, Known, OneWait, HeadOnly, TasksOK
<1>3. Counted /\ LinkedKnown /\ SiblingStops
  BY DEF Counted, LinkedKnown, SiblingStops
<1>4. BookedWithinFilled
  BY DEF BookedWithinFilled
<1>5. LegsOnlyForFilledEntries
  <2>1. \A o \in LegId : o \in OrderId
    BY Ids
  <2> QED
    BY <2>1 DEF LegsOnlyForFilledEntries
<1> QED
  BY <1>1, <1>2, <1>3, <1>4, <1>5 DEF IInv

LEMMA EngineStep == IInv /\ [Next]_vars => IInv'
<1> SUFFICES ASSUME IInv, [Next]_vars PROVE IInv'
  OBVIOUS
<1>1. ASSUME NEW o \in OrderId, Fill(o) \/ GiveUp(o) PROVE IInv'
  BY <1>1, BrokerStep
<1>2. ASSUME NEW o \in OrderId, Submit(o) PROVE IInv'
  BY <1>2, SubmitStep
<1>3. ASSUME NEW o \in OrderId, Wait(o) PROVE IInv'
  BY <1>3, WaitStep
<1>4. ASSUME NEW w \in wait, NEW legs \in SUBSET {"::SL", "::TP"}, Poll(w, legs) PROVE IInv'
  BY <1>4, PollStep
<1>5. CASE WaitReturns
  BY <1>5, WaitReturnsStep
<1>6. CASE DoSubmit \/ DoSubmitStop \/ DoSubmitLimit
  <2>1. \E o \in OrderId : Sent(o)
    BY <1>6, Ids DEF DoSubmit, DoSubmitStop, DoSubmitLimit
  <2> QED
    BY <2>1, SentStep
<1>7. CASE DoRecord \/ DoRecordStop \/ DoRecordLimit
  <2>1. \E o \in OrderId : Recorded(o)
    BY <1>7, Ids DEF DoRecord, DoRecordStop, DoRecordLimit
  <2> QED
    BY <2>1, RecordedStep
<1>8. CASE DoCancel
  BY <1>8, CancelStep
<1>9. CASE DoBook
  BY <1>9, BookStep
<1>10. CASE DoOco
  BY <1>10, OcoStep
<1>11. CASE DoLink
  BY <1>11, LinkStep
<1>12. CASE DoPop
  BY <1>12, PopStep
<1>13. CASE Restart
  BY <1>13, RestartStep
<1>14. CASE UNCHANGED vars
  <2> USE <1>14 DEF vars, memory, durable, driver, IInv
  <2>1. TypeOK' /\ BookShape' /\ Known' /\ OneWait' /\ HeadOnly' /\ BookedWithinFilled'
    BY DEF TypeOK, BookShape, Known, OneWait, HeadOnly, BookedWithinFilled
  <2>2. TasksOK' /\ LegsOnlyForFilledEntries' /\ LinkedKnown'
    BY DEF TasksOK, TaskOK, EntryDone, LegsOnlyForFilledEntries, LinkedKnown
  <2>3. Counted' /\ SiblingStops'
    BY DEF Counted, Settled, SiblingStops, Owed
  <2> QED
    BY <2>1, <2>2, <2>3
<1> QED
  BY <1>1, <1>2, <1>3, <1>4, <1>5, <1>6, <1>7, <1>8, <1>9, <1>10, <1>11, <1>12, <1>13, <1>14
     DEF Next, Step

LEMMA EngineInvariant == Spec => []IInv
  BY EngineInit, EngineStep, PTL DEF Spec

\* The variables have their types, the effects still to be made included.
THEOREM Typing == Spec => []TypeOK
<1>1. IInv => TypeOK
  BY DEF IInv
<1> QED
  BY <1>1, EngineInvariant, PTL

\* No fill is booked twice: not by two polls, not by a second wait on the same
\* order, not after a booking that raised (engine.py, PATCH 3).
THEOREM NoFillTwice == Spec => []BookedWithinFilled
<1>1. IInv => BookedWithinFilled
  BY DEF IInv
<1> QED
  BY <1>1, EngineInvariant, PTL

\* Protective legs are placed for entries that are filled and booked in full.
THEOREM LegsFollowFills == Spec => []LegsOnlyForFilledEntries
<1>1. IInv => LegsOnlyForFilledEntries
  BY DEF IInv
<1> QED
  BY <1>1, EngineInvariant, PTL

-----------------------------------------------------------------------------
(* Which legs are linked.                                                  *)

Placing(t) == t.do \in {"submit", "record"}

LinkPending(e) == \E u \in Pending(todo) : u.do = "link" /\ u.order = Entry(e)

\* Nothing is placed behind a link.
LinkLast(s) ==
  \A i, j \in 1..Len(s) : i < j /\ s[i].do = "link" => ~Placing(s[j])

\* A leg that is mapped has a submit that returned or raised.
LegsAnswered == \A o \in LegId : o \in mapped => o \in returned \/ o \in failed

\* Legs still to be placed are followed by their link.
LinkFollows ==
  \A t \in Pending(todo) : Placing(t) /\ t.order \in LegId => LinkPending(t.order.base)

\* Two legs with nothing that raised are linked, or are about to be; a booking,
\* which may raise and end the call, is not in between.
PairsLinked ==
  \A e \in Entries :
    {Leg(e, "::SL"), Leg(e, "::TP")} \subseteq mapped \ failed
      => e \in linked \/ (LinkPending(e) /\ Head(todo).do # "book")

PairInv == LegsAnswered /\ LinkFollows /\ PairsLinked /\ LinkLast(todo)

LEMMA LinkLastOfNone ==
  ASSUME NEW s \in Seq(Task),
         (\A t \in Pending(s) : t.do # "link") \/ (\A t \in Pending(s) : ~Placing(t))
  PROVE  LinkLast(s)
  BY DEF LinkLast, Pending

LEMMA LinkLastBehind ==
  ASSUME NEW s \in Seq(Task), s # <<>>, LinkLast(s)
  PROVE  /\ LinkLast(Tail(s))
         /\ Head(s).do = "link" => \A t \in Pending(Tail(s)) : ~Placing(t)
<1>1. /\ Tail(s) \in Seq(Task) /\ Len(s) \in Nat \ {0}
      /\ Len(Tail(s)) = Len(s) - 1 /\ \A i \in 1..Len(Tail(s)) : Tail(s)[i] = s[i + 1]
      /\ Head(s) = s[1]
  BY HeadTailProperties, EmptySeq, LenProperties
<1>2. ASSUME NEW i \in 1..Len(Tail(s)), NEW j \in 1..Len(Tail(s)),
             i < j, Tail(s)[i].do = "link"
      PROVE  ~Placing(Tail(s)[j])
  <2>1. i + 1 \in 1..Len(s) /\ j + 1 \in 1..Len(s) /\ i + 1 < j + 1
    BY <1>1, <1>2
  <2> QED
    BY <1>1, <1>2, <2>1 DEF LinkLast
<1>3. ASSUME Head(s).do = "link", NEW j \in 1..Len(Tail(s)) PROVE ~Placing(Tail(s)[j])
  <2>1. 1 \in 1..Len(s) /\ j + 1 \in 1..Len(s) /\ 1 < j + 1
    BY <1>1
  <2> QED
    BY <1>1, <1>3, <2>1 DEF LinkLast
<1> QED
  BY <1>2, <1>3 DEF LinkLast, Pending

LEMMA LinkLastJoined ==
  ASSUME NEW s \in Seq(Task), NEW t \in Seq(Task), LinkLast(s), LinkLast(t),
         (\A u \in Pending(s) : u.do # "link") \/ (\A u \in Pending(t) : ~Placing(u))
  PROVE  LinkLast(s \o t)
<1>1. /\ Len(s) \in Nat /\ Len(t) \in Nat /\ Len(s \o t) = Len(s) + Len(t)
      /\ \A i \in 1..(Len(s) + Len(t)) :
           (s \o t)[i] = IF i <= Len(s) THEN s[i] ELSE t[i - Len(s)]
  BY ConcatProperties, LenProperties
<1> SUFFICES ASSUME NEW i \in 1..(Len(s) + Len(t)), NEW j \in 1..(Len(s) + Len(t)),
                    i < j, (s \o t)[i].do = "link"
             PROVE  ~Placing((s \o t)[j])
  BY <1>1 DEF LinkLast
<1>2. CASE j <= Len(s)
  <2>1. /\ i \in 1..Len(s) /\ j \in 1..Len(s)
        /\ (s \o t)[i] = s[i] /\ (s \o t)[j] = s[j]
    BY <1>1, <1>2
  <2> QED
    BY <2>1 DEF LinkLast
<1>3. CASE i > Len(s)
  <2>1. /\ i - Len(s) \in 1..Len(t) /\ j - Len(s) \in 1..Len(t) /\ i - Len(s) < j - Len(s)
        /\ (s \o t)[i] = t[i - Len(s)] /\ (s \o t)[j] = t[j - Len(s)]
    BY <1>1, <1>3
  <2> QED
    BY <2>1 DEF LinkLast
<1>4. CASE i <= Len(s) /\ j > Len(s)
  <2>1. /\ i \in 1..Len(s) /\ j - Len(s) \in 1..Len(t)
        /\ (s \o t)[i] = s[i] /\ (s \o t)[j] = t[j - Len(s)]
    BY <1>1, <1>4
  <2>2. s[i] \in Pending(s) /\ t[j - Len(s)] \in Pending(t)
    BY <2>1 DEF Pending
  <2> QED
    BY <2>1, <2>2
<1> QED
  BY <1>1, <1>2, <1>3, <1>4

\* The legs of an entry are placed before they are linked.
LEMMA AfterFilledLinksLast ==
  ASSUME NEW o \in OrderId, NEW legs PROVE LinkLast(AfterFilled(o, legs))
<1>1. PICK A \in Seq(Task) :
        /\ A = IF IsProtective(o) THEN <<Do("oco", o)>> ELSE <<>>
        /\ \A t \in Pending(A) : t.do = "oco"
  BY Optional
<1>2. IsBuy(o) => Leg(o.base, "::SL") \in OrderId /\ Leg(o.base, "::TP") \in OrderId
  BY Ids
<1>3. PICK B \in Seq(Task) :
        /\ B = IF IsBuy(o) /\ "::SL" \in legs THEN <<Do("submit", Leg(o.base, "::SL"))>> ELSE <<>>
        /\ \A t \in Pending(B) : t.do = "submit"
  BY <1>2, Optional
<1>4. PICK C \in Seq(Task) :
        /\ C = IF IsBuy(o) /\ "::TP" \in legs THEN <<Do("submit", Leg(o.base, "::TP"))>> ELSE <<>>
        /\ \A t \in Pending(C) : t.do = "submit"
  BY <1>2, Optional
<1>5. PICK D \in Seq(Task) :
        /\ D = IF IsBuy(o) THEN <<Do("link", o)>> ELSE <<>>
        /\ \A t \in Pending(D) : t.do = "link"
  BY Optional
<1>6. PICK E \in Seq(Task) :
        /\ E = IF TRUE THEN <<Do("pop", o)>> ELSE <<>>
        /\ \A t \in Pending(E) : t.do = "pop"
  BY Optional
<1>7. A \o B \in Seq(Task) /\ \A t \in Pending(A \o B) : t.do # "link"
  <2>1. A \o B \in Seq(Task) /\ Pending(A \o B) = Pending(A) \cup Pending(B)
    BY Joined
  <2> QED
    BY <1>1, <1>3, <2>1
<1>8. A \o B \o C \in Seq(Task) /\ \A t \in Pending(A \o B \o C) : t.do # "link"
  <2>1. A \o B \o C \in Seq(Task) /\ Pending(A \o B \o C) = Pending(A \o B) \cup Pending(C)
    BY <1>7, Joined
  <2> QED
    BY <1>4, <1>7, <2>1
<1>9. A \o B \o C \o D \in Seq(Task) /\ LinkLast(A \o B \o C \o D)
  <2>1. LinkLast(A \o B \o C) /\ LinkLast(D) /\ A \o B \o C \o D \in Seq(Task)
    BY <1>5, <1>8, Joined, LinkLastOfNone DEF Placing
  <2> QED
    BY <1>8, <2>1, LinkLastJoined
<1>10. LinkLast(A \o B \o C \o D \o E)
  <2>1. LinkLast(E) /\ \A t \in Pending(E) : ~Placing(t)
    BY <1>6, LinkLastOfNone DEF Placing
  <2> QED
    BY <1>9, <2>1, LinkLastJoined
<1> QED
  BY <1>1, <1>3, <1>4, <1>5, <1>6, <1>10 DEF AfterFilled

\* Steps that leave what is still to be done as it is.
LEMMA PairQuiet ==
  ASSUME PairInv, UNCHANGED <<todo, mapped, linked>>,
         returned \subseteq returned', failed \subseteq failed'
  PROVE  PairInv'
  BY DEF PairInv, LegsAnswered, LinkFollows, PairsLinked, LinkPending, LinkLast

\* Steps that begin a call, other than with a booking.
LEMMA PairBegins ==
  ASSUME PairInv, todo = <<>>, todo' \in Seq(Task), UNCHANGED <<mapped, returned, linked, failed>>,
         \A t \in Pending(todo') :
           t.do \in {"cancel", "submit"} /\ (t.do = "submit" => t.order \notin LegId)
  PROVE  PairInv'
<1>1. LinkLast(todo)'
  BY LinkLastOfNone
<1>2. LinkFollows'
  BY DEF LinkFollows, Placing
<1> QED
  BY <1>1, <1>2, PendingOfNone DEF PairInv, LegsAnswered, PairsLinked, LinkPending

\* A step that makes the first effect and puts at most cancels or the record of
\* a submission in its place.
Proceeds ==
  /\ todo # <<>> /\ todo' \in Seq(Task)
  /\ Pending(Tail(todo)) \subseteq Pending(todo')
  /\ LinkLast(todo')
  /\ \A t \in Pending(todo') :
       \/ t \in Pending(Tail(todo))
       \/ t.do = "cancel"
       \/ t.do = "record" /\ Head(todo).do = "submit" /\ t.order = Head(todo).order

LEMMA ProceedsBehind ==
  ASSUME IInv, PairInv, todo # <<>>, todo' = Tail(todo) PROVE Proceeds
<1>1. Tail(todo) \in Seq(Task)
  BY Behind DEF IInv
<1>2. LinkLast(Tail(todo))
  BY LinkLastBehind DEF IInv, TypeOK, PairInv
<1> QED
  BY <1>1, <1>2 DEF Proceeds

LEMMA ProceedsWith ==
  ASSUME IInv, PairInv, todo # <<>>,
         NEW first \in Seq(Task), todo' = first \o Tail(todo),
         \A t \in Pending(first) :
           \/ t.do = "cancel"
           \/ t.do = "record" /\ Head(todo).do = "submit" /\ t.order = Head(todo).order
  PROVE  Proceeds /\ Pending(first) \subseteq Pending(todo')
<1> DEFINE later == Tail(todo)
<1>1. later \in Seq(Task) /\ todo' = first \o later
  BY Behind DEF IInv
<1>2. LinkLast(later)
  BY LinkLastBehind DEF IInv, TypeOK, PairInv
<1> HIDE DEF later
<1>3. /\ first \o later \in Seq(Task)
      /\ Pending(first \o later) = Pending(first) \cup Pending(later)
  BY <1>1, Joined
<1>4. LinkLast(first \o later)
  BY <1>1, <1>2, LinkLastOfNone, LinkLastJoined
<1> QED
  BY <1>1, <1>3, <1>4 DEF Proceeds, later

LEMMA ProceedsWithOne ==
  ASSUME IInv, PairInv, todo # <<>>, NEW x \in Task, todo' = <<x>> \o Tail(todo),
         x.do = "cancel"
         \/ (x.do = "record" /\ Head(todo).do = "submit" /\ x.order = Head(todo).order)
  PROVE  Proceeds /\ x \in Pending(todo')
<1>1. PICK first \in Seq(Task) : first = <<x>> /\ Pending(first) = {x}
  <2>1. <<x>> \in Seq(Task) /\ Pending(<<x>>) = {x}
    BY PendingOfOne
  <2> QED
    BY <2>1
<1>2. todo' = first \o Tail(todo)
  BY <1>1
<1> QED
  BY <1>1, <1>2, ProceedsWith

LEMMA SentProceeds == ASSUME IInv, PairInv, NEW o \in OrderId, Sent(o) PROVE Proceeds
<1>1. /\ todo # <<>> /\ Head(todo).do = "submit" /\ Head(todo).order = o
      /\ todo' \in {Tail(todo), <<Do("record", o)>> \o Tail(todo)}
  BY DEF Sent, Next1
<1>2. CASE todo' = Tail(todo)
  BY <1>1, <1>2, ProceedsBehind
<1>3. CASE todo' = <<Do("record", o)>> \o Tail(todo)
  <2>1. PICK x \in Task : x = Do("record", o) /\ x.do = "record" /\ x.order = o
    BY Tasks
  <2>2. todo' = <<x>> \o Tail(todo)
    BY <1>3, <2>1
  <2> QED
    BY <1>1, <2>1, <2>2, ProceedsWithOne
<1> QED
  BY <1>1, <1>2, <1>3

LEMMA OcoProceeds ==
  ASSUME IInv, PairInv, DoOco, NEW o \in LegId, o = Head(todo).order
  PROVE  /\ Proceeds
         /\ o.base \in linked /\ Sibling(o) \in mapped =>
              \E t \in Pending(todo') : t.do = "cancel" /\ t.order = Sibling(o)
<1>1. /\ todo # <<>> /\ Head(todo).do = "oco" /\ todo' = CancelSibling(o) \o Tail(todo)
  BY DEF DoOco, Next1
<1>2. Tail(todo) \in Seq(Task) /\ Sibling(o) \in OrderId
  BY <1>1, Behind, Ids DEF IInv
<1>3. CASE o.base \in linked /\ Sibling(o) \in mapped
  <2>1. PICK c \in Task : c = Do("cancel", Sibling(o)) /\ c.do = "cancel" /\ c.order = Sibling(o)
    BY <1>2, Tasks
  <2>2. todo' = <<c>> \o Tail(todo)
    BY <1>1, <1>3, <2>1 DEF CancelSibling
  <2> QED
    BY <1>1, <2>1, <2>2, ProceedsWithOne
<1>4. CASE ~(o.base \in linked /\ Sibling(o) \in mapped)
  <2>1. CancelSibling(o) = <<>> /\ <<>> \o Tail(todo) = Tail(todo)
    BY <1>2, <1>4, ConcatEmptySeq DEF CancelSibling
  <2>2. todo' = Tail(todo)
    BY <1>1, <2>1
  <2> QED
    BY <1>1, <1>4, <2>2, ProceedsBehind
<1> QED
  BY <1>3, <1>4

\* A booking that does not raise: at most the cancels of an entry's legs.
LEMMA BookProceeds ==
  ASSUME IInv, PairInv, todo # <<>>, Head(todo).do = "book",
         IF IsBuy(Head(todo).order) THEN BookBuy(Head(todo).order, Head(todo).qty)
                                    ELSE BookSell(Head(todo).order, Head(todo).qty)
  PROVE  Proceeds
<1> DEFINE o == Head(todo).order
           n == Head(todo).qty
           first == IF Remaining(n) = 0 /\ ~IsProtective(o) THEN CancelLegs(owner) ELSE <<>>
<1>1. CASE todo' = Tail(todo)
  BY <1>1, ProceedsBehind
<1>2. CASE todo' = first \o Tail(todo)
  <2>1. first \in Seq(Task) /\ \A t \in Pending(first) : t.do = "cancel"
    BY CancelsOfLegs, PendingOfNone, EmptySeq DEF IInv
  <2> HIDE DEF first
  <2> QED
    BY <1>2, <2>1, ProceedsWith
<1> QED
  BY <1>1, <1>2 DEF BookBuy, BookSell

\* The steps that proceed, but for those that make a leg known or link two.
LEMMA PairProceeds ==
  ASSUME IInv, PairInv, Proceeds, Head(todo).do # "link", UNCHANGED <<mapped, linked>>,
         returned \subseteq returned', failed \subseteq failed'
  PROVE  PairInv'
<1>1. /\ Pending(todo) = {Head(todo)} \cup Pending(Tail(todo)) /\ Free(Tail(todo))
  BY Behind DEF IInv, Proceeds
<1>2. \A e : LinkPending(e) => LinkPending(e)'
  BY <1>1 DEF LinkPending, Proceeds
<1>3. LinkFollows'
  <2> SUFFICES ASSUME NEW t \in Pending(todo'), Placing(t), t.order \in LegId
               PROVE  LinkPending(t.order.base)'
    BY DEF LinkFollows
  <2>1. PICK u \in Pending(todo) : Placing(u) /\ u.order = t.order
    BY <1>1 DEF Proceeds, Placing
  <2> QED
    BY <1>2, <2>1 DEF PairInv, LinkFollows
<1>4. \A e : LinkPending(e)' => Head(todo').do # "book"
  <2>1. \A t \in Pending(todo') : t.do # "book"
    BY <1>1 DEF Proceeds, Free
  <2>2. todo' # <<>> => Head(todo') \in Pending(todo')
    BY HeadAndTail DEF Proceeds
  <2> QED
    BY <2>1, <2>2, PendingOfNone DEF LinkPending
<1> QED
  BY <1>2, <1>3, <1>4 DEF PairInv, LegsAnswered, PairsLinked, Proceeds

LEMMA PairRecorded ==
  ASSUME IInv, PairInv, NEW o \in OrderId, Recorded(o) PROVE PairInv'
<1>1. /\ todo # <<>> /\ Head(todo).do = "record" /\ Head(todo).order = o
      /\ todo' = Tail(todo) /\ mapped' = mapped \cup {o} /\ linked' = linked
      /\ returned \subseteq returned' /\ failed \subseteq failed'
      /\ o \in returned' \/ o \in failed'
  BY DEF Recorded, Next1
<1>2. /\ Pending(todo) = {Head(todo)} \cup Pending(Tail(todo)) /\ Free(Tail(todo))
      /\ Proceeds
  BY <1>1, Behind, ProceedsBehind DEF IInv
<1>3. \A e : LinkPending(e) => LinkPending(e)'
  BY <1>1, <1>2 DEF LinkPending
<1>4. LegsAnswered'
  BY <1>1 DEF PairInv, LegsAnswered
<1>5. LinkFollows'
  BY <1>1, <1>2, <1>3 DEF PairInv, LinkFollows
<1>6. PairsLinked'
  <2> SUFFICES ASSUME NEW e \in Entries,
                      {Leg(e, "::SL"), Leg(e, "::TP")} \subseteq mapped' \ failed'
               PROVE  e \in linked \/ (LinkPending(e)' /\ Head(todo').do # "book")
    BY <1>1 DEF PairsLinked
  <2>1. e \in linked \/ LinkPending(e)
    <3>1. CASE Leg(e, "::SL") = o \/ Leg(e, "::TP") = o
      BY <1>1, <1>2, <3>1, Ids DEF PairInv, LinkFollows, Placing
    <3>2. CASE Leg(e, "::SL") # o /\ Leg(e, "::TP") # o
      BY <1>1, <3>2 DEF PairInv, PairsLinked
    <3> QED
      BY <3>1, <3>2
  <2>2. LinkPending(e)' => Head(todo').do # "book"
    <3>1. todo' # <<>> => Head(todo') \in Pending(todo')
      BY <1>2, HeadAndTail DEF Proceeds
    <3> QED
      BY <1>1, <1>2, <3>1, PendingOfNone DEF LinkPending, Free
  <2> QED
    BY <1>3, <2>1, <2>2
<1> QED
  BY <1>2, <1>4, <1>5, <1>6 DEF PairInv, Proceeds

LEMMA PairLink == ASSUME IInv, PairInv, DoLink PROVE PairInv'
<1> DEFINE e == Head(todo).order.base
<1>1. /\ todo # <<>> /\ Head(todo).do = "link" /\ todo' = Tail(todo)
      /\ linked' = IF {Leg(e, "::SL"), Leg(e, "::TP")} \subseteq returned
                   THEN linked \cup {e} ELSE linked
      /\ UNCHANGED <<mapped, returned, failed>>
  BY DEF DoLink, Next1
<1>2. /\ Pending(todo) = {Head(todo)} \cup Pending(Tail(todo)) /\ Free(Tail(todo))
      /\ todo \in Seq(Task) /\ Proceeds
  BY <1>1, Behind, ProceedsBehind DEF IInv, TypeOK
<1>3. LinkFollows'
  <2>1. \A t \in Pending(todo') : ~Placing(t)
    BY <1>1, <1>2, LinkLastBehind DEF PairInv
  <2> QED
    BY <2>1 DEF LinkFollows
<1>4. PairsLinked'
  <2> SUFFICES ASSUME NEW f \in Entries,
                      {Leg(f, "::SL"), Leg(f, "::TP")} \subseteq mapped \ failed
               PROVE  f \in linked' \/ (LinkPending(f)' /\ Head(todo').do # "book")
    BY <1>1 DEF PairsLinked
  <2>1. {Leg(f, "::SL"), Leg(f, "::TP")} \subseteq returned
    BY Ids DEF PairInv, LegsAnswered
  <2>2. CASE f \in linked
    BY <1>1, <2>2
  <2>3. CASE LinkPending(f)
    <3>1. PICK u \in Pending(todo) : u.do = "link" /\ u.order = Entry(f)
      BY <2>3 DEF LinkPending
    <3>2. CASE u = Head(todo)
      BY <1>1, <2>1, <3>1, <3>2, Ids
    <3>3. CASE u \in Pending(Tail(todo))
      <4>1. LinkPending(f)' /\ todo' # <<>>
        BY <1>1, <3>1, <3>3, PendingOfNone DEF LinkPending
      <4>2. Head(todo') \in Pending(todo')
        BY <1>2, <4>1, HeadAndTail DEF Proceeds
      <4> QED
        BY <1>1, <1>2, <4>1, <4>2 DEF Free
    <3> QED
      BY <1>2, <3>1, <3>2, <3>3
  <2> QED
    BY <2>2, <2>3 DEF PairInv, PairsLinked
<1> QED
  BY <1>1, <1>2, <1>3, <1>4 DEF PairInv, LegsAnswered, Proceeds

LEMMA PairBook == ASSUME IInv, PairInv, DoBook PROVE PairInv'
<1>1. /\ todo # <<>> /\ Head(todo).do = "book" /\ UNCHANGED <<mapped, returned, linked>>
      /\ failed \subseteq failed'
  BY DEF DoBook, Next1, memory
<1>2. CASE IF IsBuy(Head(todo).order) THEN BookBuy(Head(todo).order, Head(todo).qty)
                                      ELSE BookSell(Head(todo).order, Head(todo).qty)
  BY <1>1, <1>2, BookProceeds, PairProceeds
<1>3. CASE todo' = <<>>
  <2>1. LinkLast(todo)'
    BY <1>3, EmptySeq, PendingOfNone, LinkLastOfNone
  <2> QED
    BY <1>1, <1>3, <2>1, PendingOfNone DEF PairInv, LegsAnswered, LinkFollows, PairsLinked
<1> QED
  BY <1>2, <1>3 DEF DoBook

LEMMA PairPoll ==
  ASSUME IInv, PairInv, NEW w \in wait, NEW legs \in SUBSET {"::SL", "::TP"}, Poll(w, legs)
  PROVE  PairInv'
<1>1. todo = <<>> /\ UNCHANGED <<mapped, returned, linked, failed>>
  BY DEF Poll
<1>2. CASE UNCHANGED todo
  BY <1>1, <1>2, PairQuiet
<1>3. CASE ~UNCHANGED todo
  <2>1. PICK o \in OrderId : o = w.order
    BY DEF IInv, TypeOK, Waiting
  <2>2. /\ Increment(o) > 0
        /\ todo' = <<[do |-> "book", order |-> o, qty |-> Increment(o)]>>
                     \o (IF FinalFill(book[o]) THEN AfterFilled(o, legs) ELSE <<>>)
    BY <1>3, <2>1 DEF Poll
  <2>3. Increment(o) \in 0..Qty
    BY <2>2, QtyAssumption DEF IInv, TypeOK, Increment
  <2>4. PICK x \in Task : x = [do |-> "book", order |-> o, qty |-> Increment(o)] /\ x.do = "book"
    <3>1. [do |-> "book", order |-> o, qty |-> Increment(o)] \in Task
      BY <2>3 DEF Task
    <3> QED
      BY <3>1
  <2>5. PICK later \in Seq(Task) :
          /\ later = IF FinalFill(book[o]) THEN AfterFilled(o, legs) ELSE <<>>
          /\ LinkLast(later)
          /\ \A t \in Pending(later) :
               Placing(t) /\ t.order \in LegId =>
                 /\ o = Entry(t.order.base)
                 /\ Do("link", o) \in Pending(later)
    <3>1. CASE FinalFill(book[o])
      BY <3>1, AfterFilledList, AfterFilledLinksLast, Ids DEF Follows, Placing
    <3>2. CASE ~FinalFill(book[o])
      BY <3>2, PendingOfNone, EmptySeq, LinkLastOfNone
    <3> QED
      BY <3>1, <3>2
  <2>6. todo' = <<x>> \o later
    BY <2>2, <2>4, <2>5
  <2>7. Pending(<<x>> \o later) = {x} \cup Pending(later)
    BY Prefixed
  <2>8. LinkLast(<<x>> \o later)
    <3>1. <<x>> \in Seq(Task) /\ \A t \in Pending(<<x>>) : t.do # "link"
      BY <2>4, PendingOfOne
    <3> QED
      BY <2>5, <3>1, LinkLastOfNone, LinkLastJoined
  <2>9. LinkFollows'
    <3> SUFFICES ASSUME NEW t \in Pending(later), Placing(t), t.order \in LegId
                 PROVE  LinkPending(t.order.base)'
      BY <2>4, <2>6, <2>7 DEF LinkFollows, Placing
    <3>1. Do("link", o) \in Pending(todo') /\ o = Entry(t.order.base)
      BY <2>5, <2>6, <2>7
    <3> QED
      BY <3>1, Tasks DEF LinkPending
  <2> QED
    BY <1>1, <2>6, <2>8, <2>9, PendingOfNone
       DEF PairInv, LegsAnswered, PairsLinked, LinkPending
<1> QED
  BY <1>2, <1>3

LEMMA PairInit == Init => PairInv
<1> SUFFICES ASSUME Init PROVE PairInv
  OBVIOUS
<1>1. todo = <<>> /\ mapped = {}
  BY DEF Init
<1>2. LinkLast(todo)
  BY <1>1, EmptySeq, PendingOfNone, LinkLastOfNone
<1> QED
  BY <1>1, <1>2, PendingOfNone DEF PairInv, LegsAnswered, LinkFollows, PairsLinked

LEMMA PairStep == IInv /\ PairInv /\ [Next]_vars => PairInv'
<1> SUFFICES ASSUME IInv, PairInv, [Next]_vars PROVE PairInv'
  OBVIOUS
<1>1. ASSUME NEW o \in OrderId, Fill(o) \/ GiveUp(o) \/ Wait(o) PROVE PairInv'
  <2>1. UNCHANGED <<todo, mapped, returned, linked, failed>>
    BY <1>1 DEF Fill, GiveUp, Wait, memory
  <2> QED
    BY <2>1, PairQuiet
<1>2. ASSUME NEW o \in OrderId, Submit(o) PROVE PairInv'
  <2>1. /\ UNCHANGED <<mapped, returned, linked, failed>>
        /\ todo = <<>> /\ o \in MainId /\ todo' = <<Do("submit", o)>>
    BY <1>2 DEF Submit, Idle, memory
  <2>2. PICK x \in Task : x = Do("submit", o) /\ x.do = "submit" /\ x.order = o
    BY Tasks
  <2>3. todo' \in Seq(Task) /\ Pending(todo') = {x} /\ x.order \notin LegId
    BY <2>1, <2>2, PendingOfOne, Ids
  <2> QED
    BY <2>1, <2>2, <2>3, PairBegins
<1>3. ASSUME NEW w \in wait, NEW legs \in SUBSET {"::SL", "::TP"}, Poll(w, legs) PROVE PairInv'
  BY <1>3, PairPoll
<1>4. CASE WaitReturns
  <2>1. /\ UNCHANGED <<mapped, returned, linked, failed>> /\ todo = <<>>
        /\ \E w \in wait : todo' \in {<<>>, <<Do("cancel", w.order)>>}
    BY <1>4 DEF WaitReturns, memory
  <2>2. PICK o \in OrderId : todo' \in {<<>>, <<Do("cancel", o)>>}
    BY <2>1 DEF IInv, TypeOK, Waiting
  <2>3. PICK x \in Task : x = Do("cancel", o) /\ x.do = "cancel"
    BY Tasks
  <2>4. /\ <<>> \in Seq(Task) /\ Pending(<<>>) = {}
        /\ <<x>> \in Seq(Task) /\ Pending(<<x>>) = {x}
    BY PendingOfOne, PendingOfNone, EmptySeq
  <2>5. todo' \in Seq(Task) /\ Pending(todo') \subseteq {x}
    BY <2>2, <2>3, <2>4
  <2> QED
    BY <2>1, <2>3, <2>5, PairBegins
<1>5. CASE DoSubmit \/ DoSubmitStop \/ DoSubmitLimit
  <2>1. PICK o \in OrderId : Sent(o)
    BY <1>5, Ids DEF DoSubmit, DoSubmitStop, DoSubmitLimit
  <2>2. /\ Head(todo).do = "submit" /\ UNCHANGED <<mapped, linked, failed>>
        /\ returned \subseteq returned'
    BY <2>1 DEF Sent, Next1
  <2> QED
    BY <2>1, <2>2, SentProceeds, PairProceeds
<1>6. CASE DoRecord \/ DoRecordStop \/ DoRecordLimit
  <2>1. \E o \in OrderId : Recorded(o)
    BY <1>6, Ids DEF DoRecord, DoRecordStop, DoRecordLimit
  <2> QED
    BY <2>1, PairRecorded
<1>7. CASE DoCancel \/ DoPop
  <2>1. /\ todo # <<>> /\ Head(todo).do \in {"cancel", "pop"} /\ todo' = Tail(todo)
        /\ UNCHANGED <<mapped, returned, linked>> /\ failed \subseteq failed'
    BY <1>7 DEF DoCancel, DoPop, Next1, memory
  <2> QED
    BY <2>1, ProceedsBehind, PairProceeds
<1>8. CASE DoBook
  BY <1>8, PairBook
<1>9. CASE DoOco
  <2>1. /\ todo # <<>> /\ Head(todo).do = "oco" /\ UNCHANGED <<mapped, returned, linked, failed>>
    BY <1>9 DEF DoOco, Next1, memory
  <2>2. Head(todo).order \in LegId
    BY <2>1, Behind DEF IInv, TasksOK, TaskOK
  <2> QED
    BY <1>9, <2>1, <2>2, OcoProceeds, PairProceeds
<1>10. CASE DoLink
  BY <1>10, PairLink
<1>11. CASE Restart
  <2>1. mapped' = {} /\ todo' = <<>>
    BY <1>11 DEF Restart
  <2>2. LinkLast(todo)'
    BY <2>1, EmptySeq, PendingOfNone, LinkLastOfNone
  <2> QED
    BY <2>1, <2>2, PendingOfNone DEF PairInv, LegsAnswered, LinkFollows, PairsLinked
<1>12. CASE UNCHANGED vars
  BY <1>12, PairQuiet DEF vars, memory
<1> QED
  BY <1>1, <1>2, <1>3, <1>4, <1>5, <1>6, <1>7, <1>8, <1>9, <1>10, <1>11, <1>12 DEF Next, Step

\* With nothing left to do, two legs that nothing raised for are linked, and no
\* sibling is owed a cancel.
LEMMA RestEndsSibling == IInv /\ PairInv => FilledLegEndsSibling
<1> SUFFICES ASSUME IInv, PairInv, todo = <<>>, NEW o \in LegId,
                    {o, Sibling(o)} \subseteq mapped \ failed, booked[o] = Qty
             PROVE  book[Sibling(o)].status \notin Live
  BY DEF FilledLegEndsSibling, Idle
<1>1. o.base \in linked
  <2>1. {Leg(o.base, "::SL"), Leg(o.base, "::TP")} \subseteq mapped \ failed /\ o.base \in Entries
    BY Ids
  <2> QED
    BY <2>1, PendingOfNone DEF PairInv, PairsLinked, LinkPending
<1> QED
  BY <1>1, PendingOfNone DEF IInv, SiblingStops, Owed

\* Of two legs with a broker id, one that is booked in full leaves the other
\* unable to trade once the engine is at rest, unless a submit, a booking or a
\* cancel of the two raised: both submits returned, so the legs were linked, and
\* the fill cancelled the sibling (_maybe_cancel_oco_sibling_on_fill).
THEOREM LegEndsSibling == Spec => []FilledLegEndsSibling
<1>1. IInv /\ PairInv /\ [Next]_vars => (IInv /\ PairInv)'
  BY EngineStep, PairStep
<1>2. Init => IInv /\ PairInv
  BY EngineInit, PairInit
<1> QED
  BY <1>1, <1>2, RestEndsSibling, PTL DEF Spec

-----------------------------------------------------------------------------
(* One entry, orders that fill at once, and nothing that raises or dies    *)
(* once an order is acknowledged: the second kind of behaviour of          *)
(* MCExecutionEngine.                                                      *)

\* While the position is closed, a leg that can trade is about to be cancelled.
NoLegLeft ==
  position = 0 =>
    \A o \in LegId : o \in mapped =>
      \/ book[o].status \notin Live
      \/ \E t \in Pending(todo) : t.do = "cancel" /\ t.order = o
      \/ o.base \in linked /\ \E t \in Pending(todo) : t.do = "oco" /\ t.order = Sibling(o)

\* Legs are placed for a position that is there, or about to be booked.
LegsPlaced ==
  \A t \in Pending(todo) :
    Placing(t) /\ t.order \in LegId => Head(todo).do = "book" \/ position > 0

\* A booking is of something; that of an entry alone places legs, that of a
\* whole leg is followed by its OCO.
BookingsFollowed ==
  todo # <<>> /\ Head(todo).do = "book" =>
    LET o == Head(todo).order IN
    /\ Head(todo).qty > 0 /\ booked[o] > 0 /\ o \in mapped
    /\ \A t \in Pending(todo) : t.do = "submit" => IsBuy(o)
    /\ o \in LegId /\ booked[o] = Qty => \E u \in Pending(todo) : u.do = "oco" /\ u.order = o

OwnerKnown == position > 0 => owner \in Entries

StrayInv == NoLegLeft /\ LegsPlaced /\ BookingsFollowed /\ OwnerKnown

\* No step revives an order that is over.
LEMMA DeadStaysDead ==
  ASSUME IInv, [Next]_vars, NEW p \in mapped, book[p].status \notin Live
  PROVE  book'[p].status \notin Live
<1>1. p \in OrderId /\ book[p].status # "NONE"
      /\ book \in [OrderId -> [status : Status, filled : 0..Qty]]
  BY DEF IInv, TypeOK, Known
<1>2. ASSUME NEW o \in OrderId, Fill(o) \/ GiveUp(o) PROVE book'[p] = book[p]
  BY <1>1, <1>2 DEF Fill, GiveUp, Live
<1>3. ASSUME NEW o \in OrderId, Sent(o) PROVE book'[p] = book[p]
  BY <1>1, <1>3 DEF Sent, Place
<1>4. CASE DoCancel
  BY <1>1, <1>4 DEF DoCancel, CancelAtBroker
<1>5. CASE book' = book
  BY <1>5
<1>6. CASE DoSubmit \/ DoSubmitStop \/ DoSubmitLimit
  <2>1. \E o \in OrderId : Sent(o)
    BY <1>6, Ids DEF DoSubmit, DoSubmitStop, DoSubmitLimit
  <2> QED
    BY <1>3, <2>1
<1>7. CASE DoRecord \/ DoRecordStop \/ DoRecordLimit
  BY <1>5, <1>7 DEF DoRecord, DoRecordStop, DoRecordLimit, Recorded
<1>8. CASE DoBook \/ DoOco \/ DoLink \/ DoPop \/ Restart \/ WaitReturns \/ UNCHANGED vars
  BY <1>5, <1>8 DEF DoBook, DoOco, DoLink, DoPop, Restart, WaitReturns, vars
<1>9. ASSUME NEW o \in OrderId, Submit(o) \/ Wait(o) PROVE book' = book
  BY <1>9 DEF Submit, Wait
<1>10. ASSUME NEW w \in wait, NEW legs \in SUBSET {"::SL", "::TP"}, Poll(w, legs)
       PROVE  book' = book
  BY <1>10 DEF Poll
<1> QED
  BY <1>2, <1>4, <1>5, <1>6, <1>7, <1>8, <1>9, <1>10 DEF Next, Step

\* Steps that leave what is still to be done as it is.
LEMMA StrayQuiet ==
  ASSUME IInv, StrayInv, [Next]_vars,
         UNCHANGED <<todo, mapped, linked, position, owner, booked>>
  PROVE  StrayInv'
<1>1. NoLegLeft'
  BY DeadStaysDead DEF StrayInv, NoLegLeft
<1>2. LegsPlaced' /\ BookingsFollowed' /\ OwnerKnown'
  BY DEF StrayInv, LegsPlaced, BookingsFollowed, OwnerKnown
<1> QED
  BY <1>1, <1>2 DEF StrayInv

\* Steps that begin a call, other than with a booking.
LEMMA StrayBegins ==
  ASSUME IInv, StrayInv, [Next]_vars, todo = <<>>, todo' \in Seq(Task),
         UNCHANGED <<mapped, linked, position, owner, booked>>,
         \A t \in Pending(todo') :
           t.do \in {"cancel", "submit"} /\ (t.do = "submit" => t.order \notin LegId)
  PROVE  StrayInv'
<1>1. NoLegLeft'
  <2> SUFFICES ASSUME position = 0, NEW o \in LegId, o \in mapped PROVE book'[o].status \notin Live
    BY DEF NoLegLeft
  <2>1. book[o].status \notin Live
    BY PendingOfNone DEF StrayInv, NoLegLeft
  <2> QED
    BY <2>1, DeadStaysDead
<1>2. LegsPlaced'
  BY DEF LegsPlaced, Placing
<1>3. BookingsFollowed'
  <2>1. todo' # <<>> => Head(todo').do # "book"
    BY HeadAndTail
  <2> QED
    BY <2>1 DEF BookingsFollowed
<1>4. OwnerKnown'
  BY DEF StrayInv, OwnerKnown
<1> QED
  BY <1>1, <1>2, <1>3, <1>4 DEF StrayInv

\* What a step that proceeds keeps, before one looks at the legs.
LEMMA StrayProceeds ==
  ASSUME IInv, StrayInv, Proceeds, Head(todo).do # "book", UNCHANGED <<position, owner>>
  PROVE  LegsPlaced' /\ BookingsFollowed' /\ OwnerKnown'
<1>1. Pending(todo) = {Head(todo)} \cup Pending(Tail(todo)) /\ Free(Tail(todo))
  BY Behind DEF IInv, Proceeds
<1>2. LegsPlaced'
  <2> SUFFICES ASSUME NEW t \in Pending(todo'), Placing(t), t.order \in LegId PROVE position > 0
    BY DEF LegsPlaced
  <2>1. PICK u \in Pending(todo) : Placing(u) /\ u.order = t.order
    BY <1>1 DEF Proceeds, Placing
  <2> QED
    BY <2>1 DEF StrayInv, LegsPlaced
<1>3. BookingsFollowed'
  <2>1. todo' # <<>> => Head(todo') \in Pending(todo')
    BY HeadAndTail DEF Proceeds
  <2>2. \A t \in Pending(todo') : t.do # "book"
    BY <1>1 DEF Proceeds, Free
  <2> QED
    BY <2>1, <2>2 DEF BookingsFollowed
<1>4. OwnerKnown'
  BY DEF StrayInv, OwnerKnown
<1> QED
  BY <1>2, <1>3, <1>4

\* The first effect is none that a leg waits for, and no live leg becomes known
\* without a position.
LEMMA StrayOther ==
  ASSUME IInv, StrayInv, [Next]_vars, Proceeds, Head(todo).do \notin {"book", "oco"},
         UNCHANGED <<position, owner>>, linked \subseteq linked',
         \A o \in LegId : o \in mapped' => o \in mapped \/ position > 0,
         \A o \in LegId : Head(todo).do = "cancel" /\ Head(todo).order = o =>
           book'[o].status \notin Live
  PROVE  StrayInv'
<1>1. Pending(todo) = {Head(todo)} \cup Pending(Tail(todo))
  BY Behind DEF IInv, Proceeds
<1>2. NoLegLeft'
  <2> SUFFICES ASSUME position = 0, NEW o \in LegId, o \in mapped, book'[o].status \in Live
               PROVE  \/ \E t \in Pending(todo') : t.do = "cancel" /\ t.order = o
                      \/ o.base \in linked'
                         /\ \E t \in Pending(todo') : t.do = "oco" /\ t.order = Sibling(o)
    BY DEF NoLegLeft
  <2>1. book[o].status \in Live
    BY DeadStaysDead
  <2>2. CASE \E t \in Pending(todo) : t.do = "cancel" /\ t.order = o
    BY <1>1, <2>2 DEF Proceeds
  <2>3. CASE o.base \in linked /\ \E t \in Pending(todo) : t.do = "oco" /\ t.order = Sibling(o)
    BY <1>1, <2>3 DEF Proceeds
  <2> QED
    BY <2>1, <2>2, <2>3 DEF StrayInv, NoLegLeft
<1> QED
  BY <1>2, StrayProceeds DEF StrayInv

LEMMA StraySent ==
  ASSUME IInv, PairInv, StrayInv, [Next]_vars, NEW o \in OrderId, Sent(o) PROVE StrayInv'
<1>1. Head(todo).do = "submit" /\ UNCHANGED <<position, owner, mapped, linked>>
  BY DEF Sent, Next1, durable
<1> QED
  BY <1>1, SentProceeds, StrayOther

LEMMA StrayCancel ==
  ASSUME IInv, PairInv, StrayInv, [Next]_vars, DoCancel, failed' = {} PROVE StrayInv'
<1>1. /\ todo # <<>> /\ Head(todo).do = "cancel" /\ todo' = Tail(todo)
      /\ UNCHANGED <<position, owner, mapped, linked>>
  BY DEF DoCancel, Next1, memory, durable
<1>2. Head(todo).order \in OrderId
  BY <1>1, Behind DEF IInv
<1>3. book'[Head(todo).order].status \notin Live
  <2>1. book \in [OrderId -> [status : Status, filled : 0..Qty]]
    BY DEF IInv, TypeOK
  <2>2. CASE CancelAtBroker(Head(todo).order)
    BY <1>2, <2>1, <2>2 DEF CancelAtBroker, Live
  <2>3. CASE book' = book /\ book[Head(todo).order].status \notin Live
    BY <2>3
  <2> QED
    BY <2>2, <2>3 DEF DoCancel
<1>4. Proceeds
  BY <1>1, ProceedsBehind
<1> QED
  BY <1>1, <1>3, <1>4, StrayOther

\* A leg becomes known while the position is there.
LEMMA StrayRecorded ==
  ASSUME IInv, PairInv, StrayInv, [Next]_vars, NEW o \in OrderId, Recorded(o) PROVE StrayInv'
<1>1. /\ todo # <<>> /\ Head(todo).do = "record" /\ Head(todo).order = o
      /\ todo' = Tail(todo) /\ mapped' = mapped \cup {o}
      /\ UNCHANGED <<position, owner, linked>>
  BY DEF Recorded, Next1
<1>2. Proceeds /\ Pending(todo) = {Head(todo)} \cup Pending(Tail(todo))
  BY <1>1, Behind, ProceedsBehind DEF IInv
<1>3. o \in LegId => position > 0
  BY <1>1, <1>2 DEF StrayInv, LegsPlaced, Placing
<1> QED
  BY <1>1, <1>2, <1>3, StrayOther

LEMMA StrayLinkOrPop ==
  ASSUME IInv, PairInv, StrayInv, [Next]_vars, DoLink \/ DoPop PROVE StrayInv'
<1>1. /\ todo # <<>> /\ Head(todo).do \in {"link", "pop"} /\ todo' = Tail(todo)
      /\ linked \subseteq linked' /\ UNCHANGED <<position, owner, mapped>>
  BY DEF DoLink, DoPop, Next1, durable
<1>2. Proceeds
  BY <1>1, ProceedsBehind
<1> QED
  BY <1>1, <1>2, StrayOther

LEMMA StrayOco ==
  ASSUME IInv, PairInv, StrayInv, DoOco PROVE StrayInv'
<1>1. /\ todo # <<>> /\ Head(todo).do = "oco"
      /\ UNCHANGED <<book, mapped, linked, position, owner>>
  BY DEF DoOco, Next1, memory, durable
<1>2. PICK o \in LegId : o = Head(todo).order
  BY <1>1, Behind DEF IInv, TasksOK, TaskOK
<1>3. /\ Proceeds /\ Pending(todo) = {Head(todo)} \cup Pending(Tail(todo))
      /\ o.base \in linked /\ Sibling(o) \in mapped =>
           \E t \in Pending(todo') : t.do = "cancel" /\ t.order = Sibling(o)
  BY <1>1, <1>2, OcoProceeds, Behind DEF IInv
<1>4. NoLegLeft'
  <2> SUFFICES ASSUME position = 0, NEW p \in LegId, p \in mapped, book[p].status \in Live
               PROVE  \/ \E t \in Pending(todo') : t.do = "cancel" /\ t.order = p
                      \/ p.base \in linked
                         /\ \E t \in Pending(todo') : t.do = "oco" /\ t.order = Sibling(p)
    BY <1>1 DEF NoLegLeft
  <2>1. CASE o = Sibling(p) /\ p.base \in linked
    BY <1>3, <2>1, Ids
  <2>2. CASE o # Sibling(p) \/ p.base \notin linked
    BY <1>1, <1>2, <1>3, <2>2 DEF StrayInv, NoLegLeft, Proceeds
  <2> QED
    BY <2>1, <2>2
<1> QED
  BY <1>1, <1>3, <1>4, StrayProceeds DEF StrayInv

LEMMA StrayBook ==
  ASSUME IInv, PairInv, StrayInv, DoBook, failed' = {}, NEW e, Entries = {e}, Qty = 1
  PROVE  StrayInv'
<1> DEFINE o == Head(todo).order
           n == Head(todo).qty
<1>1. /\ todo # <<>> /\ Head(todo).do = "book"
      /\ UNCHANGED <<book, mapped, linked, booked, failed>>
      /\ IF IsBuy(o) THEN BookBuy(o, n) ELSE BookSell(o, n)
  BY DEF DoBook, Next1, memory
<1>2. Proceeds
  BY <1>1, BookProceeds
<1>3. /\ o \in OrderId /\ n \in 0..1 /\ n > 0 /\ position \in Nat
      /\ Pending(todo) = {Head(todo)} \cup Pending(Tail(todo)) /\ Free(Tail(todo))
      /\ Tail(todo) \in Seq(Task)
  BY <1>1, Behind DEF IInv, TypeOK, Task, StrayInv, BookingsFollowed
<1>4. \A t \in Pending(todo) : t.do # "book" => t \in Pending(todo')
  BY <1>1, <1>2, <1>3 DEF Proceeds
<1>5. IsBuy(o) => position' > 0
  <2>1. ASSUME IsBuy(o) PROVE position' = position + n
    BY <1>1, <2>1 DEF BookBuy, Upsert
  <2> QED
    BY <1>3, <2>1
<1>6. LegsPlaced'
  <2> SUFFICES ASSUME NEW t \in Pending(todo'), Placing(t), t.order \in LegId
               PROVE  position' > 0
    BY DEF LegsPlaced
  <2>1. t \in Pending(todo) /\ t.do = "submit"
    BY <1>1, <1>2, <1>3 DEF Placing, Free, Proceeds
  <2> QED
    BY <1>1, <1>5, <2>1 DEF StrayInv, BookingsFollowed
<1>7. BookingsFollowed'
  <2>1. todo' # <<>> => Head(todo') \in Pending(todo')
    BY <1>2, HeadAndTail DEF Proceeds
  <2> QED
    BY <1>2, <1>3, <2>1 DEF BookingsFollowed, Free, Proceeds
<1>8. CASE IsBuy(o) \/ position = 0
  <2>1. position = 0 /\ ~IsBuy(o) => UNCHANGED <<position, owner>>
    BY <1>1 DEF BookSell
  <2>2. OwnerKnown'
    BY <1>1, <1>3, <1>8, <2>1, Ids DEF StrayInv, OwnerKnown, BookBuy, Upsert
  <2>3. NoLegLeft'
    BY <1>1, <1>4, <1>5, <1>8, <2>1 DEF StrayInv, NoLegLeft
  <2> QED
    BY <1>6, <1>7, <2>2, <2>3 DEF StrayInv
<1>9. CASE ~IsBuy(o) /\ position # 0
  <2> DEFINE first == IF Remaining(n) = 0 /\ ~IsProtective(o) THEN CancelLegs(owner) ELSE <<>>
  <2>1. /\ IF Remaining(n) = 0 THEN Delete ELSE Upsert(Remaining(n), owner)
        /\ todo' = first \o Tail(todo)
    BY <1>1, <1>9 DEF BookSell
  <2>2. first \in Seq(Task) /\ \A t \in Pending(first) : t.do = "cancel"
    BY CancelsOfLegs, PendingOfNone, EmptySeq DEF IInv
  <2>3. PICK cancels \in Seq(Task) :
          /\ cancels = first /\ \A t \in Pending(cancels) : t.do = "cancel"
    BY <2>2
  <2>4. todo' = cancels \o Tail(todo)
    BY <2>1, <2>3
  <2>5. Pending(cancels) \subseteq Pending(todo')
    BY <1>1, <2>3, <2>4, ProceedsWith
  <2>6. OwnerKnown'
    BY <1>3, <1>9, <2>1 DEF StrayInv, OwnerKnown, Upsert, Delete
  <2>7. NoLegLeft'
    <3> SUFFICES ASSUME position' = 0, NEW p \in LegId, p \in mapped, book[p].status \in Live
                 PROVE  \/ \E t \in Pending(todo') : t.do = "cancel" /\ t.order = p
                        \/ p.base \in linked
                           /\ \E t \in Pending(todo') : t.do = "oco" /\ t.order = Sibling(p)
      BY <1>1 DEF NoLegLeft
    <3>1. Remaining(n) = 0
      BY <2>1 DEF Upsert
    <3>2. p.base = e
      BY Ids
    <3>3. CASE ~IsProtective(o)
      <4>1. owner = e
        BY <1>3, <1>9 DEF StrayInv, OwnerKnown
      <4>2. \E t \in Pending(CancelLegs(owner)) : t.do = "cancel" /\ t.order = p
        BY <3>2, <4>1, CancelsOfLegs DEF IInv
      <4> QED
        BY <2>3, <2>5, <3>1, <3>3, <4>2
    <3>4. CASE IsProtective(o)
      <4>1. o \in LegId /\ o.base = e
        BY <1>3, <3>4, Ids
      <4>2. booked[o] = 1
        <5>1. booked[o] \in Nat /\ book[o].filled \in 0..1 /\ booked[o] <= book[o].filled
          BY <1>3 DEF IInv, TypeOK, BookedWithinFilled
        <5>2. booked[o] > 0
          BY <1>1 DEF StrayInv, BookingsFollowed
        <5> QED
          BY <5>1, <5>2
      <4>3. book[o].status \notin Live
        <5>1. booked[o] <= book[o].filled /\ book[o].filled \in 0..1
          BY <1>3 DEF IInv, TypeOK, BookedWithinFilled
        <5>2. book[o].filled = 1
          BY <4>2, <5>1
        <5>3. book[o].status = "FILLED"
          BY <1>3, <5>2 DEF IInv, BookShape
        <5> QED
          BY <5>3 DEF Live
      <4>4. p # o
        BY <4>3
      <4>5. Sibling(p) = o
        <5>1. o = Leg(e, "::SL") \/ o = Leg(e, "::TP")
          BY <4>1, Ids
        <5>2. \/ p = Leg(e, "::SL") /\ Sibling(p) = Leg(e, "::TP")
              \/ p = Leg(e, "::TP") /\ Sibling(p) = Leg(e, "::SL")
          BY <3>2, Ids
        <5> QED
          BY <4>4, <5>1, <5>2
      <4>6. \E u \in Pending(todo) : u.do = "oco" /\ u.order = o
        BY <1>1, <4>1, <4>2 DEF StrayInv, BookingsFollowed
      <4>7. e \in linked
        <5>1. p \in mapped /\ Sibling(p) \in mapped /\ failed = {}
          BY <1>1, <4>5 DEF StrayInv, BookingsFollowed
        <5>2. {Leg(e, "::SL"), Leg(e, "::TP")} \subseteq mapped \ failed
          BY <3>2, <5>1, Ids
        <5> QED
          BY <1>1, <5>2 DEF PairInv, PairsLinked
      <4> QED
        BY <1>4, <3>2, <4>5, <4>6, <4>7
    <3> QED
      BY <3>3, <3>4
  <2> QED
    BY <1>6, <1>7, <2>6, <2>7 DEF StrayInv
<1> QED
  BY <1>8, <1>9


LEMMA StrayPoll ==
  ASSUME IInv, StrayInv, [Next]_vars, NEW w \in wait, NEW legs \in SUBSET {"::SL", "::TP"},
         Poll(w, legs), Qty = 1
  PROVE  StrayInv'
<1>1. /\ todo = <<>> /\ <<w.state, book[w.order].status>> \in Pollable
      /\ UNCHANGED <<book, mapped, linked, position, owner>>
  BY DEF Poll
<1>2. CASE UNCHANGED <<todo, booked>>
  BY <1>1, <1>2, StrayQuiet
<1>3. CASE ~UNCHANGED <<todo, booked>>
  <2>1. PICK o \in OrderId : o = w.order
    BY DEF IInv, TypeOK, Waiting
  <2>2. /\ book[o].status \in {"PARTIALLY_FILLED", "FILLED"} /\ Increment(o) > 0
        /\ booked' = [booked EXCEPT ![o] = @ + Increment(o)]
        /\ todo' = <<[do |-> "book", order |-> o, qty |-> Increment(o)]>>
                     \o (IF FinalFill(book[o]) THEN AfterFilled(o, legs) ELSE <<>>)
    BY <1>3, <2>1 DEF Poll
  <2>3. /\ o \in mapped /\ Increment(o) \in Nat /\ Increment(o) = book[o].filled - cum[o]
        /\ book[o].filled \in 0..1 /\ cum[o] \in 0..1
        /\ booked[o] \in Nat /\ booked \in [OrderId -> Nat]
    BY <2>1, <2>2 DEF IInv, TypeOK, OneWait, Increment
  <2>4. booked'[o] > 0 /\ book[o].filled = 1
    BY <2>2, <2>3
  <2>5. FinalFill(book[o])
    BY <2>4 DEF IInv, BookShape, FinalFill
  <2>6. PICK x \in Task : /\ x = [do |-> "book", order |-> o, qty |-> Increment(o)]
                          /\ x.do = "book" /\ x.order = o /\ x.qty = Increment(o)
    <3> DEFINE x == [do |-> "book", order |-> o, qty |-> Increment(o)]
    <3>1. Increment(o) \in 0..Qty
      BY <2>3
    <3>2. x \in Task
      BY <3>1 DEF Task
    <3> QED
      BY <3>2
  <2>7. PICK later \in Seq(Task) :
          /\ later = AfterFilled(o, legs)
          /\ \A t \in Pending(later) : Follows(o, t)
          /\ IsProtective(o) => Do("oco", o) \in Pending(later)
    BY AfterFilledList
  <2>8. todo' = <<x>> \o later
    BY <2>2, <2>5, <2>6, <2>7
  <2>9. /\ Head(<<x>> \o later) = x
        /\ Pending(<<x>> \o later) = {x} \cup Pending(later)
    BY Prefixed
  <2>10. NoLegLeft'
    BY <1>1, PendingOfNone DEF StrayInv, NoLegLeft
  <2>11. LegsPlaced'
    BY <2>6, <2>8, <2>9 DEF LegsPlaced
  <2>12. BookingsFollowed'
    <3>1. \A t \in Pending(todo') : t.do = "submit" => IsBuy(o)
      BY <2>6, <2>7, <2>8, <2>9 DEF Follows
    <3>2. o \in LegId => \E u \in Pending(todo') : u.do = "oco" /\ u.order = o
      BY SMTT(40), <2>7, <2>8, <2>9, Ids, Tasks
    <3> QED
      BY <1>1, <2>2, <2>3, <2>4, <2>6, <2>8, <2>9, <3>1, <3>2 DEF BookingsFollowed
  <2>13. OwnerKnown'
    BY <1>1 DEF StrayInv, OwnerKnown
  <2> QED
    BY <2>10, <2>11, <2>12, <2>13 DEF StrayInv
<1> QED
  BY <1>2, <1>3

LEMMA StrayInit == Init => StrayInv
<1> SUFFICES ASSUME Init PROVE StrayInv
  OBVIOUS
<1> QED
  BY PendingOfNone DEF Init, StrayInv, NoLegLeft, LegsPlaced, BookingsFollowed, OwnerKnown

LEMMA StrayStep ==
  ASSUME IInv, PairInv, StrayInv, [Next]_vars, mapped \subseteq mapped', failed' = {},
         NEW e, Entries = {e}, Qty = 1
  PROVE  StrayInv'
<1>1. ASSUME NEW o \in OrderId, Fill(o) \/ GiveUp(o) \/ Wait(o) PROVE StrayInv'
  <2>1. UNCHANGED <<todo, mapped, linked, position, owner, booked>>
    BY <1>1 DEF Fill, GiveUp, Wait, memory, durable
  <2> QED
    BY <2>1, StrayQuiet
<1>2. ASSUME NEW o \in OrderId, Submit(o) PROVE StrayInv'
  <2>1. /\ UNCHANGED <<mapped, linked, position, owner, booked>>
        /\ todo = <<>> /\ o \in MainId /\ todo' = <<Do("submit", o)>>
    BY <1>2 DEF Submit, Idle, memory, durable
  <2>2. PICK x \in Task : x = Do("submit", o) /\ x.do = "submit" /\ x.order = o
    BY Tasks
  <2>3. todo' \in Seq(Task) /\ Pending(todo') = {x} /\ x.order \notin LegId
    BY <2>1, <2>2, PendingOfOne, Ids
  <2> QED
    BY <2>1, <2>2, <2>3, StrayBegins
<1>3. ASSUME NEW w \in wait, NEW legs \in SUBSET {"::SL", "::TP"}, Poll(w, legs) PROVE StrayInv'
  BY <1>3, StrayPoll
<1>4. CASE WaitReturns
  <2>1. /\ UNCHANGED <<mapped, linked, position, owner, booked>> /\ todo = <<>>
        /\ \E w \in wait : todo' \in {<<>>, <<Do("cancel", w.order)>>}
    BY <1>4 DEF WaitReturns, memory, durable
  <2>2. PICK o \in OrderId : todo' \in {<<>>, <<Do("cancel", o)>>}
    BY <2>1 DEF IInv, TypeOK, Waiting
  <2>3. PICK x \in Task : x = Do("cancel", o) /\ x.do = "cancel"
    BY Tasks
  <2>4. /\ <<>> \in Seq(Task) /\ Pending(<<>>) = {}
        /\ <<x>> \in Seq(Task) /\ Pending(<<x>>) = {x}
    BY PendingOfOne, PendingOfNone, EmptySeq
  <2>5. todo' \in Seq(Task) /\ Pending(todo') \subseteq {x}
    BY <2>2, <2>3, <2>4
  <2> QED
    BY <2>1, <2>3, <2>5, StrayBegins
<1>5. CASE DoSubmit \/ DoSubmitStop \/ DoSubmitLimit
  <2>1. \E o \in OrderId : Sent(o)
    BY <1>5, Ids DEF DoSubmit, DoSubmitStop, DoSubmitLimit
  <2> QED
    BY <2>1, StraySent
<1>6. CASE DoRecord \/ DoRecordStop \/ DoRecordLimit
  <2>1. \E o \in OrderId : Recorded(o)
    BY <1>6, Ids DEF DoRecord, DoRecordStop, DoRecordLimit
  <2> QED
    BY <2>1, StrayRecorded
<1>7. CASE DoCancel
  BY <1>7, StrayCancel
<1>8. CASE DoBook
  BY <1>8, StrayBook
<1>9. CASE DoOco \/ DoLink \/ DoPop
  BY <1>9, StrayOco, StrayLinkOrPop
\* An order is known: the process does not die.  None is: it has no leg to lose.
<1>10. CASE Restart
  <2>1. mapped' = {} /\ mapped = {} /\ todo' = <<>> /\ UNCHANGED <<position, owner>>
    BY <1>10 DEF Restart, durable
  <2> QED
    BY <2>1, PendingOfNone
       DEF NoLegLeft, LegsPlaced, BookingsFollowed, OwnerKnown, StrayInv
<1>11. CASE UNCHANGED vars
  BY <1>11, StrayQuiet DEF vars, memory, durable
<1> QED
  BY <1>1, <1>2, <1>3, <1>4, <1>5, <1>6, <1>7, <1>8, <1>9, <1>10, <1>11 DEF Next, Step

LEMMA RestLeavesNoLeg == StrayInv => NoStrayLegs
  BY PendingOfNone DEF StrayInv, NoLegLeft, NoStrayLegs, Idle

=============================================================================
