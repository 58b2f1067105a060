---------------------- MODULE MCExecutionEngine_proofs ----------------------
(***************************************************************************)
(* The theorems of ExecutionEngine_proofs carried to both kinds of         *)
(* behaviour of MCExecutionEngine: AtOnceFacts states them for orders that *)
(* fill at once.                                                           *)
(***************************************************************************)
EXTENDS MCExecutionEngine, ExecutionEngine_proofs

AtOnceFacts == INSTANCE ExecutionEngine_proofs WITH Exits <- ExitsAtOnce, Qty <- 1

\* Both instances are of the same module: their actions are the same.
LEMMA SameActions ==
  /\ AtOnce!Init <=> AtOnceFacts!Init
  /\ AtOnce!Next <=> AtOnceFacts!Next
<1> USE DEF AtOnce!OrderId, AtOnceFacts!OrderId, AtOnce!MainId, AtOnceFacts!MainId,
            AtOnce!LegId, AtOnceFacts!LegId, AtOnce!Leg, AtOnceFacts!Leg,
            AtOnce!Do, AtOnceFacts!Do, AtOnce!Live, AtOnceFacts!Live,
            AtOnce!Terminal, AtOnceFacts!Terminal, AtOnce!IsBuy, AtOnceFacts!IsBuy,
            AtOnce!IsProtective, AtOnceFacts!IsProtective,
            AtOnce!Sibling, AtOnceFacts!Sibling, AtOnce!NoOwner, AtOnceFacts!NoOwner,
            AtOnce!memory, AtOnceFacts!memory, AtOnce!durable, AtOnceFacts!durable,
            AtOnce!driver, AtOnceFacts!driver, AtOnce!Idle, AtOnceFacts!Idle,
            AtOnce!Next1, AtOnceFacts!Next1
<1>1. AtOnce!Init <=> AtOnceFacts!Init
  BY DEF AtOnce!Init, AtOnceFacts!Init
<1>2. ASSUME NEW o
      PROVE  /\ AtOnce!Fill(o) <=> AtOnceFacts!Fill(o)
             /\ AtOnce!GiveUp(o) <=> AtOnceFacts!GiveUp(o)
             /\ AtOnce!Submit(o) <=> AtOnceFacts!Submit(o)
             /\ AtOnce!Wait(o) <=> AtOnceFacts!Wait(o)
  BY DEF AtOnce!Fill, AtOnceFacts!Fill, AtOnce!GiveUp, AtOnceFacts!GiveUp,
         AtOnce!Submit, AtOnceFacts!Submit, AtOnce!Wait, AtOnceFacts!Wait
<1>3. ASSUME NEW w, NEW legs PROVE AtOnce!Poll(w, legs) <=> AtOnceFacts!Poll(w, legs)
  <2>1. ASSUME NEW o PROVE AtOnce!AfterFilled(o, legs) = AtOnceFacts!AfterFilled(o, legs)
    BY DEF AtOnce!AfterFilled, AtOnceFacts!AfterFilled
  <2> QED
    BY <2>1 DEF AtOnce!Poll, AtOnceFacts!Poll, AtOnce!Increment, AtOnceFacts!Increment,
                AtOnce!FinalFill, AtOnceFacts!FinalFill, AtOnce!Pollable, AtOnceFacts!Pollable
<1>4. AtOnce!WaitReturns <=> AtOnceFacts!WaitReturns
  BY DEF AtOnce!WaitReturns, AtOnceFacts!WaitReturns, AtOnce!WaitMayEnd, AtOnceFacts!WaitMayEnd
<1>5. ASSUME NEW o
      PROVE  /\ AtOnce!Sent(o) <=> AtOnceFacts!Sent(o)
             /\ AtOnce!Recorded(o) <=> AtOnceFacts!Recorded(o)
  BY DEF AtOnce!Sent, AtOnceFacts!Sent, AtOnce!Recorded, AtOnceFacts!Recorded,
         AtOnce!Place, AtOnceFacts!Place
<1>6. AtOnce!DoCancel <=> AtOnceFacts!DoCancel
  BY DEF AtOnce!DoCancel, AtOnceFacts!DoCancel, AtOnce!CancelAtBroker, AtOnceFacts!CancelAtBroker
<1>7. AtOnce!DoBook <=> AtOnceFacts!DoBook
  <2>1. ASSUME NEW e PROVE AtOnce!CancelLegs(e) = AtOnceFacts!CancelLegs(e)
    BY DEF AtOnce!CancelLegs, AtOnceFacts!CancelLegs
  <2>2. ASSUME NEW o, NEW n
        PROVE  /\ AtOnce!BookBuy(o, n) <=> AtOnceFacts!BookBuy(o, n)
               /\ AtOnce!BookSell(o, n) <=> AtOnceFacts!BookSell(o, n)
    BY <2>1 DEF AtOnce!BookBuy, AtOnceFacts!BookBuy, AtOnce!BookSell, AtOnceFacts!BookSell,
                AtOnce!Remaining, AtOnceFacts!Remaining, AtOnce!Upsert, AtOnceFacts!Upsert,
                AtOnce!Delete, AtOnceFacts!Delete
  <2> QED
    BY <2>2 DEF AtOnce!DoBook, AtOnceFacts!DoBook
<1>8. /\ AtOnce!DoOco <=> AtOnceFacts!DoOco
      /\ AtOnce!DoLink <=> AtOnceFacts!DoLink
      /\ AtOnce!DoPop <=> AtOnceFacts!DoPop
  BY DEF AtOnce!DoOco, AtOnceFacts!DoOco, AtOnce!DoLink, AtOnceFacts!DoLink,
         AtOnce!DoPop, AtOnceFacts!DoPop, AtOnce!CancelSibling, AtOnceFacts!CancelSibling
<1>9. AtOnce!Restart <=> AtOnceFacts!Restart
  BY DEF AtOnce!Restart, AtOnceFacts!Restart, AtOnce!Seeds, AtOnceFacts!Seeds
<1>10. AtOnce!Step <=> AtOnceFacts!Step
  BY <1>5, <1>6, <1>7, <1>8
     DEF AtOnce!Step, AtOnceFacts!Step, AtOnce!DoSubmit, AtOnceFacts!DoSubmit,
         AtOnce!DoRecord, AtOnceFacts!DoRecord, AtOnce!DoSubmitStop, AtOnceFacts!DoSubmitStop,
         AtOnce!DoRecordStop, AtOnceFacts!DoRecordStop,
         AtOnce!DoSubmitLimit, AtOnceFacts!DoSubmitLimit,
         AtOnce!DoRecordLimit, AtOnceFacts!DoRecordLimit
<1> QED
  BY <1>1, <1>2, <1>3, <1>4, <1>9, <1>10 DEF AtOnce!Next, AtOnceFacts!Next
-----------------------------------------------------------------------------
\* The inductive invariant of the kind of behaviour this is.
MCInv ==
  IF exiting THEN AtOnceFacts!IInv /\ AtOnceFacts!PairInv ELSE IInv /\ PairInv

LEMMA MCInvInit == MCInit => MCInv
<1>1. AtOnceFacts!Init => AtOnceFacts!IInv /\ AtOnceFacts!PairInv
  BY AtOnceFacts!EngineInit, AtOnceFacts!PairInit, ExitsAtOnceAssumption
<1> QED
  BY <1>1, EngineInit, PairInit, SameActions DEF MCInit, MCInv

\* Every step of one kind is a step of the engine of that kind.
LEMMA StepsOfAKind ==
  ASSUME [MCNext]_<<exiting, vars>>
  PROVE  /\ exiting' = exiting
         /\ exiting => /\ [AtOnceFacts!Next]_(AtOnceFacts!vars)
                       /\ UNCHANGED vars \/ (mapped \subseteq mapped' /\ failed' = {})
         /\ ~exiting => [Next]_vars
<1>1. UNCHANGED vars => UNCHANGED AtOnceFacts!vars
  BY DEF vars, memory, durable, driver, AtOnceFacts!vars, AtOnceFacts!memory,
         AtOnceFacts!durable, AtOnceFacts!driver
<1>2. CASE MCNext
  BY <1>2, SameActions DEF MCNext
<1>3. CASE UNCHANGED <<exiting, vars>>
  BY <1>1, <1>3
<1> QED
  BY <1>2, <1>3

LEMMA MCInvStep == MCInv /\ [MCNext]_<<exiting, vars>> => MCInv'
<1> SUFFICES ASSUME MCInv, [MCNext]_<<exiting, vars>> PROVE MCInv'
  OBVIOUS
<1>1. AtOnceFacts!IInv /\ AtOnceFacts!PairInv /\ [AtOnceFacts!Next]_(AtOnceFacts!vars)
        => AtOnceFacts!IInv' /\ AtOnceFacts!PairInv'
  BY AtOnceFacts!EngineStep, AtOnceFacts!PairStep, ExitsAtOnceAssumption
<1> QED
  BY <1>1, EngineStep, PairStep, StepsOfAKind DEF MCInv

LEMMA MCInvariant == MCSpec => []MCInv
  BY MCInvInit, MCInvStep, PTL DEF MCSpec

\* No order is booked beyond what the broker filled of it, in both kinds:
\* whether orders fill in parts or at once, and whether exits trade or not
\* (engine.py, PATCH 3).
THEOREM FillsAreBookedOnce == MCSpec => []BookedWithinFills
<1>1. MCInv => BookedWithinFills
  BY DEF MCInv, BookedWithinFills, IInv, BookedWithinFilled, AtOnceFacts!IInv,
         AtOnce!BookedWithinFilled, AtOnceFacts!BookedWithinFilled,
         AtOnce!OrderId, AtOnceFacts!OrderId, AtOnce!MainId, AtOnceFacts!MainId,
         AtOnce!LegId, AtOnceFacts!LegId
<1> QED
  BY <1>1, MCInvariant, PTL

-----------------------------------------------------------------------------
\* With one entry, closing the position leaves none of its legs behind.
MCStrayInv == MCInv /\ (exiting => AtOnceFacts!StrayInv)

LEMMA MCStrayInit == MCInit => MCStrayInv
<1>1. AtOnceFacts!Init => AtOnceFacts!StrayInv
  BY AtOnceFacts!StrayInit, ExitsAtOnceAssumption
<1> QED
  BY <1>1, MCInvInit, SameActions DEF MCInit, MCStrayInv

LEMMA MCStrayStep ==
  ASSUME NEW e, Entries = {e}, MCStrayInv, [MCNext]_<<exiting, vars>> PROVE MCStrayInv'
<1>1. CASE ~exiting
  BY <1>1, MCInvStep, StepsOfAKind DEF MCStrayInv
<1>2. CASE exiting
  <2>1. /\ AtOnceFacts!IInv /\ AtOnceFacts!PairInv /\ AtOnceFacts!StrayInv
        /\ [AtOnceFacts!Next]_(AtOnceFacts!vars)
    BY <1>2, StepsOfAKind DEF MCStrayInv, MCInv
  <2>2. CASE mapped \subseteq mapped' /\ failed' = {}
    <3>1. AtOnceFacts!StrayInv'
      BY <2>1, <2>2, AtOnceFacts!StrayStep, ExitsAtOnceAssumption
    <3> QED
      BY <1>2, <3>1, MCInvStep DEF MCStrayInv
  <2>3. CASE UNCHANGED vars
    <3>1. AtOnceFacts!StrayInv'
      BY <2>1, <2>3, AtOnceFacts!StrayQuiet, ExitsAtOnceAssumption DEF vars, memory, durable
    <3> QED
      BY <1>2, <3>1, MCInvStep DEF MCStrayInv
  <2> QED
    BY <1>2, <2>2, <2>3, StepsOfAKind
<1> QED
  BY <1>1, <1>2

\* With one entry: legs are at the broker only for an entry that is filled and
\* booked in full; a leg that filled leaves its sibling unable to trade, where
\* both have a broker id and no submit, booking or cancel of them raised; and,
\* when orders fill at once, closing the position leaves no leg that can trade.
THEOREM LegsMatch == ASSUME NEW e, Entries = {e} PROVE MCSpec => []LegsMatchTheTrade
<1>1. MCStrayInv /\ [MCNext]_<<exiting, vars>> => MCStrayInv'
  BY MCStrayStep
<1>2. MCStrayInv => LegsMatchTheTrade
  <2> SUFFICES ASSUME MCStrayInv PROVE LegsMatchTheTrade
    OBVIOUS
  <2>1. CASE ~exiting
    BY <2>1, RestEndsSibling DEF MCStrayInv, MCInv, IInv, LegsMatchTheTrade
  <2>2. AtOnceFacts!OrderId = AtOnce!OrderId /\ AtOnceFacts!LegId = AtOnce!LegId
    BY DEF AtOnce!OrderId, AtOnceFacts!OrderId, AtOnce!MainId, AtOnceFacts!MainId,
           AtOnce!LegId, AtOnceFacts!LegId
  <2>3. AtOnceFacts!LegsOnlyForFilledEntries => AtOnce!LegsOnlyForFilledEntries
    BY <2>2 DEF AtOnce!LegsOnlyForFilledEntries, AtOnceFacts!LegsOnlyForFilledEntries
  <2>4. AtOnceFacts!FilledLegEndsSibling => AtOnce!FilledLegEndsSibling
    BY <2>2 DEF AtOnce!FilledLegEndsSibling, AtOnceFacts!FilledLegEndsSibling,
                AtOnce!Idle, AtOnceFacts!Idle,
                AtOnce!Live, AtOnceFacts!Live, AtOnce!Sibling, AtOnceFacts!Sibling,
                AtOnce!Leg, AtOnceFacts!Leg
  <2>5. AtOnceFacts!NoStrayLegs => AtOnce!NoStrayLegs
    BY <2>2 DEF AtOnce!NoStrayLegs, AtOnceFacts!NoStrayLegs, AtOnce!Idle, AtOnceFacts!Idle,
                AtOnce!Live, AtOnceFacts!Live
  <2>6. CASE exiting
    <3>1. AtOnceFacts!FilledLegEndsSibling /\ AtOnceFacts!NoStrayLegs
      BY <2>6, AtOnceFacts!RestEndsSibling, AtOnceFacts!RestLeavesNoLeg, ExitsAtOnceAssumption
         DEF MCStrayInv, MCInv
    <3>2. AtOnceFacts!LegsOnlyForFilledEntries
      BY <2>6 DEF MCStrayInv, MCInv, AtOnceFacts!IInv
    <3> QED
      BY <2>3, <2>4, <2>5, <2>6, <3>1, <3>2 DEF LegsMatchTheTrade
  <2> QED
    BY <2>1, <2>6
<1> QED
  BY <1>1, <1>2, MCStrayInit, PTL DEF MCSpec

=============================================================================
