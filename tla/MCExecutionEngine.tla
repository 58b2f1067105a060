------------------------- MODULE MCExecutionEngine --------------------------
(***************************************************************************)
(* Instances of ExecutionEngine for TLC, one symbol: entries that fill in  *)
(* two parts, or (exiting) an entry and an exit that each fill at once.    *)
(* The behaviour is of one kind or the other from its start.  With an exit *)
(* no submit that was acknowledged, no booking and no cancel raises and    *)
(* the process does not die once an order has been acknowledged:           *)
(* NoStrayLegs says nothing of what follows.                               *)
(***************************************************************************)
EXTENDS ExecutionEngine

CONSTANTS ExitsAtOnce    \* exits of the second kind

ASSUME ExitsAtOnceAssumption == Entries \cap ExitsAtOnce = {}

VARIABLE exiting

AtOnce == INSTANCE ExecutionEngine WITH Exits <- ExitsAtOnce, Qty <- 1

MCInit ==
  \/ exiting = FALSE /\ Init
  \/ exiting = TRUE /\ AtOnce!Init

MCNext ==
  /\ UNCHANGED exiting
  /\ IF exiting THEN AtOnce!Next /\ mapped \subseteq mapped' /\ failed' = {} ELSE Next

MCStep == UNCHANGED exiting /\ IF exiting THEN AtOnce!Step ELSE Step

MCWaitReturns == UNCHANGED exiting /\ IF exiting THEN AtOnce!WaitReturns ELSE WaitReturns

MCFairness == WF_<<exiting, vars>>(MCStep) /\ WF_<<exiting, vars>>(MCWaitReturns)

MCSpec == MCInit /\ [][MCNext]_<<exiting, vars>> /\ MCFairness

-----------------------------------------------------------------------------
\* In both kinds: no order is booked beyond what the broker filled of it.
BookedWithinFills == IF exiting THEN AtOnce!BookedWithinFilled ELSE BookedWithinFilled

(* A leg is at the broker only for an entry that is filled and booked in   *)
(* full, a leg that filled leaves its sibling unable to trade, and, when   *)
(* orders fill at once, closing the position leaves no leg that can trade. *)
LegsMatchTheTrade ==
  IF exiting
  THEN AtOnce!LegsOnlyForFilledEntries /\ AtOnce!FilledLegEndsSibling /\ AtOnce!NoStrayLegs
  ELSE LegsOnlyForFilledEntries /\ FilledLegEndsSibling
=============================================================================
