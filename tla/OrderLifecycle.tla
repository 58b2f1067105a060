--------------------------- MODULE OrderLifecycle ---------------------------
(***************************************************************************)
(* What the order state machine promises: every order id has one status,   *)
(* statuses move along VALID_TRANSITIONS only, and a terminal status is    *)
(* final.  There is no process, no table and no log here; all a crash of   *)
(* the trading process may do is forget orders that are still PENDING.     *)
(* OrderStateMachine implements this module, with status <- the state the  *)
(* transaction log records for each order, or the table for one that the   *)
(* log does not know yet.                                                  *)
(***************************************************************************)

CONSTANT Orders             \* internal order ids

VARIABLE status             \* status[o] : the one status of order o

Absent == "ABSENT"          \* the id has never been created

Terminal == {"FILLED", "CANCELLED", "REJECTED", "EXPIRED"}

Status == {"PENDING", "SUBMITTED", "PARTIALLY_FILLED"} \cup Terminal

ValidTransitions ==
  { <<"PENDING",          "SUBMITTED">>,
    <<"SUBMITTED",        "FILLED">>,
    <<"SUBMITTED",        "PARTIALLY_FILLED">>,
    <<"PARTIALLY_FILLED", "FILLED">>,
    <<"SUBMITTED",        "CANCELLED">>,
    <<"PARTIALLY_FILLED", "CANCELLED">>,
    <<"SUBMITTED",        "REJECTED">>,
    <<"PENDING",          "REJECTED">>,
    <<"SUBMITTED",        "EXPIRED">> }

-----------------------------------------------------------------------------

Init == status = [o \in Orders |-> Absent]

Create(o) ==
  /\ status[o] = Absent
  /\ status' = [status EXCEPT ![o] = "PENDING"]

Advance(o, to) ==
  /\ <<status[o], to>> \in ValidTransitions
  /\ status' = [status EXCEPT ![o] = to]

Forget(S) ==
  /\ \A o \in S : status[o] = "PENDING"
  /\ status' = [o \in Orders |-> IF o \in S THEN Absent ELSE status[o]]

Next ==
  \/ \E o \in Orders : Create(o) \/ \E to \in Status : Advance(o, to)
  \/ \E S \in SUBSET Orders : Forget(S)

Spec == Init /\ [][Next]_status

=============================================================================
