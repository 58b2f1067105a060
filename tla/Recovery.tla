------------------------------ MODULE Recovery -------------------------------
(***************************************************************************)
(* Start of the runtime in paper mode: core/recovery/coordinator.py, then  *)
(* core/state/reconciler.py, on the position store and the broker.         *)
(*                                                                         *)
(* The broker goes on trading while the process is down and between any    *)
(* two of its steps.  Each read of the broker may fail: the recovery takes *)
(* a failed read for an account without positions, the reconciliation      *)
(* gives up.  The recovery restores row by row, so a crash can leave it    *)
(* half done.  StatePersistence shows what the load can return.            *)
(*                                                                         *)
(* The connector's positions carry .quantity; _recover_from_saved_state()  *)
(* asks for .qty, which raises at the first saved position that is still   *)
(* open.  The healing's upsert hands the store a dictionary, which the     *)
(* store refuses, and the fallbacks it looks for do not exist: only its    *)
(* deletions take effect.  Errors of the database are left out.            *)
(***************************************************************************)
EXTENDS Integers, FiniteSets

CONSTANTS Symbols, MaxQty

VARIABLES
  stage,      \* where the process is
  rows,       \* PositionStore: quantity per symbol, 0 for no row
  snapshot,   \* quantities in the last saved snapshot
  view,       \* positions the recovery read
  todo,       \* positions it has still to restore
  account,    \* broker: quantity per symbol
  working,    \* broker: symbols with an open entry order
  steady      \* history: symbols the broker did not touch since the recovery's read

vars == <<stage, rows, snapshot, view, todo, account, working, steady>>

Flat == [s \in Symbols |-> 0]
NoSnapshot == [s \in Symbols |-> -1]
Open(positions) == {s \in Symbols : positions[s] > 0}

Init ==
  /\ stage = "running" /\ rows = Flat /\ snapshot = NoSnapshot
  /\ view = Flat /\ todo = {}
  /\ account = Flat /\ working = {} /\ steady = {}

-----------------------------------------------------------------------------
(* The broker, and the loop as far as it matters here.                     *)

Fill(s) ==
  /\ stage # "failed" /\ s \in working /\ account[s] < MaxQty
  /\ account' = [account EXCEPT ![s] = @ + 1]
  /\ working' = working \ {s} /\ steady' = steady \ {s}
  /\ UNCHANGED <<stage, rows, snapshot, view, todo>>

Exit(s) ==
  /\ stage # "failed" /\ account[s] > 0
  /\ account' = [account EXCEPT ![s] = 0] /\ steady' = steady \ {s}
  /\ UNCHANGED <<stage, rows, snapshot, view, todo, working>>

Place(s) ==
  /\ stage = "running" /\ working' = working \cup {s}
  /\ UNCHANGED <<stage, rows, snapshot, view, todo, account, steady>>

Book(s) ==
  /\ stage = "running" /\ rows' = [rows EXCEPT ![s] = account[s]]
  /\ UNCHANGED <<stage, snapshot, view, todo, account, working, steady>>

(* build_state_snapshot() and save_state(), every SNAPSHOT_INTERVAL_S.     *)
Save ==
  /\ stage = "running" /\ snapshot' = rows
  /\ UNCHANGED <<stage, rows, view, todo, account, working, steady>>

Restart ==
  /\ stage' = "load" /\ view' = Flat /\ todo' = {} /\ steady' = {}
  /\ UNCHANGED <<rows, snapshot, account, working>>

-----------------------------------------------------------------------------
(* RecoveryCoordinator.recover()                                           *)

(* No snapshot, an invalid one, or one older than max_state_age.           *)
LoadNothing ==
  /\ stage = "load" /\ stage' = "cancel"
  /\ UNCHANGED <<rows, snapshot, view, todo, account, working, steady>>

LoadFresh ==
  /\ stage = "load" /\ snapshot # NoSnapshot /\ stage' = "validate"
  /\ UNCHANGED <<rows, snapshot, view, todo, account, working, steady>>

(* _cancel_open_orders(): failures are logged, what they leave works on.   *)
CancelOpenOrders ==
  /\ stage = "cancel" /\ working' \in SUBSET working /\ stage' = "rebuild"
  /\ UNCHANGED <<rows, snapshot, view, todo, account, steady>>

(* _get_broker_positions(): the positions, or none after an error.         *)
Reads ==
  {[positions |-> account, known |-> Symbols], [positions |-> Flat, known |-> {}]}

Restoring(v) == view' = v /\ todo' = Open(v) /\ stage' = "restore"

Rebuild ==
  /\ stage = "rebuild"
  /\ \E read \in Reads : Restoring(read.positions) /\ steady' = read.known
  /\ UNCHANGED <<rows, snapshot, account, working>>

(* _recover_from_saved_state(): a saved position that is still open ends   *)
(* the recovery as FAILED, and the runtime with it; one that is gone is    *)
(* noted and nothing else, and the positions that are new are rebuilt.     *)
Validate ==
  /\ stage = "validate"
  /\ \E read \in Reads :
       /\ IF Open(snapshot) \cap Open(read.positions) # {}
          THEN stage' = "failed" /\ UNCHANGED <<view, todo>>
          ELSE Restoring(read.positions)
       /\ steady' = read.known
  /\ UNCHANGED <<rows, snapshot, account, working>>

BrokenRestored(s) == rows

(* _rebuild_position_from_broker() and PositionStore.restore_position().   *)
Restored(s) == [rows EXCEPT ![s] = view[s]]

Restore(s) ==
  /\ stage = "restore" /\ s \in todo
  /\ rows' = Restored(s) /\ todo' = todo \ {s}
  /\ UNCHANGED <<stage, snapshot, view, account, working, steady>>

RestoreEnds ==
  /\ stage = "restore" /\ todo = {} /\ stage' = "reconcile" /\ view' = Flat
  /\ UNCHANGED <<rows, snapshot, todo, account, working, steady>>

-----------------------------------------------------------------------------
(* BrokerReconciler.reconcile_startup() and heal_startup()                 *)

(* _diff_positions(): missing, extra and mismatched positions.             *)
Discrepancies == {s \in Symbols : rows[s] # account[s]}

(* The orders are compared as well: their statuses are spelled differently *)
(* on the two sides, so whether they agree is left open.                   *)
Reconcile ==
  /\ stage = "reconcile"
  /\ \/ /\ stage' = "heal" /\ steady' = steady
     \/ /\ Discrepancies = {} /\ stage' = "ready" /\ steady' = steady
     \/ /\ stage' = "ready" /\ steady' = {}          \* the read failed
  /\ UNCHANGED <<rows, snapshot, view, todo, account, working>>

(* Of the healing, the deletion of rows the broker does not have.          *)
Heal ==
  /\ stage = "heal" /\ stage' = "ready"
  /\ \/ /\ rows' = [s \in Symbols |-> IF account[s] = 0 THEN 0 ELSE rows[s]]
        /\ steady' = steady
     \/ rows' = rows /\ steady' = {}                 \* the read failed
  /\ UNCHANGED <<snapshot, view, todo, account, working>>

EnterLoop ==
  /\ stage = "ready" /\ stage' = "running" /\ steady' = {}
  /\ UNCHANGED <<rows, snapshot, view, todo, account, working>>

Next ==
  \/ \E s \in Symbols : Fill(s) \/ Exit(s) \/ Place(s) \/ Book(s) \/ Restore(s)
  \/ Save \/ Restart \/ LoadNothing \/ LoadFresh \/ CancelOpenOrders
  \/ Rebuild \/ Validate \/ RestoreEnds \/ Reconcile \/ Heal \/ EnterLoop

Spec == Init /\ [][Next]_vars
-----------------------------------------------------------------------------
(* When the start is over and no read failed, the rows are the broker's    *)
(* positions for every symbol the broker left alone meanwhile: whatever    *)
(* was missed, sold or half restored before is gone.                       *)
StartupAgrees ==
  stage = "ready" => \A s \in steady : rows[s] = account[s]

(* A fresh snapshot that agrees with the broker is resumed from; it does   *)
(* not end the start.                                                      *)
RecoveryResumes ==
  stage = "failed" => \E s \in Symbols : snapshot[s] # account[s]
=============================================================================
