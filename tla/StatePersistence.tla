-------------------------- MODULE StatePersistence --------------------------
(***************************************************************************)
(* core/recovery/persistence.py: StatePersistence, the snapshot files.     *)
(*                                                                         *)
(* A snapshot is its serial number.  A file is written in two steps, first *)
(* torn and then whole, so that a crash can end the process in between;    *)
(* the checksum in the file is what lets the reader tell the two apart.    *)
(* save_state() runs under a lock, so one save is under way at a time.     *)
(* A crash ends the process and a new one loads at its start; either finds *)
(* the files as the last step left them.                                   *)
(*                                                                         *)
(* Bounds: MaxSaves saves.                                                 *)
(***************************************************************************)
EXTENDS Integers, FiniteSets, FiniteSetsExt

CONSTANTS BackupCount, MaxSaves

NoFile == [serial |-> 0, whole |-> FALSE]
Torn(n) == [serial |-> n, whole |-> FALSE]
Whole(n) == [serial |-> n, whole |-> TRUE]

VARIABLES
  step,       \* where save_state() is
  tmp,        \* current_state.tmp
  current,    \* current_state.json
  bak,        \* current_state.json.bak
  backups,    \* backups/state_*.json
  attempt,    \* serial of the last snapshot given to save_state()
  kept,       \* serial of the last save that returned True
  loaded      \* what the last load_latest_state() of a process returned

files == <<tmp, current, bak, backups>>
vars == <<step, files, attempt, kept, loaded>>

NoLoad == -1

Init ==
  /\ step = "idle"
  /\ tmp = NoFile /\ current = NoFile /\ bak = NoFile /\ backups = {}
  /\ attempt = 0 /\ kept = 0 /\ loaded = NoLoad

(* save_state(): the temporary file, written in two steps.                 *)
BrokenOpenTmp(n) == tmp' = tmp /\ current' = Torn(n)

OpenTmp(n) == tmp' = Torn(n) /\ current' = current

BeginSave ==
  /\ step = "idle" /\ attempt < MaxSaves
  /\ attempt' = attempt + 1 /\ step' = "writing"
  /\ OpenTmp(attempt + 1)
  /\ UNCHANGED <<bak, backups, kept, loaded>>

WriteTmp ==
  /\ step = "writing" /\ tmp' = Whole(attempt)
  /\ step' = IF current = NoFile THEN "replace" ELSE "bak"
  /\ UNCHANGED <<current, bak, backups, attempt, kept, loaded>>

(* copy2() of the current file over the backup file.                       *)
OpenBak ==
  /\ step = "bak" /\ bak' = Torn(current.serial) /\ step' = "copying"
  /\ UNCHANGED <<tmp, current, backups, attempt, kept, loaded>>

CopyBak ==
  /\ step = "copying" /\ bak' = current /\ step' = "replace"
  /\ UNCHANGED <<tmp, current, backups, attempt, kept, loaded>>

(* The rename is atomic.                                                   *)
Replace ==
  /\ step = "replace" /\ current' = tmp /\ tmp' = NoFile /\ step' = "backup"
  /\ UNCHANGED <<bak, backups, attempt, kept, loaded>>

(* _create_timestamped_backup(): an error is logged and swallowed.         *)
OpenBackup ==
  /\ step = "backup" /\ step' = "rotate"
  /\ UNCHANGED <<files, attempt, kept, loaded>>

CopyBackup ==
  /\ step = "backup" /\ backups' = backups \cup {Torn(attempt)} /\ step' = "filling"
  /\ UNCHANGED <<tmp, current, bak, attempt, kept, loaded>>

FillBackup ==
  /\ step = "filling" /\ step' = "rotate"
  /\ \/ backups' = (backups \ {Torn(attempt)}) \cup {current}
     \/ UNCHANGED backups
  /\ UNCHANGED <<tmp, current, bak, attempt, kept, loaded>>

(* _rotate_backups(): the newest BackupCount stay, torn ones included.     *)
Newest(n) ==
  {b \in backups : Cardinality({c \in backups : c.serial > b.serial}) < n}

Rotate ==
  /\ step = "rotate" /\ backups' = Newest(BackupCount)
  /\ kept' = attempt /\ step' = "idle"
  /\ UNCHANGED <<tmp, current, bak, attempt, loaded>>

(* An error while the temporary or the backup file is written, or in the   *)
(* rename: save_state() returns False.                                     *)
Fail ==
  /\ step \in {"writing", "bak", "copying", "replace"} /\ step' = "idle"
  /\ UNCHANGED <<files, attempt, kept, loaded>>

-----------------------------------------------------------------------------
BrokenLatest ==
  IF bak.whole THEN bak.serial ELSE IF current.whole THEN current.serial ELSE 0

(* load_latest_state(): the current file or nothing; the backup file and   *)
(* then the newest valid backup only when there is no current file.        *)
Latest ==
  LET valid == {b.serial : b \in {c \in backups : c.whole}}
  IN CASE current # NoFile -> IF current.whole THEN current.serial ELSE 0
       [] current = NoFile /\ bak.whole -> bak.serial
       [] OTHER -> IF valid = {} THEN 0 ELSE Max(valid)

(* The process dies and a new one loads.                                   *)
Restart ==
  /\ step' = "idle" /\ loaded' = Latest
  /\ UNCHANGED <<files, attempt, kept>>

Next ==
  \/ BeginSave \/ WriteTmp \/ OpenBak \/ CopyBak \/ Replace
  \/ OpenBackup \/ CopyBackup \/ FillBackup \/ Rotate
  \/ Fail \/ Restart

Spec == Init /\ [][Next]_vars
-----------------------------------------------------------------------------
(* At whatever step a process dies or a save fails, the next load returns  *)
(* a snapshot that is no older than the last one whose save returned True: *)
(* no crash leaves the current file torn or missing once it was written.   *)
SnapshotSurvives ==
  kept > 0 => Latest \in kept..attempt
=============================================================================
