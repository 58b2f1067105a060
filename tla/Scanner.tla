------------------------------ MODULE Scanner -------------------------------
(***************************************************************************)
(* scanners/standalone_scanner.py: the ScannerEngine.  Scans rotate        *)
(* through the symbols in batches; what a scan finds in the snapshots and  *)
(* bars it fetched is a choice: nothing, something, or a row that passes   *)
(* every test of readiness but persistence (news and its veto included).   *)
(*                                                                         *)
(* One of the two universes, which are treated alike; POST is PRE.  Scans  *)
(* of the loop and of the GUI are alike; the pauses between scans, the     *)
(* backoff and the throttling of alerts are left out.                      *)
(*                                                                         *)
(* Bounds: MaxScans scans, MaxDays.                                        *)
(***************************************************************************)
EXTENDS Integers, Sequences, FiniteSets

CONSTANTS
  Roll,            \* the universe, a sequence of symbols
  BatchSize,       \* scan_batch_size
  MinPersistence,  \* aplus_min_persistence, gapplus_min_persistence
  Levels,          \* scores, of 0..2
  MaxScans, MaxDays

Symbols == {Roll[i] : i \in DOMAIN Roll}

VARIABLES
  day, session, mode,
  resetDay,     \* _gappers_day_et
  next,         \* RotatingBatches.i
  persistence,  \* _persistence, 0 for no entry
  gapping,      \* _gapper_persistence
  best,         \* _gappers_state: best score of the day, 0 for no entry
  ready,        \* symbols tagged READY by the last scan
  found, gaps,  \* history: symbols seen by each completed scan
  scans         \* scans begun

vars == <<day, session, mode, resetDay, next, persistence, gapping, best,
          ready, found, gaps, scans>>
market == <<day, session, mode>>
memory == <<resetDay, next, persistence, gapping, best>>
history == <<found, gaps, scans>>

None == [s \in Symbols |-> 0]

Init ==
  /\ day = 0 /\ session = "PRE" /\ mode = "AUTO" /\ resetDay = 0 /\ next = 0
  /\ persistence = None /\ gapping = None /\ best = None
  /\ ready = {} /\ found = <<>> /\ gaps = <<>> /\ scans = 0

(* session_name(): PRE, REG, POST and CLOSED follow each other.            *)
SessionEnds ==
  /\ \/ session = "PRE" /\ session' = "REG" /\ day' = day
     \/ session = "REG" /\ session' = "CLOSED" /\ day' = day
     \/ session = "CLOSED" /\ session' = "PRE" /\ day < MaxDays /\ day' = day + 1
  /\ UNCHANGED <<mode, memory, ready, history>>

SetSessionMode(m) ==
  /\ mode' = m /\ UNCHANGED <<day, session, memory, ready, history>>

(* The rows of the last scan stay as they are.                             *)
ClearState ==
  /\ persistence' = None /\ gapping' = None /\ best' = None
  /\ resetDay' = day
  /\ UNCHANGED <<market, next, ready, history>>

-----------------------------------------------------------------------------
(* scan_once()                                                             *)

Session == CASE mode = "AUTO" -> session [] mode = "PREPOST" -> "PRE" [] OTHER -> mode

Size == Len(Roll)
End == next + BatchSize
At(positions) == {Roll[i + 1] : i \in positions}
Batch ==
  IF End <= Size THEN At(next..(End - 1)) ELSE At(next..(Size - 1)) \cup At(0..((End % Size) - 1))

(* What was there before the scan, with yesterday's gappers forgotten.     *)
Kept(f) == IF day = resetDay THEN f ELSE None

BrokenCounted(old, seen) == [s \in Symbols |-> IF s \in seen THEN old[s] + 1 ELSE old[s]]
Counted(old, seen) ==
  [s \in Symbols |-> IF s \in seen THEN old[s] + 1 ELSE IF old[s] > 0 THEN old[s] - 1 ELSE 0]

HasGappers == Session = "PRE"
HasBars == Session # "CLOSED"

Better(gapScores) ==
  [s \in Symbols |-> IF s \in Batch /\ gapScores[s] > Kept(best)[s] THEN gapScores[s] ELSE Kept(best)[s]]
Gapped(gapScores) == {s \in Batch : gapScores[s] > 0}

ScanGappers(gapScores) ==
  /\ resetDay' = day /\ next' = End % Size
  /\ gapping' = (IF HasGappers THEN Counted(Kept(gapping), Gapped(gapScores)) ELSE Kept(gapping))
  /\ best' = (IF HasGappers THEN Better(gapScores) ELSE Kept(best))

(* Score 1 is a row that is not ready, 2 one that persistence makes ready. *)
(* Without bars a candidate is never ready.                                *)
ScanOnce(scores, gapScores) ==
  /\ scans < MaxScans /\ scans' = scans + 1
  /\ ScanGappers(gapScores)
  /\ LET hits == {s \in Batch : scores[s] > 0}
     IN /\ persistence' = Counted(persistence, hits)
        /\ found' = Append(found, hits)
        /\ gaps' = (IF HasGappers THEN Append(gaps, Gapped(gapScores)) ELSE gaps)
        /\ ready' = {s \in hits : HasBars /\ scores[s] = 2 /\ persistence'[s] >= MinPersistence}
                    \cup {s \in Symbols : HasGappers /\ best'[s] = 2 /\ gapping'[s] >= MinPersistence}
  /\ UNCHANGED market

(* An exception of the first fetch leaves the batch behind; one of a later *)
(* fetch comes after the gappers have been counted.                        *)
ScanRaises(late, gapScores) ==
  /\ scans < MaxScans /\ scans' = scans + 1
  /\ IF late THEN ScanGappers(gapScores)
     ELSE /\ resetDay' = day /\ next' = End % Size
          /\ gapping' = Kept(gapping) /\ best' = Kept(best)
  /\ gaps' = (IF late /\ HasGappers THEN Append(gaps, Gapped(gapScores)) ELSE gaps)
  /\ UNCHANGED <<market, persistence, ready, found>>

Scores == [Symbols -> Levels]
(* Only the scores of the batch count.                                     *)
OfBatch == {f \in Scores : \A s \in Symbols \ Batch : f[s] = 0}
GapScores == IF HasGappers THEN OfBatch ELSE {None}

Next ==
  \/ SessionEnds \/ ClearState
  \/ \E m \in {"AUTO", "PREPOST"} : SetSessionMode(m)
  \/ \E g \in GapScores :
       \/ \E f \in OfBatch : ScanOnce(f, g)
       \/ \E late \in BOOLEAN : ScanRaises(late, g)

Spec == Init /\ [][Next]_vars
-----------------------------------------------------------------------------
Hits(log, s, k) == Cardinality({i \in k..Len(log) : s \in log[i]})
Earned(log, s) ==
  \E k \in DOMAIN log : 2 * Hits(log, s, k) - (Len(log) - k + 1) >= MinPersistence

(* A symbol tagged READY was seen by MinPersistence more scans than missed *)
(* it, counted back from the last scan, through rotation of the batches,   *)
(* failing scans, sessions, days and resets.                               *)
ReadyIsEarned ==
  [][found' # found => \A s \in ready' : Earned(found', s) \/ Earned(gaps', s)]_vars
=============================================================================
