----------------------------- MODULE Watchlist -----------------------------
(***************************************************************************)
(* scanners/standalone_scanner.py: what the ScannerEngine makes of the     *)
(* rows a scan found.  Gappers are kept for the day, the best row of a     *)
(* symbol, and labelled A+G once they have persisted; candidates are those *)
(* of the last scan, labelled A+.  Rows are posted to Discord, and         *)
(* exported as a watchlist and to the universe inbox.  A scan that meets   *)
(* the data provider's rate limit makes the loop wait longer.              *)
(*                                                                         *)
(* What a scan finds is a choice; batches and readiness are in Scanner.    *)
(* One universe; the file written by an export, or the exception instead.  *)
(*                                                                         *)
(* Bounds: MaxScans scans, MaxRows rows found by one, MaxDays.             *)
(***************************************************************************)
EXTENDS Integers, Sequences, FiniteSets, SequencesExt

CONSTANTS
  Order,             \* the universe, a sequence: symbols in their order
  Gaps, Volumes,     \* of the gappers found; score is gap + volume
  Levels,            \* scores of candidates
  MinGap, MinVolume, \* gapplus_min_gap_pct, gapplus_min_volume
  MinPersistence,    \* gapplus_min_persistence, aplus_min_persistence
  TopN,              \* gappers_top_n, export_top_n and the rows of a post
  AlertStep,         \* rise of the score that is posted again
  BackoffStep, BackoffMax,
  MaxScans, MaxRows, MaxDays

VARIABLES
  today, session,
  resetDay,      \* _gappers_day_et
  best,          \* _gappers_state, NoRow for no entry
  lasting,       \* _persistence, 0 for no entry
  gapping,       \* _gapper_persistence
  alerted,       \* _last_alerted, 0 for no entry
  shown,         \* _last_gappers, _last_normal
  watchlist,     \* the files of the last export
  backoff,       \* _backoff_s
  found, gaps,   \* history: symbols seen by the scans since the last reset
  limited, scans \* history: rate-limit errors in a row, scans begun

vars == <<today, session, resetDay, best, lasting, gapping, alerted, shown,
          watchlist, backoff, found, gaps, limited, scans>>
market == <<today, session>>

Symbols == {Order[i] : i \in DOMAIN Order}
Before(s, t) == \E i, j \in DOMAIN Order : i < j /\ Order[i] = s /\ Order[j] = t
None == [s \in Symbols |-> 0]
NoRow == [symbol |-> "none", score |-> 0]
Nothing == [s \in Symbols |-> NoRow]
Gapper(s, g, v) == [symbol |-> s, score |-> g + v, gap |-> g, volume |-> v, top |-> FALSE]
Candidate(s, n, good) == [symbol |-> s, score |-> n, good |-> good, top |-> FALSE]

Init ==
  /\ today = 0 /\ session = "PRE" /\ resetDay = 0
  /\ best = Nothing /\ lasting = None /\ gapping = None
  /\ alerted = [k \in {"CAND", "GAP"} \X Symbols |-> 0]
  /\ shown = <<{}, {}>> /\ watchlist = << <<>>, <<>> >> /\ backoff = 0
  /\ found = <<>> /\ gaps = <<>> /\ limited = 0 /\ scans = 0

(* PRE stands for POST and the override PREPOST, too.                      *)
SessionChanges(s) ==
  /\ session' = s /\ s # session
  /\ \/ today' = today
     \/ s = "PRE" /\ today < MaxDays /\ today' = today + 1
  /\ UNCHANGED <<resetDay, best, lasting, gapping, alerted, shown, watchlist,
                 backoff, found, gaps, limited, scans>>

(* The rows of the last scan stay as they are.                             *)
ClearState ==
  /\ lasting' = None /\ gapping' = None /\ best' = Nothing
  /\ alerted' = [k \in DOMAIN alerted |-> 0]
  /\ resetDay' = today /\ backoff' = 0
  /\ found' = <<>> /\ gaps' = <<>> /\ limited' = 0
  /\ UNCHANGED <<market, shown, watchlist, scans>>

-----------------------------------------------------------------------------
(* scan_once().  gapRows and rows are the sets of rows a scan finds.       *)

BrokenKept(f, empty) == f
Kept(f, empty) == IF today = resetDay THEN f ELSE empty
GapsToday == IF today = resetDay THEN gaps ELSE <<>>
HasGappers == session = "PRE"

Seen(set) == {r.symbol : r \in set}
Counted(old, seen) ==
  [s \in Symbols |-> IF s \in seen THEN old[s] + 1 ELSE IF old[s] > 0 THEN old[s] - 1 ELSE 0]

IsGapPlus(g, times) ==
  times >= MinPersistence /\ g.gap >= MinGap /\ g.volume >= MinVolume
(* Snapshot movers of a closed market have no VWAP.                        *)
IsAPlus(c, times) == session # "CLOSED" /\ times >= MinPersistence /\ c.good

(* The best row replaces an earlier one of the symbol, its label included. *)
(* A label stays on its row.                                               *)
NewBest(gapRows) ==
  [s \in Symbols |->
     LET rows == {r \in gapRows : r.symbol = s /\ r.score > Kept(best, Nothing)[s].score}
     IN IF rows = {} THEN Kept(best, Nothing)[s] ELSE CHOOSE r \in rows : TRUE]
Fresh(s, gapRows) == NewBest(gapRows)[s] # Kept(best, Nothing)[s]
AnnotateGappers(gapRows, times) ==
  [s \in Symbols |->
     LET g == NewBest(gapRows)[s]
     IN IF Fresh(s, gapRows) THEN [g EXCEPT !.top = IsGapPlus(g, times[s])] ELSE g]
AnnotateCandidates(rows, times) ==
  {[c EXCEPT !.top = IsAPlus(c, times[c.symbol])] : c \in rows}

Top(ranked) == SubSeq(ranked, 1, IF Len(ranked) < TopN THEN Len(ranked) ELSE TopN)
ByScore(set) ==
  SetToSortSeq(set, LAMBDA a, b : a.score > b.score \/ (a.score = b.score /\ Before(a.symbol, b.symbol)))
Rows(f) == {f[s] : s \in Symbols} \ {NoRow}

(* A row is posted again when its score has risen by the step.             *)
Risen(ranked, kind, sent) ==
  [k \in DOMAIN sent |->
     LET due == {i \in DOMAIN Top(ranked) :
                   k = <<kind, ranked[i].symbol>> /\ ranked[i].score >= sent[k] + AlertStep}
     IN IF due = {} THEN sent[k] ELSE ranked[CHOOSE i \in due : TRUE].score]

(* export_watchlist(): A+ first.                                           *)
RankGappers(set) ==
  SetToSortSeq(set, LAMBDA a, b :
    CASE a.top # b.top -> a.top
      [] a.gap # b.gap -> a.gap > b.gap
      [] a.volume # b.volume -> a.volume > b.volume
      [] OTHER -> Before(a.symbol, b.symbol))
RankCandidates(set) ==
  SetToSortSeq(set, LAMBDA a, b :
    CASE a.top # b.top -> a.top
      [] a.score # b.score -> a.score > b.score
      [] OTHER -> Before(a.symbol, b.symbol))
ToExport(gapRows, rows) == <<Top(RankGappers(gapRows)), Top(RankCandidates(rows))>>
HasExportworthy(gapRows, rows) == gapRows # {} \/ \E c \in rows : c.top

(* What a scan does before bars are asked for.                             *)
ScanGappers(gapRows) ==
  /\ resetDay' = today
  /\ gapping' = (IF HasGappers THEN Counted(Kept(gapping, None), Seen(gapRows)) ELSE Kept(gapping, None))
  /\ gaps' = (IF HasGappers THEN Append(GapsToday, Seen(gapRows)) ELSE GapsToday)
  /\ best' = (IF HasGappers THEN AnnotateGappers(gapRows, gapping') ELSE Kept(best, Nothing))

Labelled(rows) ==
  /\ lasting' = Counted(lasting, Seen(rows))
  /\ found' = Append(found, Seen(rows))
  /\ shown' = <<IF HasGappers THEN ToSet(Top(ByScore(Rows(best')))) ELSE {},
                AnnotateCandidates(rows, lasting')>>

(* The loop forgets the backoff after a scan that ends well; a scan the    *)
(* GUI asked for does not touch it.                                        *)
Rested(byLoop) ==
  IF byLoop THEN backoff' = 0 /\ limited' = 0 ELSE UNCHANGED <<backoff, limited>>

BrokenIncreased == BackoffStep
Half(n) == n \div 2
MaxOf(a, b) == IF a > b THEN a ELSE b
MinOf(a, b) == IF a < b THEN a ELSE b
Increased ==
  IF backoff <= 0 THEN BackoffStep
  ELSE MinOf(BackoffMax, backoff + MaxOf(BackoffStep, Half(backoff)))

Raised(byLoop, rateLimit) ==
  IF byLoop /\ rateLimit THEN backoff' = Increased /\ limited' = limited + 1
  ELSE UNCHANGED <<backoff, limited>>

Begin == scans < MaxScans /\ scans' = scans + 1 /\ UNCHANGED market

ScanOnce(gapRows, rows, byLoop) ==
  /\ Begin
  /\ ScanGappers(gapRows) /\ Labelled(rows) /\ Rested(byLoop)
  /\ watchlist' = (IF HasExportworthy(shown'[1], shown'[2]) THEN ToExport(shown'[1], shown'[2])
                   ELSE watchlist)
  /\ alerted' = LET sent == Risen(ByScore(shown'[2]), "CAND",
                                  Kept(alerted, [k \in DOMAIN alerted |-> 0]))
                IN Risen(ByScore(shown'[1]), "GAP", sent)

(* The export cannot write: there are no alerts.                           *)
ExportRaises(gapRows, rows, byLoop) ==
  /\ Begin
  /\ ScanGappers(gapRows) /\ Labelled(rows) /\ Raised(byLoop, FALSE)
  /\ HasExportworthy(shown'[1], shown'[2])
  /\ alerted' = Kept(alerted, [k \in DOMAIN alerted |-> 0])
  /\ UNCHANGED watchlist

(* A fetch raises, of the gappers or of the candidates.                    *)
FetchRaises(gapRows, late, byLoop, rateLimit) ==
  /\ Begin
  /\ IF late THEN ScanGappers(gapRows)
     ELSE /\ resetDay' = today /\ gapping' = Kept(gapping, None)
          /\ gaps' = GapsToday /\ best' = Kept(best, Nothing)
  /\ alerted' = Kept(alerted, [k \in DOMAIN alerted |-> 0])
  /\ Raised(byLoop, rateLimit)
  /\ UNCHANGED <<lasting, found, shown, watchlist>>

(* on_export(): the rows of the last scan, of an earlier day perhaps.      *)
Export ==
  /\ watchlist' = ToExport(shown[1], shown[2])
  /\ UNCHANGED <<market, resetDay, best, lasting, gapping, alerted, shown,
                 backoff, found, gaps, limited, scans>>

OnePerSymbol(set) == \A r, q \in set : r.symbol = q.symbol => r = q
AllGappers == {Gapper(s, g, v) : s \in Symbols, g \in Gaps, v \in Volumes}
AllCandidates == {Candidate(s, n, b) : s \in Symbols, n \in Levels, b \in BOOLEAN}
Finds(set, max) == UNION {{x \in kSubset(n, set) : OnePerSymbol(x)} : n \in 0..max}
GapperFinds == IF HasGappers THEN Finds(AllGappers, MaxRows) ELSE {{}}

Next ==
  \/ \E s \in {"PRE", "REG", "CLOSED"} : SessionChanges(s)
  \/ ClearState \/ Export
  \/ \E g \in GapperFinds, byLoop \in BOOLEAN :
       \/ \E c \in Finds(AllCandidates, MaxRows - Cardinality(g)) : ScanOnce(g, c, byLoop) \/ ExportRaises(g, c, byLoop)
       \/ \E late, rateLimit \in BOOLEAN : FetchRaises(g, late, byLoop, rateLimit)

Spec == Init /\ [][Next]_vars
-----------------------------------------------------------------------------
Hits(log, s, i, j) == Cardinality({k \in i..j : s \in log[k]})
Earned(log, s) ==
  \E j \in DOMAIN log : \E i \in 1..j : 2 * Hits(log, s, i, j) - (j - i + 1) >= MinPersistence

(* A label was earned since the last reset: some run of scans saw the      *)
(* symbol MinPersistence times more often than it missed it, of this day   *)
(* for a gapper.  Of failing scans that met the rate limit each made the   *)
(* pause longer, up to its maximum.                                        *)
LabelsAndPausesAreEarned ==
  /\ \A s \in Symbols : best[s] # NoRow /\ best[s].top => Earned(gaps, s)
  /\ found # <<>> => \A c \in shown[2] : c.top => Earned(found, c.symbol)
  /\ backoff >= MinOf(limited * BackoffStep, BackoffMax)
=============================================================================
