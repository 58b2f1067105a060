----------------------------- MODULE SignalFeed -----------------------------
(***************************************************************************)
(* Signals on their way from the scanner to a bot: SignalExporter in       *)
(* scanners/standalone_scanner.py appends them to a file of lines, and     *)
(* ScannerSignalConsumer in scanners/signal_consumer.py reads on from a    *)
(* stored offset, drops what it has seen, and hands symbols out.           *)
(*                                                                         *)
(* Either process may die anywhere; SQLite keeps what it has committed.    *)
(* A session stands for a day and a session of it.                         *)
(* Signals carry no risk flags and no readiness, as exported, so the       *)
(* consumer runs with require_ready off; age alone makes one unacceptable. *)
(*                                                                         *)
(* Bounds: MaxLines lines in the file, EndOfTime, MaxCrashes.              *)
(***************************************************************************)
EXTENDS Integers, Sequences, FiniteSets

CONSTANTS
  Symbols,
  SessionLength,
  MaxAge,    \* max_age_minutes
  Limit,     \* of get_candidates()
  MaxLines, MaxCrashes, EndOfTime

VARIABLES
  now,
  lines,     \* scanner_signals.jsonl
  offset,    \* consumer_state, in lines
  seen,      \* seen_signals
  reading,   \* a call of get_candidates() runs
  position,  \* of its file
  signals,   \* what it will return
  handed,    \* history: every symbol handed out, with its session
  crashes

vars == <<now, lines, offset, seen, reading, position, signals, handed, crashes>>
call == <<reading, position, signals>>

Torn == [symbol |-> "torn line", at |-> 0]

Init ==
  /\ now = 0 /\ lines = <<>> /\ offset = 0 /\ seen = {}
  /\ reading = FALSE /\ position = 0 /\ signals = <<>> /\ handed = <<>> /\ crashes = 0

Tick ==
  /\ now < EndOfTime /\ now' = now + 1
  /\ UNCHANGED <<lines, offset, seen, call, handed, crashes>>

(* export_scan() and _write(): every scan writes its rows again.           *)
Export(s) ==
  /\ Len(lines) < MaxLines /\ lines' = Append(lines, [symbol |-> s, at |-> now])
  /\ UNCHANGED <<now, offset, seen, call, handed, crashes>>

ExporterDies ==
  /\ crashes < MaxCrashes /\ Len(lines) < MaxLines
  /\ crashes' = crashes + 1 /\ lines' = Append(lines, Torn)
  /\ UNCHANGED <<now, offset, seen, call, handed>>

-----------------------------------------------------------------------------
(* read_new_signals() inside get_candidates()                              *)

Begin ==
  /\ ~reading /\ reading' = TRUE /\ position' = offset /\ signals' = <<>>
  /\ UNCHANGED <<now, lines, offset, seen, handed, crashes>>

(* dedupe_key                                                              *)
BrokenKey(line) == <<line.symbol, line.at>>
Key(line) == <<line.symbol, line.at \div SessionLength>>

IsAcceptable(line) == now - line.at <= MaxAge

(* A torn line ends where the file ended when it was read; what has been   *)
(* appended by then is glued to it and lost with it.                       *)
Ends(i) == lines[i] # Torn \/ i = Len(lines)
LineEnd == CHOOSE i \in DOMAIN lines :
  i > position /\ Ends(i) /\ \A j \in (position + 1)..(i - 1) : ~Ends(j)

(* The key is committed before the signal is judged.                       *)
ReadLine ==
  LET line == lines[position + 1]
      new == line.symbol \in Symbols /\ Key(line) \notin seen
  IN
  /\ reading /\ position < Len(lines) /\ position' = LineEnd
  /\ seen' = (IF new THEN seen \cup {Key(line)} ELSE seen)
  /\ signals' = (IF new /\ IsAcceptable(line) THEN Append(signals, line) ELSE signals)
  /\ UNCHANGED <<now, lines, offset, reading, handed, crashes>>

(* Sorted by score, which is a choice; one signal for each symbol; what is *)
(* beyond the limit is dropped.                                            *)
Symbol(i) == signals[i].symbol
Sorted(n) ==
  {f \in [1..n -> DOMAIN signals] : \A k, l \in 1..n : k # l => Symbol(f[k]) # Symbol(f[l])}
Chosen(n, f) ==
  \/ n = Limit
  \/ n < Limit /\ \A i \in DOMAIN signals : \E k \in 1..n : Symbol(f[k]) = Symbol(i)

Return(n, f) ==
  /\ reading /\ position = Len(lines) /\ Chosen(n, f)
  /\ offset' = position /\ reading' = FALSE
  /\ handed' = handed \o [k \in 1..n |-> signals[f[k]]]
  /\ UNCHANGED <<now, lines, seen, position, signals, crashes>>

ConsumerDies ==
  /\ crashes < MaxCrashes /\ crashes' = crashes + 1
  /\ reading' = FALSE /\ UNCHANGED <<now, lines, offset, seen, position, signals, handed>>

Next ==
  \/ Tick \/ ExporterDies \/ Begin \/ ReadLine \/ ConsumerDies
  \/ \E s \in Symbols : Export(s)
  \/ \E n \in 0..Len(signals) : \E f \in Sorted(n) : Return(n, f)

Spec == Init /\ [][Next]_vars
-----------------------------------------------------------------------------
(* However often the scanner writes a symbol and the consumer dies between *)
(* its commits: a symbol is handed out once in a session, and never for a  *)
(* session before one it was already handed out for.                       *)
HandedOutOnce ==
  \A i, j \in DOMAIN handed :
    i < j /\ handed[i].symbol = handed[j].symbol =>
      handed[i].at \div SessionLength < handed[j].at \div SessionLength
=============================================================================
