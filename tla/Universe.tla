------------------------------ MODULE Universe ------------------------------
(***************************************************************************)
(* The hand-over of symbols from the scanner to the bot through files:     *)
(* core/universe/scanner_adapter.py appends candidates to inbox.jsonl, the *)
(* UniverseInboxProcessor of inbox.py decides on them in batches inside    *)
(* the daemon, and loader.py reads the snapshot the processor writes.      *)
(*                                                                         *)
(* Either process may die anywhere.  The filters of gate 2 are a choice;   *)
(* so is the exception a feature that is not a number raises in them.      *)
(* Failing reads and writes of a process that goes on are left out.        *)
(*                                                                         *)
(* Bounds: MaxLines lines in the inbox, EndOfTime, MaxCrashes.             *)
(***************************************************************************)
EXTENDS Integers, Sequences

CONSTANTS
  Symbols,
  Core,         \* CORE_UNIVERSE
  MaxAccepted,  \* MAX_ACCEPTED_PER_DAY
  Dedupe,       \* the five minutes of both sides
  DayLength,
  MaxLines, MaxCrashes, EndOfTime

VARIABLES
  now,
  inbox,      \* lines of inbox.jsonl: a symbol, Torn at its end, or Garbage
  written,    \* recent_writes: when the scanner last wrote a symbol
  state,      \* UniverseState in memory
  stored,     \* state.json
  recent,     \* recent_symbols
  batch,      \* lines read and not yet looked at
  decisions,  \* decisions.jsonl
  snapshot,   \* universe_active.json
  stage,      \* of process_new_candidates()
  fate,       \* history: what became of every line, and when
  crashes

vars == <<now, inbox, written, state, stored, recent, batch, decisions, snapshot,
          stage, fate, crashes>>
outside == <<inbox, written>>
processor == <<state, stored, recent, batch, decisions, snapshot, stage, fate>>

Torn == "torn line"
Garbage == "garbage"
Never == -Dedupe
Fresh == [offset |-> 0, count |-> 0, date |-> -1]
Unread == [what |-> "unread", at |-> 0]

Init ==
  /\ now = 0 /\ inbox = <<>> /\ written = [s \in Symbols |-> Never]
  /\ state = Fresh /\ stored = Fresh /\ recent = [s \in Symbols |-> Never]
  /\ batch = {} /\ decisions = <<>> /\ snapshot = Core /\ stage = "idle"
  /\ fate = [i \in 1..MaxLines |-> Unread] /\ crashes = 0

Tick ==
  /\ now < EndOfTime /\ now' = now + 1
  /\ UNCHANGED <<outside, processor, crashes>>

-----------------------------------------------------------------------------
(* The scanner's process                                                   *)

IsTorn == Len(inbox) > 0 /\ inbox[Len(inbox)] = Torn

(* A line written behind a torn one is glued to it, and neither is read.   *)
Appended(line) ==
  IF IsTorn THEN [inbox EXCEPT ![Len(inbox)] = IF line = Torn THEN Torn ELSE Garbage]
  ELSE Append(inbox, line)

WriteCandidate(s) ==
  /\ Len(inbox) < MaxLines /\ now - written[s] >= Dedupe
  /\ inbox' = Appended(s) /\ written' = [written EXCEPT ![s] = now]
  /\ UNCHANGED <<now, processor, crashes>>

ScannerDies(line) ==
  /\ crashes < MaxCrashes /\ crashes' = crashes + 1
  /\ line = Torn => Len(inbox) < MaxLines
  /\ inbox' = (IF line = Torn THEN Appended(line) ELSE inbox)
  /\ written' = [s \in Symbols |-> Never]
  /\ UNCHANGED <<now, processor>>

-----------------------------------------------------------------------------
(* process_new_candidates()                                                *)

Marked(lines, what) ==
  [i \in 1..MaxLines |-> IF i \in lines THEN [what |-> what, at |-> now] ELSE fate[i]]

Today == now \div DayLength

(* The offset moves past every raw line read, the unreadable ones too.     *)
Consumed == (state.offset + 1)..Len(inbox)

ReadInbox ==
  LET unreadable == {i \in Consumed : inbox[i] \notin Symbols}
  IN
  /\ stage = "idle"
  /\ state' = [offset |-> IF Consumed = {} THEN state.offset ELSE Len(inbox),
               count |-> IF state.date = Today THEN state.count ELSE 0, date |-> Today]
  /\ batch' = Consumed \ unreadable /\ fate' = Marked(unreadable, "unreadable")
  /\ stage' = "batch"
  /\ UNCHANGED <<now, outside, stored, recent, decisions, snapshot, crashes>>

NextLine == CHOOSE i \in batch : \A j \in batch : i <= j
BrokenIsRecent(s) == recent[s] # Never
IsRecent(s) == now - recent[s] < Dedupe

SkipRecent ==
  /\ stage = "batch" /\ batch # {} /\ IsRecent(inbox[NextLine])
  /\ batch' = batch \ {NextLine} /\ fate' = Marked({NextLine}, "seen")
  /\ UNCHANGED <<now, outside, state, stored, recent, decisions, snapshot, stage, crashes>>

(* Today and the next day; weekends are left out.                          *)
Expiry == (Today + 2) * DayLength - 1

Decide(passes) ==
  LET accept == passes /\ state.count < MaxAccepted
      s == inbox[NextLine]
  IN
  /\ stage = "batch" /\ batch # {} /\ ~IsRecent(s)
  /\ state' = [state EXCEPT !.count = IF accept THEN @ + 1 ELSE @]
  /\ decisions' = Append(decisions, [symbol |-> s, accept |-> accept, expires |-> Expiry])
  /\ recent' = [recent EXCEPT ![s] = now]
  /\ batch' = batch \ {NextLine} /\ fate' = Marked({NextLine}, "decided")
  /\ UNCHANGED <<now, outside, stored, snapshot, stage, crashes>>

(* The daemon logs the exception and calls again: the offset stays moved.  *)
FilterRaises ==
  /\ stage = "batch" /\ batch # {} /\ ~IsRecent(inbox[NextLine])
  /\ batch' = {} /\ fate' = Marked(batch, "raised") /\ stage' = "idle"
  /\ UNCHANGED <<now, outside, state, stored, recent, decisions, snapshot, crashes>>

SaveState ==
  /\ stage = "batch" /\ batch = {} /\ stored' = state /\ stage' = "rebuild"
  /\ UNCHANGED <<now, outside, state, recent, batch, decisions, snapshot, fate, crashes>>

(* After a batch with decisions, and in every round of the daemon: the     *)
(* snapshot is replaced in one step.                                       *)
Rebuild ==
  /\ stage = "rebuild" /\ stage' = "idle"
  /\ snapshot' = Core \cup {decisions[i].symbol :
       i \in {j \in DOMAIN decisions : decisions[j].accept /\ decisions[j].expires >= now}}
  /\ UNCHANGED <<now, outside, state, stored, recent, batch, decisions, fate, crashes>>

(* The daemon's process ends and is started again.  In the middle of the   *)
(* save state.json is empty, and load() falls back to defaults.            *)
ProcessorDies(torn) ==
  LET found == IF torn THEN Fresh ELSE stored
  IN
  /\ crashes < MaxCrashes /\ crashes' = crashes + 1
  /\ torn => stage = "batch" /\ batch = {}
  /\ stored' = found /\ state' = found
  /\ recent' = [s \in Symbols |-> Never] /\ batch' = {} /\ stage' = "idle"
  /\ UNCHANGED <<now, outside, decisions, snapshot, fate>>

Next ==
  \/ Tick \/ ReadInbox \/ SkipRecent \/ FilterRaises \/ SaveState \/ Rebuild
  \/ \E s \in Symbols : WriteCandidate(s)
  \/ \E b \in BOOLEAN : Decide(b) \/ ProcessorDies(b) \/ ScannerDies(IF b THEN Torn ELSE Garbage)

Spec == Init /\ [][Next]_vars
-----------------------------------------------------------------------------
(* A line below the offset a restart would read from is never lost         *)
(* silently: it was decided, or unreadable, or in a batch an exception     *)
(* ended, or its symbol had been decided within the last five minutes.     *)
NothingSkipped ==
  \A i \in 1..stored.offset :
    /\ fate[i].what # "unread"
    /\ fate[i].what = "seen" =>
         \E j \in 1..(i - 1) : /\ inbox[j] = inbox[i] /\ fate[j].what = "decided"
                               /\ fate[i].at - fate[j].at < Dedupe
=============================================================================
