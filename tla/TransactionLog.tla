---------------------------- MODULE TransactionLog ---------------------------
(***************************************************************************)
(* core/state/transaction_log.py: one line per record, checksum in front,  *)
(* and what its readers get of a file in which some appends were cut       *)
(* short.  The reader modelled is _seed_submitted_ids_from_log() of        *)
(* core/execution/engine.py; every record is an ORDER_SUBMIT of an order   *)
(* of its own, and record n is the n-th that append() was called for.      *)
(*                                                                         *)
(* append() raises when the file system takes only a part of the line (the *)
(* disk is full).  The part is in the file, and the rest stays in the      *)
(* buffer of the file object: the next append(), flush() or close() that   *)
(* gets through writes it.  A process that dies first leaves the line torn, *)
(* and the next process appends right behind the torn part, without a line *)
(* break.  Dying in the middle of append() is Fail followed by Restart.    *)
(*                                                                         *)
(* Of a line only what iter_events() tells apart is kept: whether it is    *)
(* exactly one record, and where its first colon stands.                   *)
(*                                                                         *)
(* Definitions named Broken... are wrong on purpose: each is the body a    *)
(* plausible bug would give the definition that follows it.                *)
(***************************************************************************)
EXTENDS Integers, Sequences

CONSTANT MaxRecords      \* bound: calls of append()

ASSUME LogAssumption == MaxRecords \in Nat

VARIABLES
  lines,           \* the file, up to the last record that is not in the buffer
  buffer,          \* records still in the buffer of the file object
  partial,         \* how much of the first of them is in the file
  called,          \* calls of append() so far
  acked,           \* history: records whose append() returned
  guard            \* the engine's _submitted_order_ids

vars == <<lines, buffer, partial, called, acked, guard>>

Record == 1..MaxRecords

\* How much of a line reaches the file: up to eight digits of the checksum; the
\* colon and a part of the JSON text; all but the line break.
Cut == {"nothing", "digits", "text", "unended"}

\* colon is where the first colon of the line stands: none, behind exactly
\* eight characters, or later.
Line == [record : Record, intact : BOOLEAN, colon : {"none", "eighth", "late"},
         ended : BOOLEAN]

-----------------------------------------------------------------------------

\* A line that holds the given part of record r and nothing else.
Alone(r, part) ==
  [record |-> r,
   intact |-> part \in {"unended", "whole"},
   colon  |-> IF part = "digits" THEN "none" ELSE "eighth",
   ended  |-> part = "whole"]

\* Line l, not ended, with the given part of another record behind it.
Glued(l, part) ==
  [record |-> l.record,
   intact |-> FALSE,
   colon  |-> IF l.colon = "none" /\ part # "digits" THEN "late" ELSE l.colon,
   ended  |-> part = "whole"]

IsOpen(file) == file # <<>> /\ ~file[Len(file)].ended

\* The file after the given part of record r was written at its end.
Write(file, r, part) ==
  CASE part = "nothing" -> file
    [] part # "nothing" /\ IsOpen(file) ->
         [file EXCEPT ![Len(file)] = Glued(file[Len(file)], part)]
    [] OTHER -> Append(file, Alone(r, part))

\* The file as the operating system has it.
File == IF buffer = <<>> THEN lines ELSE Write(lines, Head(buffer), partial)

\* iter_events() on one line: a record; a checksum that does not match, which
\* raises TransactionLogCorruptionError; or text without a colon behind eight
\* characters, which is tried as JSON and skipped.  (A few digits alone may
\* parse as a number, which the reader chokes on; they are the last of the file.)
Reads(l) ==
  IF l.intact THEN "event" ELSE IF l.colon = "eighth" THEN "stop" ELSE "skip"

\* Line i is read, and read as a record.
Read(file, i) ==
  /\ i \in DOMAIN file
  /\ Reads(file[i]) = "event"
  /\ \A j \in 1..(i - 1) : Reads(file[j]) # "stop"

\* The records a reader sees before the end of the file or the first error.
Seen(file) == {r \in Record : \E i \in DOMAIN file : Read(file, i) /\ file[i].record = r}

-----------------------------------------------------------------------------

Init ==
  /\ lines = <<>>
  /\ buffer = <<>> /\ partial = "nothing"
  /\ called = 0
  /\ acked = {} /\ guard = {}

\* append() returns.  What was in the buffer is written first (Drain).
AppendReturns ==
  LET r == called + 1 IN
  /\ called < MaxRecords
  /\ buffer = <<>>
  /\ lines' = Write(lines, r, "whole")
  /\ called' = r
  /\ acked' = acked \cup {r}
  /\ guard' = guard \cup {r}
  /\ UNCHANGED <<buffer, partial>>

\* append() raises; the engine has put the id into its guard already, and
\* swallows the exception.
Fail(cut) ==
  LET r == called + 1 IN
  /\ called < MaxRecords
  /\ buffer' = Append(buffer, r)
  /\ partial' = IF buffer = <<>> THEN cut ELSE partial
  /\ called' = r
  /\ guard' = guard \cup {r}
  /\ UNCHANGED <<lines, acked>>

\* Bug: what has been written stays in the buffer.
BrokenRest == buffer

Rest == Tail(buffer)

\* Bug: the count of bytes written is not reset for the next line.
BrokenNextPart == partial

NextPart == "nothing"

\* A later append(), flush() or close() gets the rest of a line through.
Drain ==
  /\ buffer # <<>>
  /\ lines' = Write(lines, Head(buffer), "whole")
  /\ buffer' = Rest
  /\ partial' = NextPart
  /\ UNCHANGED <<called, acked, guard>>

\* Bug: the file is opened for writing and emptied.
BrokenReopened == <<>>

\* Opened for appending, as it is.
Reopened == File

\* Bug: the guard is not seeded.
BrokenSeed(file) == {}

\* The reader swallows the error of a line it cannot take apart and keeps what
\* it has seen until then.  A disk that fails while the file is read leaves less:
\* that is ExecutionEngine's Seeds.
Seed(file) == Seen(file)

\* The process dies and is started again: the buffer is lost.
Restart ==
  /\ lines' = Reopened
  /\ buffer' = <<>> /\ partial' = "nothing"
  /\ guard' = Seed(Reopened)
  /\ UNCHANGED <<called, acked>>

Next ==
  \/ AppendReturns
  \/ \E cut \in Cut : Fail(cut)
  \/ Drain
  \/ Restart

Spec == Init /\ [][Next]_vars

-----------------------------------------------------------------------------

\* The variables have their types; nothing of a line is in the file unless its
\* record is in the buffer.
TypeOK ==
  /\ lines \in Seq(Line)
  /\ buffer \in Seq(Record)
  /\ partial \in Cut
  /\ buffer = <<>> => partial = "nothing"
  /\ called \in 0..MaxRecords
  /\ acked \subseteq Record
  /\ guard \subseteq Record

\* A reader gets the records in the order of the calls of append(), and none
\* twice, those included whose append() raised and that were written later.
ReadInOrder ==
  \A i, j \in DOMAIN File :
    i < j /\ Read(File, i) /\ Read(File, j) => File[i].record < File[j].record

\* Whatever a reader could find in the file is in the duplicate guard, in the
\* session that wrote it and after any restart.
SeenIsBlocked == Seen(File) \subseteq guard

\* An acknowledged record that can be read stays readable, whatever is torn
\* behind it and glued to that ("Append-only", "crash-safety").
AckedStaysSeen == [][acked \cap Seen(File) \subseteq Seen(File')]_vars

=============================================================================
