---------------------------- MODULE LimitsTracker ---------------------------
(***************************************************************************)
(* core/risk/limits.py, PersistentLimitsTracker: the realized P&L of the   *)
(* day in SQLite, the daily loss check, the daily reset, and the lock      *)
(* around them.  The lock is a plain threading.Lock: a thread that holds   *)
(* it and asks for it again waits for itself.                              *)
(*                                                                         *)
(* The main loop of core/runtime/app.py calls record_realized_pnl() after  *)
(* a sale; the worker of PreTradeRiskGate calls                            *)
(* is_daily_loss_limit_breached() before every approval.                   *)
(*                                                                         *)
(* SQLite makes each statement atomic, but record_realized_pnl() reads the *)
(* row with one statement and writes it with another: only the lock keeps  *)
(* a second sale from coming in between.                                   *)
(*                                                                         *)
(* Definitions named Broken... are wrong on purpose: each is the body a    *)
(* plausible bug would give the definition that follows it.                *)
(***************************************************************************)
EXTENDS Integers

CONSTANTS
  Threads,          \* threads of the process that use the tracker
  Amounts,          \* realized P&L of one sale, negative for a loss
  DailyLossLimit,   \* positive, as the constructor asks
  MaxDay,           \* bound: days
  MaxTrades         \* bound: no further sale of a day begins after this many

Nobody == "nobody"

ASSUME LimitsAssumption ==
  /\ Nobody \notin Threads
  /\ Amounts \subseteq Int
  /\ DailyLossLimit \in Nat \ {0}
  /\ MaxDay \in Nat
  /\ MaxTrades \in Nat

VARIABLES
  today,            \* the date
  row,              \* daily_pnl: the row of each day
  holder,           \* the thread that holds _lock, or Nobody
  call,             \* what each thread is doing in the tracker
  sold              \* history: sum of the sales written on each day

vars == <<today, row, holder, call, sold>>

Day == 0..MaxDay

Row == [exists : BOOLEAN, pnl : Int, trades : Nat, breached : BOOLEAN]

NoRow == [exists |-> FALSE, pnl |-> 0, trades |-> 0, breached |-> FALSE]

ZeroRow == [exists |-> TRUE, pnl |-> 0, trades |-> 0, breached |-> FALSE]

\* Where a thread is.  It waits for the lock at "record", "check", "reset" and
\* "recheck", the last being the is_daily_loss_limit_breached() at the end of
\* record_realized_pnl(), which already holds it.
Waiting == {"record", "check", "recheck", "reset"}

Holding == {"recording", "writing", "checking", "recheck", "resetting"}

Place == {"none"} \cup Waiting \cup Holding

\* day and seen: the locals of record_realized_pnl() between its two statements.
Call == [at : Place, day : Day, seen : Row]

Local(where) == [at |-> where, day |-> 0, seen |-> NoRow]

Outside == Local("none")

-----------------------------------------------------------------------------

Init ==
  /\ today = 0
  /\ row = [d \in Day |-> NoRow]
  /\ holder = Nobody
  /\ call = [t \in Threads |-> Outside]
  /\ sold = [d \in Day |-> 0]

At(t, where) == call[t].at = where

Begin(t, what) ==
  /\ At(t, "none")
  /\ call' = [call EXCEPT ![t] = Local(what)]
  /\ UNCHANGED <<today, row, holder, sold>>

BeginRecord(t) == row[today].trades < MaxTrades /\ Begin(t, "record")

BeginCheck(t) == Begin(t, "check")

BeginReset(t) == Begin(t, "reset")

\* Bug: the methods do not take the lock.
BrokenMayEnter == TRUE

MayEnter == holder = Nobody

Entered(where) ==
  CASE where = "record" -> "recording"
    [] where = "reset"  -> "resetting"
    [] OTHER            -> "checking"

\* `with self._lock`.
Acquire(t) ==
  /\ call[t].at \in Waiting
  /\ MayEnter
  /\ holder' = t
  /\ call' = [call EXCEPT ![t] = Local(Entered(call[t].at))]
  /\ UNCHANGED <<today, row, sold>>

Release(t) ==
  /\ holder' = Nobody
  /\ call' = [call EXCEPT ![t] = Outside]

\* record_realized_pnl(), first statement: the row of the day.
ReadRow(t) ==
  /\ At(t, "recording")
  /\ call' = [call EXCEPT ![t] = [at |-> "writing", day |-> today, seen |-> row[today]]]
  /\ UNCHANGED <<today, row, holder, sold>>

\* Bug: the number of sales is counted down.
BrokenBooked(seen, amount) ==
  [exists |-> TRUE, pnl |-> seen.pnl + amount, trades |-> seen.trades - 1,
   breached |-> seen.pnl + amount <= -DailyLossLimit]

\* The row after one more sale; a first sale inserts it.
Booked(seen, amount) ==
  [exists |-> TRUE, pnl |-> seen.pnl + amount, trades |-> seen.trades + 1,
   breached |-> seen.pnl + amount <= -DailyLossLimit]

\* Second statement: the row is written and committed.  Then, still under the
\* lock, the limit is checked for the log message.
WriteRow(t, amount) ==
  LET d == call[t].day IN
  /\ At(t, "writing")
  /\ row' = [row EXCEPT ![d] = Booked(call[t].seen, amount)]
  /\ sold' = [sold EXCEPT ![d] = @ + amount]
  /\ call' = [call EXCEPT ![t] = Local("recheck")]
  /\ UNCHANGED <<today, holder>>

\* is_daily_loss_limit_breached(): reads the row of today.
Check(t) ==
  /\ At(t, "checking")
  /\ Release(t)
  /\ UNCHANGED <<today, row, sold>>

\* Bug: the row of the day is replaced whether or not there is one.
BrokenResetRow == ZeroRow

\* A fresh row for a day that has none.
ResetRow == IF row[today].exists THEN row[today] ELSE ZeroRow

\* reset_daily_limits().
Reset(t) ==
  /\ At(t, "resetting")
  /\ row' = [row EXCEPT ![today] = ResetRow]
  /\ Release(t)
  /\ UNCHANGED <<today, sold>>

\* The database raises (it is locked by another process, or full): the
\* transaction is rolled back and the lock released.
Raise(t) ==
  /\ call[t].at \in {"recording", "writing", "resetting"}
  /\ Release(t)
  /\ UNCHANGED <<today, row, sold>>

Midnight ==
  /\ today < MaxDay
  /\ today' = today + 1
  /\ UNCHANGED <<row, holder, call, sold>>

\* A new process on the same database: _check_and_reset_if_new_day() in the
\* constructor inserts a row for today when the last row is of another day.
Restart ==
  /\ holder' = Nobody
  /\ call' = [t \in Threads |-> Outside]
  /\ row' = IF \E d \in Day : row[d].exists /\ d # today
            THEN [row EXCEPT ![today] = ResetRow] ELSE row
  /\ UNCHANGED <<today, sold>>

Step(t) ==
  \/ Acquire(t)
  \/ ReadRow(t)
  \/ \E amount \in Amounts : WriteRow(t, amount)
  \/ Check(t)
  \/ Reset(t)
  \/ Raise(t)

Next ==
  \/ \E t \in Threads : BeginRecord(t) \/ BeginCheck(t) \/ BeginReset(t)
  \/ \E t \in Threads : Step(t)
  \/ Midnight
  \/ Restart

\* Threads are scheduled; nothing restarts a process that hangs.
Fairness == \A t \in Threads : WF_vars(Step(t))

Spec == Init /\ [][Next]_vars /\ Fairness

-----------------------------------------------------------------------------

\* The variables have their types.
TypeOK ==
  /\ today \in Day
  /\ row \in [Day -> Row]
  /\ holder \in Threads \cup {Nobody}
  /\ call \in [Threads -> Call]
  /\ sold \in [Day -> Int]

\* The row of a day is the sum of all its sales and their verdict, and a day
\* without a row has none: no sale is lost to another thread's, to a reset, to
\* midnight between the two statements, or to a restart ("All mutations are
\* atomic", "Restart does NOT reset limits").
RowIsLedger ==
  \A d \in Day :
    /\ row[d].pnl = sold[d]
    /\ row[d].exists => row[d].breached = (sold[d] <= -DailyLossLimit)

\* The record of a day is never replaced by a fresh one: not by a reset that
\* comes after a sale, nor by a second start on the same day.
SalesAreKept == [][\A d \in Day : row'[d].trades >= row[d].trades]_vars

\* record_realized_pnl() returns (it logs "Recorded P&L", then checks the limit).
RecordReturns == \A t \in Threads : At(t, "record") ~> At(t, "none")

=============================================================================
