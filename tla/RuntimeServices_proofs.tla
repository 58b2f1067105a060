----------------------- MODULE RuntimeServices_proofs -----------------------
(***************************************************************************)
(* Theorems about the services under the trading loop: about LimitsTracker *)
(* on its own, and about the others as MCRuntimeServices instantiates      *)
(* them, for any value of their constants.                                 *)
(***************************************************************************)
EXTENDS MCRuntimeServices, SequenceTheorems, FiniteSetTheorems, WellFoundedInduction,
        TLAPS

-----------------------------------------------------------------------------
(* LimitsTracker.                                                          *)

\* The lock: a thread inside one of the methods is the one that holds it.
LockIsHeld == \A t \in Threads : call[t].at \in Holding => holder = t

\* What record_realized_pnl() has read is still what the row says when it
\* writes, because nobody else has been inside.
ReadIsCurrent == \A t \in Threads : At(t, "writing") => call[t].seen = row[call[t].day]

\* A day that has no row has the values a fresh row starts with.
AbsentIsBlank == \A d \in Day : ~row[d].exists => row[d] = NoRow

LimitsInv == TypeOK /\ LockIsHeld /\ ReadIsCurrent /\ AbsentIsBlank /\ RowIsLedger

\* The variables start with their types and every step keeps them.
THEOREM LimitsTyping == Spec => []TypeOK
<1> USE DEF At, Day, Outside, Local
<1>1. Init => TypeOK
  BY LimitsAssumption DEF Init, TypeOK, Row, NoRow, Call, Place, Outside, Nobody
<1>2. TypeOK /\ [Next]_vars => TypeOK'
  <2> SUFFICES ASSUME TypeOK, [Next]_vars PROVE TypeOK'
    OBVIOUS
  <2>1. NoRow \in Row /\ ZeroRow \in Row /\ Outside \in Call
    BY LimitsAssumption DEF NoRow, ZeroRow, Row, Outside, Call, Place
  <2>2. ASSUME NEW t \in Threads, NEW what \in Waiting, Begin(t, what) PROVE TypeOK'
    BY <2>1, <2>2 DEF Begin, TypeOK, Call, Place, Outside
  <2>3. ASSUME NEW t \in Threads, Acquire(t) PROVE TypeOK'
    BY <2>1, <2>3 DEF Acquire, Entered, TypeOK, Call, Place, Holding
  <2>4. ASSUME NEW t \in Threads, ReadRow(t) PROVE TypeOK'
    BY <2>4 DEF ReadRow, TypeOK, Call, Place, Holding
  <2>5. ASSUME NEW t \in Threads, NEW amount \in Amounts, WriteRow(t, amount) PROVE TypeOK'
    <3>1. amount \in Int /\ call[t] \in Call
      BY LimitsAssumption DEF TypeOK
    <3>2. Booked(call[t].seen, amount) \in Row
      BY <3>1, LimitsAssumption DEF Booked, Row, Call
    <3> QED
      BY <2>5, <2>1, <3>1, <3>2 DEF WriteRow, TypeOK, Call, Place, Holding, Outside
  <2>6. ASSUME NEW t \in Threads, Check(t) PROVE TypeOK'
    BY <2>6, <2>1 DEF Check, Release, TypeOK
  <2>7. ASSUME NEW t \in Threads, Reset(t) PROVE TypeOK'
    BY <2>7, <2>1 DEF Reset, ResetRow, Release, TypeOK
  <2>8. ASSUME NEW t \in Threads, Raise(t) PROVE TypeOK'
    BY <2>8, <2>1 DEF Raise, Release, TypeOK
  <2>9. CASE Midnight
    BY <2>9, LimitsAssumption DEF Midnight, TypeOK
  <2>10. CASE Restart
    BY <2>10, <2>1 DEF Restart, ResetRow, TypeOK
  <2>11. CASE UNCHANGED vars
    BY <2>11 DEF vars, TypeOK
  <2> QED
    BY <2>2, <2>3, <2>4, <2>5, <2>6, <2>7, <2>8, <2>9, <2>10, <2>11
       DEF Next, Step, BeginRecord, BeginCheck, BeginReset, Waiting
<1> QED
  BY <1>1, <1>2, PTL DEF Spec

\* The strengthening of RowIsLedger that every step keeps.
LEMMA LimitsInvariant == Spec => []LimitsInv
<1> USE DEF At, Day, Outside, Local
<1>1. Init => LockIsHeld /\ ReadIsCurrent /\ AbsentIsBlank /\ RowIsLedger
  BY DEF Init, LockIsHeld, ReadIsCurrent, AbsentIsBlank, RowIsLedger, Holding, NoRow, Outside
<1>2. TypeOK /\ TypeOK' /\ LockIsHeld /\ ReadIsCurrent /\ AbsentIsBlank /\ RowIsLedger
      /\ [Next]_vars
      => LockIsHeld' /\ ReadIsCurrent' /\ AbsentIsBlank' /\ RowIsLedger'
  <2> SUFFICES ASSUME TypeOK, TypeOK', LockIsHeld, ReadIsCurrent, AbsentIsBlank, RowIsLedger,
                      [Next]_vars
               PROVE  LockIsHeld' /\ ReadIsCurrent' /\ AbsentIsBlank' /\ RowIsLedger'
    OBVIOUS
  <2>1. \A t \in Threads : call[t] \in Call /\ t # Nobody
    BY LimitsAssumption DEF TypeOK
  <2>2. ASSUME NEW t \in Threads, NEW what \in Waiting \ {"recheck"}, Begin(t, what)
        PROVE  LockIsHeld' /\ ReadIsCurrent' /\ AbsentIsBlank' /\ RowIsLedger'
    BY <2>2 DEF Begin, LockIsHeld, ReadIsCurrent, AbsentIsBlank, RowIsLedger, TypeOK, Holding,
       Waiting, Outside
  <2>3. ASSUME NEW t \in Threads, Acquire(t)
        PROVE  LockIsHeld' /\ ReadIsCurrent' /\ AbsentIsBlank' /\ RowIsLedger'
    <3>1. \A u \in Threads : call[u].at \notin Holding
      BY <2>1, <2>3 DEF Acquire, MayEnter, LockIsHeld
    <3>2. LockIsHeld'
      BY <2>3, <3>1 DEF Acquire, LockIsHeld, TypeOK
    <3>3. call'[t].at # "writing"
      BY <2>3 DEF Acquire, Entered, TypeOK
    <3> QED
      BY <2>1, <2>3, <3>2, <3>3 DEF Acquire, ReadIsCurrent, AbsentIsBlank, RowIsLedger, TypeOK,
         Call
  <2>4. ASSUME NEW t \in Threads, ReadRow(t)
        PROVE  LockIsHeld' /\ ReadIsCurrent' /\ AbsentIsBlank' /\ RowIsLedger'
    <3>1. holder = t
      BY <2>4 DEF ReadRow, LockIsHeld, Holding
    <3> QED
      BY <2>4, <3>1 DEF ReadRow, LockIsHeld, ReadIsCurrent, AbsentIsBlank, RowIsLedger, TypeOK
  <2>5. ASSUME NEW t \in Threads, NEW amount \in Amounts, WriteRow(t, amount)
        PROVE  LockIsHeld' /\ ReadIsCurrent' /\ AbsentIsBlank' /\ RowIsLedger'
    <3>1. holder = t
      BY <2>5 DEF WriteRow, LockIsHeld, Holding
    <3>2. \A u \in Threads : u # t => call[u].at # "writing"
      BY <3>1 DEF LockIsHeld, Holding
    <3>3. LockIsHeld'
      BY <2>5, <3>1 DEF WriteRow, LockIsHeld, TypeOK
    <3>4. ReadIsCurrent'
      BY <2>5, <3>2 DEF WriteRow, ReadIsCurrent, TypeOK, Outside
    <3>5. amount \in Int /\ call[t].day \in Day /\ call[t].seen = row[call[t].day]
      BY <2>1, <2>5, LimitsAssumption DEF WriteRow, ReadIsCurrent, Call
    <3>6. AbsentIsBlank' /\ RowIsLedger'
      BY <2>5, <3>5 DEF WriteRow, Booked, AbsentIsBlank, RowIsLedger, TypeOK, Row
    <3> QED
      BY <3>3, <3>4, <3>6
  <2>6. ASSUME NEW t \in Threads, Release(t), UNCHANGED <<today, row, sold>>, holder = t
        PROVE  LockIsHeld' /\ ReadIsCurrent' /\ AbsentIsBlank' /\ RowIsLedger'
    BY <2>1, <2>6 DEF Release, LockIsHeld, ReadIsCurrent, AbsentIsBlank, RowIsLedger, TypeOK,
       Outside, Holding
  <2>7. ASSUME NEW t \in Threads, Check(t) \/ Raise(t)
        PROVE  LockIsHeld' /\ ReadIsCurrent' /\ AbsentIsBlank' /\ RowIsLedger'
    BY <2>6, <2>7 DEF Check, Raise, LockIsHeld, Holding
  <2>8. ASSUME NEW d \in Day, row' = [row EXCEPT ![d] = ResetRow], d = today,
               UNCHANGED <<today, sold>>
        PROVE  AbsentIsBlank' /\ RowIsLedger'
    <3>1. CASE row[d].exists
      <4>1. row' = row
        BY <2>8, <3>1 DEF ResetRow, TypeOK
      <4> QED
        BY <2>8, <4>1 DEF AbsentIsBlank, RowIsLedger
    <3>2. CASE ~row[d].exists
      <4>1. row' = [row EXCEPT ![d] = ZeroRow] /\ sold[d] = 0
        BY <2>8, <3>2 DEF ResetRow, AbsentIsBlank, RowIsLedger, NoRow
      <4>2. (0 <= -DailyLossLimit) = FALSE
        BY LimitsAssumption
      <4>3. ASSUME NEW e \in Day, e # d PROVE row'[e] = row[e] /\ sold'[e] = sold[e]
        BY <2>8, <4>1, <4>3 DEF TypeOK
      <4>4. row'[d] = ZeroRow /\ sold'[d] = 0
        BY <2>8, <4>1 DEF TypeOK
      <4>5. AbsentIsBlank'
        BY <4>3, <4>4 DEF AbsentIsBlank, ZeroRow
      <4>6. ASSUME NEW e \in Day
            PROVE  /\ row'[e].pnl = sold'[e]
                   /\ row'[e].exists => row'[e].breached = (sold'[e] <= -DailyLossLimit)
        <5>1. CASE e = d
          <6>1. row'[e].breached = FALSE /\ row'[e].pnl = 0 /\ sold'[e] = 0
            BY <4>4, <5>1 DEF ZeroRow
          <6> QED
            BY <4>2, <6>1
        <5>2. CASE e # d
          BY <4>3, <5>2, Zenon DEF RowIsLedger
        <5> QED
          BY <5>1, <5>2
      <4> QED
        BY <4>5, <4>6 DEF RowIsLedger
    <3> QED
      BY <3>1, <3>2
  <2>9. ASSUME NEW t \in Threads, Reset(t)
        PROVE  LockIsHeld' /\ ReadIsCurrent' /\ AbsentIsBlank' /\ RowIsLedger'
    <3>1. holder = t
      BY <2>9 DEF Reset, LockIsHeld, Holding
    <3>2. \A u \in Threads : u # t => call[u].at \notin Holding
      BY <3>1 DEF LockIsHeld
    <3>3. LockIsHeld' /\ ReadIsCurrent'
      BY <2>9, <3>2 DEF Reset, Release, LockIsHeld, ReadIsCurrent, TypeOK, Outside, Holding
    <3> QED
      BY <2>8, <2>9, <3>3 DEF Reset, Release, TypeOK
  <2>10. CASE Midnight
    BY <2>10 DEF Midnight, LockIsHeld, ReadIsCurrent, AbsentIsBlank, RowIsLedger
  <2>11. CASE Restart
    <3>1. LockIsHeld' /\ ReadIsCurrent'
      BY <2>11 DEF Restart, LockIsHeld, ReadIsCurrent, Outside, Holding
    <3>2. CASE row' = row
      BY <2>11, <3>1, <3>2 DEF Restart, AbsentIsBlank, RowIsLedger
    <3>3. CASE row' = [row EXCEPT ![today] = ResetRow]
      BY <2>8, <2>11, <3>1, <3>3 DEF Restart, TypeOK
    <3> QED
      BY <2>11, <3>2, <3>3 DEF Restart
  <2>12. CASE UNCHANGED vars
    BY <2>12 DEF vars, LockIsHeld, ReadIsCurrent, AbsentIsBlank, RowIsLedger
  <2> QED
    BY <2>2, <2>3, <2>4, <2>5, <2>7, <2>9, <2>10, <2>11, <2>12
       DEF Next, Step, BeginRecord, BeginCheck, BeginReset, Waiting
<1>3. Init => TypeOK
  BY LimitsAssumption DEF Init, TypeOK, Row, NoRow, Call, Place
<1>4. QED
  BY <1>1, <1>2, <1>3, LimitsTyping, PTL DEF Spec, LimitsInv

\* No sale is lost: the row of a day is the sum of its sales, with the right
\* verdict, over all interleavings of threads, failures, midnights and restarts.
THEOREM Ledger == Spec => []RowIsLedger
<1>1. LimitsInv => RowIsLedger
  BY DEF LimitsInv
<1> QED
  BY <1>1, LimitsInvariant, PTL

\* No step replaces the record of a day by one with fewer sales.
THEOREM Kept == Spec => SalesAreKept
<1> USE DEF At, Day, Outside, Local
<1>1. TypeOK /\ ReadIsCurrent /\ AbsentIsBlank /\ [Next]_vars
      => [\A d \in Day : row'[d].trades >= row[d].trades]_vars
  <2> SUFFICES ASSUME TypeOK, ReadIsCurrent, AbsentIsBlank, [Next]_vars, NEW d \in 0..MaxDay
               PROVE  row'[d].trades >= row[d].trades
    BY DEF vars
  <2>1. row[d] \in Row /\ row[d].trades \in Nat
    BY DEF TypeOK, Row
  <2>2. ASSUME row' = row PROVE row'[d].trades >= row[d].trades
    BY <2>1, <2>2
  <2>3. ASSUME row' = [row EXCEPT ![today] = ResetRow] PROVE row'[d].trades >= row[d].trades
    BY <2>1, <2>3 DEF ResetRow, ZeroRow, NoRow, AbsentIsBlank, TypeOK
  <2>4. ASSUME NEW t \in Threads, NEW amount \in Amounts, WriteRow(t, amount)
        PROVE  row'[d].trades >= row[d].trades
    <3>1. call[t].day \in Day /\ call[t].seen = row[call[t].day]
      BY <2>4 DEF WriteRow, ReadIsCurrent, TypeOK, Call
    <3> QED
      BY <2>1, <2>4, <3>1 DEF WriteRow, Booked, TypeOK
  <2>5. CASE Restart
    BY <2>2, <2>3, <2>5 DEF Restart
  <2>6. ASSUME NEW t \in Threads, Reset(t) PROVE row'[d].trades >= row[d].trades
    BY <2>3, <2>6 DEF Reset
  <2> QED
    BY <2>2, <2>4, <2>5, <2>6
       DEF Next, Step, BeginRecord, BeginCheck, BeginReset, Begin, Acquire, ReadRow, Check,
           Raise, Midnight, vars
<1> QED
  BY <1>1, LimitsInvariant, PTL DEF Spec, LimitsInv, SalesAreKept

-----------------------------------------------------------------------------
(* The other services.  Of each, the first lemma says how a behaviour of   *)
(* MCSpec starts, the second that it takes only the steps of its module.   *)

LEMMA Begins ==
  MCInit => /\ Persistence!Init
            /\ Startup!Init
            /\ Tracking!Init
            /\ Stream!Init
            /\ Bars!Init
            /\ Trailing!Init
            /\ Executor!Init
            /\ Checks!Init
            /\ Reconciling!Init
            /\ Handlers!Init
            /\ Guards!Init
            /\ Hours!Init
            /\ Headlines!Init
            /\ Quoting!Init
  BY DEF MCInit

LEMMA Moves ==
  ASSUME [MCNext]_allVars
  PROVE  /\ [Persistence!Next]_persistenceVars
         /\ [Startup!Next]_startupVars
         /\ [Tracking!Next]_trackingVars
         /\ [Stream!Next]_streamVars
         /\ [Bars!Next]_barsVars
         /\ [Trailing!Next]_trailingVars
         /\ [Executor!Next]_executorVars
         /\ [Checks!Next]_checksVars
         /\ [Reconciling!Next]_reconcilingVars
         /\ [Handlers!Next]_handlersVars
         /\ [Guards!Next]_guardsVars
         /\ [Hours!Next]_hoursVars
         /\ [Headlines!Next]_headlinesVars
         /\ [Quoting!Next]_quotingVars
  BY DEF MCNext, allVars

-----------------------------------------------------------------------------
(* StatePersistence.  A crash in a save costs no more than the save, for   *)
(* any number of saves and backups.  What makes that inductive is the      *)
(* discipline of the files: the current one is never torn, the temporary   *)
(* one is whole before the rename, and the rename comes before the save is *)
(* reported.                                                               *)

Numbered == persistenceAttempt \in Nat /\ kept \in 0..persistenceAttempt

(* The current file is missing only before the first save, and is whole.   *)
CurrentIsWhole ==
  \/ persistenceCurrent = Persistence!NoFile /\ kept = 0
  \/ \E n \in 1..persistenceAttempt : persistenceCurrent = Persistence!Whole(n) /\ kept <= n

(* What the step under way has behind it.                                  *)
StepsInOrder ==
  /\ step \in {"bak", "copying", "replace"}
       => persistenceAttempt > 0 /\ tmp = Persistence!Whole(persistenceAttempt)
  /\ step = "writing" => persistenceAttempt > 0
  /\ step \in {"backup", "filling", "rotate"}
       => persistenceAttempt > 0 /\ persistenceCurrent = Persistence!Whole(persistenceAttempt)

SavesInv == Numbered /\ CurrentIsWhole /\ StepsInOrder

-----------------------------------------------------------------------------
(* A whole file is a file, whatever its serial.                            *)
LEMMA WholeIsAFile ==
  ASSUME NEW n
  PROVE Persistence!Whole(n) # Persistence!NoFile /\ Persistence!Whole(n).whole = TRUE
        /\ Persistence!Whole(n).serial = n
BY DEF Persistence!Whole, Persistence!NoFile

LEMMA FilesInit == Persistence!Init => SavesInv
BY DEF Persistence!Init, SavesInv, Numbered, CurrentIsWhole, StepsInOrder

LEMMA FilesStep == SavesInv /\ [Persistence!Next]_persistenceVars => SavesInv'
<1> SUFFICES ASSUME SavesInv, [Persistence!Next]_persistenceVars PROVE SavesInv'
  OBVIOUS
<1> USE DEF Persistence!files
<1>1. persistenceAttempt \in Nat /\ kept \in 0..persistenceAttempt
  BY DEF SavesInv, Numbered
<1>2. ASSUME UNCHANGED <<persistenceCurrent, persistenceAttempt, kept>>, StepsInOrder'
      PROVE SavesInv'
  BY <1>2 DEF SavesInv, Numbered, CurrentIsWhole
<1>3. CASE UNCHANGED persistenceVars
  BY <1>2, <1>3 DEF persistenceVars, SavesInv, StepsInOrder
<1>4. CASE Persistence!BeginSave
  <2>1. persistenceAttempt' = persistenceAttempt + 1 /\ kept' = kept
        /\ persistenceCurrent' = persistenceCurrent /\ step' = "writing"
    BY <1>4 DEF Persistence!BeginSave, Persistence!OpenTmp
  <2>2. Numbered'
    BY <1>1, <2>1 DEF Numbered
  <2>3. CurrentIsWhole'
    <3>1. CASE persistenceCurrent = Persistence!NoFile /\ kept = 0
      BY <2>1, <3>1 DEF CurrentIsWhole
    <3>2. CASE \E n \in 1..persistenceAttempt :
                 persistenceCurrent = Persistence!Whole(n) /\ kept <= n
      <4>1. PICK n \in 1..persistenceAttempt :
                   persistenceCurrent = Persistence!Whole(n) /\ kept <= n
        BY <3>2
      <4>2. n \in 1..persistenceAttempt'
        BY <1>1, <2>1
      <4> QED BY <2>1, <4>1, <4>2 DEF CurrentIsWhole
    <3> QED BY <3>1, <3>2 DEF SavesInv, CurrentIsWhole
  <2>4. StepsInOrder'
    BY <1>1, <2>1 DEF StepsInOrder
  <2> QED BY <2>2, <2>3, <2>4 DEF SavesInv
<1>5. CASE Persistence!WriteTmp
  <2>1. StepsInOrder'
    BY <1>5 DEF Persistence!WriteTmp, SavesInv, StepsInOrder
  <2> QED BY <1>2, <1>5, <2>1 DEF Persistence!WriteTmp
<1>6. CASE Persistence!OpenBak \/ Persistence!CopyBak
  <2>1. StepsInOrder'
    BY <1>6 DEF Persistence!OpenBak, Persistence!CopyBak, SavesInv, StepsInOrder
  <2> QED BY <1>2, <1>6, <2>1 DEF Persistence!OpenBak, Persistence!CopyBak
<1>7. CASE Persistence!Replace
  <2>1. /\ persistenceCurrent' = Persistence!Whole(persistenceAttempt)
           /\ persistenceAttempt' = persistenceAttempt /\ persistenceAttempt > 0
        /\ kept' = kept /\ step' = "backup"
    BY <1>7 DEF Persistence!Replace, SavesInv, StepsInOrder
  <2>2. CurrentIsWhole'
    BY <1>1, <2>1 DEF CurrentIsWhole
  <2>3. StepsInOrder'
    BY <2>1 DEF StepsInOrder
  <2>4. Numbered'
    BY <1>1, <2>1 DEF Numbered
  <2> QED BY <2>2, <2>3, <2>4 DEF SavesInv
<1>8. CASE Persistence!OpenBackup \/ Persistence!CopyBackup \/ Persistence!FillBackup
  <2>1. StepsInOrder'
    BY <1>8 DEF Persistence!OpenBackup, Persistence!CopyBackup, Persistence!FillBackup,
          SavesInv, StepsInOrder
  <2> QED BY <1>2, <1>8, <2>1 DEF Persistence!OpenBackup, Persistence!CopyBackup,
                Persistence!FillBackup
<1>9. CASE Persistence!Rotate
  <2>1. /\ persistenceAttempt > 0 /\ persistenceCurrent = Persistence!Whole(persistenceAttempt)
           /\ persistenceCurrent' = persistenceCurrent
        /\ persistenceAttempt' = persistenceAttempt /\ kept' = persistenceAttempt
           /\ step' = "idle"
    BY <1>9 DEF Persistence!Rotate, SavesInv, StepsInOrder
  <2>2. CurrentIsWhole'
    BY <1>1, <2>1 DEF CurrentIsWhole
  <2>3. StepsInOrder'
    BY <2>1 DEF StepsInOrder
  <2>4. Numbered'
    BY <1>1, <2>1 DEF Numbered
  <2> QED BY <2>2, <2>3, <2>4 DEF SavesInv
<1>10. CASE Persistence!Fail \/ Persistence!Restart
  <2>1. StepsInOrder'
    BY <1>10 DEF Persistence!Fail, Persistence!Restart, StepsInOrder
  <2> QED BY <1>2, <1>10, <2>1 DEF Persistence!Fail, Persistence!Restart
<1> QED BY <1>3, <1>4, <1>5, <1>6, <1>7, <1>8, <1>9, <1>10 DEF Persistence!Next

(* The next load finds the current file, which is no older than the last   *)
(* save that was reported (persistence.py, save_state, load_latest_state). *)
LEMMA LoadIsFresh == SavesInv => Persistence!SnapshotSurvives
<1> SUFFICES ASSUME SavesInv, kept > 0 PROVE Persistence!Latest \in kept..persistenceAttempt
  BY DEF Persistence!SnapshotSurvives
<1>1. persistenceAttempt \in Nat /\ kept \in 0..persistenceAttempt
  BY DEF SavesInv, Numbered
<1>2. PICK n \in 1..persistenceAttempt : persistenceCurrent = Persistence!Whole(n) /\ kept <= n
  BY <1>1 DEF SavesInv, CurrentIsWhole
<1>3. persistenceCurrent # Persistence!NoFile /\ persistenceCurrent.whole = TRUE
      /\ persistenceCurrent.serial = n
  BY <1>2, WholeIsAFile
<1>4. Persistence!Latest = n
  BY <1>3 DEF Persistence!Latest
<1> QED BY <1>1, <1>2, <1>4

(* At whatever step a process dies or a save fails, the next load is no    *)
(* older than the last save that returned True.                            *)
THEOREM Survival == MCSpec => []SnapshotSurvives
<1>1. MCInit => SavesInv
  BY Begins, FilesInit
<1>2. SavesInv /\ [MCNext]_allVars => SavesInv'
  BY Moves, FilesStep
<1>3. SavesInv => SnapshotSurvives
  BY LoadIsFresh DEF SnapshotSurvives
<1> QED
  BY <1>1, <1>2, <1>3, PTL DEF MCSpec

-----------------------------------------------------------------------------
(* Recovery.  StartupAgrees speaks of the end of the start only.           *)
(* StartupFollowed carries it there, stage by stage: what the recovery has *)
(* read is still the account of every steady symbol, and once restored, a  *)
(* row is wrong only where the account holds nothing, which is what the    *)
(* healing deletes.                                                        *)

StartupTyped ==
  /\ startupRows \in [Symbols -> Int] /\ view \in [Symbols -> Int]
  /\ startupAccount \in [Symbols -> Nat] /\ startupSteady \subseteq Symbols

StartupFollowed ==
  /\ startupStage = "restore" =>
       \A s \in startupSteady :
         view[s] = startupAccount[s]
         /\ (startupAccount[s] > 0 => s \in startupTodo \/ startupRows[s] = startupAccount[s])
  /\ startupStage \in {"reconcile", "heal"} =>
       \A s \in startupSteady : startupAccount[s] > 0 => startupRows[s] = startupAccount[s]

StartupInv == StartupTyped /\ StartupFollowed /\ Startup!StartupAgrees

-----------------------------------------------------------------------------
LEMMA RecoveryInit == Startup!Init => StartupInv
BY DEF Startup!Init, Startup!Flat, StartupInv, StartupTyped, StartupFollowed,
      Startup!StartupAgrees

LEMMA RecoveryStep == StartupInv /\ [Startup!Next]_startupVars => StartupInv'
<1> SUFFICES ASSUME StartupInv, [Startup!Next]_startupVars PROVE StartupInv'
  OBVIOUS
<1> USE DEF StartupInv, StartupTyped, StartupFollowed, Startup!StartupAgrees
<1>1. CASE UNCHANGED startupVars
  BY <1>1 DEF startupVars
<1>2. ASSUME NEW s \in Symbols, Startup!Fill(s) PROVE StartupInv'
  <2>1. startupAccount' \in [Symbols -> Nat] /\ \A r \in Symbols : r # s
        => startupAccount'[r] = startupAccount[r]
    BY <1>2 DEF Startup!Fill
  <2> QED BY <1>2, <2>1 DEF Startup!Fill
<1>3. ASSUME NEW s \in Symbols, Startup!Exit(s) PROVE StartupInv'
  <2>1. startupAccount' \in [Symbols -> Nat] /\ \A r \in Symbols : r # s
        => startupAccount'[r] = startupAccount[r]
    BY <1>3 DEF Startup!Exit
  <2> QED BY <1>3, <2>1 DEF Startup!Exit
<1>4. ASSUME NEW s \in Symbols, Startup!Place(s) PROVE StartupInv'
  BY <1>4 DEF Startup!Place
<1>5. ASSUME NEW s \in Symbols, Startup!Book(s) PROVE StartupInv'
  BY <1>5 DEF Startup!Book
<1>6. CASE Startup!Save
  BY <1>6 DEF Startup!Save
<1>7. CASE Startup!Restart
  BY <1>7 DEF Startup!Restart, Startup!Flat
<1>8. CASE Startup!LoadNothing \/ Startup!LoadFresh \/ Startup!CancelOpenOrders
  BY <1>8 DEF Startup!LoadNothing, Startup!LoadFresh, Startup!CancelOpenOrders
(* A read that fails tells of no symbol; one that does not, of them all.   *)
<1>9. ASSUME NEW read \in Startup!Reads, Startup!Restoring(read.positions),
             startupSteady' = read.known,
             UNCHANGED <<startupRows, startupAccount>>
      PROVE  StartupInv'
  <2>1. CASE read.positions = startupAccount /\ read.known = Symbols
    BY <1>9, <2>1 DEF Startup!Restoring, Startup!Open
  <2>2. CASE read.positions = Startup!Flat /\ read.known = {}
    BY <1>9, <2>2 DEF Startup!Restoring, Startup!Flat
  <2> QED BY <2>1, <2>2 DEF Startup!Reads
<1>10. CASE Startup!Rebuild
  BY <1>9, <1>10 DEF Startup!Rebuild
<1>11. CASE Startup!Validate
  <2>1. PICK read \in Startup!Reads :
          /\ IF Startup!Open(snapshot) \cap Startup!Open(read.positions) # {}
             THEN startupStage' = "failed" /\ UNCHANGED <<view, startupTodo>>
             ELSE Startup!Restoring(read.positions)
          /\ startupSteady' = read.known
    BY <1>11 DEF Startup!Validate
  <2>2. UNCHANGED <<startupRows, startupAccount>>
    BY <1>11 DEF Startup!Validate
  <2>3. CASE Startup!Restoring(read.positions)
    BY <1>9, <2>1, <2>2, <2>3
  <2>4. CASE startupStage' = "failed" /\ UNCHANGED <<view, startupTodo>>
    <3>1. startupSteady' \subseteq Symbols
      BY <2>1 DEF Startup!Reads
    <3> QED BY <2>2, <2>4, <3>1
  <2> QED BY <2>1, <2>3, <2>4
<1>12. ASSUME NEW s \in Symbols, Startup!Restore(s) PROVE StartupInv'
  <2>1. startupRows' \in [Symbols -> Int] /\ startupRows'[s] = view[s]
        /\ \A r \in Symbols : r # s => startupRows'[r] = startupRows[r]
    BY <1>12 DEF Startup!Restore, Startup!Restored
  <2> QED BY <1>12, <2>1 DEF Startup!Restore
<1>13. CASE Startup!RestoreEnds
  BY <1>13 DEF Startup!RestoreEnds, Startup!Flat
<1>14. CASE Startup!Reconcile
  <2>1. Startup!Discrepancies = {} => \A s \in Symbols : startupRows[s] = startupAccount[s]
    BY DEF Startup!Discrepancies
  <2> QED BY <1>14, <2>1 DEF Startup!Reconcile
<1>15. CASE Startup!Heal
  <2>1. CASE startupRows'
               = [s \in Symbols |-> IF startupAccount[s] = 0 THEN 0 ELSE startupRows[s]]
             /\ startupSteady' = startupSteady
    <3>1. startupRows' \in [Symbols -> Int]
      BY <2>1
    <3>2. \A s \in startupSteady : startupRows'[s] = startupAccount[s]
      BY <1>15, <2>1 DEF Startup!Heal
    <3> QED BY <1>15, <2>1, <3>1, <3>2 DEF Startup!Heal
  <2>2. CASE startupRows' = startupRows /\ startupSteady' = {}
    BY <1>15, <2>2 DEF Startup!Heal
  <2> QED BY <1>15, <2>1, <2>2 DEF Startup!Heal
<1>16. CASE Startup!EnterLoop
  BY <1>16 DEF Startup!EnterLoop
<1> QED BY <1>1, <1>2, <1>3, <1>4, <1>5, <1>6, <1>7, <1>8, <1>10, <1>11, <1>12,
           <1>13, <1>14, <1>15, <1>16 DEF Startup!Next

(* When the start is over and no read failed, the rows are the broker's    *)
(* positions for every symbol the broker left alone meanwhile, however     *)
(* often the start is cut short (coordinator.py recover(), reconciler.py   *)
(* heal_startup()).                                                        *)
THEOREM Agreement == MCSpec => []StartupAgrees
<1>1. MCInit => StartupInv
  BY Begins, RecoveryInit
<1>2. StartupInv /\ [MCNext]_allVars => StartupInv'
  BY Moves, RecoveryStep
<1>3. StartupInv => StartupAgrees
  BY DEF StartupInv, StartupAgrees
<1> QED
  BY <1>1, <1>2, <1>3, PTL DEF MCSpec

-----------------------------------------------------------------------------
(* OrderTracker.  An order would count as completed while it is live if    *)
(* the tracker ever held more of it than the broker filled.  PollsAreTruth *)
(* bounds the tracker's count by what was polled, that by what was filled, *)
(* and carries the bound over the gap between the flag set under the lock  *)
(* and the call made after it (pending).                                   *)

TrackerTyped ==
  /\ trackingBroker \in [Orders -> [state : {"none", "live", "filled", "ended"}, filled : Nat]]
  /\ polled \in [Orders -> Nat]
  /\ Tracking!Tracked \subseteq Orders /\ completed \subseteq Orders

(* What the tracker has seen was accepted, and is tracked or completed.    *)
TrackerKnows ==
  /\ trackingKnown = Tracking!Tracked /\ Tracking!Tracked \cap completed = {}
  /\ \A o \in Tracking!Tracked \cup completed : trackingBroker[o].state # "none"

(* Without the websocket: an order counts no more than was polled of it,   *)
(* that is no more than the broker filled, and less than all while it is   *)
(* live; so only an order that is over is on its way to being completed.   *)
PollsAreTruth ==
  ~streaming =>
    /\ inbox = <<>> /\ flight \in [Tracking!Tracked -> Int]
    /\ \A o \in Orders :
         /\ polled[o] <= trackingBroker[o].filled
         /\ trackingBroker[o].state = "none" => trackingBroker[o].filled = 0
         /\ trackingBroker[o].state = "live"
              => trackingBroker[o].filled < Size /\ o \notin completed
    /\ \A o \in Tracking!Tracked : flight[o] <= polled[o]
    /\ \A who, o : <<who, o>> \in pending =>
         o \in Orders /\ trackingBroker[o].state \notin {"none", "live"}

TrackerInv == TrackerTyped /\ TrackerKnows /\ PollsAreTruth

LEMMA TrackerInit == Tracking!Init => TrackerInv
  BY OrdersAssumption
     DEF Tracking!Init, Tracking!Nowhere, TrackerInv, TrackerTyped, TrackerKnows, PollsAreTruth,
            Tracking!Tracked

LEMMA NoUpdates ==
  ASSUME NEW o, NEW what, NEW qty, Tracking!Notify(o, what, qty), ~streaming, inbox = <<>>
  PROVE  inbox' = <<>>
  BY DEF Tracking!Notify

(* What ends the tracking of an order.                                     *)
LEMMA Stops ==
  ASSUME TrackerInv, NEW o \in Orders, Tracking!StopTracking(o)
  PROVE  /\ Tracking!Tracked' = Tracking!Tracked \ {o} /\ trackingKnown' = Tracking!Tracked'
         /\ \A p \in Tracking!Tracked' : flight'[p] = flight[p]
         /\ ~streaming => flight' \in [Tracking!Tracked' -> Int]
         /\ completed' = IF o \in Tracking!Tracked THEN completed \cup {o} ELSE completed
  BY DEF Tracking!StopTracking, Tracking!Unmapped, Tracking!Tracked, TrackerInv, TrackerTyped,
        TrackerKnows, PollsAreTruth

LEMMA TrackerStep == TrackerInv /\ [Tracking!Next]_trackingVars => TrackerInv'
<1> SUFFICES ASSUME TrackerInv, [Tracking!Next]_trackingVars PROVE TrackerInv'
  OBVIOUS
<1> USE OrdersAssumption DEF TrackerInv
<1>1. CASE UNCHANGED trackingVars
  BY <1>1 DEF trackingVars, TrackerTyped, TrackerKnows, PollsAreTruth, Tracking!Tracked
<1>2. ASSUME NEW o \in Orders, Tracking!Accept(o) PROVE TrackerInv'
  <2>1. /\ trackingBroker[o].state = "none"
           /\ trackingBroker' = [trackingBroker EXCEPT ![o].state = "live"]
        /\ UNCHANGED <<streaming, polled, flight, completed, trackingKnown, pending>>
    BY <1>2 DEF Tracking!Accept
  <2>2. ~streaming => inbox' = <<>>
    BY <1>2, NoUpdates DEF Tracking!Accept, PollsAreTruth
  <2>3. /\ Tracking!Tracked' = Tracking!Tracked /\ o \notin Tracking!Tracked \cup completed
        /\ trackingBroker'[o].state = "live"
           /\ trackingBroker'[o].filled = trackingBroker[o].filled
        /\ \A p \in Orders : p # o => trackingBroker'[p] = trackingBroker[p]
    BY <2>1 DEF Tracking!Tracked, TrackerTyped, TrackerKnows
  <2>4. TrackerTyped'
    BY <2>1, <2>3 DEF TrackerTyped
  <2>5. TrackerKnows'
    BY <2>1, <2>3 DEF TrackerKnows, TrackerTyped
  <2>6. PollsAreTruth'
    BY <2>1, <2>2, <2>3 DEF PollsAreTruth, TrackerTyped
  <2> QED
    BY <2>4, <2>5, <2>6
<1>3. ASSUME NEW o \in Orders, Tracking!Fill(o) PROVE TrackerInv'
  BY <1>3, NoUpdates DEF Tracking!Fill, Tracking!Live, TrackerTyped, TrackerKnows,
        PollsAreTruth, Tracking!Tracked
<1>4. ASSUME NEW o \in Orders, Tracking!End(o) PROVE TrackerInv'
  BY <1>4, NoUpdates DEF Tracking!End, Tracking!Live, TrackerTyped, TrackerKnows, PollsAreTruth,
        Tracking!Tracked
<1>5. ASSUME NEW o \in Orders, Tracking!Submitted(o) PROVE TrackerInv'
  <2>1. /\ flight' = [t \in Tracking!Tracked \cup {o} |-> IF t = o THEN 0 ELSE flight[t]]
        /\ trackingKnown' = trackingKnown \cup {o} /\ trackingBroker[o].state # "none"
           /\ o \notin completed
        /\ UNCHANGED <<streaming, trackingBroker, inbox, polled, completed, pending>>
    BY <1>5 DEF Tracking!Submitted, Tracking!StartTracking
  <2>2. /\ Tracking!Tracked' = Tracking!Tracked \cup {o} /\ flight'[o] = 0
        /\ \A p \in Tracking!Tracked : p # o => flight'[p] = flight[p]
    BY <2>1 DEF Tracking!Tracked
  <2>3. ~streaming => flight' \in [Tracking!Tracked' -> Int]
    BY <2>1, <2>2 DEF Tracking!Tracked, PollsAreTruth
  <2>4. TrackerTyped' /\ TrackerKnows'
    BY <2>1, <2>2 DEF TrackerTyped, TrackerKnows
  <2>5. ~streaming => \A p \in Tracking!Tracked' : flight'[p] <= polled'[p]
    BY <2>1, <2>2 DEF PollsAreTruth, TrackerTyped
  <2> QED
    BY <2>1, <2>2, <2>3, <2>4, <2>5 DEF PollsAreTruth
<1>6. ASSUME NEW o \in Orders, Tracking!Poll(o) PROVE TrackerInv'
  <2>1. /\ polled' = [polled EXCEPT ![o] = trackingBroker[o].filled]
           /\ trackingBroker[o].filled > polled[o]
        /\ Tracking!ProcessFill(o, trackingBroker[o].filled - polled[o], "engine")
        /\ UNCHANGED <<streaming, trackingBroker, inbox, completed, trackingKnown>>
    BY <1>6 DEF Tracking!Poll
  <2>2. CASE o \in Tracking!Tracked
    <3>1. /\ flight' = [flight EXCEPT ![o] = @ + (trackingBroker[o].filled - polled[o])]
          /\ pending' = IF Tracking!IsDone(flight[o] + (trackingBroker[o].filled - polled[o]))
                        THEN pending \cup {<<"engine", o>>} ELSE pending
      BY <2>1, <2>2 DEF Tracking!ProcessFill
    <3>2. /\ Tracking!Tracked' = Tracking!Tracked
          /\ flight'[o] = flight[o] + (trackingBroker[o].filled - polled[o])
          /\ \A p \in Tracking!Tracked : p # o => flight'[p] = flight[p]
      BY <2>2, <3>1 DEF Tracking!Tracked
    <3>3. ~streaming
            => flight' \in [Tracking!Tracked -> Int] /\ flight'[o] <= trackingBroker[o].filled
      BY <2>2, <3>1, <3>2 DEF PollsAreTruth, TrackerTyped
    <3> QED
      BY <2>1, <2>2, <3>1, <3>2, <3>3 DEF TrackerTyped, TrackerKnows, PollsAreTruth,
            Tracking!IsDone
  <2>3. CASE o \notin Tracking!Tracked
    BY <2>1, <2>3 DEF Tracking!ProcessFill, TrackerTyped, TrackerKnows, PollsAreTruth,
          Tracking!Tracked
  <2> QED
    BY <2>2, <2>3
<1>7. ASSUME NEW o \in Orders, Tracking!Cancel(o) PROVE TrackerInv'
  <2>1. /\ trackingBroker' = [trackingBroker EXCEPT ![o].state = "ended"]
        /\ ~streaming => inbox' = <<>>
        /\ Tracking!StopTracking(o) /\ UNCHANGED <<streaming, polled, pending>>
    BY <1>7, NoUpdates DEF Tracking!Cancel, PollsAreTruth
  <2>2. /\ trackingBroker'[o].state = "ended"
           /\ trackingBroker'[o].filled = trackingBroker[o].filled
        /\ \A p \in Orders : p # o => trackingBroker'[p] = trackingBroker[p]
        /\ trackingBroker'
             \in [Orders -> [state : {"none", "live", "filled", "ended"}, filled : Nat]]
    BY <2>1 DEF TrackerTyped
  <2>3. TrackerTyped' /\ TrackerKnows'
    BY <2>1, <2>2, Stops DEF TrackerTyped, TrackerKnows
  <2>4. trackingBroker[o].state = "live"
    BY <1>7 DEF Tracking!Cancel, Tracking!Live
  <2>5. PollsAreTruth'
    <3>1. SUFFICES ASSUME ~streaming
                   PROVE  PollsAreTruth'
      BY <2>1 DEF PollsAreTruth
    <3>2. /\ Tracking!Tracked' = Tracking!Tracked \ {o} /\ flight' \in [Tracking!Tracked' -> Int]
          /\ \A p \in Tracking!Tracked' : flight'[p] = flight[p]
          /\ completed' \subseteq completed \cup {o}
      BY <2>1, <3>1, Stops
    <3>3. \A p \in Tracking!Tracked' : flight'[p] <= polled'[p]
      BY <2>1, <3>1, <3>2 DEF PollsAreTruth
    <3>4. \A p \in Orders :
            /\ polled'[p] <= trackingBroker'[p].filled
            /\ trackingBroker'[p].state = "none" => trackingBroker'[p].filled = 0
            /\ trackingBroker'[p].state = "live"
                 => trackingBroker'[p].filled < Size /\ p \notin completed'
      BY <2>1, <2>2, <2>4, <3>1, <3>2 DEF PollsAreTruth
    <3>5. \A by, p : <<by, p>> \in pending' =>
            p \in Orders /\ trackingBroker'[p].state \notin {"none", "live"}
      BY <2>1, <2>2, <3>1 DEF PollsAreTruth
    <3> QED
      BY <2>1, <3>1, <3>2, <3>3, <3>4, <3>5 DEF PollsAreTruth
  <2> QED
    BY <2>3, <2>5
<1>8. ASSUME NEW o \in Orders, NEW who \in {"engine", "stream"}, Tracking!Stop(who, o)
      PROVE TrackerInv'
  <2>1. /\ <<who, o>> \in pending /\ pending' = pending \ {<<who, o>>}
        /\ Tracking!StopTracking(o) /\ UNCHANGED <<streaming, trackingBroker, inbox, polled>>
    BY <1>8 DEF Tracking!Stop
  <2> QED
    BY <2>1, Stops DEF TrackerTyped, TrackerKnows, PollsAreTruth
<1>9. CASE Tracking!Receive
  <2>1. inbox # <<>> /\ UNCHANGED <<streaming, trackingBroker, polled, completed>>
    BY <1>9 DEF Tracking!Receive
  <2>2. streaming
    BY <2>1 DEF PollsAreTruth
  <2>3. PICK u : u = Head(inbox)
    OBVIOUS
  <2>4. CASE UNCHANGED <<flight, pending>> /\ Tracking!ProcessUpdate(u.order)
    BY <2>1, <2>2, <2>4 DEF Tracking!ProcessUpdate, TrackerTyped, TrackerKnows, PollsAreTruth,
          Tracking!Tracked
  <2>5. CASE Tracking!ProcessFill(u.order, u.qty, "stream") /\ UNCHANGED trackingKnown
    BY <2>1, <2>2, <2>5 DEF Tracking!ProcessFill, TrackerTyped, TrackerKnows, PollsAreTruth,
          Tracking!Tracked
  <2> QED
    BY <1>9, <2>3, <2>4, <2>5 DEF Tracking!Receive
<1> QED
  BY <1>1, <1>2, <1>3, <1>4, <1>5, <1>6, <1>7, <1>8, <1>9 DEF Tracking!Next

LEMMA TrackedAreLive == TrackerInv => Tracking!LiveOrdersAreTracked
  BY DEF TrackerInv, TrackerTyped, TrackerKnows, PollsAreTruth, Tracking!LiveOrdersAreTracked,
        Tracking!Orphans, Tracking!Live

(* Without the websocket no live order is taken for a finished one, for    *)
(* any number of orders of any size; and whoever ends its tracking, an     *)
(* order's exchange id is known while it is in flight and no longer.       *)
THEOREM Tracked == MCSpec => []LiveOrdersAreTracked
<1>1. MCInit => TrackerInv
  BY Begins, TrackerInit
<1>2. TrackerInv /\ [MCNext]_allVars => TrackerInv'
  BY Moves, TrackerStep
<1>3. TrackerInv => LiveOrdersAreTracked
  BY TrackedAreLive DEF LiveOrdersAreTracked
<1> QED
  BY <1>1, <1>2, <1>3, PTL DEF MCSpec

-----------------------------------------------------------------------------
(* UserStream.  The tracker is quiet because stop() cancels the one task   *)
(* that is alive: OneReader says that it is the last start()'s, that it is *)
(* the one _receive_task holds, and that no start() is still on its way to *)
(* make another.                                                           *)

StreamTyped ==
  /\ starter \in [Stream!Starts -> Stream!Connecting \cup {"none", "done"}]
  /\ reader
       \in [Stream!Starts -> Stream!Connecting \cup {"none", "loop", "recv", "closed", "ended"}]
  /\ starts \in 0..MaxStarts /\ streamRunning \in BOOLEAN /\ overlapped \in BOOLEAN

(* Only the last start() may still connect, only its reader may be alive,  *)
(* never both, and that reader is the one stop() will cancel.              *)
OneReader ==
  /\ \A i \in Stream!Starts : i # starts
     => starter[i] \notin Stream!Connecting /\ ~Stream!Alive(i)
  /\ streamRunning =>
       /\ stopper = "none" /\ starts \in Stream!Starts
       /\ IF starter[starts] \in Stream!Connecting THEN ~Stream!Alive(starts) ELSE task = starts

(* Once stop() cancelled it, nothing runs, and the socket goes with the    *)
(* stop().                                                                 *)
QuietWhenStopped ==
  ~streamRunning =>
    /\ \A i \in Stream!Starts : starter[i] \notin Stream!Connecting /\ ~Stream!Alive(i)
    /\ stopper = "none" => ws = 0

StreamInv == StreamTyped /\ (~overlapped => OneReader /\ QuietWhenStopped)

LEMMA StreamInit == Stream!Init => StreamInv
<1> SUFFICES ASSUME Stream!Init PROVE StreamInv
  OBVIOUS
<1>1. /\ streamRunning = FALSE /\ ws = 0 /\ starts = 0 /\ overlapped = FALSE
      /\ starter = [i \in Stream!Starts |-> "none"] /\ reader = [i \in Stream!Starts |-> "none"]
  BY DEF Stream!Init
<1>2. StreamTyped
  <2>1. streamRunning \in BOOLEAN /\ overlapped \in BOOLEAN
    BY <1>1, Zenon
  <2>2. starts \in 0..MaxStarts
    BY <1>1, StreamAssumption
  <2>3. /\ starter \in [Stream!Starts -> Stream!Connecting \cup {"none", "done"}]
        /\ reader
             \in [Stream!Starts -> Stream!Connecting
               \cup {"none", "loop", "recv", "closed", "ended"}]
    BY <1>1
  <2> QED
    BY <2>1, <2>2, <2>3 DEF StreamTyped
<1>3. OneReader /\ QuietWhenStopped
  BY <1>1 DEF OneReader, QuietWhenStopped, Stream!Connecting, Stream!Alive
<1> QED
  BY <1>2, <1>3 DEF StreamInv

(* _connect() takes its steps for one that is connecting, and while the    *)
(* tracker is running it comes back authenticated only.                    *)
LEMMA Connects ==
  ASSUME NEW from, NEW to, Stream!ConnectStep(from, to)
  PROVE  from \in Stream!Connecting /\ to \in Stream!Connecting \cup {"return"}
  BY DEF Stream!ConnectStep, Stream!OpenSocket, Stream!Subscribed, Stream!Fails,
        Stream!PauseEnds, Stream!Connecting

LEMMA StreamStep == StreamInv /\ [Stream!Next]_streamVars => StreamInv'
<1> SUFFICES ASSUME StreamInv, [Stream!Next]_streamVars PROVE StreamInv'
  OBVIOUS
<1> USE StreamAssumption DEF StreamInv, Stream!Alive, Stream!Starts
<1>1. CASE UNCHANGED streamVars
  BY <1>1 DEF streamVars, StreamTyped, OneReader, QuietWhenStopped
<1>2. CASE Stream!Start
  <2>1. StreamTyped'
    BY <1>2 DEF Stream!Start, StreamTyped, Stream!Connecting
  <2>2. ~overlapped' => OneReader' /\ QuietWhenStopped'
    <3>1. SUFFICES ASSUME ~overlapped' PROVE OneReader' /\ QuietWhenStopped'
      OBVIOUS
    <3>2. ~overlapped /\ stopper = "none"
          /\ \A i \in Stream!Starts : starter[i] \notin Stream!Connecting
      BY <1>2, <3>1 DEF Stream!Start, Stream!Starting, StreamTyped
    <3>3. ~streamRunning /\ ws = 0 /\ \A i \in Stream!Starts : ~Stream!Alive(i)
      BY <1>2, <3>2 DEF Stream!Start, QuietWhenStopped
    <3>4. /\ streamRunning' = TRUE /\ starts' \in Stream!Starts /\ stopper' = "none"
          /\ starter'[starts'] = "connect"
          /\ \A i \in Stream!Starts : i # starts' => starter'[i] = starter[i]
          /\ \A i \in Stream!Starts : reader'[i] = reader[i]
      BY <1>2, <3>2 DEF Stream!Start, StreamTyped
    <3> QED
      BY <3>2, <3>3, <3>4 DEF OneReader, QuietWhenStopped, Stream!Connecting
  <2> QED
    BY <2>1, <2>2
<1>3. CASE Stream!Stop
  BY <1>3 DEF Stream!Stop, Stream!ToCancel, Stream!Starting, StreamTyped, OneReader,
        QuietWhenStopped, Stream!Connecting
<1>4. CASE Stream!StopCloses
  BY <1>4 DEF Stream!StopCloses, StreamTyped, OneReader, QuietWhenStopped, Stream!Connecting
<1>5. CASE Stream!StopEnds
  BY <1>5 DEF Stream!StopEnds, StreamTyped, OneReader, QuietWhenStopped, Stream!Connecting
<1>6. ASSUME NEW i \in Stream!Starts, Stream!StarterSteps(i) PROVE StreamInv'
  <2>1. PICK to \in Stream!Connecting \cup {"return"} :
          /\ Stream!ConnectStep(starter[i], to)
          /\ IF to = "return"
             THEN /\ starter' = [starter EXCEPT ![i] = "done"]
                  /\ reader' = [reader EXCEPT ![i] = "loop"] /\ task' = i
             ELSE starter' = [starter EXCEPT ![i] = to] /\ UNCHANGED <<reader, task>>
    BY <1>6 DEF Stream!StarterSteps
  <2>2. UNCHANGED <<streamRunning, stopper, starts, overlapped>>
    BY <1>6 DEF Stream!StarterSteps
  <2>3. starter[i] \in Stream!Connecting
    BY <2>1, Connects
  <2>4. StreamTyped'
    BY <2>1, <2>2 DEF StreamTyped, Stream!Connecting
  <2>5. ASSUME ~overlapped PROVE i = starts /\ streamRunning
    <3>1. OneReader /\ QuietWhenStopped
      BY <2>5
    <3> QED
      BY <2>3, <3>1 DEF OneReader, QuietWhenStopped
  <2>6. ASSUME ~overlapped' PROVE OneReader' /\ QuietWhenStopped'
    <3>1. /\ i = starts /\ streamRunning /\ OneReader /\ i \in Stream!Starts
      BY <2>2, <2>5, <2>6
    <3>2. \A j \in Stream!Starts : j # i => starter'[j] = starter[j] /\ reader'[j] = reader[j]
      BY <2>1 DEF StreamTyped
    <3>3. CASE to = "return"
      <4>1. starter'[i] = "done" /\ task' = i
        BY <2>1, <3>3 DEF StreamTyped
      <4> QED
        BY <2>2, <3>1, <3>2, <4>1 DEF OneReader, QuietWhenStopped, Stream!Connecting
    <3>4. CASE to # "return"
      <4>1. starter'[i] = to /\ to \in Stream!Connecting /\ UNCHANGED <<reader, task>>
        BY <2>1, <3>4 DEF StreamTyped
      <4> QED
        BY <2>2, <2>3, <3>1, <3>2, <4>1 DEF OneReader, QuietWhenStopped
    <3> QED
      BY <3>3, <3>4
  <2> QED
    BY <2>4, <2>6
<1>7. ASSUME NEW i \in Stream!Starts, Stream!Alive(i), Stream!Alive(i)',
             reader'
               \in [Stream!Starts -> Stream!Connecting
                 \cup {"none", "loop", "recv", "closed", "ended"}],
             \A j \in Stream!Starts : j # i => reader'[j] = reader[j],
             UNCHANGED <<streamRunning, starter, task, stopper, starts, overlapped>>
      PROVE  StreamInv'
  BY <1>7 DEF StreamTyped, OneReader, QuietWhenStopped
<1>8. ASSUME NEW i \in Stream!Starts, ~Stream!Alive(i)', reader' = [reader EXCEPT ![i] = "ended"],
             UNCHANGED <<streamRunning, ws, starter, task, stopper, starts, overlapped>>
      PROVE  StreamInv'
  <2>1. StreamTyped'
    BY <1>8 DEF StreamTyped, Stream!Connecting
  <2>2. \A j \in Stream!Starts : Stream!Alive(j)' => Stream!Alive(j)
    BY <1>8 DEF StreamTyped
  <2>3. ~overlapped => OneReader' /\ QuietWhenStopped'
    BY <1>8, <2>2 DEF OneReader, QuietWhenStopped
  <2> QED
    BY <1>8, <2>1, <2>3
<1>9. ASSUME NEW i \in Stream!Starts, Stream!ReaderLoops(i) PROVE StreamInv'
  BY <1>7, <1>8, <1>9 DEF Stream!ReaderLoops, StreamTyped, Stream!Connecting
<1>10. ASSUME NEW i \in Stream!Starts, Stream!ReaderReceives(i) PROVE StreamInv'
  <2>1. PICK s \in {"loop", "closed", "ended"} : reader' = [reader EXCEPT ![i] = s]
    BY <1>10 DEF Stream!ReaderReceives
  <2>2. reader[i] = "recv"
        /\ UNCHANGED <<streamRunning, ws, starter, task, stopper, starts, overlapped>>
    BY <1>10 DEF Stream!ReaderReceives
  <2>3. reader'[i] = s
        /\ reader'
             \in [Stream!Starts -> Stream!Connecting
               \cup {"none", "loop", "recv", "closed", "ended"}]
    BY <2>1 DEF StreamTyped
  <2>4. CASE s = "ended"
    BY <1>8, <2>1, <2>2, <2>3, <2>4
  <2>5. CASE s # "ended"
    BY <1>7, <2>1, <2>2, <2>3, <2>5
  <2> QED
    BY <2>4, <2>5
<1>11. ASSUME NEW i \in Stream!Starts, Stream!ReaderReconnects(i) PROVE StreamInv'
  BY <1>7, <1>11 DEF Stream!ReaderReconnects, StreamTyped, Stream!Connecting
<1>12. ASSUME NEW i \in Stream!Starts, Stream!ReaderConnects(i) PROVE StreamInv'
  <2>1. PICK to \in Stream!Connecting \cup {"return"} :
          /\ Stream!ConnectStep(reader[i], to)
          /\ reader' = [reader EXCEPT ![i] = IF to = "return" THEN "loop" ELSE to]
    BY <1>12 DEF Stream!ReaderConnects
  <2>2. reader[i] \in Stream!Connecting
    BY <2>1, Connects
  <2>3. UNCHANGED <<streamRunning, starter, task, stopper, starts, overlapped>>
    BY <1>12 DEF Stream!ReaderConnects
  <2> QED
    BY <1>7, <2>1, <2>2, <2>3 DEF StreamTyped, Stream!Connecting
<1> QED
  BY <1>1, <1>2, <1>3, <1>4, <1>5, <1>6, <1>9, <1>10, <1>11, <1>12 DEF Stream!Next

LEMMA StreamIsQuiet == StreamInv => Stream!QuietAfterStop
<1> SUFFICES ASSUME StreamInv, ~overlapped PROVE Stream!QuietAfterStop
  BY DEF Stream!QuietAfterStop
<1> DEFINE L == {i \in Stream!Starts : Stream!Alive(i)}
<1>1. L \subseteq {starts}
  BY DEF StreamInv, OneReader
<1>2. Cardinality(L) <= Cardinality({starts}) /\ Cardinality({starts}) = 1
  BY <1>1, FS_Singleton, FS_Subset
<1>3. Cardinality(L) \in Nat
  BY <1>1, FS_Singleton, FS_Subset, FS_CardinalityType
<1>4. Cardinality(L) <= 1
  BY <1>2, <1>3
<1>5. ~streamRunning /\ stopper = "none" => ws = 0 /\ \A i \in Stream!Starts : ~Stream!Alive(i)
  BY DEF StreamInv, QuietWhenStopped
<1>6. Stream!Cardinality(L) = Cardinality(L)
  BY DEF Stream!Cardinality, Cardinality
<1> QED
  BY <1>4, <1>5, <1>6 DEF Stream!QuietAfterStop

(* As long as no stop() met a start() that was still connecting, there is  *)
(* at most one reader, and a stopped tracker has none and no socket, for   *)
(* any number of starts, sockets and failures.                             *)
THEOREM Quiet == MCSpec => []QuietAfterStop
<1>1. MCInit => StreamInv
  BY Begins, StreamInit
<1>2. StreamInv /\ [MCNext]_allVars => StreamInv'
  BY Moves, StreamStep
<1>3. StreamInv => QuietAfterStop
  BY StreamIsQuiet DEF QuietAfterStop
<1> QED
  BY <1>1, <1>2, <1>3, PTL DEF MCSpec

-----------------------------------------------------------------------------
(* MarketData.  How old a served bar may be is the sum of two bounds       *)
(* looked at in different places: CachedWasFresh is what the first look    *)
(* leaves behind for the second.                                           *)

BarsTyped ==
  /\ barsClock \in Nat /\ barsCachedAt \in Int
  /\ barsCache \subseteq 0..barsClock /\ frame \subseteq 0..barsClock
  /\ barsStage \in {"fetch", "judge"} => barsAsked \in Nat \ {0}
  /\ barsStage = "judge" => frame # Bars!None

(* The cached bars were fresh when they were cached.                       *)
CachedWasFresh ==
  barsCache # Bars!None
    => barsCachedAt <= barsClock /\ (~paper => barsCachedAt - Bars!Last(barsCache) <= MaxStale)

BarsInv == BarsTyped /\ CachedWasFresh /\ Bars!ServedWithinBound

LEMMA Counts == Bars!Cardinality({}) = 0 /\ \A x : Bars!Cardinality({x}) = 1
<1>1. \A S : Bars!Cardinality(S) = Cardinality(S)
  BY DEF Bars!Cardinality, Cardinality
<1> QED
  BY <1>1, FS_EmptySet, FS_Singleton

(* A bounded set of numbers has a greatest one: the naturals are well      *)
(* ordered.                                                                *)
LEMMA HasGreatest ==
  ASSUME NEW n \in Nat, NEW S, S \subseteq 0..n, S # {}
  PROVE  \E m \in S : \A x \in S : m >= x
<1>0. ASSUME NEW x \in S PROVE x \in Int /\ n - x \in Nat
  <2>1. x \in 0..n
    OBVIOUS
  <2> QED
    BY <2>1
<1> DEFINE below == {n - x : x \in S}
<1>1. below # {} /\ \A a \in below : a \in Nat
  <2>1. PICK x \in S : TRUE
    OBVIOUS
  <2>2. n - x \in below
    OBVIOUS
  <2> QED
    BY <1>0, <2>2
<1>2. below \subseteq Nat
  BY <1>1
<1>3. \E a \in below : \A x \in below : <<x, a>> \notin OpToRel(<, Nat)
  <2> HIDE DEF below
  <2> QED
    BY <1>1, <1>2, NatLessThanWellFounded, WFMin
<1>4. PICK a \in below : \A x \in below : ~(x < a)
  BY <1>1, <1>3 DEF OpToRel
<1>5. PICK m \in S : a = n - m
  OBVIOUS
<1>6. ASSUME NEW x \in S PROVE m >= x
  <2>1. n - x \in below
    OBVIOUS
  <2>2. ~(n - x < n - m)
    BY <1>4, <1>5, <2>1
  <2>3. x \in Int /\ m \in Int
    BY <1>0
  <2> QED
    BY <2>2, <2>3
<1> QED
  BY <1>6

(* So bars have a last one.                                                *)
LEMMA LastIsLast ==
  ASSUME NEW c \in Nat, NEW bars, bars \subseteq 0..c, bars # {}
  PROVE  Bars!Last(bars) \in bars /\ Bars!Last(bars) \in Int
         /\ \A b \in bars : b <= Bars!Last(bars)
<1>0. ASSUME NEW b \in bars PROVE b \in Int
  <2>1. b \in 0..c
    OBVIOUS
  <2> QED
    BY <2>1
<1>1. \E m \in bars : \A b \in bars : m >= b
  BY HasGreatest, Zenon
<1>2. Bars!Last(bars) \in bars /\ \A b \in bars : Bars!Last(bars) >= b
  BY <1>1, Zenon DEF Bars!Last, Bars!Max
<1>3. Bars!Last(bars) \in Int
  BY <1>0, <1>2, Zenon
<1>4. ASSUME NEW b \in bars PROVE b <= Bars!Last(bars)
  BY <1>0, <1>2, <1>3
<1> QED
  BY <1>2, <1>3, <1>4, Zenon

(* The latest bars end where all of them do.                               *)
LEMMA LatestEnds ==
  ASSUME NEW c \in Nat, NEW bars, bars \subseteq 0..c, bars # {}, NEW n \in Nat \ {0}
  PROVE  Bars!Latest(bars, n) \subseteq bars /\ Bars!Last(Bars!Latest(bars, n)) = Bars!Last(bars)
<1>1. Bars!Last(bars) \in bars /\ Bars!Last(bars) \in Int /\ \A b \in bars : b <= Bars!Last(bars)
  BY LastIsLast, Zenon
<1>2. {b \in bars : b > Bars!Last(bars)} = {}
  <2>1. ASSUME NEW b \in bars PROVE ~(b > Bars!Last(bars))
    BY <1>1
  <2> QED
    BY <2>1, Zenon
<1>3. Bars!Latest(bars, n) \subseteq bars /\ Bars!Last(bars) \in Bars!Latest(bars, n)
  BY <1>1, <1>2, Counts DEF Bars!Latest
<1> DEFINE latest == Bars!Latest(bars, n)
<1>4. latest \subseteq 0..c /\ latest # {}
  BY <1>3
<1>5. Bars!Last(latest) \in latest /\ Bars!Last(latest) \in Int
      /\ \A b \in latest : b <= Bars!Last(latest)
  <2> HIDE DEF latest
  <2> QED
    BY <1>4, LastIsLast, Zenon
<1> QED
  BY <1>1, <1>3, <1>5

LEMMA DropLeaves ==
  ASSUME NEW c \in Nat, NEW bars, bars \subseteq 0..c, bars # {}
  PROVE  Bars!Dropped(bars) \subseteq bars /\ Bars!Dropped(bars) # {}
<1>1. Bars!Last(bars) \in bars
  BY LastIsLast, Zenon
<1>2. bars = {Bars!Last(bars)} => ~(Bars!Cardinality(bars) > 1)
  <2>1. Bars!Cardinality({Bars!Last(bars)}) = 1
    BY Counts, Zenon
  <2> QED
    BY <2>1
<1> QED
  BY <1>1, <1>2 DEF Bars!Dropped

LEMMA BarsInit == Bars!Init => BarsInv
  BY DEF Bars!Init, BarsInv, BarsTyped, CachedWasFresh, Bars!ServedWithinBound, Bars!None

LEMMA BarsStep == BarsInv /\ [Bars!Next]_barsVars => BarsInv'
<1> SUFFICES ASSUME BarsInv, [Bars!Next]_barsVars PROVE BarsInv'
  OBVIOUS
<1> USE BarsAssumption
<1>0. BarsTyped /\ CachedWasFresh /\ Bars!ServedWithinBound /\ barsClock \in Nat
  BY DEF BarsInv, BarsTyped
<1>1. CASE UNCHANGED barsVars
  BY <1>0, <1>1 DEF barsVars, BarsInv, BarsTyped, CachedWasFresh, Bars!ServedWithinBound
<1>2. CASE Bars!Tick
  BY <1>0, <1>2 DEF Bars!Tick, BarsInv, BarsTyped, CachedWasFresh, Bars!ServedWithinBound
<1>3. ASSUME UNCHANGED <<barsClock, paper, barsCache, barsCachedAt>>, BarsTyped',
             barsStage' # "served"
      PROVE  BarsInv'
  BY <1>0, <1>3 DEF BarsInv, CachedWasFresh, Bars!ServedWithinBound
<1>4. CASE Bars!FetchFails
  <2>1. BarsTyped' /\ barsStage' # "served"
    BY <1>0, <1>4 DEF Bars!FetchFails, Bars!NextProvider, BarsTyped
  <2> QED
    BY <1>3, <1>4, <2>1 DEF Bars!FetchFails
<1>5. CASE Bars!Judge
  <2> DEFINE bars == Bars!Dropped(frame)
  <2>0. frame \subseteq 0..barsClock /\ frame # {} /\ barsAsked \in Nat \ {0}
    BY <1>0, <1>5 DEF Bars!Judge, BarsTyped, Bars!None
  <2>1. bars \subseteq 0..barsClock /\ bars # {}
    BY <1>0, <2>0, DropLeaves
  <2>4. Bars!Last(bars) \in Int
    BY <1>0, <2>1, LastIsLast
  <2> HIDE DEF bars
  <2>2. CASE Bars!Good(bars)
    <3>1. /\ barsCache' = (IF BarsTtl > 0 THEN bars ELSE Bars!None) /\ barsCachedAt' = barsClock
          /\ frame' = Bars!Latest(bars, barsAsked) /\ barsStage' = "served"
          /\ UNCHANGED <<barsClock, paper, barsAsked>>
      BY <1>5, <2>2 DEF Bars!Judge, bars
    <3>2. Bars!Latest(bars, barsAsked) \subseteq bars
          /\ Bars!Last(Bars!Latest(bars, barsAsked)) = Bars!Last(bars)
      BY <1>0, <2>0, <2>1, LatestEnds
    <3>3. ~paper => barsClock - Bars!Last(bars) <= MaxStale
      BY <1>0, <2>2, <2>4 DEF Bars!Good, Bars!IsStale
    <3>7. barsCache' \subseteq 0..barsClock /\ frame' \subseteq 0..barsClock
      BY <2>1, <3>1, <3>2 DEF Bars!None
    <3>4. BarsTyped'
      BY <1>0, <3>1, <3>7 DEF BarsTyped
    <3>5. CachedWasFresh'
      BY <1>0, <2>4, <3>1, <3>3 DEF CachedWasFresh
    <3>6. Bars!ServedWithinBound'
      BY <1>0, <2>4, <3>1, <3>2, <3>3 DEF Bars!ServedWithinBound
    <3> QED
      BY <3>4, <3>5, <3>6 DEF BarsInv
  <2>3. CASE ~Bars!Good(bars)
    <3>1. /\ Bars!NextProvider /\ frame' = Bars!None
          /\ UNCHANGED <<barsClock, paper, barsCache, barsCachedAt, barsAsked>>
      BY <1>5, <2>3 DEF Bars!Judge, bars
    <3>2. BarsTyped' /\ barsStage' # "served"
      BY <1>0, <2>0, <3>1 DEF Bars!NextProvider, BarsTyped, Bars!None
    <3> QED
      BY <1>3, <3>1, <3>2
  <2> QED
    BY <2>2, <2>3
<1>6. CASE Bars!Use
  <2>1. BarsTyped' /\ barsStage' # "served"
    BY <1>0, <1>6 DEF Bars!Use, Bars!Closed, BarsTyped, Bars!None
  <2> QED
    BY <1>3, <1>6, <2>1 DEF Bars!Use
<1>7. CASE Bars!Done
  <2>1. BarsTyped' /\ barsStage' # "served"
    BY <1>0, <1>7 DEF Bars!Done, BarsTyped, Bars!None
  <2> QED
    BY <1>3, <1>7, <2>1 DEF Bars!Done
<1>8. ASSUME NEW n \in Lookback, Bars!ServeCached(n) PROVE BarsInv'
  <2>1. /\ frame' = Bars!Latest(barsCache, n) /\ barsStage' = "served" /\ barsCache # {}
        /\ UNCHANGED <<barsClock, paper, barsCache, barsCachedAt>>
           /\ barsClock - barsCachedAt <= BarsTtl
    BY <1>0, <1>8 DEF Bars!ServeCached, Bars!Expired, Bars!None, BarsTyped
  <2>2. barsCache \subseteq 0..barsClock /\ barsCachedAt \in Int
    BY <1>0 DEF BarsTyped
  <2>3. Bars!Latest(barsCache, n) \subseteq barsCache
        /\ Bars!Last(Bars!Latest(barsCache, n)) = Bars!Last(barsCache)
    BY <1>0, <2>1, <2>2, BarsAssumption, LatestEnds
  <2>4. Bars!Last(barsCache) \in Int
    BY <1>0, <2>1, <2>2, LastIsLast, Zenon
  <2>5. ~paper => barsCachedAt - Bars!Last(barsCache) <= MaxStale
    BY <1>0, <2>1 DEF CachedWasFresh, Bars!None
  <2>6. BarsTyped'
    BY <1>0, <2>1, <2>2, <2>3 DEF BarsTyped
  <2>7. CachedWasFresh'
    BY <1>0, <2>1 DEF CachedWasFresh
  <2>8. Bars!ServedWithinBound'
    BY <1>0, <2>1, <2>2, <2>3, <2>4, <2>5 DEF Bars!ServedWithinBound
  <2> QED
    BY <2>6, <2>7, <2>8 DEF BarsInv
<1>9. ASSUME NEW n \in Lookback, Bars!AskFirst(n) PROVE BarsInv'
  BY <1>0, <1>9 DEF Bars!AskFirst, BarsInv, BarsTyped, CachedWasFresh, Bars!ServedWithinBound,
        Bars!None
<1>10. ASSUME NEW bars \in SUBSET Bars!Bars, Bars!FetchReturns(bars) PROVE BarsInv'
  <2>1. BarsTyped' /\ barsStage' # "served"
    BY <1>0, <1>10 DEF Bars!FetchReturns, Bars!Bars, BarsTyped, Bars!None
  <2> QED
    BY <1>3, <1>10, <2>1 DEF Bars!FetchReturns
<1> QED
  BY <1>1, <1>2, <1>4, <1>5, <1>6, <1>7, <1>8, <1>9, <1>10 DEF Bars!Next

(* Where stale bars are not allowed, the last bar handed out is no older   *)
(* than the staleness limit and the life of a cache entry together,        *)
(* whatever the two are and however long a frame was on its way.           *)
THEOREM Served == MCSpec => []ServedWithinBound
<1>1. MCInit => BarsInv
  BY Begins, BarsInit
<1>2. BarsInv /\ [MCNext]_allVars => BarsInv'
  BY Moves, BarsStep
<1>3. BarsInv => ServedWithinBound
  BY DEF BarsInv, ServedWithinBound
<1> QED
  BY <1>1, <1>2, <1>3, PTL DEF MCSpec

-----------------------------------------------------------------------------
(* TrailingStops.  The state holds no history, the property speaks of      *)
(* nothing else: TrailingFollowed says what the extreme and the flag have  *)
(* kept of it.                                                             *)

Side == {"LONG", "SHORT"}

TrailingTyped ==
  /\ trailingSeen \in Seq(TrailPrices)
  /\ \/ stop = Trailing!NoStop /\ trailingSeen = <<>>
     \/ stop
          \in [side : Side, entry : TrailPrices, active : BOOLEAN, extreme :
            TrailPrices, stopPrice : Int]

(* The extreme is one of the prices seen, and none of them is better.      *)
ExtremeIsBest ==
  /\ \E i \in DOMAIN trailingSeen : trailingSeen[i] = stop.extreme
  /\ \A i \in DOMAIN trailingSeen : ~Trailing!Better(stop.side, trailingSeen[i], stop.extreme)

(* The stop is active when one price after the entry earned it.            *)
ActiveIsEarned ==
  stop.active <=> \E i \in 2..Len(trailingSeen) :
                    100 * Trailing!Gain(stop.side, stop.entry,
                      trailingSeen[i]) >= Activation * stop.entry

(* What the last check compared is the stop of the extreme and the price.  *)
CheckIsOfLast ==
  Len(trailingSeen) > 1 =>
    (check = "TRIGGERED" <=>
       stop.active
       /\ Trailing!Crossed(stop.side, trailingSeen[Len(trailingSeen)],
            Trailing!StopPrice(stop.side, stop.extreme)))

TrailingFollowed ==
  /\ Len(trailingSeen) >= 1 /\ trailingSeen[1] = stop.entry
  /\ ExtremeIsBest /\ ActiveIsEarned /\ CheckIsOfLast

TrailingInv == TrailingTyped /\ (stop # Trailing!NoStop => TrailingFollowed)

-----------------------------------------------------------------------------
LEMMA TrailingInit == Trailing!Init => TrailingInv
  BY DEF Trailing!Init, TrailingInv, TrailingTyped

LEMMA TrailingStep == TrailingInv /\ [Trailing!Next]_trailingVars => TrailingInv'
<1> SUFFICES ASSUME TrailingInv, [Trailing!Next]_trailingVars PROVE TrailingInv'
  OBVIOUS
<1> USE TrailingAssumption
<1>1. CASE UNCHANGED trailingVars
  BY <1>1 DEF trailingVars, TrailingInv, TrailingTyped, TrailingFollowed, ExtremeIsBest,
        ActiveIsEarned,
           CheckIsOfLast
<1>2. ASSUME NEW s \in Side, NEW price \in TrailPrices, Trailing!AddPosition(s, price)
      PROVE TrailingInv'
  <2>1. /\ stop'
             = [side |-> s, entry |-> price, active |-> FALSE, extreme |-> price, stopPrice |-> 0]
        /\ trailingSeen' = <<price>>
    BY <1>2 DEF Trailing!AddPosition
  <2>2. TrailingTyped'
    BY <2>1 DEF TrailingTyped
  <2>3. Len(trailingSeen') = 1 /\ DOMAIN trailingSeen' = {1} /\ trailingSeen'[1] = price
        /\ price \in Int
    BY <2>1
  <2>4. stop'.side = s /\ stop'.entry = price /\ stop'.active = FALSE /\ stop'.extreme = price
    BY <2>1
  <2>5. ExtremeIsBest'
    BY <2>3, <2>4 DEF ExtremeIsBest, Trailing!Better
  <2>6. ActiveIsEarned'
    BY <2>3, <2>4 DEF ActiveIsEarned
  <2>7. CheckIsOfLast'
    BY <2>3 DEF CheckIsOfLast
  <2> QED
    BY <2>2, <2>3, <2>4, <2>5, <2>6, <2>7 DEF TrailingInv, TrailingFollowed
<1>3. CASE Trailing!RemovePosition
  BY <1>3 DEF Trailing!RemovePosition, TrailingInv, TrailingTyped
<1>4. ASSUME NEW price \in TrailPrices, Trailing!UpdatePrice(price) PROVE TrailingInv'
  <2> DEFINE extreme == Trailing!Extreme(price)
             earned == stop.active \/ Trailing!Activates(price)
             level == IF earned THEN Trailing!StopPrice(stop.side, extreme) ELSE stop.stopPrice
             n == Len(trailingSeen)
  <2>0. /\ stop # Trailing!NoStop /\ trailingSeen \in Seq(TrailPrices)
        /\ stop
             \in [side : Side, entry : TrailPrices, active : BOOLEAN, extreme :
               TrailPrices, stopPrice : Int]
        /\ n >= 1 /\ trailingSeen[1] = stop.entry /\ ExtremeIsBest /\ ActiveIsEarned
    BY <1>4 DEF Trailing!UpdatePrice, TrailingInv, TrailingTyped, TrailingFollowed
  <2>1. /\ stop' = [stop EXCEPT !.active = earned, !.extreme = extreme, !.stopPrice = level]
        /\ check' = IF earned /\ Trailing!Crossed(stop.side, price, level)
                    THEN "TRIGGERED" ELSE "NOT_TRIGGERED"
        /\ trailingSeen' = Append(trailingSeen, price)
    BY <1>4 DEF Trailing!UpdatePrice
  <2>2. /\ stop.side \in Side /\ stop.entry \in Int /\ stop.extreme \in TrailPrices
        /\ stop.extreme \in Int /\ stop.active \in BOOLEAN /\ stop.stopPrice \in Int
        /\ price \in Int /\ n \in Nat
    <3>1. stop
            \in [side : Side, entry : TrailPrices, active : BOOLEAN, extreme :
              TrailPrices, stopPrice : Int]
      BY <2>0
    <3>2. n \in Nat
      BY <2>0
    <3> HIDE DEF n
    <3> QED
      BY <3>1, <3>2
  <2>3. extreme \in TrailPrices /\ extreme \in Int /\ earned \in BOOLEAN /\ level \in Int
    <3>1. extreme \in TrailPrices /\ extreme \in Int
      BY <2>2 DEF Trailing!Extreme
    <3>2. earned \in BOOLEAN
      BY <2>2 DEF Trailing!Activates
    <3> HIDE DEF extreme, earned
    <3>3. Trailing!StopPrice(stop.side, extreme) \in Int
      BY <3>1 DEF Trailing!StopPrice
    <3> QED
      BY <2>2, <3>1, <3>2, <3>3
  <2>4. /\ Len(trailingSeen') = n + 1 /\ DOMAIN trailingSeen' = 1..(n + 1)
           /\ DOMAIN trailingSeen = 1..n
        /\ trailingSeen'[n + 1] = price /\ \A i \in 1..n : trailingSeen'[i] = trailingSeen[i]
    BY <2>0, <2>1
  <2>5. /\ stop'.side = stop.side /\ stop'.entry = stop.entry /\ stop'.active = earned
        /\ stop'.extreme = extreme /\ stop' # Trailing!NoStop
    BY <2>0, <2>1 DEF Trailing!NoStop
  <2>6. TrailingTyped'
    <3> HIDE DEF extreme, earned, level
    <3>1. stop'
            \in [side : Side, entry : TrailPrices, active : BOOLEAN, extreme :
              TrailPrices, stopPrice : Int]
      BY <2>0, <2>1, <2>3
    <3>2. trailingSeen' \in Seq(TrailPrices)
      BY <2>0, <2>1
    <3> QED
      BY <3>1, <3>2 DEF TrailingTyped
  <2>7. ExtremeIsBest'
    <3>1. /\ ~Trailing!Better(stop.side, stop.extreme, extreme)
             /\ ~Trailing!Better(stop.side, price, extreme)
          /\ extreme = price \/ extreme = stop.extreme
      <4>1. CASE stop.side = "LONG"
        BY <2>2, <4>1 DEF Trailing!Extreme, Trailing!Better
      <4>2. CASE stop.side # "LONG"
        BY <2>2, <4>2 DEF Trailing!Extreme, Trailing!Better
      <4> QED
        BY <4>1, <4>2
    <3>2. \A i \in 1..n : ~Trailing!Better(stop.side, trailingSeen[i], extreme)
      <4> SUFFICES ASSUME NEW i \in 1..n
                   PROVE ~Trailing!Better(stop.side, trailingSeen[i], extreme)
        OBVIOUS
      <4>1. trailingSeen[i] \in Int
        <5>1. trailingSeen[i] \in TrailPrices
          BY <2>0
        <5> QED
          BY <5>1
      <4>2. ~Trailing!Better(stop.side, trailingSeen[i], stop.extreme)
        BY <2>0, <2>4 DEF ExtremeIsBest
      <4> HIDE DEF extreme, n
      <4> QED
        BY <2>2, <2>3, <3>1, <4>1, <4>2 DEF Trailing!Better
    <3>3. \A i \in 1..(n + 1) : ~Trailing!Better(stop.side, trailingSeen'[i], extreme)
      <4> SUFFICES ASSUME NEW i \in 1..(n + 1)
                   PROVE ~Trailing!Better(stop.side, trailingSeen'[i], extreme)
        OBVIOUS
      <4>1. CASE i = n + 1
        BY <2>4, <3>1, <4>1
      <4>2. CASE i # n + 1
        BY <2>2, <2>4, <3>2, <4>2
      <4> QED
        BY <4>1, <4>2
    <3>4. \E i \in 1..(n + 1) : trailingSeen'[i] = extreme
      <4>1. CASE extreme = price
        BY <2>2, <2>4, <4>1
      <4>2. CASE extreme = stop.extreme
        <5>1. PICK i \in 1..n : trailingSeen[i] = stop.extreme
          BY <2>0, <2>4 DEF ExtremeIsBest
        <5> QED
          BY <2>2, <2>4, <4>2, <5>1
      <4> QED
        BY <3>1, <4>1, <4>2
    <3> HIDE DEF extreme, n
    <3> QED
      BY <2>4, <2>5, <3>3, <3>4 DEF ExtremeIsBest
  <2>8. ActiveIsEarned'
    <3> DEFINE E(q) == 100 * Trailing!Gain(stop.side, stop.entry, q) >= Activation * stop.entry
    <3>1. earned <=> (\E i \in 2..n : E(trailingSeen[i])) \/ E(price)
      BY <2>0 DEF ActiveIsEarned, Trailing!Activates
    <3> HIDE DEF E, earned
    <3>2. (\E i \in 2..(n + 1) : E(trailingSeen'[i]))
            <=> (\E i \in 2..n : E(trailingSeen[i])) \/ E(price)
      <4>1. \A i \in 2..(n + 1) : i = n + 1 \/ i \in 2..n
        BY <2>2
      <4>2. \A i \in 2..n : i \in 2..(n + 1) /\ i \in 1..n
        BY <2>2
      <4>3. n + 1 \in 2..(n + 1)
        BY <2>0, <2>2
      <4> HIDE DEF n
      <4> QED
        BY <2>4, <4>1, <4>2, <4>3
    <3>3. earned <=> \E i \in 2..Len(trailingSeen') : E(trailingSeen'[i])
      BY <2>4, <3>1, <3>2
    <3> USE DEF E
    <3> HIDE DEF n
    <3> QED
      BY <2>5, <3>3 DEF ActiveIsEarned
  <2>9. CheckIsOfLast'
    <3>1. check' = "TRIGGERED"
            <=> earned
            /\ Trailing!Crossed(stop.side, price, Trailing!StopPrice(stop.side, extreme))
      BY <2>1
    <3> HIDE DEF extreme, earned, n
    <3> QED
      BY <2>4, <2>5, <3>1 DEF CheckIsOfLast
  <2>10. Len(trailingSeen') >= 1 /\ trailingSeen'[1] = stop'.entry
    BY <2>0, <2>2, <2>4, <2>5
  <2> QED
    BY <2>6, <2>7, <2>8, <2>9, <2>10 DEF TrailingInv, TrailingFollowed
<1> QED
  BY <1>1, <1>2, <1>3, <1>4 DEF Trailing!Next, Side

(* No two prices are both the best.                                        *)
LEMMA TrailingFollows == TrailingInv => Trailing!StopFollowsHistory
<1> SUFFICES ASSUME TrailingInv, Len(trailingSeen) > 1 PROVE Trailing!StopFollowsHistory
  BY DEF Trailing!StopFollowsHistory
<1> USE TrailingAssumption
<1> DEFINE best == CHOOSE p \in {trailingSeen[i] : i \in DOMAIN trailingSeen} :
                     \A i \in DOMAIN trailingSeen :
                       ~Trailing!Better(stop.side, trailingSeen[i], p)
<1>1. stop # Trailing!NoStop
  BY DEF TrailingInv, TrailingTyped, Trailing!NoStop, Side
<1>2. /\ trailingSeen \in Seq(TrailPrices) /\ stop.side \in Side /\ stop.extreme \in Int
      /\ TrailingFollowed
  BY <1>1 DEF TrailingInv, TrailingTyped
<1>3. \E p \in {trailingSeen[i] : i \in DOMAIN trailingSeen} : \A i \in DOMAIN trailingSeen :
        ~Trailing!Better(stop.side, trailingSeen[i], p)
  BY <1>2 DEF TrailingFollowed, ExtremeIsBest
<1>4. best \in {trailingSeen[i] : i \in DOMAIN trailingSeen}
      /\ \A i \in DOMAIN trailingSeen : ~Trailing!Better(stop.side, trailingSeen[i], best)
  BY <1>3, Zenon
<1> HIDE DEF best
<1>5. best = stop.extreme
  <2>1. PICK j \in DOMAIN trailingSeen : trailingSeen[j] = best
    BY <1>4
  <2>2. PICK k \in DOMAIN trailingSeen : trailingSeen[k] = stop.extreme
    BY <1>2 DEF TrailingFollowed, ExtremeIsBest
  <2>3. ~Trailing!Better(stop.side, best, stop.extreme)
        /\ ~Trailing!Better(stop.side, stop.extreme, best)
    BY <1>2, <1>4, <2>1, <2>2 DEF TrailingFollowed, ExtremeIsBest
  <2>4. best \in Int
    <3>1. trailingSeen[j] \in TrailPrices
      BY <1>2, <2>1
    <3> QED
      BY <2>1, <3>1
  <2> QED
    BY <1>2, <2>3, <2>4 DEF Trailing!Better
<1> QED
  BY <1>2, <1>5 DEF TrailingFollowed, ActiveIsEarned, CheckIsOfLast,
        Trailing!StopFollowsHistory, best

(* For both sides and any prices, trail and activation: the stop triggers  *)
(* exactly when some price since the entry earned the activation profit    *)
(* and the last one is the trail or more worse than the best of them.      *)
THEOREM Trails == MCSpec => []StopFollowsHistory
<1>1. MCInit => TrailingInv
  BY Begins, TrailingInit
<1>2. TrailingInv /\ [MCNext]_allVars => TrailingInv'
  BY Moves, TrailingStep
<1>3. TrailingInv => StopFollowsHistory
  BY TrailingFollows DEF StopFollowsHistory
<1> QED
  BY <1>1, <1>2, <1>3, PTL DEF MCSpec

-----------------------------------------------------------------------------
(* RealtimeExecutor.  Two workers may have the same id, and then anything  *)
(* may happen to their callbacks.  The invariant says of an id that only   *)
(* one signal got what the worker that holds it has done so far: then the  *)
(* entry of _active_orders under it is its own.                            *)

Stages == {"none", "idle", "check", "submit", "register", "wait", "fill", "reject"}
Busy(w) == executorStage[w] \notin {"none", "idle"}
Calls == [kind : {"fill", "reject"}, signal : Nat, id : Executor!Ids]

ExecutorTyped ==
  /\ executorNow \in Executor!Ids /\ queue \in Seq(Nat) /\ executorSignals \in Nat
     /\ threads \in Nat
  /\ executorStage \in [Executor!Workers -> Stages] /\ signal \in [Executor!Workers -> Nat]
     /\ id \in [Executor!Workers -> Nat]
  /\ orders \in [Executor!Ids -> [for : Nat, status : {"none", "live", "filled", "dead"}]]
  /\ active \in [Executor!Ids -> Nat] /\ executorCalls \in Seq(Calls)
  /\ holders \in [Executor!Ids -> SUBSET Nat] /\ \A i \in Executor!Ids : IsFiniteSet(holders[i])

(* A signal is in the queue once, and then with one id.                    *)
SignalsAreTakenOnce ==
  /\ \A k \in DOMAIN queue : queue[k] \in 1..executorSignals /\ \A i \in Executor!Ids :
       queue[k] \notin holders[i]
  /\ \A k, l \in DOMAIN queue : queue[k] = queue[l] => k = l
  /\ \A i \in Executor!Ids : holders[i] \subseteq 1..executorSignals
  /\ \A i, j \in Executor!Ids, s \in Nat : s \in holders[i] /\ s \in holders[j] => i = j

(* A worker that is not idle holds a signal that no other one holds.       *)
WorkersHold ==
  /\ \A w \in Executor!Workers : w > threads => executorStage[w] = "none"
  /\ \A w \in Executor!Workers : Busy(w) => id[w] \in Executor!Ids /\ signal[w] \in holders[id[w]]
  /\ \A w, v \in Executor!Workers : Busy(w) /\ Busy(v) /\ signal[w] = signal[v] => w = v

(* An order, and a callback, come from a signal that got their id.         *)
OrdersAreHeld ==
  /\ \A i \in Executor!Ids : orders[i] # Executor!NoOrder =>
       orders[i].for \in holders[i] /\ orders[i].status \in {"live", "filled", "dead"}
  /\ \A k \in DOMAIN executorCalls : holders[executorCalls[k].id] # {}

Alone(S) == \A a, b \in S : a = b

(* What a worker has done so far for an id that only its signal got.       *)
WorkersAreAlone ==
  \A w \in Executor!Workers : Busy(w) /\ Alone(holders[id[w]]) =>
    /\ executorStage[w] \in {"check", "submit"} => orders[id[w]] = Executor!NoOrder
    /\ executorStage[w] \in {"register", "wait", "fill", "reject"}
         => orders[id[w]].for = signal[w]
    /\ executorStage[w] \in {"wait", "fill", "reject"} => active[id[w]] = signal[w]
    /\ executorStage[w] = "fill" => orders[id[w]].status = "filled"
    /\ \A k \in DOMAIN executorCalls : executorCalls[k].id # id[w]

CallsAreOwn ==
  \A k \in DOMAIN executorCalls : Alone(holders[executorCalls[k].id]) =>
    /\ orders[executorCalls[k].id].for = executorCalls[k].signal
    /\ executorCalls[k].kind = "fill" => orders[executorCalls[k].id].status = "filled"
    /\ \A l \in DOMAIN executorCalls : executorCalls[l].id = executorCalls[k].id => l = k

ExecutorInv ==
  /\ ExecutorTyped /\ SignalsAreTakenOnce /\ WorkersHold /\ OrdersAreHeld
  /\ WorkersAreAlone /\ CallsAreOwn

-----------------------------------------------------------------------------
LEMMA CallIds ==
  ASSUME ExecutorTyped, NEW k \in DOMAIN executorCalls
  PROVE  executorCalls[k] \in Calls /\ executorCalls[k].id \in Executor!Ids
<1>1. executorCalls[k] \in Calls
  BY DEF ExecutorTyped
<1> QED
  BY <1>1 DEF Calls

LEMMA SharedByTwo ==
  ASSUME NEW S, IsFiniteSet(S), ~(Cardinality(S) > 1), NEW a \in S, NEW b \in S
  PROVE  a = b
<1> SUFFICES ASSUME a # b PROVE FALSE
  OBVIOUS
<1>1. IsFiniteSet({a}) /\ Cardinality({a}) = 1
  BY FS_Singleton
<1>2. Cardinality({a} \cup {b}) = 2
  BY <1>1, FS_AddElement
<1>3. {a} \cup {b} \subseteq S
  OBVIOUS
<1>4. Cardinality({a} \cup {b}) <= Cardinality(S)
  BY <1>3, FS_Subset
<1>5. Cardinality(S) \in Nat
  BY FS_CardinalityType
<1> QED
  BY <1>2, <1>4, <1>5

LEMMA ExecutorOwn == ExecutorInv => Executor!CallbacksAreOwn
<1> SUFFICES ASSUME ExecutorInv PROVE Executor!CallbacksAreOwn
  OBVIOUS
<1>0. ExecutorTyped /\ SignalsAreTakenOnce /\ OrdersAreHeld /\ CallsAreOwn
  BY DEF ExecutorInv
<1>1. ASSUME NEW i \in Executor!Ids, NEW j \in Executor!Ids, orders[i] # Executor!NoOrder,
             orders[i].for = orders[j].for
      PROVE  i = j
  <2>1. orders[i].for \in holders[i] /\ holders[i] \subseteq 1..executorSignals
    BY <1>0, <1>1 DEF OrdersAreHeld, SignalsAreTakenOnce
  <2>2. orders[i].for # 0 /\ orders[i].for \in Nat
    BY <2>1
  <2>3. orders[j] # Executor!NoOrder
    BY <1>1, <2>2 DEF Executor!NoOrder
  <2>4. orders[j].for \in holders[j]
    BY <1>0, <2>3 DEF OrdersAreHeld
  <2> QED
    BY <1>0, <1>1, <2>1, <2>2, <2>4 DEF SignalsAreTakenOnce
<1>2. ASSUME NEW k \in DOMAIN executorCalls, ~Executor!Shared(executorCalls[k].id)
      PROVE Alone(holders[executorCalls[k].id])
  <2>1. executorCalls[k].id \in Executor!Ids
    BY <1>0, CallIds
  <2>2. IsFiniteSet(holders[executorCalls[k].id])
    BY <1>0, <2>1 DEF ExecutorTyped
  <2>3. Executor!Cardinality(holders[executorCalls[k].id])
          = Cardinality(holders[executorCalls[k].id])
    BY DEF Executor!Cardinality, Cardinality
  <2> QED
    BY <1>2, <2>2, <2>3, SharedByTwo DEF Executor!Shared, Alone
<1> QED
  BY <1>0, <1>1, <1>2 DEF CallsAreOwn, Executor!CallbacksAreOwn

-----------------------------------------------------------------------------
LEMMA ExecutorInit == Executor!Init => ExecutorInv
<1> SUFFICES ASSUME Executor!Init PROVE ExecutorInv
  OBVIOUS
<1> USE ExecutorAssumption
<1>1. /\ \A w \in Executor!Workers : executorStage[w] = "none" /\ ~Busy(w)
      /\ \A i \in Executor!Ids : holders[i] = {} /\ orders[i] = Executor!NoOrder
      /\ executorCalls = <<>> /\ queue = <<>> /\ DOMAIN executorCalls = {} /\ DOMAIN queue = {}
  BY DEF Executor!Init, Busy
<1>2. ExecutorTyped
  BY FS_EmptySet DEF Executor!Init, ExecutorTyped, Executor!Ids, Stages, Executor!NoOrder
<1>3. SignalsAreTakenOnce
  BY <1>1 DEF SignalsAreTakenOnce
<1>4. WorkersHold
  BY <1>1 DEF WorkersHold
<1> QED
  BY <1>1, <1>2, <1>3, <1>4 DEF ExecutorInv, OrdersAreHeld, WorkersAreAlone, CallsAreOwn

(* Steps of one worker, or of none, that take no signal from the queue.    *)
LEMMA WorkerMoves ==
  ASSUME ExecutorInv,
         UNCHANGED <<executorNow, queue, executorSignals, threads, signal, id, holders>>,
         NEW w \in Executor!Workers, NEW s \in Stages,
           executorStage' = [executorStage EXCEPT ![w] = s],
         Busy(w) \/ (s \in {"none", "idle"} /\ w <= threads)
  PROVE  /\ SignalsAreTakenOnce' /\ WorkersHold'
            /\ executorStage' \in [Executor!Workers -> Stages]
         /\ executorStage'[w] = s /\ \A v \in Executor!Workers : v # w
            => executorStage'[v] = executorStage[v]
<1>0. ExecutorTyped /\ SignalsAreTakenOnce /\ WorkersHold
  BY DEF ExecutorInv
<1>1. /\ executorStage' \in [Executor!Workers -> Stages] /\ executorStage'[w] = s
      /\ \A v \in Executor!Workers : v # w => executorStage'[v] = executorStage[v]
  BY <1>0 DEF ExecutorTyped
<1>2. SignalsAreTakenOnce'
  BY <1>0 DEF SignalsAreTakenOnce
<1>3. \A v \in Executor!Workers : Busy(v)' => Busy(v)
  BY <1>1 DEF Busy
<1>4. \A v \in Executor!Workers : v > threads => executorStage'[v] = "none"
  BY <1>0, <1>1 DEF WorkersHold, Busy, ExecutorTyped, Executor!Workers
<1>5. WorkersHold'
  BY <1>0, <1>3, <1>4 DEF WorkersHold
<1> QED
  BY <1>1, <1>2, <1>5

LEMMA ExecutorTake ==
  ASSUME ExecutorInv, NEW w \in Executor!Workers, Executor!Take(w)
  PROVE  ExecutorInv'
<1> USE ExecutorAssumption
<1> DEFINE s == Head(queue)
           t == executorNow
<1>0. /\ ExecutorTyped /\ SignalsAreTakenOnce /\ WorkersHold /\ OrdersAreHeld
      /\ WorkersAreAlone /\ CallsAreOwn
  BY DEF ExecutorInv
<1>1. /\ executorStage[w] = "idle" /\ queue # <<>> /\ queue' = Tail(queue)
      /\ UNCHANGED <<executorNow, executorSignals, executorRunning, threads, orders, active,
           executorCalls>>
      /\ \/ /\ executorStage' = [executorStage EXCEPT ![w] = "check"]
            /\ signal' = [signal EXCEPT ![w] = s] /\ id' = [id EXCEPT ![w] = t]
            /\ holders' = [holders EXCEPT ![t] = @ \cup {s}]
         \/ UNCHANGED <<executorStage, signal, id, holders>>
  BY DEF Executor!Take, Executor!Idle, Executor!Rest
<1>2. queue \in Seq(Nat) /\ t \in Executor!Ids
  BY <1>0 DEF ExecutorTyped
<1>3. /\ queue' \in Seq(Nat) /\ s \in Nat /\ s = queue[1] /\ 1 \in DOMAIN queue
      /\ \A k \in DOMAIN queue' :
           k + 1 \in DOMAIN queue /\ queue'[k] = queue[k + 1] /\ k \in Nat /\ k + 1 # 1
  BY <1>1, <1>2
<1>4. s \in 1..executorSignals /\ \A i \in Executor!Ids : s \notin holders[i]
  BY <1>0, <1>3 DEF SignalsAreTakenOnce
<1>5. \A k \in DOMAIN queue' : queue'[k] # s /\ queue'[k] \in 1..executorSignals
                               /\ \A i \in Executor!Ids : queue'[k] \notin holders[i]
  BY <1>0, <1>3 DEF SignalsAreTakenOnce
<1>6. \A k, l \in DOMAIN queue' : queue'[k] = queue'[l] => k = l
  BY <1>0, <1>3 DEF SignalsAreTakenOnce
<1> HIDE DEF s, t
<1>7. CASE UNCHANGED <<executorStage, signal, id, holders>>
  <2>1. ExecutorTyped'
    BY <1>0, <1>1, <1>3, <1>7 DEF ExecutorTyped
  <2>2. SignalsAreTakenOnce'
    BY <1>0, <1>1, <1>5, <1>6, <1>7 DEF SignalsAreTakenOnce
  <2>3. WorkersHold' /\ OrdersAreHeld' /\ WorkersAreAlone' /\ CallsAreOwn'
    BY <1>0, <1>1, <1>7 DEF WorkersHold, OrdersAreHeld, WorkersAreAlone, CallsAreOwn, Busy,
          Alone
  <2> QED
    BY <2>1, <2>2, <2>3 DEF ExecutorInv
<1>8. CASE /\ executorStage' = [executorStage EXCEPT ![w] = "check"]
           /\ signal' = [signal EXCEPT ![w] = s] /\ id' = [id EXCEPT ![w] = t]
           /\ holders' = [holders EXCEPT ![t] = @ \cup {s}]
  <2>a. /\ executorStage \in [Executor!Workers -> Stages] /\ signal \in [Executor!Workers -> Nat]
           /\ id \in [Executor!Workers -> Nat]
        /\ holders \in [Executor!Ids -> SUBSET Nat]
    BY <1>0 DEF ExecutorTyped
  <2>1. /\ executorStage'[w] = "check" /\ signal'[w] = s /\ id'[w] = t
           /\ holders'[t] = holders[t] \cup {s}
        /\ \A v \in Executor!Workers : v # w
           => executorStage'[v] = executorStage[v] /\ signal'[v] = signal[v] /\ id'[v] = id[v]
        /\ \A i \in Executor!Ids : i # t => holders'[i] = holders[i]
    BY <1>2, <1>8, <2>a
  <2>2. ExecutorTyped'
    <3>1. /\ executorStage' \in [Executor!Workers -> Stages]
             /\ signal' \in [Executor!Workers -> Nat] /\ id' \in [Executor!Workers -> Nat]
          /\ holders' \in [Executor!Ids -> SUBSET Nat]
      BY <1>2, <1>3, <1>8, <2>a DEF Stages, Executor!Ids
    <3>2. \A i \in Executor!Ids : IsFiniteSet(holders'[i])
      <4>1. IsFiniteSet(holders[t]) /\ \A i \in Executor!Ids : IsFiniteSet(holders[i])
        BY <1>0, <1>2 DEF ExecutorTyped
      <4>2. IsFiniteSet(holders[t] \cup {s})
        BY <4>1, FS_AddElement
      <4> QED
        BY <2>1, <4>1, <4>2
    <3> QED
      BY <1>0, <1>1, <1>3, <3>1, <3>2 DEF ExecutorTyped
  <2>3. SignalsAreTakenOnce'
    <3>1. \A k \in DOMAIN queue' : \A i \in Executor!Ids : queue'[k] \notin holders'[i]
      BY <1>5, <2>1
    <3>2. \A i \in Executor!Ids : holders'[i] \subseteq 1..executorSignals
      BY <1>0, <1>4, <2>1 DEF SignalsAreTakenOnce
    <3>3. \A i, j \in Executor!Ids, q \in Nat : q \in holders'[i] /\ q \in holders'[j] => i = j
      BY <1>0, <1>4, <2>1 DEF SignalsAreTakenOnce
    <3> QED
      BY <1>1, <1>5, <1>6, <3>1, <3>2, <3>3 DEF SignalsAreTakenOnce
  <2>4. \A v \in Executor!Workers : v # w => (Busy(v)' <=> Busy(v))
    BY <2>1 DEF Busy
  <2>5. WorkersHold'
    <3>1. \A v \in Executor!Workers : v > threads => executorStage'[v] = "none"
      BY <1>0, <1>1, <2>1 DEF WorkersHold
    <3>2. \A v \in Executor!Workers : Busy(v)'
          => id'[v] \in Executor!Ids /\ signal'[v] \in holders'[id'[v]]
      BY <1>0, <1>2, <2>1, <2>4 DEF WorkersHold
    <3>3. \A v \in Executor!Workers : v # w /\ Busy(v) => signal[v] # s
      BY <1>0, <1>4 DEF WorkersHold
    <3>4. \A v, u \in Executor!Workers : Busy(v)' /\ Busy(u)' /\ signal'[v] = signal'[u] => v = u
      BY <1>0, <2>1, <2>4, <3>3 DEF WorkersHold
    <3> QED
      BY <1>1, <3>1, <3>2, <3>4 DEF WorkersHold
  <2>6. OrdersAreHeld'
    <3>1. \A i \in Executor!Ids : holders[i] \subseteq holders'[i]
      BY <2>1
    <3>2. \A k \in DOMAIN executorCalls : executorCalls[k].id \in Executor!Ids
      BY <1>0, CallIds
    <3> QED
      BY <1>0, <1>1, <3>1, <3>2 DEF OrdersAreHeld
  <2>7. \A i \in Executor!Ids : Alone(holders'[i])
        => Alone(holders[i]) /\ (i = t => holders[t] = {})
    BY <1>2, <1>4, <2>1 DEF Alone
  <2>8. CallsAreOwn'
    <3>1. \A k \in DOMAIN executorCalls : executorCalls[k].id \in Executor!Ids
      BY <1>0, CallIds
    <3> QED
      BY <1>0, <1>1, <2>7, <3>1 DEF CallsAreOwn
  <2>9. WorkersAreAlone'
    <3> SUFFICES ASSUME NEW v \in Executor!Workers, Busy(v)', Alone(holders'[id'[v]])
                 PROVE  /\ executorStage'[v] \in {"check", "submit"}
                             => orders[id'[v]] = Executor!NoOrder
                        /\ executorStage'[v] \in {"register", "wait", "fill", "reject"} =>
                             orders[id'[v]].for = signal'[v]
                        /\ executorStage'[v] \in {"wait", "fill", "reject"}
                             => active[id'[v]] = signal'[v]
                        /\ executorStage'[v] = "fill" => orders[id'[v]].status = "filled"
                        /\ \A k \in DOMAIN executorCalls : executorCalls[k].id # id'[v]
      BY <1>1 DEF WorkersAreAlone
    <3>1. CASE v = w
      <4>1. Alone(holders'[t])
        BY <2>1, <3>1
      <4>2. holders[t] = {}
        BY <1>2, <2>7, <4>1
      <4>3. orders[t] = Executor!NoOrder
            /\ \A k \in DOMAIN executorCalls : executorCalls[k].id # t
        BY <1>0, <1>2, <4>2 DEF OrdersAreHeld
      <4> QED
        BY <2>1, <3>1, <4>3
    <3>2. CASE v # w
      <4>1. Busy(v) /\ id'[v] = id[v] /\ executorStage'[v] = executorStage[v]
            /\ signal'[v] = signal[v]
        BY <2>1, <2>4, <3>2
      <4>2. id[v] \in Executor!Ids
        BY <1>0, <4>1 DEF WorkersHold
      <4>3. Alone(holders'[id[v]])
        BY <4>1
      <4>4. Alone(holders[id[v]])
        BY <2>7, <4>2, <4>3
      <4> QED
        BY <1>0, <4>1, <4>4 DEF WorkersAreAlone
    <3> QED
      BY <3>1, <3>2
  <2> QED
    BY <2>2, <2>3, <2>5, <2>6, <2>8, <2>9 DEF ExecutorInv
<1> QED
  BY <1>1, <1>7, <1>8

(* A worker that only moves on, without orders or callbacks.               *)
LEMMA WorkerGoesOn ==
  ASSUME ExecutorInv, NEW w \in Executor!Workers, NEW s \in Stages,
         executorStage' = [executorStage EXCEPT ![w] = s],
         Busy(w) \/ (s \in {"none", "idle"} /\ w <= threads),
         UNCHANGED <<executorNow, queue, executorSignals, threads, signal, id, holders, orders,
           executorCalls>>,
         active' = active \/ (s = "wait" /\ active' = [active EXCEPT ![id[w]] = signal[w]]),
         s = "check" => executorStage[w] = "check",
         s = "submit" => executorStage[w] = "check",
         s = "register" => executorStage[w] = "check" /\ orders[id[w]] # Executor!NoOrder,
         s = "wait"
           => executorStage[w] = "register" /\ active' = [active EXCEPT ![id[w]] = signal[w]],
         s \in {"fill", "reject"} => executorStage[w] = "wait",
         s = "fill" => orders[id[w]].status = "filled"
  PROVE  ExecutorInv'
<1>0. ExecutorTyped /\ WorkersHold /\ OrdersAreHeld /\ WorkersAreAlone /\ CallsAreOwn
  BY DEF ExecutorInv
<1>1. /\ SignalsAreTakenOnce' /\ WorkersHold' /\ executorStage' \in [Executor!Workers -> Stages]
      /\ executorStage'[w] = s /\ \A v \in Executor!Workers : v # w
         => executorStage'[v] = executorStage[v]
  BY WorkerMoves
<1>2. ExecutorTyped'
  <2>1. active' \in [Executor!Ids -> Nat]
    BY <1>0 DEF ExecutorTyped
  <2> QED
    BY <1>0, <1>1, <2>1 DEF ExecutorTyped
<1>3. OrdersAreHeld' /\ CallsAreOwn'
  BY <1>0 DEF OrdersAreHeld, CallsAreOwn
<1>4. \A v \in Executor!Workers : v # w /\ Busy(v) /\ Alone(holders[id[v]])
      => id[v] # id[w] \/ ~Busy(w)
  <2> SUFFICES ASSUME NEW v \in Executor!Workers, v # w, Busy(v), Busy(w), Alone(holders[id[v]]),
                      id[v] = id[w]
               PROVE  FALSE
    OBVIOUS
  <2>1. signal[v] \in holders[id[v]] /\ signal[w] \in holders[id[v]]
    BY <1>0 DEF WorkersHold
  <2>2. signal[v] = signal[w]
    BY <2>1 DEF Alone
  <2> QED
    BY <1>0, <2>2 DEF WorkersHold
<1>5. WorkersAreAlone'
  <2> SUFFICES ASSUME NEW v \in Executor!Workers, Busy(v)', Alone(holders[id[v]])
               PROVE  /\ executorStage'[v] \in {"check", "submit"}
                           => orders[id[v]] = Executor!NoOrder
                      /\ executorStage'[v] \in {"register", "wait", "fill", "reject"} =>
                           orders[id[v]].for = signal[v]
                      /\ executorStage'[v] \in {"wait", "fill", "reject"}
                           => active'[id[v]] = signal[v]
                      /\ executorStage'[v] = "fill" => orders[id[v]].status = "filled"
                      /\ \A k \in DOMAIN executorCalls : executorCalls[k].id # id[v]
    BY DEF WorkersAreAlone
  <2>1. Busy(v) /\ (v = w => s \notin {"none", "idle"} /\ Busy(w))
    BY <1>1 DEF Busy
  <2>2. /\ executorStage[v] \in {"check", "submit"} => orders[id[v]] = Executor!NoOrder
        /\ executorStage[v] \in {"register", "wait", "fill", "reject"}
             => orders[id[v]].for = signal[v]
        /\ executorStage[v] \in {"wait", "fill", "reject"} => active[id[v]] = signal[v]
        /\ executorStage[v] = "fill" => orders[id[v]].status = "filled"
        /\ \A k \in DOMAIN executorCalls : executorCalls[k].id # id[v]
    BY <1>0, <2>1 DEF WorkersAreAlone
  <2>3. active \in [Executor!Ids -> Nat] /\ id[v] \in Executor!Ids
    BY <1>0, <2>1 DEF WorkersHold, ExecutorTyped
  <2>4. CASE v # w
    <3>1. executorStage'[v] = executorStage[v]
      BY <1>1, <2>4
    <3>2. active'[id[v]] = active[id[v]]
      <4>1. CASE active' = active
        BY <4>1
      <4>2. CASE s = "wait" /\ active' = [active EXCEPT ![id[w]] = signal[w]]
        <5>1. Busy(w)
          BY <4>2 DEF Busy
        <5>2. id[v] # id[w]
          BY <1>4, <2>1, <2>4, <5>1
        <5> QED
          BY <2>3, <4>2, <5>2
      <4> QED
        BY <4>1, <4>2
    <3> QED
      BY <2>2, <3>1, <3>2
  <2>5. CASE v = w
    <3>1. executorStage'[v] = s
      BY <1>1, <2>5
    <3>2. s \in {"check", "submit"} => orders[id[v]] = Executor!NoOrder
      BY <2>2, <2>5
    <3>3. s # "register"
      BY <2>2, <2>5
    <3>4. s \in {"wait", "fill", "reject"} => orders[id[v]].for = signal[v]
      BY <2>2, <2>5
    <3>5. s \in {"wait", "fill", "reject"} => active'[id[v]] = signal[v]
      BY <2>2, <2>3, <2>5
    <3> QED
      BY <2>2, <2>5, <3>1, <3>2, <3>3, <3>4, <3>5
  <2> QED
    BY <2>4, <2>5
<1> QED
  BY <1>1, <1>2, <1>3, <1>5 DEF ExecutorInv

LEMMA ExecutorSubmits ==
  ASSUME ExecutorInv, NEW w \in Executor!Workers, Executor!SubmitOrder(w)
  PROVE  ExecutorInv'
<1> DEFINE t == id[w]
<1>0. ExecutorTyped /\ WorkersHold /\ OrdersAreHeld /\ WorkersAreAlone /\ CallsAreOwn
  BY DEF ExecutorInv
<1>1. /\ executorStage[w] = "submit" /\ orders[t] = Executor!NoOrder
      /\ orders' = [orders EXCEPT ![t] = [for |-> signal[w], status |-> "live"]]
      /\ executorStage' = [executorStage EXCEPT ![w] = "register"]
      /\ UNCHANGED <<executorNow, queue, executorSignals, executorRunning, threads, signal, id,
           active, executorCalls, holders>>
  BY DEF Executor!SubmitOrder
<1>2. Busy(w) /\ "register" \in Stages
  BY <1>1 DEF Busy, Stages
<1>3. /\ SignalsAreTakenOnce' /\ WorkersHold' /\ executorStage' \in [Executor!Workers -> Stages]
      /\ executorStage'[w] = "register" /\ \A v \in Executor!Workers : v # w
         => executorStage'[v] = executorStage[v]
  BY <1>1, <1>2, WorkerMoves
<1>4. t \in Executor!Ids /\ signal[w] \in holders[t] /\ signal[w] \in Nat
  BY <1>0, <1>2 DEF WorkersHold, ExecutorTyped
<1>5. /\ orders'[t] = [for |-> signal[w], status |-> "live"]
      /\ \A i \in Executor!Ids : i # t => orders'[i] = orders[i]
  BY <1>0, <1>1, <1>4 DEF ExecutorTyped
<1>6. ExecutorTyped'
  <2>1. orders' \in [Executor!Ids -> [for : Nat, status : {"none", "live", "filled", "dead"}]]
    BY <1>0, <1>1, <1>4 DEF ExecutorTyped
  <2> QED
    BY <1>0, <1>1, <1>3, <2>1 DEF ExecutorTyped
<1> HIDE DEF t
<1>7. OrdersAreHeld'
  BY <1>0, <1>1, <1>4, <1>5 DEF OrdersAreHeld
<1>8. \A k \in DOMAIN executorCalls : Alone(holders[t]) => executorCalls[k].id # t
  BY <1>0, <1>1, <1>2 DEF WorkersAreAlone, t
<1>9. CallsAreOwn'
  <2> SUFFICES ASSUME NEW k \in DOMAIN executorCalls, Alone(holders[executorCalls[k].id])
               PROVE  /\ orders'[executorCalls[k].id].for = executorCalls[k].signal
                      /\ executorCalls[k].kind = "fill"
                           => orders'[executorCalls[k].id].status = "filled"
                      /\ \A l \in DOMAIN executorCalls : executorCalls[l].id = executorCalls[k].id
                         => l = k
    BY <1>1 DEF CallsAreOwn
  <2>1. executorCalls[k].id \in Executor!Ids /\ executorCalls[k].id # t
    BY <1>0, <1>8, CallIds
  <2> QED
    BY <1>0, <1>5, <2>1 DEF CallsAreOwn
<1>10. WorkersAreAlone'
  <2> SUFFICES ASSUME NEW v \in Executor!Workers, Busy(v)', Alone(holders[id[v]])
               PROVE  /\ executorStage'[v] \in {"check", "submit"}
                           => orders'[id[v]] = Executor!NoOrder
                      /\ executorStage'[v] \in {"register", "wait", "fill", "reject"} =>
                           orders'[id[v]].for = signal[v]
                      /\ executorStage'[v] \in {"wait", "fill", "reject"}
                           => active[id[v]] = signal[v]
                      /\ executorStage'[v] = "fill" => orders'[id[v]].status = "filled"
                      /\ \A k \in DOMAIN executorCalls : executorCalls[k].id # id[v]
    BY <1>1 DEF WorkersAreAlone
  <2>1. CASE v = w
    <3>1. executorStage'[v] = "register" /\ orders'[id[v]].for = signal[v]
      BY <1>3, <1>5, <2>1 DEF t
    <3> QED
      BY <1>8, <2>1, <3>1 DEF t
  <2>2. CASE v # w
    <3>1. Busy(v) /\ executorStage'[v] = executorStage[v]
      BY <1>3, <2>2 DEF Busy
    <3>2. id[v] \in Executor!Ids /\ signal[v] \in holders[id[v]]
      BY <1>0, <3>1 DEF WorkersHold
    <3>3. id[v] # t
      <4> SUFFICES ASSUME id[v] = t PROVE FALSE
        OBVIOUS
      <4>1. signal[v] = signal[w]
        BY <1>4, <3>2 DEF Alone
      <4> QED
        BY <1>0, <1>2, <2>2, <3>1, <4>1 DEF WorkersHold
    <3>4. orders'[id[v]] = orders[id[v]]
      BY <1>5, <3>2, <3>3
    <3> QED
      BY <1>0, <3>1, <3>4 DEF WorkersAreAlone
  <2> QED
    BY <2>1, <2>2
<1> QED
  BY <1>3, <1>6, <1>7, <1>9, <1>10 DEF ExecutorInv

LEMMA ExecutorCallsBack ==
  ASSUME ExecutorInv, NEW w \in Executor!Workers, Executor!CallBack(w)
  PROVE  ExecutorInv'
<1> DEFINE t == id[w]
           c == [kind |-> executorStage[w], signal |-> active[t], id |-> t]
<1>0. ExecutorTyped /\ WorkersHold /\ OrdersAreHeld /\ WorkersAreAlone /\ CallsAreOwn
  BY DEF ExecutorInv
<1>1. /\ executorStage[w] \in {"fill", "reject"}
      /\ active' = [active EXCEPT ![t] = 0]
      /\ executorCalls' = IF active[t] = 0 THEN executorCalls ELSE Append(executorCalls, c)
      /\ executorStage' = [executorStage EXCEPT ![w] = "idle"]
      /\ UNCHANGED <<executorNow, queue, executorSignals, executorRunning, threads, signal, id,
           orders, holders>>
  BY DEF Executor!CallBack
<1>2. Busy(w) /\ "idle" \in Stages
  BY <1>1 DEF Busy, Stages
<1>3. /\ SignalsAreTakenOnce' /\ WorkersHold' /\ executorStage' \in [Executor!Workers -> Stages]
      /\ executorStage'[w] = "idle" /\ \A v \in Executor!Workers : v # w
         => executorStage'[v] = executorStage[v]
  BY <1>1, <1>2, WorkerMoves
<1>4. t \in Executor!Ids /\ signal[w] \in holders[t] /\ signal[w] \in Nat
  BY <1>0, <1>2 DEF WorkersHold, ExecutorTyped
<1>5. active \in [Executor!Ids -> Nat] /\ executorCalls \in Seq(Calls)
  BY <1>0 DEF ExecutorTyped
<1>6. c \in Calls
  BY <1>1, <1>4, <1>5 DEF Calls
<1>7. /\ executorCalls' \in Seq(Calls)
      /\ \A k \in DOMAIN executorCalls' :
           (k \in DOMAIN executorCalls /\ executorCalls'[k] = executorCalls[k])
                                   \/ (k = Len(executorCalls) + 1 /\ k \notin DOMAIN executorCalls
                                        /\ executorCalls'[k] = c)
  <2> HIDE DEF c
  <2>1. CASE executorCalls' = executorCalls
    BY <1>5, <2>1
  <2>2. CASE executorCalls' = Append(executorCalls, c)
    BY <1>5, <1>6, <2>2
  <2> QED
    BY <1>1, <2>1, <2>2
<1>8. active' \in [Executor!Ids -> Nat] /\ \A i \in Executor!Ids : i # t => active'[i] = active[i]
  BY <1>1, <1>4, <1>5
<1>9. ExecutorTyped'
  BY <1>0, <1>1, <1>3, <1>7, <1>8 DEF ExecutorTyped
<1>10. c.id = t /\ c.kind = executorStage[w] /\ c.signal = active[t]
  OBVIOUS
<1> HIDE DEF c
<1>11. OrdersAreHeld'
  <2>1. \A k \in DOMAIN executorCalls' : holders[executorCalls'[k].id] # {}
    BY <1>0, <1>4, <1>7, <1>10 DEF OrdersAreHeld
  <2> QED
    BY <1>0, <1>1, <2>1 DEF OrdersAreHeld
<1>12. Alone(holders[t]) =>
         /\ orders[t].for = signal[w] /\ active[t] = signal[w]
         /\ executorStage[w] = "fill" => orders[t].status = "filled"
         /\ \A k \in DOMAIN executorCalls : executorCalls[k].id # t
  BY <1>0, <1>1, <1>2 DEF WorkersAreAlone
<1> HIDE DEF t
<1>13. CallsAreOwn'
  <2> SUFFICES ASSUME NEW k \in DOMAIN executorCalls', Alone(holders[executorCalls'[k].id])
               PROVE  /\ orders[executorCalls'[k].id].for = executorCalls'[k].signal
                      /\ executorCalls'[k].kind = "fill"
                           => orders[executorCalls'[k].id].status = "filled"
                      /\ \A l \in DOMAIN executorCalls' :
                           executorCalls'[l].id = executorCalls'[k].id => l = k
    BY <1>1 DEF CallsAreOwn
  <2>1. CASE k \in DOMAIN executorCalls /\ executorCalls'[k] = executorCalls[k]
    <3>1. /\ orders[executorCalls[k].id].for = executorCalls[k].signal
          /\ executorCalls[k].kind = "fill" => orders[executorCalls[k].id].status = "filled"
          /\ \A l \in DOMAIN executorCalls : executorCalls[l].id = executorCalls[k].id => l = k
      BY <1>0, <2>1 DEF CallsAreOwn
    <3>2. ASSUME NEW l \in DOMAIN executorCalls', executorCalls'[l].id = executorCalls'[k].id
          PROVE l = k
      BY <1>7, <1>10, <1>12, <2>1, <3>1, <3>2
    <3> QED
      BY <2>1, <3>1, <3>2
  <2>2. CASE k = Len(executorCalls) + 1 /\ k \notin DOMAIN executorCalls /\ executorCalls'[k] = c
    <3>1. Alone(holders[t])
      BY <1>10, <2>2
    <3>2. ASSUME NEW l \in DOMAIN executorCalls', executorCalls'[l].id = executorCalls'[k].id
          PROVE l = k
      BY <1>7, <1>10, <1>12, <2>2, <3>1, <3>2
    <3> QED
      BY <1>10, <1>12, <2>2, <3>1, <3>2
  <2> QED
    BY <1>7, <2>1, <2>2
<1>14. WorkersAreAlone'
  <2> SUFFICES ASSUME NEW v \in Executor!Workers, Busy(v)', Alone(holders[id[v]])
               PROVE  /\ executorStage'[v] \in {"check", "submit"}
                           => orders[id[v]] = Executor!NoOrder
                      /\ executorStage'[v] \in {"register", "wait", "fill", "reject"} =>
                           orders[id[v]].for = signal[v]
                      /\ executorStage'[v] \in {"wait", "fill", "reject"}
                           => active'[id[v]] = signal[v]
                      /\ executorStage'[v] = "fill" => orders[id[v]].status = "filled"
                      /\ \A k \in DOMAIN executorCalls' : executorCalls'[k].id # id[v]
    BY <1>1 DEF WorkersAreAlone
  <2>1. v # w /\ Busy(v) /\ executorStage'[v] = executorStage[v]
    BY <1>3 DEF Busy
  <2>2. id[v] \in Executor!Ids /\ signal[v] \in holders[id[v]]
    BY <1>0, <2>1 DEF WorkersHold
  <2>3. id[v] # t
    <3> SUFFICES ASSUME id[v] = t PROVE FALSE
      OBVIOUS
    <3>1. signal[v] = signal[w]
      BY <1>4, <2>2 DEF Alone
    <3> QED
      BY <1>0, <1>2, <2>1, <3>1 DEF WorkersHold
  <2>4. active'[id[v]] = active[id[v]]
    BY <1>8, <2>2, <2>3
  <2>5. /\ executorStage[v] \in {"check", "submit"} => orders[id[v]] = Executor!NoOrder
        /\ executorStage[v] \in {"register", "wait", "fill", "reject"}
             => orders[id[v]].for = signal[v]
        /\ executorStage[v] \in {"wait", "fill", "reject"} => active[id[v]] = signal[v]
        /\ executorStage[v] = "fill" => orders[id[v]].status = "filled"
        /\ \A k \in DOMAIN executorCalls : executorCalls[k].id # id[v]
    BY <1>0, <2>1 DEF WorkersAreAlone
  <2>6. \A k \in DOMAIN executorCalls' : executorCalls'[k].id # id[v]
    BY <1>7, <1>10, <2>3, <2>5
  <2> QED
    BY <2>1, <2>4, <2>5, <2>6
<1> QED
  BY <1>3, <1>9, <1>11, <1>13, <1>14 DEF ExecutorInv

LEMMA ExecutorBrokerEnds ==
  ASSUME ExecutorInv, NEW i \in Executor!Ids, Executor!BrokerEnds(i)
  PROVE  ExecutorInv'
<1>0. /\ ExecutorTyped /\ SignalsAreTakenOnce /\ WorkersHold /\ OrdersAreHeld
      /\ WorkersAreAlone /\ CallsAreOwn
  BY DEF ExecutorInv
<1>1. PICK s \in {"filled", "dead"} : orders' = [orders EXCEPT ![i].status = s]
  BY DEF Executor!BrokerEnds
<1>2. /\ orders[i].status = "live"
      /\ UNCHANGED <<executorNow, queue, executorSignals, executorRunning, threads, executorStage,
           signal, id, active, executorCalls, holders>>
  BY DEF Executor!BrokerEnds
<1>3. /\ orders \in [Executor!Ids -> [for : Nat, status : {"none", "live", "filled", "dead"}]]
      /\ orders[i] \in [for : Nat, status : {"none", "live", "filled", "dead"}]
  BY <1>0 DEF ExecutorTyped
<1>4. /\ orders' \in [Executor!Ids -> [for : Nat, status : {"none", "live", "filled", "dead"}]]
      /\ orders'[i].for = orders[i].for /\ orders'[i].status = s
      /\ \A j \in Executor!Ids : j # i => orders'[j] = orders[j]
  BY <1>1, <1>3
<1>5. \A j \in Executor!Ids :
        /\ orders'[j].for = orders[j].for
        /\ orders[j].status = "filled" => orders'[j].status = "filled"
        /\ orders[j] = Executor!NoOrder <=> orders'[j] = Executor!NoOrder
  BY <1>2, <1>4 DEF Executor!NoOrder
<1>6. ExecutorTyped' /\ SignalsAreTakenOnce' /\ WorkersHold'
  BY <1>0, <1>2, <1>4 DEF ExecutorTyped, SignalsAreTakenOnce, WorkersHold, Busy
<1>7. OrdersAreHeld'
  <2>1. \A j \in Executor!Ids : orders'[j] # Executor!NoOrder =>
          orders'[j].for \in holders[j] /\ orders'[j].status \in {"live", "filled", "dead"}
    BY <1>0, <1>4, <1>5 DEF OrdersAreHeld
  <2> QED
    BY <1>0, <1>2, <2>1 DEF OrdersAreHeld
<1>8. CallsAreOwn'
  <2>1. \A k \in DOMAIN executorCalls : executorCalls[k].id \in Executor!Ids
    BY <1>0, CallIds
  <2> QED
    BY <1>0, <1>2, <1>5, <2>1 DEF CallsAreOwn
<1>9. WorkersAreAlone'
  <2>1. \A v \in Executor!Workers : Busy(v) => id[v] \in Executor!Ids
    BY <1>0 DEF WorkersHold
  <2> QED
    BY <1>0, <1>2, <1>5, <2>1 DEF WorkersAreAlone, Busy
<1> QED
  BY <1>6, <1>7, <1>8, <1>9 DEF ExecutorInv

LEMMA ExecutorStart ==
  ASSUME ExecutorInv, Executor!Start
  PROVE  ExecutorInv'
<1> USE ExecutorAssumption
<1>0. /\ ExecutorTyped /\ SignalsAreTakenOnce /\ WorkersHold /\ OrdersAreHeld
      /\ WorkersAreAlone /\ CallsAreOwn
  BY DEF ExecutorInv
<1>1. /\ threads' = threads + MaxWorkers
      /\ executorStage' = [w \in Executor!Workers |->
                     IF w \in threads + 1 .. threads + MaxWorkers THEN "idle"
                       ELSE executorStage[w]]
      /\ UNCHANGED <<executorNow, queue, executorSignals, signal, id, orders, active,
           executorCalls, holders>>
  BY DEF Executor!Start
<1>2. threads \in Nat /\ executorStage \in [Executor!Workers -> Stages]
  BY <1>0 DEF ExecutorTyped
<1>3. executorStage' \in [Executor!Workers -> Stages]
  BY <1>1, <1>2 DEF Stages
<1>4. \A w \in Executor!Workers :
        (Busy(w)' <=> Busy(w)) /\ (Busy(w) => executorStage'[w] = executorStage[w])
  BY <1>0, <1>1, <1>2 DEF Busy, WorkersHold, Executor!Workers
<1>5. \A w \in Executor!Workers : w > threads' => executorStage'[w] = "none"
  BY <1>0, <1>1, <1>2 DEF WorkersHold, Executor!Workers
<1>6. ExecutorTyped' /\ SignalsAreTakenOnce'
  BY <1>0, <1>1, <1>2, <1>3 DEF ExecutorTyped, SignalsAreTakenOnce
<1>7. WorkersHold'
  BY <1>0, <1>1, <1>4, <1>5 DEF WorkersHold
<1>8. OrdersAreHeld' /\ CallsAreOwn'
  BY <1>0, <1>1 DEF OrdersAreHeld, CallsAreOwn
<1>9. WorkersAreAlone'
  BY <1>0, <1>1, <1>4 DEF WorkersAreAlone
<1> QED
  BY <1>6, <1>7, <1>8, <1>9 DEF ExecutorInv

LEMMA ExecutorStep == ExecutorInv /\ [Executor!Next]_executorVars => ExecutorInv'
<1> SUFFICES ASSUME ExecutorInv, [Executor!Next]_executorVars PROVE ExecutorInv'
  OBVIOUS
<1> USE ExecutorAssumption
<1>0. /\ ExecutorTyped /\ SignalsAreTakenOnce /\ WorkersHold /\ OrdersAreHeld
      /\ WorkersAreAlone /\ CallsAreOwn
  BY DEF ExecutorInv
<1>1. ASSUME UNCHANGED <<threads, executorStage, signal, id, orders, active, executorCalls,
               holders>>,
             executorNow' \in Executor!Ids, queue' \in Seq(Nat), executorSignals' \in Nat,
               SignalsAreTakenOnce'
      PROVE  ExecutorInv'
  <2>1. ExecutorTyped'
    BY <1>0, <1>1 DEF ExecutorTyped
  <2>2. WorkersHold' /\ OrdersAreHeld' /\ WorkersAreAlone' /\ CallsAreOwn'
    BY <1>0, <1>1 DEF WorkersHold, OrdersAreHeld, WorkersAreAlone, CallsAreOwn, Busy
  <2> QED
    BY <1>1, <2>1, <2>2 DEF ExecutorInv
<1>2. ASSUME UNCHANGED <<threads, executorStage, signal, id, orders, active, executorCalls,
               holders, queue, executorSignals>>,
             executorNow' \in Executor!Ids
      PROVE  ExecutorInv'
  <2>1. SignalsAreTakenOnce'
    BY <1>0, <1>2 DEF SignalsAreTakenOnce
  <2> QED
    BY <1>0, <1>1, <1>2, <2>1 DEF ExecutorTyped
<1>3. CASE UNCHANGED executorVars
  BY <1>0, <1>2, <1>3 DEF executorVars, ExecutorTyped
<1>4. CASE Executor!SubmitSignal
  <2>1. /\ executorSignals' = executorSignals + 1 /\ queue' = Append(queue, executorSignals + 1)
        /\ UNCHANGED <<executorNow, threads, executorStage, signal, id, orders, active,
             executorCalls, holders>>
    BY <1>4 DEF Executor!SubmitSignal
  <2>2. queue \in Seq(Nat) /\ executorSignals \in Nat /\ executorNow \in Executor!Ids
    BY <1>0 DEF ExecutorTyped
  <2>3. /\ queue' \in Seq(Nat) /\ executorSignals' \in Nat
        /\ \A k \in DOMAIN queue' : (k \in DOMAIN queue /\ queue'[k] = queue[k])
                                     \/ (k = Len(queue) + 1 /\ queue'[k] = executorSignals + 1)
    BY <2>1, <2>2
  <2>4. \A i \in Executor!Ids :
          holders[i] \subseteq 1..executorSignals /\ executorSignals + 1 \notin holders[i]
    BY <1>0, <2>2 DEF SignalsAreTakenOnce
  <2>5. \A k \in DOMAIN queue' : /\ queue'[k] \in 1..executorSignals'
                                 /\ \A i \in Executor!Ids : queue'[k] \notin holders[i]
    BY <1>0, <2>1, <2>2, <2>3, <2>4 DEF SignalsAreTakenOnce
  <2>6. \A k \in DOMAIN queue : queue[k] # executorSignals + 1
    BY <1>0, <2>2 DEF SignalsAreTakenOnce
  <2>7. \A k, l \in DOMAIN queue' : queue'[k] = queue'[l] => k = l
    BY <1>0, <2>3, <2>6 DEF SignalsAreTakenOnce
  <2>8. \A i \in Executor!Ids : holders[i] \subseteq 1..executorSignals'
    BY <2>1, <2>2, <2>4
  <2>9. SignalsAreTakenOnce'
    BY <1>0, <2>1, <2>5, <2>7, <2>8 DEF SignalsAreTakenOnce
  <2> QED
    BY <1>1, <2>1, <2>2, <2>3, <2>9
<1>5. CASE Executor!Stop
  BY <1>0, <1>2, <1>5 DEF Executor!Stop, ExecutorTyped
<1>6. CASE Executor!Tick
  BY <1>0, <1>2, <1>6 DEF Executor!Tick, ExecutorTyped, Executor!Ids
<1>7. ASSUME NEW w \in Executor!Workers, Executor!WorkerEnds(w) PROVE ExecutorInv'
  <2>1. w <= threads
    BY <1>0, <1>7 DEF Executor!WorkerEnds, Executor!Idle, WorkersHold, ExecutorTyped,
          Executor!Workers
  <2>2. "none" \in Stages
    BY DEF Stages
  <2> QED
    BY <1>7, <2>1, <2>2, WorkerGoesOn DEF Executor!WorkerEnds
<1>8. ASSUME NEW w \in Executor!Workers, Executor!CheckGuard(w) PROVE ExecutorInv'
  <2>1. Busy(w) /\ "register" \in Stages /\ "submit" \in Stages
    BY <1>8 DEF Executor!CheckGuard, Busy, Stages
  <2>2. CASE orders[id[w]] # Executor!NoOrder
    BY <1>8, <2>1, <2>2, WorkerGoesOn DEF Executor!CheckGuard
  <2>3. CASE orders[id[w]] = Executor!NoOrder
    BY <1>8, <2>1, <2>3, WorkerGoesOn DEF Executor!CheckGuard
  <2> QED
    BY <2>2, <2>3
<1>9. ASSUME NEW w \in Executor!Workers, Executor!SubmitFails(w) PROVE ExecutorInv'
  <2>1. Busy(w) /\ "idle" \in Stages
    BY <1>9 DEF Executor!SubmitFails, Busy, Stages
  <2> QED
    BY <1>9, <2>1, WorkerGoesOn DEF Executor!SubmitFails
<1>10. ASSUME NEW w \in Executor!Workers, Executor!Register(w) PROVE ExecutorInv'
  <2>1. Busy(w) /\ "wait" \in Stages
    BY <1>10 DEF Executor!Register, Busy, Stages
  <2> QED
    BY <1>10, <2>1, WorkerGoesOn DEF Executor!Register
<1>11. ASSUME NEW w \in Executor!Workers, Executor!WaitEnds(w) PROVE ExecutorInv'
  <2>1. Busy(w) /\ "fill" \in Stages /\ "reject" \in Stages
    BY <1>11 DEF Executor!WaitEnds, Busy, Stages
  <2>2. CASE orders[id[w]].status = "filled"
    BY <1>11, <2>1, <2>2, WorkerGoesOn DEF Executor!WaitEnds
  <2>3. CASE orders[id[w]].status # "filled"
    BY <1>11, <2>1, <2>3, WorkerGoesOn DEF Executor!WaitEnds
  <2> QED
    BY <2>2, <2>3
<1> QED
  BY <1>3, <1>4, <1>5, <1>6, <1>7, <1>8, <1>9, <1>10, <1>11, ExecutorTake, ExecutorSubmits,
     ExecutorCallsBack, ExecutorBrokerEnds, ExecutorStart DEF Executor!Next

(* For any number of workers, stops and starts: no signal is traded twice, *)
(* and a callback is made once and for the signal whose order it is, with  *)
(* a fill only when that has filled, unless two signals got the same id.   *)
THEOREM Callbacks == MCSpec => []CallbacksAreOwn
<1>1. MCInit => ExecutorInv
  BY Begins, ExecutorInit
<1>2. ExecutorInv /\ [MCNext]_allVars => ExecutorInv'
  BY Moves, ExecutorStep
<1>3. ExecutorInv => CallbacksAreOwn
  BY ExecutorOwn DEF CallbacksAreOwn
<1> QED
  BY <1>1, <1>2, <1>3, PTL DEF MCSpec

-----------------------------------------------------------------------------
(* Health.  The counter is read before the check runs and written after    *)
(* it, so two loops lose counts.  OneLoopCounts says that a single one     *)
(* does not: what it has read is still the counter, and the counter is the *)
(* length of the run of UNHEALTHY results that ends the history.           *)

Outcome == Statuses \cup {"none"}
Alive(l) == checksStage[l] # "none"

ChecksTyped ==
  /\ checksStage \in [Checks!Loops -> {"none", "list", "next", "record", "judge", "waiting"}]
  /\ checksCurrent \in [Checks!Loops -> Checks!Objects \cup {Checks!NoCheck}]
     /\ count \in [Checks!Loops -> Nat]
  /\ found \in [Checks!Loops -> Outcome] /\ checksFailures \in [Checks!Objects -> Nat]
  /\ outcomes \in [Checks!Objects -> Seq(Outcome)] /\ doubled \in BOOLEAN
  /\ \A o \in Checks!Objects, n \in Int : <<o, n>> \in alerts => n <= Len(outcomes[o])

(* f UNHEALTHY results end the results, and no more.                       *)
EndsUnhealthy(results, f) ==
  /\ f \in 0..Len(results)
  /\ \A i \in (Len(results) - f + 1)..Len(results) : results[i] = "UNHEALTHY"
  /\ f < Len(results) => results[Len(results) - f] # "UNHEALTHY"

(* While one loop runs at a time, it loses no count.                       *)
OneLoopCounts ==
  ~doubled =>
    /\ \A l, m \in Checks!Loops : Alive(l) /\ Alive(m) => l = m
    /\ \A o \in Checks!Objects : EndsUnhealthy(outcomes[o], checksFailures[o])
    /\ \A l \in Checks!Loops : checksStage[l] = "record"
       => count[l] = checksFailures[checksCurrent[l]]

ChecksInv == ChecksTyped /\ OneLoopCounts /\ Checks!AlertsAreDeserved

-----------------------------------------------------------------------------
LEMMA OneMoreResult ==
  ASSUME NEW results \in Seq(Outcome), NEW f \in Nat, EndsUnhealthy(results, f), NEW s \in Outcome
  PROVE  EndsUnhealthy(Append(results, s), Checks!Counted(f, s))
<1> DEFINE more == Append(results, s)
<1>1. /\ Len(more) = Len(results) + 1 /\ Len(results) \in Nat /\ more[Len(results) + 1] = s
      /\ \A i \in 1..Len(results) : more[i] = results[i]
  OBVIOUS
<1> HIDE DEF more
<1>2. /\ f <= Len(results)
      /\ \A i \in (Len(results) - f + 1)..Len(results) : results[i] = "UNHEALTHY"
      /\ f < Len(results) => results[Len(results) - f] # "UNHEALTHY"
  BY DEF EndsUnhealthy
<1>3. CASE s # "UNHEALTHY"
  <2>1. Checks!Counted(f, s) = 0
    BY <1>3 DEF Checks!Counted
  <2> QED
    BY <1>1, <1>3, <2>1 DEF EndsUnhealthy, more
<1>4. CASE s = "UNHEALTHY"
  <2>1. Checks!Counted(f, s) = f + 1
    BY <1>4 DEF Checks!Counted
  <2>2. ASSUME NEW i \in (Len(more) - (f + 1) + 1)..Len(more) PROVE more[i] = "UNHEALTHY"
    <3>1. i = Len(results) + 1
          \/ (i \in (Len(results) - f + 1)..Len(results) /\ i \in 1..Len(results))
      BY <1>1, <1>2
    <3> QED
      BY <1>1, <1>2, <1>4, <3>1
  <2>3. ASSUME f + 1 < Len(more) PROVE more[Len(more) - (f + 1)] # "UNHEALTHY"
    <3>1. Len(more) - (f + 1) = Len(results) - f /\ Len(results) - f \in 1..Len(results)
          /\ f < Len(results)
      BY <1>1, <2>3
    <3> QED
      BY <1>1, <1>2, <3>1
  <2>4. f + 1 \in 0..Len(more)
    BY <1>1, <1>2
  <2>5. EndsUnhealthy(more, f + 1)
    BY <2>2, <2>3, <2>4 DEF EndsUnhealthy
  <2> QED
    BY <2>1, <2>5 DEF more
<1> QED
  BY <1>3, <1>4

(* The counter has reached n when the last n results are UNHEALTHY.        *)
LEMMA LongRun ==
  ASSUME NEW results \in Seq(Outcome), NEW f \in Nat, EndsUnhealthy(results, f), NEW n \in Nat
  PROVE  f >= n <=> /\ Len(results) >= n
                    /\ \A i \in (Len(results) - n + 1)..Len(results) : results[i] = "UNHEALTHY"
<1>1. /\ Len(results) \in Nat /\ f <= Len(results)
      /\ \A i \in (Len(results) - f + 1)..Len(results) : results[i] = "UNHEALTHY"
      /\ f < Len(results) => results[Len(results) - f] # "UNHEALTHY"
  BY DEF EndsUnhealthy
<1>2. ASSUME f >= n
      PROVE  /\ Len(results) >= n
             /\ \A i \in (Len(results) - n + 1)..Len(results) : results[i] = "UNHEALTHY"
  <2>1. \A i \in (Len(results) - n + 1)..Len(results) : i \in (Len(results) - f + 1)..Len(results)
    BY <1>1, <1>2
  <2> QED
    BY <1>1, <1>2, <2>1
<1>3. ASSUME f < n, Len(results) >= n,
             \A i \in (Len(results) - n + 1)..Len(results) : results[i] = "UNHEALTHY"
      PROVE  FALSE
  <2>1. f < Len(results) /\ Len(results) - f \in (Len(results) - n + 1)..Len(results)
    BY <1>1, <1>3
  <2> QED
    BY <1>1, <1>3, <2>1
<1> QED
  BY <1>2, <1>3

-----------------------------------------------------------------------------
LEMMA ChecksInit == Checks!Init => ChecksInv
<1> SUFFICES ASSUME Checks!Init PROVE ChecksInv
  OBVIOUS
<1>1. ChecksTyped
  <2>1. outcomes \in [Checks!Objects -> Seq(Outcome)]
    <3>1. <<>> \in Seq(Outcome) /\ outcomes = [o \in Checks!Objects |-> <<>>]
      BY DEF Checks!Init
    <3> QED
      BY <3>1
  <2>2. count \in [Checks!Loops -> Nat] /\ checksFailures \in [Checks!Objects -> Nat]
    BY DEF Checks!Init
  <2>3. found \in [Checks!Loops -> Outcome]
    BY DEF Checks!Init, Outcome
  <2>4. checksCurrent \in [Checks!Loops -> Checks!Objects \cup {Checks!NoCheck}]
    BY DEF Checks!Init
  <2> QED
    BY <2>1, <2>2, <2>3, <2>4 DEF Checks!Init, ChecksTyped
<1>2. \A o \in Checks!Objects : outcomes[o] = <<>> /\ checksFailures[o] = 0
  BY DEF Checks!Init
<1>3. \A o \in Checks!Objects : EndsUnhealthy(outcomes[o], checksFailures[o])
  BY <1>2 DEF EndsUnhealthy
<1>4. OneLoopCounts
  BY <1>3 DEF Checks!Init, OneLoopCounts, Alive
<1>5. Checks!AlertsAreDeserved
  BY <1>2 DEF Checks!AlertsAreDeserved
<1> QED
  BY <1>1, <1>4, <1>5 DEF ChecksInv

(* Steps that neither record nor judge.                                    *)
LEMMA ChecksStay ==
  ASSUME ChecksInv, UNCHANGED <<checksFailures, outcomes, alerts>>, doubled' \in BOOLEAN,
         doubled => doubled',
         checksStage'
           \in [Checks!Loops -> {"none", "list", "next", "record", "judge", "waiting"}],
         checksCurrent' \in [Checks!Loops -> Checks!Objects \cup {Checks!NoCheck}],
           count' \in [Checks!Loops -> Nat],
         found' \in [Checks!Loops -> Outcome],
         ~doubled' => \A l, m \in Checks!Loops : Alive(l)' /\ Alive(m)' => l = m,
         \A l \in Checks!Loops : checksStage'[l] = "record" =>
           \/ count'[l] = checksFailures[checksCurrent'[l]]
           \/ checksStage[l] = "record" /\ count'[l] = count[l]
              /\ checksCurrent'[l] = checksCurrent[l],
         \A l \in Checks!Loops : (checksStage'[l] = "judge" <=> checksStage[l] = "judge")
                          /\ (checksStage[l] = "judge" => checksCurrent'[l] = checksCurrent[l])
  PROVE  ChecksInv'
<1>0. ChecksTyped /\ OneLoopCounts /\ Checks!AlertsAreDeserved
  BY DEF ChecksInv
<1>1. ChecksTyped'
  BY <1>0 DEF ChecksTyped
<1>2. OneLoopCounts'
  BY <1>0 DEF OneLoopCounts, ChecksTyped
<1>3. \A o \in Checks!Objects : Checks!BeingJudged(o)' <=> Checks!BeingJudged(o)
  BY DEF Checks!BeingJudged
<1>4. Checks!AlertsAreDeserved'
  BY <1>0, <1>3 DEF Checks!AlertsAreDeserved, Checks!Deserved, ChecksTyped
<1> QED
  BY <1>1, <1>2, <1>4 DEF ChecksInv

LEMMA ChecksRecord ==
  ASSUME ChecksInv, NEW l \in Checks!Loops, NEW o \in Checks!Objects, Checks!Record(l, o)
  PROVE  ChecksInv'
<1> USE ChecksAssumption
<1>0. ChecksTyped /\ OneLoopCounts /\ Checks!AlertsAreDeserved
  BY DEF ChecksInv
<1> DEFINE s == found[l]
           f == Checks!Counted(count[l], s)
           results == outcomes[o]
           more == Append(results, s)
<1>1. /\ checksStage[l] = "record" /\ o = checksCurrent[l]
      /\ checksFailures' = [checksFailures EXCEPT ![o] = f]
      /\ outcomes' = [outcomes EXCEPT ![o] = more]
      /\ checksStage' = [checksStage EXCEPT ![l] = "judge"]
      /\ UNCHANGED <<checksCurrent, found, count, alerts, doubled>>
  BY DEF Checks!Record
<1>2. /\ s \in Outcome /\ results \in Seq(Outcome) /\ count[l] \in Nat
         /\ checksFailures[o] \in Nat
      /\ checksStage \in [Checks!Loops -> {"none", "list", "next", "record", "judge", "waiting"}]
      /\ checksFailures \in [Checks!Objects -> Nat]
         /\ outcomes \in [Checks!Objects -> Seq(Outcome)]
  BY <1>0 DEF ChecksTyped
<1>3. f \in Nat /\ more \in Seq(Outcome) /\ Len(more) = Len(results) + 1 /\ Len(results) \in Nat
      /\ \A i \in 1..Len(results) : more[i] = results[i]
  BY <1>2 DEF Checks!Counted
<1> HIDE DEF f, s, more
<1>4. /\ outcomes'[o] = more /\ checksFailures'[o] = f /\ checksStage'[l] = "judge"
      /\ \A p \in Checks!Objects : p # o
         => outcomes'[p] = outcomes[p] /\ checksFailures'[p] = checksFailures[p]
      /\ \A m \in Checks!Loops : m # l => checksStage'[m] = checksStage[m]
  BY <1>1, <1>2
<1>5. ChecksTyped'
  <2>1. /\ checksStage'
             \in [Checks!Loops -> {"none", "list", "next", "record", "judge", "waiting"}]
        /\ checksFailures' \in [Checks!Objects -> Nat]
           /\ outcomes' \in [Checks!Objects -> Seq(Outcome)]
    BY <1>1, <1>2, <1>3
  <2>2. \A p \in Checks!Objects :
          Len(outcomes[p]) \in Nat /\ Len(outcomes[p]) <= Len(outcomes'[p])
    <3> SUFFICES ASSUME NEW p \in Checks!Objects
                 PROVE  Len(outcomes[p]) \in Nat /\ Len(outcomes[p]) <= Len(outcomes'[p])
      OBVIOUS
    <3>1. outcomes[p] \in Seq(Outcome)
      BY <1>2
    <3> QED
      BY <1>3, <1>4, <3>1
  <2>3. \A p \in Checks!Objects : Len(outcomes'[p]) \in Nat
    <3> SUFFICES ASSUME NEW p \in Checks!Objects PROVE Len(outcomes'[p]) \in Nat
      OBVIOUS
    <3>1. outcomes'[p] \in Seq(Outcome)
      BY <2>1
    <3> QED
      BY <3>1
  <2>4. \A p \in Checks!Objects, n \in Int : <<p, n>> \in alerts' => n <= Len(outcomes'[p])
    BY <1>0, <1>1, <2>2, <2>3 DEF ChecksTyped
  <2> QED
    BY <1>0, <1>1, <2>1, <2>4 DEF ChecksTyped
<1>6. SUFFICES ASSUME ~doubled PROVE OneLoopCounts' /\ Checks!AlertsAreDeserved'
  BY <1>1, <1>5 DEF ChecksInv, OneLoopCounts, Checks!AlertsAreDeserved
<1>7. \A m \in Checks!Loops : m # l => checksStage[m] = "none" /\ checksStage'[m] = "none"
  BY <1>0, <1>1, <1>4, <1>6 DEF OneLoopCounts, Alive
<1>8. OneLoopCounts'
  <2>1. EndsUnhealthy(results, checksFailures[o]) /\ count[l] = checksFailures[o]
    BY <1>0, <1>1, <1>6 DEF OneLoopCounts
  <2>2. EndsUnhealthy(more, f)
    BY <1>2, <2>1, OneMoreResult DEF more, f
  <2>3. \A p \in Checks!Objects : EndsUnhealthy(outcomes'[p], checksFailures'[p])
    BY <1>0, <1>4, <1>6, <2>2 DEF OneLoopCounts
  <2>4. \A m \in Checks!Loops : checksStage'[m] # "record"
    BY <1>4, <1>7
  <2>5. \A k, m \in Checks!Loops : Alive(k)' /\ Alive(m)' => k = m
    BY <1>7 DEF Alive
  <2> QED
    BY <2>3, <2>4, <2>5 DEF OneLoopCounts
<1>9. /\ \A p \in Checks!Objects : ~Checks!BeingJudged(p)
      /\ \A p \in Checks!Objects : Checks!BeingJudged(p)' <=> p = o
  BY <1>1, <1>4, <1>7 DEF Checks!BeingJudged
<1>10. Checks!AlertsAreDeserved'
  <2> SUFFICES ASSUME NEW p \in Checks!Objects, NEW n \in 1 .. Len(outcomes'[p])
               PROVE  <<p, n>> \in alerts <=>
                        Checks!Deserved(p, n)'
                        /\ ~(n = Len(outcomes'[p]) /\ Checks!BeingJudged(p)')
    BY <1>1 DEF Checks!AlertsAreDeserved
  <2>1. CASE p # o
    BY <1>0, <1>4, <1>6, <1>9, <2>1 DEF Checks!AlertsAreDeserved, Checks!Deserved
  <2>2. CASE p = o /\ n = Len(more)
    <3>1. ~(<<p, n>> \in alerts)
      BY <1>0, <1>3, <2>2 DEF ChecksTyped
    <3> QED
      BY <1>4, <1>9, <2>2, <3>1
  <2>3. CASE p = o /\ n # Len(more)
    <3>1. n \in 1..Len(results)
      BY <1>3, <1>4, <2>3
    <3>2. Checks!Deserved(o, n)' <=> Checks!Deserved(o, n)
      <4>1. \A i \in n - Threshold + 1 .. n : n >= Threshold => i \in 1..Len(results)
        BY <3>1
      <4> QED
        BY <1>3, <1>4, <4>1 DEF Checks!Deserved
    <3> QED
      BY <1>0, <1>4, <1>6, <1>9, <2>3, <3>1, <3>2 DEF Checks!AlertsAreDeserved
  <2> QED
    BY <2>1, <2>2, <2>3
<1> QED
  BY <1>8, <1>10

LEMMA ChecksJudge ==
  ASSUME ChecksInv, NEW l \in Checks!Loops, NEW o \in Checks!Objects, Checks!Judge(l, o)
  PROVE  ChecksInv'
<1> USE ChecksAssumption
<1>0. ChecksTyped /\ OneLoopCounts /\ Checks!AlertsAreDeserved
  BY DEF ChecksInv
<1> DEFINE e == Len(outcomes[o])
<1>1. /\ checksStage[l] = "judge" /\ o = checksCurrent[l]
      /\ alerts' = IF Checks!RequiresAlert(o) THEN alerts \cup {<<o, e>>} ELSE alerts
      /\ checksCurrent' = [checksCurrent EXCEPT ![l] = Checks!NoCheck]
      /\ checksStage' = [checksStage EXCEPT ![l] = "next"]
      /\ found' = [found EXCEPT ![l] = "none"] /\ count' = [count EXCEPT ![l] = 0]
      /\ UNCHANGED <<checksFailures, outcomes, doubled>>
  BY DEF Checks!Judge, Checks!fields
<1>2. outcomes[o] \in Seq(Outcome) /\ checksFailures[o] \in Nat
  BY <1>0 DEF ChecksTyped
<1>3. e \in Nat
  BY <1>2
<1> HIDE DEF e
<1>4. ChecksTyped'
  <2>1. /\ checksStage'
             \in [Checks!Loops -> {"none", "list", "next", "record", "judge", "waiting"}]
        /\ checksCurrent' \in [Checks!Loops -> Checks!Objects \cup {Checks!NoCheck}]
           /\ count' \in [Checks!Loops -> Nat]
        /\ found' \in [Checks!Loops -> Outcome]
    BY <1>0, <1>1 DEF ChecksTyped, Outcome
  <2>2. \A p \in Checks!Objects, n \in Int : <<p, n>> \in alerts' => n <= Len(outcomes[p])
    BY <1>0, <1>1, <1>3 DEF ChecksTyped, e
  <2> QED
    BY <1>0, <1>1, <2>1, <2>2 DEF ChecksTyped
<1>5. SUFFICES ASSUME ~doubled PROVE OneLoopCounts' /\ Checks!AlertsAreDeserved'
  BY <1>1, <1>4 DEF ChecksInv, OneLoopCounts, Checks!AlertsAreDeserved
<1>6. /\ checksStage'[l] = "next" /\ \A m \in Checks!Loops : m # l
         => checksStage[m] = "none" /\ checksStage'[m] = "none"
  <2>1. \A m \in Checks!Loops : m # l => checksStage[m] = "none"
    BY <1>0, <1>1, <1>5 DEF OneLoopCounts, Alive
  <2> QED
    BY <1>0, <1>1, <2>1 DEF ChecksTyped
<1>7. OneLoopCounts'
  BY <1>0, <1>1, <1>5, <1>6 DEF OneLoopCounts, Alive
<1>8. Checks!BeingJudged(o)
      /\ \A p \in Checks!Objects : ~Checks!BeingJudged(p)' /\ (p # o => ~Checks!BeingJudged(p))
  BY <1>1, <1>6 DEF Checks!BeingJudged
<1>9. checksFailures[o] >= Threshold <=> Checks!Deserved(o, e)
  <2>1. EndsUnhealthy(outcomes[o], checksFailures[o])
    BY <1>0, <1>5 DEF OneLoopCounts
  <2> QED
    BY <1>2, <2>1, LongRun DEF Checks!Deserved, e
<1>10. Checks!AlertsAreDeserved'
  <2> SUFFICES ASSUME NEW p \in Checks!Objects, NEW n \in 1 .. Len(outcomes[p])
               PROVE  <<p, n>> \in alerts' <=> Checks!Deserved(p, n)
    BY <1>1, <1>8 DEF Checks!AlertsAreDeserved, Checks!Deserved
  <2>0. <<p, n>> \in alerts
          <=> Checks!Deserved(p, n) /\ ~(n = Len(outcomes[p]) /\ Checks!BeingJudged(p))
    BY <1>0, <1>5 DEF Checks!AlertsAreDeserved
  <2>1. CASE p = o /\ n = e
    <3>1. ~(<<p, n>> \in alerts)
      BY <1>8, <2>0, <2>1 DEF e
    <3>2. <<p, n>> \in alerts' <=> Checks!RequiresAlert(o)
      BY <1>1, <2>1, <3>1
    <3> QED
      BY <1>9, <2>1, <3>2 DEF Checks!RequiresAlert
  <2>2. CASE ~(p = o /\ n = e)
    <3>1. <<p, n>> \in alerts' <=> <<p, n>> \in alerts
      BY <1>1, <2>2
    <3>2. ~(n = Len(outcomes[p]) /\ Checks!BeingJudged(p))
      BY <1>8, <2>2 DEF e
    <3> QED
      BY <2>0, <3>1, <3>2
  <2> QED
    BY <2>1, <2>2
<1> QED
  BY <1>7, <1>10

LEMMA ChecksStep == ChecksInv /\ [Checks!Next]_checksVars => ChecksInv'
<1> SUFFICES ASSUME ChecksInv, [Checks!Next]_checksVars PROVE ChecksInv'
  OBVIOUS
<1>0. ChecksTyped /\ OneLoopCounts /\ Checks!AlertsAreDeserved
  BY DEF ChecksInv
<1>1. ASSUME UNCHANGED <<checksFailures, outcomes, alerts, doubled, checksStage, checksCurrent,
               count, found>>
      PROVE  ChecksInv'
  BY <1>0, <1>1, ChecksStay DEF ChecksTyped, OneLoopCounts, Alive
<1>2. CASE UNCHANGED checksVars
  BY <1>1, <1>2 DEF checksVars
<1>3. CASE Checks!Start
  <2> DEFINE free == {l \in Checks!Loops : checksStage[l] = "none"}
             n == CHOOSE l \in free : TRUE
  <2>1. /\ free # {} /\ checksStage' = [checksStage EXCEPT ![n] = "list"]
        /\ doubled' = (doubled \/ \E l \in Checks!Loops : checksStage[l] # "none")
        /\ UNCHANGED <<checksFailures, outcomes, alerts, checksCurrent, found, count>>
    BY <1>3 DEF Checks!Start, Checks!fields
  <2>2. n \in free
    BY <2>1
  <2>3. n \in Checks!Loops /\ checksStage[n] = "none"
    BY <2>2
  <2> HIDE DEF n, free
  <2>4. /\ checksStage'
             \in [Checks!Loops -> {"none", "list", "next", "record", "judge", "waiting"}]
        /\ checksStage'[n] = "list" /\ \A l \in Checks!Loops : l # n
           => checksStage'[l] = checksStage[l]
    BY <1>0, <2>1, <2>3 DEF ChecksTyped
  <2>5. doubled' \in BOOLEAN /\ (doubled => doubled')
    BY <2>1
  <2>6. ~doubled' => \A l, m \in Checks!Loops : Alive(l)' /\ Alive(m)' => l = m
    BY <2>1, <2>4 DEF Alive
  <2>7. \A l \in Checks!Loops :
          /\ checksStage'[l] = "record" => checksStage[l] = "record"
          /\ checksStage'[l] = "judge" <=> checksStage[l] = "judge"
    BY <2>3, <2>4
  <2> QED
    BY <1>0, <2>1, <2>4, <2>5, <2>6, <2>7, ChecksStay DEF ChecksTyped
<1>4. CASE Checks!Stop
  BY <1>1, <1>4 DEF Checks!Stop, Checks!fields, Checks!locals, Checks!history
<1>5. CASE Checks!Tick
  BY <1>1, <1>5 DEF Checks!Tick, Checks!fields, Checks!locals, Checks!history
<1>6. ASSUME NEW c \in Components,
             Checks!RegisterCheck(c) \/ Checks!UnregisterCheck(c)
             \/ \E b \in BOOLEAN : Checks!SetEnabled(c, b)
      PROVE  ChecksInv'
  BY <1>1, <1>6 DEF Checks!RegisterCheck, Checks!UnregisterCheck, Checks!SetEnabled,
        Checks!fields, Checks!locals, Checks!history
<1>7. ASSUME NEW l \in Checks!Loops, NEW s \in {"none", "list", "next", "waiting"}, NEW t,
             t \in {"list", "next", "waiting"}, checksStage[l] = t,
             checksStage' = [checksStage EXCEPT ![l] = s],
             UNCHANGED <<checksFailures, outcomes, alerts, doubled, checksCurrent, found, count>>
      PROVE  ChecksInv'
  <2>1. /\ checksStage'
             \in [Checks!Loops -> {"none", "list", "next", "record", "judge", "waiting"}]
        /\ checksStage'[l] = s /\ \A m \in Checks!Loops : m # l
           => checksStage'[m] = checksStage[m]
    BY <1>0, <1>7 DEF ChecksTyped
  <2>2. \A m \in Checks!Loops : Alive(m)' => Alive(m)
    BY <1>7, <2>1 DEF Alive
  <2>3. ~doubled' => \A k, m \in Checks!Loops : Alive(k)' /\ Alive(m)' => k = m
    BY <1>0, <1>7, <2>2 DEF OneLoopCounts
  <2>4. \A m \in Checks!Loops :
          /\ checksStage'[m] = "record" => checksStage[m] = "record"
          /\ checksStage'[m] = "judge" <=> checksStage[m] = "judge"
    BY <1>7, <2>1
  <2> QED
    BY <1>0, <1>7, <2>1, <2>3, <2>4, ChecksStay DEF ChecksTyped
<1>8. ASSUME NEW l \in Checks!Loops, Checks!List(l) PROVE ChecksInv'
  BY <1>7, <1>8 DEF Checks!List, Checks!fields, Checks!history
<1>9. ASSUME NEW l \in Checks!Loops, Checks!EndOfList(l) PROVE ChecksInv'
  BY <1>7, <1>9 DEF Checks!EndOfList, Checks!fields, Checks!history
<1>10. ASSUME NEW l \in Checks!Loops, Checks!WaitEnds(l) PROVE ChecksInv'
  BY <1>7, <1>10 DEF Checks!WaitEnds, Checks!fields, Checks!history
<1>11. ASSUME NEW l \in Checks!Loops, NEW o \in Checks!Objects, Checks!CheckRaises(l, o)
       PROVE ChecksInv'
  BY <1>1, <1>11 DEF Checks!CheckRaises, Checks!fields, Checks!history
<1>12. ASSUME NEW l \in Checks!Loops, NEW o \in Checks!Objects, NEW s \in Statuses,
              Checks!RunCheck(l, o, s)
       PROVE  ChecksInv'
  <2>1. /\ checksStage[l] = "next" /\ checksStage' = [checksStage EXCEPT ![l] = "record"]
        /\ checksCurrent' = [checksCurrent EXCEPT ![l] = o] /\ found' = [found EXCEPT ![l] = s]
        /\ count' = [count EXCEPT ![l] = checksFailures[o]]
        /\ UNCHANGED <<checksFailures, outcomes, alerts, doubled>>
    BY <1>12 DEF Checks!RunCheck, Checks!history
  <2>2. /\ checksStage'
             \in [Checks!Loops -> {"none", "list", "next", "record", "judge", "waiting"}]
        /\ checksCurrent' \in [Checks!Loops -> Checks!Objects \cup {Checks!NoCheck}]
           /\ count' \in [Checks!Loops -> Nat]
        /\ found' \in [Checks!Loops -> Outcome]
    BY <1>0, <2>1 DEF ChecksTyped, Outcome
  <2>3. /\ checksStage'[l] = "record" /\ checksCurrent'[l] = o /\ count'[l] = checksFailures[o]
        /\ \A m \in Checks!Loops : m # l =>
             checksStage'[m] = checksStage[m] /\ checksCurrent'[m] = checksCurrent[m]
             /\ count'[m] = count[m]
    BY <1>0, <2>1 DEF ChecksTyped
  <2>4. \A m \in Checks!Loops : Alive(m)' => Alive(m)
    BY <2>1, <2>3 DEF Alive
  <2>5. ~doubled' => \A k, m \in Checks!Loops : Alive(k)' /\ Alive(m)' => k = m
    BY <1>0, <2>1, <2>4 DEF OneLoopCounts
  <2>6. \A m \in Checks!Loops : checksStage'[m] = "record" =>
          \/ count'[m] = checksFailures[checksCurrent'[m]]
          \/ checksStage[m] = "record" /\ count'[m] = count[m]
             /\ checksCurrent'[m] = checksCurrent[m]
    BY <2>3
  <2>7. \A m \in Checks!Loops : (checksStage'[m] = "judge" <=> checksStage[m] = "judge")
                         /\ (checksStage[m] = "judge" => checksCurrent'[m] = checksCurrent[m])
    BY <2>1, <2>3
  <2> QED
    BY <1>0, <2>1, <2>2, <2>5, <2>6, <2>7, ChecksStay DEF ChecksTyped
<1> QED
  BY <1>2, <1>3, <1>4, <1>5, <1>6, <1>8, <1>9, <1>10, <1>11, <1>12, ChecksRecord, ChecksJudge
  DEF Checks!Next

(* Whatever is registered, replaced, stopped and started, for any number   *)
(* of checks and any threshold: while one loop runs at a time, an alert    *)
(* follows Threshold UNHEALTHY results in a row, and they are followed by  *)
(* one.                                                                    *)
THEOREM Alerts == MCSpec => []AlertsAreDeserved
<1>1. MCInit => ChecksInv
  BY Begins, ChecksInit
<1>2. ChecksInv /\ [MCNext]_allVars => ChecksInv'
  BY Moves, ChecksStep
<1>3. ChecksInv => AlertsAreDeserved
  BY DEF ChecksInv, AlertsAreDeserved
<1> QED
  BY <1>1, <1>2, <1>3, PTL DEF MCSpec

-----------------------------------------------------------------------------
(* Reconciler.  A check reads three times while the broker moves, and its  *)
(* report is looked at until the next one.  ReadsAreCurrent carries what   *)
(* has not moved since the call through the reads, ReportIsCurrent from    *)
(* there to the next check, and ReportIsRecent says that this one comes    *)
(* within an interval.                                                     *)

Reading == {"positions", "orders", "diff"}

ReconcilingTyped ==
  /\ reconcilingNow \in Nat \ {0} /\ lastRun \in 0..reconcilingNow /\ at \in 0..reconcilingNow
  /\ reconcilingStage \in {"startup", "loop", "checked"} \cup Reading
  /\ reconcilingRows \in [BookSymbols -> Nat] /\ reconcilingAccount \in [BookSymbols -> Nat]
  /\ reconcilingPositions \in [BookSymbols -> Nat] /\ stored \in [BookSymbols -> Nat]
  /\ reconcilingKnown \subseteq BookOrders /\ reconcilingOpen \subseteq BookOrders
     /\ listed \subseteq BookOrders
  /\ reconcilingSince \in [BookSymbols \cup BookOrders -> 0..reconcilingNow]

(* What a check in progress has read of what has not moved since it was    *)
(* called is still so.                                                     *)
ReadsAreCurrent ==
  /\ reconcilingStage \in Reading => at # Reconciling!Never
  /\ \A s \in BookSymbols : reconcilingSince[s] < at =>
       /\ reconcilingStage \in Reading => reconcilingPositions[s] = reconcilingAccount[s]
       /\ reconcilingStage \in {"orders", "diff"} => stored[s] = reconcilingRows[s]
  /\ \A o \in BookOrders : reconcilingSince[o] < at /\ reconcilingStage = "diff"
     => (o \in listed <=> o \in reconcilingOpen)

(* The last report is right about what has not moved since its check.      *)
ReportIsCurrent ==
  lastRun # Reconciling!Never /\ Reconciling!Error \notin report =>
    \A x \in BookSymbols \cup BookOrders :
      reconcilingSince[x] < lastRun => (Reconciling!Differ(x) <=> \E d \in report : d.of = x)

(* When the loop goes on, the last check was called less than an interval  *)
(* ago.                                                                    *)
ReportIsRecent ==
  /\ reconcilingStage = "startup" => lastRun = Reconciling!Never
  /\ reconcilingStage = "checked"
       => lastRun # Reconciling!Never /\ at < lastRun + ReconcileInterval

ReconcilingInv == ReconcilingTyped /\ ReadsAreCurrent /\ ReportIsCurrent /\ ReportIsRecent

-----------------------------------------------------------------------------
LEMMA DriftIsFound == ReconcilingInv => Reconciling!DriftIsReported
<1> SUFFICES ASSUME ReconcilingInv, reconcilingStage = "checked", Reconciling!Error \notin report,
                    NEW x \in BookSymbols \cup BookOrders,
                      reconcilingSince[x] + ReconcileInterval <= at
             PROVE  Reconciling!Differ(x) <=> \E d \in report : d.of = x
  BY DEF Reconciling!DriftIsReported
<1>1. lastRun # Reconciling!Never /\ at < lastRun + ReconcileInterval
  BY DEF ReconcilingInv, ReportIsRecent
<1>2. reconcilingSince[x] \in Nat /\ lastRun \in Nat /\ at \in Nat
  BY DEF ReconcilingInv, ReconcilingTyped
<1>3. reconcilingSince[x] < lastRun
  BY <1>1, <1>2, ReconcilingAssumption
<1> QED
  BY <1>1, <1>3 DEF ReconcilingInv, ReportIsCurrent

LEMMA ReconcilerInit == Reconciling!Init => ReconcilingInv
<1> SUFFICES ASSUME Reconciling!Init PROVE ReconcilingInv
  OBVIOUS
<1> USE ReconcilingAssumption
<1>1. ReconcilingTyped
  <2>1. reconcilingRows \in [BookSymbols -> Nat] /\ reconcilingAccount \in [BookSymbols -> Nat]
    BY DEF Reconciling!Init
  <2>2. reconcilingSince \in [BookSymbols \cup BookOrders -> 0..reconcilingNow]
        /\ Reconciling!Flat \in [BookSymbols -> Nat]
    BY DEF Reconciling!Init, Reconciling!Never, Reconciling!Flat
  <2> QED
    BY <2>1, <2>2 DEF Reconciling!Init, ReconcilingTyped, Reconciling!Never
<1> QED
  BY <1>1 DEF Reconciling!Init, ReconcilingInv, ReadsAreCurrent, ReportIsCurrent,
        ReportIsRecent, Reading, Reconciling!Never

(* One thing moves, on either side.                                        *)
LEMMA ReconcilerMoves ==
  ASSUME ReconcilingInv, NEW x \in BookSymbols \cup BookOrders,
         reconcilingSince' = [reconcilingSince EXCEPT ![x] = reconcilingNow],
         UNCHANGED <<reconcilingNow, reconcilingStage, lastRun, at, reconcilingPositions, stored,
           listed, report>>,
         reconcilingRows' \in [BookSymbols -> Nat], reconcilingAccount' \in [BookSymbols -> Nat],
         reconcilingKnown' \subseteq BookOrders, reconcilingOpen' \subseteq BookOrders,
         \A s \in BookSymbols : s # x
         => reconcilingRows'[s] = reconcilingRows[s]
         /\ reconcilingAccount'[s] = reconcilingAccount[s],
         \A o \in BookOrders : o # x
         => (o \in reconcilingKnown' <=> o \in reconcilingKnown)
         /\ (o \in reconcilingOpen' <=> o \in reconcilingOpen)
  PROVE  ReconcilingInv'
<1> USE ReconcilingAssumption
<1>0. ReconcilingTyped /\ ReadsAreCurrent /\ ReportIsCurrent /\ ReportIsRecent
  BY DEF ReconcilingInv
<1>1. /\ reconcilingNow \in Nat /\ lastRun \in 0..reconcilingNow /\ at \in 0..reconcilingNow
      /\ reconcilingSince \in [BookSymbols \cup BookOrders -> 0..reconcilingNow]
  BY <1>0 DEF ReconcilingTyped
<1>2. /\ reconcilingSince' \in [BookSymbols \cup BookOrders -> 0..reconcilingNow]
         /\ reconcilingSince'[x] = reconcilingNow
      /\ \A y \in BookSymbols \cup BookOrders : y # x
         => reconcilingSince'[y] = reconcilingSince[y]
  BY <1>1
<1>3. ReconcilingTyped'
  BY <1>0, <1>2 DEF ReconcilingTyped
<1>4. ~(reconcilingNow < at) /\ ~(reconcilingNow < lastRun)
  BY <1>1
<1>5. ReadsAreCurrent'
  <2>1. \A s \in BookSymbols : reconcilingSince'[s] < at => s # x /\ reconcilingSince[s] < at
    BY <1>2, <1>4
  <2>2. \A o \in BookOrders : reconcilingSince'[o] < at => o # x /\ reconcilingSince[o] < at
    BY <1>2, <1>4
  <2> QED
    BY <1>0, <2>1, <2>2 DEF ReadsAreCurrent
<1>6. ReportIsCurrent'
  <2> SUFFICES ASSUME lastRun # Reconciling!Never, Reconciling!Error \notin report,
                      NEW y \in BookSymbols \cup BookOrders, reconcilingSince'[y] < lastRun
               PROVE  Reconciling!Differ(y)' <=> \E d \in report : d.of = y
    BY DEF ReportIsCurrent, Reconciling!Error
  <2>1. y # x /\ reconcilingSince[y] < lastRun
    BY <1>2, <1>4
  <2>2. Reconciling!Differ(y)' <=> Reconciling!Differ(y)
    <3>1. CASE y \in BookSymbols
      BY <2>1, <3>1 DEF Reconciling!Differ
    <3>2. CASE y \notin BookSymbols
      BY <2>1, <3>2 DEF Reconciling!Differ
    <3> QED
      BY <3>1, <3>2
  <2> QED
    BY <1>0, <2>1, <2>2 DEF ReportIsCurrent
<1>7. ReportIsRecent'
  BY <1>0 DEF ReportIsRecent
<1> QED
  BY <1>3, <1>5, <1>6, <1>7 DEF ReconcilingInv

(* The end of a check.                                                     *)
LEMMA ReconcilerRan ==
  ASSUME ReconcilingInv, NEW D, Reconciling!Ran(D), reconcilingStage \in Reading,
         Reconciling!Error \notin D => \A x \in BookSymbols \cup BookOrders :
           reconcilingSince[x] < at => (Reconciling!Differ(x) <=> \E d \in D : d.of = x)
  PROVE  ReconcilingInv'
<1> USE ReconcilingAssumption
<1>0. ReconcilingTyped /\ ReadsAreCurrent /\ ReportIsCurrent /\ ReportIsRecent
  BY DEF ReconcilingInv
<1>1. /\ report' = D /\ lastRun' = at /\ reconcilingStage' = "checked"
      /\ reconcilingPositions' = Reconciling!Flat /\ stored' = Reconciling!Flat /\ listed' = {}
      /\ UNCHANGED <<reconcilingNow, reconcilingRows, reconcilingKnown, reconcilingAccount,
           reconcilingOpen, at, reconcilingSince>>
  BY DEF Reconciling!Ran
<1>2. at \in 0..reconcilingNow /\ reconcilingNow \in Nat /\ at # Reconciling!Never
  BY <1>0 DEF ReconcilingTyped, ReadsAreCurrent
<1>3. ReconcilingTyped'
  <2>1. Reconciling!Flat \in [BookSymbols -> Nat]
    BY DEF Reconciling!Flat
  <2> QED
    BY <1>0, <1>1, <2>1 DEF ReconcilingTyped
<1>4. ReadsAreCurrent'
  BY <1>1 DEF ReadsAreCurrent, Reading
<1>5. \A x : Reconciling!Differ(x)' <=> Reconciling!Differ(x)
  BY <1>1 DEF Reconciling!Differ
<1>6. ReportIsCurrent'
  BY <1>1, <1>5 DEF ReportIsCurrent, Reconciling!Error
<1>7. ReportIsRecent'
  BY <1>1, <1>2 DEF ReportIsRecent
<1> QED
  BY <1>3, <1>4, <1>6, <1>7 DEF ReconcilingInv

LEMMA ReconcilerCompares ==
  ASSUME ReconcilingInv, Reconciling!Compare
  PROVE  ReconcilingInv'
<1> USE ReconcilingAssumption
<1> DEFINE D == Reconciling!DiffPositions \cup Reconciling!DiffOrders
<1>0. ReconcilingTyped /\ ReadsAreCurrent
  BY DEF ReconcilingInv
<1>1. reconcilingStage = "diff" /\ Reconciling!Ran(D) /\ reconcilingStage \in Reading
  BY DEF Reconciling!Compare, Reading
<1>2. ASSUME NEW x \in BookSymbols, reconcilingSince[x] < at
      PROVE Reconciling!Differ(x) <=> \E d \in D : d.of = x
  <2>1. reconcilingPositions[x] = reconcilingAccount[x] /\ stored[x] = reconcilingRows[x]
    BY <1>0, <1>1, <1>2 DEF ReadsAreCurrent
  <2>2. x \notin BookOrders
    OBVIOUS
  <2>3. \A d \in Reconciling!DiffOrders : d.of \in BookOrders
    BY <1>0 DEF Reconciling!DiffOrders, ReconcilingTyped
  <2>4. (\E d \in Reconciling!DiffPositions : d.of = x) <=> stored[x] # reconcilingPositions[x]
    <3>1. ASSUME stored[x] # reconcilingPositions[x]
          PROVE \E d \in Reconciling!DiffPositions : d.of = x
      <4> DEFINE m == [type |-> IF stored[x] = 0 THEN "missing_position"
                                ELSE IF reconcilingPositions[x] = 0 THEN "extra_position"
                                  ELSE "qty_mismatch",
                       of |-> x]
      <4>1. m \in Reconciling!DiffPositions
        BY <3>1 DEF Reconciling!DiffPositions
      <4>2. m.of = x
        OBVIOUS
      <4> HIDE DEF m
      <4> QED
        BY <4>1, <4>2
    <3>2. ASSUME NEW d \in Reconciling!DiffPositions, d.of = x
          PROVE stored[x] # reconcilingPositions[x]
      BY <3>2 DEF Reconciling!DiffPositions
    <3> QED
      BY <3>1, <3>2
  <2>5. Reconciling!Differ(x) <=> reconcilingRows[x] # reconcilingAccount[x]
    BY DEF Reconciling!Differ
  <2> QED
    BY <2>1, <2>2, <2>3, <2>4, <2>5
<1>3. ASSUME NEW x \in BookOrders, reconcilingSince[x] < at
      PROVE Reconciling!Differ(x) <=> \E d \in D : d.of = x
  <2>1. x \in listed <=> x \in reconcilingOpen
    BY <1>0, <1>1, <1>3 DEF ReadsAreCurrent
  <2>2. x \notin BookSymbols
    OBVIOUS
  <2>3. \A d \in Reconciling!DiffPositions : d.of \in BookSymbols
    BY DEF Reconciling!DiffPositions
  <2>4. (\E d \in Reconciling!DiffOrders : d.of = x)
          <=> (x \in listed \ reconcilingKnown \/ x \in reconcilingKnown \ listed)
    <3>1. ASSUME x \in listed \ reconcilingKnown \/ x \in reconcilingKnown \ listed
          PROVE \E d \in Reconciling!DiffOrders : d.of = x
      <4> DEFINE m == [type |-> "missing_order", of |-> x]
                 e == [type |-> "extra_order", of |-> x]
      <4>1. m \in Reconciling!DiffOrders \/ e \in Reconciling!DiffOrders
        BY <3>1 DEF Reconciling!DiffOrders
      <4>2. m.of = x /\ e.of = x
        OBVIOUS
      <4> HIDE DEF m, e
      <4> QED
        BY <4>1, <4>2
    <3>2. ASSUME NEW d \in Reconciling!DiffOrders, d.of = x
          PROVE x \in listed \ reconcilingKnown \/ x \in reconcilingKnown \ listed
      BY <3>2 DEF Reconciling!DiffOrders
    <3> QED
      BY <3>1, <3>2
  <2>5. Reconciling!Differ(x) <=> (x \in reconcilingOpen) # (x \in reconcilingKnown)
    BY <2>2 DEF Reconciling!Differ
  <2> QED
    BY <2>1, <2>2, <2>3, <2>4, <2>5
<1> HIDE DEF D
<1> QED
  BY <1>1, <1>2, <1>3, ReconcilerRan

LEMMA ReconcilerStep == ReconcilingInv /\ [Reconciling!Next]_reconcilingVars => ReconcilingInv'
<1> SUFFICES ASSUME ReconcilingInv, [Reconciling!Next]_reconcilingVars PROVE ReconcilingInv'
  OBVIOUS
<1> USE ReconcilingAssumption
<1>0. ReconcilingTyped /\ ReadsAreCurrent /\ ReportIsCurrent /\ ReportIsRecent
  BY DEF ReconcilingInv
<1>a. /\ reconcilingNow \in Nat \ {0} /\ lastRun \in 0..reconcilingNow /\ at \in 0..reconcilingNow
      /\ reconcilingSince \in [BookSymbols \cup BookOrders -> 0..reconcilingNow]
  BY <1>0 DEF ReconcilingTyped
<1>b. ASSUME UNCHANGED <<reconcilingRows, reconcilingKnown, reconcilingAccount, reconcilingOpen,
               lastRun, report, reconcilingSince>>
      PROVE  ReportIsCurrent'
  BY <1>0, <1>b DEF ReportIsCurrent, Reconciling!Differ, Reconciling!Error
<1>1. CASE UNCHANGED reconcilingVars
  BY <1>0, <1>b, <1>1 DEF reconcilingVars, ReconcilingInv, ReconcilingTyped, ReadsAreCurrent,
        ReportIsRecent
<1>2. CASE Reconciling!Heal
  <2>1. /\ reconcilingStage = "startup" /\ reconcilingStage' = "loop"
        /\ reconcilingRows' = Reconciling!Deleted /\ reconcilingKnown' = reconcilingKnown
        /\ reconcilingSince' = [x \in DOMAIN reconcilingSince |->
             IF x \in BookSymbols /\ reconcilingRows[x] # Reconciling!Deleted[x]
               THEN reconcilingNow ELSE reconcilingSince[x]]
        /\ UNCHANGED <<reconcilingNow, reconcilingAccount, reconcilingOpen, lastRun, at,
             reconcilingPositions, stored, listed, report>>
    BY <1>2 DEF Reconciling!Heal, Reconciling!OrdersHealed, Reconciling!read
  <2>2. lastRun = Reconciling!Never
    BY <1>0, <2>1 DEF ReportIsRecent
  <2>3. Reconciling!Deleted \in [BookSymbols -> Nat]
    BY <1>0 DEF Reconciling!Deleted, ReconcilingTyped
  <2>4. reconcilingSince' \in [BookSymbols \cup BookOrders -> 0..reconcilingNow]
    BY <1>a, <2>1
  <2>5. ReconcilingTyped'
    BY <1>0, <2>1, <2>3, <2>4 DEF ReconcilingTyped
  <2>6. ReadsAreCurrent' /\ ReportIsCurrent' /\ ReportIsRecent'
    BY <2>1, <2>2 DEF ReadsAreCurrent, ReportIsCurrent, ReportIsRecent, Reading
  <2> QED
    BY <2>5, <2>6 DEF ReconcilingInv
<1>3. CASE Reconciling!Skip
  <2>1. /\ lastRun # Reconciling!Never /\ ~(reconcilingNow - lastRun >= ReconcileInterval)
           /\ at' = reconcilingNow /\ reconcilingStage' = "checked"
        /\ UNCHANGED <<reconcilingNow, reconcilingRows, reconcilingKnown, reconcilingAccount,
             reconcilingOpen, lastRun, reconcilingPositions, stored, listed, report,
                       reconcilingSince>>
    BY <1>3 DEF Reconciling!Skip, Reconciling!Due, Reconciling!read
  <2>2. reconcilingNow < lastRun + ReconcileInterval
    BY <1>a, <2>1
  <2>3. ReconcilingTyped'
    BY <1>0, <1>a, <2>1 DEF ReconcilingTyped
  <2>4. ReadsAreCurrent' /\ ReportIsRecent'
    BY <2>1, <2>2 DEF ReadsAreCurrent, ReportIsRecent, Reading
  <2> QED
    BY <1>b, <2>1, <2>3, <2>4 DEF ReconcilingInv
<1>4. CASE Reconciling!ReadBrokerPositions
  <2>1. /\ at' = reconcilingNow /\ reconcilingPositions' = reconcilingAccount
           /\ reconcilingStage' = "positions"
        /\ UNCHANGED <<reconcilingNow, reconcilingRows, reconcilingKnown, reconcilingAccount,
             reconcilingOpen, lastRun, stored, listed, report, reconcilingSince>>
    BY <1>4 DEF Reconciling!ReadBrokerPositions
  <2>2. ReconcilingTyped'
    BY <1>0, <1>a, <2>1 DEF ReconcilingTyped, Reading
  <2>3. ReadsAreCurrent' /\ ReportIsRecent'
    BY <1>a, <2>1 DEF ReadsAreCurrent, ReportIsRecent, Reading, Reconciling!Never
  <2> QED
    BY <1>b, <2>1, <2>2, <2>3 DEF ReconcilingInv
<1>5. CASE Reconciling!ReadLocalPositions
  <2>1. /\ reconcilingStage = "positions" /\ stored' = reconcilingRows
           /\ reconcilingStage' = "orders"
        /\ UNCHANGED <<reconcilingNow, reconcilingRows, reconcilingKnown, reconcilingAccount,
             reconcilingOpen, lastRun, at, reconcilingPositions, listed, report,
               reconcilingSince>>
    BY <1>5 DEF Reconciling!ReadLocalPositions
  <2>2. ReconcilingTyped'
    BY <1>0, <2>1 DEF ReconcilingTyped, Reading
  <2>3. ReadsAreCurrent' /\ ReportIsRecent'
    BY <1>0, <2>1 DEF ReadsAreCurrent, ReportIsRecent, Reading
  <2> QED
    BY <1>b, <2>1, <2>2, <2>3 DEF ReconcilingInv
<1>6. CASE Reconciling!ReadBrokerOrders
  <2>1. /\ reconcilingStage = "orders" /\ listed' = reconcilingOpen /\ reconcilingStage' = "diff"
        /\ UNCHANGED <<reconcilingNow, reconcilingRows, reconcilingKnown, reconcilingAccount,
             reconcilingOpen, lastRun, at, reconcilingPositions, stored, report,
               reconcilingSince>>
    BY <1>6 DEF Reconciling!ReadBrokerOrders
  <2>2. ReconcilingTyped'
    BY <1>0, <2>1 DEF ReconcilingTyped, Reading
  <2>3. ReadsAreCurrent' /\ ReportIsRecent'
    BY <1>0, <2>1 DEF ReadsAreCurrent, ReportIsRecent, Reading
  <2> QED
    BY <1>b, <2>1, <2>2, <2>3 DEF ReconcilingInv
<1>7. CASE Reconciling!ReadFails
  <2>1. Reconciling!Ran({Reconciling!Error}) /\ reconcilingStage \in Reading
    BY <1>7 DEF Reconciling!ReadFails, Reading
  <2> QED
    BY <2>1, ReconcilerRan
<1>8. CASE Reconciling!EndCycle
  <2>1. /\ reconcilingStage = "checked" /\ reconcilingStage' = "loop"
        /\ UNCHANGED <<reconcilingNow, reconcilingRows, reconcilingKnown, reconcilingAccount,
             reconcilingOpen, lastRun, at, reconcilingPositions, stored, listed,
                       report, reconcilingSince>>
    BY <1>8 DEF Reconciling!EndCycle, Reconciling!read
  <2>2. ReconcilingTyped' /\ ReadsAreCurrent' /\ ReportIsRecent'
    BY <1>0, <2>1 DEF ReconcilingTyped, ReadsAreCurrent, ReportIsRecent, Reading
  <2> QED
    BY <1>b, <2>1, <2>2 DEF ReconcilingInv
<1>9. CASE Reconciling!Tick
  <2>1. /\ reconcilingNow' = reconcilingNow + 1
        /\ UNCHANGED <<reconcilingStage, reconcilingRows, reconcilingKnown, reconcilingAccount,
             reconcilingOpen, lastRun, at, reconcilingPositions, stored, listed,
                       report, reconcilingSince>>
    BY <1>9 DEF Reconciling!Tick, Reconciling!read
  <2>2. /\ reconcilingNow' \in Nat \ {0} /\ lastRun \in 0..reconcilingNow'
           /\ at \in 0..reconcilingNow'
        /\ reconcilingSince \in [BookSymbols \cup BookOrders -> 0..reconcilingNow']
    BY <1>a, <2>1
  <2>3. ReconcilingTyped' /\ ReadsAreCurrent' /\ ReportIsRecent'
    BY <1>0, <2>1, <2>2 DEF ReconcilingTyped, ReadsAreCurrent, ReportIsRecent
  <2> QED
    BY <1>b, <2>1, <2>3 DEF ReconcilingInv
<1>10. ASSUME NEW s \in BookSymbols, NEW q \in 0 .. BookQty, Reconciling!Book(s, q)
       PROVE ReconcilingInv'
  <2>1. /\ reconcilingRows' = [reconcilingRows EXCEPT ![s] = q]
           /\ reconcilingSince' = [reconcilingSince EXCEPT ![s] = reconcilingNow]
        /\ UNCHANGED <<reconcilingNow, reconcilingStage, reconcilingKnown, reconcilingAccount,
             reconcilingOpen, lastRun, at, reconcilingPositions, stored, listed,
                       report>>
    BY <1>10 DEF Reconciling!Book, Reconciling!Changed, Reconciling!read
  <2>2. /\ reconcilingRows' \in [BookSymbols -> Nat]
           /\ reconcilingAccount' \in [BookSymbols -> Nat]
        /\ reconcilingKnown' \subseteq BookOrders /\ reconcilingOpen' \subseteq BookOrders
        /\ \A t \in BookSymbols : t # s => reconcilingRows'[t] = reconcilingRows[t]
    BY <1>0, <2>1 DEF ReconcilingTyped
  <2> QED
    BY <2>1, <2>2, ReconcilerMoves
<1>11. ASSUME NEW s \in BookSymbols, NEW q \in 0 .. BookQty, Reconciling!Trade(s, q)
       PROVE ReconcilingInv'
  <2>1. /\ reconcilingAccount' = [reconcilingAccount EXCEPT ![s] = q]
           /\ reconcilingSince' = [reconcilingSince EXCEPT ![s] = reconcilingNow]
        /\ UNCHANGED <<reconcilingNow, reconcilingStage, reconcilingRows, reconcilingKnown,
             reconcilingOpen, lastRun, at, reconcilingPositions, stored, listed,
                       report>>
    BY <1>11 DEF Reconciling!Trade, Reconciling!Changed, Reconciling!read
  <2>2. /\ reconcilingRows' \in [BookSymbols -> Nat]
           /\ reconcilingAccount' \in [BookSymbols -> Nat]
        /\ reconcilingKnown' \subseteq BookOrders /\ reconcilingOpen' \subseteq BookOrders
        /\ \A t \in BookSymbols : t # s => reconcilingAccount'[t] = reconcilingAccount[t]
    BY <1>0, <2>1 DEF ReconcilingTyped
  <2> QED
    BY <2>1, <2>2, ReconcilerMoves
<1>12. ASSUME NEW o \in BookOrders, Reconciling!Track(o) PROVE ReconcilingInv'
  <2>1. /\ reconcilingKnown'
             = (IF o \in reconcilingKnown THEN reconcilingKnown \ {o}
               ELSE reconcilingKnown \cup {o})
        /\ reconcilingSince' = [reconcilingSince EXCEPT ![o] = reconcilingNow]
        /\ UNCHANGED <<reconcilingNow, reconcilingStage, reconcilingRows, reconcilingAccount,
             reconcilingOpen, lastRun, at, reconcilingPositions, stored, listed,
                       report>>
    BY <1>12 DEF Reconciling!Track, Reconciling!Changed, Reconciling!read
  <2>2. /\ reconcilingRows' \in [BookSymbols -> Nat]
           /\ reconcilingAccount' \in [BookSymbols -> Nat]
        /\ reconcilingKnown' \subseteq BookOrders /\ reconcilingOpen' \subseteq BookOrders
        /\ \A p \in BookOrders : p # o => (p \in reconcilingKnown' <=> p \in reconcilingKnown)
    BY <1>0, <2>1 DEF ReconcilingTyped
  <2> QED
    BY <2>1, <2>2, ReconcilerMoves
<1>13. ASSUME NEW o \in BookOrders, Reconciling!OpenOrEnd(o) PROVE ReconcilingInv'
  <2>1. /\ reconcilingOpen'
             = (IF o \in reconcilingOpen THEN reconcilingOpen \ {o} ELSE reconcilingOpen \cup {o})
        /\ reconcilingSince' = [reconcilingSince EXCEPT ![o] = reconcilingNow]
        /\ UNCHANGED <<reconcilingNow, reconcilingStage, reconcilingRows, reconcilingKnown,
             reconcilingAccount, lastRun, at, reconcilingPositions, stored, listed,
                       report>>
    BY <1>13 DEF Reconciling!OpenOrEnd, Reconciling!Changed, Reconciling!read
  <2>2. /\ reconcilingRows' \in [BookSymbols -> Nat]
           /\ reconcilingAccount' \in [BookSymbols -> Nat]
        /\ reconcilingKnown' \subseteq BookOrders /\ reconcilingOpen' \subseteq BookOrders
        /\ \A p \in BookOrders : p # o => (p \in reconcilingOpen' <=> p \in reconcilingOpen)
    BY <1>0, <2>1 DEF ReconcilingTyped
  <2> QED
    BY <2>1, <2>2, ReconcilerMoves
<1> QED
  BY <1>1, <1>2, <1>3, <1>4, <1>5, <1>6, <1>7, <1>8, <1>9, <1>10, <1>11, <1>12, <1>13,
     ReconcilerCompares DEF Reconciling!Next

(* A difference that has lasted for an interval when the loop checks is    *)
(* reported, and no report tells of what has been equal for that long, for *)
(* any symbols, orders and interval, unless a read failed.                 *)
THEOREM Drift == MCSpec => []DriftIsReported
<1>1. MCInit => ReconcilingInv
  BY Begins, ReconcilerInit
<1>2. ReconcilingInv /\ [MCNext]_allVars => ReconcilingInv'
  BY Moves, ReconcilerStep
<1>3. ReconcilingInv => DriftIsReported
  BY DriftIsFound DEF DriftIsReported
<1> QED
  BY <1>1, <1>2, <1>3, PTL DEF MCSpec

-----------------------------------------------------------------------------
(* EventHandlers.  A move is made once because the machine's records of an *)
(* order rise in rank (RanksRise) and because what a restart restores is   *)
(* the state there was or nothing (LastIsState); a handler's record comes  *)
(* once because it is owed from the machine's move to its own (EventIs-    *)
(* Held), and a crash only drops it.                                       *)

OrderState == {"PENDING", "REJECTED", "SUBMITTED", "PARTIALLY_FILLED", "FILLED", "CANCELLED"}
LogEntry == [by : {"machine", "handler"}, order : HandledOrders, state : OrderState]
IsOf(i, by, o, s) == i \in DOMAIN log /\ log[i] = [by |-> by, order |-> o, state |-> s]
Over == {"FILLED", "CANCELLED"}

(* How far an order has come.  A rejection may come before the call that   *)
(* submits it returns.                                                     *)
Rank(s) ==
  IF s = "PENDING" THEN 1 ELSE IF s = "REJECTED" THEN 2 ELSE IF s = "SUBMITTED" THEN 3
  ELSE IF s = "PARTIALLY_FILLED" THEN 4 ELSE 5

HandlersTyped ==
  /\ table \in [HandledOrders -> OrderState \cup {"absent"}] /\ log \in Seq(LogEntry)
  /\ updates
       \in [HandledOrders -> SUBSET {"new", "partially_filled", "filled", "canceled", "rejected",
                                    "expired", "pending_cancel"}]
  /\ handlersCalls \subseteq HandledOrders /\ DOMAIN handlersBroker = HandledOrders
  /\ \A o \in HandledOrders : handlersBroker[o] = "none" => updates[o] = {}

(* The machine's records of an order rise in rank, up to its state.        *)
RanksRise ==
  \A o \in HandledOrders, s, t \in OrderState, i, j \in DOMAIN log :
    IsOf(i, "machine", o, s) =>
      /\ IsOf(j, "machine", o, t) /\ i < j => Rank(s) < Rank(t)
      /\ table[o] # "absent" => Rank(s) <= Rank(table[o])

(* What a restart would restore is the state there is, or nothing.         *)
LastIsState ==
  \A o \in HandledOrders :
    /\ table[o] # "absent" => Handlers!Last(o) = table[o] \/ Handlers!Last(o) = "REJECTED"
    /\ table[o] = "absent" => Handlers!Last(o) = "absent" \/ Handlers!Last(o) \in Handlers!Final

CallsAreEarly == \A o \in handlersCalls : table[o] \in {"PENDING", "REJECTED"}

(* The handler that has moved an order and not yet recorded it.            *)
EventIsHeld ==
  handlersStage = "recording" =>
    LET o == event.order  s == event.to IN
      /\ o \in HandledOrders /\ s \in OrderState \ {"PENDING", "SUBMITTED"}
      /\ table[o] = s \/ (s = "REJECTED" /\ table[o] = "SUBMITTED")
      /\ \E j \in DOMAIN log : IsOf(j, "machine", o, s)
      /\ \A i \in DOMAIN log : ~IsOf(i, "handler", o, s)

HandlersFollow ==
  \A o \in HandledOrders, s \in OrderState, i \in DOMAIN log : IsOf(i, "handler", o, s) =>
    /\ \E j \in DOMAIN log : j < i /\ IsOf(j, "machine", o, s)
    /\ \A j \in DOMAIN log : IsOf(j, "handler", o, s) => i = j

EndsAreKept ==
  \A o \in HandledOrders, s \in Over, i \in DOMAIN log : IsOf(i, "machine", o, s) =>
    /\ table[o] \in {s, "absent"}
    /\ \A j \in DOMAIN log : j > i /\ log[j].order = o => log[j].state = s
    /\ \E u \in updates[o] : Handlers!Made(u) = s

HandlersInv ==
  /\ HandlersTyped /\ RanksRise /\ LastIsState /\ CallsAreEarly
  /\ EventIsHeld /\ HandlersFollow /\ EndsAreKept

-----------------------------------------------------------------------------
LEMMA NoTwo ==
  ASSUME NEW S, IsFiniteSet(S), \A i, j \in S : i = j
  PROVE  Cardinality(S) <= 1
<1>1. CASE S = {}
  BY <1>1, FS_EmptySet
<1>2. CASE S # {}
  <2>1. PICK x \in S : TRUE
    BY <1>2
  <2>2. S = {x}
    BY <2>1
  <2> QED
    BY <2>2, FS_Singleton
<1> QED
  BY <1>1, <1>2

LEMMA RecordsAreFinite ==
  ASSUME HandlersTyped, NEW by, NEW o, NEW s
  PROVE  IsFiniteSet(Handlers!Records(by, o, s))
<1>1. Len(log) \in Nat /\ DOMAIN log = 1..Len(log)
  BY DEF HandlersTyped
<1>2. IsFiniteSet(1..Len(log))
  BY <1>1, FS_Interval
<1>3. Handlers!Records(by, o, s) \subseteq 1..Len(log)
  BY <1>1 DEF Handlers!Records
<1> QED
  BY <1>2, <1>3, FS_Subset

LEMMA HandlersOnce == HandlersInv => Handlers!MovesAreRecordedOnce
<1> SUFFICES ASSUME HandlersInv, NEW o \in HandledOrders
             PROVE  /\ \A s \in Handlers!Final \cup {"PARTIALLY_FILLED"} :
                         /\ Cardinality(Handlers!Records("machine", o, s)) <= 1
                         /\ \A i \in Handlers!Records("handler", o, s) :
                              \E j \in Handlers!Records("machine", o, s) : j < i
                         /\ Cardinality(Handlers!Records("handler", o, s))
                              <= Cardinality(Handlers!Records("machine", o, s))
                    /\ \A s \in {"FILLED", "CANCELLED"} :
                         \A i \in Handlers!Records("machine", o, s) :
                         /\ \A j \in DOMAIN log : j > i /\ log[j].order = o => log[j].state = s
                         /\ \E u \in updates[o] : Handlers!Made(u) = s
  <2>1. \A S : Handlers!Cardinality(S) = Cardinality(S)
    BY DEF Handlers!Cardinality, Cardinality
  <2> QED
    BY <2>1 DEF Handlers!MovesAreRecordedOnce
<1>0. HandlersTyped /\ RanksRise /\ HandlersFollow /\ EndsAreKept
  BY DEF HandlersInv
<1>1. \A by, s, i : i \in Handlers!Records(by, o, s) <=> IsOf(i, by, o, s)
  BY DEF Handlers!Records, IsOf
<1>2. ASSUME NEW by \in {"machine", "handler"}, NEW s, Handlers!Records(by, o, s) # {}
      PROVE s \in OrderState
  <2>1. PICK i \in DOMAIN log : log[i] = [by |-> by, order |-> o, state |-> s]
    BY <1>2 DEF Handlers!Records
  <2>2. log[i] \in LogEntry
    BY <1>0 DEF HandlersTyped
  <2>3. log[i].state \in OrderState /\ log[i].state = s
    BY <2>1, <2>2 DEF LogEntry
  <2> QED
    BY <2>3
<1>3. ASSUME NEW s PROVE Cardinality(Handlers!Records("machine", o, s)) <= 1
  <2>1. \A i, j \in Handlers!Records("machine", o, s) : i = j
    <3> SUFFICES ASSUME NEW i \in Handlers!Records("machine", o, s),
                        NEW j \in Handlers!Records("machine", o, s), i # j
                 PROVE  FALSE
      OBVIOUS
    <3>1. /\ IsOf(i, "machine", o, s) /\ IsOf(j, "machine", o, s) /\ s \in OrderState
          /\ i \in DOMAIN log /\ j \in DOMAIN log
      BY <1>1, <1>2 DEF IsOf
    <3>2. i \in Nat /\ j \in Nat /\ Rank(s) \in Nat
      BY <1>0, <3>1 DEF HandlersTyped, Rank
    <3>3. CASE i < j
      BY <1>0, <3>1, <3>2, <3>3 DEF RanksRise
    <3>4. CASE j < i
      BY <1>0, <3>1, <3>2, <3>4 DEF RanksRise
    <3> QED
      BY <3>2, <3>3, <3>4
  <2> QED
    BY <1>0, <2>1, RecordsAreFinite, NoTwo
<1>4. ASSUME NEW s, NEW i \in Handlers!Records("handler", o, s)
      PROVE  \E j \in Handlers!Records("machine", o, s) : j < i
  <2>1. IsOf(i, "handler", o, s) /\ s \in OrderState /\ i \in DOMAIN log
    BY <1>1, <1>2 DEF IsOf
  <2> QED
    BY <1>0, <1>1, <2>1 DEF HandlersFollow
<1>5. ASSUME NEW s
      PROVE  Cardinality(Handlers!Records("handler", o, s))
               <= Cardinality(Handlers!Records("machine", o, s))
  <2>0. IsFiniteSet(Handlers!Records("handler", o, s))
        /\ IsFiniteSet(Handlers!Records("machine", o, s))
    BY <1>0, RecordsAreFinite
  <2>1. /\ Cardinality(Handlers!Records("machine", o, s)) \in Nat
        /\ Cardinality(Handlers!Records("handler", o, s)) \in Nat
    BY <2>0, FS_CardinalityType
  <2>2. CASE Handlers!Records("handler", o, s) = {}
    BY <2>1, <2>2, FS_EmptySet
  <2>3. CASE Handlers!Records("handler", o, s) # {}
    <3>0. s \in OrderState
      BY <1>2, <2>3
    <3>1. \A i, j \in Handlers!Records("handler", o, s) : i = j
      <4> SUFFICES ASSUME NEW i \in Handlers!Records("handler", o, s),
                          NEW j \in Handlers!Records("handler", o, s)
                   PROVE  i = j
        OBVIOUS
      <4>1. IsOf(i, "handler", o, s) /\ IsOf(j, "handler", o, s) /\ i \in DOMAIN log
            /\ j \in DOMAIN log
        BY <1>1 DEF IsOf
      <4> QED
        BY <1>0, <3>0, <4>1 DEF HandlersFollow
    <3>2. Cardinality(Handlers!Records("handler", o, s)) <= 1
      BY <2>0, <3>1, NoTwo
    <3>3. Handlers!Records("machine", o, s) # {}
      BY <1>4, <2>3
    <3>4. Cardinality(Handlers!Records("machine", o, s)) # 0
      BY <2>0, <3>3, FS_EmptySet
    <3> QED
      BY <2>1, <3>2, <3>4
  <2> QED
    BY <2>2, <2>3
<1>6. ASSUME NEW s \in {"FILLED", "CANCELLED"}, NEW i \in Handlers!Records("machine", o, s)
      PROVE  /\ \A j \in DOMAIN log : j > i /\ log[j].order = o => log[j].state = s
             /\ \E u \in updates[o] : Handlers!Made(u) = s
  <2>1. IsOf(i, "machine", o, s) /\ s \in Over /\ i \in DOMAIN log
    BY <1>1 DEF Over, IsOf
  <2> QED
    BY <1>0, <2>1 DEF EndsAreKept
<1> QED
  BY <1>3, <1>4, <1>5, <1>6

-----------------------------------------------------------------------------
LEMMA HandlersInit == Handlers!Init => HandlersInv
<1> SUFFICES ASSUME Handlers!Init PROVE HandlersInv
  OBVIOUS
<1>1. log = <<>> /\ DOMAIN log = {} /\ \A o \in HandledOrders : table[o] = "absent"
  BY DEF Handlers!Init
<1>2. \A o \in HandledOrders : Handlers!Last(o) = "absent"
  BY <1>1 DEF Handlers!Last
<1>3. HandlersTyped
  BY DEF Handlers!Init, HandlersTyped
<1> QED
  BY <1>1, <1>2, <1>3 DEF Handlers!Init, HandlersInv, RanksRise, LastIsState, CallsAreEarly,
        EventIsHeld,
                          HandlersFollow, EndsAreKept

(* One more record.                                                        *)
LEMMA OneMoreEntry ==
  ASSUME HandlersTyped, NEW r \in LogEntry, log' = Append(log, r)
  PROVE  /\ log' \in Seq(LogEntry) /\ Len(log) \in Nat /\ Len(log) + 1 \in DOMAIN log'
         /\ DOMAIN log = 1..Len(log) /\ log'[Len(log) + 1] = r
         /\ \A i \in DOMAIN log' : i \in DOMAIN log \/ i = Len(log) + 1
         /\ \A i \in DOMAIN log : i \in DOMAIN log' /\ log'[i] = log[i] /\ i < Len(log) + 1
  BY DEF HandlersTyped

LEMMA LastGrows ==
  ASSUME HandlersTyped, NEW r \in LogEntry, log' = Append(log, r)
  PROVE  /\ Handlers!Last(r.order)' = r.state
         /\ \A o : o # r.order => Handlers!Last(o)' = Handlers!Last(o)
<1> DEFINE n == Len(log) + 1
<1>1. /\ n \in DOMAIN log' /\ log'[n] = r /\ n \in Nat
      /\ \A i \in DOMAIN log' : i \in DOMAIN log \/ i = n
      /\ \A i \in DOMAIN log : i \in DOMAIN log' /\ log'[i] = log[i] /\ i < n /\ i \in Nat
  BY OneMoreEntry
<1> HIDE DEF n
<1>2. Handlers!Last(r.order)' = r.state
  <2> DEFINE of == {i \in DOMAIN log' : log'[i].order = r.order}
             k == CHOOSE i \in of : \A j \in of : j <= i
  <2>1. n \in of /\ \A j \in of : j <= n /\ j \in Nat
    BY <1>1
  <2> HIDE DEF of
  <2>2. k \in of /\ \A j \in of : j <= k
    BY <2>1, Zenon
  <2>3. k = n
    BY <1>1, <2>1, <2>2
  <2>4. Handlers!Last(r.order)' = IF of = {} THEN "absent" ELSE log'[k].state
    BY DEF Handlers!Last, of
  <2> QED
    BY <1>1, <2>1, <2>3, <2>4
<1>3. ASSUME NEW o, o # r.order PROVE Handlers!Last(o)' = Handlers!Last(o)
  <2> DEFINE of == {i \in DOMAIN log : log[i].order = o}
             more == {i \in DOMAIN log' : log'[i].order = o}
             k == CHOOSE i \in of : \A j \in of : j <= i
  <2>1. more = of
    BY <1>1, <1>3
  <2>2. Handlers!Last(o)' = IF of = {} THEN "absent" ELSE log'[k].state
    <3> HIDE DEF of, more
    <3>1. Handlers!Last(o)' = IF more = {} THEN "absent"
                     ELSE log'[CHOOSE i \in more : \A j \in more : j <= i].state
      BY DEF Handlers!Last, more
    <3> QED
      BY <2>1, <3>1
  <2>3. Handlers!Last(o) = IF of = {} THEN "absent" ELSE log[k].state
    BY DEF Handlers!Last
  <2>4. ASSUME of # {} PROVE log'[k] = log[k]
    <3>1. Len(log) \in Nat /\ of \subseteq 0..Len(log)
      BY DEF HandlersTyped
    <3>2. \E i \in of : \A j \in of : i >= j
      BY <2>4, <3>1, HasGreatest
    <3>3. k \in of
      <4>1. \E i \in of : \A j \in of : j <= i
        <5>1. PICK i \in of : \A j \in of : i >= j
          BY <3>2
        <5>2. \A j \in of : j \in Int
          BY <3>1
        <5> QED
          BY <5>1, <5>2
      <4> QED
        BY <4>1, Zenon
    <3> QED
      BY <1>1, <3>3
  <2> QED
    BY <2>2, <2>3, <2>4
<1> QED
  BY <1>2, <1>3

-----------------------------------------------------------------------------
(* The machine moves an order on, for a handler or for the engine.         *)
LEMMA MachineMoves ==
  ASSUME HandlersInv, NEW o \in HandledOrders, NEW s \in OrderState,
         table' = [table EXCEPT ![o] = s],
         log' = Append(log, [by |-> "machine", order |-> o, state |-> s]),
         UNCHANGED <<handlersBroker, updates>>,
         table[o] = "absent" => \A i \in DOMAIN log : log[i].order # o,
         table[o] # "absent" => Rank(table[o]) < Rank(s) /\ table[o] \notin Over,
         s \in Over => \E u \in updates[o] : Handlers!Made(u) = s,
         \A p \in handlersCalls' :
           p \in handlersCalls /\ (p = o => s \in {"PENDING", "REJECTED"}),
         \/ handlersStage' = "recording" /\ event' = [order |-> o, to |-> s]
            /\ s \notin {"PENDING", "SUBMITTED"}
         \/ /\ UNCHANGED <<handlersStage, event>>
            /\ handlersStage = "recording" /\ event.order = o
                 => event.to = "REJECTED" /\ s = "SUBMITTED"
  PROVE  HandlersInv'
<1> DEFINE r == [by |-> "machine", order |-> o, state |-> s]
<1>n. PICK n : n = Len(log) + 1
  OBVIOUS
<1>0. /\ HandlersTyped /\ RanksRise /\ LastIsState /\ CallsAreEarly
      /\ EventIsHeld /\ HandlersFollow /\ EndsAreKept
  BY DEF HandlersInv
<1>1. r \in LogEntry /\ r.by = "machine" /\ r.order = o /\ r.state = s
  BY DEF LogEntry
<1>2. /\ log' \in Seq(LogEntry) /\ n \in DOMAIN log' /\ log'[n] = r /\ n \in Nat
         /\ n \notin DOMAIN log
      /\ \A i \in DOMAIN log' : i \in DOMAIN log \/ i = n
      /\ \A i \in DOMAIN log : i \in DOMAIN log' /\ log'[i] = log[i] /\ i < n /\ i \in Nat
  BY <1>0, <1>1, <1>n, OneMoreEntry
<1>3. Handlers!Last(o)' = s /\ \A p : p # o => Handlers!Last(p)' = Handlers!Last(p)
  BY <1>0, <1>1, LastGrows
<1> HIDE DEF r
<1>4. /\ table' \in [HandledOrders -> OrderState \cup {"absent"}] /\ table'[o] = s
      /\ \A p \in HandledOrders : p # o => table'[p] = table[p]
  BY <1>0 DEF HandlersTyped
<1>5. /\ \A i, by, p, t : i \in DOMAIN log => (IsOf(i, by, p, t)' <=> IsOf(i, by, p, t))
      /\ IsOf(n, "machine", o, s)'
      /\ \A by, p, t : IsOf(n, by, p, t)' => by = "machine" /\ p = o /\ t = s
  <2>1. ASSUME NEW i \in DOMAIN log, NEW by, NEW p, NEW t
        PROVE IsOf(i, by, p, t)' <=> IsOf(i, by, p, t)
    <3>1. i \in DOMAIN log' /\ log'[i] = log[i]
      BY <1>1, <1>2
    <3> QED
      BY <3>1 DEF IsOf
  <2>2. IsOf(n, "machine", o, s)'
    BY <1>1, <1>2 DEF IsOf, r
  <2>3. ASSUME NEW by, NEW p, NEW t, IsOf(n, by, p, t)' PROVE by = "machine" /\ p = o /\ t = s
    <3>1. r = [by |-> by, order |-> p, state |-> t]
      BY <1>1, <1>2, <2>3 DEF IsOf
    <3> QED
      BY <1>1, <1>2, <3>1
  <2> QED
    BY <2>1, <2>2, <2>3
<1>6. HandlersTyped'
  <2>1. handlersCalls' \subseteq HandledOrders
    BY <1>0 DEF HandlersTyped
  <2> QED
    BY <1>0, <1>2, <1>4, <2>1 DEF HandlersTyped
<1>7. \A t \in OrderState, i \in DOMAIN log : IsOf(i, "machine", o, t) => Rank(t) < Rank(s)
  <2> SUFFICES ASSUME NEW t \in OrderState, NEW i \in DOMAIN log, IsOf(i, "machine", o, t)
               PROVE  Rank(t) < Rank(s)
    OBVIOUS
  <2>1. log[i].order = o
    BY DEF IsOf
  <2>2. table[o] # "absent"
    BY <2>1
  <2>3. Rank(t) <= Rank(table[o]) /\ Rank(table[o]) < Rank(s)
    BY <1>0, <2>2 DEF RanksRise
  <2>4. Rank(t) \in Nat /\ Rank(table[o]) \in Nat /\ Rank(s) \in Nat
    BY DEF Rank
  <2> QED
    BY <2>3, <2>4
<1>8. RanksRise'
  <2> SUFFICES ASSUME NEW p \in HandledOrders, NEW a \in OrderState, NEW b \in OrderState,
                      NEW i \in DOMAIN log', NEW j \in DOMAIN log', IsOf(i, "machine", p, a)'
               PROVE  /\ IsOf(j, "machine", p, b)' /\ i < j => Rank(a) < Rank(b)
                      /\ table'[p] # "absent" => Rank(a) <= Rank(table'[p])
    BY DEF RanksRise
  <2>0. Rank(a) \in Nat /\ Rank(s) \in Nat
    BY DEF Rank
  <2>1. CASE i = n
    <3>1. p = o /\ a = s
      BY <1>5, <2>1
    <3>2. ~(i < j)
      BY <1>2, <2>1
    <3> QED
      BY <1>4, <2>0, <3>1, <3>2
  <2>2. CASE i \in DOMAIN log
    <3>1. IsOf(i, "machine", p, a)
      BY <1>5, <2>2
    <3>2. ASSUME IsOf(j, "machine", p, b)', i < j PROVE Rank(a) < Rank(b)
      <4>1. CASE j = n
        <5>1. p = o /\ b = s
          BY <1>5, <3>2, <4>1
        <5> QED
          BY <1>7, <2>2, <3>1, <5>1
      <4>2. CASE j \in DOMAIN log
        <5>1. IsOf(j, "machine", p, b)
          BY <1>5, <3>2, <4>2
        <5> QED
          BY <1>0, <2>2, <3>1, <3>2, <4>2, <5>1 DEF RanksRise
      <4> QED
        BY <1>2, <4>1, <4>2
    <3>3. ASSUME table'[p] # "absent" PROVE Rank(a) <= Rank(table'[p])
      <4>1. CASE p = o
        BY <1>4, <1>7, <2>0, <2>2, <3>1, <4>1
      <4>2. CASE p # o
        BY <1>0, <1>4, <2>2, <3>1, <3>3, <4>2 DEF RanksRise
      <4> QED
        BY <4>1, <4>2
    <3> QED
      BY <3>2, <3>3
  <2> QED
    BY <1>2, <2>1, <2>2
<1>9. LastIsState'
  <2>1. s # "absent"
    BY DEF OrderState
  <2> QED
    BY <1>0, <1>3, <1>4, <2>1 DEF LastIsState
<1>10. CallsAreEarly'
  <2> SUFFICES ASSUME NEW p \in handlersCalls' PROVE table'[p] \in {"PENDING", "REJECTED"}
    BY DEF CallsAreEarly
  <2>1. p \in handlersCalls /\ p \in HandledOrders
    BY <1>0 DEF HandlersTyped
  <2> QED
    BY <1>0, <1>4, <2>1 DEF CallsAreEarly
<1>11. EventIsHeld'
  <2>1. ASSUME handlersStage' = "recording", event' = [order |-> o, to |-> s],
               s \notin {"PENDING", "SUBMITTED"}
        PROVE  EventIsHeld'
    <3>1. event'.order = o /\ event'.to = s
      BY <2>1
    <3>2. \A i \in DOMAIN log' : ~IsOf(i, "handler", o, s)'
      <4> SUFFICES ASSUME NEW i \in DOMAIN log', IsOf(i, "handler", o, s)' PROVE FALSE
        OBVIOUS
      <4>1. i \in DOMAIN log /\ IsOf(i, "handler", o, s)
        BY <1>2, <1>5
      <4>2. PICK j \in DOMAIN log : IsOf(j, "machine", o, s)
        BY <1>0, <4>1 DEF HandlersFollow
      <4>3. Rank(s) < Rank(s) /\ Rank(s) \in Nat
        BY <1>7, <4>2 DEF Rank
      <4> QED
        BY <4>3
    <3> QED
      BY <1>2, <1>4, <1>5, <2>1, <3>1, <3>2 DEF EventIsHeld
  <2>2. ASSUME UNCHANGED <<handlersStage, event>>, handlersStage = "recording",
               event.order = o => event.to = "REJECTED" /\ s = "SUBMITTED"
        PROVE  EventIsHeld'
    <3>0. PICK a, b : a = event.order /\ b = event.to
      OBVIOUS
    <3>1. /\ a \in HandledOrders /\ b \in OrderState \ {"PENDING", "SUBMITTED"}
          /\ table[a] = b \/ (b = "REJECTED" /\ table[a] = "SUBMITTED")
          /\ \E j \in DOMAIN log : IsOf(j, "machine", a, b)
          /\ \A i \in DOMAIN log : ~IsOf(i, "handler", a, b)
      BY <1>0, <2>2, <3>0 DEF EventIsHeld
    <3>2. table'[a] = b \/ (b = "REJECTED" /\ table'[a] = "SUBMITTED")
      BY <1>4, <2>2, <3>0, <3>1
    <3>3. \E j \in DOMAIN log' : IsOf(j, "machine", a, b)'
      BY <1>2, <1>5, <3>1
    <3>4. \A i \in DOMAIN log' : ~IsOf(i, "handler", a, b)'
      BY <1>2, <1>5, <3>1
    <3>5. a = event'.order /\ b = event'.to
      BY <2>2, <3>0
    <3> QED
      BY <3>1, <3>2, <3>3, <3>4, <3>5 DEF EventIsHeld
  <2>3. ASSUME UNCHANGED <<handlersStage, event>>, handlersStage # "recording" PROVE EventIsHeld'
    BY <2>3 DEF EventIsHeld
  <2> QED
    BY <2>1, <2>2, <2>3
<1>12. HandlersFollow'
  <2> SUFFICES ASSUME NEW p \in HandledOrders, NEW t \in OrderState, NEW i \in DOMAIN log',
                      IsOf(i, "handler", p, t)'
               PROVE  /\ \E j \in DOMAIN log' : j < i /\ IsOf(j, "machine", p, t)'
                      /\ \A j \in DOMAIN log' : IsOf(j, "handler", p, t)' => i = j
    BY DEF HandlersFollow
  <2>1. i \in DOMAIN log /\ IsOf(i, "handler", p, t)
    BY <1>2, <1>5
  <2>2. PICK j \in DOMAIN log : j < i /\ IsOf(j, "machine", p, t)
    BY <1>0, <2>1 DEF HandlersFollow
  <2>3. j \in DOMAIN log' /\ IsOf(j, "machine", p, t)'
    BY <1>2, <1>5, <2>2
  <2>4. \A k \in DOMAIN log' : IsOf(k, "handler", p, t)'
        => k \in DOMAIN log /\ IsOf(k, "handler", p, t)
    BY <1>2, <1>5
  <2>5. \A k \in DOMAIN log' : IsOf(k, "handler", p, t)' => i = k
    BY <1>0, <2>1, <2>4 DEF HandlersFollow
  <2> QED
    BY <2>2, <2>3, <2>5
<1>13. EndsAreKept'
  <2> SUFFICES ASSUME NEW p \in HandledOrders, NEW t \in Over, NEW i \in DOMAIN log',
                      IsOf(i, "machine", p, t)'
               PROVE  /\ table'[p] \in {t, "absent"}
                      /\ \A j \in DOMAIN log' : j > i /\ log'[j].order = p => log'[j].state = t
                      /\ \E u \in updates[p] : Handlers!Made(u) = t
    BY DEF EndsAreKept
  <2>1. CASE i = n
    <3>1. p = o /\ t = s
      BY <1>5, <2>1
    <3>2. \A j \in DOMAIN log' : ~(j > i)
      BY <1>2, <2>1
    <3> QED
      BY <1>4, <3>1, <3>2
  <2>2. CASE i \in DOMAIN log
    <3>1. IsOf(i, "machine", p, t)
      BY <1>5, <2>2
    <3>2. /\ table[p] \in {t, "absent"}
          /\ \A j \in DOMAIN log : j > i /\ log[j].order = p => log[j].state = t
          /\ \E u \in updates[p] : Handlers!Made(u) = t
      BY <1>0, <2>2, <3>1 DEF EndsAreKept
    <3>3. p # o
      <4> SUFFICES ASSUME p = o PROVE FALSE
        OBVIOUS
      <4>1. log[i].order = o
        BY <3>1 DEF IsOf
      <4>2. table[o] # "absent"
        BY <2>2, <4>1
      <4> QED
        BY <3>2, <4>2
    <3>4. \A j \in DOMAIN log' : j > i /\ log'[j].order = p => log'[j].state = t
      BY <1>1, <1>2, <3>2, <3>3
    <3> QED
      BY <1>4, <3>2, <3>3, <3>4
  <2> QED
    BY <1>2, <2>1, <2>2
<1> QED
  BY <1>6, <1>8, <1>9, <1>10, <1>11, <1>12, <1>13 DEF HandlersInv

LEMMA HandlerRecords ==
  ASSUME HandlersInv, Handlers!Record, NEW o, NEW s, o = event.order, s = event.to
  PROVE  HandlersInv'
<1> DEFINE r == [by |-> "handler", order |-> o, state |-> s]
<1>n. PICK n : n = Len(log) + 1
  OBVIOUS
<1>0. /\ HandlersTyped /\ RanksRise /\ LastIsState /\ CallsAreEarly
      /\ EventIsHeld /\ HandlersFollow /\ EndsAreKept
  BY DEF HandlersInv
<1>1. /\ handlersStage = "recording" /\ log' = Append(log, r) /\ handlersStage' = "idle"
      /\ UNCHANGED <<handlersBroker, handlersCalls, updates, table>>
  BY DEF Handlers!Record
<1>2. /\ o \in HandledOrders /\ s \in OrderState
      /\ table[o] = s \/ (s = "REJECTED" /\ table[o] = "SUBMITTED")
      /\ \E j \in DOMAIN log : IsOf(j, "machine", o, s)
      /\ \A i \in DOMAIN log : ~IsOf(i, "handler", o, s)
  BY <1>0, <1>1 DEF EventIsHeld
<1>3. r \in LogEntry /\ r.by = "handler" /\ r.order = o /\ r.state = s
  BY <1>2 DEF LogEntry
<1>4. /\ log' \in Seq(LogEntry) /\ n \in DOMAIN log' /\ log'[n] = r /\ n \in Nat
         /\ n \notin DOMAIN log
      /\ \A i \in DOMAIN log' : i \in DOMAIN log \/ i = n
      /\ \A i \in DOMAIN log : i \in DOMAIN log' /\ log'[i] = log[i] /\ i < n /\ i \in Nat
  BY <1>0, <1>1, <1>3, <1>n, OneMoreEntry
<1>5. Handlers!Last(o)' = s /\ \A p : p # o => Handlers!Last(p)' = Handlers!Last(p)
  BY <1>0, <1>1, <1>3, LastGrows
<1> HIDE DEF r
<1>6. /\ \A i, by, p, t : i \in DOMAIN log => (IsOf(i, by, p, t)' <=> IsOf(i, by, p, t))
      /\ IsOf(n, "handler", o, s)'
      /\ \A by, p, t : IsOf(n, by, p, t)' => by = "handler" /\ p = o /\ t = s
  <2>1. ASSUME NEW i \in DOMAIN log, NEW by, NEW p, NEW t
        PROVE IsOf(i, by, p, t)' <=> IsOf(i, by, p, t)
    <3>1. i \in DOMAIN log' /\ log'[i] = log[i]
      BY <1>3, <1>4
    <3> QED
      BY <3>1 DEF IsOf
  <2>2. IsOf(n, "handler", o, s)'
    BY <1>3, <1>4 DEF IsOf, r
  <2>3. ASSUME NEW by, NEW p, NEW t, IsOf(n, by, p, t)' PROVE by = "handler" /\ p = o /\ t = s
    <3>1. r = [by |-> by, order |-> p, state |-> t]
      BY <1>3, <1>4, <2>3 DEF IsOf
    <3> QED
      BY <1>3, <1>4, <3>1
  <2> QED
    BY <2>1, <2>2, <2>3
<1>7. \A i, p, t : IsOf(i, "machine", p, t)' => i \in DOMAIN log /\ IsOf(i, "machine", p, t)
  <2> SUFFICES ASSUME NEW i, NEW p, NEW t, IsOf(i, "machine", p, t)'
               PROVE  i \in DOMAIN log /\ IsOf(i, "machine", p, t)
    OBVIOUS
  <2>1. i \in DOMAIN log'
    BY DEF IsOf
  <2>2. i # n
    BY <1>6
  <2> QED
    BY <1>4, <1>6, <2>1, <2>2
<1>8. HandlersTyped'
  BY <1>0, <1>1, <1>4 DEF HandlersTyped
<1>9. RanksRise'
  <2> SUFFICES ASSUME NEW p \in HandledOrders, NEW a \in OrderState, NEW b \in OrderState,
                      NEW i \in DOMAIN log', NEW j \in DOMAIN log', IsOf(i, "machine", p, a)'
               PROVE  /\ IsOf(j, "machine", p, b)' /\ i < j => Rank(a) < Rank(b)
                      /\ table[p] # "absent" => Rank(a) <= Rank(table[p])
    BY <1>1 DEF RanksRise
  <2>1. i \in DOMAIN log /\ IsOf(i, "machine", p, a)
    BY <1>7
  <2>2. IsOf(j, "machine", p, b)' => j \in DOMAIN log /\ IsOf(j, "machine", p, b)
    BY <1>7
  <2> QED
    BY <1>0, <2>1, <2>2 DEF RanksRise
<1>10. LastIsState'
  <2>1. s # "absent"
    BY <1>2 DEF OrderState
  <2>2. ASSUME NEW p \in HandledOrders
        PROVE  /\ table[p] # "absent"
                    => Handlers!Last(p)' = table[p] \/ Handlers!Last(p)' = "REJECTED"
               /\ table[p] = "absent"
                    => Handlers!Last(p)' = "absent" \/ Handlers!Last(p)' \in Handlers!Final
    BY <1>0, <1>2, <1>5, <2>1 DEF LastIsState
  <2> QED
    BY <1>1, <2>2 DEF LastIsState
<1>11. CallsAreEarly' /\ EventIsHeld'
  BY <1>0, <1>1 DEF CallsAreEarly, EventIsHeld
<1>12. HandlersFollow'
  <2> SUFFICES ASSUME NEW p \in HandledOrders, NEW t \in OrderState, NEW i \in DOMAIN log',
                      IsOf(i, "handler", p, t)'
               PROVE  /\ \E j \in DOMAIN log' : j < i /\ IsOf(j, "machine", p, t)'
                      /\ \A j \in DOMAIN log' : IsOf(j, "handler", p, t)' => i = j
    BY DEF HandlersFollow
  <2>1. CASE i = n
    <3>1. p = o /\ t = s
      BY <1>6, <2>1
    <3>2. PICK j \in DOMAIN log : IsOf(j, "machine", o, s)
      BY <1>2
    <3>3. j \in DOMAIN log' /\ j < i /\ IsOf(j, "machine", p, t)'
      BY <1>4, <1>6, <2>1, <3>1, <3>2
    <3>4. \A k \in DOMAIN log' : IsOf(k, "handler", p, t)' => k = n
      BY <1>2, <1>4, <1>6, <3>1
    <3> QED
      BY <2>1, <3>3, <3>4
  <2>2. CASE i \in DOMAIN log
    <3>1. IsOf(i, "handler", p, t)
      BY <1>6, <2>2
    <3>2. PICK j \in DOMAIN log : j < i /\ IsOf(j, "machine", p, t)
      BY <1>0, <2>2, <3>1 DEF HandlersFollow
    <3>3. j \in DOMAIN log' /\ IsOf(j, "machine", p, t)'
      BY <1>4, <1>6, <3>2
    <3>4. ASSUME NEW k \in DOMAIN log', IsOf(k, "handler", p, t)' PROVE i = k
      <4>1. k \in DOMAIN log
        BY <1>2, <1>4, <1>6, <2>2, <3>1, <3>4
      <4>2. IsOf(k, "handler", p, t)
        BY <1>6, <3>4, <4>1
      <4> QED
        BY <1>0, <2>2, <3>1, <4>1, <4>2 DEF HandlersFollow
    <3> QED
      BY <3>2, <3>3, <3>4
  <2> QED
    BY <1>4, <2>1, <2>2
<1>13. EndsAreKept'
  <2> SUFFICES ASSUME NEW p \in HandledOrders, NEW t \in Over, NEW i \in DOMAIN log',
                      IsOf(i, "machine", p, t)'
               PROVE  /\ table[p] \in {t, "absent"}
                      /\ \A j \in DOMAIN log' : j > i /\ log'[j].order = p => log'[j].state = t
                      /\ \E u \in updates[p] : Handlers!Made(u) = t
    BY <1>1 DEF EndsAreKept
  <2>1. i \in DOMAIN log /\ IsOf(i, "machine", p, t)
    BY <1>7
  <2>2. /\ table[p] \in {t, "absent"}
        /\ \A j \in DOMAIN log : j > i /\ log[j].order = p => log[j].state = t
        /\ \E u \in updates[p] : Handlers!Made(u) = t
    BY <1>0, <2>1 DEF EndsAreKept
  <2>3. p = o => s = t
    BY <1>2, <2>2 DEF Over, OrderState
  <2>4. ASSUME NEW j \in DOMAIN log', j > i, log'[j].order = p PROVE log'[j].state = t
    <3>1. CASE j = n
      BY <1>3, <1>4, <2>3, <2>4, <3>1
    <3>2. CASE j \in DOMAIN log
      BY <1>4, <2>2, <2>4, <3>2
    <3> QED
      BY <1>4, <3>1, <3>2
  <2> QED
    BY <2>2, <2>4
<1> QED
  BY <1>8, <1>9, <1>10, <1>11, <1>12, <1>13 DEF HandlersInv

(* A restart leaves an order as it was or drops it.                        *)
LEMMA HandlersCrash ==
  ASSUME HandlersInv, Handlers!Crash
  PROVE  HandlersInv'
<1>0. /\ HandlersTyped /\ RanksRise /\ LastIsState /\ CallsAreEarly
      /\ EventIsHeld /\ HandlersFollow /\ EndsAreKept
  BY DEF HandlersInv
<1>1. /\ table'
           = [o \in HandledOrders |-> IF Handlers!Last(o) \in Handlers!Final THEN "absent"
             ELSE Handlers!Last(o)]
      /\ handlersStage' = "idle" /\ handlersCalls' = {}
         /\ UNCHANGED <<handlersBroker, updates, log>>
  BY DEF Handlers!Crash
<1>2. ASSUME NEW o \in HandledOrders
      PROVE  /\ table'[o] \in OrderState \cup {"absent"}
             /\ table'[o] # "absent" => table'[o] = table[o] /\ Handlers!Last(o) = table'[o]
             /\ table'[o] = "absent"
                  => Handlers!Last(o) = "absent" \/ Handlers!Last(o) \in Handlers!Final
  <2>1. table[o] \in OrderState \cup {"absent"} /\ "REJECTED" \in Handlers!Final
    BY <1>0 DEF HandlersTyped, Handlers!Final
  <2>2. table'[o] = IF Handlers!Last(o) \in Handlers!Final THEN "absent" ELSE Handlers!Last(o)
    BY <1>1
  <2>3. CASE table[o] = "absent"
    BY <1>0, <2>2, <2>3 DEF LastIsState
  <2>4. CASE table[o] # "absent"
    <3>1. Handlers!Last(o) = table[o] \/ Handlers!Last(o) = "REJECTED"
      BY <1>0, <2>4 DEF LastIsState
    <3> QED
      BY <2>1, <2>2, <2>4, <3>1
  <2> QED
    BY <2>3, <2>4
<1>3. \A i, by, p, t : IsOf(i, by, p, t)' <=> IsOf(i, by, p, t)
  BY <1>1 DEF IsOf
<1>4. HandlersTyped'
  <2>1. table' \in [HandledOrders -> OrderState \cup {"absent"}]
    <3>1. table' = [o \in HandledOrders |-> table'[o]]
      BY <1>1
    <3> QED
      BY <1>2, <3>1
  <2> QED
    BY <1>0, <1>1, <2>1 DEF HandlersTyped
<1>5. RanksRise'
  BY <1>0, <1>1, <1>2, <1>3 DEF RanksRise
<1>6. LastIsState'
  <2>1. \A o : Handlers!Last(o)' = Handlers!Last(o)
    BY <1>1 DEF Handlers!Last
  <2> QED
    BY <1>2, <2>1 DEF LastIsState
<1>7. CallsAreEarly' /\ EventIsHeld'
  BY <1>1 DEF CallsAreEarly, EventIsHeld
<1>8. HandlersFollow'
  BY <1>0, <1>1, <1>3 DEF HandlersFollow
<1>9. EndsAreKept'
  <2> SUFFICES ASSUME NEW p \in HandledOrders, NEW t \in Over, NEW i \in DOMAIN log,
                      IsOf(i, "machine", p, t)
               PROVE  /\ table'[p] \in {t, "absent"}
                      /\ \A j \in DOMAIN log : j > i /\ log[j].order = p => log[j].state = t
                      /\ \E u \in updates[p] : Handlers!Made(u) = t
    BY <1>1, <1>3 DEF EndsAreKept
  <2>1. /\ table[p] \in {t, "absent"}
        /\ \A j \in DOMAIN log : j > i /\ log[j].order = p => log[j].state = t
        /\ \E u \in updates[p] : Handlers!Made(u) = t
    BY <1>0 DEF EndsAreKept
  <2> QED
    BY <1>2, <2>1
<1> QED
  BY <1>4, <1>5, <1>6, <1>7, <1>8, <1>9 DEF HandlersInv

LEMMA HandlersStep == HandlersInv /\ [Handlers!Next]_handlersVars => HandlersInv'
<1> SUFFICES ASSUME HandlersInv, [Handlers!Next]_handlersVars PROVE HandlersInv'
  OBVIOUS
<1>0. /\ HandlersTyped /\ RanksRise /\ LastIsState /\ CallsAreEarly
      /\ EventIsHeld /\ HandlersFollow /\ EndsAreKept
  BY DEF HandlersInv
<1>1. ASSUME UNCHANGED <<table, log, handlersStage, event>>,
             handlersCalls' \subseteq HandledOrders, HandlersTyped',
             \A o \in handlersCalls' : table[o] \in {"PENDING", "REJECTED"},
             \A o \in HandledOrders : updates[o] \subseteq updates'[o]
      PROVE  HandlersInv'
  <2>1. /\ \A i, by, p, t : IsOf(i, by, p, t)' <=> IsOf(i, by, p, t)
        /\ \A o : Handlers!Last(o)' = Handlers!Last(o)
    BY <1>1 DEF IsOf, Handlers!Last
  <2>2. RanksRise' /\ HandlersFollow'
    BY <1>0, <1>1, <2>1 DEF RanksRise, HandlersFollow
  <2>3. LastIsState' /\ CallsAreEarly'
    BY <1>0, <1>1, <2>1 DEF LastIsState, CallsAreEarly
  <2>4. EventIsHeld'
    BY <1>0, <1>1, <2>1 DEF EventIsHeld
  <2>5. EndsAreKept'
    <3> SUFFICES ASSUME NEW p \in HandledOrders, NEW t \in Over, NEW i \in DOMAIN log,
                        IsOf(i, "machine", p, t)
                 PROVE  /\ table[p] \in {t, "absent"}
                        /\ \A j \in DOMAIN log : j > i /\ log[j].order = p => log[j].state = t
                        /\ \E u \in updates'[p] : Handlers!Made(u) = t
      BY <1>1, <2>1 DEF EndsAreKept
    <3>1. /\ table[p] \in {t, "absent"}
          /\ \A j \in DOMAIN log : j > i /\ log[j].order = p => log[j].state = t
          /\ \E u \in updates[p] : Handlers!Made(u) = t
      BY <1>0 DEF EndsAreKept
    <3> QED
      BY <1>1, <3>1
  <2> QED
    BY <1>1, <2>2, <2>3, <2>4, <2>5 DEF HandlersInv
<1>2. CASE UNCHANGED handlersVars
  BY <1>0, <1>1, <1>2 DEF handlersVars, HandlersTyped, CallsAreEarly
<1>3. ASSUME NEW o \in HandledOrders, Handlers!CreateOrder(o) PROVE HandlersInv'
  <2>1. /\ table[o] = "absent" /\ \A i \in DOMAIN log : log[i].order # o
        /\ table' = [table EXCEPT ![o] = "PENDING"]
        /\ log' = Append(log, [by |-> "machine", order |-> o, state |-> "PENDING"])
        /\ UNCHANGED <<handlersBroker, handlersCalls, updates, handlersStage, event>>
    BY <1>3 DEF Handlers!CreateOrder
  <2>2. handlersStage = "recording" => event.order # o
    BY <1>0, <2>1 DEF EventIsHeld, OrderState
  <2>3. "PENDING" \in OrderState /\ "PENDING" \notin Over
    BY DEF OrderState, Over
  <2> QED
    BY <2>1, <2>2, <2>3, MachineMoves
<1>4. ASSUME NEW o \in HandledOrders, Handlers!Submit(o) PROVE HandlersInv'
  <2>1. /\ table[o] = "PENDING" /\ handlersBroker[o] = "none"
           /\ handlersCalls' = handlersCalls \cup {o}
        /\ handlersBroker' = [handlersBroker EXCEPT ![o] = "new"]
           /\ updates' = [updates EXCEPT ![o] = {"new"}]
        /\ UNCHANGED <<table, log, handlersStage, event>>
    BY <1>4 DEF Handlers!Submit
  <2>2. updates[o] = {}
    BY <1>0, <2>1 DEF HandlersTyped
  <2>3. \A p \in HandledOrders : updates[p] \subseteq updates'[p]
    BY <1>0, <2>1, <2>2 DEF HandlersTyped
  <2>4. HandlersTyped'
    <3>1. updates'
            \in [HandledOrders -> SUBSET {"new", "partially_filled", "filled", "canceled",
              "rejected",
                                          "expired", "pending_cancel"}]
      BY <1>0, <2>1 DEF HandlersTyped
    <3>2. \A p \in HandledOrders : handlersBroker'[p] = "none" => updates'[p] = {}
      BY <1>0, <2>1 DEF HandlersTyped
    <3> QED
      BY <1>0, <2>1, <3>1, <3>2 DEF HandlersTyped
  <2> QED
    BY <1>0, <1>1, <2>1, <2>3, <2>4 DEF HandlersTyped, CallsAreEarly
<1>5. ASSUME NEW o \in HandledOrders, Handlers!SubmitReturns(o) PROVE HandlersInv'
  <2>1. /\ o \in handlersCalls /\ handlersCalls' = handlersCalls \ {o}
        /\ table' = [table EXCEPT ![o] = "SUBMITTED"]
        /\ log' = Append(log, [by |-> "machine", order |-> o, state |-> "SUBMITTED"])
        /\ UNCHANGED <<handlersBroker, updates, handlersStage, event>>
    BY <1>5 DEF Handlers!SubmitReturns
  <2>2. table[o] \in {"PENDING", "REJECTED"}
    BY <1>0, <2>1 DEF CallsAreEarly
  <2>3. Rank(table[o]) < Rank("SUBMITTED") /\ table[o] \notin Over /\ table[o] # "absent"
    BY <2>2 DEF Rank, Over
  <2>4. handlersStage = "recording" /\ event.order = o => event.to = "REJECTED"
    BY <1>0, <2>2 DEF EventIsHeld
  <2>5. "SUBMITTED" \in OrderState /\ "SUBMITTED" \notin Over
    BY DEF OrderState, Over
  <2> QED
    BY <2>1, <2>3, <2>4, <2>5, MachineMoves
<1>6. ASSUME NEW o \in HandledOrders, Handlers!BrokerMoves(o) PROVE HandlersInv'
  <2>1. PICK s \in Handlers!Moves(handlersBroker[o]) :
               /\ handlersBroker' = [handlersBroker EXCEPT ![o] = s]
                                      /\ updates' = [updates EXCEPT ![o] = @ \cup {s}]
    BY <1>6 DEF Handlers!BrokerMoves
  <2>2. UNCHANGED <<handlersCalls, table, log, handlersStage, event>>
    BY <1>6 DEF Handlers!BrokerMoves, Handlers!machine
  <2>3. s \in {"partially_filled", "filled", "canceled", "rejected", "expired", "pending_cancel"}
    BY <2>1 DEF Handlers!Moves
  <2>4. HandlersTyped'
    <3>1. updates'
            \in [HandledOrders -> SUBSET {"new", "partially_filled", "filled", "canceled",
              "rejected",
                                          "expired", "pending_cancel"}]
      BY <1>0, <2>1, <2>3 DEF HandlersTyped
    <3>2. \A p \in HandledOrders : handlersBroker'[p] = "none" => updates'[p] = {}
      BY <1>0, <2>1, <2>3 DEF HandlersTyped
    <3> QED
      BY <1>0, <2>1, <2>2, <3>1, <3>2 DEF HandlersTyped
  <2>5. \A p \in HandledOrders : updates[p] \subseteq updates'[p]
    BY <1>0, <2>1 DEF HandlersTyped
  <2> QED
    BY <1>0, <1>1, <2>2, <2>4, <2>5 DEF HandlersTyped, CallsAreEarly
<1>7. ASSUME NEW o \in HandledOrders,
             NEW s \in {"FILLED", "PARTIALLY_FILLED", "CANCELLED", "REJECTED"},
             Handlers!Handle(o, s)
      PROVE  HandlersInv'
  <2>1. /\ handlersStage = "idle" /\ (\E u \in updates[o] : Handlers!Made(u) = s)
           /\ Handlers!Allowed(table[o], s)
        /\ table[o] # "absent" /\ table' = [table EXCEPT ![o] = s]
        /\ log' = Append(log, [by |-> "machine", order |-> o, state |-> s])
        /\ handlersStage' = "recording" /\ event' = [order |-> o, to |-> s]
        /\ UNCHANGED <<handlersBroker, handlersCalls, updates>>
    BY <1>7 DEF Handlers!Handle
  <2>2. Rank(table[o]) < Rank(s) /\ table[o] \notin Over
    BY <2>1 DEF Handlers!Allowed, Rank, Over
  <2>3. \A p \in handlersCalls' : p \in handlersCalls /\ (p = o => s \in {"PENDING", "REJECTED"})
    BY <1>0, <2>1 DEF CallsAreEarly, Handlers!Allowed
  <2>4. s \in OrderState /\ s \notin {"PENDING", "SUBMITTED"}
    BY DEF OrderState
  <2> QED
    BY <2>1, <2>2, <2>3, <2>4, MachineMoves
<1> QED
  BY <1>2, <1>3, <1>4, <1>5, <1>6, <1>7, HandlerRecords, HandlersCrash
  DEF Handlers!Next, Handlers!HandleOrderFilled, Handlers!HandleOrderPartiallyFilled,
         Handlers!HandleOrderCancelled, Handlers!HandleOrderRejected

(* For any orders, updates and restarts: an order makes each move at most  *)
(* once, its handler records it at most once and after the machine did, a  *)
(* filled or cancelled order moves no more, and the broker told of it.     *)
THEOREM RecordedOnce == MCSpec => []MovesAreRecordedOnce
<1>1. MCInit => HandlersInv
  BY Begins, HandlersInit
<1>2. HandlersInv /\ [MCNext]_allVars => HandlersInv'
  BY Moves, HandlersStep
<1>3. HandlersInv => MovesAreRecordedOnce
  BY HandlersOnce DEF MovesAreRecordedOnce
<1> QED
  BY <1>1, <1>2, <1>3, PTL DEF MCSpec

-----------------------------------------------------------------------------
(* Protections.  A loss is looked at when no other protection holds, which *)
(* may be long after it; LossesAreHeld says what a look has left behind:   *)
(* the loss holds the cooldown until its own is past, or it is past.       *)

Closed == [symbol : GuardedSymbols, profit : Guards!Profits, close : Nat]

GuardsTyped ==
  /\ guardsNow \in Nat /\ coolUntil \in Nat /\ lastCheck \in Nat /\ lastCheck <= guardsNow
  /\ resetAt \in Nat
  /\ trades \in Seq(Closed)

TradesAreClosed == \A i \in DOMAIN trades : trades[i].close <= guardsNow

(* A major loss that was looked at is past its cooldown or holds it.       *)
LossesAreHeld ==
  \A i \in DOMAIN trades :
    trades[i].profit <= -MajorLoss /\ trades[i].close > resetAt /\ trades[i].close <= lastCheck =>
      \/ guardsNow >= trades[i].close + LossCooldown
      \/ coolUntil >= trades[i].close + LossCooldown

GuardsInv == GuardsTyped /\ TradesAreClosed /\ LossesAreHeld /\ Guards!MajorLossIsCooled

-----------------------------------------------------------------------------
LEMMA GuardsInit == Guards!Init => GuardsInv
  BY DEF Guards!Init, GuardsInv, GuardsTyped, TradesAreClosed, LossesAreHeld,
        Guards!MajorLossIsCooled

(* A check looks at the trades only when no cooldown holds.                *)
LEMMA CheckHolds ==
  ASSUME GuardsInv, NEW s, NEW volatile, Guards!Check(s, volatile)
  PROVE  GuardsInv'
<1>0. GuardsTyped /\ TradesAreClosed /\ LossesAreHeld
  BY DEF GuardsInv
<1> DEFINE On(name) == name \in guardsEnabled
           stopped == On("StoplossGuard")
           /\ (Guards!Held(guardsBlocked[s]) \/ Guards!StoplossTriggers(s))
           drawn == On("MaxDrawdown") /\ (Guards!Held(drawUntil) \/ Guards!DrawdownTriggers)
           reached == On("CooldownPeriod") /\ ~stopped /\ ~drawn
<1>1. /\ coolUntil' = Guards!Renewed(reached, coolUntil, Guards!CooldownTriggers, LossCooldown)
      /\ lastCheck' = IF reached /\ ~Guards!Held(coolUntil) /\ trades # <<>> THEN guardsNow
           ELSE lastCheck
      /\ UNCHANGED <<guardsNow, trades, guardsEnabled, resetAt>>
  BY DEF Guards!Check
<1>2. answer' = "allowed" /\ "CooldownPeriod" \in guardsEnabled =>
        reached /\ ~Guards!Held(coolUntil) /\ ~Guards!CooldownTriggers
  BY DEF Guards!Check
<1> HIDE DEF reached
<1>3. /\ guardsNow \in Nat /\ coolUntil \in Nat /\ lastCheck \in Nat /\ lastCheck <= guardsNow
         /\ resetAt \in Nat
      /\ trades \in Seq(Closed) /\ LossCooldown \in Nat
  BY <1>0, GuardsAssumption DEF GuardsTyped
<1>4. \A i \in DOMAIN trades : trades[i].close \in Nat /\ trades[i].close <= guardsNow
  <2> SUFFICES ASSUME NEW i \in DOMAIN trades
               PROVE trades[i].close \in Nat /\ trades[i].close <= guardsNow
    OBVIOUS
  <2>1. trades[i] \in Closed
    BY <1>3
  <2> QED
    BY <1>0, <2>1 DEF Closed, TradesAreClosed
<1>5. coolUntil' \in Nat /\ (~reached \/ Guards!Held(coolUntil) => coolUntil' = coolUntil)
  BY <1>1, <1>3 DEF Guards!Renewed
<1>6. /\ reached /\ ~Guards!Held(coolUntil) /\ Guards!CooldownTriggers
           => coolUntil' = guardsNow + LossCooldown
      /\ reached /\ ~Guards!Held(coolUntil) /\ ~Guards!CooldownTriggers => coolUntil' = 0
  BY <1>1 DEF Guards!Renewed
<1>7. ~Guards!Held(coolUntil) => coolUntil = 0 \/ guardsNow >= coolUntil
  BY <1>3 DEF Guards!Held
<1>8. GuardsTyped'
  BY <1>1, <1>3, <1>5 DEF GuardsTyped
<1>9. TradesAreClosed'
  BY <1>0, <1>1 DEF TradesAreClosed
(* One that was looked at before, when no cooldown holds, is past its own. *)
<1>10. ASSUME ~Guards!Held(coolUntil), NEW i \in DOMAIN trades, trades[i].profit <= -MajorLoss,
              trades[i].close > resetAt, trades[i].close <= lastCheck
       PROVE  guardsNow >= trades[i].close + LossCooldown
  <2>1. \/ guardsNow >= trades[i].close + LossCooldown
        \/ coolUntil >= trades[i].close + LossCooldown
    BY <1>0, <1>10 DEF LossesAreHeld
  <2>2. trades[i].close \in Nat
    BY <1>4
  <2> QED
    BY <1>3, <1>7, <1>10, <2>1, <2>2
<1>11. ASSUME NEW i \in DOMAIN trades, trades[i].profit <= -MajorLoss, ~Guards!CooldownTriggers
       PROVE  trades[i].close <= lastCheck
  <2>1. ~(trades[i].close > lastCheck)
    BY <1>11 DEF Guards!CooldownTriggers, Guards!Unseen
  <2> QED
    BY <1>3, <1>4, <2>1
<1>12. LossesAreHeld'
  <2> SUFFICES ASSUME NEW i \in DOMAIN trades, trades[i].profit <= -MajorLoss,
                      trades[i].close > resetAt, trades[i].close <= lastCheck'
               PROVE  \/ guardsNow >= trades[i].close + LossCooldown
                      \/ coolUntil' >= trades[i].close + LossCooldown
    BY <1>1 DEF LossesAreHeld
  <2>1. CASE ~reached \/ Guards!Held(coolUntil)
    <3>1. coolUntil' = coolUntil /\ lastCheck' = lastCheck
      BY <1>1, <1>5, <2>1
    <3> QED
      BY <1>0, <3>1 DEF LossesAreHeld
  <2>2. CASE reached /\ ~Guards!Held(coolUntil) /\ Guards!CooldownTriggers
    BY <1>3, <1>4, <1>6, <2>2
  <2>3. CASE reached /\ ~Guards!Held(coolUntil) /\ ~Guards!CooldownTriggers
    BY <1>10, <1>11, <2>3
  <2> QED
    BY <2>1, <2>2, <2>3
<1>13. Guards!MajorLossIsCooled'
  <2> SUFFICES ASSUME answer' = "allowed", "CooldownPeriod" \in guardsEnabled,
                      NEW i \in DOMAIN trades,
                      trades[i].profit <= -MajorLoss, trades[i].close > resetAt
               PROVE  guardsNow >= trades[i].close + LossCooldown
    BY <1>1 DEF Guards!MajorLossIsCooled
  <2> QED
    BY <1>2, <1>10, <1>11
<1> QED
  BY <1>8, <1>9, <1>12, <1>13 DEF GuardsInv

LEMMA GuardsStep == GuardsInv /\ [Guards!Next]_guardsVars => GuardsInv'
<1> SUFFICES ASSUME GuardsInv, [Guards!Next]_guardsVars PROVE GuardsInv'
  OBVIOUS
<1>0. GuardsTyped /\ TradesAreClosed /\ LossesAreHeld /\ Guards!MajorLossIsCooled
  BY DEF GuardsInv
<1>a. /\ guardsNow \in Nat /\ coolUntil \in Nat /\ lastCheck \in Nat /\ lastCheck <= guardsNow
         /\ resetAt \in Nat
      /\ trades \in Seq(Closed) /\ LossCooldown \in Nat
  BY <1>0, GuardsAssumption DEF GuardsTyped
<1>b. \A i \in DOMAIN trades : trades[i].close \in Nat /\ trades[i].close <= guardsNow
  <2> SUFFICES ASSUME NEW i \in DOMAIN trades
               PROVE trades[i].close \in Nat /\ trades[i].close <= guardsNow
    OBVIOUS
  <2>1. trades[i] \in Closed
    BY <1>a
  <2> QED
    BY <1>0, <2>1 DEF Closed, TradesAreClosed
<1>1. CASE UNCHANGED guardsVars
  BY <1>0, <1>1 DEF guardsVars, GuardsInv, GuardsTyped, TradesAreClosed, LossesAreHeld,
        Guards!MajorLossIsCooled
<1>2. CASE Guards!Tick
  <2>1. guardsNow' = guardsNow + 1 /\ answer' = "none"
        /\ UNCHANGED <<trades, coolUntil, lastCheck, resetAt>>
    BY <1>2 DEF Guards!Tick
  <2>2. GuardsTyped' /\ TradesAreClosed'
    BY <1>a, <1>b, <2>1 DEF GuardsTyped, TradesAreClosed
  <2>3. LossesAreHeld'
    BY <1>0, <1>a, <1>b, <2>1 DEF LossesAreHeld
  <2> QED
    BY <2>1, <2>2, <2>3 DEF GuardsInv, Guards!MajorLossIsCooled
<1>3. CASE Guards!Reset
  <2>1. lastCheck' = guardsNow /\ answer' = "none" /\ resetAt' = guardsNow
        /\ UNCHANGED <<guardsNow, trades, coolUntil>>
    BY <1>3 DEF Guards!Reset
  <2>2. GuardsTyped' /\ TradesAreClosed'
    BY <1>0, <1>a, <2>1 DEF GuardsTyped, TradesAreClosed
  <2>3. LossesAreHeld'
    BY <1>a, <1>b, <2>1 DEF LossesAreHeld
  <2> QED
    BY <2>1, <2>2, <2>3 DEF GuardsInv, Guards!MajorLossIsCooled
<1>4. ASSUME NEW s \in GuardedSymbols, NEW p \in Guards!Profits, Guards!Close(s, p)
      PROVE GuardsInv'
  <2> DEFINE r == [symbol |-> s, profit |-> p, close |-> guardsNow + 1]
  <2>1. /\ guardsNow' = guardsNow + 1 /\ trades' = Append(trades, r) /\ answer' = "none"
        /\ UNCHANGED <<coolUntil, lastCheck, resetAt>>
    BY <1>4 DEF Guards!Close
  <2>2. r \in Closed /\ r.close = guardsNow + 1
    BY <1>a DEF Closed
  <2> HIDE DEF r
  <2>3. /\ trades' \in Seq(Closed)
        /\ \A i \in DOMAIN trades' : \/ i \in DOMAIN trades /\ trades'[i] = trades[i]
                                     \/ trades'[i].close = guardsNow + 1
    BY <1>a, <2>1, <2>2
  <2>4. GuardsTyped' /\ TradesAreClosed'
    BY <1>a, <1>b, <2>1, <2>3 DEF GuardsTyped, TradesAreClosed
  <2>5. LossesAreHeld'
    <3> SUFFICES ASSUME NEW i \in DOMAIN trades', trades'[i].profit <= -MajorLoss,
                        trades'[i].close > resetAt, trades'[i].close <= lastCheck
                 PROVE  \/ guardsNow' >= trades'[i].close + LossCooldown
                        \/ coolUntil >= trades'[i].close + LossCooldown
      BY <2>1 DEF LossesAreHeld
    <3>1. i \in DOMAIN trades /\ trades'[i] = trades[i]
      BY <1>a, <2>3
    <3>2. \/ guardsNow >= trades[i].close + LossCooldown
          \/ coolUntil >= trades[i].close + LossCooldown
      BY <1>0, <3>1 DEF LossesAreHeld
    <3> QED
      BY <1>a, <1>b, <2>1, <3>1, <3>2
  <2> QED
    BY <2>1, <2>4, <2>5 DEF GuardsInv, Guards!MajorLossIsCooled
<1>5. ASSUME NEW name, Guards!Toggle(name) PROVE GuardsInv'
  <2>1. answer' = "none" /\ UNCHANGED <<guardsNow, trades, coolUntil, lastCheck, resetAt>>
    BY <1>5 DEF Guards!Toggle
  <2>2. GuardsTyped' /\ TradesAreClosed' /\ LossesAreHeld'
    BY <1>0, <2>1 DEF GuardsTyped, TradesAreClosed, LossesAreHeld
  <2> QED
    BY <2>1, <2>2 DEF GuardsInv, Guards!MajorLossIsCooled
<1>6. ASSUME NEW s \in GuardedSymbols, NEW volatile \in BOOLEAN, Guards!Check(s, volatile)
      PROVE GuardsInv'
  BY <1>6, CheckHolds
<1> QED
  BY <1>1, <1>2, <1>3, <1>4, <1>5, <1>6 DEF Guards!Next

(* For any cooldown, and any trades, checks, resets and toggles: while the *)
(* cooldown is enabled no entry is allowed less than it after a major loss *)
(* that came after the last reset.                                         *)
THEOREM Cooled == MCSpec => []MajorLossIsCooled
<1>1. MCInit => GuardsInv
  BY Begins, GuardsInit
<1>2. GuardsInv /\ [MCNext]_allVars => GuardsInv'
  BY Moves, GuardsStep
<1>3. GuardsInv => MajorLossIsCooled
  BY DEF GuardsInv, MajorLossIsCooled, Guards!MajorLossIsCooled
<1> QED
  BY <1>1, <1>2, <1>3, PTL DEF MCSpec

-----------------------------------------------------------------------------
(* MarketHours.  The cached clock was the broker's at some time since      *)
(* (CacheIsClock), and until the next boundary of the session the broker   *)
(* would say the same; so a cycle decides on what the clock says now, or   *)
(* on the fallback (StatusIsClock).                                        *)

(* When the day of a time starts.                                          *)
DayStart(t) == t - (t % DayLength)

(* A time is less than a day after its day starts; two days start at the   *)
(* same time, one day apart or more.                                       *)
LEMMA DayStarts ==
  ASSUME NEW s \in Nat, NEW t \in Nat, s <= t
  PROVE  /\ DayStart(s) \in Int /\ s % DayLength \in 0..(DayLength - 1)
         /\ \/ DayStart(t) = DayStart(s) \/ DayStart(t) = DayStart(s) + DayLength
            \/ DayStart(t) >= DayStart(s) + 2 * DayLength
<1>1. DayLength \in Nat \ {0}
  BY HoursAssumption
<1>2. /\ s = DayLength * (s \div DayLength) + (s % DayLength)
      /\ s % DayLength \in 0..(DayLength - 1) /\ s \div DayLength \in Int
  BY <1>1
<1>3. /\ t = DayLength * (t \div DayLength) + (t % DayLength)
      /\ t % DayLength \in 0..(DayLength - 1) /\ t \div DayLength \in Int
  BY <1>1
<1>4. PICK a \in Int, b \in Int : a = s \div DayLength /\ b = t \div DayLength
  BY <1>2, <1>3
<1>5. PICK u \in 0..(DayLength - 1), v \in 0..(DayLength - 1) :
             u = s % DayLength /\ v = t % DayLength
  BY <1>2, <1>3
<1>6. s = DayLength * a + u /\ t = DayLength * b + v
  BY <1>2, <1>3, <1>4, <1>5
<1>7. DayStart(s) = DayLength * a /\ DayStart(t) = DayLength * b
  BY <1>1, <1>5, <1>6 DEF DayStart
<1>8. /\ DayLength * (a + 1) = DayLength * a + DayLength
      /\ DayLength * (a + 2) = DayLength * a + 2 * DayLength
      /\ DayLength * (b + 1) = DayLength * b + DayLength
  BY <1>1
<1>9. b >= a
  <2> SUFFICES ASSUME a >= b + 1 PROVE FALSE
    OBVIOUS
  <2>1. DayLength * a >= DayLength * (b + 1)
    BY <1>1
  <2> QED
    BY <1>1, <1>5, <1>6, <1>8, <2>1
<1>10. CASE b >= a + 2
  <2>1. DayLength * b >= DayLength * (a + 2)
    BY <1>1, <1>10
  <2> QED
    BY <1>1, <1>2, <1>7, <1>8, <2>1
<1>11. CASE b = a \/ b = a + 1
  BY <1>1, <1>2, <1>7, <1>8, <1>11
<1> QED
  BY <1>9, <1>10, <1>11

(* A time by the start of its day and what has passed of it.               *)
LEMMA ByDayStart ==
  ASSUME NEW t \in Nat
  PROVE  \E day \in Int, hour \in 0..(DayLength - 1) :
           /\ t = day + hour /\ day = DayStart(t)
           /\ Hours!InSession(t) <=> OpenAt <= hour /\ hour < CloseAt
           /\ Hours!NextOpen(t) = IF hour < OpenAt THEN day + OpenAt ELSE day + DayLength + OpenAt
           /\ Hours!NextClose(t) = IF hour < CloseAt THEN day + CloseAt
                ELSE day + DayLength + CloseAt
           /\ Hours!LastOpen(t) = IF hour < OpenAt THEN day - DayLength + OpenAt ELSE day + OpenAt
<1>1. DayStart(t) \in Int /\ t % DayLength \in 0..(DayLength - 1)
  BY DayStarts
<1>2. t = DayStart(t) + (t % DayLength)
  BY <1>1 DEF DayStart
<1> QED
  BY <1>1, <1>2 DEF Hours!InSession, Hours!NextOpen, Hours!NextClose, Hours!LastOpen, DayStart

(* Until the next boundary of the session the broker's clock says the same. *)
LEMMA ClockStays ==
  ASSUME NEW s \in Nat, NEW t \in Nat, s <= t, t < Hours!NextOpen(s), t < Hours!NextClose(s)
  PROVE  Hours!InSession(t) = Hours!InSession(s) /\ Hours!NextOpen(t) = Hours!NextOpen(s)
<1>1. PICK d \in Int, h \in 0..(DayLength - 1) :
           /\ s = d + h /\ d = DayStart(s)
           /\ Hours!InSession(s) <=> OpenAt <= h /\ h < CloseAt
           /\ Hours!NextOpen(s) = IF h < OpenAt THEN d + OpenAt ELSE d + DayLength + OpenAt
           /\ Hours!NextClose(s) = IF h < CloseAt THEN d + CloseAt ELSE d + DayLength + CloseAt
  BY ByDayStart
<1>2. PICK e \in Int, k \in 0..(DayLength - 1) :
           /\ t = e + k /\ e = DayStart(t)
           /\ Hours!InSession(t) <=> OpenAt <= k /\ k < CloseAt
           /\ Hours!NextOpen(t) = IF k < OpenAt THEN e + OpenAt ELSE e + DayLength + OpenAt
  BY ByDayStart
<1>3. e = d \/ e = d + DayLength \/ e >= d + 2 * DayLength
  BY <1>1, <1>2, DayStarts
<1>0. /\ DayLength \in Int /\ OpenAt \in Int /\ CloseAt \in Int
      /\ 0 <= OpenAt /\ OpenAt < CloseAt /\ CloseAt <= DayLength
      /\ h \in Int /\ k \in Int /\ 0 <= h /\ 0 <= k /\ h < DayLength /\ k < DayLength
  BY <1>1, <1>2, HoursAssumption
<1>6. d + h <= e + k /\ d \in Int /\ e \in Int
  BY <1>1, <1>2
<1>4. CASE e = d
  <2>1. h <= k
    BY <1>0, <1>6, <1>4
  <2>2. ASSUME h < OpenAt PROVE k < OpenAt
    <3>1. Hours!NextOpen(s) = d + OpenAt
      BY <1>1, <2>2
    <3>2. d + k < d + OpenAt
      BY <1>2, <1>4, <3>1
    <3> QED
      BY <1>0, <1>6, <3>2
  <2>3. ASSUME h < CloseAt PROVE k < CloseAt
    <3>1. Hours!NextClose(s) = d + CloseAt
      BY <1>1, <2>3
    <3>2. d + k < d + CloseAt
      BY <1>2, <1>4, <3>1
    <3> QED
      BY <1>0, <1>6, <3>2
  <2>4. Hours!InSession(t) <=> Hours!InSession(s)
    BY <1>0, <1>1, <1>2, <2>1, <2>2, <2>3
  <2>5. k < OpenAt <=> h < OpenAt
    BY <1>0, <2>1, <2>2
  <2>6. Hours!NextOpen(t) = Hours!NextOpen(s)
    BY <1>1, <1>2, <1>4, <2>5
  <2> QED
    BY <2>4, <2>6 DEF Hours!InSession
<1>5. CASE e >= d + DayLength
  <2>1. ~(h < OpenAt) /\ ~(h < CloseAt)
    BY <1>0, <1>1, <1>2, <1>5
  <2>2. e = d + DayLength /\ k < OpenAt
    BY <1>0, <1>1, <1>2, <1>3, <1>5, <2>1
  <2>3. Hours!InSession(t) <=> Hours!InSession(s)
    BY <1>0, <1>1, <1>2, <2>1, <2>2
  <2>4. Hours!NextOpen(t) = Hours!NextOpen(s)
    BY <1>1, <1>2, <2>1, <2>2
  <2> QED
    BY <2>3, <2>4 DEF Hours!InSession
<1> QED
  BY <1>0, <1>1, <1>2, <1>3, <1>4, <1>5

(* The session in which a sleep from outside a session ends opened at the  *)
(* next open or later.                                                     *)
LEMMA OpensLater ==
  ASSUME NEW s \in Nat, NEW t \in Nat, s <= t, ~Hours!InSession(s), Hours!InSession(t)
  PROVE  /\ Hours!NextOpen(s) \in Int /\ Hours!LastOpen(t) \in Int
         /\ Hours!NextOpen(s) > s /\ Hours!LastOpen(t) >= Hours!NextOpen(s)
<1>1. PICK d \in Int, h \in 0..(DayLength - 1) :
           /\ s = d + h /\ d = DayStart(s)
           /\ Hours!InSession(s) <=> OpenAt <= h /\ h < CloseAt
           /\ Hours!NextOpen(s) = IF h < OpenAt THEN d + OpenAt ELSE d + DayLength + OpenAt
  BY ByDayStart
<1>2. PICK e \in Int, k \in 0..(DayLength - 1) :
           /\ t = e + k /\ e = DayStart(t)
           /\ Hours!InSession(t) <=> OpenAt <= k /\ k < CloseAt
           /\ Hours!LastOpen(t) = IF k < OpenAt THEN e - DayLength + OpenAt ELSE e + OpenAt
  BY ByDayStart
<1>3. e = d \/ e >= d + DayLength
  BY <1>1, <1>2, DayStarts, HoursAssumption
<1>4. Hours!LastOpen(t) = e + OpenAt /\ k < CloseAt
  BY <1>2, HoursAssumption
<1>5. CASE h < OpenAt
  BY <1>1, <1>2, <1>3, <1>4, <1>5, HoursAssumption
<1>6. CASE ~(h < OpenAt)
  <2>1. h >= CloseAt
    BY <1>1, <1>6, HoursAssumption
  <2>2. e >= d + DayLength
    BY <1>1, <1>2, <1>3, <1>4, <2>1, HoursAssumption
  <2> QED
    BY <1>1, <1>2, <1>4, <1>6, <2>2, HoursAssumption
<1> QED
  BY <1>5, <1>6

(* Of two numbers the greatest.                                            *)
LEMMA MaxOfTwo ==
  ASSUME NEW n \in Int
  PROVE  Hours!Max({1, n}) = IF n > 1 THEN n ELSE 1
<1> DEFINE m == IF n > 1 THEN n ELSE 1
<1>1. m \in {1, n} /\ \A y \in {1, n} : m >= y
  OBVIOUS
<1>2. \A x \in {1, n} : (\A y \in {1, n} : x >= y) => x = m
  OBVIOUS
<1> QED
  BY <1>1, <1>2 DEF Hours!Max

(* The cached clock was the broker's.                                      *)
CacheIsClock ==
  hoursCache # Hours!NoAnswer => \E t \in 0..hoursNow : hoursCache = Hours!ClockAt(t)

(* A cycle decides on what the clock says now, or on the fallback.         *)
StatusIsClock ==
  hoursStage = "decide" =>
    \/ hoursStatus.source = "broker" /\ hoursStatus.open = Hours!InSession(hoursNow)
       /\ hoursStatus.nextOpen = Hours!NextOpen(hoursNow)
    \/ hoursStatus.source = "fallback" /\ hoursStatus.open = failOpen

HoursInv ==
  /\ hoursNow \in Nat /\ began \in Nat /\ hoursStatus.open \in BOOLEAN /\ failOpen \in BOOLEAN
  /\ CacheIsClock /\ StatusIsClock /\ Hours!KeepsHours
  /\ hoursStage = "trade" => hoursStatus.open

LEMMA HoursInit == Hours!Init => HoursInv
  BY DEF Hours!Init, HoursInv, CacheIsClock, StatusIsClock, Hours!KeepsHours, Hours!NoAnswer

(* The clock from the cache is the clock now.                              *)
LEMMA CacheIsCurrent ==
  ASSUME HoursInv, Hours!CacheHolds
  PROVE  hoursCache.source = "broker" /\ hoursCache.open = Hours!InSession(hoursNow)
         /\ hoursCache.nextOpen = Hours!NextOpen(hoursNow)
<1>1. PICK t \in 0..hoursNow : hoursCache = Hours!ClockAt(t)
  BY DEF HoursInv, CacheIsClock, Hours!CacheHolds
<1>2. /\ hoursCache.source = "broker" /\ hoursCache.open = Hours!InSession(t)
      /\ hoursCache.nextOpen = Hours!NextOpen(t) /\ hoursCache.nextClose = Hours!NextClose(t)
  BY <1>1 DEF Hours!ClockAt
<1>3. t \in Nat /\ t <= hoursNow /\ hoursNow \in Nat
  BY <1>1 DEF HoursInv
<1> QED
  BY <1>2, <1>3, ClockStays DEF Hours!CacheHolds

LEMMA HoursStep == HoursInv /\ [Hours!Next]_hoursVars => HoursInv'
<1> SUFFICES ASSUME HoursInv, [Hours!Next]_hoursVars PROVE HoursInv'
  OBVIOUS
<1>1. CASE Hours!CheckFromCache
  <2>1. /\ hoursCache.source = "broker" /\ hoursCache.open = Hours!InSession(hoursNow)
        /\ hoursCache.nextOpen = Hours!NextOpen(hoursNow)
    BY <1>1, CacheIsCurrent DEF Hours!CheckFromCache
  <2>2. hoursStatus' = hoursCache /\ hoursStage' = "decide"
        /\ UNCHANGED <<hoursNow, failOpen, hoursCache, began, hoursWake>>
    BY <1>1 DEF Hours!CheckFromCache
  <2>3. StatusIsClock' /\ Hours!KeepsHours'
    BY <2>1, <2>2 DEF StatusIsClock, Hours!KeepsHours
  <2>4. Hours!InSession(hoursNow) \in BOOLEAN
    BY DEF Hours!InSession
  <2> QED
    BY <2>1, <2>2, <2>3, <2>4 DEF HoursInv, CacheIsClock
<1>2. CASE Hours!AskClock
  <2>1. /\ hoursStage' = "asking" /\ began' = hoursNow
        /\ UNCHANGED <<hoursNow, failOpen, hoursCache, hoursWake, hoursStatus>>
    BY <1>2 DEF Hours!AskClock
  <2>2. CacheIsClock'
    BY <2>1 DEF HoursInv, CacheIsClock
  <2>3. StatusIsClock' /\ Hours!KeepsHours' /\ began' \in Nat
    BY <2>1 DEF HoursInv, StatusIsClock, Hours!KeepsHours
  <2> QED
    BY <2>1, <2>2, <2>3 DEF HoursInv
<1>3. CASE Hours!ClockAnswers
  <2>1. /\ hoursCache' = Hours!ClockAt(hoursNow) /\ hoursStatus' = Hours!ClockAt(hoursNow)
        /\ hoursStage' = "decide"
        /\ UNCHANGED <<hoursNow, failOpen, began, hoursWake>> /\ hoursNow \in Nat
    BY <1>3 DEF Hours!ClockAnswers, HoursInv
  <2>2. /\ Hours!ClockAt(hoursNow).source = "broker"
        /\ Hours!ClockAt(hoursNow).open = Hours!InSession(hoursNow)
        /\ Hours!ClockAt(hoursNow).nextOpen = Hours!NextOpen(hoursNow)
           /\ Hours!InSession(hoursNow) \in BOOLEAN
    BY DEF Hours!ClockAt, Hours!InSession
  <2>3. CacheIsClock'
    BY <2>1 DEF CacheIsClock
  <2>4. StatusIsClock' /\ Hours!KeepsHours'
    BY <2>1, <2>2 DEF StatusIsClock, Hours!KeepsHours
  <2> QED
    BY <2>1, <2>2, <2>3, <2>4 DEF HoursInv
<1>4. CASE Hours!ClockFails
  <2>1. /\ hoursStatus'.source = "fallback" /\ hoursStatus'.open = failOpen
        /\ hoursStage' = "decide"
        /\ UNCHANGED <<hoursNow, failOpen, hoursCache, began, hoursWake>>
    BY <1>4 DEF Hours!ClockFails, Hours!NoAnswer
  <2>2. CacheIsClock' /\ failOpen \in BOOLEAN
    BY <2>1 DEF HoursInv, CacheIsClock
  <2>3. StatusIsClock' /\ Hours!KeepsHours'
    BY <2>1 DEF StatusIsClock, Hours!KeepsHours
  <2> QED
    BY <2>1, <2>2, <2>3 DEF HoursInv
<1>5. CASE Hours!BlockClosed
  <2>1. /\ hoursStage = "decide" /\ ~hoursStatus.open /\ hoursStage' = "sleep"
        /\ began' = hoursNow
        /\ hoursWake' = hoursNow + Hours!AdaptiveSleep
           /\ UNCHANGED <<hoursNow, failOpen, hoursCache, hoursStatus>>
    BY <1>5 DEF Hours!BlockClosed, Hours!FallAsleep
  <2>2. ASSUME hoursStatus.source = "broker"
        PROVE  ~Hours!InSession(hoursNow)
               /\ (Hours!InSession(hoursWake')
                    => hoursWake' - Hours!LastOpen(hoursWake') < PreOpenInterval)
    <3>1. ~Hours!InSession(hoursNow) /\ hoursStatus.nextOpen = Hours!NextOpen(hoursNow)
          /\ hoursNow \in Nat
      BY <2>1, <2>2 DEF HoursInv, StatusIsClock
    <3>2. ASSUME Hours!InSession(hoursWake')
          PROVE  hoursWake' - Hours!LastOpen(hoursWake') < PreOpenInterval
      <4>1. /\ Hours!Max({1, PreOpenInterval}) = PreOpenInterval
            /\ Hours!Max({1, ClosedInterval}) \in Nat /\ Hours!Max({1, ClosedInterval}) >= 1
            /\ Hours!Max({1, ClosedInterval}) <= PreOpenWindow + PreOpenInterval
        BY MaxOfTwo, HoursAssumption
      <4>2. Hours!AdaptiveSleep =
              IF Hours!NextOpen(hoursNow) # Hours!NoTime
              /\ 0 < Hours!NextOpen(hoursNow) - hoursNow
                 /\ Hours!NextOpen(hoursNow) - hoursNow <= PreOpenWindow
              THEN PreOpenInterval ELSE Hours!Max({1, ClosedInterval})
        BY <2>1, <3>1, <4>1 DEF Hours!AdaptiveSleep
      <4>3. Hours!AdaptiveSleep \in Nat /\ Hours!AdaptiveSleep >= 1
        BY <4>1, <4>2, HoursAssumption
      <4>4. hoursWake' \in Nat /\ hoursNow <= hoursWake'
        BY <2>1, <3>1, <4>3
      <4>5. /\ Hours!NextOpen(hoursNow) \in Int /\ Hours!LastOpen(hoursWake') \in Int
            /\ Hours!NextOpen(hoursNow) > hoursNow
               /\ Hours!LastOpen(hoursWake') >= Hours!NextOpen(hoursNow)
        BY <3>1, <3>2, <4>4, OpensLater
      <4>6. Hours!NextOpen(hoursNow) # Hours!NoTime
        BY <3>1, <4>5 DEF Hours!NoTime
      <4> QED
        BY <2>1, <3>1, <4>1, <4>2, <4>4, <4>5, <4>6, HoursAssumption
    <3> QED
      BY <3>1, <3>2
  <2> QED
    BY <2>1, <2>2 DEF HoursInv, CacheIsClock, StatusIsClock, Hours!KeepsHours
<1>6. CASE Hours!Trade
  <2>1. /\ hoursStage = "decide" /\ hoursStatus.open /\ hoursStage' = "trade" /\ began' = hoursNow
        /\ UNCHANGED <<hoursNow, failOpen, hoursCache, hoursWake, hoursStatus>>
    BY <1>6 DEF Hours!Trade
  <2> QED
    BY <2>1 DEF HoursInv, CacheIsClock, StatusIsClock, Hours!KeepsHours
<1>7. CASE Hours!CycleEnds \/ Hours!CycleRaises
  <2>1. /\ hoursStatus.open /\ hoursStage' \in {"sleep", "exit"} /\ began' \in {hoursNow, began}
        /\ UNCHANGED <<hoursNow, failOpen, hoursCache, hoursStatus>>
    BY <1>7 DEF Hours!CycleEnds, Hours!CycleRaises, Hours!FallAsleep, HoursInv
  <2> QED
    BY <2>1 DEF HoursInv, CacheIsClock, StatusIsClock, Hours!KeepsHours
<1>8. CASE Hours!WakeUp
  <2>1. /\ hoursStage' = "check" /\ hoursStatus'.open = FALSE
        /\ UNCHANGED <<hoursNow, failOpen, hoursCache, began, hoursWake>>
    BY <1>8 DEF Hours!WakeUp, Hours!NoAnswer
  <2> QED
    BY <2>1 DEF HoursInv, CacheIsClock, StatusIsClock, Hours!KeepsHours
<1>9. CASE Hours!Tick
  <2>1. /\ hoursStage # "decide" /\ hoursNow' = hoursNow + 1 /\ hoursNow' \in Nat
        /\ UNCHANGED <<failOpen, hoursCache, hoursStage, began, hoursWake, hoursStatus>>
    BY <1>9 DEF Hours!Tick, HoursInv
  <2>2. CacheIsClock'
    <3>1. \A t \in 0..hoursNow : t \in 0..hoursNow'
      BY <2>1 DEF HoursInv
    <3> QED
      BY <2>1, <3>1 DEF HoursInv, CacheIsClock, Hours!ClockAt, Hours!InSession, Hours!NextOpen,
            Hours!NextClose
  <2> QED
    BY <2>1, <2>2 DEF HoursInv, StatusIsClock, Hours!KeepsHours
<1>10. CASE UNCHANGED hoursVars
  BY <1>10 DEF hoursVars, HoursInv, CacheIsClock, StatusIsClock, Hours!KeepsHours
<1> QED
  BY <1>1, <1>2, <1>3, <1>4, <1>5, <1>6, <1>7, <1>8, <1>9, <1>10 DEF Hours!Next

(* For any schedule, and any intervals with the closed one no longer than  *)
(* the window before the open and the interval in it: a cycle of trading   *)
(* begins in the session or on the fallback, and no session is slept into  *)
(* for longer than the interval before the open.                           *)
THEOREM Hourly == MCSpec => []KeepsHours
<1>1. MCInit => HoursInv
  BY Begins, HoursInit
<1>2. HoursInv /\ [MCNext]_allVars => HoursInv'
  BY Moves, HoursStep
<1>3. HoursInv => KeepsHours
  BY DEF HoursInv, KeepsHours
<1> QED
  BY <1>1, <1>2, <1>3, PTL DEF MCSpec

-----------------------------------------------------------------------------
(* News.  The veto has to survive two caches and two sources that may say  *)
(* less: CacheIsTheFeed says how an entry may differ from the feed, and    *)
(* HitIsKept carries what one source said past the answers of the others.  *)

NewsTyped ==
  /\ headlinesNow \in Nat /\ headlinesProvider \in {"AUTO", "FINNHUB", "ALPACA"}
  /\ headlinesSince \in [Headlines!Followed -> Nat] /\ DOMAIN feed = Headlines!Followed
  /\ headlinesAsked \in [Headlines!Sources -> Nat]
     /\ \A p \in Headlines!Sources : headlinesAsked[p] <= headlinesNow
  /\ DOMAIN headlinesCache = Headlines!Sources
  /\ \A p \in Headlines!Sources : headlinesCache[p].until \in Nat
  /\ \A p \in Headlines!Followed : headlinesCache[p].until <= headlinesNow + HeadlinesTtl

(* What is cached of a followed source is its headline, unless that is     *)
(* younger than the entry or the request failed.                           *)
CacheIsTheFeed ==
  \A p \in Headlines!Followed :
    \/ headlinesCache[p].hit = feed[p]
    \/ headlinesSince[p] + HeadlinesTtl >= headlinesCache[p].until
    \/ p \in failed

(* A bad headline that should have been seen when its source was asked.    *)
Due(p) == Headlines!Bad(p) /\ headlinesSince[p] + HeadlinesTtl <= headlinesAsked[p]
/\ p \notin failed

(* From the answer of a source to the end of the scan, what was due stays  *)
(* in the hit, whatever the sources asked after it say.                    *)
HitIsKept ==
  /\ headlinesStage = "alpaca" /\ headlinesProvider # "ALPACA" => hit = Headlines!None
  /\ (headlinesStage \in {"alpaca", "fmp", "tag"} /\ headlinesProvider # "ALPACA"
       /\ Due("finnhub")) => Headlines!Vetoed
  /\ (headlinesStage = "tag" /\ fmpOn /\ Due("fmp")) => Headlines!Vetoed

NewsInv == NewsTyped /\ CacheIsTheFeed /\ HitIsKept /\ Headlines!VetoWithinTtl

LEMMA NewsInit == Headlines!Init => NewsInv
<1> SUFFICES ASSUME Headlines!Init PROVE NewsInv
  OBVIOUS
<1>1. NewsTyped
  BY HeadlinesAssumption DEF Headlines!Init, NewsTyped, Headlines!Sources, Headlines!Followed
<1>2. CacheIsTheFeed
  BY DEF Headlines!Init, CacheIsTheFeed, Headlines!Sources, Headlines!Followed
<1>3. HitIsKept /\ Headlines!VetoWithinTtl
  BY DEF Headlines!Init, HitIsKept, Headlines!VetoWithinTtl
<1> QED
  BY <1>1, <1>2, <1>3 DEF NewsInv

(* An answer keeps the entries what they are, is about its source only,    *)
(* and names what is due.                                                  *)
LEMMA AnswerIsDue ==
  ASSUME NewsInv, NEW p \in Headlines!Sources, NEW h, Headlines!Answer(p, h),
         UNCHANGED <<headlinesNow, headlinesProvider, feed, headlinesSince>>
  PROVE  /\ NewsTyped' /\ CacheIsTheFeed'
         /\ \A q \in Headlines!Followed : q # p => Due(q)' = Due(q)
         /\ p \in Headlines!Followed => (Due(p)' => h = feed[p])
<1> USE HeadlinesAssumption
<1>0. NewsTyped /\ CacheIsTheFeed
  BY DEF NewsInv
<1>1. headlinesAsked' = [headlinesAsked EXCEPT ![p] = headlinesNow]
  BY DEF Headlines!Answer
<1>2. headlinesAsked' \in [Headlines!Sources -> Nat]
      /\ \A q \in Headlines!Sources :
           headlinesAsked'[q] <= headlinesNow /\ (q # p => headlinesAsked'[q] = headlinesAsked[q])
  BY <1>0, <1>1 DEF NewsTyped
<1>3. CASE Headlines!IsCached(p)
  <2>1. h = headlinesCache[p].hit /\ UNCHANGED <<headlinesCache, failed>>
        /\ headlinesCache[p].until > headlinesNow
    BY <1>3 DEF Headlines!Answer, Headlines!IsCached
  <2>2. NewsTyped' /\ CacheIsTheFeed'
    BY <1>0, <1>2, <2>1 DEF NewsTyped, CacheIsTheFeed
  <2>3. \A q \in Headlines!Followed : q # p => Due(q)' = Due(q)
    BY <1>2, <2>1 DEF Due, Headlines!Bad, Headlines!Followed, Headlines!Sources
  <2>4. p \in Headlines!Followed /\ Due(p)' => h = feed[p]
    <3> SUFFICES ASSUME p \in Headlines!Followed, Due(p)' PROVE h = feed[p]
      OBVIOUS
    <3>1. headlinesSince[p] + HeadlinesTtl <= headlinesNow /\ p \notin failed
      BY <1>0, <1>1, <2>1 DEF Due, NewsTyped
    <3>2. headlinesSince[p] \in Nat /\ headlinesCache[p].until \in Nat /\ headlinesNow \in Nat
      BY <1>0 DEF NewsTyped
    <3> QED
      BY <1>0, <2>1, <3>1, <3>2 DEF CacheIsTheFeed
  <2> QED
    BY <2>2, <2>3, <2>4
<1>4. ASSUME NEW u \in {headlinesNow + HeadlinesTtl, headlinesNow + HeadlinesTtl + 1},
             p \in Headlines!Followed => u = headlinesNow + HeadlinesTtl,
             NEW k, headlinesCache' = [headlinesCache EXCEPT ![p] = [until |-> u, hit |-> k]],
             p \in Headlines!Followed => k = feed[p] \/ p \in failed',
             \A q \in Headlines!Followed : q # p => (q \in failed' <=> q \in failed),
             p \in Headlines!Followed => h = feed[p] \/ p \in failed'
      PROVE  /\ NewsTyped' /\ CacheIsTheFeed'
             /\ \A q \in Headlines!Followed : q # p => Due(q)' = Due(q)
             /\ p \in Headlines!Followed => (Due(p)' => h = feed[p])
  <2>1. /\ DOMAIN headlinesCache' = Headlines!Sources /\ headlinesCache'[p].until = u
           /\ headlinesCache'[p].hit = k
        /\ \A q \in Headlines!Sources : q # p => headlinesCache'[q] = headlinesCache[q]
    BY <1>0, <1>4 DEF NewsTyped
  <2>2. NewsTyped'
    BY <1>0, <1>2, <1>4, <2>1 DEF NewsTyped, Headlines!Followed
  <2>3. CacheIsTheFeed'
    BY <1>0, <1>4, <2>1 DEF CacheIsTheFeed, Headlines!Followed
  <2>4. \A q \in Headlines!Followed : q # p => Due(q)' = Due(q)
    BY <1>2, <1>4 DEF Due, Headlines!Bad, Headlines!Followed, Headlines!Sources
  <2>5. p \in Headlines!Followed => (Due(p)' => h = feed[p])
    BY <1>4 DEF Due
  <2> QED
    BY <2>2, <2>3, <2>4, <2>5
<1>5. CASE ~Headlines!IsCached(p)
  <2> DEFINE u == headlinesNow + HeadlinesTtl + (IF p = "alpaca" THEN 1 ELSE 0)
  <2>1. /\ u \in {headlinesNow + HeadlinesTtl, headlinesNow + HeadlinesTtl + 1}
           /\ (p \in Headlines!Followed => u = headlinesNow + HeadlinesTtl)
    BY <1>0 DEF NewsTyped, Headlines!Followed
  <2>2. CASE /\ h \in Headlines!Sent(p) /\ failed' = failed \ {p}
             /\ headlinesCache' = [headlinesCache EXCEPT ![p] = [until |-> u, hit |-> h]]
    <3>1. p \in Headlines!Followed => h = feed[p]
      BY <2>2 DEF Headlines!Sent, Headlines!Followed
    <3> HIDE DEF u
    <3> QED
      BY <1>4, <2>1, <2>2, <3>1
  <2>3. CASE /\ h = Headlines!None /\ failed' = failed \cup {p}
             /\ headlinesCache'
                  = [headlinesCache EXCEPT ![p] = [until |-> u, hit |-> Headlines!None]]
    <3> HIDE DEF u
    <3> QED
      BY <1>4, <2>1, <2>3
  <2> QED
    BY <1>5, <2>2, <2>3 DEF Headlines!Answer
<1> QED
  BY <1>3, <1>5

LEMMA NewsStep == NewsInv /\ [Headlines!Next]_headlinesVars => NewsInv'
<1> SUFFICES ASSUME NewsInv, [Headlines!Next]_headlinesVars PROVE NewsInv'
  OBVIOUS
<1> USE HeadlinesAssumption
<1>0. NewsTyped /\ CacheIsTheFeed /\ HitIsKept /\ Headlines!VetoWithinTtl
  BY DEF NewsInv
<1>1. CASE UNCHANGED headlinesVars
  <2>1. NewsTyped' /\ CacheIsTheFeed'
    BY <1>0, <1>1 DEF headlinesVars, NewsTyped, CacheIsTheFeed
  <2>2. HitIsKept' /\ Headlines!VetoWithinTtl'
    BY <1>0, <1>1 DEF headlinesVars, HitIsKept, Headlines!Vetoed, Due, Headlines!Bad,
          Headlines!VetoWithinTtl, Headlines!Watching
  <2> QED
    BY <2>1, <2>2 DEF NewsInv
<1>2. CASE Headlines!StartScan
  <2>1. NewsTyped' /\ CacheIsTheFeed'
    BY <1>0, <1>2 DEF Headlines!StartScan, Headlines!Scan, NewsTyped, CacheIsTheFeed
  <2>2. HitIsKept' /\ Headlines!VetoWithinTtl'
    BY <1>0, <1>2 DEF Headlines!StartScan, Headlines!Scan, HitIsKept, Headlines!VetoWithinTtl
  <2> QED
    BY <2>1, <2>2 DEF NewsInv
<1>3. CASE Headlines!AskFinnhub
  <2>1. PICK h \in Headlines!Answers :
          /\ Headlines!Answer("finnhub", h) /\ hit' = h
          /\ headlinesStage' = IF h = Headlines!None /\ headlinesProvider = "AUTO" THEN "alpaca"
               ELSE "fmp"
    BY <1>3 DEF Headlines!AskFinnhub
  <2>2. UNCHANGED <<headlinesNow, headlinesProvider, fmpOn, feed, headlinesSince, published,
          headlinesReady>>
    BY <1>3 DEF Headlines!AskFinnhub, Headlines!Scan
  <2>3. NewsTyped' /\ CacheIsTheFeed' /\ (Due("finnhub")' => h = feed["finnhub"])
    BY <2>1, <2>2, AnswerIsDue DEF Headlines!Sources, Headlines!Followed
  <2>4. HitIsKept'
    BY <2>1, <2>2, <2>3 DEF HitIsKept, Headlines!Vetoed, Due, Headlines!Bad
  <2>5. Headlines!VetoWithinTtl'
    BY <2>1 DEF Headlines!VetoWithinTtl
  <2> QED
    BY <2>3, <2>4, <2>5 DEF NewsInv
<1>4. CASE Headlines!AskAlpaca
  <2>1. UNCHANGED <<headlinesNow, headlinesProvider, fmpOn, feed, headlinesSince, published,
          headlinesReady>> /\ headlinesStage' = "fmp"
    BY <1>4 DEF Headlines!AskAlpaca, Headlines!Scan
  <2>2. NewsTyped' /\ CacheIsTheFeed' /\ (Due("finnhub")' => Due("finnhub"))
    <3>1. CASE headlinesDisabled
      BY <1>0, <1>4, <2>1, <3>1
         DEF Headlines!AskAlpaca, NewsTyped, CacheIsTheFeed, Due, Headlines!Bad
    <3>2. ASSUME NEW h \in Headlines!Answers, Headlines!Answer("alpaca", h)
          PROVE  NewsTyped' /\ CacheIsTheFeed' /\ (Due("finnhub")' => Due("finnhub"))
      BY <2>1, <3>2, AnswerIsDue DEF Headlines!Sources, Headlines!Followed
    <3> QED
      BY <1>4, <3>1, <3>2 DEF Headlines!AskAlpaca
  <2>3. HitIsKept'
    BY <1>0, <1>4, <2>1, <2>2 DEF HitIsKept, Headlines!Vetoed, Headlines!AskAlpaca,
          Headlines!None
  <2>4. Headlines!VetoWithinTtl'
    BY <2>1 DEF Headlines!VetoWithinTtl
  <2> QED
    BY <2>2, <2>3, <2>4 DEF NewsInv
<1>5. CASE Headlines!AskFmp
  <2>1. UNCHANGED <<headlinesNow, headlinesProvider, fmpOn, feed, headlinesSince, published,
          headlinesReady>> /\ headlinesStage' = "tag"
    BY <1>5 DEF Headlines!AskFmp, Headlines!Scan
  <2>2. CASE ~fmpOn
    <3>1. UNCHANGED <<hit, headlinesCache, headlinesDisabled, headlinesAsked, failed>>
          /\ headlinesStage = "fmp"
      BY <1>5, <2>2 DEF Headlines!AskFmp
    <3>2. NewsTyped' /\ CacheIsTheFeed'
      BY <1>0, <2>1, <3>1 DEF NewsTyped, CacheIsTheFeed
    <3>3. HitIsKept' /\ Headlines!VetoWithinTtl'
      BY <1>0, <2>1, <2>2, <3>1 DEF HitIsKept, Headlines!Vetoed, Due, Headlines!Bad,
            Headlines!VetoWithinTtl
    <3> QED
      BY <3>2, <3>3 DEF NewsInv
  <2>3. CASE fmpOn
    <3>1. PICK h \in Headlines!Answers : Headlines!Answer("fmp", h) /\ hit' = IF h = "dilution"
                 THEN h ELSE hit
      BY <1>5, <2>3 DEF Headlines!AskFmp
    <3>2. /\ NewsTyped' /\ CacheIsTheFeed' /\ (Due("finnhub")' = Due("finnhub"))
          /\ (Due("fmp")' => h = feed["fmp"])
      BY <2>1, <3>1, AnswerIsDue DEF Headlines!Sources, Headlines!Followed
    <3>3. Due("fmp")' => hit' = "dilution"
      BY <2>1, <3>1, <3>2 DEF Due, Headlines!Bad
    <3>4. HitIsKept'
      BY <1>0, <1>5, <2>1, <3>1, <3>2, <3>3 DEF HitIsKept, Headlines!Vetoed, Headlines!AskFmp
    <3>5. Headlines!VetoWithinTtl'
      BY <2>1 DEF Headlines!VetoWithinTtl
    <3> QED
      BY <3>2, <3>4, <3>5 DEF NewsInv
  <2> QED
    BY <2>2, <2>3
<1>6. CASE Headlines!TagReadiness
  <2>1. /\ headlinesStage = "tag" /\ headlinesStage' = "idle"
           /\ (headlinesReady' => ~Headlines!Vetoed)
        /\ UNCHANGED <<headlinesNow, headlinesProvider, fmpOn, feed, headlinesSince, published,
             headlinesCache, headlinesAsked, failed>>
    BY <1>6 DEF Headlines!TagReadiness
  <2>2. NewsTyped' /\ CacheIsTheFeed' /\ HitIsKept'
    BY <1>0, <2>1 DEF NewsTyped, CacheIsTheFeed, HitIsKept
  <2>3. Headlines!VetoWithinTtl'
    BY <1>0, <2>1 DEF Headlines!VetoWithinTtl, Headlines!Watching, HitIsKept, Due, Headlines!Bad
  <2> QED
    BY <2>2, <2>3 DEF NewsInv
<1>7. CASE Headlines!Tick
  <2>1. headlinesNow' = headlinesNow + 1
        /\ UNCHANGED <<headlinesProvider, fmpOn, feed, headlinesSince, headlinesCache,
             headlinesStage, hit, headlinesAsked, headlinesReady, failed>>
    BY <1>7 DEF Headlines!Tick
  <2>2. NewsTyped' /\ CacheIsTheFeed'
    BY <1>0, <2>1 DEF NewsTyped, CacheIsTheFeed, Headlines!Followed
  <2>3. HitIsKept' /\ Headlines!VetoWithinTtl'
    BY <1>0, <2>1 DEF HitIsKept, Headlines!Vetoed, Due, Headlines!Bad, Headlines!VetoWithinTtl,
          Headlines!Watching
  <2> QED
    BY <2>2, <2>3 DEF NewsInv
<1>8. ASSUME NEW p \in Headlines!Followed, NEW h \in Headlines!Headlines \cup {Headlines!None},
             Headlines!Publish(p, h) PROVE NewsInv'
  <2>1. /\ feed' = [feed EXCEPT ![p] = h]
           /\ headlinesSince' = [headlinesSince EXCEPT ![p] = headlinesNow]
        /\ UNCHANGED <<headlinesNow, headlinesProvider, fmpOn, headlinesCache, headlinesStage,
             hit, headlinesAsked, headlinesReady, failed>>
    BY <1>8 DEF Headlines!Publish
  <2>2. headlinesSince'[p] = headlinesNow /\ \A q \in Headlines!Followed : q # p
        => headlinesSince'[q] = headlinesSince[q] /\ feed'[q] = feed[q]
    BY <1>0, <2>1 DEF NewsTyped
  <2>3. NewsTyped'
    BY <1>0, <2>1 DEF NewsTyped
  <2>4. CacheIsTheFeed'
    BY <1>0, <2>1, <2>2 DEF NewsTyped, CacheIsTheFeed
  <2>5. \A q \in Headlines!Followed :
          (Headlines!Bad(q) /\ headlinesSince[q] + HeadlinesTtl <= headlinesAsked[q])' => q # p
    <3>1. ~(headlinesNow + HeadlinesTtl <= headlinesAsked[p])
      BY <1>0 DEF NewsTyped, Headlines!Followed
    <3> QED
      BY <2>1, <2>2, <3>1
  <2>6. \A q \in Headlines!Followed : q # p => (Headlines!Bad(q)' <=> Headlines!Bad(q))
    BY <2>2 DEF Headlines!Bad
  <2>7. HitIsKept'
    BY <1>0, <2>1, <2>2, <2>5, <2>6 DEF HitIsKept, Headlines!Vetoed, Due, Headlines!Followed,
          Headlines!Sources
  <2>8. Headlines!VetoWithinTtl'
    BY <1>0, <2>1, <2>2, <2>5, <2>6 DEF Headlines!VetoWithinTtl, Headlines!Watching,
          Headlines!Followed, Headlines!Sources
  <2> QED
    BY <2>3, <2>4, <2>7, <2>8 DEF NewsInv
<1> QED
  BY <1>1, <1>2, <1>3, <1>4, <1>5, <1>6, <1>7, <1>8 DEF Headlines!Next

(* A bad headline that a source carried for a cache entry's lifetime when  *)
(* it was asked keeps the candidate from being READY, for any lifetime, as *)
(* long as the request did not fail.                                       *)
THEOREM Vetoes == MCSpec => []VetoWithinTtl
<1>1. MCInit => NewsInv
  BY Begins, NewsInit
<1>2. NewsInv /\ [MCNext]_allVars => NewsInv'
  BY Moves, NewsStep
<1>3. NewsInv => VetoWithinTtl
  BY DEF NewsInv, VetoWithinTtl
<1> QED
  BY <1>1, <1>2, <1>3, PTL DEF MCSpec

-----------------------------------------------------------------------------
(* Quotes.  What a status says of all the answers since the last reset is  *)
(* kept by a counter that remembers only the last of them: FailuresAre-    *)
(* Counted says that it is the length of the longest run of failures that  *)
(* ends the log, so a new run of two or three ends where it is counted.    *)

Answer == {"quote", "failure"}
Quote == [time : Int, at : Int, stale : BOOLEAN, from : {"provider", "cache", "nobody"}]

QuotesTyped ==
  /\ quotingNow \in Nat /\ quotingCache \in Quote
  /\ quotingStatus \in [Quoting!Provider -> {"HEALTHY", "DEGRADED", "FAILED"}]
  /\ quotingFailures \in [Quoting!Provider -> Nat]
  /\ answers \in [Quoting!Provider -> Seq(Answer)]

(* A run of f failures ends the log, and is as long as it can be.          *)
EndsWith(heard, f) ==
  /\ f \in 0..Len(heard)
  /\ \A j \in (Len(heard) - f + 1)..Len(heard) : heard[j] = "failure"
  /\ f < Len(heard) => heard[Len(heard) - f] # "failure"

(* consecutive_failures counts the failures that end the log.              *)
FailuresAreCounted == \A p \in Quoting!Provider : EndsWith(answers[p], quotingFailures[p])

QuotesInv == QuotesTyped /\ FailuresAreCounted /\ Quoting!HealthIsHistory
/\ Quoting!AnswersAreHonest

-----------------------------------------------------------------------------
(* What one more answer does to the log.                                   *)

LEMMA OneMoreQuote ==
  ASSUME NEW heard \in Seq(Answer), NEW n \in Nat \ {0}
  PROVE  /\ EndsWith(Append(heard, "quote"), 0)
         /\ Quoting!InRow(Append(heard, "quote"), n) <=> Quoting!InRow(heard, n)
<1> DEFINE more == Append(heard, "quote")
<1>1. /\ Len(more) = Len(heard) + 1 /\ Len(heard) \in Nat /\ more[Len(heard) + 1] = "quote"
      /\ \A j \in 1..Len(heard) : more[j] = heard[j]
  OBVIOUS
<1> HIDE DEF more
<1>2. EndsWith(more, 0)
  BY <1>1 DEF EndsWith
<1>3. ASSUME Quoting!InRow(more, n) PROVE Quoting!InRow(heard, n)
  <2>1. PICK k \in 1 .. Len(more) - n + 1 : \A j \in k .. k + n - 1 : more[j] = "failure"
    BY <1>3 DEF Quoting!InRow
  <2>2. k + n - 1 \in k .. k + n - 1 /\ k + n - 1 <= Len(heard) + 1
    BY <1>1, <2>1
  <2>3. k + n - 1 # Len(heard) + 1
    BY <1>1, <2>1, <2>2
  <2>4. k \in 1 .. Len(heard) - n + 1
    BY <1>1, <2>1, <2>2, <2>3
  <2>5. \A j \in k .. k + n - 1 : j \in 1..Len(heard)
    BY <1>1, <2>4
  <2> QED
    BY <1>1, <2>1, <2>4, <2>5 DEF Quoting!InRow
<1>4. ASSUME Quoting!InRow(heard, n) PROVE Quoting!InRow(more, n)
  <2>1. PICK k \in 1 .. Len(heard) - n + 1 : \A j \in k .. k + n - 1 : heard[j] = "failure"
    BY <1>4 DEF Quoting!InRow
  <2>2. k \in 1 .. Len(more) - n + 1 /\ \A j \in k .. k + n - 1 : j \in 1..Len(heard)
    BY <1>1, <2>1
  <2> QED
    BY <1>1, <2>1, <2>2 DEF Quoting!InRow
<1> QED
  BY <1>2, <1>3, <1>4 DEF more

LEMMA OneMoreFailure ==
  ASSUME NEW heard \in Seq(Answer), NEW n \in Nat \ {0}, NEW f \in Nat, EndsWith(heard, f)
  PROVE  /\ EndsWith(Append(heard, "failure"), f + 1)
         /\ Quoting!InRow(Append(heard, "failure"), n) <=> Quoting!InRow(heard, n) \/ f + 1 >= n
<1> DEFINE more == Append(heard, "failure")
<1>1. /\ Len(more) = Len(heard) + 1 /\ Len(heard) \in Nat /\ more[Len(heard) + 1] = "failure"
      /\ \A j \in 1..Len(heard) : more[j] = heard[j]
  OBVIOUS
<1> HIDE DEF more
<1>2. /\ f <= Len(heard) /\ \A j \in (Len(heard) - f + 1)..Len(heard) : heard[j] = "failure"
      /\ f < Len(heard) => heard[Len(heard) - f] # "failure"
  BY DEF EndsWith
<1>3. ASSUME NEW j \in (Len(heard) - f + 1)..(Len(heard) + 1) PROVE more[j] = "failure"
  <2>1. CASE j = Len(heard) + 1
    BY <1>1, <2>1
  <2>2. CASE j # Len(heard) + 1
    <3>1. j \in (Len(heard) - f + 1)..Len(heard) /\ j \in 1..Len(heard)
      BY <1>1, <1>2, <2>2
    <3> QED
      BY <1>1, <1>2, <3>1
  <2> QED
    BY <2>1, <2>2
<1>4. EndsWith(more, f + 1)
  <2>1. f + 1 \in 0..Len(more) /\ Len(more) - (f + 1) + 1 = Len(heard) - f + 1
    BY <1>1, <1>2
  <2>2. f + 1 < Len(more) => more[Len(more) - (f + 1)] # "failure"
    <3> SUFFICES ASSUME f < Len(heard) PROVE more[Len(more) - (f + 1)] # "failure"
      BY <1>1
    <3>1. Len(more) - (f + 1) = Len(heard) - f /\ Len(heard) - f \in 1..Len(heard)
      BY <1>1
    <3> QED
      BY <1>1, <1>2, <3>1
  <2> QED
    BY <1>1, <1>3, <2>1, <2>2 DEF EndsWith
<1>5. ASSUME Quoting!InRow(more, n) PROVE Quoting!InRow(heard, n) \/ f + 1 >= n
  <2>1. PICK k \in 1 .. Len(more) - n + 1 : \A j \in k .. k + n - 1 : more[j] = "failure"
    BY <1>5 DEF Quoting!InRow
  <2>2. CASE k + n - 1 = Len(heard) + 1
    <3>1. SUFFICES ASSUME f + 1 < n PROVE FALSE
      OBVIOUS
    <3>2. /\ Len(heard) - f \in k .. k + n - 1 /\ Len(heard) - f \in 1..Len(heard)
             /\ f < Len(heard)
      BY <1>1, <2>1, <2>2, <3>1
    <3> QED
      BY <1>1, <1>2, <2>1, <3>2
  <2>3. CASE k + n - 1 # Len(heard) + 1
    <3>1. k \in 1 .. Len(heard) - n + 1 /\ \A j \in k .. k + n - 1 : j \in 1..Len(heard)
      BY <1>1, <2>1, <2>3
    <3> QED
      BY <1>1, <2>1, <3>1 DEF Quoting!InRow
  <2> QED
    BY <2>2, <2>3
<1>6. ASSUME Quoting!InRow(heard, n) PROVE Quoting!InRow(more, n)
  <2>1. PICK k \in 1 .. Len(heard) - n + 1 : \A j \in k .. k + n - 1 : heard[j] = "failure"
    BY <1>6 DEF Quoting!InRow
  <2>2. k \in 1 .. Len(more) - n + 1 /\ \A j \in k .. k + n - 1 : j \in 1..Len(heard)
    BY <1>1, <2>1
  <2> QED
    BY <1>1, <2>1, <2>2 DEF Quoting!InRow
<1>7. ASSUME f + 1 >= n PROVE Quoting!InRow(more, n)
  <2> DEFINE k == Len(heard) + 2 - n
  <2>1. k \in 1 .. Len(more) - n + 1
    BY <1>1, <1>2, <1>7
  <2>2. \A j \in k .. k + n - 1 : j \in (Len(heard) - f + 1)..(Len(heard) + 1)
    BY <1>1, <1>2, <1>7
  <2> QED
    BY <1>3, <2>1, <2>2 DEF Quoting!InRow
<1> QED
  BY <1>4, <1>5, <1>6, <1>7 DEF more

-----------------------------------------------------------------------------
LEMMA QuotesInit == Quoting!Init => QuotesInv
<1> SUFFICES ASSUME Quoting!Init PROVE QuotesInv
  OBVIOUS
<1>1. QuotesTyped
  BY DEF Quoting!Init, QuotesTyped, Quoting!NoQuote, Quote
<1>2. ASSUME NEW p \in Quoting!Provider
      PROVE  /\ EndsWith(answers[p], quotingFailures[p]) /\ quotingStatus[p] = "HEALTHY"
             /\ ~Quoting!InRow(answers[p], 3) /\ ~Quoting!InRow(answers[p], 2)
  <2>1. answers[p] = <<>> /\ quotingFailures[p] = 0 /\ quotingStatus[p] = "HEALTHY"
    BY DEF Quoting!Init
  <2> QED
    BY <2>1 DEF EndsWith, Quoting!InRow
<1>3. Quoting!AnswersAreHonest
  BY DEF Quoting!Init, Quoting!AnswersAreHonest
<1> QED
  BY <1>1, <1>2, <1>3 DEF QuotesInv, FailuresAreCounted, Quoting!HealthIsHistory

(* What does not touch the health of providers, or only one's.             *)
LEMMA HealthStays ==
  ASSUME QuotesInv, UNCHANGED Quoting!health
  PROVE  FailuresAreCounted' /\ Quoting!HealthIsHistory'
  BY DEF QuotesInv, Quoting!health, FailuresAreCounted, Quoting!HealthIsHistory

LEMMA HealthOfOne ==
  ASSUME QuotesInv, NEW p \in Quoting!Provider, NEW s, NEW f, NEW heard \in Seq(Answer),
         EndsWith(heard, f),
         f \in Nat, s \in {"HEALTHY", "DEGRADED", "FAILED"},
         s = IF Quoting!InRow(heard, 3) THEN "FAILED" ELSE IF Quoting!InRow(heard, 2)
           THEN "DEGRADED" ELSE "HEALTHY",
         quotingStatus' = [quotingStatus EXCEPT ![p] = s],
           quotingFailures' = [quotingFailures EXCEPT ![p] = f],
         answers' = [answers EXCEPT ![p] = heard]
  PROVE  /\ FailuresAreCounted' /\ Quoting!HealthIsHistory'
         /\ quotingStatus' \in [Quoting!Provider -> {"HEALTHY", "DEGRADED", "FAILED"}]
         /\ quotingFailures' \in [Quoting!Provider -> Nat]
            /\ answers' \in [Quoting!Provider -> Seq(Answer)]
<1>0. QuotesTyped /\ FailuresAreCounted /\ Quoting!HealthIsHistory
  BY DEF QuotesInv
<1>1. /\ quotingStatus' \in [Quoting!Provider -> {"HEALTHY", "DEGRADED", "FAILED"}]
      /\ quotingFailures' \in [Quoting!Provider -> Nat]
         /\ answers' \in [Quoting!Provider -> Seq(Answer)]
  BY <1>0 DEF QuotesTyped
<1>2. \A q \in Quoting!Provider : q # p =>
        quotingStatus'[q] = quotingStatus[q] /\ quotingFailures'[q] = quotingFailures[q]
        /\ answers'[q] = answers[q]
  BY <1>0 DEF QuotesTyped
<1>3. quotingStatus'[p] = s /\ quotingFailures'[p] = f /\ answers'[p] = heard
  BY <1>0 DEF QuotesTyped
<1>4. FailuresAreCounted'
  BY <1>0, <1>2, <1>3 DEF FailuresAreCounted
<1>5. Quoting!HealthIsHistory'
  BY <1>0, <1>2, <1>3 DEF Quoting!HealthIsHistory
<1> QED
  BY <1>1, <1>4, <1>5

LEMMA QuotesStep == QuotesInv /\ [Quoting!Next]_quotingVars => QuotesInv'
<1> SUFFICES ASSUME QuotesInv, [Quoting!Next]_quotingVars PROVE QuotesInv'
  OBVIOUS
<1> USE QuotesAssumption
<1>0. QuotesTyped /\ FailuresAreCounted /\ Quoting!HealthIsHistory /\ Quoting!AnswersAreHonest
  BY DEF QuotesInv
<1>1. ASSUME UNCHANGED <<Quoting!health, quotingCache, quotingResult>>,
             quotingNow' \in {quotingNow, quotingNow + 1} PROVE QuotesInv'
  <2>1. QuotesTyped' /\ Quoting!AnswersAreHonest'
    <3>1. quotingNow \in Nat /\ quotingCache.time \in Int /\ QuotesTyped'
      BY <1>0, <1>1 DEF QuotesTyped, Quote, Quoting!health
    <3>2. quotingNow - quotingCache.time > CacheTtl
            => quotingNow' - quotingCache.time > CacheTtl
      BY <1>1, <3>1
    <3> QED
      BY <1>0, <1>1, <3>1, <3>2 DEF Quoting!AnswersAreHonest
  <2> QED
    BY <1>1, <2>1, HealthStays DEF QuotesInv
<1>2. CASE UNCHANGED quotingVars
  BY <1>1, <1>2 DEF quotingVars, Quoting!health
<1>3. CASE Quoting!GetQuote
  BY <1>1, <1>3 DEF Quoting!GetQuote
<1>4. CASE Quoting!FromCache
  <2>1. UNCHANGED <<quotingNow, Quoting!health>>
    BY <1>4 DEF Quoting!FromCache
  <2>2. CASE /\ quotingCache = Quoting!NoQuote \/ quotingNow - quotingCache.time > CacheTtl
             /\ quotingResult' = Quoting!NoQuote /\ UNCHANGED quotingCache
    <3>1. QuotesTyped' /\ Quoting!AnswersAreHonest'
      BY <1>0, <2>1, <2>2 DEF QuotesTyped, Quoting!AnswersAreHonest, Quoting!health
    <3> QED
      BY <2>1, <3>1, HealthStays DEF QuotesInv
  <2>3. CASE /\ quotingNow - quotingCache.time <= CacheTtl
             /\ quotingCache'
                  = [quotingCache EXCEPT !.stale = TRUE, !.at = quotingNow, !.from = "cache"]
             /\ quotingResult' = quotingCache'
    <3>0. quotingCache \in Quote /\ quotingNow \in Int
      BY <1>0 DEF QuotesTyped
    <3>1. /\ quotingCache'.stale = TRUE /\ quotingCache'.at = quotingNow
             /\ quotingCache'.from = "cache"
          /\ quotingCache'.time = quotingCache.time /\ quotingCache' \in Quote
      BY <3>0, <2>3 DEF Quote
    <3>2. quotingCache' # Quoting!NoQuote
      BY <3>1 DEF Quoting!NoQuote
    <3>3. Quoting!AnswersAreHonest'
      BY <2>3, <3>1, <3>2 DEF Quoting!AnswersAreHonest
    <3>4. QuotesTyped'
      BY <1>0, <2>1, <3>1 DEF QuotesTyped, Quoting!health
    <3> QED
      BY <2>1, <3>3, <3>4, HealthStays DEF QuotesInv
  <2>4. quotingCache.time \in Int /\ quotingNow \in Nat
    BY <1>0 DEF QuotesTyped, Quote
  <2>5. quotingNow - quotingCache.time > CacheTtl \/ quotingNow - quotingCache.time <= CacheTtl
    BY <2>4
  <2> QED
    BY <1>4, <2>2, <2>3, <2>5 DEF Quoting!FromCache
<1>5. CASE Quoting!Tick
  BY <1>1, <1>5 DEF Quoting!Tick
<1>6. ASSUME NEW p \in Quoting!Provider, Quoting!ResetProvider(p) PROVE QuotesInv'
  <2>1. /\ quotingStatus' = [quotingStatus EXCEPT ![p] = "HEALTHY"]
           /\ quotingFailures' = [quotingFailures EXCEPT ![p] = 0]
        /\ answers' = [answers EXCEPT ![p] = <<>>]
           /\ UNCHANGED <<quotingNow, quotingCache, quotingResult>>
    BY <1>6 DEF Quoting!ResetProvider
  <2>2. <<>> \in Seq(Answer) /\ EndsWith(<<>>, 0) /\ ~Quoting!InRow(<<>>, 3)
        /\ ~Quoting!InRow(<<>>, 2)
    BY DEF EndsWith, Quoting!InRow
  <2>3. /\ FailuresAreCounted' /\ Quoting!HealthIsHistory'
        /\ quotingStatus' \in [Quoting!Provider -> {"HEALTHY", "DEGRADED", "FAILED"}]
        /\ quotingFailures' \in [Quoting!Provider -> Nat]
           /\ answers' \in [Quoting!Provider -> Seq(Answer)]
    BY <2>1, <2>2, HealthOfOne
  <2>4. QuotesTyped' /\ Quoting!AnswersAreHonest'
    BY <1>0, <2>1, <2>3 DEF QuotesTyped, Quoting!AnswersAreHonest
  <2> QED
    BY <2>3, <2>4 DEF QuotesInv
<1>7. ASSUME NEW p \in Quoting!Provider, Quoting!Breaks(p) \/ Quoting!Repaired(p) PROVE QuotesInv'
  BY <1>1, <1>7 DEF Quoting!Breaks, Quoting!Repaired
<1>8. ASSUME NEW p \in Quoting!Provider, Quoting!SkipFailed(p) \/ Quoting!Empty(p)
      PROVE QuotesInv'
  BY <1>1, <1>8 DEF Quoting!SkipFailed, Quoting!Empty
<1>9. ASSUME NEW p \in Quoting!Provider, Quoting!Raises(p) PROVE QuotesInv'
  <2> DEFINE heard == answers[p]
             f == quotingFailures[p]
             more == Append(heard, "failure")
             s == IF f + 1 >= 3 THEN "FAILED" ELSE IF f + 1 >= 2 THEN "DEGRADED"
               ELSE quotingStatus[p]
  <2>1. /\ UNCHANGED <<quotingNow, quotingCache, quotingResult>> /\ quotingStatus[p] # "FAILED"
        /\ quotingFailures' = [quotingFailures EXCEPT ![p] = f + 1]
        /\ answers' = [answers EXCEPT ![p] = more]
        /\ quotingStatus' = [quotingStatus EXCEPT ![p] =
             IF quotingFailures'[p] >= 3 THEN "FAILED" ELSE IF quotingFailures'[p] >= 2
               THEN "DEGRADED" ELSE @]
    BY <1>0, <1>9 DEF Quoting!Raises, Quoting!RecordFailure, Quoting!Asked, Quoting!Usable,
          Quoting!Heard
  <2>2. heard \in Seq(Answer) /\ f \in Nat
        /\ quotingStatus[p] \in {"HEALTHY", "DEGRADED", "FAILED"}
    BY <1>0 DEF QuotesTyped
  <2>3. quotingFailures'[p] = f + 1
    BY <1>0, <2>1 DEF QuotesTyped
  <2>4. quotingStatus' = [quotingStatus EXCEPT ![p] = s]
    BY <2>1, <2>3
  <2>5. EndsWith(heard, f)
    BY <1>0 DEF FailuresAreCounted
  <2>6. quotingStatus[p] = IF Quoting!InRow(heard, 3) THEN "FAILED"
          ELSE IF Quoting!InRow(heard, 2) THEN "DEGRADED" ELSE "HEALTHY"
    BY <1>0 DEF Quoting!HealthIsHistory
  <2>7. more \in Seq(Answer)
    BY <2>2 DEF Answer
  <2>8. /\ EndsWith(more, f + 1) /\ f + 1 \in Nat
        /\ Quoting!InRow(more, 3) <=> Quoting!InRow(heard, 3) \/ f + 1 >= 3
        /\ Quoting!InRow(more, 2) <=> Quoting!InRow(heard, 2) \/ f + 1 >= 2
    BY <2>2, <2>5, OneMoreFailure
  <2> HIDE DEF more, heard, f
  <2>9. s = IF Quoting!InRow(more, 3) THEN "FAILED" ELSE IF Quoting!InRow(more, 2) THEN "DEGRADED"
          ELSE "HEALTHY"
    BY <2>1, <2>2, <2>6, <2>8
  <2>10. s \in {"HEALTHY", "DEGRADED", "FAILED"}
    BY <2>2
  <2> HIDE DEF s
  <2>11. /\ FailuresAreCounted' /\ Quoting!HealthIsHistory'
         /\ quotingStatus' \in [Quoting!Provider -> {"HEALTHY", "DEGRADED", "FAILED"}]
         /\ quotingFailures' \in [Quoting!Provider -> Nat]
            /\ answers' \in [Quoting!Provider -> Seq(Answer)]
    BY <2>1, <2>4, <2>7, <2>8, <2>9, <2>10, HealthOfOne
  <2>12. QuotesTyped' /\ Quoting!AnswersAreHonest'
    BY <1>0, <2>1, <2>11 DEF QuotesTyped, Quoting!AnswersAreHonest
  <2> QED
    BY <2>11, <2>12 DEF QuotesInv
<1>10. ASSUME NEW p \in Quoting!Provider, NEW age \in Ages, Quoting!Quoted(p, age)
       PROVE QuotesInv'
  <2> DEFINE heard == answers[p]
             more == Append(heard, "quote")
             s == quotingStatus[p]
  <2>1. /\ UNCHANGED quotingNow /\ s # "FAILED" /\ age <= quotingNow
        /\ quotingFailures' = [quotingFailures EXCEPT ![p] = 0]
        /\ answers' = [answers EXCEPT ![p] = more] /\ UNCHANGED quotingStatus
        /\ quotingCache'
             = [time |-> quotingNow - age, at |-> quotingNow, stale |-> age > Staleness,
               from |-> "provider"]
        /\ quotingResult' = quotingCache'
    BY <1>0, <1>10 DEF Quoting!Quoted, Quoting!RecordSuccess, Quoting!Succeeded, Quoting!Asked,
          Quoting!Usable, Quoting!Heard
  <2>2. heard \in Seq(Answer) /\ s \in {"HEALTHY", "DEGRADED", "FAILED"} /\ quotingNow \in Nat
        /\ age \in Nat
    BY <1>0 DEF QuotesTyped
  <2>3. s = IF Quoting!InRow(heard, 3) THEN "FAILED" ELSE IF Quoting!InRow(heard, 2)
          THEN "DEGRADED" ELSE "HEALTHY"
    BY <1>0 DEF Quoting!HealthIsHistory
  <2>4. more \in Seq(Answer)
    BY <2>2 DEF Answer
  <2>5. /\ EndsWith(more, 0)
        /\ Quoting!InRow(more, 3) <=> Quoting!InRow(heard, 3)
        /\ Quoting!InRow(more, 2) <=> Quoting!InRow(heard, 2)
    BY <2>2, OneMoreQuote
  <2>6. quotingStatus' = [quotingStatus EXCEPT ![p] = s]
    BY <1>0, <2>1 DEF QuotesTyped
  <2> HIDE DEF more, heard, s
  <2>7. s = IF Quoting!InRow(more, 3) THEN "FAILED" ELSE IF Quoting!InRow(more, 2) THEN "DEGRADED"
          ELSE "HEALTHY"
    BY <2>3, <2>5
  <2>8. /\ FailuresAreCounted' /\ Quoting!HealthIsHistory'
        /\ quotingStatus' \in [Quoting!Provider -> {"HEALTHY", "DEGRADED", "FAILED"}]
        /\ quotingFailures' \in [Quoting!Provider -> Nat]
           /\ answers' \in [Quoting!Provider -> Seq(Answer)]
    BY <2>1, <2>2, <2>4, <2>5, <2>6, <2>7, HealthOfOne
  <2>9. quotingCache' \in Quote /\ quotingCache' # Quoting!NoQuote
    BY <2>1, <2>2 DEF Quote, Quoting!NoQuote
  <2>10. /\ quotingCache'.at - quotingCache'.time = age /\ quotingCache'.from = "provider"
    BY <2>1, <2>2
  <2>11. quotingCache'.stale \/ quotingCache'.at - quotingCache'.time <= Staleness
    <3>1. quotingCache'.stale = (age > Staleness)
      BY <2>1
    <3>2. CASE age > Staleness
      BY <3>1, <3>2
    <3>3. CASE ~(age > Staleness)
      <4>1. age <= Staleness
        BY <2>2, <3>3
      <4> QED
        BY <2>10, <4>1
    <3> QED
      BY <3>2, <3>3
  <2>12. Quoting!AnswersAreHonest'
    BY <2>1, <2>9, <2>10, <2>11 DEF Quoting!AnswersAreHonest
  <2>13. QuotesTyped'
    BY <1>0, <2>1, <2>8, <2>9 DEF QuotesTyped
  <2> QED
    BY <2>8, <2>12, <2>13 DEF QuotesInv
<1> QED
  BY <1>2, <1>3, <1>4, <1>5, <1>6, <1>7, <1>8, <1>9, <1>10 DEF Quoting!Next, Quoting!Call

(* A provider's status is the worst run of failures since its last reset,  *)
(* a quote that is not called stale was fresh when handed out, and None is *)
(* answered only when nothing young enough is cached, for any number of    *)
(* providers, attempts and retries, and any two limits of age.             *)
THEOREM Honesty == MCSpec => []QuotesAreHonest
<1>1. MCInit => QuotesInv
  BY Begins, QuotesInit
<1>2. QuotesInv /\ [MCNext]_allVars => QuotesInv'
  BY Moves, QuotesStep
<1>3. QuotesInv => QuotesAreHonest
  BY DEF QuotesInv, QuotesAreHonest, Quoting!QuotesAreHonest
<1> QED
  BY <1>1, <1>2, <1>3, PTL DEF MCSpec
=============================================================================
