----------------------- MODULE TradingServices_proofs -----------------------
(***************************************************************************)
(* Theorems about the components that look for trades, bound them and      *)
(* report on them: about TransactionLog on its own, and about the others   *)
(* as MCTradingServices instantiates them, for any value of their          *)
(* constants.                                                              *)
(***************************************************************************)
EXTENDS MCTradingServices, FiniteSetTheorems, SequenceTheorems, WellFoundedInduction,
        TLAPS

-----------------------------------------------------------------------------
(* TransactionLog.                                                         *)

Part == Cut \cup {"whole"}

\* A write leaves the file alone, changes its last line when that has not
\* ended, or adds a line.
LEMMA WriteCases ==
  ASSUME NEW file \in Seq(Line), NEW r \in Record, NEW part \in Part
  PROVE  /\ Write(file, r, part) \in Seq(Line)
         /\ \/ /\ part = "nothing"
               /\ Write(file, r, part) = file
            \/ /\ part # "nothing" /\ IsOpen(file)
               /\ Len(Write(file, r, part)) = Len(file)
               /\ Len(file) \in DOMAIN file
               /\ Write(file, r, part)[Len(file)] = Glued(file[Len(file)], part)
               /\ \A i \in 1..(Len(file) - 1) : Write(file, r, part)[i] = file[i]
            \/ /\ part # "nothing" /\ ~IsOpen(file)
               /\ Len(Write(file, r, part)) = Len(file) + 1
               /\ Write(file, r, part)[Len(file) + 1] = Alone(r, part)
               /\ \A i \in 1..Len(file) : Write(file, r, part)[i] = file[i]
<1>1. CASE part = "nothing"
  BY <1>1 DEF Write
<1>2. CASE part # "nothing" /\ IsOpen(file)
  <2>1. Len(file) \in DOMAIN file /\ file[Len(file)] \in Line
    BY <1>2, EmptySeq DEF IsOpen
  <2>2. Glued(file[Len(file)], part) \in Line
    BY <2>1 DEF Glued, Line
  <2>3. Write(file, r, part) = [file EXCEPT ![Len(file)] = Glued(file[Len(file)], part)]
    BY <1>2 DEF Write
  <2> QED
    BY <1>2, <2>1, <2>2, <2>3
<1>3. CASE part # "nothing" /\ ~IsOpen(file)
  <2>1. Alone(r, part) \in Line
    BY DEF Alone, Line
  <2>2. Write(file, r, part) = Append(file, Alone(r, part))
    BY <1>3 DEF Write
  <2> QED
    BY <1>3, <2>1, <2>2, AppendProperties
<1> QED
  BY <1>1, <1>2, <1>3

\* What the reader finds after a write was there before, or is the record.
LEMMA ReadAfterWrite ==
  ASSUME NEW file \in Seq(Line), NEW r \in Record, NEW part \in Part,
         NEW i, Read(Write(file, r, part), i)
  PROVE  \/ Read(file, i) /\ Write(file, r, part)[i] = file[i]
         \/ i = Len(file) + 1 /\ Write(file, r, part)[i].record = r
<1> DEFINE w == Write(file, r, part)
<1>1. w \in Seq(Line) /\ i \in 1..Len(w) /\ w[i].intact
  BY WriteCases DEF Read, Reads
<1>2. CASE w = file
  BY <1>2
<1>3. CASE /\ Len(w) = Len(file) /\ Len(file) \in DOMAIN file
           /\ w[Len(file)] = Glued(file[Len(file)], part)
           /\ \A k \in 1..(Len(file) - 1) : w[k] = file[k]
  <2>1. i # Len(file)
    BY <1>1, <1>3 DEF Glued
  <2>2. i \in 1..(Len(file) - 1)
    BY <1>1, <1>3, <2>1
  <2> QED
    BY <1>3, <2>2 DEF Read
<1>4. CASE /\ Len(w) = Len(file) + 1 /\ w[Len(file) + 1] = Alone(r, part)
           /\ \A k \in 1..Len(file) : w[k] = file[k]
  <2>1. CASE i = Len(file) + 1
    BY <1>4, <2>1 DEF Alone
  <2>2. CASE i \in 1..Len(file)
    BY <1>4, <2>2 DEF Read
  <2> QED
    BY <1>1, <1>4, <2>1, <2>2
<1> QED
  BY <1>2, <1>3, <1>4, WriteCases

\* A line that has ended and can be read can be read after any write.
LEMMA EndedStaysRead ==
  ASSUME NEW file \in Seq(Line), NEW r \in Record, NEW part \in Part,
         NEW i, Read(file, i), file[i].ended
  PROVE  Read(Write(file, r, part), i) /\ Write(file, r, part)[i] = file[i]
<1> DEFINE w == Write(file, r, part)
<1>1. i \in 1..Len(file)
  BY DEF Read
<1>2. CASE w = file
  BY <1>2
<1>3. CASE /\ IsOpen(file) /\ Len(w) = Len(file)
           /\ \A k \in 1..(Len(file) - 1) : w[k] = file[k]
  <2>1. i \in 1..(Len(file) - 1)
    BY <1>1, <1>3 DEF IsOpen
  <2> QED
    BY SMTT(40), <1>3, <2>1, WriteCases DEF Read
<1>4. CASE /\ Len(w) = Len(file) + 1 /\ \A k \in 1..Len(file) : w[k] = file[k]
  <2>1. i \in 1..Len(w) /\ \A k \in 1..i : w[k] = file[k]
    BY <1>1, <1>4
  <2>2. w \in Seq(Line) /\ i \in DOMAIN w
    BY <2>1, WriteCases
  <2>3. Reads(w[i]) = "event" /\ \A j \in 1..(i - 1) : Reads(w[j]) # "stop"
    BY <1>1, <2>1 DEF Read
  <2> QED
    BY <1>1, <2>1, <2>2, <2>3 DEF Read
<1> QED
  BY <1>2, <1>3, <1>4, WriteCases

-----------------------------------------------------------------------------

\* The empty log has the types.
LEMMA TypeInit == Init => TypeOK
BY EmptySeq, LogAssumption DEF Init, TypeOK, Cut

\* The variables start with their types and every step keeps them.
THEOREM Typing == Spec => []TypeOK
<1>1. Init => TypeOK
  BY TypeInit
<1>2. TypeOK /\ [Next]_vars => TypeOK'
  <2> SUFFICES ASSUME TypeOK, [Next]_vars PROVE TypeOK'
    OBVIOUS
  <2>1. CASE AppendReturns
    <3>1. called + 1 \in Record
      BY <2>1, LogAssumption DEF AppendReturns, TypeOK, Record
    <3>2. lines' \in Seq(Line)
      BY <2>1, <3>1, WriteCases DEF AppendReturns, TypeOK, Part
    <3> QED
      BY <2>1, <3>1, <3>2 DEF AppendReturns, TypeOK, Record
  <2>2. ASSUME NEW cut \in Cut, Fail(cut) PROVE TypeOK'
    <3>1. called + 1 \in Record
      BY <2>2, LogAssumption DEF Fail, TypeOK, Record
    <3>2. buffer' \in Seq(Record) /\ buffer' # <<>>
      BY <2>2, <3>1, AppendProperties, EmptySeq DEF Fail, TypeOK
    <3> QED
      BY <2>2, <3>1, <3>2 DEF Fail, TypeOK, Record
  <2>3. CASE Drain
    <3>1. Head(buffer) \in Record /\ Tail(buffer) \in Seq(Record)
      BY <2>3, HeadTailProperties DEF Drain, TypeOK
    <3>2. lines' \in Seq(Line)
      BY <2>3, <3>1, WriteCases DEF Drain, TypeOK, Part
    <3> QED
      BY <2>3, <3>1, <3>2 DEF Drain, Rest, NextPart, TypeOK, Cut
  <2>4. CASE Restart
    <3>1. File \in Seq(Line)
      <4>1. CASE buffer = <<>>
        BY <4>1 DEF File, TypeOK
      <4>2. CASE buffer # <<>>
        BY <4>2, HeadTailProperties, WriteCases DEF File, TypeOK, Part
      <4> QED
        BY <4>1, <4>2
    <3> QED
      BY <2>4, <3>1, EmptySeq DEF Restart, Reopened, Seed, Seen, TypeOK, Cut
  <2>5. CASE UNCHANGED vars
    BY <2>5 DEF vars, TypeOK
  <2> QED
    BY <2>1, <2>2, <2>3, <2>4, <2>5 DEF Next
<1> QED
  BY <1>1, <1>2, PTL DEF Spec

-----------------------------------------------------------------------------

\* The file as the operating system has it is the lines, with a part of the
\* first record of the buffer behind them when there is one.
LEMMA FileCases ==
  ASSUME TypeOK
  PROVE  /\ File \in Seq(Line)
         /\ \/ buffer = <<>> /\ File = lines
            \/ /\ buffer # <<>> /\ File = Write(lines, Head(buffer), partial)
               /\ 1 \in DOMAIN buffer /\ Head(buffer) = buffer[1]
               /\ Head(buffer) \in Record /\ partial \in Part
<1>1. CASE buffer = <<>>
  BY <1>1 DEF File, TypeOK
<1>2. CASE buffer # <<>>
  <2>1. 1 \in DOMAIN buffer /\ Head(buffer) = buffer[1] /\ Head(buffer) \in Record
    BY <1>2, HeadTailProperties, EmptySeq DEF TypeOK
  <2> QED
    BY <1>2, <2>1, WriteCases DEF File, TypeOK, Part
<1> QED
  BY <1>1, <1>2

\* A write lets a reader see at most its own record in addition.
LEMMA SeenAfterWrite ==
  ASSUME NEW file \in Seq(Line), NEW r \in Record, NEW part \in Part
  PROVE  Seen(Write(file, r, part)) \subseteq Seen(file) \cup {r}
<1> SUFFICES ASSUME NEW x \in Record, NEW i, Read(Write(file, r, part), i),
                    Write(file, r, part)[i].record = x
             PROVE  x \in Seen(file) \cup {r}
  BY DEF Seen
<1>1. CASE Read(file, i) /\ Write(file, r, part)[i] = file[i]
  <2>1. i \in DOMAIN file
    BY <1>1 DEF Read
  <2> QED
    BY <1>1, <2>1 DEF Seen
<1> QED
  BY <1>1, ReadAfterWrite

\* What can be read is in the guard, and so is what still waits in the buffer.
GuardCovers ==
  /\ TypeOK
  /\ Seen(lines) \subseteq guard
  /\ \A k \in DOMAIN buffer : buffer[k] \in guard

\* The part of the buffer that is in the file is covered as well.
LEMMA FileIsCovered ==
  ASSUME GuardCovers
  PROVE  SeenIsBlocked
BY FileCases, SeenAfterWrite DEF GuardCovers, SeenIsBlocked, TypeOK

\* An empty log needs no guard.
LEMMA CoverInit == Init => GuardCovers
<1> SUFFICES ASSUME Init PROVE GuardCovers
  OBVIOUS
<1>1. TypeOK
  BY TypeInit
<1> QED
  BY <1>1 DEF Init, GuardCovers, Seen, Read

\* Every step keeps the log covered.
LEMMA CoverStep ==
  ASSUME GuardCovers, TypeOK', [Next]_vars
  PROVE  GuardCovers'
<1>1. CASE AppendReturns
  <2>1. called + 1 \in Record
    BY <1>1, LogAssumption DEF AppendReturns, GuardCovers, TypeOK, Record
  <2>2. Seen(lines') \subseteq Seen(lines) \cup {called + 1}
    BY <1>1, <2>1, SeenAfterWrite DEF AppendReturns, GuardCovers, TypeOK, Part
  <2> QED
    BY <1>1, <2>2 DEF AppendReturns, GuardCovers
<1>2. ASSUME NEW cut \in Cut, Fail(cut) PROVE GuardCovers'
  <2>1. called + 1 \in Record
    BY <1>2, LogAssumption DEF Fail, GuardCovers, TypeOK, Record
  <2>2. \A k \in DOMAIN buffer' : buffer'[k] \in guard'
    <3> SUFFICES ASSUME NEW k \in DOMAIN buffer' PROVE buffer'[k] \in guard'
      OBVIOUS
    <3>1. k \in 1..(Len(buffer) + 1)
      BY <1>2, <2>1, AppendProperties DEF Fail, GuardCovers, TypeOK
    <3>2. CASE k = Len(buffer) + 1
      BY <1>2, <2>1, <3>2, AppendProperties DEF Fail, GuardCovers, TypeOK
    <3>3. CASE k \in 1..Len(buffer)
      BY <1>2, <2>1, <3>3, AppendProperties DEF Fail, GuardCovers, TypeOK
    <3>4. Len(buffer) \in Nat
      BY DEF GuardCovers, TypeOK
    <3> QED
      BY <3>1, <3>2, <3>3, <3>4
  <2>3. lines' = lines /\ guard \subseteq guard'
    BY <1>2 DEF Fail
  <2> QED
    BY <2>2, <2>3 DEF GuardCovers
<1>3. CASE Drain
  <2>1. Head(buffer) \in Record /\ Head(buffer) \in guard
    BY <1>3, FileCases DEF Drain, GuardCovers
  <2>2. Seen(lines') \subseteq Seen(lines) \cup {Head(buffer)}
    BY <1>3, <2>1, SeenAfterWrite DEF Drain, GuardCovers, TypeOK, Part
  <2>3. \A k \in DOMAIN buffer' : buffer'[k] \in guard
    BY <1>3, HeadTailProperties DEF Drain, Rest, GuardCovers, TypeOK
  <2> QED
    BY <1>3, <2>1, <2>2, <2>3 DEF Drain, GuardCovers
<1>4. CASE Restart
  BY <1>4 DEF Restart, Reopened, Seed, GuardCovers
<1>5. CASE UNCHANGED vars
  BY <1>5 DEF vars, GuardCovers, Seen, Read, Reads
<1> QED
  BY <1>1, <1>2, <1>3, <1>4, <1>5 DEF Next

\* Whatever a reader could find in the log is blocked, in every session.
THEOREM Blocked == Spec => []SeenIsBlocked
<1>1. GuardCovers /\ TypeOK' /\ [Next]_vars => GuardCovers'
  BY CoverStep
<1>2. GuardCovers => SeenIsBlocked
  BY FileIsCovered
<1> QED
  BY CoverInit, Typing, <1>1, <1>2, PTL DEF Spec

-----------------------------------------------------------------------------

\* The lines that can be read hold records in increasing order.
Increasing(file) ==
  \A i, j \in DOMAIN file :
    i < j /\ Read(file, i) /\ Read(file, j) => file[i].record < file[j].record

\* Every line that can be read holds a record before r.
Before(file, r) == \A i \in DOMAIN file : Read(file, i) => file[i].record < r

\* A write of a later record keeps the order.
LEMMA IncreasingAfterWrite ==
  ASSUME NEW file \in Seq(Line), NEW r \in Record, NEW part \in Part,
         Increasing(file), Before(file, r)
  PROVE  /\ Increasing(Write(file, r, part))
         /\ \A i \in DOMAIN Write(file, r, part) :
              Read(Write(file, r, part), i) => Write(file, r, part)[i].record \in 0..r
<1> DEFINE w == Write(file, r, part)
<1>1. \A i : Read(w, i) => /\ w[i].record \in Record
                           /\ \/ i \in DOMAIN file /\ Read(file, i) /\ w[i] = file[i]
                              \/ i = Len(file) + 1 /\ w[i].record = r
  <2> SUFFICES ASSUME NEW i, Read(w, i)
               PROVE  /\ w[i].record \in Record
                      /\ \/ i \in DOMAIN file /\ Read(file, i) /\ w[i] = file[i]
                         \/ i = Len(file) + 1 /\ w[i].record = r
    OBVIOUS
  <2>1. w[i] \in Line
    BY WriteCases DEF Read
  <2> QED
    BY <2>1, ReadAfterWrite DEF Read, Line
<1>2. \A i : Read(w, i) => w[i].record \in 0..r
  <2> SUFFICES ASSUME NEW i, Read(w, i) PROVE w[i].record \in 0..r
    OBVIOUS
  <2>1. w[i].record = r \/ w[i].record < r
    BY <1>1 DEF Before
  <2> QED
    BY <1>1, <2>1, LogAssumption DEF Record
<1>3. ASSUME NEW i \in DOMAIN w, NEW j \in DOMAIN w, i < j, Read(w, i), Read(w, j)
      PROVE  w[i].record < w[j].record
  <2>1. w \in Seq(Line) /\ (Len(w) = Len(file) \/ Len(w) = Len(file) + 1)
    BY WriteCases
  <2>2. i # Len(file) + 1
    BY <1>3, <2>1
  <2>3. i \in DOMAIN file /\ Read(file, i) /\ w[i] = file[i]
    BY <1>1, <1>3, <2>2
  <2>4. CASE j \in DOMAIN file /\ Read(file, j) /\ w[j] = file[j]
    BY <1>3, <2>3, <2>4 DEF Increasing
  <2>5. CASE w[j].record = r
    BY <2>3, <2>5 DEF Before
  <2> QED
    BY <1>1, <1>3, <2>4, <2>5
<1> QED
  BY <1>2, <1>3 DEF Increasing

\* What can be read increases, the buffer continues it, and no record is from a
\* later call than the last.
InOrder ==
  /\ TypeOK
  /\ Increasing(lines)
  /\ Before(lines, called + 1)
  /\ \A k \in DOMAIN buffer : Before(lines, buffer[k]) /\ buffer[k] < called + 1
  /\ \A k, l \in DOMAIN buffer : k < l => buffer[k] < buffer[l]

\* The part of the buffer that is in the file continues the order.
LEMMA FileInOrder ==
  ASSUME InOrder
  PROVE  Increasing(File) /\ Before(File, called + 1)
<1>1. CASE buffer = <<>>
  BY <1>1, FileCases DEF InOrder
<1>2. CASE buffer # <<>>
  <2> DEFINE h == Head(buffer)
  <2>1. /\ h \in Record /\ partial \in Part /\ Before(lines, h) /\ h < called + 1
        /\ File = Write(lines, h, partial)
    BY <1>2, FileCases DEF InOrder
  <2>2. Increasing(File) /\ \A i \in DOMAIN File : Read(File, i) => File[i].record \in 0..h
    BY <2>1, IncreasingAfterWrite DEF InOrder, TypeOK
  <2>3. called \in Nat /\ h \in Nat
    BY <2>1 DEF InOrder, TypeOK, Record
  <2> QED
    BY <2>1, <2>2, <2>3 DEF Before
<1> QED
  BY <1>1, <1>2

\* Records are numbers.
LEMMA Numbers ==
  ASSUME TypeOK
  PROVE  /\ \A i \in DOMAIN lines : lines[i].record \in Nat
         /\ \A k \in DOMAIN buffer : buffer[k] \in Nat
<1>1. \A r \in Record : r \in Nat
  BY LogAssumption DEF Record
<1>2. \A i \in DOMAIN lines : lines[i] \in Line
  BY DEF TypeOK
<1>3. \A k \in DOMAIN buffer : buffer[k] \in Record
  BY DEF TypeOK
<1> QED
  BY <1>1, <1>2, <1>3 DEF Line

\* An empty log is in order.
LEMMA OrderInit == Init => InOrder
<1> SUFFICES ASSUME Init PROVE InOrder
  OBVIOUS
<1>1. TypeOK
  BY TypeInit
<1> QED
  BY <1>1, EmptySeq DEF Init, InOrder, Increasing, Before

\* Every step keeps the order.
LEMMA OrderStep ==
  ASSUME InOrder, TypeOK', [Next]_vars
  PROVE  InOrder'
<1> USE DEF InOrder
<1>1. CASE AppendReturns
  <2>1. called + 1 \in Record /\ lines' = Write(lines, called + 1, "whole")
    BY <1>1, LogAssumption DEF AppendReturns, TypeOK, Record
  <2>2. /\ Increasing(lines')
        /\ \A i \in DOMAIN lines' : Read(lines', i) => lines'[i].record \in 0..(called + 1)
    BY <2>1, IncreasingAfterWrite DEF TypeOK, Part
  <2>3. Before(lines', called' + 1)
    BY <1>1, <2>2 DEF AppendReturns, Before, TypeOK
  <2> QED
    BY <1>1, <2>2, <2>3, EmptySeq DEF AppendReturns
<1>2. ASSUME NEW cut \in Cut, Fail(cut) PROVE InOrder'
  <2>1. /\ called + 1 \in Record /\ called \in Nat
        /\ buffer \in Seq(Record) /\ Len(buffer) \in Nat /\ DOMAIN buffer = 1..Len(buffer)
        /\ buffer' = Append(buffer, called + 1) /\ called' = called + 1
    BY <1>2, LogAssumption DEF Fail, TypeOK, Record
  <2>2. /\ DOMAIN buffer' = 1..(Len(buffer) + 1)
        /\ buffer'[Len(buffer) + 1] = called + 1
        /\ \A k \in DOMAIN buffer : buffer'[k] = buffer[k]
    BY <2>1, AppendProperties
  <2>3. lines' = lines
    BY <1>2 DEF Fail
  <2>4. Increasing(lines') /\ Before(lines', called' + 1)
    <3>1. \A i \in DOMAIN lines : lines[i].record \in Nat
      BY Numbers
    <3> QED
      BY <2>1, <2>3, <3>1 DEF Before, Increasing
  <2>5. \A k \in DOMAIN buffer : buffer[k] \in Nat
    BY Numbers
  <2>6. ASSUME NEW k \in DOMAIN buffer'
        PROVE  Before(lines', buffer'[k]) /\ buffer'[k] < called' + 1
    BY <2>1, <2>2, <2>3, <2>5, <2>6
  <2>7. ASSUME NEW k \in DOMAIN buffer', NEW l \in DOMAIN buffer', k < l
        PROVE  buffer'[k] < buffer'[l]
    <3>1. k \in DOMAIN buffer
      BY <2>1, <2>2, <2>7
    <3> QED
      BY <2>1, <2>2, <2>7, <3>1
  <2> QED
    BY <2>4, <2>6, <2>7
<1>3. CASE Drain
  <2> DEFINE h == Head(buffer)
  <2>1. /\ 1 \in DOMAIN buffer /\ h = buffer[1] /\ h \in Record
        /\ lines' = Write(lines, h, "whole") /\ called' = called
        /\ buffer \in Seq(Record) /\ buffer # <<>> /\ buffer' = Tail(buffer)
    BY <1>3, FileCases DEF Drain, Rest, TypeOK
  <2>2. /\ Increasing(lines')
        /\ \A i \in DOMAIN lines' : Read(lines', i) => lines'[i].record \in 0..h
    BY <2>1, IncreasingAfterWrite DEF TypeOK, Part
  <2>3. \A k \in DOMAIN buffer' : /\ k + 1 \in DOMAIN buffer /\ 1 < k + 1
                                  /\ buffer'[k] = buffer[k + 1]
    <3>1. /\ Len(buffer') = Len(buffer) - 1 /\ buffer' \in Seq(Record)
          /\ \A k \in 1..Len(buffer') : buffer'[k] = buffer[k + 1]
      BY <2>1, HeadTailProperties
    <3> QED
      BY <2>1, <3>1
  <2>4. \A k \in DOMAIN buffer : buffer[k] \in Nat
    BY Numbers
  <2>5. called \in Nat
    BY DEF TypeOK
  <2>6. Before(lines', called' + 1)
    BY <2>1, <2>2, <2>4, <2>5 DEF Before
  <2>7. \A k \in DOMAIN buffer' : Before(lines', buffer'[k]) /\ buffer'[k] < called' + 1
    <3> SUFFICES ASSUME NEW k \in DOMAIN buffer'
                 PROVE  Before(lines', buffer'[k]) /\ buffer'[k] < called' + 1
      OBVIOUS
    <3>1. h < buffer'[k] /\ buffer'[k] < called + 1 /\ buffer'[k] \in Nat
      BY <2>1, <2>3, <2>4
    <3> QED
      BY <2>1, <2>2, <2>4, <3>1 DEF Before
  <2>8. ASSUME NEW k \in DOMAIN buffer', NEW l \in DOMAIN buffer', k < l
        PROVE  buffer'[k] < buffer'[l]
    <3>1. k \in Nat /\ l \in Nat
      BY <2>1, HeadTailProperties
    <3> QED
      BY <2>3, <2>8, <3>1
  <2> QED
    BY <2>2, <2>6, <2>7, <2>8
<1>4. CASE Restart
  <2>1. Increasing(File) /\ Before(File, called + 1)
    BY FileInOrder
  <2> QED
    BY <1>4, <2>1, EmptySeq DEF Restart, Reopened
<1>5. CASE UNCHANGED vars
  BY <1>5 DEF vars, Increasing, Before, Read, Reads
<1> QED
  BY <1>1, <1>2, <1>3, <1>4, <1>5 DEF Next

\* The log is read in the order of the calls of append(), no record twice.
THEOREM Order == Spec => []ReadInOrder
<1>1. InOrder /\ TypeOK' /\ [Next]_vars => InOrder'
  BY OrderStep
<1>2. InOrder => ReadInOrder
  BY FileInOrder DEF Increasing, ReadInOrder
<1> QED
  BY OrderInit, Typing, <1>1, <1>2, PTL DEF Spec

-----------------------------------------------------------------------------

\* Only the last line may be open.
EndedBefore(file) == \A i \in 1..(Len(file) - 1) : file[i].ended

\* Only the last line may be open; an open line that reads as a record, and a
\* record in the buffer, were not acknowledged.
AckedEnded ==
  /\ TypeOK
  /\ EndedBefore(lines)
  /\ \A i \in DOMAIN lines : lines[i].intact /\ ~lines[i].ended => lines[i].record \notin acked
  /\ \A k \in DOMAIN buffer : buffer[k] \notin acked
  /\ acked \subseteq 1..called

\* A write leaves at most the last line open, and none when it is whole; an open
\* line that reads as a record was there before or holds the record written.
LEMMA EndedAfterWrite ==
  ASSUME NEW file \in Seq(Line), NEW r \in Record, NEW part \in Part,
         EndedBefore(file)
  PROVE  /\ EndedBefore(Write(file, r, part))
         /\ \A i \in DOMAIN Write(file, r, part) :
              LET l == Write(file, r, part)[i] IN
              l.intact /\ ~l.ended =>
                /\ part # "whole"
                /\ l.record = r \/ (i \in DOMAIN file /\ l = file[i])
<1> DEFINE w == Write(file, r, part)
<1>1. /\ Len(file) \in Nat /\ DOMAIN file = 1..Len(file)
      /\ w \in Seq(Line) /\ DOMAIN w = 1..Len(w)
  BY WriteCases
<1>2. CASE part = "nothing" /\ w = file
  BY <1>1, <1>2
<1>3. CASE /\ Len(w) = Len(file) /\ w[Len(file)] = Glued(file[Len(file)], part)
           /\ \A i \in 1..(Len(file) - 1) : w[i] = file[i]
  <2>1. ~w[Len(file)].intact
    BY <1>3 DEF Glued
  <2>2. \A i \in 1..(Len(file) - 1) : w[i].ended
    BY <1>3 DEF EndedBefore
  <2>3. \A i \in DOMAIN w : i = Len(file) \/ i \in 1..(Len(file) - 1)
    BY <1>1, <1>3
  <2> QED
    BY <1>3, <2>1, <2>2, <2>3 DEF EndedBefore
<1>4. CASE /\ Len(w) = Len(file) + 1 /\ w[Len(file) + 1] = Alone(r, part) /\ ~IsOpen(file)
           /\ \A i \in 1..Len(file) : w[i] = file[i]
  <2>1. \A i \in 1..Len(file) : file[i].ended
    <3>1. \A i \in 1..Len(file) : i = Len(file) \/ i \in 1..(Len(file) - 1)
      <4>1. Len(file) \in Nat
        BY <1>1
      <4> QED
        BY <4>1
    <3>2. Len(file) \in 1..Len(file) => file[Len(file)].ended
      BY <1>1, <1>4, EmptySeq DEF IsOpen
    <3> QED
      BY <3>1, <3>2 DEF EndedBefore
  <2>2. /\ w[Len(file) + 1].record = r
        /\ ~w[Len(file) + 1].ended => part # "whole"
    <3>1. Alone(r, part).record = r /\ (part = "whole" => Alone(r, part).ended = TRUE)
      BY DEF Alone
    <3> QED
      BY <1>4, <3>1
  <2>3. \A i \in DOMAIN w : i = Len(file) + 1 \/ i \in 1..Len(file)
    BY <1>1, <1>4
  <2>4. \A i \in 1..Len(file) : w[i].ended
    BY <1>4, <2>1
  <2>5. Len(w) - 1 = Len(file)
    BY <1>1, <1>4
  <2> QED
    BY <2>2, <2>3, <2>4, <2>5 DEF EndedBefore
<1> QED
  BY <1>2, <1>3, <1>4, WriteCases

\* The empty log has no line.
LEMMA EndedInit == Init => AckedEnded
<1> SUFFICES ASSUME Init PROVE AckedEnded
  OBVIOUS
<1>1. TypeOK
  BY TypeInit
<1> QED
  BY <1>1, EmptySeq DEF Init, AckedEnded, EndedBefore

\* Every step keeps acknowledged records on lines that have ended.
LEMMA EndedStep ==
  ASSUME AckedEnded, TypeOK', [Next]_vars
  PROVE  AckedEnded'
<1> USE DEF AckedEnded
<1>1. CASE AppendReturns
  <2>1. called + 1 \in Record /\ lines' = Write(lines, called + 1, "whole")
    BY <1>1, LogAssumption DEF AppendReturns, TypeOK, Record
  <2>2. EndedBefore(lines') /\ \A i \in DOMAIN lines' : ~(lines'[i].intact /\ ~lines'[i].ended)
    BY <2>1, EndedAfterWrite DEF TypeOK, Part
  <2>3. acked' \subseteq 1..called'
    BY <1>1 DEF AppendReturns, TypeOK
  <2>4. \A k \in DOMAIN buffer' : buffer'[k] \notin acked'
    BY <1>1, EmptySeq DEF AppendReturns
  <2> QED
    BY <2>2, <2>3, <2>4
<1>2. ASSUME NEW cut \in Cut, Fail(cut) PROVE AckedEnded'
  <2>1. /\ called + 1 \in Record /\ called \in Nat
        /\ buffer \in Seq(Record) /\ Len(buffer) \in Nat /\ DOMAIN buffer = 1..Len(buffer)
        /\ buffer' = Append(buffer, called + 1) /\ called' = called + 1
        /\ lines' = lines /\ acked' = acked
    BY <1>2, LogAssumption DEF Fail, TypeOK, Record
  <2>2. /\ DOMAIN buffer' = 1..(Len(buffer) + 1)
        /\ buffer'[Len(buffer) + 1] = called + 1
        /\ \A k \in DOMAIN buffer : buffer'[k] = buffer[k]
    BY <2>1, AppendProperties
  <2>3. acked' \subseteq 1..called' /\ called + 1 \notin acked
    BY <2>1
  <2>4. \A k \in DOMAIN buffer' : buffer'[k] \notin acked'
    BY <2>1, <2>2, <2>3
  <2> QED
    BY <2>1, <2>3, <2>4 DEF EndedBefore
<1>3. CASE Drain
  <2>1. /\ Head(buffer) \in Record /\ lines' = Write(lines, Head(buffer), "whole")
        /\ buffer' = Tail(buffer) /\ buffer \in Seq(Record) /\ buffer # <<>>
        /\ called' = called /\ acked' = acked
    BY <1>3, FileCases DEF Drain, Rest, TypeOK
  <2>2. EndedBefore(lines') /\ \A i \in DOMAIN lines' : ~(lines'[i].intact /\ ~lines'[i].ended)
    BY <2>1, EndedAfterWrite DEF TypeOK, Part
  <2>3. \A k \in DOMAIN buffer' : buffer'[k] \notin acked'
    BY <2>1, HeadTailProperties
  <2> QED
    BY <2>1, <2>2, <2>3
<1>4. CASE Restart
  <2>1. lines' = File /\ buffer' = <<>> /\ called' = called /\ acked' = acked
    BY <1>4 DEF Restart, Reopened
  <2>2. /\ EndedBefore(File)
        /\ \A i \in DOMAIN File : File[i].intact /\ ~File[i].ended => File[i].record \notin acked
    <3>1. CASE buffer = <<>>
      BY <3>1, FileCases
    <3>2. CASE buffer # <<>>
      <4>1. /\ Head(buffer) \in Record /\ Head(buffer) \notin acked /\ partial \in Part
            /\ File = Write(lines, Head(buffer), partial)
        BY <3>2, FileCases
      <4>2. lines \in Seq(Line) /\ EndedBefore(lines)
        BY DEF TypeOK
      <4>3. EndedBefore(File)
        BY <4>1, <4>2, EndedAfterWrite
      <4>4. ASSUME NEW i \in DOMAIN File, File[i].intact, ~File[i].ended
            PROVE  File[i].record \notin acked
        <5>1. File[i].record = Head(buffer) \/ (i \in DOMAIN lines /\ File[i] = lines[i])
          BY <4>1, <4>2, <4>4, EndedAfterWrite
        <5> QED
          BY <4>1, <4>4, <5>1
      <4> QED
        BY <4>3, <4>4
    <3> QED
      BY <3>1, <3>2
  <2> QED
    BY <2>1, <2>2, EmptySeq DEF EndedBefore
<1>5. CASE UNCHANGED vars
  BY <1>5 DEF vars, EndedBefore
<1> QED
  BY <1>1, <1>2, <1>3, <1>4, <1>5 DEF Next

\* An acknowledged record that can be read is on a line that has ended.
LEMMA AckedOnEndedLine ==
  ASSUME AckedEnded, NEW x \in acked, x \in Seen(File)
  PROVE  \E i \in DOMAIN lines : Read(lines, i) /\ lines[i].ended /\ lines[i].record = x
<1>1. PICK i \in DOMAIN File : Read(File, i) /\ File[i].record = x
  BY DEF Seen
<1>2. Read(lines, i) /\ lines[i].record = x
  <2>1. CASE buffer = <<>>
    BY <1>1, <2>1, FileCases DEF AckedEnded
  <2>2. CASE buffer # <<>>
    <3>1. /\ Head(buffer) \in Record /\ Head(buffer) # x /\ partial \in Part
          /\ File = Write(lines, Head(buffer), partial) /\ lines \in Seq(Line)
      BY <2>2, FileCases DEF AckedEnded, TypeOK
    <3> QED
      BY <1>1, <3>1, ReadAfterWrite
  <2> QED
    BY <2>1, <2>2
<1>3. i \in DOMAIN lines /\ lines[i].intact
  BY <1>2 DEF Read, Reads
<1> QED
  BY <1>2, <1>3 DEF AckedEnded

\* A line that has ended and can be read is seen after any write behind it.
LEMMA EndedIsSeen ==
  ASSUME NEW file \in Seq(Line), NEW r \in Record, NEW part \in Part, NEW i,
         Read(file, i), file[i].ended
  PROVE  file[i].record \in Seen(Write(file, r, part))
<1> DEFINE w == Write(file, r, part)
<1>1. Read(w, i) /\ w[i] = file[i]
  BY EndedStaysRead
<1>2. i \in DOMAIN w /\ file[i] \in Line
  BY <1>1 DEF Read
<1> QED
  BY <1>1, <1>2 DEF Seen, Line

\* No step takes an acknowledged record from the readers.
LEMMA AckedStep ==
  ASSUME AckedEnded, TypeOK', [Next]_vars
  PROVE  acked \cap Seen(File) \subseteq Seen(File')
<1> SUFFICES ASSUME NEW x \in acked, x \in Seen(File) PROVE x \in Seen(File')
  OBVIOUS
<1>1. PICK i \in DOMAIN lines : Read(lines, i) /\ lines[i].ended /\ lines[i].record = x
  BY AckedOnEndedLine
<1>2. x \in Seen(lines) /\ lines \in Seq(Line) /\ buffer \in Seq(Record) /\ x \in Record
  BY <1>1 DEF AckedEnded, TypeOK, Seen, Line
<1>3. \A r \in Record, part \in Part : x \in Seen(Write(lines, r, part))
  BY <1>1, <1>2, EndedIsSeen
<1>4. CASE AppendReturns
  <2>1. called + 1 \in Record
    BY <1>4, LogAssumption DEF AppendReturns, AckedEnded, TypeOK, Record
  <2>2. File' = Write(lines, called + 1, "whole")
    BY <1>4 DEF AppendReturns, File
  <2> QED
    BY <1>3, <2>1, <2>2 DEF Part
<1>5. ASSUME NEW cut \in Cut, Fail(cut) PROVE x \in Seen(File')
  <2>1. buffer' = Append(buffer, called + 1) /\ called + 1 \in Record
    BY <1>5, LogAssumption DEF Fail, AckedEnded, TypeOK, Record
  <2>2. buffer' \in Seq(Record) /\ buffer' # <<>>
    BY <1>2, <2>1, AppendProperties, EmptySeq
  <2>3. Head(buffer') \in Record /\ partial' \in Part
    BY <1>5, <2>2, HeadTailProperties DEF Fail, TypeOK, Part
  <2>4. File' = Write(lines, Head(buffer'), partial')
    BY <1>5, <2>2 DEF Fail, File
  <2> QED
    BY <1>3, <2>3, <2>4
<1>6. CASE Drain
  <2>1. Head(buffer) \in Record /\ lines' = Write(lines, Head(buffer), "whole")
    BY <1>6, <1>2, HeadTailProperties DEF Drain
  <2>2. File' = lines'
    BY <1>6 DEF Drain, NextPart, File, Write
  <2> QED
    BY <1>3, <2>1, <2>2 DEF Part
<1>7. CASE Restart
  <2>1. File' = File
    BY <1>7 DEF Restart, Reopened, File
  <2> QED
    BY <2>1
<1>8. CASE UNCHANGED vars
  <2>1. File' = File
    BY <1>8 DEF vars, File
  <2> QED
    BY <2>1
<1> QED
  BY <1>4, <1>5, <1>6, <1>7, <1>8 DEF Next

\* An acknowledged record that can be read stays readable.
THEOREM Durable == Spec => AckedStaysSeen
<1>1. AckedEnded /\ TypeOK' /\ [Next]_vars => AckedEnded'
  BY EndedStep
<1>2. AckedEnded /\ TypeOK' /\ [Next]_vars => [acked \cap Seen(File) \subseteq Seen(File')]_vars
  BY AckedStep
<1>3. Spec => [](AckedEnded /\ TypeOK)
  BY EndedInit, Typing, <1>1, PTL DEF Spec
<1> QED
  BY <1>2, <1>3, PTL DEF Spec, AckedStaysSeen

-----------------------------------------------------------------------------
(* The other services.  Of each, the first lemma says how a behaviour of   *)
(* MCSpec starts, the second that it takes only the steps of its module.   *)

LEMMA Begins ==
  MCInit => /\ Limiter!Init
            /\ Feed!Init
            /\ Reversion!Init
            /\ Inbox!Init
            /\ Builder!Init
            /\ Scanning!Init
            /\ Listing!Init
            /\ Toolkit!Init
            /\ Watch!Init
            /\ Fills!Init
            /\ Books!Init
  BY DEF MCInit

LEMMA Moves ==
  ASSUME [MCNext]_allVars
  PROVE  /\ [Limiter!Next]_limiterVars
         /\ [Feed!Next]_feedVars
         /\ [Reversion!Next]_reversionVars
         /\ [Inbox!Next]_inboxVars
         /\ [Builder!Next]_builderVars
         /\ [Scanning!Next]_scanningVars
         /\ [Listing!Next]_listingVars
         /\ [Toolkit!Next]_toolkitVars
         /\ [Watch!Next]_watchVars
         /\ [Fills!Next]_fillsVars
         /\ [Books!Next]_booksVars
  BY DEF MCNext, allVars

-----------------------------------------------------------------------------
(* Throttler.  To look at the oldest request once is enough: OldestIsOld   *)
(* says that a window never holds more than one request too many, and that *)
(* then its oldest one has gone by the time the lock is free.              *)

LimiterTyped ==
  /\ limiterClock \in Nat /\ started \in Int /\ limiterWake \in Int
  /\ limiterStage \in [Tasks -> {"idle", "sleeping", "recording", "calling"}]
  /\ requests \in Seq(Int) /\ times \in Seq(Int)

(* The lock: at most one task is under way.                                *)
OneUnderWay ==
  \A t, u \in Tasks : limiterStage[t] # "idle" /\ limiterStage[u] # "idle" => t = u

(* The window w is what is left of the history r, after d requests that    *)
(* are too old to count at time c.                                         *)
LeftFrom(w, r, c, d) ==
  /\ Len(w) = Len(r) - d
  /\ \A k \in 1..Len(w) : w[k] = r[d + k]
  /\ \A k \in 1..d : r[k] < c - Window

TimesAreRecent == \E d \in 0..Len(requests) : LeftFrom(times, requests, limiterClock, d)

(* Behind a call that had to wait there is one request more than may be,   *)
(* but it is the one that was waited for: the next look pops it.           *)
Excess(until) == Len(times) = MaxRequests + 1 /\ times[1] + Window <= until

OldestIsOld ==
  /\ (\A t \in Tasks : limiterStage[t] = "idle") =>
       Len(times) <= MaxRequests \/ Excess(limiterClock - 1)
  /\ \A t \in Tasks :
       /\ limiterStage[t] = "sleeping"
            => Len(times) = MaxRequests /\ limiterWake = times[1] + Window
       /\ limiterStage[t] = "recording" =>
            \/ Len(times) < MaxRequests
            \/ Len(times) = MaxRequests /\ times[1] + Window <= limiterClock
       /\ limiterStage[t] = "calling" => Len(times) <= MaxRequests \/ Excess(started)

LimiterInv ==
  /\ LimiterTyped /\ OneUnderWay /\ TimesAreRecent /\ OldestIsOld /\ Limiter!WindowKept

(* Requests that are popped are too old, and a request that is made is in  *)
(* both.                                                                   *)
LEMMA PopLeaves ==
  ASSUME NEW w \in Seq(Int), NEW r \in Seq(Int), NEW c \in Int, NEW d \in 0..Len(r),
         LeftFrom(w, r, c, d), NEW n \in 0..Len(w), \A k \in 1..n : w[k] < c - Window,
         NEW v \in Seq(Int), Len(v) = Len(w) - n, \A k \in 1..Len(v) : v[k] = w[n + k]
  PROVE  d + n \in 0..Len(r) /\ LeftFrom(v, r, c, d + n)
<1>1. d + n \in 0..Len(r) /\ Len(v) = Len(r) - (d + n)
  BY DEF LeftFrom
<1>2. ASSUME NEW k \in 1..Len(v) PROVE v[k] = r[(d + n) + k]
  <2>1. n + k \in 1..Len(w) /\ d + (n + k) = (d + n) + k
    OBVIOUS
  <2> QED
    BY <2>1 DEF LeftFrom
<1>3. ASSUME NEW k \in 1..(d + n) PROVE r[k] < c - Window
  <2>1. CASE k \in 1..d
    BY <2>1 DEF LeftFrom
  <2>2. CASE k \notin 1..d
    <3>1. k - d \in 1..n /\ k - d \in 1..Len(w) /\ d + (k - d) = k
      BY <2>2
    <3>2. w[k - d] < c - Window
      BY <3>1
    <3>3. w[k - d] = r[d + (k - d)]
      BY <3>1 DEF LeftFrom
    <3> QED
      BY <3>1, <3>2, <3>3
  <2> QED
    BY <2>1, <2>2
<1> QED
  BY <1>1, <1>2, <1>3 DEF LeftFrom

LEMMA AppendKeeps ==
  ASSUME NEW w \in Seq(Int), NEW r \in Seq(Int), NEW c \in Int, NEW d \in 0..Len(r),
         LeftFrom(w, r, c, d)
  PROVE  d \in 0..Len(Append(r, c)) /\ LeftFrom(Append(w, c), Append(r, c), c, d)
<1>0. /\ Len(Append(w, c)) = Len(w) + 1 /\ Len(Append(r, c)) = Len(r) + 1
      /\ Len(w) \in Nat /\ Len(r) \in Nat
  OBVIOUS
<1>1. Len(w) = Len(r) - d
  BY DEF LeftFrom
<1>2. ASSUME NEW k \in 1..(Len(w) + 1) PROVE Append(w, c)[k] = Append(r, c)[d + k]
  <2>1. CASE k = Len(w) + 1
    <3>1. d + k = Len(r) + 1
      BY <1>0, <1>1, <2>1
    <3> QED
      BY <2>1, <3>1
  <2>2. CASE k # Len(w) + 1
    <3>1. k \in 1..Len(w) /\ d + k \in 1..Len(r)
      BY <1>0, <1>1, <2>2
    <3> QED
      BY <3>1 DEF LeftFrom
  <2> QED
    BY <2>1, <2>2
<1>3. ASSUME NEW k \in 1..d PROVE Append(r, c)[k] < c - Window
  <2>1. k \in 1..Len(r)
    BY <1>0, <1>1
  <2> QED
    BY <2>1 DEF LeftFrom
<1>4. d \in 0..Len(Append(r, c)) /\ Len(Append(w, c)) = Len(Append(r, c)) - d
  BY <1>0, <1>1
<1>5. \A k \in 1..Len(Append(w, c)) : Append(w, c)[k] = Append(r, c)[d + k]
  BY <1>0, <1>2
<1> QED
  BY <1>3, <1>4, <1>5 DEF LeftFrom

(* The request MaxRequests before the next one is too old to count, or it  *)
(* is the oldest of a full window.                                         *)
LEMMA OldOrOldest ==
  ASSUME NEW w \in Seq(Int), NEW r \in Seq(Int), NEW c \in Int, NEW d \in 0..Len(r),
         LeftFrom(w, r, c, d),
         Len(w) < MaxRequests \/ (Len(w) = MaxRequests /\ w[1] + Window <= c),
         NEW i \in 1..Len(r), i = Len(r) + 1 - MaxRequests
  PROVE  c - r[i] >= Window
<1> USE LimiterAssumption
<1>0. r[i] \in Int /\ Len(r) \in Nat
  OBVIOUS
<1>1. Len(w) = Len(r) - d
  BY DEF LeftFrom
<1>2. CASE Len(w) < MaxRequests
  <2>1. i \in 1..d
    BY <1>0, <1>1, <1>2
  <2>2. r[i] < c - Window
    BY <2>1 DEF LeftFrom
  <2> QED
    BY SMTT(40), <1>0, <1>1, <2>2
<1>3. CASE Len(w) = MaxRequests /\ w[1] + Window <= c
  <2>0. Len(w) = MaxRequests
    BY <1>3
  <2>4. MaxRequests = Len(r) - d /\ d \in Int
    BY <1>1, <2>0
  <2>5. i = d + 1
    BY <1>0, <2>4
  <2>1. 1 \in 1..Len(w)
    BY <2>0
  <2>2. w[1] = r[i]
    BY <2>5, <2>1 DEF LeftFrom
  <2> QED
    BY SMTT(40), <1>0, <1>1, <1>3, <2>2
<1> QED
  BY <1>2, <1>3

LEMMA LimiterInit == Limiter!Init => LimiterInv
<1> SUFFICES ASSUME Limiter!Init PROVE LimiterInv
  OBVIOUS
<1> USE LimiterAssumption DEF Limiter!Init
<1>1. LimiterTyped /\ OneUnderWay
  BY DEF LimiterTyped, OneUnderWay
<1>2. OldestIsOld /\ Limiter!WindowKept
  BY DEF OldestIsOld, Limiter!WindowKept
<1>3. 0 \in 0..Len(requests) /\ LeftFrom(times, requests, limiterClock, 0)
  BY DEF LeftFrom
<1> QED
  BY <1>1, <1>2, <1>3 DEF LimiterInv, TimesAreRecent

LEMMA LimiterStep == LimiterInv /\ [Limiter!Next]_limiterVars => LimiterInv'
<1> SUFFICES ASSUME LimiterInv, [Limiter!Next]_limiterVars PROVE LimiterInv'
  OBVIOUS
<1> USE LimiterAssumption
<1>0. /\ LimiterTyped /\ OneUnderWay /\ TimesAreRecent /\ OldestIsOld /\ Limiter!WindowKept
  BY DEF LimiterInv
<1>a. /\ times \in Seq(Int) /\ requests \in Seq(Int) /\ limiterClock \in Int
      /\ Len(times) \in Nat /\ Len(requests) \in Nat
  BY <1>0 DEF LimiterTyped
<1>1. CASE UNCHANGED limiterVars
  BY <1>0, <1>1
     DEF limiterVars, LimiterInv, LimiterTyped, OneUnderWay, TimesAreRecent, OldestIsOld,
            Excess, Limiter!WindowKept
<1>2. CASE Limiter!Tick
  <2>1. limiterClock' = limiterClock + 1
        /\ UNCHANGED <<limiterStage, limiterWake, started, times, requests>>
    BY <1>2 DEF Limiter!Tick
  <2>2. LimiterTyped' /\ OneUnderWay' /\ Limiter!WindowKept'
    BY <1>0, <2>1 DEF LimiterTyped, OneUnderWay, Limiter!WindowKept
  <2>3. TimesAreRecent'
    <3>1. PICK d \in 0..Len(requests) : LeftFrom(times, requests, limiterClock, d)
      BY <1>0 DEF TimesAreRecent
    <3>2. ASSUME NEW k \in 1..d PROVE requests[k] < limiterClock' - Window
      BY <1>a, <2>1, <3>1 DEF LeftFrom
    <3> QED
      BY <2>1, <3>1, <3>2 DEF TimesAreRecent, LeftFrom
  <2>4. OldestIsOld'
    BY <1>0, <1>a, <2>1 DEF OldestIsOld, Excess, LimiterTyped
  <2> QED
    BY <2>2, <2>3, <2>4 DEF LimiterInv
<1>3. ASSUME NEW t \in Tasks, Limiter!Enter(t) PROVE LimiterInv'
  <2>1. PICK n \in 0..Len(times) :
          /\ Limiter!Popped(n) /\ times' = SubSeq(times, n + 1, Len(times))
          /\ limiterWake' = IF Len(times) - n >= MaxRequests THEN times[n + 1] + Window
               ELSE limiterClock
    BY <1>3 DEF Limiter!Enter
  <2>2. /\ limiterStage'
             = [limiterStage EXCEPT ![t] = IF limiterWake' > limiterClock THEN "sleeping"
               ELSE "recording"]
        /\ UNCHANGED <<limiterClock, started, requests>>
           /\ \A u \in Tasks : limiterStage[u] = "idle"
    BY <1>3 DEF Limiter!Enter, Limiter!LockIsFree
  <2>3. /\ times' \in Seq(Int) /\ Len(times') = Len(times) - n
        /\ \A k \in 1..Len(times') : times'[k] = times[n + k]
    <3>1. /\ times \in Seq(Int) /\ Len(times) \in Nat /\ n \in 0..Len(times)
          /\ times' = SubSeq(times, n + 1, Len(times))
      BY <1>a, <2>1
    <3>2. times' \in Seq(Int)
      BY <3>1
    <3>3. Len(times') = Len(times) - n
      BY <3>1
    <3>4. ASSUME NEW k \in 1..Len(times') PROVE times'[k] = times[n + k]
      BY SMTT(40), <3>1, <3>3
    <3> QED
      BY <3>2, <3>3, <3>4
  <2>4. /\ \A k \in 1..n : times[k] < limiterClock - Window
        /\ n < Len(times) => times[n + 1] >= limiterClock - Window
    <3>1. ASSUME NEW k \in 1..n PROVE times[k] < limiterClock - Window
      <4>1. times[k] \in Int
        BY <1>a
      <4>2. ~(times[k] >= limiterClock - Window)
        BY <2>1 DEF Limiter!Popped, Limiter!InWindow
      <4> QED
        BY <1>a, <4>1, <4>2
    <3> QED
      BY <2>1, <3>1 DEF Limiter!Popped, Limiter!InWindow
  <2>5. Len(times') <= MaxRequests
    <3>1. Len(times) <= MaxRequests \/ Excess(limiterClock - 1)
      BY <1>0, <2>2 DEF OldestIsOld
    <3>2. Excess(limiterClock - 1) => n # 0
      BY <1>a, <2>4 DEF Excess
    <3> QED
      <4>1. CASE Len(times) <= MaxRequests
        BY <1>a, <2>3, <4>1
      <4>2. CASE Excess(limiterClock - 1)
        BY <1>a, <2>3, <3>2, <4>2 DEF Excess
      <4> QED
        BY <3>1, <4>1, <4>2
  <2>6. LimiterTyped'
    <3>1. limiterWake' \in Int
      BY SMTT(40), <1>0, <2>1 DEF LimiterTyped
    <3> QED
      BY <1>0, <2>2, <2>3, <3>1 DEF LimiterTyped
  <2>7. OneUnderWay' /\ Limiter!WindowKept'
    BY <1>0, <2>2 DEF LimiterTyped, OneUnderWay, Limiter!WindowKept
  <2>8. TimesAreRecent'
    <3>1. PICK d \in 0..Len(requests) : LeftFrom(times, requests, limiterClock, d)
      BY <1>0 DEF TimesAreRecent
    <3>2. d + n \in 0..Len(requests) /\ LeftFrom(times', requests, limiterClock, d + n)
      BY <1>a, <2>3, <2>4, <3>1, PopLeaves
    <3> QED
      BY <2>2, <3>2 DEF TimesAreRecent
  <2>9. OldestIsOld'
    <3>1. Len(times') >= MaxRequests => limiterWake' = times'[1] + Window
      BY <1>a, <2>1, <2>3
    <3>2. Len(times') < MaxRequests => limiterWake' = limiterClock
      BY <1>a, <2>1, <2>3
    <3>3. /\ limiterStage'[t] = IF limiterWake' > limiterClock THEN "sleeping" ELSE "recording"
          /\ \A u \in Tasks : u # t => limiterStage'[u] = "idle"
      BY <1>0, <2>2 DEF LimiterTyped
    <3>4. Len(times') \in Nat /\ limiterWake' \in Int
      BY <2>6 DEF LimiterTyped
    <3>5. CASE limiterWake' > limiterClock
      BY <1>a, <2>5, <3>1, <3>2, <3>3, <3>4, <3>5 DEF OldestIsOld
    <3>6. CASE ~(limiterWake' > limiterClock)
      BY <1>a, <2>2, <2>5, <3>1, <3>3, <3>4, <3>6 DEF OldestIsOld
    <3> QED
      BY <3>5, <3>6
  <2> QED
    BY <2>6, <2>7, <2>8, <2>9 DEF LimiterInv
<1>4. ASSUME NEW t \in Tasks, NEW s \in {"idle", "recording"}, limiterStage[t] # "idle",
             limiterStage' = [limiterStage EXCEPT ![t] = s],
             UNCHANGED <<limiterClock, limiterWake, started, times, requests>>, OldestIsOld'
      PROVE  LimiterInv'
  BY <1>0, <1>4 DEF LimiterInv, LimiterTyped, OneUnderWay, TimesAreRecent, Limiter!WindowKept
<1>5. ASSUME NEW t \in Tasks, Limiter!WakeUp(t) PROVE LimiterInv'
  <2>1. OldestIsOld'
    BY <1>0, <1>5 DEF Limiter!WakeUp, OldestIsOld, Excess, LimiterTyped
  <2> QED
    BY <1>4, <1>5, <2>1 DEF Limiter!WakeUp
<1>6. ASSUME NEW t \in Tasks, Limiter!Return(t) PROVE LimiterInv'
  <2>1. OldestIsOld'
    BY <1>0, <1>6 DEF Limiter!Return, OldestIsOld, OneUnderWay, Excess, LimiterTyped
  <2> QED
    BY <1>4, <1>6, <2>1 DEF Limiter!Return
<1>7. ASSUME NEW t \in Tasks, Limiter!Record(t) PROVE LimiterInv'
  <2>1. /\ limiterStage[t] = "recording" /\ limiterStage' = [limiterStage EXCEPT ![t] = "calling"]
        /\ times' = Append(times, limiterClock) /\ requests' = Append(requests, limiterClock)
        /\ started' = limiterClock /\ UNCHANGED <<limiterClock, limiterWake>>
    BY <1>7 DEF Limiter!Record
  <2>2. \/ Len(times) < MaxRequests
        \/ Len(times) = MaxRequests /\ times[1] + Window <= limiterClock
    BY <1>0, <2>1 DEF OldestIsOld
  <2>3. LimiterTyped' /\ OneUnderWay'
    BY <1>0, <2>1 DEF LimiterTyped, OneUnderWay
  <2>4. PICK d \in 0..Len(requests) : LeftFrom(times, requests, limiterClock, d)
    BY <1>0 DEF TimesAreRecent
  <2>5. TimesAreRecent'
    <3>1. /\ d \in 0..Len(Append(requests, limiterClock))
          /\ LeftFrom(Append(times, limiterClock), Append(requests, limiterClock), limiterClock,
               d)
      BY <1>a, <2>4, AppendKeeps
    <3> QED
      BY <2>1, <3>1 DEF TimesAreRecent
  <2>6. OldestIsOld'
    <3>1. Len(times') = Len(times) + 1 /\ (Len(times) >= 1 => times'[1] = times[1])
      BY <1>a, <2>1
    <3>2. Len(times') <= MaxRequests \/ Excess(started)'
      BY <1>a, <2>1, <2>2, <3>1 DEF Excess
    <3>3. limiterStage'[t] = "calling" /\ \A u \in Tasks : u # t => limiterStage'[u] = "idle"
      BY <1>0, <2>1 DEF OneUnderWay, LimiterTyped
    <3> QED
      BY <3>2, <3>3 DEF OldestIsOld
  <2>7. Limiter!WindowKept'
    <3>1. /\ DOMAIN requests = 1..Len(requests) /\ DOMAIN requests' = 1..(Len(requests) + 1)
          /\ \A k \in 1..Len(requests) : requests'[k] = requests[k]
          /\ requests'[Len(requests) + 1] = limiterClock
      BY <1>a, <2>1
    <3>2. ASSUME NEW i \in 1..(Len(requests) + 1), NEW j \in 1..(Len(requests) + 1),
                 j - i = MaxRequests
          PROVE  requests'[j] - requests'[i] >= Window
      <4>1. i \in 1..Len(requests)
        BY <1>a, <3>2
      <4>2. CASE j = Len(requests) + 1
        <5>1. i = Len(requests) + 1 - MaxRequests
          BY <1>a, <3>2, <4>2
        <5>2. limiterClock - requests[i] >= Window
          BY <1>a, <2>2, <2>4, <4>1, <5>1, OldOrOldest
        <5> QED
          BY <3>1, <4>1, <4>2, <5>2
      <4>3. CASE j # Len(requests) + 1
        <5>1. j \in 1..Len(requests)
          BY <1>a, <4>3
        <5>2. requests[j] - requests[i] >= Window
          BY <1>0, <3>1, <3>2, <4>1, <5>1 DEF Limiter!WindowKept
        <5> QED
          BY <3>1, <4>1, <5>1, <5>2
      <4> QED
        BY <4>2, <4>3
    <3> QED
      BY <3>1, <3>2 DEF Limiter!WindowKept
  <2> QED
    BY <2>3, <2>5, <2>6, <2>7 DEF LimiterInv
<1> QED
  BY <1>1, <1>2, <1>3, <1>5, <1>6, <1>7 DEF Limiter!Next

(* However tasks queue, sleep and wake late: no MaxRequests + 1 requests   *)
(* fall into less than a window, for any limit and window.                 *)
THEOREM Rate == MCSpec => []WindowKept
<1>1. MCInit => LimiterInv
  BY Begins, LimiterInit
<1>2. LimiterInv /\ [MCNext]_allVars => LimiterInv'
  BY Moves, LimiterStep
<1>3. LimiterInv => WindowKept
  BY DEF LimiterInv, WindowKept
<1> QED
  BY <1>1, <1>2, <1>3, PTL DEF MCSpec

-----------------------------------------------------------------------------
(* SignalFeed.  The offset is committed when the symbols are handed out,   *)
(* the keys before: after a crash lines are read again, but none that was  *)
(* handed out (HandedAreBehind), and what is left over is of a later       *)
(* session (SignalsAreLater), for the scanner writes in the order of time. *)

FeedLine == [symbol : FeedSymbols \cup {"torn line"}, at : Nat]
Session(t) == t \div SessionLength

FeedTyped ==
  /\ feedNow \in Nat /\ feedLines \in Seq(FeedLine) /\ handed \in Seq(FeedLine)
  /\ offset \in Nat /\ offset <= Len(feedLines)
  /\ reading => /\ feedPosition \in Nat /\ offset <= feedPosition
     /\ feedPosition <= Len(feedLines)
                /\ feedSignals \in Seq(FeedLine)

(* The scanner's clock runs forward, so its lines do.                      *)
LinesRise ==
  \A i, j \in DOMAIN feedLines :
    /\ feedLines[i].at <= feedNow
    /\ i < j /\ feedLines[i].symbol \in FeedSymbols /\ feedLines[j].symbol \in FeedSymbols =>
         feedLines[i].at <= feedLines[j].at

(* What was handed out is behind the offset, with its key seen.            *)
HandedAreBehind ==
  \A k \in DOMAIN handed :
    /\ handed[k].symbol \in FeedSymbols /\ Feed!Key(handed[k]) \in feedSeen
    /\ \E i \in DOMAIN feedLines : i <= offset /\ feedLines[i] = handed[k]

(* What is about to be is of a later session than all of that.             *)
SignalsAreLater ==
  reading =>
    \A k \in DOMAIN feedSignals :
      /\ feedSignals[k].symbol \in FeedSymbols /\ Feed!Key(feedSignals[k]) \in feedSeen
      /\ \E i \in DOMAIN feedLines : feedLines[i] = feedSignals[k]
      /\ \A h \in DOMAIN handed : handed[h].symbol = feedSignals[k].symbol =>
           Session(handed[h].at) < Session(feedSignals[k].at)

HandedRise ==
  \A i, j \in DOMAIN handed :
    i < j /\ handed[i].symbol = handed[j].symbol => Session(handed[i].at) < Session(handed[j].at)

FeedInv == FeedTyped /\ LinesRise /\ HandedAreBehind /\ SignalsAreLater /\ HandedRise

-----------------------------------------------------------------------------
LEMMA SessionsRise ==
  ASSUME NEW a \in Nat, NEW b \in Nat, a <= b
  PROVE  Session(a) \in Nat /\ Session(b) \in Nat /\ Session(a) <= Session(b)
<1>0. SessionLength \in Nat \ {0}
  BY FeedAssumption
<1>1. Session(a) \in Nat
  BY <1>0 DEF Session
<1>2. Session(b) \in Nat
  BY <1>0 DEF Session
<1>3. Session(a) <= Session(b)
  BY <1>0 DEF Session
<1> QED
  BY <1>1, <1>2, <1>3

(* Lines of one symbol with different keys, the second not before the      *)
(* first, are of rising sessions.                                          *)
LEMMA LaterSession ==
  ASSUME NEW l \in FeedLine, NEW m \in FeedLine, l.symbol = m.symbol, l.at <= m.at,
         Feed!Key(l) # Feed!Key(m)
  PROVE  Session(l.at) < Session(m.at)
<1>1. l.at \in Nat /\ m.at \in Nat
  BY DEF FeedLine
<1>2. Session(l.at) # Session(m.at)
  BY DEF Feed!Key, Session
<1> QED
  BY <1>1, <1>2, SessionsRise

(* The end of a line is in the file.                                       *)
LEMMA EndIsInFile ==
  ASSUME FeedTyped, reading, feedPosition < Len(feedLines)
  PROVE  Feed!LineEnd \in Nat /\ feedPosition < Feed!LineEnd /\ Feed!LineEnd <= Len(feedLines)
<1>1. Len(feedLines) \in Nat /\ feedPosition \in Nat /\ DOMAIN feedLines = 1..Len(feedLines)
  BY DEF FeedTyped
<1> DEFINE S == {i \in DOMAIN feedLines : i > feedPosition /\ Feed!Ends(i)}
<1>2. S \subseteq Nat /\ Len(feedLines) \in S
  BY <1>1 DEF Feed!Ends
<1>3. \E i \in S : \A x \in S : <<x, i>> \notin OpToRel(<, Nat)
  <2> HIDE DEF S
  <2> QED
    BY <1>2, NatLessThanWellFounded, WFMin
<1>4. PICK i \in S : \A x \in S : ~(x < i)
  <2>1. PICK i \in S : \A x \in S : <<x, i>> \notin OpToRel(<, Nat)
    BY <1>3
  <2>2. ASSUME NEW x \in S PROVE ~(x < i)
    BY <1>2, <2>1 DEF OpToRel
  <2> QED
    BY <2>2
<1>5. \A j \in (feedPosition + 1)..(i - 1) : ~Feed!Ends(j)
  <2> SUFFICES ASSUME NEW j \in (feedPosition + 1)..(i - 1), Feed!Ends(j) PROVE FALSE
    OBVIOUS
  <2>1. i \in 1..Len(feedLines) /\ j \in Int /\ feedPosition < j /\ j < i
    BY <1>1
  <2>2. j \in 1..Len(feedLines)
    BY <1>1, <2>1
  <2>3. j \in S
    BY <1>1, <2>1, <2>2
  <2> QED
    BY <1>4, <2>1, <2>3
<1>6. \E k \in DOMAIN feedLines :
        k > feedPosition /\ Feed!Ends(k) /\ \A j \in (feedPosition + 1)..(k - 1) : ~Feed!Ends(j)
  BY <1>5
<1>7. Feed!LineEnd \in DOMAIN feedLines /\ Feed!LineEnd > feedPosition
  BY <1>6, Zenon DEF Feed!LineEnd
<1> QED
  BY <1>1, <1>7

LEMMA FeedOnce == FeedInv => Feed!HandedOutOnce
  BY DEF FeedInv, HandedRise, Feed!HandedOutOnce, Session

LEMMA FeedInit == Feed!Init => FeedInv
  BY DEF Feed!Init, FeedInv, FeedTyped, LinesRise, HandedAreBehind, SignalsAreLater, HandedRise

(* The scanner appends a line, while the clock may stand.                  *)
LEMMA LineIsAdded ==
  ASSUME FeedInv, NEW r \in FeedLine, feedLines' = Append(feedLines, r), r.symbol \in FeedSymbols
           => r.at = feedNow,
         r.at <= feedNow,
           UNCHANGED <<feedNow, offset, feedSeen, reading, feedPosition, feedSignals, handed>>
  PROVE  FeedInv'
<1>0. FeedTyped /\ LinesRise /\ HandedAreBehind /\ SignalsAreLater /\ HandedRise
  BY DEF FeedInv
<1>1. /\ Len(feedLines) \in Nat /\ DOMAIN feedLines = 1..Len(feedLines)
      /\ DOMAIN feedLines' = 1..(Len(feedLines) + 1) /\ Len(feedLines') = Len(feedLines) + 1
      /\ feedLines' \in Seq(FeedLine) /\ feedLines'[Len(feedLines) + 1] = r
      /\ \A i \in DOMAIN feedLines : i \in DOMAIN feedLines' /\ feedLines'[i] = feedLines[i]
  BY <1>0 DEF FeedTyped
<1>2. FeedTyped'
  BY <1>0, <1>1 DEF FeedTyped
<1>3. \A i \in DOMAIN feedLines' : i \in DOMAIN feedLines \/ i = Len(feedLines) + 1
  BY <1>1
<1>4. LinesRise'
  <2> SUFFICES ASSUME NEW i \in DOMAIN feedLines', NEW j \in DOMAIN feedLines'
               PROVE  /\ feedLines'[i].at <= feedNow
                      /\ i < j /\ feedLines'[i].symbol \in FeedSymbols
                         /\ feedLines'[j].symbol \in FeedSymbols =>
                           feedLines'[i].at <= feedLines'[j].at
    BY DEF LinesRise
  <2>1. i < j => i \in DOMAIN feedLines
    BY <1>1
  <2>2. feedLines'[i].at <= feedNow
    BY <1>0, <1>1, <1>3 DEF LinesRise
  <2> QED
    BY <1>0, <1>1, <1>3, <2>1, <2>2 DEF LinesRise
<1>5. HandedAreBehind'
  BY <1>0, <1>1 DEF HandedAreBehind, Feed!Key
<1>6. SignalsAreLater'
  BY <1>0, <1>1 DEF SignalsAreLater, Feed!Key, Session
<1>7. HandedRise'
  BY <1>0 DEF HandedRise, Session
<1> QED
  BY <1>2, <1>4, <1>5, <1>6, <1>7 DEF FeedInv

(* The consumer reads a line.                                              *)
LEMMA LineIsRead ==
  ASSUME FeedInv, Feed!ReadLine
  PROVE  FeedInv'
<1> DEFINE line == feedLines[feedPosition + 1]
           new == line.symbol \in FeedSymbols /\ Feed!Key(line) \notin feedSeen
<1>0. FeedTyped /\ LinesRise /\ HandedAreBehind /\ SignalsAreLater /\ HandedRise
  BY DEF FeedInv
<1>1. /\ reading /\ feedPosition < Len(feedLines) /\ feedPosition' = Feed!LineEnd /\ reading'
      /\ feedSeen' = (IF new THEN feedSeen \cup {Feed!Key(line)} ELSE feedSeen)
      /\ feedSignals'
           = (IF new /\ Feed!IsAcceptable(line) THEN Append(feedSignals, line) ELSE feedSignals)
      /\ UNCHANGED <<feedNow, feedLines, offset, handed>>
  BY DEF Feed!ReadLine
<1>2. /\ feedPosition \in Nat /\ Len(feedLines) \in Nat /\ feedPosition + 1 \in DOMAIN feedLines
         /\ line \in FeedLine
      /\ offset <= feedPosition /\ offset \in Nat /\ feedSignals \in Seq(FeedLine)
      /\ DOMAIN feedLines = 1..Len(feedLines)
  BY <1>0, <1>1 DEF FeedTyped
<1>3. Feed!LineEnd \in Nat /\ feedPosition < Feed!LineEnd /\ Feed!LineEnd <= Len(feedLines)
  BY <1>0, <1>1, EndIsInFile
<1>4. ASSUME new, NEW h \in DOMAIN handed, handed[h].symbol = line.symbol
      PROVE  Session(handed[h].at) < Session(line.at)
  <2>1. PICK i \in DOMAIN feedLines : i <= offset /\ feedLines[i] = handed[h]
    BY <1>0 DEF HandedAreBehind
  <2>2. i < feedPosition + 1
    BY <1>2, <2>1
  <2>3. feedLines[i].at <= line.at
    BY <1>0, <1>2, <1>4, <2>1, <2>2 DEF LinesRise
  <2>4. Feed!Key(handed[h]) # Feed!Key(line)
    BY <1>0, <1>4 DEF HandedAreBehind
  <2>5. feedLines[i] \in FeedLine
    BY <1>0, <2>1 DEF FeedTyped
  <2> QED
    BY <1>2, <1>4, <2>1, <2>3, <2>4, <2>5, LaterSession
<1> HIDE DEF line
<1>5. feedSignals' \in Seq(FeedLine)
  BY <1>1, <1>2
<1>6. FeedTyped'
  BY <1>0, <1>1, <1>2, <1>3, <1>5 DEF FeedTyped
<1>7. LinesRise' /\ HandedRise'
  BY <1>0, <1>1 DEF LinesRise, HandedRise, Session
<1>8. HandedAreBehind'
  BY <1>0, <1>1 DEF HandedAreBehind, Feed!Key
<1>9. SignalsAreLater'
  <2> SUFFICES ASSUME NEW k \in DOMAIN feedSignals'
               PROVE  /\ feedSignals'[k].symbol \in FeedSymbols
                         /\ Feed!Key(feedSignals'[k]) \in feedSeen'
                      /\ \E i \in DOMAIN feedLines : feedLines[i] = feedSignals'[k]
                      /\ \A h \in DOMAIN handed : handed[h].symbol = feedSignals'[k].symbol =>
                           Session(handed[h].at) < Session(feedSignals'[k].at)
    BY <1>1 DEF SignalsAreLater, Feed!Key, Session
  <2>1. CASE k \in DOMAIN feedSignals /\ feedSignals'[k] = feedSignals[k]
    BY <1>0, <1>1, <2>1 DEF SignalsAreLater
  <2>2. CASE new /\ feedSignals'[k] = line
    BY <1>1, <1>2, <1>4, <2>2 DEF line
  <2>3. \/ k \in DOMAIN feedSignals /\ feedSignals'[k] = feedSignals[k]
        \/ new /\ feedSignals'[k] = line
    <3>1. CASE feedSignals' = feedSignals
      BY <3>1
    <3>2. CASE feedSignals' = Append(feedSignals, line) /\ new
      BY <1>2, <3>2
    <3> QED
      BY <1>1, <3>1, <3>2
  <2> QED
    BY <2>1, <2>2, <2>3
<1> QED
  BY <1>6, <1>7, <1>8, <1>9 DEF FeedInv

(* A call returns.                                                         *)
LEMMA CallReturns ==
  ASSUME FeedInv, NEW n \in 0..Len(feedSignals), NEW f \in Feed!Sorted(n), Feed!Return(n, f)
  PROVE  FeedInv'
<1> DEFINE more == [k \in 1..n |-> feedSignals[f[k]]]
<1>0. FeedTyped /\ LinesRise /\ HandedAreBehind /\ SignalsAreLater /\ HandedRise
  BY DEF FeedInv
<1>1. /\ reading /\ feedPosition = Len(feedLines) /\ offset' = feedPosition /\ ~reading'
      /\ handed' = handed \o more /\ UNCHANGED <<feedNow, feedLines, feedSeen>>
  BY DEF Feed!Return
<1>2. /\ feedSignals \in Seq(FeedLine) /\ Len(feedSignals) \in Nat
         /\ DOMAIN feedSignals = 1..Len(feedSignals)
      /\ Len(feedLines) \in Nat /\ DOMAIN feedLines = 1..Len(feedLines)
      /\ handed \in Seq(FeedLine) /\ Len(handed) \in Nat /\ DOMAIN handed = 1..Len(handed)
  BY <1>0, <1>1 DEF FeedTyped
<1>3. /\ n \in Nat /\ f \in [1..n -> DOMAIN feedSignals]
      /\ \A k, l \in 1..n : k # l => feedSignals[f[k]].symbol # feedSignals[f[l]].symbol
  BY <1>2 DEF Feed!Sorted, Feed!Symbol
<1>4. more \in Seq(FeedLine) /\ Len(more) = n
  <2>1. \A k \in 1..n : feedSignals[f[k]] \in FeedLine
    BY <1>2, <1>3
  <2>2. more \in [1..n -> FeedLine]
    BY <2>1
  <2> QED
    BY <1>3, <2>2
<1>5. \A k \in 1..n : more[k] = feedSignals[f[k]] /\ f[k] \in DOMAIN feedSignals
  BY <1>3
<1> HIDE DEF more
<1>6. /\ handed' \in Seq(FeedLine) /\ DOMAIN handed' = 1..(Len(handed) + n)
      /\ \A k \in DOMAIN handed : handed'[k] = handed[k] /\ k \in DOMAIN handed'
      /\ \A k \in DOMAIN handed' : k \in Int /\ (k \in DOMAIN handed \/ k - Len(handed) \in 1..n)
      /\ \A k \in DOMAIN handed' : k - Len(handed) \in 1..n => handed'[k] = more[k - Len(handed)]
  <2>1. handed' \in Seq(FeedLine) /\ Len(handed') = Len(handed) + n
    <3>1. handed \in Seq(FeedLine) /\ more \in Seq(FeedLine)
      BY <1>2, <1>4
    <3>2. handed \o more \in Seq(FeedLine)
      BY <3>1
    <3>3. Len(handed \o more) = Len(handed) + Len(more)
      BY <3>1
    <3> QED
      BY <1>1, <1>4, <3>2, <3>3
  <2>2. DOMAIN handed' = 1..(Len(handed) + n)
    BY <2>1
  <2>3. ASSUME NEW k \in DOMAIN handed PROVE handed'[k] = handed[k] /\ k \in DOMAIN handed'
    BY <1>1, <1>2, <1>3, <1>4, <2>2
  <2>4. ASSUME NEW k \in DOMAIN handed'
        PROVE k \in Int /\ (k \in DOMAIN handed \/ k - Len(handed) \in 1..n)
    BY <1>2, <1>3, <2>2
  <2>5. ASSUME NEW k \in DOMAIN handed', k - Len(handed) \in 1..n
        PROVE  handed'[k] = more[k - Len(handed)]
    BY <1>1, <1>2, <1>3, <1>4, <2>2, <2>5
  <2> QED
    BY <2>1, <2>2, <2>3, <2>4, <2>5
<1>7. FeedTyped'
  BY <1>0, <1>1, <1>2, <1>6 DEF FeedTyped
<1>8. LinesRise' /\ SignalsAreLater'
  BY <1>0, <1>1 DEF LinesRise, SignalsAreLater
<1>9. ASSUME NEW k \in DOMAIN handed', k - Len(handed) \in 1..n
      PROVE  /\ f[k - Len(handed)] \in DOMAIN feedSignals
             /\ handed'[k] = feedSignals[f[k - Len(handed)]]
  BY <1>5, <1>6, <1>9
<1>10. HandedAreBehind'
  <2> SUFFICES ASSUME NEW k \in DOMAIN handed'
               PROVE  /\ handed'[k].symbol \in FeedSymbols /\ Feed!Key(handed'[k]) \in feedSeen
                      /\ \E i \in DOMAIN feedLines :
                           i <= Len(feedLines) /\ feedLines[i] = handed'[k]
    BY <1>1 DEF HandedAreBehind, Feed!Key
  <2>1. CASE k \in DOMAIN handed
    BY <1>0, <1>2, <1>6, <2>1 DEF HandedAreBehind
  <2>2. CASE k - Len(handed) \in 1..n
    <3>1. PICK l \in DOMAIN feedSignals : handed'[k] = feedSignals[l]
      BY <1>9, <2>2
    <3>2. /\ feedSignals[l].symbol \in FeedSymbols /\ Feed!Key(feedSignals[l]) \in feedSeen
          /\ \E i \in DOMAIN feedLines : feedLines[i] = feedSignals[l]
      BY <1>0, <1>1 DEF SignalsAreLater
    <3> QED
      BY <1>2, <3>1, <3>2
  <2> QED
    BY <1>6, <2>1, <2>2
<1>11. HandedRise'
  <2> SUFFICES ASSUME NEW i \in DOMAIN handed', NEW j \in DOMAIN handed', i < j,
                      handed'[i].symbol = handed'[j].symbol
               PROVE  Session(handed'[i].at) < Session(handed'[j].at)
    BY DEF HandedRise, Session
  <2>1. CASE i \in DOMAIN handed /\ j \in DOMAIN handed
    BY <1>0, <1>6, <2>1 DEF HandedRise
  <2>2. CASE i \in DOMAIN handed /\ j - Len(handed) \in 1..n
    <3>1. PICK l \in DOMAIN feedSignals : handed'[j] = feedSignals[l]
      BY <1>9, <2>2
    <3>2. handed[i].symbol = feedSignals[l].symbol
            => Session(handed[i].at) < Session(feedSignals[l].at)
      BY <1>0, <1>1, <2>2 DEF SignalsAreLater
    <3> QED
      BY <1>6, <2>2, <3>1, <3>2
  <2>3. CASE i - Len(handed) \in 1..n /\ j - Len(handed) \in 1..n
    <3>1. i - Len(handed) # j - Len(handed)
      BY <1>2, <1>6
    <3>2. feedSignals[f[i - Len(handed)]].symbol # feedSignals[f[j - Len(handed)]].symbol
      BY <1>3, <2>3, <3>1
    <3> QED
      BY <1>9, <2>3, <3>2
  <2>4. ~(i - Len(handed) \in 1..n /\ j \in DOMAIN handed)
    BY <1>2, <1>3, <1>6
  <2> QED
    BY <1>6, <2>1, <2>2, <2>3, <2>4
<1> QED
  BY <1>7, <1>8, <1>10, <1>11 DEF FeedInv

LEMMA FeedStep == FeedInv /\ [Feed!Next]_feedVars => FeedInv'
<1> SUFFICES ASSUME FeedInv, [Feed!Next]_feedVars PROVE FeedInv'
  OBVIOUS
<1>0. FeedTyped /\ LinesRise /\ HandedAreBehind /\ SignalsAreLater /\ HandedRise
  BY DEF FeedInv
<1>1. ASSUME UNCHANGED <<feedLines, offset, feedSeen, handed>>, feedNow' \in Nat,
             feedNow' >= feedNow,
             \/ UNCHANGED <<reading, feedPosition, feedSignals>>
             \/ ~reading'
             \/ ~reading /\ feedPosition' = offset /\ feedSignals' = <<>>
      PROVE  FeedInv'
  <2>0. /\ feedNow \in Nat /\ feedLines \in Seq(FeedLine) /\ Len(feedLines) \in Nat
           /\ handed \in Seq(FeedLine)
        /\ offset \in Nat /\ offset <= Len(feedLines)
    BY <1>0 DEF FeedTyped
  <2>1. FeedTyped'
    <3>1. CASE UNCHANGED <<reading, feedPosition, feedSignals>>
      BY <1>0, <1>1, <3>1 DEF FeedTyped
    <3>2. CASE ~reading'
      BY <1>1, <2>0, <3>2 DEF FeedTyped
    <3>3. CASE feedPosition' = offset /\ feedSignals' = <<>>
      BY <1>1, <2>0, <3>3 DEF FeedTyped
    <3> QED
      BY <1>1, <3>1, <3>2, <3>3
  <2>2. LinesRise'
    <3>1. ASSUME NEW i \in DOMAIN feedLines PROVE feedLines[i].at \in Nat
      <4>1. feedLines[i] \in FeedLine
        BY <2>0
      <4> QED
        BY <4>1 DEF FeedLine
    <3>2. feedNow \in Nat
      BY <1>0 DEF FeedTyped
    <3>3. \A i \in DOMAIN feedLines : feedLines[i].at <= feedNow'
      BY <1>0, <1>1, <3>1, <3>2 DEF LinesRise
    <3>4. \A i, j \in DOMAIN feedLines :
            i < j /\ feedLines[i].symbol \in FeedSymbols /\ feedLines[j].symbol \in FeedSymbols =>
              feedLines[i].at <= feedLines[j].at
      BY <1>0 DEF LinesRise
    <3> QED
      BY <1>1, <3>3, <3>4 DEF LinesRise
  <2>3. HandedAreBehind' /\ HandedRise'
    BY <1>0, <1>1 DEF HandedAreBehind, HandedRise, Feed!Key, Session
  <2>4. SignalsAreLater'
    <3>1. CASE UNCHANGED <<reading, feedPosition, feedSignals>>
      BY <1>0, <1>1, <3>1 DEF SignalsAreLater, Feed!Key, Session
    <3>2. CASE ~reading'
      BY <3>2 DEF SignalsAreLater
    <3>3. CASE feedSignals' = <<>>
      BY <3>3 DEF SignalsAreLater
    <3> QED
      BY <1>1, <3>1, <3>2, <3>3
  <2> QED
    BY <2>1, <2>2, <2>3, <2>4 DEF FeedInv
<1>a. feedNow \in Nat
  BY <1>0 DEF FeedTyped
<1>2. CASE UNCHANGED feedVars
  BY <1>1, <1>2, <1>a DEF feedVars
<1>3. CASE Feed!Tick
  BY <1>1, <1>3, <1>a DEF Feed!Tick, Feed!call
<1>4. CASE Feed!Begin
  BY <1>1, <1>4, <1>a DEF Feed!Begin
<1>5. CASE Feed!ConsumerDies
  BY <1>1, <1>5, <1>a DEF Feed!ConsumerDies
<1>6. CASE Feed!ExporterDies
  <2>1. /\ Feed!Torn \in FeedLine /\ Feed!Torn.symbol \notin FeedSymbols /\ Feed!Torn.at = 0
        /\ feedLines' = Append(feedLines, Feed!Torn)
        /\ UNCHANGED <<feedNow, offset, feedSeen, reading, feedPosition, feedSignals, handed>>
    BY <1>6, FeedAssumption DEF Feed!ExporterDies, Feed!call, Feed!Torn, FeedLine
  <2>2. Feed!Torn.at <= feedNow
    BY <1>a, <2>1
  <2> QED
    BY <2>1, <2>2, LineIsAdded
<1>7. ASSUME NEW s \in FeedSymbols, Feed!Export(s) PROVE FeedInv'
  <2> DEFINE r == [symbol |-> s, at |-> feedNow]
  <2>1. /\ r \in FeedLine /\ r.at = feedNow /\ feedLines' = Append(feedLines, r)
        /\ UNCHANGED <<feedNow, offset, feedSeen, reading, feedPosition, feedSignals, handed>>
    BY <1>7, <1>a DEF Feed!Export, Feed!call, FeedLine
  <2>2. r.at <= feedNow
    BY <1>a, <2>1
  <2> HIDE DEF r
  <2> QED
    BY <2>1, <2>2, LineIsAdded
<1>8. CASE Feed!ReadLine
  BY <1>8, LineIsRead
<1>9. ASSUME NEW n \in 0..Len(feedSignals), NEW f \in Feed!Sorted(n), Feed!Return(n, f)
      PROVE FeedInv'
  BY <1>9, CallReturns
<1> QED
  BY <1>2, <1>3, <1>4, <1>5, <1>6, <1>7, <1>8, <1>9 DEF Feed!Next

(* For any symbols, sessions, limits and crashes of either process: a      *)
(* symbol is handed out once in a session, and the sessions it is handed   *)
(* out for rise.                                                           *)
THEOREM HandedOut == MCSpec => []HandedOutOnce
<1>1. MCInit => FeedInv
  BY Begins, FeedInit
<1>2. FeedInv /\ [MCNext]_allVars => FeedInv'
  BY Moves, FeedStep
<1>3. FeedInv => HandedOutOnce
  BY FeedOnce DEF HandedOutOnce
<1> QED
  BY <1>1, <1>2, <1>3, PTL DEF MCSpec

-----------------------------------------------------------------------------
(* Strategy.  The account holds what the strategy thinks it holds until it *)
(* forgets a position (OneUnit), for its signals fit the position (Signal- *)
(* Fits), and none comes before there are bars enough for one (WarmedUp):  *)
(* so the first bar from the flat time on that finds a position sells it,  *)
(* or the day is off (Answered).                                           *)

(* The flag of the position and what the account holds agree until the     *)
(* strategy forgets one.                                                   *)
OneUnit == ~orphaned => held = IF Reversion!InPosition THEN 1 ELSE 0

(* A signal fits the position, an entry the hours of entry.                *)
SignalFits ==
  /\ signal \in {Reversion!Buy, Reversion!Sell, Reversion!NoSignal}
  /\ signal = Reversion!Sell => Reversion!InPosition
  /\ signal = Reversion!Buy => ~Reversion!InPosition /\ price # 0 /\ time < FlatTime

(* No signal, and so no position, comes before the bars are enough for     *)
(* one: no bar at the flat time is looked at too early in the day to sell. *)
WarmedUp == Reversion!InPosition \/ signal # Reversion!NoSignal => bars >= MinBars

(* A bar after the flat time that found a position was answered, or the    *)
(* day was off, unless the strategy has forgotten that position since.     *)
Answered == late /\ Reversion!InPosition /\ ~orphaned => disabled \/ asked

StrategyInv ==
  /\ bars \in Int /\ time \in Int /\ held \in Int
  /\ late => time >= FlatTime
  /\ OneUnit /\ SignalFits /\ WarmedUp /\ Answered

LEMMA StrategyInit == Reversion!Init => StrategyInv
  BY ReversionAssumption DEF Reversion!Init, StrategyInv, OneUnit, SignalFits, WarmedUp,
        Answered,
     Reversion!InPosition, Reversion!NoPosition, Reversion!NoSignal, Reversion!Buy, Reversion!Sell

LEMMA StrategyOnBar ==
  ASSUME StrategyInv, NEW t \in 0..LastBar, NEW p \in BarPrices, Reversion!OnBar(t, p)
  PROVE  StrategyInv'
<1> DEFINE due == enabled /\ Reversion!InPosition /\ t >= FlatTime
<1>1. /\ signal = Reversion!NoSignal /\ t \in Int /\ t >= time /\ time' = t /\ price' = p /\ p # 0
      /\ UNCHANGED <<position, held, orphaned>>
      /\ late' = (late \/ due) /\ asked' = (asked \/ (due /\ signal' = Reversion!Sell))
      /\ bars \in Int /\ time \in Int
  BY ReversionAssumption DEF Reversion!OnBar, StrategyInv
<1>2. Reversion!InPosition' = Reversion!InPosition
  BY <1>1 DEF Reversion!InPosition
<1>3. late' => t >= FlatTime
  <2>1. CASE late
    <3>1. time >= FlatTime
      BY <2>1 DEF StrategyInv
    <3> QED
      BY <1>1, <3>1, ReversionAssumption
  <2>2. CASE ~late
    BY <1>1, <2>2
  <2> QED
    BY <2>1, <2>2
<1>4. OneUnit'
  BY <1>1, <1>2 DEF StrategyInv, OneUnit
<1>5. CASE ~enabled \/ disabled
  <2>1. UNCHANGED <<bars, disabled, signal>>
    BY <1>5 DEF Reversion!OnBar, Reversion!today
  <2>2. SignalFits' /\ WarmedUp'
    BY <1>1, <1>2, <2>1 DEF StrategyInv, SignalFits, WarmedUp, Reversion!NoSignal,
          Reversion!Buy, Reversion!Sell
  <2>3. Answered'
    BY <1>1, <1>2, <1>5, <2>1 DEF StrategyInv, Answered
  <2> QED
    BY <1>1, <1>3, <1>4, <2>1, <2>2, <2>3 DEF StrategyInv
<1>6. CASE enabled /\ ~disabled /\ bars + 1 < MinBars
  <2>1. bars' = bars + 1 /\ UNCHANGED <<disabled, signal>>
    BY <1>6 DEF Reversion!OnBar
  <2>2. ~Reversion!InPosition
    BY <1>1, <1>6, ReversionAssumption DEF StrategyInv, WarmedUp
  <2>3. SignalFits' /\ WarmedUp' /\ Answered'
    BY <1>1, <1>2, <2>1, <2>2 DEF SignalFits, WarmedUp, Answered, Reversion!NoSignal,
          Reversion!Buy, Reversion!Sell
  <2> QED
    BY <1>1, <1>3, <1>4, <2>1, <2>3 DEF StrategyInv
<1>7. CASE enabled /\ ~disabled /\ ~(bars + 1 < MinBars)
  <2>1. bars' = bars + 1 /\ bars' >= MinBars
    BY <1>1, <1>7, ReversionAssumption DEF Reversion!OnBar
  <2>2. WarmedUp'
    BY <2>1 DEF WarmedUp
  <2>3. CASE Reversion!InPosition
    <3>1. Reversion!Exits(t, p)
      BY <1>7, <2>3 DEF Reversion!OnBar
    <3>2. signal' \in {Reversion!Sell, Reversion!NoSignal}
          /\ (t >= FlatTime => signal' = Reversion!Sell)
      BY <3>1 DEF Reversion!Exits, Reversion!IsFlatTime
    <3>3. SignalFits'
      BY <1>2, <2>3, <3>2 DEF SignalFits, Reversion!NoSignal, Reversion!Buy, Reversion!Sell
    <3>4. late' => asked'
      BY <1>1, <1>3, <1>7, <2>3, <3>2
    <3> QED
      BY <1>1, <1>3, <1>4, <2>1, <2>2, <3>3, <3>4 DEF StrategyInv, Answered
  <2>4. CASE ~Reversion!InPosition
    <3>1. Reversion!Enters(t, p)
      BY <1>7, <2>4 DEF Reversion!OnBar
    <3>2. signal' = Reversion!NoSignal \/ (signal' = Reversion!Buy /\ t < FlatTime)
      <4>1. Reversion!MayEnter(t, p) => t < FlatTime
        BY <1>1, ReversionAssumption DEF Reversion!MayEnter
      <4> QED
        BY <3>1, <4>1 DEF Reversion!Enters
    <3>3. SignalFits'
      BY <1>1, <1>2, <2>4, <3>2 DEF SignalFits, Reversion!NoSignal, Reversion!Buy,
            Reversion!Sell
    <3>4. Answered'
      BY <1>2, <2>4 DEF Answered
    <3> QED
      BY <1>1, <1>3, <1>4, <2>1, <2>2, <3>3, <3>4 DEF StrategyInv
  <2> QED
    BY <2>3, <2>4
<1> QED
  BY <1>5, <1>6, <1>7

LEMMA StrategyFills ==
  ASSUME StrategyInv, Reversion!Fills
  PROVE  StrategyInv'
<1>1. /\ signal # Reversion!NoSignal /\ signal' = Reversion!NoSignal
      /\ held' = (IF signal = Reversion!Buy THEN held + 1 ELSE held - 1)
      /\ position'
           = (IF Reversion!InPosition THEN Reversion!NoPosition
             ELSE [price |-> price, at |-> entryTime])
      /\ UNCHANGED <<time, bars, disabled, orphaned, late, asked>>
  BY DEF Reversion!Fills, Reversion!today
<1>2. (signal = Reversion!Buy \/ signal = Reversion!Sell) /\ Reversion!Buy # Reversion!Sell
  BY <1>1 DEF StrategyInv, SignalFits, Reversion!Buy, Reversion!Sell
<1>3. bars >= MinBars
  BY <1>1 DEF StrategyInv, WarmedUp
<1>4. CASE signal = Reversion!Buy
  <2>1. ~Reversion!InPosition /\ price # 0 /\ time < FlatTime /\ held \in Int
    BY <1>4 DEF StrategyInv, SignalFits
  <2>2. Reversion!InPosition'
    BY <1>1, <2>1 DEF Reversion!InPosition, Reversion!NoPosition
  <2>3. ~late
    BY <2>1, ReversionAssumption DEF StrategyInv
  <2>4. OneUnit'
    BY <1>1, <1>4, <2>1, <2>2 DEF StrategyInv, OneUnit
  <2>5. SignalFits' /\ WarmedUp' /\ Answered'
    BY <1>1, <1>3, <2>3 DEF SignalFits, WarmedUp, Answered, Reversion!NoSignal, Reversion!Buy,
          Reversion!Sell
  <2> QED
    BY <1>1, <1>4, <2>1, <2>3, <2>4, <2>5 DEF StrategyInv
<1>5. CASE signal = Reversion!Sell
  <2>1. Reversion!InPosition /\ held \in Int
    BY <1>5 DEF StrategyInv, SignalFits
  <2>2. ~Reversion!InPosition'
    BY <1>1, <2>1 DEF Reversion!InPosition
  <2>3. OneUnit'
    BY <1>1, <1>2, <1>5, <2>1, <2>2 DEF StrategyInv, OneUnit
  <2>4. SignalFits' /\ WarmedUp' /\ Answered'
    BY <1>1, <1>3, <2>2 DEF SignalFits, WarmedUp, Answered, Reversion!NoSignal, Reversion!Buy,
          Reversion!Sell
  <2> QED
    BY <1>1, <1>2, <1>5, <2>1, <2>3, <2>4 DEF StrategyInv
<1> QED
  BY <1>2, <1>4, <1>5

LEMMA StrategyStep == StrategyInv /\ [Reversion!Next]_reversionVars => StrategyInv'
<1> SUFFICES ASSUME StrategyInv, [Reversion!Next]_reversionVars PROVE StrategyInv'
  OBVIOUS
<1>1. CASE Reversion!NewDay \/ Reversion!Restart
  <2>1. /\ position' = Reversion!NoPosition /\ signal' = Reversion!NoSignal /\ bars' = 0
           /\ held' = held
        /\ orphaned' = (orphaned \/ (held > 0 /\ Reversion!InPosition))
    BY <1>1 DEF Reversion!NewDay, Reversion!Restart, Reversion!Forgotten
  <2>2. (time' = time /\ late' = late) \/ (time' = 0 /\ ~late')
    BY <1>1 DEF Reversion!NewDay, Reversion!Restart
  <2>3. ~Reversion!InPosition'
    BY <2>1 DEF Reversion!InPosition
  <2>4. OneUnit'
    <3> SUFFICES ASSUME ~orphaned' PROVE held = 0
      BY <2>1, <2>3 DEF OneUnit
    <3>1. ~orphaned /\ ~(held > 0 /\ Reversion!InPosition)
      BY <2>1
    <3>2. held = IF Reversion!InPosition THEN 1 ELSE 0
      BY <3>1 DEF StrategyInv, OneUnit
    <3> QED
      BY <3>1, <3>2
  <2>5. SignalFits' /\ WarmedUp' /\ Answered'
    BY <2>1, <2>3 DEF SignalFits, WarmedUp, Answered, Reversion!NoSignal, Reversion!Buy,
          Reversion!Sell
  <2> QED
    BY <2>1, <2>2, <2>4, <2>5 DEF StrategyInv
<1>2. CASE Reversion!Fails \/ Reversion!StopStrategy \/ Reversion!StartStrategy
           \/ UNCHANGED reversionVars
  <2>1. /\ UNCHANGED <<time, bars, disabled, position, price, held, orphaned, late, asked>>
        /\ signal' \in {signal, Reversion!NoSignal}
    BY <1>2 DEF Reversion!Fails, Reversion!StopStrategy, Reversion!StartStrategy, reversionVars,
          Reversion!today
  <2>2. OneUnit' /\ SignalFits' /\ WarmedUp' /\ Answered'
    BY <2>1 DEF StrategyInv, OneUnit, SignalFits, WarmedUp, Answered, Reversion!InPosition,
          Reversion!NoSignal, Reversion!Buy,
       Reversion!Sell
  <2> QED
    BY <2>1, <2>2 DEF StrategyInv
<1>3. CASE Reversion!Next
  BY <1>1, <1>2, <1>3, StrategyFills, StrategyOnBar DEF Reversion!Next
<1> QED
  BY <1>2, <1>3

LEMMA NightHasReason ==
  ASSUME StrategyInv, [Reversion!Next]_reversionVars, reversionDay' # reversionDay, held > 0
  PROVE  orphaned \/ ~late \/ disabled \/ asked
<1>1. held # 0
  BY DEF StrategyInv
<1> QED
  BY <1>1 DEF StrategyInv, OneUnit, Answered

(* For any bars, hours and limits with the last entry before the flat      *)
(* time, and no price of zero: a day that ends with units in the account   *)
(* ends so because the strategy forgot the position, no bar came from the  *)
(* flat time on, the day was disabled, or the sale was asked for.          *)
THEOREM NoForgottenNight == MCSpec => OvernightHasReason
<1>1. MCInit => StrategyInv
  BY Begins, StrategyInit
<1>2. StrategyInv /\ [MCNext]_allVars => StrategyInv'
  BY Moves, StrategyStep
<1>3. StrategyInv /\ [MCNext]_allVars
        => [reversionDay' # reversionDay /\ held > 0
              => orphaned \/ ~late \/ disabled \/ asked]_(Reversion!vars)
  BY Moves, NightHasReason
<1> QED
  BY <1>1, <1>2, <1>3, PTL DEF MCSpec, OvernightHasReason, Reversion!OvernightHasReason

-----------------------------------------------------------------------------
(* Universe, the inbox.  What is read again after a restart is never       *)
(* beyond what was read before it (OffsetsAgree); a line that is read and  *)
(* no longer waits has a fate, and one that was skipped follows a line     *)
(* that was decided (AllExplained), because what the memory calls recent   *)
(* was decided (RecentWasDecided).                                         *)

(* The two marks of a spoilt line are no symbols.                          *)
LEMMA InboxConstants ==
  /\ Inbox!Torn \notin InboxSymbols /\ Inbox!Garbage \notin InboxSymbols
  /\ Dedupe \in Nat /\ DayLength \in Nat \ {0} /\ InboxLines \in Nat
  BY InboxAssumption DEF Inbox!Torn, Inbox!Garbage

Fates == [what : {"unread", "unreadable", "seen", "decided", "raised"}, at : Int]
InboxLine == InboxSymbols \cup {Inbox!Torn, Inbox!Garbage}

InboxTyped ==
  /\ inboxNow \in Nat
  /\ inbox \in Seq(InboxLine) /\ Len(inbox) <= InboxLines
  /\ state.offset \in Nat /\ stored.offset \in Nat
  /\ recent \in [InboxSymbols -> Int]
  /\ fate \in [1..InboxLines -> Fates]

(* Read and no longer in the batch.                                        *)
Settled(i) == i \in 1..state.offset /\ i \notin batch

(* The file is never behind the memory of what was read, and a batch is    *)
(* read from beyond it: a restart takes no settled line back but those.    *)
OffsetsAgree ==
  /\ stored.offset <= state.offset /\ state.offset <= Len(inbox)
  /\ \A b \in batch : b \in (stored.offset + 1)..state.offset /\ inbox[b] \in InboxSymbols
  /\ inboxStage # "batch" => batch = {}

DecidedAs(j, s, t) == inbox[j] = s /\ fate[j].what = "decided" /\ fate[j].at = t

(* A settled line has a fate; one that was skipped has another before it.  *)
Explained(i) ==
  /\ fate[i].what # "unread"
  /\ fate[i].what = "seen" =>
       /\ inbox[i] \in InboxSymbols
       /\ \E j \in 1..(i - 1) : /\ Settled(j) /\ inbox[j] = inbox[i]
                                /\ fate[j].what = "decided"
                                /\ fate[i].at - fate[j].at < Dedupe

AllExplained == \A i \in 1..state.offset : Settled(i) => Explained(i)

(* What the memory calls recent was decided, on a line before the batch.   *)
RecentWasDecided ==
  \A s \in InboxSymbols : recent[s] # Inbox!Never =>
    \E j \in 1..state.offset :
      Settled(j) /\ DecidedAs(j, s, recent[s]) /\ \A b \in batch : j < b

InboxInv == InboxTyped /\ OffsetsAgree /\ AllExplained /\ RecentWasDecided

LEMMA InboxInit == Inbox!Init => InboxInv
<1> SUFFICES ASSUME Inbox!Init PROVE InboxInv
  OBVIOUS
<1> USE InboxConstants DEF Inbox!Init, Inbox!Fresh, Inbox!Unread, Inbox!Never
<1>1. InboxTyped
  BY EmptySeq DEF InboxTyped, Fates
<1>2. OffsetsAgree /\ AllExplained /\ RecentWasDecided
  BY EmptySeq DEF OffsetsAgree, AllExplained, RecentWasDecided
<1> QED
  BY <1>1, <1>2 DEF InboxInv

(* The line the processor looks at is the first of its batch.              *)
LEMMA NextIsFirst ==
  ASSUME InboxInv, batch # {}
  PROVE  /\ Inbox!NextLine \in batch /\ \A b \in batch : Inbox!NextLine <= b
         /\ Inbox!NextLine \in 1..state.offset /\ inbox[Inbox!NextLine] \in InboxSymbols
<1>1. \A b \in batch : b \in Nat
  BY DEF InboxInv, InboxTyped, OffsetsAgree
<1>2. PICK least \in batch : \A b \in batch : <<b, least>> \notin OpToRel(<, Nat)
  BY <1>1, NatLessThanWellFounded, WFMin
<1>3. \A b \in batch : least <= b
  <2> SUFFICES ASSUME NEW b \in batch PROVE least <= b
    OBVIOUS
  <2>1. b \in Nat /\ least \in Nat
    BY <1>1
  <2>2. ~(b < least)
    BY <1>2, <2>1 DEF OpToRel
  <2> QED
    BY <2>1, <2>2
<1>4. Inbox!NextLine \in batch /\ \A b \in batch : Inbox!NextLine <= b
  BY <1>3 DEF Inbox!NextLine
<1> QED
  BY <1>4 DEF InboxInv, InboxTyped, OffsetsAgree

(* The scanner's process only adds lines and spoils torn ones.             *)
LEMMA InboxGrows ==
  ASSUME InboxInv, NEW line \in InboxLine, ~Inbox!IsTorn => Len(inbox) < InboxLines
  PROVE  /\ Inbox!Appended(line) \in Seq(InboxLine)
         /\ Len(Inbox!Appended(line)) >= Len(inbox) /\ Len(Inbox!Appended(line)) <= InboxLines
         /\ \A i \in 1..Len(inbox) : inbox[i] \in InboxSymbols
            => Inbox!Appended(line)[i] = inbox[i]
<1>1. inbox \in Seq(InboxLine) /\ Len(inbox) \in Nat /\ Len(inbox) <= InboxLines
      /\ InboxLines \in Nat
  BY InboxConstants DEF InboxInv, InboxTyped
<1>2. CASE Inbox!IsTorn
  <2> DEFINE new == IF line = Inbox!Torn THEN Inbox!Torn ELSE Inbox!Garbage
             n == Len(inbox)
  <2>1. new \in InboxLine /\ n \in 1..Len(inbox) /\ inbox[n] \notin InboxSymbols
    BY <1>1, <1>2, InboxConstants DEF Inbox!IsTorn, InboxLine
  <2>2. Inbox!Appended(line) = [inbox EXCEPT ![n] = new]
    BY <1>2 DEF Inbox!Appended
  <2> HIDE DEF new, n
  <2>3. /\ Inbox!Appended(line) \in Seq(InboxLine) /\ Len(Inbox!Appended(line)) = Len(inbox)
        /\ \A i \in 1..Len(inbox) : i # n => Inbox!Appended(line)[i] = inbox[i]
    BY <1>1, <2>1, <2>2, ExceptSeq
  <2> QED
    BY <1>1, <2>1, <2>3
<1>3. CASE ~Inbox!IsTorn
  <2>1. Inbox!Appended(line) = Append(inbox, line)
    BY <1>3 DEF Inbox!Appended
  <2>2. /\ Append(inbox, line) \in Seq(InboxLine) /\ Len(Append(inbox, line)) = Len(inbox) + 1
        /\ \A i \in 1..Len(inbox) : Append(inbox, line)[i] = inbox[i]
    BY <1>1, AppendProperties
  <2> QED
    BY <1>1, <1>3, <2>1, <2>2
<1> QED
  BY <1>2, <1>3

(* What the processor has made of the lines survives what is added.        *)
LEMMA LinesAreWritten ==
  ASSUME InboxInv, UNCHANGED Inbox!processor, inboxNow' \in Nat,
         inbox' \in Seq(InboxLine), Len(inbox') >= Len(inbox), Len(inbox') <= InboxLines,
         \A i \in 1..Len(inbox) : inbox[i] \in InboxSymbols => inbox'[i] = inbox[i]
  PROVE  InboxInv'
<1> USE DEF Inbox!processor
<1>1. InboxTyped'
  BY DEF InboxInv, InboxTyped
<1>2. /\ state.offset \in Nat /\ stored.offset \in Nat /\ Len(inbox) \in Nat
      /\ Len(inbox') \in Nat /\ state.offset <= Len(inbox)
      /\ \A i \in 1..state.offset : i \in 1..Len(inbox)
  BY DEF InboxInv, InboxTyped, OffsetsAgree
<1>3. OffsetsAgree'
  <2>1. \A b \in batch : b \in 1..state.offset /\ inbox[b] \in InboxSymbols
    BY <1>2 DEF InboxInv, OffsetsAgree
  <2> QED
    BY SMTT(40), <1>2, <2>1 DEF InboxInv, OffsetsAgree
<1>4. AllExplained'
  <2> SUFFICES ASSUME NEW i \in 1..state.offset, Settled(i) PROVE Explained(i)'
    BY DEF AllExplained, Settled
  <2>1. Explained(i)
    BY DEF InboxInv, AllExplained
  <2>2. fate[i].what # "unread"
    BY <2>1 DEF Explained
  <2>3. ASSUME fate[i].what = "seen"
        PROVE  /\ inbox'[i] \in InboxSymbols
               /\ \E j \in 1..(i - 1) : /\ Settled(j)' /\ inbox'[j] = inbox'[i]
                                        /\ fate[j].what = "decided"
                                        /\ fate[i].at - fate[j].at < Dedupe
    <3>1. inbox[i] \in InboxSymbols /\ inbox'[i] = inbox[i]
      BY <1>2, <2>1, <2>3 DEF Explained
    <3>2. PICK j \in 1..(i - 1) : /\ Settled(j) /\ inbox[j] = inbox[i]
                                  /\ fate[j].what = "decided"
                                  /\ fate[i].at - fate[j].at < Dedupe
      BY <2>1, <2>3 DEF Explained
    <3>3. Settled(j)' /\ inbox'[j] = inbox[j]
      BY <1>2, <3>1, <3>2 DEF Settled
    <3> QED
      BY <3>1, <3>2, <3>3
  <2> QED
    BY <2>2, <2>3 DEF Explained
<1>5. RecentWasDecided'
  <2> SUFFICES ASSUME NEW s \in InboxSymbols, recent[s] # Inbox!Never
               PROVE  \E j \in 1..state.offset :
                        Settled(j)' /\ DecidedAs(j, s, recent[s])' /\ \A b \in batch : j < b
    BY DEF RecentWasDecided, DecidedAs, Inbox!Never
  <2>1. PICK j \in 1..state.offset :
               Settled(j) /\ DecidedAs(j, s, recent[s]) /\ \A b \in batch : j < b
    BY DEF InboxInv, RecentWasDecided
  <2>2. Settled(j)' /\ DecidedAs(j, s, recent[s])'
    BY <1>2, <2>1 DEF Settled, DecidedAs
  <2> QED
    BY <2>1, <2>2
<1> QED
  BY <1>1, <1>3, <1>4, <1>5 DEF InboxInv

(* A settled line stays settled and keeps its fate and its explanation     *)
(* while other lines get theirs.                                           *)
LEMMA SettledStay ==
  ASSUME InboxInv, inbox' = inbox, NEW i \in 1..state.offset, Settled(i),
         \A j \in 1..i : Settled(j) => Settled(j)' /\ fate'[j] = fate[j]
  PROVE  Explained(i)'
<1>1. state.offset \in Nat
  BY DEF InboxInv, InboxTyped
<1>2. Explained(i) /\ i \in 1..i /\ \A j \in 1..(i - 1) : j \in 1..i
  BY <1>1 DEF InboxInv, AllExplained
<1>3. fate'[i] = fate[i]
  BY <1>2
<1>4. fate'[i].what = "seen" =>
        \E j \in 1..(i - 1) : /\ Settled(j)' /\ inbox'[j] = inbox'[i]
                              /\ fate'[j].what = "decided"
                              /\ fate'[i].at - fate'[j].at < Dedupe
  <2> SUFFICES ASSUME fate[i].what = "seen"
               PROVE  \E j \in 1..(i - 1) : /\ Settled(j)' /\ inbox'[j] = inbox'[i]
                                            /\ fate'[j].what = "decided"
                                            /\ fate'[i].at - fate'[j].at < Dedupe
    BY <1>3
  <2>1. PICK j \in 1..(i - 1) : /\ Settled(j) /\ inbox[j] = inbox[i]
                                /\ fate[j].what = "decided"
                                /\ fate[i].at - fate[j].at < Dedupe
    BY <1>2 DEF Explained
  <2>2. Settled(j)' /\ fate'[j] = fate[j]
    BY <1>2, <2>1
  <2> QED
    BY <1>3, <2>1, <2>2
<1> QED
  BY <1>2, <1>3, <1>4 DEF Explained

LEMMA ReadStep ==
  ASSUME InboxInv, Inbox!ReadInbox
  PROVE  InboxInv'
<1> DEFINE unreadable == {i \in Inbox!Consumed : inbox[i] \notin InboxSymbols}
<1>1. /\ inboxStage = "idle" /\ inboxStage' = "batch" /\ batch' = Inbox!Consumed \ unreadable
      /\ fate' = Inbox!Marked(unreadable, "unreadable")
      /\ state'.offset = IF Inbox!Consumed = {} THEN state.offset ELSE Len(inbox)
      /\ UNCHANGED <<inboxNow, inbox, stored, recent>>
  BY DEF Inbox!ReadInbox, Inbox!outside
<1>2. batch = {}
  BY <1>1 DEF InboxInv, OffsetsAgree
<1>3. /\ state.offset \in Nat /\ stored.offset \in Nat /\ Len(inbox) \in Nat /\ inboxNow \in Nat
      /\ stored.offset <= state.offset /\ state.offset <= Len(inbox)
      /\ Len(inbox) <= InboxLines /\ InboxLines \in Nat
  BY InboxConstants DEF InboxInv, InboxTyped, OffsetsAgree
<1>0. state'.offset = Len(inbox)
  <2>1. CASE Inbox!Consumed = {}
    <3>1. state.offset < Len(inbox) => Len(inbox) \in Inbox!Consumed
      BY <1>3 DEF Inbox!Consumed
    <3> QED
      BY <1>1, <1>3, <2>1, <3>1
  <2>2. CASE Inbox!Consumed # {}
    BY <1>1, <2>2
  <2> QED
    BY <2>1, <2>2
<1>4. /\ state'.offset = Len(inbox)
      /\ \A i \in 1..Len(inbox) : i \in Inbox!Consumed \/ i \in 1..state.offset
      /\ \A i \in Inbox!Consumed : i \in 1..Len(inbox) /\ i > state.offset /\ i \in Nat
  BY <1>0, <1>3 DEF Inbox!Consumed
<1> HIDE DEF unreadable
<1>5. /\ unreadable \subseteq Inbox!Consumed /\ batch' \subseteq Inbox!Consumed
      /\ \A i \in batch' : inbox[i] \in InboxSymbols
      /\ \A i \in Inbox!Consumed : i \in batch' \/ i \in unreadable
  BY <1>1 DEF unreadable
<1>6. /\ fate' \in [1..InboxLines -> Fates]
      /\ \A i \in 1..InboxLines : fate'[i] =
           IF i \in unreadable THEN [what |-> "unreadable", at |-> inboxNow] ELSE fate[i]
  <2>1. fate \in [1..InboxLines -> Fates] /\ [what |-> "unreadable", at |-> inboxNow] \in Fates
    BY <1>3 DEF InboxInv, InboxTyped, Fates
  <2> QED
    BY <1>1, <2>1 DEF Inbox!Marked
<1>7. InboxTyped'
  BY <1>1, <1>3, <1>4, <1>6 DEF InboxInv, InboxTyped
<1>8. OffsetsAgree'
  BY <1>1, <1>3, <1>4, <1>5 DEF OffsetsAgree
<1>9. \A j \in 1..state.offset : Settled(j) /\ Settled(j)' /\ fate'[j] = fate[j]
  <2> SUFFICES ASSUME NEW j \in 1..state.offset
               PROVE  Settled(j) /\ Settled(j)' /\ fate'[j] = fate[j]
    OBVIOUS
  <2>1. j \in 1..InboxLines /\ j \in 1..Len(inbox) /\ j \notin Inbox!Consumed
    BY <1>3, <1>4
  <2> QED
    BY <1>2, <1>4, <1>5, <1>6, <2>1 DEF Settled
<1>10. AllExplained'
  <2> SUFFICES ASSUME NEW i \in 1..Len(inbox), Settled(i)' PROVE Explained(i)'
    BY <1>4 DEF AllExplained
  <2>1. CASE i \in 1..state.offset
    <3>1. \A j \in 1..i : j \in 1..state.offset
      BY <1>3, <2>1
    <3> QED
      BY <1>1, <1>9, <2>1, <3>1, SettledStay
  <2>2. CASE i \in Inbox!Consumed
    <3>1. i \in unreadable /\ i \in 1..InboxLines
      BY <1>3, <1>5, <2>2 DEF Settled
    <3> QED
      BY <1>6, <3>1 DEF Explained
  <2> QED
    BY <1>4, <2>1, <2>2
<1>11. RecentWasDecided'
  <2> SUFFICES ASSUME NEW s \in InboxSymbols, recent[s] # Inbox!Never
               PROVE  \E j \in 1..Len(inbox) :
                        Settled(j)' /\ DecidedAs(j, s, recent[s])' /\ \A b \in batch' : j < b
    BY <1>1, <1>4 DEF RecentWasDecided, DecidedAs, Inbox!Never
  <2>1. PICK j \in 1..state.offset : DecidedAs(j, s, recent[s])
    BY DEF InboxInv, RecentWasDecided
  <2>2. j \in 1..Len(inbox) /\ \A b \in batch' : j < b
    BY <1>3, <1>4, <1>5, <2>1
  <2>3. Settled(j)' /\ DecidedAs(j, s, recent[s])'
    BY <1>1, <1>9, <2>1 DEF DecidedAs
  <2> QED
    BY <2>2, <2>3
<1> QED
  BY <1>7, <1>8, <1>10, <1>11 DEF InboxInv

(* Lines leave the batch with a fate other than "unread" and "seen", or    *)
(* the first one leaves it as seen.                                        *)
LEMMA SettleStep ==
  ASSUME InboxInv, NEW those \in SUBSET batch, NEW what \in {"seen", "decided", "raised"},
         batch' = batch \ those, fate' = Inbox!Marked(those, what),
         state'.offset = state.offset, UNCHANGED <<inboxNow, inbox, stored>>,
         inboxStage' # "batch" => batch' = {},
         what = "seen" => those = {Inbox!NextLine} /\ Inbox!IsRecent(inbox[Inbox!NextLine]),
         \/ recent' = recent
         \/ /\ those = {Inbox!NextLine} /\ what = "decided"
            /\ recent' = [recent EXCEPT ![inbox[Inbox!NextLine]] = inboxNow],
         those # {} => batch # {}
  PROVE  InboxInv'
<1>1. /\ state.offset \in Nat /\ stored.offset \in Nat /\ inboxNow \in Nat
      /\ state.offset <= Len(inbox) /\ Len(inbox) <= InboxLines /\ Len(inbox) \in Nat
      /\ InboxLines \in Nat /\ recent \in [InboxSymbols -> Int]
  BY InboxConstants DEF InboxInv, InboxTyped, OffsetsAgree
<1>2. /\ fate' \in [1..InboxLines -> Fates]
      /\ \A i \in 1..InboxLines :
           fate'[i] = IF i \in those THEN [what |-> what, at |-> inboxNow] ELSE fate[i]
  <2>1. fate \in [1..InboxLines -> Fates] /\ [what |-> what, at |-> inboxNow] \in Fates
    BY <1>1 DEF InboxInv, InboxTyped, Fates
  <2> QED
    BY <2>1 DEF Inbox!Marked
<1>3. \A b \in batch : b \in 1..state.offset /\ b \in 1..InboxLines /\ inbox[b] \in InboxSymbols
  BY <1>1 DEF InboxInv, OffsetsAgree
<1>4. recent' \in [InboxSymbols -> Int]
  BY <1>1
<1>5. InboxTyped'
  BY <1>1, <1>2, <1>4 DEF InboxInv, InboxTyped
<1>6. OffsetsAgree'
  BY DEF InboxInv, OffsetsAgree
<1>7. \A j \in 1..state.offset : Settled(j) => Settled(j)' /\ fate'[j] = fate[j]
  <2> SUFFICES ASSUME NEW j \in 1..state.offset, Settled(j)
               PROVE  Settled(j)' /\ fate'[j] = fate[j]
    OBVIOUS
  <2>1. j \in 1..InboxLines /\ j \notin those
    BY <1>1 DEF Settled
  <2> QED
    BY <1>2, <2>1 DEF Settled
<1>8. AllExplained'
  <2> SUFFICES ASSUME NEW i \in 1..state.offset, Settled(i)' PROVE Explained(i)'
    BY DEF AllExplained
  <2>1. CASE Settled(i)
    <3>1. \A j \in 1..i : j \in 1..state.offset
      BY <1>1
    <3> QED
      BY <1>7, <2>1, <3>1, SettledStay
  <2>2. CASE ~Settled(i)
    <3>1. i \in those /\ i \in batch /\ i \in 1..InboxLines /\ inbox[i] \in InboxSymbols
      BY <1>3, <2>2 DEF Settled
    <3>2. fate'[i].what = what /\ fate'[i].at = inboxNow
      BY <1>2, <3>1
    <3>3. CASE what # "seen"
      BY <3>2, <3>3 DEF Explained
    <3>4. CASE what = "seen"
      <4>1. i = Inbox!NextLine /\ inboxNow - recent[inbox[i]] < Dedupe
        BY <3>1, <3>4 DEF Inbox!IsRecent
      <4>2. recent[inbox[i]] # Inbox!Never
        BY <1>1, <4>1, InboxConstants DEF Inbox!Never
      <4>3. PICK j \in 1..state.offset :
                   Settled(j) /\ DecidedAs(j, inbox[i], recent[inbox[i]])
                   /\ \A b \in batch : j < b
        BY <3>1, <4>2 DEF InboxInv, RecentWasDecided
      <4>4. j \in 1..(i - 1)
        BY <1>1, <3>1, <4>3
      <4>5. Settled(j)' /\ fate'[j] = fate[j]
        BY <1>7, <4>3
      <4>6. /\ inbox'[j] = inbox'[i] /\ fate'[j].what = "decided"
            /\ fate'[i].at - fate'[j].at < Dedupe
        BY <3>2, <4>1, <4>3, <4>5 DEF DecidedAs
      <4> QED
        BY <3>1, <3>2, <4>4, <4>5, <4>6 DEF Explained
    <3> QED
      BY <3>3, <3>4
  <2> QED
    BY <2>1, <2>2
<1>9. RecentWasDecided'
  <2> SUFFICES ASSUME NEW s \in InboxSymbols, recent'[s] # Inbox!Never
               PROVE  \E j \in 1..state.offset :
                        Settled(j)' /\ DecidedAs(j, s, recent[s])' /\ \A b \in batch' : j < b
    BY DEF RecentWasDecided, DecidedAs, Inbox!Never
  <2>1. CASE recent'[s] = recent[s]
    <3>1. PICK j \in 1..state.offset :
                 Settled(j) /\ DecidedAs(j, s, recent[s]) /\ \A b \in batch : j < b
      BY <2>1 DEF InboxInv, RecentWasDecided
    <3>2. Settled(j)' /\ DecidedAs(j, s, recent[s])'
      BY <1>7, <2>1, <3>1 DEF DecidedAs
    <3> QED
      BY <3>1, <3>2
  <2>2. CASE recent'[s] # recent[s]
    <3>1. /\ those = {Inbox!NextLine} /\ what = "decided" /\ batch # {}
          /\ recent' = [recent EXCEPT ![inbox[Inbox!NextLine]] = inboxNow]
      BY <2>2
    <3>2. /\ Inbox!NextLine \in batch /\ \A b \in batch : Inbox!NextLine <= b
          /\ Inbox!NextLine \in 1..state.offset /\ Inbox!NextLine \in 1..InboxLines
      BY <1>3, <3>1, NextIsFirst
    <3>3. s = inbox[Inbox!NextLine] /\ recent'[s] = inboxNow
      BY <1>1, <2>2, <3>1
    <3>0. PICK n \in 1..state.offset : n = Inbox!NextLine
      BY <3>2
    <3>4. n \in 1..state.offset /\ n \notin batch' /\ inbox'[n] = s
          /\ fate'[n] = [what |-> "decided", at |-> inboxNow]
      BY <1>2, <3>0, <3>1, <3>2, <3>3
    <3>5. \A b \in batch' : n < b
      <4> SUFFICES ASSUME NEW b \in batch' PROVE n < b
        OBVIOUS
      <4>1. b \in batch /\ b # n
        BY <3>0, <3>1
      <4> QED
        BY <1>1, <1>3, <3>0, <3>2, <4>1
    <3>6. n \in 1..state'.offset /\ fate'[n].what = "decided" /\ fate'[n].at = recent'[s]
      BY <3>3, <3>4
    <3>7. Settled(n)' /\ DecidedAs(n, s, recent[s])'
      BY <3>4, <3>6 DEF Settled, DecidedAs
    <3> QED
      BY <3>4, <3>5, <3>7
  <2> QED
    BY <2>1, <2>2
<1> QED
  BY <1>5, <1>6, <1>8, <1>9 DEF InboxInv

(* A restart forgets the recent symbols and reads again from the offset    *)
(* that was saved, or from the first line.                                 *)
LEMMA RestartStep ==
  ASSUME InboxInv, NEW torn \in BOOLEAN, Inbox!ProcessorDies(torn)
  PROVE  InboxInv'
<1>1. /\ state' = stored' /\ stored'.offset \in {0, stored.offset}
      /\ recent' = [s \in InboxSymbols |-> Inbox!Never] /\ batch' = {}
      /\ UNCHANGED <<inboxNow, inbox, fate>>
  BY DEF Inbox!ProcessorDies, Inbox!Fresh, Inbox!outside
<1>2. /\ state.offset \in Nat /\ stored.offset \in Nat /\ stored.offset <= state.offset
      /\ state.offset <= Len(inbox) /\ Len(inbox) \in Nat
  BY DEF InboxInv, InboxTyped, OffsetsAgree
<1>3. InboxTyped'
  BY <1>1, <1>2, InboxConstants DEF InboxInv, InboxTyped, Inbox!Never
<1>4. OffsetsAgree' /\ RecentWasDecided'
  BY <1>1, <1>2 DEF OffsetsAgree, RecentWasDecided, Inbox!Never
<1>5. AllExplained'
  <2> SUFFICES ASSUME NEW i \in 1..state'.offset PROVE Explained(i)'
    BY DEF AllExplained
  <2>1. \A j \in 1..i : j \in 1..stored.offset /\ Settled(j) /\ Settled(j)'
    <3> SUFFICES ASSUME NEW j \in 1..i PROVE j \in 1..stored.offset /\ Settled(j) /\ Settled(j)'
      OBVIOUS
    <3>1. j \in 1..stored.offset /\ j \in 1..state'.offset /\ j \in 1..state.offset
      BY <1>1, <1>2
    <3>2. j \notin batch
      BY <1>2, <3>1 DEF InboxInv, OffsetsAgree
    <3> QED
      BY <1>1, <3>1, <3>2 DEF Settled
  <2>2. i \in 1..i /\ i \in 1..state.offset
    BY <1>1, <1>2
  <2> QED
    BY <1>1, <2>1, <2>2, SettledStay
<1> QED
  BY <1>3, <1>4, <1>5 DEF InboxInv

LEMMA InboxStep == InboxInv /\ [Inbox!Next]_inboxVars => InboxInv'
<1> SUFFICES ASSUME InboxInv, [Inbox!Next]_inboxVars PROVE InboxInv'
  OBVIOUS
<1>1. /\ inbox \in Seq(InboxLine) /\ Len(inbox) \in Nat /\ Len(inbox) <= InboxLines
         /\ inboxNow \in Nat
      /\ InboxLines \in Nat
  BY InboxConstants DEF InboxInv, InboxTyped
<1>2. CASE Inbox!Tick \/ UNCHANGED inboxVars
  <2>1. UNCHANGED <<inbox, Inbox!processor>> /\ inboxNow' \in Nat
    BY <1>1, <1>2 DEF Inbox!Tick, inboxVars, Inbox!outside, Inbox!processor
  <2> QED
    BY <1>1, <2>1, LinesAreWritten
<1>3. ASSUME NEW s \in InboxSymbols, Inbox!WriteCandidate(s) PROVE InboxInv'
  <2>1. /\ inbox' = Inbox!Appended(s) /\ UNCHANGED <<inboxNow, Inbox!processor>>
           /\ s \in InboxLine
        /\ Len(inbox) < InboxLines
    BY <1>3 DEF Inbox!WriteCandidate, InboxLine
  <2> QED
    BY <1>1, <2>1, InboxGrows, LinesAreWritten
<1>4. ASSUME NEW line \in {Inbox!Torn, Inbox!Garbage}, Inbox!ScannerDies(line) PROVE InboxInv'
  <2>1. UNCHANGED <<inboxNow, Inbox!processor>> /\ line \in InboxLine
    BY <1>4 DEF Inbox!ScannerDies, InboxLine
  <2>2. CASE line = Inbox!Torn
    <3>1. inbox' = Inbox!Appended(line) /\ Len(inbox) < InboxLines
      BY <1>4, <2>2 DEF Inbox!ScannerDies
    <3> QED
      BY <1>1, <2>1, <3>1, InboxGrows, LinesAreWritten
  <2>3. CASE line # Inbox!Torn
    <3>1. inbox' = inbox
      BY <1>4, <2>3 DEF Inbox!ScannerDies
    <3> QED
      BY <1>1, <2>1, <3>1, LinesAreWritten
  <2> QED
    BY <2>2, <2>3
<1>5. CASE Inbox!ReadInbox
  BY <1>5, ReadStep
<1>6. CASE Inbox!SkipRecent
  <2> DEFINE first == {Inbox!NextLine}
  <2>1. /\ batch # {} /\ Inbox!IsRecent(inbox[Inbox!NextLine]) /\ batch' = batch \ first
        /\ fate' = Inbox!Marked(first, "seen")
        /\ UNCHANGED <<inboxNow, inbox, state, stored, recent, inboxStage>>
           /\ inboxStage = "batch"
    BY <1>6 DEF Inbox!SkipRecent, Inbox!outside
  <2>2. first \in SUBSET batch
    BY <2>1, NextIsFirst
  <2> QED
    BY <2>1, <2>2, SettleStep
<1>7. ASSUME NEW passes \in BOOLEAN, Inbox!Decide(passes) PROVE InboxInv'
  <2> DEFINE first == {Inbox!NextLine}
  <2>1. /\ batch # {} /\ batch' = batch \ first /\ fate' = Inbox!Marked(first, "decided")
        /\ recent' = [recent EXCEPT ![inbox[Inbox!NextLine]] = inboxNow]
        /\ UNCHANGED <<inboxNow, inbox, stored, inboxStage>> /\ inboxStage = "batch"
    BY <1>7 DEF Inbox!Decide, Inbox!outside
  <2>2. state'.offset = state.offset
    BY <1>7 DEF Inbox!Decide
  <2>3. first \in SUBSET batch
    BY <2>1, NextIsFirst
  <2> QED
    BY <2>1, <2>2, <2>3, SettleStep
<1>8. CASE Inbox!FilterRaises
  <2>1. /\ batch' = batch \ batch /\ fate' = Inbox!Marked(batch, "raised") /\ batch # {}
        /\ UNCHANGED <<inboxNow, inbox, state, stored, recent>>
    BY <1>8 DEF Inbox!FilterRaises, Inbox!outside
  <2>2. batch \in SUBSET batch /\ batch' = {}
    BY <2>1
  <2> QED
    BY <2>1, <2>2, SettleStep
<1>9. CASE Inbox!SaveState
  <2>1. /\ batch = {} /\ stored' = state
        /\ UNCHANGED <<inboxNow, inbox, state, recent, batch, fate>>
    BY <1>9 DEF Inbox!SaveState, Inbox!outside
  <2>2. InboxTyped' /\ OffsetsAgree'
    BY <2>1 DEF InboxInv, InboxTyped, OffsetsAgree
  <2>3. AllExplained' /\ RecentWasDecided'
    BY <2>1 DEF InboxInv, AllExplained, Explained, Settled, RecentWasDecided, DecidedAs
  <2> QED
    BY <2>2, <2>3 DEF InboxInv
<1>10. CASE Inbox!Rebuild
  <2>1. UNCHANGED <<inboxNow, inbox, state, stored, recent, batch, fate>>
        /\ inboxStage = "rebuild"
    BY <1>10 DEF Inbox!Rebuild, Inbox!outside
  <2>2. InboxTyped' /\ OffsetsAgree'
    BY <2>1 DEF InboxInv, InboxTyped, OffsetsAgree
  <2>3. AllExplained' /\ RecentWasDecided'
    BY <2>1 DEF InboxInv, AllExplained, Explained, Settled, RecentWasDecided, DecidedAs
  <2> QED
    BY <2>2, <2>3 DEF InboxInv
<1>11. ASSUME NEW torn \in BOOLEAN, Inbox!ProcessorDies(torn) PROVE InboxInv'
  BY <1>11, RestartStep
<1>12. CASE Inbox!Next
  BY <1>2, <1>3, <1>4, <1>5, <1>6, <1>7, <1>8, <1>9, <1>10, <1>11, <1>12 DEF Inbox!Next
<1> QED
  BY <1>2, <1>12

LEMMA InboxIsKept == InboxInv => Inbox!NothingSkipped
<1> SUFFICES ASSUME InboxInv, NEW i \in 1..stored.offset
             PROVE  /\ fate[i].what # "unread"
                    /\ fate[i].what = "seen" =>
                         \E j \in 1..(i - 1) : /\ inbox[j] = inbox[i] /\ fate[j].what = "decided"
                                               /\ fate[i].at - fate[j].at < Dedupe
  BY DEF Inbox!NothingSkipped
<1>1. i \in 1..state.offset /\ i \notin batch
  BY DEF InboxInv, InboxTyped, OffsetsAgree
<1>2. Explained(i)
  BY <1>1 DEF InboxInv, AllExplained, Settled
<1> QED
  BY <1>2 DEF Explained

(* For any symbols, lines, crashes and length of the deduplication: every  *)
(* complete line that was read is decided, or follows a decision for its   *)
(* symbol that is not older than the deduplication, unless it raised.      *)
THEOREM Handover == MCSpec => []NothingSkipped
<1>1. MCInit => InboxInv
  BY Begins, InboxInit
<1>2. InboxInv /\ [MCNext]_allVars => InboxInv'
  BY Moves, InboxStep
<1>3. InboxInv => NothingSkipped
  BY InboxIsKept DEF NothingSkipped
<1> QED
  BY <1>1, <1>2, <1>3, PTL DEF MCSpec

-----------------------------------------------------------------------------
(* UniverseCache.  Two processes share the file without a lock; what they  *)
(* make of it is sound because no list that reaches it has a symbol on     *)
(* both of its lines (FileIsSplit), and a process returns what it built    *)
(* itself, with its own filters (ResultIsOwn), or what it has checked.     *)

Lists ==
  [at : Nat, date : Nat, sig : DOMAIN Filters \cup {"none"}, normal : SUBSET ListedSymbols,
   penny : SUBSET ListedSymbols, given : Nat, how : {"none", "built", "cache"}]

InFile ==
  [kind : {"lists"}, at : Nat, date : Nat, sig : DOMAIN Filters \cup {"none"},
   normal : SUBSET ListedSymbols, penny : SUBSET ListedSymbols]

BuilderTyped ==
  /\ builderNow \in Nat
  /\ filters \in [Processes -> DOMAIN Filters]
  /\ builderFile \in {Builder!NoFile, Builder!TornFile} \cup InFile
  /\ builderStage \in [Processes -> {"idle", "assets", "snapshots", "write", "writing"}]
  /\ building \in [Processes -> SUBSET ListedSymbols]
  /\ result \in [Processes -> Lists]
  /\ served \in [Processes -> Lists]

(* Whoever wrote the file, no symbol is on both of its lists.              *)
FileIsSplit == builderFile.kind = "lists" => builderFile.normal \cap builderFile.penny = {}

(* What a process is about to write was built with its own filters.        *)
ResultIsOwn ==
  \A p \in Processes : builderStage[p] \in {"write", "writing"} =>
    /\ result[p].sig = filters[p] /\ result[p].how = "built"
    /\ result[p].normal \cap result[p].penny = {}

BuilderInv == BuilderTyped /\ FileIsSplit /\ ResultIsOwn /\ Builder!ServedIsCurrent

LEMMA NothingIsTyped == Builder!Nothing \in Lists
  BY DEF Builder!Nothing, Lists

LEMMA BuilderInit == Builder!Init => BuilderInv
<1> SUFFICES ASSUME Builder!Init PROVE BuilderInv
  OBVIOUS
<1>1. BuilderTyped
  BY NothingIsTyped DEF Builder!Init, BuilderTyped
<1>2. FileIsSplit
  BY DEF Builder!Init, FileIsSplit, Builder!NoFile
<1>3. ResultIsOwn
  BY DEF Builder!Init, ResultIsOwn
<1>4. Builder!ServedIsCurrent
  BY DEF Builder!Init, Builder!ServedIsCurrent
<1> QED
  BY <1>1, <1>2, <1>3, <1>4 DEF BuilderInv

(* A process between a call and its answer: what it was given is given up, *)
(* or as it was.                                                           *)
LEMMA StagesMove ==
  ASSUME BuilderInv, NEW p \in Processes,
         NEW then \in {"idle", "assets", "snapshots", "writing"},
         builderStage' = [builderStage EXCEPT ![p] = then],
         then = "writing" => builderStage[p] = "write",
         building' \in [Processes -> SUBSET ListedSymbols],
         served' \in {served, [served EXCEPT ![p] = Builder!Nothing]},
         UNCHANGED <<builderNow, filters, result>>,
         builderFile' = builderFile \/ builderFile' = Builder!TornFile
  PROVE  BuilderInv'
<1>1. BuilderTyped'
  <2>1. served' \in [Processes -> Lists]
    BY NothingIsTyped DEF BuilderInv, BuilderTyped
  <2> QED
    BY <2>1 DEF BuilderInv, BuilderTyped
<1>2. FileIsSplit'
  BY DEF BuilderInv, FileIsSplit, Builder!TornFile
<1>3. ResultIsOwn'
  BY DEF BuilderInv, BuilderTyped, ResultIsOwn
<1>4. Builder!ServedIsCurrent'
  <2> SUFFICES ASSUME NEW q \in Processes, served'[q] # Builder!Nothing
               PROVE served'[q] = served[q]
    BY DEF BuilderInv, Builder!ServedIsCurrent
  <2> QED
    BY DEF BuilderInv, BuilderTyped
<1> QED
  BY <1>1, <1>2, <1>3, <1>4 DEF BuilderInv

(* A list read from the file is used only if it fits.                      *)
LEMMA CacheLoaded ==
  ASSUME BuilderInv, NEW p \in Processes, Builder!Load(p)
  PROVE  BuilderInv'
<1>1. CASE Builder!Usable(p) /\ builderFile.normal \cup builderFile.penny # {}
  <2> DEFINE given == [at |-> builderFile.at, date |-> builderFile.date, sig |-> builderFile.sig,
                       normal |-> builderFile.normal, penny |-> builderFile.penny,
                       given |-> builderNow, how |-> "cache"]
  <2>1. /\ served' = [served EXCEPT ![p] = given]
        /\ UNCHANGED <<builderNow, filters, builderFile, builderStage, building, result>>
    BY <1>1 DEF Builder!Load
  <2>2. builderFile \in InFile
    BY <1>1 DEF BuilderInv, BuilderTyped, Builder!Usable, Builder!NoFile, Builder!TornFile
  <2>3. given \in Lists
    <3>1. builderNow \in Nat
      BY DEF BuilderInv, BuilderTyped
    <3> QED
      BY <2>2, <3>1 DEF InFile, Lists
  <2>4. /\ given.sig = filters[p] /\ given.normal \cap given.penny = {}
        /\ given.date = Builder!Today(given.given) /\ given.given - given.at <= ListedAge
        /\ given.normal \cup given.penny # {}
    BY <1>1 DEF Builder!Usable, BuilderInv, FileIsSplit
  <2> HIDE DEF given
  <2>5. BuilderTyped'
    BY <2>1, <2>3 DEF BuilderInv, BuilderTyped
  <2>6. FileIsSplit' /\ ResultIsOwn'
    BY <2>1 DEF BuilderInv, FileIsSplit, ResultIsOwn
  <2>7. Builder!ServedIsCurrent'
    <3>1. served'[p] = given /\ \A q \in Processes : q # p => served'[q] = served[q]
      BY <2>1 DEF BuilderInv, BuilderTyped
    <3> QED
      BY <2>1, <2>4, <3>1 DEF BuilderInv, Builder!ServedIsCurrent
  <2> QED
    BY <2>5, <2>6, <2>7 DEF BuilderInv
<1>2. CASE ~(Builder!Usable(p) /\ builderFile.normal \cup builderFile.penny # {})
  <2>1. /\ builderStage' = [builderStage EXCEPT ![p] = "assets"]
           /\ served' = [served EXCEPT ![p] = Builder!Nothing]
        /\ UNCHANGED <<builderNow, filters, builderFile, building, result>>
    BY <1>2 DEF Builder!Load
  <2>2. building' \in [Processes -> SUBSET ListedSymbols]
    BY <2>1 DEF BuilderInv, BuilderTyped
  <2> QED
    BY <2>1, <2>2, StagesMove
<1> QED
  BY <1>1, <1>2

(* The two lists of a build share no symbol.                               *)
LEMMA ListsBuilt ==
  ASSUME BuilderInv, NEW p \in Processes, Builder!Build(p)
  PROVE  BuilderInv'
<1>1. PICK S \in SUBSET building[p] :
        \E seen \in [S -> [price : ListedPrices, volume : ListedVolumes \cup {Builder!Unknown}]] :
          result' = [result EXCEPT ![p] =
            [at |-> builderNow, date |-> Builder!Today(builderNow), sig |-> filters[p],
              given |-> 0, how |-> "built",
             normal |-> Builder!Normal(Filters[filters[p]], seen),
             penny |-> Builder!Penny(Filters[filters[p]], seen)]]
  BY DEF Builder!Build
<1>2. PICK seen \in [S -> [price : ListedPrices, volume : ListedVolumes \cup {Builder!Unknown}]] :
          result' = [result EXCEPT ![p] =
            [at |-> builderNow, date |-> Builder!Today(builderNow), sig |-> filters[p],
              given |-> 0, how |-> "built",
             normal |-> Builder!Normal(Filters[filters[p]], seen),
             penny |-> Builder!Penny(Filters[filters[p]], seen)]]
  BY <1>1
<1> DEFINE f == Filters[filters[p]]
           built == [at |-> builderNow, date |-> Builder!Today(builderNow), sig |-> filters[p],
             given |-> 0,
                     how |-> "built", normal |-> Builder!Normal(f, seen),
                       penny |-> Builder!Penny(f, seen)]
<1>3. S \subseteq ListedSymbols /\ filters[p] \in DOMAIN Filters /\ builderNow \in Nat
      /\ Builder!Today(builderNow) \in Nat
  <2>1. building[p] \subseteq ListedSymbols /\ filters[p] \in DOMAIN Filters /\ builderNow \in Nat
    BY DEF BuilderInv, BuilderTyped
  <2>2. Builder!Today(builderNow) \in Nat
    BY <2>1, BuilderAssumption DEF Builder!Today
  <2> QED
    BY <1>1, <2>1, <2>2
<1>4. Builder!Normal(f, seen) \subseteq S /\ Builder!Penny(f, seen) \subseteq S
  BY DEF Builder!Normal, Builder!Penny
<1>5. Builder!Normal(f, seen) \cap Builder!Penny(f, seen) = {}
  BY DEF Builder!Normal, Builder!Penny
<1>6. built \in Lists
  BY <1>3, <1>4 DEF Lists
<1>7. /\ result' = [result EXCEPT ![p] = built]
      /\ built.sig = filters[p] /\ built.how = "built" /\ built.normal \cap built.penny = {}
  BY <1>2, <1>5
<1>8. /\ building' = [building EXCEPT ![p] = {}]
         /\ builderStage' = [builderStage EXCEPT ![p] = "write"]
      /\ UNCHANGED <<builderNow, filters, builderFile, served>>
  BY DEF Builder!Build
<1> HIDE DEF built
<1>9. BuilderTyped'
  BY <1>6, <1>7, <1>8 DEF BuilderInv, BuilderTyped
<1>10. FileIsSplit' /\ Builder!ServedIsCurrent'
  BY <1>8 DEF BuilderInv, FileIsSplit, Builder!ServedIsCurrent
<1>11. ResultIsOwn'
  <2>1. /\ result'[p] = built /\ \A q \in Processes : q # p => result'[q] = result[q]
        /\ \A q \in Processes : q # p => builderStage'[q] = builderStage[q]
    BY <1>7, <1>8 DEF BuilderInv, BuilderTyped
  <2> QED
    BY <1>7, <1>8, <2>1 DEF BuilderInv, ResultIsOwn
<1> QED
  BY <1>9, <1>10, <1>11 DEF BuilderInv

LEMMA CacheWritten ==
  ASSUME BuilderInv, NEW p \in Processes, Builder!Write(p)
  PROVE  BuilderInv'
<1> DEFINE r == result[p]
           given == [r EXCEPT !.given = builderNow]
           saved == [kind |-> "lists", at |-> r.at, date |-> r.date, sig |-> r.sig,
                     normal |-> r.normal, penny |-> r.penny]
<1>1. /\ builderStage[p] = "writing" /\ builderFile' \in {saved, Builder!TornFile}
      /\ served' = [served EXCEPT ![p] = given]
      /\ result' = [result EXCEPT ![p] = Builder!Nothing]
         /\ builderStage' = [builderStage EXCEPT ![p] = "idle"]
      /\ UNCHANGED <<builderNow, filters, building>>
  BY DEF Builder!Write
<1>2. r \in Lists /\ builderNow \in Nat
  BY DEF BuilderInv, BuilderTyped
<1>3. r.sig = filters[p] /\ r.how = "built" /\ r.normal \cap r.penny = {}
  BY <1>1 DEF BuilderInv, ResultIsOwn
<1>4. /\ given \in Lists /\ given.sig = r.sig /\ given.how = r.how
      /\ given.normal = r.normal /\ given.penny = r.penny
  BY <1>2 DEF Lists
<1>5. /\ saved \in InFile /\ saved.normal = r.normal /\ saved.penny = r.penny
  BY <1>2 DEF Lists, InFile
<1> HIDE DEF given, saved, r
<1>6. BuilderTyped'
  BY <1>1, <1>4, <1>5, NothingIsTyped DEF BuilderInv, BuilderTyped
<1>7. FileIsSplit'
  BY <1>1, <1>3, <1>5 DEF FileIsSplit, Builder!TornFile
<1>8. ResultIsOwn'
  BY <1>1 DEF BuilderInv, BuilderTyped, ResultIsOwn
<1>9. Builder!ServedIsCurrent'
  <2>1. served'[p] = given /\ \A q \in Processes : q # p => served'[q] = served[q]
    BY <1>1 DEF BuilderInv, BuilderTyped
  <2> QED
    BY <1>1, <1>3, <1>4, <2>1 DEF BuilderInv, Builder!ServedIsCurrent
<1> QED
  BY <1>6, <1>7, <1>8, <1>9 DEF BuilderInv

LEMMA ProcessRestarts ==
  ASSUME BuilderInv, NEW p \in Processes, Builder!Restart(p)
  PROVE  BuilderInv'
<1>1. PICK f \in DOMAIN Filters : filters' = [filters EXCEPT ![p] = f]
  BY DEF Builder!Restart
<1>2. /\ builderStage' = [builderStage EXCEPT ![p] = "idle"]
         /\ building' = [building EXCEPT ![p] = {}]
      /\ result' = [result EXCEPT ![p] = Builder!Nothing]
         /\ served' = [served EXCEPT ![p] = Builder!Nothing]
      /\ UNCHANGED <<builderNow, builderFile>>
  BY DEF Builder!Restart
<1>3. BuilderTyped'
  BY <1>1, <1>2, NothingIsTyped DEF BuilderInv, BuilderTyped
<1>4. FileIsSplit'
  BY <1>2 DEF BuilderInv, FileIsSplit
<1>5. /\ builderStage'[p] = "idle" /\ served'[p] = Builder!Nothing
      /\ \A q \in Processes : q # p => /\ filters'[q] = filters[q]
         /\ builderStage'[q] = builderStage[q]
                                       /\ result'[q] = result[q] /\ served'[q] = served[q]
  BY <1>1, <1>2 DEF BuilderInv, BuilderTyped
<1>6. ResultIsOwn' /\ Builder!ServedIsCurrent'
  BY <1>5 DEF BuilderInv, ResultIsOwn, Builder!ServedIsCurrent
<1> QED
  BY <1>3, <1>4, <1>6 DEF BuilderInv

LEMMA BuilderStep == BuilderInv /\ [Builder!Next]_builderVars => BuilderInv'
<1> SUFFICES ASSUME BuilderInv, [Builder!Next]_builderVars PROVE BuilderInv'
  OBVIOUS
<1>0. building \in [Processes -> SUBSET ListedSymbols]
  BY DEF BuilderInv, BuilderTyped
<1>1. ASSUME NEW p \in Processes, Builder!Force(p) PROVE BuilderInv'
  BY <1>0, <1>1, StagesMove DEF Builder!Force
<1>2. ASSUME NEW p \in Processes, Builder!FetchAssets(p) PROVE BuilderInv'
  <2>1. building' \in [Processes -> SUBSET ListedSymbols]
    BY <1>0, <1>2 DEF Builder!FetchAssets
  <2> QED
    BY <1>2, <2>1, StagesMove DEF Builder!FetchAssets
<1>3. ASSUME NEW p \in Processes, Builder!RequestFails(p) PROVE BuilderInv'
  <2>1. building' \in [Processes -> SUBSET ListedSymbols]
    BY <1>0, <1>3 DEF Builder!RequestFails
  <2> QED
    BY <1>3, <2>1, StagesMove DEF Builder!RequestFails
<1>4. ASSUME NEW p \in Processes, Builder!Truncate(p) PROVE BuilderInv'
  BY <1>0, <1>4, StagesMove DEF Builder!Truncate
<1>5. CASE Builder!Tick \/ UNCHANGED builderVars
  <2>1. builderNow' \in Nat
        /\ UNCHANGED <<filters, builderFile, builderStage, building, result, served>>
    BY <1>5 DEF Builder!Tick, builderVars, BuilderInv, BuilderTyped
  <2> QED
    BY <2>1 DEF BuilderInv, BuilderTyped, FileIsSplit, ResultIsOwn, Builder!ServedIsCurrent
<1>6. CASE Builder!Next
  BY <1>1, <1>2, <1>3, <1>4, <1>5, <1>6, CacheLoaded, ListsBuilt, CacheWritten, ProcessRestarts
     DEF Builder!Next
<1> QED
  BY <1>5, <1>6

(* For any processes, symbols, filters and age of the cache: the lists a   *)
(* process is given were made with its own filters, share no symbol, and   *)
(* when they come from the file are of the day they are given, not too old *)
(* and not both empty.                                                     *)
THEOREM Served == MCSpec => []ServedIsCurrent
<1>1. MCInit => BuilderInv
  BY Begins, BuilderInit
<1>2. BuilderInv /\ [MCNext]_allVars => BuilderInv'
  BY Moves, BuilderStep
<1>3. BuilderInv => ServedIsCurrent
  BY DEF BuilderInv, ServedIsCurrent
<1> QED
  BY <1>1, <1>2, <1>3, PTL DEF MCSpec

-----------------------------------------------------------------------------
(* Scanner.  The counters of persistence are not the scans that saw a      *)
(* symbol: a miss takes one off, and a reset all.  AllBacked says what     *)
(* stands behind a counter: the last scans, from one of them on, saw the   *)
(* symbol more often than they missed it, by as many as the counter says.  *)

Sightings == SUBSET Scanning!Symbols
Logs == Seq(Sightings)

(* The scans that back a counter: seen more often than missed, by as many, *)
(* from one scan to the last.                                              *)
Backed(log, s, n) ==
  \E k \in DOMAIN log : 2 * Scanning!Hits(log, s, k) - (Len(log) - k + 1) >= n

AllBacked(counts, log) ==
  /\ counts \in [Scanning!Symbols -> Nat] /\ log \in Logs
  /\ \A s \in Scanning!Symbols : counts[s] = 0 \/ Backed(log, s, counts[s])

ScannerInv ==
  /\ next \in 0..(Scanning!Size - 1)
  /\ AllBacked(persistence, scanningFound)
  /\ AllBacked(scanningGapping, scanningGaps)

(* A hit adds one to the scans that saw the symbol, from any scan on.      *)
LEMMA HitsGrow ==
  ASSUME NEW log \in Logs, NEW seen \in Sightings, NEW s \in Scanning!Symbols,
         NEW k \in 1..(Len(log) + 1)
  PROVE  /\ Scanning!Hits(log, s, k) \in Nat
         /\ Scanning!Hits(Append(log, seen), s, k)
              = Scanning!Hits(log, s, k) + (IF s \in seen THEN 1 ELSE 0)
<1> DEFINE n == Len(log)
           old == {i \in k..n : s \in log[i]}
           new == {i \in k..(n + 1) : s \in Append(log, seen)[i]}
<1>1. n \in Nat /\ k \in Nat
  BY DEF Logs
<1>2. /\ Append(log, seen) \in Logs /\ Len(Append(log, seen)) = n + 1
      /\ \A i \in 1..n : Append(log, seen)[i] = log[i]
      /\ Append(log, seen)[n + 1] = seen
  BY AppendProperties DEF Logs
<1>3. IsFiniteSet(old) /\ Cardinality(old) \in Nat
  <2>1. IsFiniteSet(k..n)
    BY <1>1, FS_Interval
  <2>2. old \subseteq k..n
    OBVIOUS
  <2> QED
    BY <2>1, <2>2, FS_Subset, FS_CardinalityType
<1>4. n + 1 \notin old
  BY <1>1
<1>5. new = IF s \in seen THEN old \cup {n + 1} ELSE old
  <2>1. \A i : i \in k..(n + 1) <=> i \in k..n \/ i = n + 1
    BY <1>1
  <2>2. \A i \in k..n : i \in 1..n
    BY <1>1
  <2> QED
    BY <1>2, <2>1, <2>2
<1>6. Cardinality(new) = Cardinality(old) + (IF s \in seen THEN 1 ELSE 0)
  <2> HIDE DEF old, new
  <2>1. Cardinality(old \cup {n + 1}) = Cardinality(old) + 1
    BY <1>3, <1>4, FS_AddElement
  <2> QED
    BY <1>3, <1>5, <2>1
<1>7. Scanning!Hits(log, s, k) = Cardinality(old)
      /\ Scanning!Hits(Append(log, seen), s, k) = Cardinality(new)
  <2>1. \A S : Scanning!Cardinality(S) = Cardinality(S)
    BY DEF Scanning!Cardinality, Cardinality
  <2> QED
    BY <1>2, <2>1 DEF Scanning!Hits
<1> QED
  BY <1>3, <1>6, <1>7

(* _persistence and _gapper_persistence: one up, or one down to no entry.  *)
LEMMA CountedIsBacked ==
  ASSUME NEW counts, NEW log, AllBacked(counts, log), NEW seen \in Sightings
  PROVE  AllBacked(Scanning!Counted(counts, seen), Append(log, seen))
<1> DEFINE n == Len(log)
           later == Append(log, seen)
<1>1. /\ counts \in [Scanning!Symbols -> Nat] /\ log \in Logs /\ n \in Nat
      /\ DOMAIN log = 1..n
  BY DEF AllBacked, Logs
<1>2. /\ later \in Logs /\ Len(later) = n + 1 /\ DOMAIN later = 1..(n + 1)
  BY <1>1 DEF Logs
<1>0. \A s \in Scanning!Symbols : \A k \in 1..(n + 1) :
        /\ Scanning!Hits(later, s, k) = Scanning!Hits(log, s, k) + (IF s \in seen THEN 1 ELSE 0)
        /\ Scanning!Hits(log, s, k) \in Nat
  BY <1>1, HitsGrow
<1> HIDE DEF later, n
<1>3. Scanning!Counted(counts, seen) \in [Scanning!Symbols -> Nat]
  <2> SUFFICES ASSUME NEW s \in Scanning!Symbols
               PROVE  (IF s \in seen THEN counts[s] + 1
                       ELSE IF counts[s] > 0 THEN counts[s] - 1 ELSE 0) \in Nat
    BY DEF Scanning!Counted
  <2>1. counts[s] \in Nat
    BY <1>1
  <2> QED
    BY <2>1
<1>4. ASSUME NEW s \in Scanning!Symbols
      PROVE  Scanning!Counted(counts, seen)[s] = 0
             \/ Backed(later, s, Scanning!Counted(counts, seen)[s])
  <2>1. /\ Scanning!Counted(counts, seen)[s] =
             (IF s \in seen THEN counts[s] + 1 ELSE IF counts[s] > 0 THEN counts[s] - 1 ELSE 0)
        /\ counts[s] \in Nat
    BY <1>1 DEF Scanning!Counted
  <2>2. CASE counts[s] = 0 /\ s \in seen
    <3>1. n + 1 \in 1..(n + 1)
      BY <1>1
    <3>2. Scanning!Hits(later, s, n + 1) = Scanning!Hits(log, s, n + 1) + 1
          /\ Scanning!Hits(log, s, n + 1) \in Nat
      BY <1>0, <2>2, <3>1
    <3>3. 2 * Scanning!Hits(later, s, n + 1) - (Len(later) - (n + 1) + 1) >= 1
      BY <1>1, <1>2, <3>2
    <3>4. Scanning!Counted(counts, seen)[s] = 1
      BY <2>1, <2>2
    <3> QED
      BY <1>2, <3>1, <3>3, <3>4 DEF Backed
  <2>3. CASE counts[s] # 0
    <3>1. PICK k \in 1..n : 2 * Scanning!Hits(log, s, k) - (n - k + 1) >= counts[s]
      BY <1>1, <2>3 DEF AllBacked, Backed, n
    <3>2. k \in 1..(n + 1) /\ k \in Nat
      BY <1>1
    <3>3. /\ Scanning!Hits(later, s, k) = Scanning!Hits(log, s, k) + (IF s \in seen THEN 1 ELSE 0)
          /\ Scanning!Hits(log, s, k) \in Nat
      BY <1>0, <3>2
    <3>4. Scanning!Counted(counts, seen)[s] = IF s \in seen THEN counts[s] + 1 ELSE counts[s] - 1
      BY <2>1, <2>3
    <3>5. 2 * Scanning!Hits(later, s, k) - (Len(later) - k + 1) >= Scanning!Counted(counts,
            seen)[s]
      <4>1. CASE s \in seen
        BY <1>1, <1>2, <2>1, <3>1, <3>2, <3>3, <3>4, <4>1
      <4>2. CASE s \notin seen
        BY <1>1, <1>2, <2>1, <3>1, <3>2, <3>3, <3>4, <4>2
      <4> QED
        BY <4>1, <4>2
    <3> QED
      BY <1>2, <3>2, <3>5 DEF Backed
  <2>4. CASE counts[s] = 0 /\ s \notin seen
    BY <2>1, <2>4
  <2> QED
    BY <2>2, <2>3, <2>4
<1> QED
  BY <1>2, <1>3, <1>4 DEF AllBacked, later

LEMMA NoneIsBacked ==
  ASSUME NEW counts, NEW log, AllBacked(counts, log)
  PROVE  AllBacked(Scanning!None, log) /\ AllBacked(Scanning!Kept(counts), log)
<1>1. AllBacked(Scanning!None, log)
  BY DEF AllBacked, Scanning!None
<1> QED
  BY <1>1 DEF Scanning!Kept

(* The rotation stays within the universe.                                 *)
LEMMA BatchIsKnown ==
  ASSUME next \in 0..(Scanning!Size - 1)
  PROVE  Scanning!Batch \subseteq Scanning!Symbols
         /\ Scanning!End % Scanning!Size \in 0..(Scanning!Size - 1)
<1>1. Scanning!Size \in Nat \ {0} /\ DOMAIN Roll = 1..Scanning!Size /\ BatchSize \in Nat
      /\ next \in Nat
  BY ScannerAssumption, EmptySeq DEF Scanning!Size
<1>2. Scanning!End \in Nat
  BY <1>1 DEF Scanning!End
<1>3. Scanning!End % Scanning!Size \in 0..(Scanning!Size - 1)
  <2> HIDE DEF Scanning!End, Scanning!Size
  <2> QED
    BY <1>1, <1>2
<1>4. ASSUME NEW positions, positions \subseteq 0..(Scanning!Size - 1)
      PROVE  Scanning!At(positions) \subseteq Scanning!Symbols
  <2> SUFFICES ASSUME NEW i \in positions PROVE Roll[i + 1] \in Scanning!Symbols
    BY DEF Scanning!At
  <2>1. i + 1 \in DOMAIN Roll
    BY <1>1, <1>4
  <2> QED
    BY <2>1 DEF Scanning!Symbols
<1>5. CASE Scanning!End <= Scanning!Size
  <2>1. next..(Scanning!End - 1) \subseteq 0..(Scanning!Size - 1)
    BY <1>1, <1>2, <1>5
  <2> QED
    BY <1>3, <1>4, <1>5, <2>1 DEF Scanning!Batch
<1>6. CASE ~(Scanning!End <= Scanning!Size)
  <2>1. next..(Scanning!Size - 1) \subseteq 0..(Scanning!Size - 1)
    BY <1>1
  <2>2. 0..((Scanning!End % Scanning!Size) - 1) \subseteq 0..(Scanning!Size - 1)
    BY <1>1, <1>3
  <2> QED
    BY <1>3, <1>4, <1>6, <2>1, <2>2 DEF Scanning!Batch
<1> QED
  BY <1>5, <1>6

LEMMA ScannerInit == Scanning!Init => ScannerInv
<1> SUFFICES ASSUME Scanning!Init PROVE ScannerInv
  OBVIOUS
<1>1. Scanning!Size \in Nat \ {0}
  BY ScannerAssumption, EmptySeq DEF Scanning!Size
<1>2. AllBacked(Scanning!None, <<>>)
  BY EmptySeq DEF AllBacked, Scanning!None, Logs
<1> QED
  BY <1>1, <1>2 DEF Scanning!Init, ScannerInv

(* A scan of the gappers, completed or not, with what the history keeps.   *)
LEMMA GappersStep ==
  ASSUME ScannerInv, NEW gapScores, Scanning!ScanGappers(gapScores),
         scanningGaps'
           = (IF Scanning!HasGappers THEN Append(scanningGaps, Scanning!Gapped(gapScores))
             ELSE scanningGaps)
  PROVE  next' \in 0..(Scanning!Size - 1) /\ AllBacked(scanningGapping', scanningGaps')
<1>1. Scanning!Batch \subseteq Scanning!Symbols /\ next' \in 0..(Scanning!Size - 1)
  BY BatchIsKnown DEF ScannerInv, Scanning!ScanGappers
<1>2. AllBacked(Scanning!Kept(scanningGapping), scanningGaps)
  BY NoneIsBacked DEF ScannerInv
<1>3. Scanning!Gapped(gapScores) \in Sightings
  BY <1>1 DEF Scanning!Gapped, Sightings
<1>4. CASE Scanning!HasGappers
  <2>1. scanningGapping'
          = Scanning!Counted(Scanning!Kept(scanningGapping), Scanning!Gapped(gapScores))
        /\ scanningGaps' = Append(scanningGaps, Scanning!Gapped(gapScores))
    BY <1>4 DEF Scanning!ScanGappers
  <2> QED
    BY <1>1, <1>2, <1>3, <2>1, CountedIsBacked
<1>5. CASE ~Scanning!HasGappers
  BY <1>1, <1>2, <1>5 DEF Scanning!ScanGappers
<1> QED
  BY <1>4, <1>5

LEMMA ScanStep ==
  ASSUME ScannerInv, NEW scores, NEW gapScores, Scanning!ScanOnce(scores, gapScores)
  PROVE  /\ ScannerInv'
         /\ \A s \in ready' :
              Scanning!Earned(scanningFound', s) \/ Scanning!Earned(scanningGaps', s)
<1> DEFINE hits == {s \in Scanning!Batch : scores[s] > 0}
<1>1. /\ Scanning!ScanGappers(gapScores)
      /\ persistence' = Scanning!Counted(persistence, hits)
         /\ scanningFound' = Append(scanningFound, hits)
      /\ scanningGaps'
           = (IF Scanning!HasGappers THEN Append(scanningGaps, Scanning!Gapped(gapScores))
             ELSE scanningGaps)
      /\ \A s \in ready' : \/ s \in hits /\ persistence'[s] >= MinPersistence
                           \/ s \in Scanning!Symbols /\ scanningGapping'[s] >= MinPersistence
  BY DEF Scanning!ScanOnce
<1>2. next' \in 0..(Scanning!Size - 1) /\ AllBacked(scanningGapping', scanningGaps')
  BY <1>1, GappersStep
<1>3. hits \in Sightings
  BY BatchIsKnown DEF ScannerInv, Sightings
<1> HIDE DEF hits
<1>4. AllBacked(persistence', scanningFound')
  BY <1>1, <1>3, CountedIsBacked DEF ScannerInv
<1>5. ScannerInv'
  BY <1>2, <1>4 DEF ScannerInv, Scanning!Size
<1>6. ASSUME NEW counts, NEW log, AllBacked(counts, log), NEW s \in Scanning!Symbols,
             counts[s] >= MinPersistence
      PROVE  Scanning!Earned(log, s)
  <2>1. counts[s] \in Nat /\ log \in Logs
    BY <1>6 DEF AllBacked
  <2>2. PICK k \in DOMAIN log : 2 * Scanning!Hits(log, s, k) - (Len(log) - k + 1) >= counts[s]
    BY <1>6, <2>1, ScannerAssumption DEF AllBacked, Backed
  <2>3. Scanning!Hits(log, s, k) \in Nat /\ k \in Nat /\ Len(log) \in Nat
    <3>1. k \in Nat /\ Len(log) \in Nat /\ k \in 1..(Len(log) + 1)
      BY <2>1 DEF Logs
    <3>2. {} \in Sightings
      BY DEF Sightings
    <3> QED
      BY <2>1, <3>1, <3>2, HitsGrow
  <2>4. 2 * Scanning!Hits(log, s, k) - (Len(log) - k + 1) >= MinPersistence
    BY <1>6, <2>1, <2>2, <2>3, ScannerAssumption
  <2> QED
    BY <2>4 DEF Scanning!Earned
<1>7. ASSUME NEW s \in ready'
      PROVE Scanning!Earned(scanningFound', s) \/ Scanning!Earned(scanningGaps', s)
  <2>1. CASE s \in hits /\ persistence'[s] >= MinPersistence
    BY <1>3, <1>4, <1>6, <2>1 DEF Sightings
  <2>2. CASE s \in Scanning!Symbols /\ scanningGapping'[s] >= MinPersistence
    BY <1>2, <1>6, <2>2
  <2> QED
    BY <1>1, <2>1, <2>2
<1> QED
  BY <1>5, <1>7

LEMMA ScannerStep ==
  ASSUME ScannerInv, [Scanning!Next]_scanningVars
  PROVE  /\ ScannerInv'
         /\ scanningFound' # scanningFound
              => \A s \in ready' :
                Scanning!Earned(scanningFound', s) \/ Scanning!Earned(scanningGaps', s)
<1> USE DEF Scanning!market, Scanning!memory, Scanning!history
<1>1. CASE Scanning!SessionEnds \/ UNCHANGED scanningVars
           \/ \E m \in {"AUTO", "PREPOST"} : Scanning!SetSessionMode(m)
  <2>1. UNCHANGED <<next, persistence, scanningGapping, scanningFound, scanningGaps>>
    BY <1>1 DEF Scanning!SessionEnds, Scanning!SetSessionMode, scanningVars
  <2> QED
    BY <2>1 DEF ScannerInv
<1>2. CASE Scanning!ClearState
  <2>1. persistence' = Scanning!None /\ scanningGapping' = Scanning!None
        /\ UNCHANGED <<next, scanningFound, scanningGaps>>
    BY <1>2 DEF Scanning!ClearState
  <2>2. AllBacked(Scanning!None, scanningFound) /\ AllBacked(Scanning!None, scanningGaps)
    BY NoneIsBacked DEF ScannerInv
  <2> QED
    BY <2>1, <2>2 DEF ScannerInv
<1>3. ASSUME NEW scores, NEW gapScores, Scanning!ScanOnce(scores, gapScores)
      PROVE  /\ ScannerInv'
             /\ \A s \in ready' :
                  Scanning!Earned(scanningFound', s) \/ Scanning!Earned(scanningGaps', s)
  BY <1>3, ScanStep
<1>4. ASSUME NEW after \in BOOLEAN, NEW gapScores, Scanning!ScanRaises(after, gapScores)
      PROVE  ScannerInv' /\ scanningFound' = scanningFound
  <2>1. persistence' = persistence /\ scanningFound' = scanningFound
    BY <1>4 DEF Scanning!ScanRaises
  <2>2. CASE after
    <3>1. next' \in 0..(Scanning!Size - 1) /\ AllBacked(scanningGapping', scanningGaps')
      BY <1>4, <2>2, GappersStep DEF Scanning!ScanRaises
    <3> QED
      BY <2>1, <3>1 DEF ScannerInv, Scanning!Size
  <2>3. CASE ~after
    <3>1. next' = Scanning!End % Scanning!Size
          /\ scanningGapping' = Scanning!Kept(scanningGapping) /\ scanningGaps' = scanningGaps
      BY <1>4, <2>3 DEF Scanning!ScanRaises
    <3>2. next' \in 0..(Scanning!Size - 1) /\ AllBacked(scanningGapping', scanningGaps')
      BY <3>1, NoneIsBacked, BatchIsKnown DEF ScannerInv
    <3> QED
      BY <2>1, <3>2 DEF ScannerInv, Scanning!Size
  <2> QED
    BY <2>2, <2>3
<1>5. CASE Scanning!Next
  BY <1>1, <1>2, <1>3, <1>4, <1>5 DEF Scanning!Next
<1> QED
  BY <1>1, <1>5

(* For any universe, batch size and persistence: a symbol that a scan tags *)
(* READY was seen more often than missed, by the persistence asked for, by *)
(* the last scans of A+ setups or of gappers.                              *)
THEOREM Readiness == MCSpec => ReadyIsEarned
<1>1. MCInit => ScannerInv
  BY Begins, ScannerInit
<1>2. ScannerInv /\ [MCNext]_allVars => ScannerInv'
  BY Moves, ScannerStep
<1>3. ScannerInv /\ [MCNext]_allVars
        => [scanningFound' # scanningFound
              => \A s \in ready' :
                   Scanning!Earned(scanningFound', s)
                     \/ Scanning!Earned(scanningGaps', s)]_(Scanning!vars)
  BY Moves, ScannerStep
<1> QED
  BY <1>1, <1>2, <1>3, PTL DEF MCSpec, ReadyIsEarned, Scanning!ReadyIsEarned

-----------------------------------------------------------------------------
(* Watchlist.  As in Scanner a counter is backed by the last scans, from   *)
(* one of them on (AllLast); a label is given when its counter is at the   *)
(* persistence, and what earned it stays in the history (EarnedStays) that *)
(* a reset forgets together with the labels.                               *)

ScanLogs == Seq(SUBSET Listing!Symbols)

(* The scans that back a counter: the last ones, from one of them on.      *)
LastsSince(log, s, n) ==
  \E k \in DOMAIN log : 2 * Listing!Hits(log, s, k, Len(log)) - (Len(log) - k + 1) >= n

AllLast(counts, log) ==
  /\ counts \in [Listing!Symbols -> Nat] /\ log \in ScanLogs
  /\ \A s \in Listing!Symbols : counts[s] = 0 \/ LastsSince(log, s, counts[s])

LabelsEarned == \A s \in Listing!Symbols : listingBest[s] # Listing!NoRow /\ listingBest[s].top
=> Listing!Earned(listingGaps, s)

CandidatesEarned == listingFound # <<>>
  => \A c \in shown[2] : c.top => Listing!Earned(listingFound, c.symbol)

PauseGrows ==
  /\ backoff \in Nat /\ limited \in Nat
  /\ backoff >= Listing!MinOf(limited * BackoffStep, BackoffMax)

ListingInv ==
  /\ AllLast(listingGapping, listingGaps) /\ AllLast(lasting, listingFound)
  /\ LabelsEarned /\ CandidatesEarned /\ PauseGrows

(* One more scan: a hit adds one to the scans that saw the symbol.         *)
LEMMA OneMoreScan ==
  ASSUME NEW log \in ScanLogs, NEW seen \in SUBSET Listing!Symbols, NEW s \in Listing!Symbols,
         NEW k \in 1..(Len(log) + 1)
  PROVE  /\ Listing!Hits(log, s, k, Len(log)) \in Nat
         /\ Listing!Hits(Append(log, seen), s, k, Len(log) + 1)
              = Listing!Hits(log, s, k, Len(log)) + (IF s \in seen THEN 1 ELSE 0)
         /\ \A j \in 1..Len(log) :
              Listing!Hits(Append(log, seen), s, k, j) = Listing!Hits(log, s, k, j)
<1> DEFINE n == Len(log)
           old == {i \in k..n : s \in log[i]}
           new == {i \in k..(n + 1) : s \in Append(log, seen)[i]}
<1>1. n \in Nat /\ k \in Nat /\ k >= 1
  BY DEF ScanLogs
<1>2. /\ \A i \in 1..n : Append(log, seen)[i] = log[i]
      /\ Append(log, seen)[n + 1] = seen
  BY AppendProperties DEF ScanLogs
<1>3. IsFiniteSet(old) /\ Cardinality(old) \in Nat
  <2>1. IsFiniteSet(k..n)
    BY <1>1, FS_Interval
  <2>2. old \subseteq k..n
    OBVIOUS
  <2> QED
    BY <2>1, <2>2, FS_Subset, FS_CardinalityType
<1>4. n + 1 \notin old
  BY <1>1
<1>5. new = IF s \in seen THEN old \cup {n + 1} ELSE old
  <2>1. \A i : i \in k..(n + 1) <=> i \in k..n \/ i = n + 1
    BY <1>1
  <2>2. \A i \in k..n : i \in 1..n
    BY <1>1
  <2> QED
    BY <1>2, <2>1, <2>2
<1>6. Cardinality(new) = Cardinality(old) + (IF s \in seen THEN 1 ELSE 0)
  <2> HIDE DEF old, new
  <2>1. Cardinality(old \cup {n + 1}) = Cardinality(old) + 1
    BY <1>3, <1>4, FS_AddElement
  <2> QED
    BY <1>3, <1>5, <2>1
<1>7. /\ Listing!Hits(log, s, k, n) = Cardinality(old)
      /\ Listing!Hits(Append(log, seen), s, k, n + 1) = Cardinality(new)
  <2>1. \A S : Listing!Cardinality(S) = Cardinality(S)
    BY DEF Listing!Cardinality, Cardinality
  <2> QED
    BY <2>1 DEF Listing!Hits
<1>8. ASSUME NEW j \in 1..n
      PROVE  Listing!Hits(Append(log, seen), s, k, j) = Listing!Hits(log, s, k, j)
  <2>1. \A i \in k..j : i \in 1..n
    BY <1>1
  <2>2. {i \in k..j : s \in Append(log, seen)[i]} = {i \in k..j : s \in log[i]}
    BY <1>2, <2>1
  <2> QED
    BY <2>2 DEF Listing!Hits
<1> HIDE DEF old, new
<1> QED
  BY <1>3, <1>6, <1>7, <1>8

(* What was earned stays earned.                                           *)
LEMMA EarnedStays ==
  ASSUME NEW log \in ScanLogs, NEW seen \in SUBSET Listing!Symbols, NEW s \in Listing!Symbols,
         Listing!Earned(log, s)
  PROVE  Listing!Earned(Append(log, seen), s)
<1>1. /\ Len(log) \in Nat /\ DOMAIN log = 1..Len(log)
      /\ DOMAIN Append(log, seen) = 1..(Len(log) + 1)
  BY AppendProperties DEF ScanLogs
<1>0. PICK j \in 1..Len(log) :
             \E i \in 1..j : 2 * Listing!Hits(log, s, i, j) - (j - i + 1) >= LabelPersistence
  BY <1>1 DEF Listing!Earned
<1>2. PICK i \in 1..j : 2 * Listing!Hits(log, s, i, j) - (j - i + 1) >= LabelPersistence
  BY <1>0
<1>3. i \in 1..(Len(log) + 1) /\ j \in 1..(Len(log) + 1)
  BY <1>1
<1>4. Listing!Hits(Append(log, seen), s, i, j) = Listing!Hits(log, s, i, j)
  BY <1>2, <1>3, OneMoreScan
<1> QED
  BY <1>1, <1>2, <1>3, <1>4 DEF Listing!Earned

(* The counters of persistence: one up, or one down to no entry.           *)
LEMMA CountedLasts ==
  ASSUME NEW counts, NEW log, AllLast(counts, log), NEW seen \in SUBSET Listing!Symbols
  PROVE  AllLast(Listing!Counted(counts, seen), Append(log, seen))
<1> DEFINE n == Len(log)
           later == Append(log, seen)
<1>1. counts \in [Listing!Symbols -> Nat] /\ log \in ScanLogs /\ n \in Nat /\ DOMAIN log = 1..n
  BY DEF AllLast, ScanLogs
<1>2. later \in ScanLogs /\ Len(later) = n + 1 /\ DOMAIN later = 1..(n + 1)
  BY <1>1 DEF ScanLogs
<1>3. \A s \in Listing!Symbols : \A k \in 1..(n + 1) :
        /\ Listing!Hits(later, s, k, n + 1)
             = Listing!Hits(log, s, k, n) + (IF s \in seen THEN 1 ELSE 0)
        /\ Listing!Hits(log, s, k, n) \in Nat
  BY <1>1, OneMoreScan
<1> HIDE DEF later, n
<1>4. Listing!Counted(counts, seen) \in [Listing!Symbols -> Nat]
  <2> SUFFICES ASSUME NEW s \in Listing!Symbols
               PROVE  (IF s \in seen THEN counts[s] + 1
                       ELSE IF counts[s] > 0 THEN counts[s] - 1 ELSE 0) \in Nat
    BY DEF Listing!Counted
  <2>1. counts[s] \in Nat
    BY <1>1
  <2> QED
    BY <2>1
<1>5. ASSUME NEW s \in Listing!Symbols
      PROVE  Listing!Counted(counts, seen)[s] = 0
             \/ LastsSince(later, s, Listing!Counted(counts, seen)[s])
  <2>1. /\ Listing!Counted(counts, seen)[s] =
             (IF s \in seen THEN counts[s] + 1 ELSE IF counts[s] > 0 THEN counts[s] - 1 ELSE 0)
        /\ counts[s] \in Nat
    BY <1>1 DEF Listing!Counted
  <2>2. CASE counts[s] = 0 /\ s \in seen
    <3>1. n + 1 \in 1..(n + 1)
      BY <1>1
    <3>2. Listing!Hits(later, s, n + 1, n + 1) = Listing!Hits(log, s, n + 1, n) + 1
          /\ Listing!Hits(log, s, n + 1, n) \in Nat
      BY <1>3, <2>2, <3>1
    <3>3. 2 * Listing!Hits(later, s, n + 1, n + 1) - ((n + 1) - (n + 1) + 1) >= 1
      BY <1>1, <3>2
    <3>4. Listing!Counted(counts, seen)[s] = 1
      BY <2>1, <2>2
    <3> QED
      BY <1>2, <3>1, <3>3, <3>4 DEF LastsSince
  <2>3. CASE counts[s] # 0
    <3>1. PICK k \in 1..n : 2 * Listing!Hits(log, s, k, n) - (n - k + 1) >= counts[s]
      BY <1>1, <2>3 DEF AllLast, LastsSince, n
    <3>2. k \in 1..(n + 1) /\ k \in Nat
      BY <1>1
    <3>3. /\ Listing!Hits(later, s, k, n + 1)
               = Listing!Hits(log, s, k, n) + (IF s \in seen THEN 1 ELSE 0)
          /\ Listing!Hits(log, s, k, n) \in Nat
      BY <1>3, <3>2
    <3>4. Listing!Counted(counts, seen)[s] = IF s \in seen THEN counts[s] + 1 ELSE counts[s] - 1
      BY <2>1, <2>3
    <3>5. 2 * Listing!Hits(later, s, k, n + 1) - ((n + 1) - k + 1) >= Listing!Counted(counts,
            seen)[s]
      <4>1. CASE s \in seen
        BY <1>1, <2>1, <3>1, <3>2, <3>3, <3>4, <4>1
      <4>2. CASE s \notin seen
        BY <1>1, <2>1, <3>1, <3>2, <3>3, <3>4, <4>2
      <4> QED
        BY <4>1, <4>2
    <3> QED
      BY <1>2, <3>2, <3>5 DEF LastsSince
  <2>4. CASE counts[s] = 0 /\ s \notin seen
    BY <2>1, <2>4
  <2> QED
    BY <2>2, <2>3, <2>4
<1> QED
  BY <1>2, <1>4, <1>5 DEF AllLast, later

(* A counter at the persistence was earned.                                *)
LEMMA CountIsEarned ==
  ASSUME NEW counts, NEW log, AllLast(counts, log), NEW s \in Listing!Symbols,
         counts[s] >= LabelPersistence
  PROVE  Listing!Earned(log, s)
<1>1. counts[s] \in Nat /\ log \in ScanLogs /\ Len(log) \in Nat /\ DOMAIN log = 1..Len(log)
  BY DEF AllLast, ScanLogs
<1>2. PICK k \in 1..Len(log) :
             2 * Listing!Hits(log, s, k, Len(log)) - (Len(log) - k + 1) >= counts[s]
  BY <1>1, ListingAssumption DEF AllLast, LastsSince
<1>3. Listing!Hits(log, s, k, Len(log)) \in Nat
  <2>1. k \in 1..(Len(log) + 1) /\ {} \in SUBSET Listing!Symbols
    BY <1>1
  <2> QED
    BY <1>1, <2>1, OneMoreScan
<1>4. 2 * Listing!Hits(log, s, k, Len(log)) - (Len(log) - k + 1) >= LabelPersistence
  BY <1>1, <1>2, <1>3, ListingAssumption
<1>5. Len(log) \in DOMAIN log /\ k \in 1..Len(log)
  BY <1>1
<1> QED
  BY <1>4, <1>5 DEF Listing!Earned

LEMMA NoneLasts == AllLast(Listing!None, <<>>)
  BY EmptySeq DEF AllLast, Listing!None, ScanLogs

LEMMA ListingInit == Listing!Init => ListingInv
<1> SUFFICES ASSUME Listing!Init PROVE ListingInv
  OBVIOUS
<1>1. AllLast(listingGapping, listingGaps) /\ AllLast(lasting, listingFound)
  BY NoneLasts DEF Listing!Init
<1>2. LabelsEarned /\ CandidatesEarned
  BY DEF Listing!Init, LabelsEarned, CandidatesEarned, Listing!Nothing
<1>3. PauseGrows
  BY ListingAssumption DEF Listing!Init, PauseGrows, Listing!MinOf
<1> QED
  BY <1>1, <1>2, <1>3 DEF ListingInv

(* What a scan keeps of the gappers of the day.                            *)
LEMMA KeptOfToday ==
  ASSUME ListingInv
  PROVE  /\ AllLast(Listing!Kept(listingGapping, Listing!None), Listing!GapsToday)
            /\ Listing!GapsToday \in ScanLogs
         /\ \A s \in Listing!Symbols : LET row == Listing!Kept(listingBest, Listing!Nothing)[s] IN
              row # Listing!NoRow /\ row.top => Listing!Earned(Listing!GapsToday, s)
<1>1. CASE today = listingResetDay
  BY <1>1 DEF ListingInv, LabelsEarned, Listing!Kept, Listing!GapsToday, AllLast
<1>2. CASE today # listingResetDay
  BY <1>2, NoneLasts DEF Listing!Kept, Listing!GapsToday, AllLast, Listing!Nothing
<1> QED
  BY <1>1, <1>2

LEMMA FindsAre ==
  ASSUME NEW set, NEW max, NEW x \in Listing!Finds(set, max)
  PROVE  x \subseteq set
BY DEF Listing!Finds, Listing!kSubset

(* The gappers of a scan: a label is given at the persistence only.        *)
LEMMA GappersKept ==
  ASSUME ListingInv, NEW gapRows \in Listing!GapperFinds, Listing!ScanGappers(gapRows)
  PROVE  AllLast(listingGapping', listingGaps') /\ LabelsEarned'
<1>1. CASE ~Listing!HasGappers
  BY <1>1, KeptOfToday DEF Listing!ScanGappers, LabelsEarned
<1>2. CASE Listing!HasGappers
  <2>1. gapRows \subseteq Listing!AllGappers
    BY <1>2, FindsAre DEF Listing!GapperFinds
  <2>2. Listing!Seen(gapRows) \in SUBSET Listing!Symbols
    BY <2>1 DEF Listing!Seen, Listing!AllGappers, Listing!Gapper
  <2>3. /\ listingGapping'
             = Listing!Counted(Listing!Kept(listingGapping, Listing!None), Listing!Seen(gapRows))
        /\ listingGaps' = Append(Listing!GapsToday, Listing!Seen(gapRows))
        /\ listingBest' = Listing!AnnotateGappers(gapRows, listingGapping')
    BY <1>2 DEF Listing!ScanGappers
  <2>4. AllLast(listingGapping', listingGaps')
    BY <2>2, <2>3, CountedLasts, KeptOfToday
  <2>5. ASSUME NEW s \in Listing!Symbols, listingBest'[s] # Listing!NoRow, listingBest'[s].top
        PROVE  Listing!Earned(listingGaps', s)
    <3> DEFINE old == Listing!Kept(listingBest, Listing!Nothing)[s]
               g == Listing!NewBest(gapRows)[s]
    <3>1. listingBest'[s] = IF g # old
            THEN [g EXCEPT !.top = Listing!IsGapPlus(g, listingGapping'[s])] ELSE g
      BY <2>3 DEF Listing!AnnotateGappers, Listing!Fresh
    <3>2. CASE g = old
      <4>1. Listing!Earned(Listing!GapsToday, s)
        BY <2>5, <3>1, <3>2, KeptOfToday
      <4> QED
        BY <2>2, <2>3, <4>1, EarnedStays, KeptOfToday
    <3>3. CASE g # old
      <4>1. g \in gapRows
        BY <3>3 DEF Listing!NewBest
      <4>2. [g EXCEPT !.top = Listing!IsGapPlus(g, listingGapping'[s])].top
              = Listing!IsGapPlus(g, listingGapping'[s])
        BY <2>1, <4>1 DEF Listing!AllGappers, Listing!Gapper
      <4>3. listingGapping'[s] >= LabelPersistence
        BY <2>5, <3>1, <3>3, <4>2 DEF Listing!IsGapPlus
      <4> QED
        BY <2>4, <4>3, CountIsEarned
    <3> QED
      BY <3>2, <3>3
  <2> QED
    BY <2>4, <2>5 DEF LabelsEarned
<1> QED
  BY <1>1, <1>2

(* The candidates of a scan.                                               *)
LEMMA CandidatesKept ==
  ASSUME ListingInv, NEW max, NEW rows \in Listing!Finds(Listing!AllCandidates, max),
         Listing!Labelled(rows)
  PROVE  AllLast(lasting', listingFound') /\ CandidatesEarned'
<1>1. rows \subseteq Listing!AllCandidates
  BY FindsAre
<1>2. Listing!Seen(rows) \in SUBSET Listing!Symbols
  BY <1>1 DEF Listing!Seen, Listing!AllCandidates, Listing!Candidate
<1>3. /\ lasting' = Listing!Counted(lasting, Listing!Seen(rows))
         /\ listingFound' = Append(listingFound, Listing!Seen(rows))
      /\ shown'[2] = Listing!AnnotateCandidates(rows, lasting')
  BY DEF Listing!Labelled
<1>4. AllLast(lasting', listingFound')
  BY <1>2, <1>3, CountedLasts DEF ListingInv
<1>5. ASSUME NEW c \in rows,
             [c EXCEPT !.top = Listing!IsAPlus(c, lasting'[c.symbol])].top
      PROVE  Listing!Earned(listingFound',
               [c EXCEPT !.top = Listing!IsAPlus(c, lasting'[c.symbol])].symbol)
  <2>1. /\ c.symbol \in Listing!Symbols
        /\ [c EXCEPT !.top = Listing!IsAPlus(c, lasting'[c.symbol])].top
             = Listing!IsAPlus(c, lasting'[c.symbol])
        /\ [c EXCEPT !.top = Listing!IsAPlus(c, lasting'[c.symbol])].symbol = c.symbol
    BY <1>1 DEF Listing!AllCandidates, Listing!Candidate
  <2>2. lasting'[c.symbol] >= LabelPersistence
    BY <1>5, <2>1 DEF Listing!IsAPlus
  <2> QED
    BY <1>4, <2>1, <2>2, CountIsEarned
<1>6. CandidatesEarned'
  BY <1>3, <1>5 DEF CandidatesEarned, Listing!AnnotateCandidates
<1> QED
  BY <1>4, <1>6

(* A pause after one more rate limit is long enough for it.                *)
LEMMA PauseStep ==
  ASSUME PauseGrows, NEW byLoop, NEW rateLimit,
         Listing!Rested(byLoop) \/ Listing!Raised(byLoop, rateLimit)
  PROVE  PauseGrows'
<1>1. /\ backoff \in Nat /\ limited \in Nat /\ BackoffStep \in Nat /\ BackoffMax \in Nat
      /\ backoff >= Listing!MinOf(limited * BackoffStep, BackoffMax)
  BY ListingAssumption DEF PauseGrows
<1>2. CASE UNCHANGED <<backoff, limited>>
  BY <1>2 DEF PauseGrows
<1>3. CASE backoff' = 0 /\ limited' = 0
  BY <1>1, <1>3 DEF PauseGrows, Listing!MinOf
<1>4. CASE backoff' = Listing!Increased /\ limited' = limited + 1
  <2>1. PICK product \in Nat : product = limited * BackoffStep
    BY <1>1
  <2>2. (limited + 1) * BackoffStep = product + BackoffStep
    BY <1>1, <2>1
  <2>3. Listing!Half(backoff) \in Nat
    BY <1>1 DEF Listing!Half
  <2>4. backoff <= 0 => product = 0 \/ BackoffMax = 0
    BY <1>1, <2>1 DEF Listing!MinOf
  <2>5. Listing!Increased \in Nat
        /\ Listing!Increased >= Listing!MinOf(product + BackoffStep, BackoffMax)
    <3>1. CASE backoff <= 0
      BY <1>1, <2>4, <3>1 DEF Listing!Increased, Listing!MinOf
    <3>2. CASE ~(backoff <= 0)
      BY <1>1, <2>1, <2>3, <3>2 DEF Listing!Increased, Listing!MinOf, Listing!MaxOf
    <3> QED
      BY <3>1, <3>2
  <2> QED
    BY <1>1, <1>4, <2>2, <2>5 DEF PauseGrows
<1> QED
  BY <1>2, <1>3, <1>4 DEF Listing!Rested, Listing!Raised

LEMMA ListingStep == ListingInv /\ [Listing!Next]_listingVars => ListingInv'
<1> SUFFICES ASSUME ListingInv, [Listing!Next]_listingVars PROVE ListingInv'
  OBVIOUS
<1>1. CASE Listing!Export \/ UNCHANGED listingVars
           \/ \E s \in {"PRE", "REG", "CLOSED"} : Listing!SessionChanges(s)
  <2>1. UNCHANGED <<listingBest, lasting, listingGapping, shown, backoff, listingFound,
          listingGaps, limited>>
    BY <1>1 DEF Listing!Export, Listing!SessionChanges, listingVars
  <2> QED
    BY <2>1 DEF ListingInv, LabelsEarned, CandidatesEarned, PauseGrows
<1>2. CASE Listing!ClearState
  <2>1. AllLast(listingGapping', listingGaps') /\ AllLast(lasting', listingFound')
    BY <1>2, NoneLasts DEF Listing!ClearState
  <2>2. LabelsEarned' /\ CandidatesEarned'
    BY <1>2 DEF Listing!ClearState, LabelsEarned, CandidatesEarned, Listing!Nothing
  <2>3. PauseGrows'
    BY <1>2, ListingAssumption DEF Listing!ClearState, PauseGrows, Listing!MinOf
  <2> QED
    BY <2>1, <2>2, <2>3 DEF ListingInv
<1>3. ASSUME NEW g \in Listing!GapperFinds, NEW byLoop \in BOOLEAN, NEW max,
             NEW c \in Listing!Finds(Listing!AllCandidates, max), Listing!ScanOnce(g, c, byLoop)
             \/ Listing!ExportRaises(g, c, byLoop)
      PROVE  ListingInv'
  <2>1. Listing!ScanGappers(g) /\ Listing!Labelled(c)
        /\ (Listing!Rested(byLoop) \/ Listing!Raised(byLoop, FALSE))
    BY <1>3 DEF Listing!ScanOnce, Listing!ExportRaises
  <2>2. AllLast(listingGapping', listingGaps') /\ LabelsEarned'
    BY <2>1, GappersKept
  <2>3. AllLast(lasting', listingFound') /\ CandidatesEarned'
    BY <2>1, CandidatesKept
  <2>4. PauseGrows'
    BY <2>1, PauseStep DEF ListingInv
  <2> QED
    BY <2>2, <2>3, <2>4 DEF ListingInv
<1>4. ASSUME NEW g \in Listing!GapperFinds, NEW byLoop \in BOOLEAN, NEW after, NEW rateLimit,
             Listing!FetchRaises(g, after, byLoop, rateLimit)
      PROVE  ListingInv'
  <2>1. Listing!Raised(byLoop, rateLimit) /\ UNCHANGED <<lasting, listingFound, shown>>
    BY <1>4 DEF Listing!FetchRaises
  <2>2. AllLast(listingGapping', listingGaps') /\ LabelsEarned'
    <3>1. CASE after
      BY <1>4, <3>1, GappersKept DEF Listing!FetchRaises
    <3>2. CASE ~after
      BY <1>4, <3>2, KeptOfToday DEF Listing!FetchRaises, LabelsEarned
    <3> QED
      BY <3>1, <3>2
  <2>3. AllLast(lasting', listingFound') /\ CandidatesEarned'
    BY <2>1 DEF ListingInv, CandidatesEarned
  <2>4. PauseGrows'
    BY <2>1, PauseStep DEF ListingInv
  <2> QED
    BY <2>2, <2>3, <2>4 DEF ListingInv
<1>5. CASE Listing!Next
  BY <1>1, <1>2, <1>3, <1>4, <1>5 DEF Listing!Next
<1> QED
  BY <1>1, <1>5

(* For any universe, rows found, persistence and backoff: a label was      *)
(* earned by a run of scans since the last reset, and each of the failing  *)
(* scans in a row that met the rate limit made the pause longer, up to its *)
(* maximum.                                                                *)
THEOREM Labels == MCSpec => []LabelsAndPausesAreEarned
<1>1. MCInit => ListingInv
  BY Begins, ListingInit
<1>2. ListingInv /\ [MCNext]_allVars => ListingInv'
  BY Moves, ListingStep
<1>3. ListingInv => LabelsAndPausesAreEarned
  BY DEF ListingInv, LabelsEarned, CandidatesEarned, PauseGrows, LabelsAndPausesAreEarned,
         Listing!LabelsAndPausesAreEarned
<1> QED
  BY <1>1, <1>2, <1>3, PTL DEF MCSpec

-----------------------------------------------------------------------------
(* Sums.  The models add the numbers of a set with a fold, which takes its *)
(* elements in an order nobody knows; the sum is the same in any.          *)

(* What a fold over a set computes, subset by subset.                      *)
Any(S) == CHOOSE x \in S : TRUE
IsSum(g, f, S) ==
  g = [s \in SUBSET S |-> IF s = {} THEN 0 ELSE f[Any(s)] + g[s \ {Any(s)}]]
SumOf(f, S) == (CHOOSE g : IsSum(g, f, S))[S]

(* The naturals by induction, about a set of them.                         *)
LEMMA EveryNumber ==
  ASSUME NEW T, 0 \in T, \A n \in Nat : n \in T => n + 1 \in T
  PROVE  \A n \in Nat : n \in T
<1> DEFINE others == {n \in Nat : n \notin T}
<1> SUFFICES ASSUME others # {} PROVE FALSE
  OBVIOUS
<1>1. \E n \in others : \A m \in others : <<m, n>> \notin OpToRel(<, Nat)
  <2>1. others \subseteq Nat
    OBVIOUS
  <2> HIDE DEF others
  <2> QED
    BY <2>1, NatLessThanWellFounded, WFMin
<1>2. PICK n \in others : \A m \in others : <<m, n>> \notin OpToRel(<, Nat)
  BY <1>1
<1>3. n \in Nat /\ n # 0 /\ n - 1 \in Nat /\ n - 1 < n
  OBVIOUS
<1>4. n - 1 \notin others
  BY <1>2, <1>3 DEF OpToRel
<1> QED
  BY <1>3, <1>4

(* One element less.                                                       *)
LEMMA OneLess ==
  ASSUME NEW S, IsFiniteSet(S), NEW x \in S
  PROVE  /\ IsFiniteSet(S \ {x}) /\ Cardinality(S) \in Nat \ {0}
         /\ Cardinality(S \ {x}) = Cardinality(S) - 1
<1>1. Cardinality(S) \in Nat /\ Cardinality(S) # 0
  BY FS_CardinalityType, FS_EmptySet
<1> QED
  BY <1>1, FS_RemoveElement

LEMMA AnyIsIn == \A S : S # {} => Any(S) \in S
  BY DEF Any

LEMMA SumExists ==
  ASSUME NEW S, IsFiniteSet(S), NEW f, \A x \in S : f[x] \in Int
  PROVE  \E g \in [SUBSET S -> Int] : IsSum(g, f, S)
<1> DEFINE Small(n) == {s \in SUBSET S : Cardinality(s) <= n}
           Rule(g, s) == IF s = {} THEN 0 ELSE f[Any(s)] + g[s \ {Any(s)}]
           Upto(n, g) == g \in [Small(n) -> Int] /\ \A s \in Small(n) : g[s] = Rule(g, s)
           T == {n \in Nat : \E g : Upto(n, g)}
<1>1. \A s \in SUBSET S : IsFiniteSet(s) /\ Cardinality(s) \in Nat
  BY FS_Subset, FS_CardinalityType
<1>2. ASSUME NEW s \in SUBSET S, s # {}
      PROVE  /\ Any(s) \in S /\ f[Any(s)] \in Int
             /\ s \ {Any(s)} \in SUBSET S /\ Cardinality(s \ {Any(s)}) = Cardinality(s) - 1
  BY <1>1, <1>2, AnyIsIn, OneLess
<1>3. 0 \in T
  <2> DEFINE g == [s \in Small(0) |-> 0]
  <2>1. \A s \in Small(0) : s = {}
    <3> SUFFICES ASSUME NEW s \in Small(0) PROVE s = {}
      OBVIOUS
    <3>1. Cardinality(s) = 0 /\ IsFiniteSet(s)
      BY <1>1
    <3> QED
      BY <3>1, FS_EmptySet
  <2>2. Upto(0, g)
    BY <2>1
  <2> QED
    BY <2>2
<1>4. ASSUME NEW n \in Nat, n \in T PROVE n + 1 \in T
  <2>1. PICK g : Upto(n, g)
    BY <1>4
  <2> DEFINE h == [s \in Small(n + 1) |-> Rule(g, s)]
  <2>2. ASSUME NEW s \in Small(n + 1), s # {}
        PROVE  s \ {Any(s)} \in Small(n) /\ s \ {Any(s)} \in Small(n + 1) /\ f[Any(s)] \in Int
    BY <1>1, <1>2, <2>2
  <2>3. h \in [Small(n + 1) -> Int]
    <3> SUFFICES ASSUME NEW s \in Small(n + 1) PROVE Rule(g, s) \in Int
      BY Zenon
    <3>1. CASE s = {}
      BY <3>1
    <3>2. CASE s # {}
      <4>1. g[s \ {Any(s)}] \in Int
        BY <2>1, <2>2, <3>2
      <4> QED
        BY <2>2, <3>2, <4>1
    <3> QED
      BY <3>1, <3>2
  <2>4. ASSUME NEW s \in Small(n) PROVE h[s] = g[s]
    <3>1. s \in Small(n + 1)
      BY <1>1
    <3> QED
      BY <2>1, <3>1
  <2>5. ASSUME NEW s \in Small(n + 1) PROVE h[s] = Rule(h, s)
    BY <2>2, <2>4
  <2>6. Upto(n + 1, h)
    BY <2>3, <2>5
  <2>7. \E k : Upto(n + 1, k)
    <3> HIDE DEF Upto, h
    <3> QED
      BY <2>6
  <2> HIDE DEF Upto
  <2> QED
    BY <2>7
<1>5. Cardinality(S) \in Nat
  BY FS_CardinalityType
<1>6. Cardinality(S) \in T
  <2> HIDE DEF T
  <2> QED
    BY <1>3, <1>4, <1>5, EveryNumber
<1>7. PICK g : Upto(Cardinality(S), g)
  BY <1>6
<1>8. Small(Cardinality(S)) = SUBSET S
  BY FS_Subset
<1>9. g \in [SUBSET S -> Int] /\ \A s \in SUBSET S : g[s] = Rule(g, s)
  BY <1>7, <1>8
<1>10. g = [s \in SUBSET S |-> Rule(g, s)]
  <2> HIDE DEF Rule
  <2> QED
    BY <1>9
<1> QED
  BY <1>9, <1>10 DEF IsSum

(* Two sums agree where what they add agrees.                              *)
LEMMA SumsAgree ==
  ASSUME NEW S, IsFiniteSet(S), NEW T \in SUBSET S, NEW f, NEW h,
         \A x \in T : f[x] = h[x], NEW g, IsSum(g, f, S), NEW k, IsSum(k, h, T)
  PROVE  g[T] = k[T]
<1> DEFINE N == {n \in Nat : \A s \in SUBSET T : Cardinality(s) = n => g[s] = k[s]}
<1>1. \A s \in SUBSET T : IsFiniteSet(s) /\ Cardinality(s) \in Nat
  BY FS_Subset, FS_CardinalityType
<1>2. ASSUME NEW s \in SUBSET T
      PROVE  /\ g[s] = (IF s = {} THEN 0 ELSE f[Any(s)] + g[s \ {Any(s)}])
             /\ k[s] = (IF s = {} THEN 0 ELSE h[Any(s)] + k[s \ {Any(s)}])
  <2>1. s \in SUBSET S
    OBVIOUS
  <2> QED
    BY <2>1, Zenon DEF IsSum
<1>3. 0 \in N
  <2> SUFFICES ASSUME NEW s \in SUBSET T, Cardinality(s) = 0 PROVE g[s] = k[s]
    OBVIOUS
  <2>1. s = {}
    BY <1>1, FS_EmptySet
  <2> QED
    BY <1>2, <2>1
<1>4. ASSUME NEW n \in Nat, n \in N PROVE n + 1 \in N
  <2> SUFFICES ASSUME NEW s \in SUBSET T, Cardinality(s) = n + 1 PROVE g[s] = k[s]
    OBVIOUS
  <2>1. s # {} /\ Any(s) \in s
    BY FS_EmptySet, AnyIsIn
  <2>2. s \ {Any(s)} \in SUBSET T /\ Cardinality(s \ {Any(s)}) = n
    BY <1>1, <2>1, OneLess
  <2>3. g[s \ {Any(s)}] = k[s \ {Any(s)}] /\ f[Any(s)] = h[Any(s)]
    BY <1>4, <2>1, <2>2
  <2> QED
    BY <1>2, <2>1, <2>3
<1>5. Cardinality(T) \in N
  <2>1. Cardinality(T) \in Nat
    BY <1>1
  <2> HIDE DEF N
  <2> QED
    BY <1>3, <1>4, <2>1, EveryNumber
<1> QED
  BY <1>5

(* The sum of a set from the sum of a larger one.                          *)
LEMMA SumFrom ==
  ASSUME NEW S, IsFiniteSet(S), NEW T \in SUBSET S, NEW f, \A x \in T : f[x] \in Int,
         NEW h, \A x \in T : f[x] = h[x], NEW g, IsSum(g, h, S)
  PROVE  SumOf(f, T) = g[T] /\ SumOf(f, T) \in Int
<1>1. IsFiniteSet(T)
  BY FS_Subset
<1>2. \E k \in [SUBSET T -> Int] : IsSum(k, f, T)
  BY <1>1, SumExists
<1> DEFINE c == CHOOSE k : IsSum(k, f, T)
<1>3. IsSum(c, f, T)
  BY <1>2
<1>4. SumOf(f, T) = c[T]
  BY DEF SumOf
<1>5. PICK k \in [SUBSET T -> Int] : IsSum(k, f, T)
  BY <1>2
<1> HIDE DEF c
<1>6. c[T] = k[T]
  BY <1>1, <1>3, <1>5, SumsAgree
<1>7. g[T] = c[T]
  BY <1>3, SumsAgree
<1> QED
  BY <1>4, <1>5, <1>6, <1>7

LEMMA SameSum ==
  ASSUME NEW S, IsFiniteSet(S), NEW f, \A x \in S : f[x] \in Int,
         NEW h, \A x \in S : f[x] = h[x]
  PROVE  SumOf(f, S) = SumOf(h, S) /\ SumOf(f, S) \in Int
<1>1. PICK g \in [SUBSET S -> Int] : IsSum(g, h, S)
  BY SumExists
<1> QED
  BY <1>1, SumFrom

(* The sum of a set, element by element in any order.                      *)
LEMMA SumOfNone == \A f : SumOf(f, {}) = 0
<1> SUFFICES ASSUME NEW f PROVE SumOf(f, {}) = 0
  OBVIOUS
<1>1. PICK g \in [SUBSET {} -> Int] : IsSum(g, f, {})
  BY SumExists, FS_EmptySet
<1>2. SumOf(f, {}) = g[{}]
  BY <1>1, SumFrom, FS_EmptySet
<1>3. g[{}] = 0
  BY <1>1 DEF IsSum
<1> QED
  BY <1>2, <1>3

LEMMA TakeAny ==
  ASSUME NEW S, IsFiniteSet(S), S # {}, NEW f, \A x \in S : f[x] \in Int
  PROVE  SumOf(f, S) = f[Any(S)] + SumOf(f, S \ {Any(S)})
<1>1. PICK g \in [SUBSET S -> Int] : IsSum(g, f, S)
  BY SumExists
<1>2. SumOf(f, S) = g[S]
  BY <1>1, SumFrom
<1>3. SumOf(f, S \ {Any(S)}) = g[S \ {Any(S)}]
  <2>1. S \ {Any(S)} \in SUBSET S
    OBVIOUS
  <2> QED
    BY <1>1, <2>1, SumFrom
<1>4. g[S] = f[Any(S)] + g[S \ {Any(S)}]
  BY <1>1 DEF IsSum
<1> QED
  BY <1>2, <1>3, <1>4

LEMMA TakeOne ==
  ASSUME NEW S, IsFiniteSet(S), NEW f, \A x \in S : f[x] \in Int, NEW y \in S
  PROVE  SumOf(f, S) = f[y] + SumOf(f, S \ {y})
<1> DEFINE Splits(s) == \A x \in s : SumOf(f, s) = f[x] + SumOf(f, s \ {x})
           N == {n \in Nat : \A s \in SUBSET S : Cardinality(s) = n => Splits(s)}
<1>1. \A s \in SUBSET S : /\ IsFiniteSet(s) /\ Cardinality(s) \in Nat
                          /\ SumOf(f, s) \in Int
  BY FS_Subset, FS_CardinalityType, SameSum
<1>2. 0 \in N
  <2>1. \A s \in SUBSET S : Cardinality(s) = 0 => s = {}
    BY <1>1, FS_EmptySet
  <2> QED
    BY <2>1
<1>3. ASSUME NEW n \in Nat, n \in N PROVE n + 1 \in N
  <2> SUFFICES ASSUME NEW s \in SUBSET S, Cardinality(s) = n + 1, NEW x \in s
               PROVE  SumOf(f, s) = f[x] + SumOf(f, s \ {x})
    OBVIOUS
  <2> DEFINE a == Any(s)
  <2>1. a \in s /\ SumOf(f, s) = f[a] + SumOf(f, s \ {a})
    BY <1>1, AnyIsIn, TakeAny
  <2> HIDE DEF a
  <2>2. CASE x = a
    BY <2>1, <2>2
  <2>3. CASE x # a
    <3>1. /\ s \ {a} \in SUBSET S /\ Cardinality(s \ {a}) = n /\ x \in s \ {a}
          /\ s \ {x} \in SUBSET S /\ Cardinality(s \ {x}) = n /\ a \in s \ {x}
      BY <1>1, <2>1, <2>3, OneLess
    <3>2. SumOf(f, s \ {a}) = f[x] + SumOf(f, (s \ {a}) \ {x})
      BY <1>3, <3>1
    <3>3. SumOf(f, s \ {x}) = f[a] + SumOf(f, (s \ {x}) \ {a})
      BY <1>3, <3>1
    <3>4. (s \ {a}) \ {x} = (s \ {x}) \ {a} /\ (s \ {a}) \ {x} \in SUBSET S
      OBVIOUS
    <3>5. f[a] \in Int /\ f[x] \in Int /\ SumOf(f, (s \ {a}) \ {x}) \in Int
      BY <1>1, <2>1, <3>4
    <3>6. PICK p \in Int, q \in Int, r \in Int :
                 p = f[a] /\ q = f[x] /\ r = SumOf(f, (s \ {a}) \ {x})
      BY <3>5
    <3>7. SumOf(f, s \ {x}) = p + r
      BY <3>3, <3>4, <3>6
    <3>8. SumOf(f, s) = p + (q + r)
      BY <2>1, <3>2, <3>6
    <3>9. SumOf(f, s) = q + (p + r)
      BY <3>6, <3>8
    <3> QED
      BY <3>6, <3>7, <3>9
  <2> QED
    BY <2>2, <2>3
<1>4. Cardinality(S) \in N
  <2>1. Cardinality(S) \in Nat
    BY FS_CardinalityType
  <2> HIDE DEF N
  <2> QED
    BY <1>2, <1>3, <2>1, EveryNumber
<1> QED
  BY <1>4

(* One of the numbers changes.                                             *)
LEMMA SumChanges ==
  ASSUME NEW S, IsFiniteSet(S), NEW f, \A x \in S : f[x] \in Int, NEW y \in S,
         NEW h, h[y] \in Int, \A x \in S \ {y} : h[x] = f[x]
  PROVE  SumOf(h, S) = SumOf(f, S) - f[y] + h[y]
<1>1. IsFiniteSet(S \ {y})
  BY FS_Subset
<1>2. SumOf(f, S \ {y}) = SumOf(h, S \ {y}) /\ SumOf(f, S \ {y}) \in Int
  BY <1>1, SameSum
<1>3. SumOf(f, S) = f[y] + SumOf(f, S \ {y})
  BY TakeOne
<1>4. SumOf(h, S) = h[y] + SumOf(h, S \ {y})
  <2>1. \A x \in S : h[x] \in Int
    OBVIOUS
  <2> QED
    BY <2>1, TakeOne
<1>5. f[y] \in Int
  OBVIOUS
<1> QED
  BY <1>2, <1>3, <1>4, <1>5

(* A part of numbers that are not negative.                                *)
LEMMA SumOfPart ==
  ASSUME NEW S, IsFiniteSet(S), NEW f, \A x \in S : f[x] \in Nat, NEW T \in SUBSET S
  PROVE  SumOf(f, T) <= SumOf(f, S)
<1> DEFINE N == {n \in Nat : \A s \in SUBSET S :
                   Cardinality(s) = n => SumOf(f, s \cap T) <= SumOf(f, s)}
<1>1. \A s \in SUBSET S : /\ IsFiniteSet(s) /\ Cardinality(s) \in Nat
                          /\ \A x \in s : f[x] \in Int
                          /\ SumOf(f, s) \in Int /\ s \cap T \in SUBSET S
  BY FS_Subset, FS_CardinalityType, SameSum
<1>2. 0 \in N
  <2> SUFFICES ASSUME NEW s \in SUBSET S, Cardinality(s) = 0
               PROVE  SumOf(f, s \cap T) <= SumOf(f, s)
    OBVIOUS
  <2>1. s = {} /\ s \cap T = s
    BY <1>1, FS_EmptySet
  <2> QED
    BY <1>1, <2>1
<1>3. ASSUME NEW n \in Nat, n \in N PROVE n + 1 \in N
  <2> SUFFICES ASSUME NEW s \in SUBSET S, Cardinality(s) = n + 1
               PROVE  SumOf(f, s \cap T) <= SumOf(f, s)
    OBVIOUS
  <2>1. PICK y \in s : TRUE
    BY FS_EmptySet
  <2>2. s \ {y} \in SUBSET S /\ Cardinality(s \ {y}) = n
    BY <1>1, OneLess
  <2>3. SumOf(f, (s \ {y}) \cap T) <= SumOf(f, s \ {y})
    BY <1>3, <2>2
  <2>4. SumOf(f, s) = f[y] + SumOf(f, s \ {y})
    BY <1>1, TakeOne
  <2>5. PICK p \in Nat, q \in Int, r \in Int :
          p = f[y] /\ q = SumOf(f, s \ {y}) /\ r = SumOf(f, (s \ {y}) \cap T)
    BY <1>1, <2>2
  <2>6. CASE y \in T
    <3>1. y \in s \cap T /\ (s \cap T) \ {y} = (s \ {y}) \cap T
      BY <2>6
    <3>2. SumOf(f, s \cap T) = f[y] + SumOf(f, (s \cap T) \ {y})
      BY <1>1, <3>1, TakeOne
    <3>3. SumOf(f, s \cap T) = p + r /\ SumOf(f, s) = p + q /\ r <= q
      BY <2>3, <2>4, <2>5, <3>1, <3>2
    <3> QED
      BY <2>5, <3>3
  <2>7. CASE y \notin T
    <3>1. s \cap T = (s \ {y}) \cap T
      BY <2>7
    <3>2. SumOf(f, s \cap T) = r /\ SumOf(f, s) = p + q /\ r <= q
      BY <2>3, <2>4, <2>5, <3>1
    <3> QED
      BY <2>5, <3>2
  <2> QED
    BY <2>6, <2>7
<1>4. Cardinality(S) \in N
  <2>1. Cardinality(S) \in Nat
    BY FS_CardinalityType
  <2> HIDE DEF N
  <2> QED
    BY <1>2, <1>3, <2>1, EveryNumber
<1>5. S \cap T = T
  OBVIOUS
<1> QED
  BY <1>4, <1>5

(* What holds of no elements, and with some of them of one more, holds of  *)
(* all: about a set of subsets.                                            *)
LEMMA EverySubset ==
  ASSUME NEW S, IsFiniteSet(S), NEW P, {} \in P,
         \A s \in SUBSET S, x \in S : s \in P /\ x \notin s => s \cup {x} \in P
  PROVE  S \in P
<1> DEFINE N == {n \in Nat : \A s \in SUBSET S : Cardinality(s) = n => s \in P}
<1>1. \A s \in SUBSET S : IsFiniteSet(s) /\ Cardinality(s) \in Nat
  BY FS_Subset, FS_CardinalityType
<1>2. 0 \in N
  BY <1>1, FS_EmptySet
<1>3. ASSUME NEW n \in Nat, n \in N PROVE n + 1 \in N
  <2> SUFFICES ASSUME NEW s \in SUBSET S, Cardinality(s) = n + 1 PROVE s \in P
    OBVIOUS
  <2>1. s # {}
    <3>1. n + 1 # 0
      OBVIOUS
    <3> QED
      BY <3>1, FS_EmptySet
  <2>0. PICK x \in s : TRUE
    BY <2>1
  <2>2. s \ {x} \in SUBSET S /\ Cardinality(s \ {x}) = n
    BY <1>1, OneLess
  <2>3. s \ {x} \in P /\ x \in S /\ (s \ {x}) \cup {x} = s
    BY <1>3, <2>2
  <2> QED
    BY <2>2, <2>3
<1>4. Cardinality(S) \in N
  <2>1. Cardinality(S) \in Nat
    BY <1>1
  <2> HIDE DEF N
  <2> QED
    BY <1>2, <1>3, <2>1, EveryNumber
<1> QED
  BY <1>4

(* One more element.                                                       *)
LEMMA OneMore ==
  ASSUME NEW S, IsFiniteSet(S), NEW f, \A x \in S : f[x] \in Int
  PROVE  \A s \in SUBSET S, x \in S :
           x \notin s => /\ SumOf(f, s \cup {x}) = SumOf(f, s) + f[x]
                        /\ SumOf(f, s) \in Int /\ f[x] \in Int
<1> SUFFICES ASSUME NEW s \in SUBSET S, NEW x \in S, x \notin s
             PROVE  /\ SumOf(f, s \cup {x}) = SumOf(f, s) + f[x]
                    /\ SumOf(f, s) \in Int /\ f[x] \in Int
  OBVIOUS
<1>1. IsFiniteSet(s) /\ IsFiniteSet(s \cup {x}) /\ \A y \in s \cup {x} : f[y] \in Int
  BY FS_Subset
<1>2. SumOf(f, s) \in Int
  BY <1>1, SameSum
<1>3. (s \cup {x}) \ {x} = s
  OBVIOUS
<1>4. SumOf(f, s \cup {x}) = f[x] + SumOf(f, (s \cup {x}) \ {x})
  BY <1>1, TakeOne
<1>5. SumOf(f, s \cup {x}) = f[x] + SumOf(f, s)
  BY <1>3, <1>4, Zenon
<1>6. PICK p \in Int, q \in Int : p = f[x] /\ q = SumOf(f, s)
  BY <1>2
<1>7. p + q = q + p
  OBVIOUS
<1>8. SumOf(f, s \cup {x}) = SumOf(f, s) + f[x]
  BY <1>5, <1>6, <1>7, Zenon
<1> QED
  BY <1>2, <1>8

(* Numbers in proportion have sums in proportion.                          *)
LEMMA SumScales ==
  ASSUME NEW S, IsFiniteSet(S), NEW f, NEW h, NEW a \in Int, NEW b \in Int,
         \A x \in S : f[x] \in Int /\ h[x] \in Int /\ a * f[x] = b * h[x]
  PROVE  a * SumOf(f, S) = b * SumOf(h, S)
<1>3. \A t \in SUBSET S, y \in S :
        y \notin t => /\ SumOf(f, t \cup {y}) = SumOf(f, t) + f[y]
                     /\ SumOf(f, t) \in Int /\ f[y] \in Int
  BY OneMore
<1>4. \A t \in SUBSET S, y \in S :
        y \notin t => /\ SumOf(h, t \cup {y}) = SumOf(h, t) + h[y]
                     /\ SumOf(h, t) \in Int /\ h[y] \in Int
  BY OneMore
<1> DEFINE P == {s \in SUBSET S : a * SumOf(f, s) = b * SumOf(h, s)}
<1>1. {} \in P
  BY SumOfNone
<1>2. ASSUME NEW s \in SUBSET S, NEW x \in S, s \in P, x \notin s PROVE s \cup {x} \in P
  <2>1. /\ SumOf(f, s \cup {x}) = SumOf(f, s) + f[x] /\ SumOf(f, s) \in Int
        /\ SumOf(h, s \cup {x}) = SumOf(h, s) + h[x] /\ SumOf(h, s) \in Int
    BY <1>2, <1>3, <1>4
  <2>2. PICK p \in Int, q \in Int, m \in Int, n \in Int :
          p = SumOf(f, s) /\ q = f[x] /\ m = SumOf(h, s) /\ n = h[x]
    BY <2>1
  <2>3. a * p = b * m /\ a * q = b * n
    BY <1>2, <2>2
  <2>4. a * (p + q) = b * (m + n)
    BY <2>3
  <2> QED
    BY <2>1, <2>2, <2>4
<1> QED
  <2> HIDE DEF P
  <2>1. S \in P
    BY <1>1, <1>2, EverySubset
  <2> QED
    BY <2>1 DEF P

(* The sum of a list, which FoldLeft takes from its end.                   *)
Greatest(S) == CHOOSE x \in S : \A y \in S : x >= y
ByGreatest(g, f, S) ==
  g = [s \in SUBSET S |-> IF s = {} THEN 0 ELSE g[s \ {Greatest(s)}] + f[Greatest(s)]]
Folded(f, S) == (CHOOSE g : ByGreatest(g, f, S))[S]

LEMMA GreatestIsIn ==
  ASSUME NEW S, S \subseteq Int, IsFiniteSet(S), S # {}
  PROVE  Greatest(S) \in S /\ \A y \in S : Greatest(S) >= y
<1> DEFINE P == {s \in SUBSET S : s # {} => \E x \in s : \A y \in s : x >= y}
<1>1. {} \in P
  OBVIOUS
<1>2. ASSUME NEW s \in SUBSET S, NEW z \in S, s \in P PROVE s \cup {z} \in P
  <2>1. CASE s = {}
    BY <2>1
  <2>2. CASE s # {}
    <3>1. PICK x \in s : \A y \in s : x >= y
      BY <1>2, <2>2
    <3>2. CASE x >= z
      BY <3>1, <3>2
    <3>3. CASE ~(x >= z)
      <4>1. \A y \in s \cup {z} : z >= y
        BY <3>1, <3>3
      <4> QED
        BY <4>1
    <3> QED
      BY <3>2, <3>3
  <2> QED
    BY <2>1, <2>2
<1>3. S \in P
  <2> HIDE DEF P
  <2> QED
    BY <1>1, <1>2, EverySubset
<1>4. \E x \in S : \A y \in S : x >= y
  BY <1>3
<1> QED
  BY <1>4 DEF Greatest

LEMMA SumInOrder ==
  ASSUME NEW S, S \subseteq Nat, IsFiniteSet(S), NEW f, \A x \in S : f[x] \in Int
  PROVE  Folded(f, S) = SumOf(f, S)
<1>0. \A t \in SUBSET S, y \in S :
        y \notin t => /\ SumOf(f, t \cup {y}) = SumOf(f, t) + f[y]
                     /\ SumOf(f, t) \in Int /\ f[y] \in Int
  BY OneMore
<1>1. ASSUME NEW s \in SUBSET S, s # {}
      PROVE  Greatest(s) \in s /\ Greatest(s) \in S /\ s \ {Greatest(s)} \in SUBSET S
  <2>1. IsFiniteSet(s)
    BY FS_Subset
  <2>2. s \subseteq Int
    OBVIOUS
  <2> QED
    BY <1>1, <2>1, <2>2, GreatestIsIn
<1>2. ASSUME NEW s \in SUBSET S, s # {}
      PROVE  SumOf(f, s) = SumOf(f, s \ {Greatest(s)}) + f[Greatest(s)]
  <2>1. PICK x \in s : x = Greatest(s)
    BY <1>1, <1>2
  <2>2. (s \ {x}) \cup {x} = s /\ s \ {x} \in SUBSET S /\ x \in S /\ x \notin s \ {x}
    OBVIOUS
  <2>3. SumOf(f, (s \ {x}) \cup {x}) = SumOf(f, s \ {x}) + f[x]
    BY <1>0, <2>2
  <2> QED
    BY <2>1, <2>2, <2>3
<1> DEFINE h == [s \in SUBSET S |-> SumOf(f, s)]
           g == CHOOSE k : ByGreatest(k, f, S)
<1>3. ByGreatest(h, f, S)
  <2>1. ASSUME NEW s \in SUBSET S
        PROVE  h[s] = IF s = {} THEN 0 ELSE h[s \ {Greatest(s)}] + f[Greatest(s)]
    <3>1. CASE s = {}
      BY <3>1, SumOfNone
    <3>2. CASE s # {}
      BY <1>1, <1>2, <3>2
    <3> QED
      BY <3>1, <3>2
  <2>2. h = [s \in SUBSET S |-> h[s]]
    OBVIOUS
  <2> HIDE DEF h
  <2> QED
    BY <2>1, <2>2 DEF ByGreatest
<1>4. ByGreatest(g, f, S)
  BY <1>3
<1> HIDE DEF g, h
<1>5. ASSUME NEW s \in SUBSET S
      PROVE  g[s] = IF s = {} THEN 0 ELSE g[s \ {Greatest(s)}] + f[Greatest(s)]
  BY <1>4, Zenon DEF ByGreatest
<1> DEFINE N == {n \in Nat : \A s \in SUBSET S : Cardinality(s) = n => g[s] = SumOf(f, s)}
<1>6. \A s \in SUBSET S : IsFiniteSet(s) /\ Cardinality(s) \in Nat
  BY FS_Subset, FS_CardinalityType
<1>7. 0 \in N
  <2>1. \A s \in SUBSET S : Cardinality(s) = 0 => s = {}
    BY <1>6, FS_EmptySet
  <2>2. g[{}] = 0
    BY <1>5
  <2> QED
    BY <2>1, <2>2, SumOfNone
<1>8. ASSUME NEW n \in Nat, n \in N PROVE n + 1 \in N
  <2> SUFFICES ASSUME NEW s \in SUBSET S, Cardinality(s) = n + 1 PROVE g[s] = SumOf(f, s)
    OBVIOUS
  <2>1. s # {}
    BY FS_EmptySet
  <2>2. PICK x \in s : x = Greatest(s)
    BY <1>1, <2>1
  <2>3. s \ {x} \in SUBSET S /\ Cardinality(s \ {x}) = n
    BY <1>6, OneLess
  <2>4. g[s \ {x}] = SumOf(f, s \ {x})
    BY <1>8, <2>3
  <2> QED
    BY <1>2, <1>5, <2>1, <2>2, <2>4
<1>9. Cardinality(S) \in N
  <2>1. Cardinality(S) \in Nat
    BY <1>6
  <2> HIDE DEF N
  <2> QED
    BY <1>7, <1>8, <2>1, EveryNumber
<1>10. g[S] = SumOf(f, S)
  BY <1>9
<1> QED
  BY <1>10 DEF Folded, g

(* Sums of disjoint sets add up.                                           *)
LEMMA SumSplits ==
  ASSUME NEW S, IsFiniteSet(S), NEW f, \A x \in S : f[x] \in Int,
         NEW A \in SUBSET S, NEW B \in SUBSET S, A \cap B = {}
  PROVE  SumOf(f, A \cup B) = SumOf(f, A) + SumOf(f, B)
<1> DEFINE P == {s \in SUBSET A : SumOf(f, s \cup B) = SumOf(f, s) + SumOf(f, B)}
<1>1. \A t \in SUBSET S, y \in S :
        y \notin t => /\ SumOf(f, t \cup {y}) = SumOf(f, t) + f[y]
                     /\ SumOf(f, t) \in Int /\ f[y] \in Int
  BY OneMore
<1>2. SumOf(f, B) \in Int
  <2>1. IsFiniteSet(B) /\ \A x \in B : f[x] \in Int
    BY FS_Subset
  <2> QED
    BY <2>1, SameSum
<1>3. {} \in P
  <2>1. {} \cup B = B
    OBVIOUS
  <2>2. PICK m \in Int : m = SumOf(f, B)
    BY <1>2
  <2>3. m = 0 + m
    OBVIOUS
  <2> QED
    BY <2>1, <2>2, <2>3, SumOfNone
<1>4. ASSUME NEW s \in SUBSET A, NEW x \in A, s \in P, x \notin s PROVE s \cup {x} \in P
  <2>1. (s \cup {x}) \cup B = (s \cup B) \cup {x} /\ s \cup B \in SUBSET S /\ x \in S
        /\ x \notin s \cup B /\ s \in SUBSET S
    BY <1>4
  <2>2. SumOf(f, (s \cup B) \cup {x}) = SumOf(f, s \cup B) + f[x]
    BY <1>1, <2>1
  <2>3. SumOf(f, s \cup {x}) = SumOf(f, s) + f[x] /\ SumOf(f, s) \in Int /\ f[x] \in Int
    BY <1>1, <1>4, <2>1
  <2>4. PICK m \in Int, n \in Int, k \in Int : m = SumOf(f, s) /\ n = SumOf(f, B) /\ k = f[x]
    BY <1>2, <2>3
  <2>5. SumOf(f, s \cup B) = m + n
    BY <1>4, <2>4
  <2>6. (m + n) + k = (m + k) + n
    OBVIOUS
  <2>7. SumOf(f, (s \cup {x}) \cup B) = SumOf(f, s \cup {x}) + SumOf(f, B)
    BY <2>1, <2>2, <2>3, <2>4, <2>5, <2>6
  <2> QED
    BY <2>7
<1>5. IsFiniteSet(A)
  BY FS_Subset
<1>6. A \in P
  <2> HIDE DEF P
  <2> QED
    BY <1>3, <1>4, <1>5, EverySubset
<1> QED
  BY <1>6

(* Different values for different elements are as many.                    *)
LEMMA AsMany ==
  ASSUME NEW S, IsFiniteSet(S), NEW f, \A x, y \in S : f[x] = f[y] => x = y
  PROVE  IsFiniteSet({f[x] : x \in S}) /\ Cardinality({f[x] : x \in S}) = Cardinality(S)
<1> DEFINE T == {f[x] : x \in S}
           g == [x \in S |-> f[x]]
<1>1. g \in Surjection(S, T) /\ g \in Injection(S, T)
  BY DEF Surjection, Injection, IsInjective
<1> QED
  BY <1>1, FS_Surjection

(* The elements of one kind and those of another.                          *)
OfKind(S, kind, k) == {x \in S : kind[x] = k}

LEMMA SumByKind ==
  ASSUME NEW S, IsFiniteSet(S), NEW f, \A x \in S : f[x] \in Int,
         NEW K, IsFiniteSet(K), NEW kind, \A x \in S : kind[x] \in K,
         NEW g, \A k \in K : g[k] = SumOf(f, OfKind(S, kind, k))
  PROVE  SumOf(f, S) = SumOf(g, K)
<1> DEFINE Of(T) == {x \in S : kind[x] \in T}
           P == {T \in SUBSET K : SumOf(f, Of(T)) = SumOf(g, T)}
<1>1. \A k \in K : g[k] \in Int
  <2> SUFFICES ASSUME NEW k \in K PROVE SumOf(f, OfKind(S, kind, k)) \in Int
    OBVIOUS
  <2>1. /\ OfKind(S, kind, k) \in SUBSET S /\ IsFiniteSet(OfKind(S, kind, k))
    <3>1. OfKind(S, kind, k) \in SUBSET S
      BY DEF OfKind
    <3> QED
      BY <3>1, FS_Subset
  <2> QED
    BY <2>1, SameSum
<1>2. {} \in P
  <2>1. Of({}) = {}
    OBVIOUS
  <2> QED
    BY <2>1, SumOfNone
<1>3. ASSUME NEW T \in SUBSET K, NEW k \in K, T \in P, k \notin T
      PROVE  T \cup {k} \in P
  <2> DEFINE one == OfKind(S, kind, k)
  <2>1. Of(T \cup {k}) = Of(T) \cup one /\ Of(T) \cap one = {}
    BY <1>3 DEF OfKind
  <2>2. SumOf(f, Of(T) \cup one) = SumOf(f, Of(T)) + SumOf(f, one)
    <3>1. Of(T) \in SUBSET S /\ one \in SUBSET S
      BY DEF OfKind
    <3> HIDE DEF Of, one
    <3> QED
      BY <2>1, <3>1, SumSplits
  <2>3. SumOf(g, T \cup {k}) = SumOf(g, T) + g[k]
    <3>1. \A t \in SUBSET K, y \in K : y \notin t => SumOf(g, t \cup {y}) = SumOf(g, t) + g[y]
      <4>1. \A y \in K : g[y] \in Int
        BY <1>1
      <4> QED
        BY <4>1, OneMore
    <3> QED
      BY <1>3, <3>1
  <2>4. SumOf(f, Of(T)) = SumOf(g, T) /\ g[k] = SumOf(f, one)
    BY <1>1, <1>3
  <2> HIDE DEF Of, one
  <2>5. SumOf(f, Of(T \cup {k})) = SumOf(g, T \cup {k})
    BY <2>1, <2>2, <2>3, <2>4
  <2> QED
    BY <2>5
<1>4. K \in P
  <2> HIDE DEF P
  <2> QED
    BY <1>2, <1>3, EverySubset
<1>5. Of(K) = S
  OBVIOUS
<1> HIDE DEF Of
<1> QED
  BY <1>4, <1>5

(* A count is a sum of ones.                                               *)
LEMMA CountIsSum ==
  ASSUME NEW S, IsFiniteSet(S), NEW f, \A x \in S : f[x] = 1
  PROVE  SumOf(f, S) = Cardinality(S)
<1> DEFINE P == {s \in SUBSET S : SumOf(f, s) = Cardinality(s)}
<1>1. \A t \in SUBSET S, y \in S :
        y \notin t => SumOf(f, t \cup {y}) = SumOf(f, t) + f[y]
  BY OneMore
<1>2. {} \in P
  BY SumOfNone, FS_EmptySet
<1>3. ASSUME NEW t \in SUBSET S, NEW y \in S, t \in P, y \notin t
      PROVE  t \cup {y} \in P
  <2>1. IsFiniteSet(t)
    BY FS_Subset
  <2>2. Cardinality(t \cup {y}) = Cardinality(t) + 1
    BY <1>3, <2>1, FS_AddElement
  <2> QED
    BY <1>1, <1>3, <2>2
<1>4. S \in P
  <2> HIDE DEF P
  <2> QED
    BY <1>2, <1>3, EverySubset
<1> QED
  BY <1>4

(* Numbers that are not positive.                                          *)
LEMMA SumOfLosses ==
  ASSUME NEW S, IsFiniteSet(S), NEW f, \A x \in S : f[x] \in Int /\ f[x] <= 0
  PROVE  SumOf(f, S) \in Int /\ SumOf(f, S) <= 0
<1> DEFINE P == {s \in SUBSET S : SumOf(f, s) \in Int /\ SumOf(f, s) <= 0}
<1>1. \A t \in SUBSET S, y \in S :
        y \notin t => SumOf(f, t \cup {y}) = SumOf(f, t) + f[y]
  BY OneMore
<1>2. {} \in P
  BY SumOfNone
<1>3. ASSUME NEW t \in SUBSET S, NEW y \in S, t \in P, y \notin t
      PROVE  t \cup {y} \in P
  <2>1. PICK a \in Int, b \in Int : a = SumOf(f, t) /\ b = f[y] /\ a <= 0 /\ b <= 0
    BY <1>3
  <2>2. SumOf(f, t \cup {y}) = a + b
    BY <1>1, <1>3, <2>1
  <2> QED
    BY <2>1, <2>2
<1>4. S \in P
  <2> HIDE DEF P
  <2> QED
    BY <1>2, <1>3, EverySubset
<1> QED
  BY <1>4

(* What a function makes of a finite set.                                  *)
LEMMA FiniteImage ==
  ASSUME NEW S, IsFiniteSet(S), NEW f
  PROVE  IsFiniteSet({f[x] : x \in S})
<1> DEFINE T == {f[x] : x \in S}
           g == [x \in S |-> f[x]]
<1>1. g \in Surjection(S, T)
  BY DEF Surjection
<1> HIDE DEF g, T
<1>2. IsFiniteSet(T)
  BY <1>1, FS_Surjection
<1> QED
  BY <1>2 DEF T

(* Two disjoint sets.                                                      *)
LEMMA CountSplits ==
  ASSUME NEW S, IsFiniteSet(S), NEW A \in SUBSET S, NEW B \in SUBSET S,
         A \cap B = {}, A \cup B = S
  PROVE  /\ Cardinality(S) = Cardinality(A) + Cardinality(B)
         /\ Cardinality(A) \in Nat /\ Cardinality(B) \in Nat
<1>1. IsFiniteSet(A) /\ IsFiniteSet(B)
  BY FS_Subset
<1>2. Cardinality(A \cup B) = Cardinality(A) + Cardinality(B) - Cardinality(A \cap B)
  BY <1>1, FS_Union
<1>3. PICK a \in Nat, b \in Nat : Cardinality(A) = a /\ Cardinality(B) = b
  BY <1>1, FS_CardinalityType
<1>4. Cardinality(A \cap B) = 0
  BY FS_EmptySet
<1>5. Cardinality(S) = a + b - 0
  BY <1>2, <1>3, <1>4
<1> QED
  BY <1>3, <1>5

-----------------------------------------------------------------------------
(* RiskToolkit.  An approval still fits when it is added (ApprovalFits),   *)
(* for nothing else happens between; the clusters are the components of a  *)
(* graph, and a symbol that is bought joins those of its neighbours to its *)
(* own, whose limit was checked, and leaves the others as they were.       *)

LEMMA CountIsCardinality == \A S : Toolkit!Cardinality(S) = Cardinality(S)
  BY DEF Toolkit!Cardinality, Cardinality

LEMMA TotalIsSum == \A f, S : Toolkit!Total(f, S) = SumOf(f, S)
  BY DEF Toolkit!Total, Toolkit!FoldFunctionOnSet, Toolkit!MapThenFoldSet, SumOf, IsSum, Any

(* The component of s in the graph R over the nodes N.                     *)
ClosedIn(S, N, R) == \A t \in S, u \in N : {t, u} \in R => u \in S
Joined(N, R, s) == {t \in N : \A S \in SUBSET N : s \in S /\ ClosedIn(S, N, R) => t \in S}

LEMMA ClusterIs == \A s : Toolkit!Cluster(s) = Joined(Toolkit!Held \cup {s}, correlated, s)
  BY DEF Toolkit!Cluster, Joined, ClosedIn
LEMMA ClusterWillBe == \A s : Toolkit!Cluster(s)' = Joined(Toolkit!Held' \cup {s}, correlated', s)
  BY DEF Toolkit!Cluster, Joined, ClosedIn

LEMMA JoinedIs ==
  ASSUME NEW N, NEW R, NEW s \in N
  PROVE  /\ s \in Joined(N, R, s) /\ Joined(N, R, s) \in SUBSET N
         /\ ClosedIn(Joined(N, R, s), N, R)
<1>1. s \in Joined(N, R, s) /\ Joined(N, R, s) \in SUBSET N
  BY DEF Joined
<1>2. ASSUME NEW t \in Joined(N, R, s), NEW u \in N, {t, u} \in R
      PROVE  u \in Joined(N, R, s)
  BY <1>2 DEF Joined, ClosedIn
<1> QED
  BY <1>1, <1>2 DEF ClosedIn

(* More nodes join more.                                                   *)
LEMMA JoinedGrows ==
  ASSUME NEW N, NEW M, N \subseteq M, NEW R, NEW s \in N
  PROVE  Joined(N, R, s) \subseteq Joined(M, R, s)
<1> SUFFICES ASSUME NEW t \in Joined(N, R, s), NEW S \in SUBSET M, s \in S, ClosedIn(S, M, R)
             PROVE  t \in S
  BY DEF Joined
<1>1. ClosedIn(S \cap N, N, R)
  BY DEF ClosedIn
<1> QED
  BY <1>1 DEF Joined

(* Nodes that are not joined make no difference.                           *)
LEMMA JoinedStays ==
  ASSUME NEW N, NEW M, N \subseteq M, NEW R, NEW s \in N, Joined(M, R, s) \subseteq N
  PROVE  Joined(M, R, s) = Joined(N, R, s)
<1> SUFFICES ASSUME NEW t \in Joined(M, R, s), NEW S \in SUBSET N, s \in S, ClosedIn(S, N, R)
             PROVE  t \in S
  <2>1. Joined(N, R, s) \subseteq Joined(M, R, s)
    BY JoinedGrows
  <2>2. Joined(M, R, s) \subseteq Joined(N, R, s)
    BY DEF Joined
  <2> QED
    BY <2>1, <2>2
<1> DEFINE C == Joined(M, R, s)
<1>1. s \in C /\ ClosedIn(C, M, R)
  BY JoinedIs
<1>2. ClosedIn(S \cap C, M, R)
  BY <1>1 DEF ClosedIn
<1>3. S \cap C \in SUBSET M /\ s \in S \cap C
  BY <1>1
<1> QED
  BY <1>2, <1>3 DEF Joined

(* A component is that of each of its members.                             *)
LEMMA JoinedIsOf ==
  ASSUME NEW N, NEW R, NEW x \in N, NEW s \in Joined(N, R, x)
  PROVE  Joined(N, R, s) = Joined(N, R, x)
<1>1. s \in N
  BY DEF Joined
<1>2. ASSUME NEW S \in SUBSET N, ClosedIn(S, N, R)
      PROVE  s \in S <=> x \in S
  <2>1. x \in S => s \in S
    BY <1>2 DEF Joined
  <2>2. ASSUME x \notin S PROVE s \notin S
    <3>1. ClosedIn(N \ S, N, R)
      <4> SUFFICES ASSUME NEW t \in N \ S, NEW u \in N, {t, u} \in R, u \in S PROVE FALSE
        BY DEF ClosedIn
      <4>1. {u, t} = {t, u}
        OBVIOUS
      <4> QED
        BY <1>2, <4>1 DEF ClosedIn
    <3>2. x \in N \ S /\ N \ S \in SUBSET N
      BY <2>2
    <3> QED
      BY <3>1, <3>2 DEF Joined
  <2> QED
    BY <2>1, <2>2
<1> QED
  BY <1>2 DEF Joined

(* The greater and the smaller of two numbers.                             *)
LEMMA MinMaxOfTwo ==
  ASSUME NEW m \in Int, NEW n \in Int
  PROVE  /\ Toolkit!Max({m, n}) = IF m > n THEN m ELSE n
         /\ Toolkit!Min({m, n}) = IF m < n THEN m ELSE n
<1>1. Toolkit!Max({m, n}) = IF m > n THEN m ELSE n
  <2> DEFINE k == IF m > n THEN m ELSE n
  <2>1. k \in {m, n} /\ \A y \in {m, n} : k >= y
    OBVIOUS
  <2>2. \A x \in {m, n} : (\A y \in {m, n} : x >= y) => x = k
    OBVIOUS
  <2> QED
    BY <2>1, <2>2 DEF Toolkit!Max
<1>2. Toolkit!Min({m, n}) = IF m < n THEN m ELSE n
  <2> DEFINE k == IF m < n THEN m ELSE n
  <2>1. k \in {m, n} /\ \A y \in {m, n} : k <= y
    OBVIOUS
  <2>2. \A x \in {m, n} : (\A y \in {m, n} : x <= y) => x = k
    OBVIOUS
  <2> QED
    BY <2>1, <2>2 DEF Toolkit!Min
<1> QED
  BY <1>1, <1>2

-----------------------------------------------------------------------------
ToolkitTyped == toolkitEquity \in Nat \ {0} /\ toolkitPositions \in [PortfolioSymbols -> Nat]

(* The monitor halts in a drawdown past the limit.                         *)
HaltIsSeen == ~overridden /\ Toolkit!Below(HaltLimit, toolkitEquity, toolkitPeak)
  => toolkitStatus = "HALT"

(* What was approved still fits when it is added.                          *)
ApprovalFits ==
  approval # Toolkit!None =>
    /\ toolkitStatus # "HALT"
    /\ approval.symbol \in PortfolioSymbols /\ approval.exposure \in Nat \ {0}
    /\ Toolkit!CorrelationAllows(approval.symbol, approval.exposure)
    /\ ~Toolkit!Concentrated([toolkitPositions EXCEPT ![approval.symbol] = @ + approval.exposure])

ClustersFit ==
  \A s \in Toolkit!Held : Cardinality(Toolkit!Cluster(s)) >= 2 =>
    100 * Toolkit!Total(toolkitPositions, Toolkit!Cluster(s)) <= toolkitEquity * CorrelatedLimit

LimitsKept ==
  toolkitSteady =>
    /\ \A s \in PortfolioSymbols : 100 * toolkitPositions[s] < toolkitEquity * SingleLimit
    /\ 100 * Toolkit!Total(toolkitPositions, PortfolioSymbols) < toolkitEquity * SectorLimit
    /\ ClustersFit

ToolkitInv == ToolkitTyped /\ HaltIsSeen /\ ApprovalFits /\ LimitsKept

(* An account without positions keeps the limits.                          *)
LEMMA FlatFits ==
  ASSUME NEW e \in Nat \ {0}
  PROVE  /\ Toolkit!Flat \in [PortfolioSymbols -> Nat]
         /\ \A s \in PortfolioSymbols : 100 * Toolkit!Flat[s] < e * SingleLimit
         /\ 100 * Toolkit!Total(Toolkit!Flat, PortfolioSymbols) < e * SectorLimit
<1>1. e * SingleLimit > 0 /\ e * SectorLimit > 0
      /\ e * SingleLimit \in Int /\ e * SectorLimit \in Int
  BY ToolkitAssumption
<1>2. Toolkit!Flat \in [PortfolioSymbols -> Nat]
      /\ \A s \in PortfolioSymbols : Toolkit!Flat[s] = 0
  BY DEF Toolkit!Flat
<1>3. SumOf(Toolkit!Flat, PortfolioSymbols) = 0
  <2> DEFINE none == [s \in PortfolioSymbols |-> 0]
             N == {n \in Nat : \A S \in SUBSET PortfolioSymbols : Cardinality(S) = n
               => SumOf(Toolkit!Flat, S) = 0}
  <2>1. \A S \in SUBSET PortfolioSymbols : IsFiniteSet(S) /\ Cardinality(S) \in Nat
    BY ToolkitAssumption, FS_Subset, FS_CardinalityType
  <2>2. 0 \in N
    <3> SUFFICES ASSUME NEW S \in SUBSET PortfolioSymbols, Cardinality(S) = 0
                 PROVE SumOf(Toolkit!Flat, S) = 0
      OBVIOUS
    <3>1. S = {}
      BY <2>1, FS_EmptySet
    <3> QED
      BY <3>1, SumOfNone
  <2>3. ASSUME NEW n \in Nat, n \in N PROVE n + 1 \in N
    <3> SUFFICES ASSUME NEW S \in SUBSET PortfolioSymbols, Cardinality(S) = n + 1
                 PROVE  SumOf(Toolkit!Flat, S) = 0
      OBVIOUS
    <3>1. PICK y \in S : TRUE
      BY FS_EmptySet
    <3>2. S \ {y} \in SUBSET PortfolioSymbols /\ Cardinality(S \ {y}) = n
      BY <2>1, OneLess
    <3>3. SumOf(Toolkit!Flat, S) = Toolkit!Flat[y] + SumOf(Toolkit!Flat, S \ {y})
      <4>1. IsFiniteSet(S) /\ \A x \in S : Toolkit!Flat[x] \in Int
        BY <1>2, <2>1
      <4> QED
        BY <4>1, TakeOne
    <3>4. Toolkit!Flat[y] = 0 /\ SumOf(Toolkit!Flat, S \ {y}) = 0
      BY <1>2, <2>3, <3>2
    <3> QED
      BY <3>3, <3>4
  <2>4. Cardinality(PortfolioSymbols) \in N
    <3>1. Cardinality(PortfolioSymbols) \in Nat
      BY <2>1
    <3> HIDE DEF N
    <3> QED
      BY <2>2, <2>3, <3>1, EveryNumber
  <2> QED
    BY <2>4
<1>4. Toolkit!Total(Toolkit!Flat, PortfolioSymbols) = 0
  BY <1>3, TotalIsSum
<1> QED
  BY <1>1, <1>2, <1>4

(* An account at its peak has not fallen.                                  *)
LEMMA NoFall ==
  ASSUME NEW e \in Nat \ {0}
  PROVE  ~Toolkit!Below(HaltLimit, e, e)
<1>1. HaltLimit * e > 0 /\ HaltLimit * e \in Int
  BY ToolkitAssumption
<1>2. 100 * (e - e) = 0
  OBVIOUS
<1>3. ~(100 * (e - e) >= HaltLimit * e)
  BY <1>1, <1>2
<1> QED
  BY <1>3 DEF Toolkit!Below

LEMMA ToolkitInit == Toolkit!Init => ToolkitInv
<1> SUFFICES ASSUME Toolkit!Init PROVE ToolkitInv
  OBVIOUS
<1>1. Toolkit!Start \in Nat \ {0}
  <2>1. PICK e \in PortfolioEquities : \A d \in PortfolioEquities : d <= e
    BY ToolkitAssumption
  <2>2. e \in PortfolioEquities /\ \A d \in PortfolioEquities : e >= d
    BY <2>1, ToolkitAssumption
  <2>3. Toolkit!Max(PortfolioEquities) \in PortfolioEquities
    BY <2>2, Zenon DEF Toolkit!Max
  <2> QED
    BY <2>3, ToolkitAssumption DEF Toolkit!Start
<1>2. toolkitEquity = Toolkit!Start /\ toolkitPeak = Toolkit!Start
      /\ toolkitPositions = Toolkit!Flat /\ approval = Toolkit!None
  BY DEF Toolkit!Init
<1>3. ToolkitTyped
  BY <1>1, <1>2, FlatFits DEF ToolkitTyped
<1>4. HaltIsSeen
  <2>1. ~Toolkit!Below(HaltLimit, Toolkit!Start, Toolkit!Start)
    BY <1>1, NoFall
  <2> QED
    BY <1>2, <2>1 DEF HaltIsSeen
<1>5. ApprovalFits
  BY <1>2 DEF ApprovalFits
<1>6. Toolkit!Held = {}
  BY <1>2 DEF Toolkit!Held, Toolkit!Flat
<1>7. LimitsKept
  BY <1>1, <1>2, <1>6, FlatFits DEF LimitsKept, ClustersFit
<1> QED
  BY <1>3, <1>4, <1>5, <1>7 DEF ToolkitInv

(* A purchase: the clusters it joins were looked at, the others stay.      *)
LEMMA Bought ==
  ASSUME ToolkitInv, Toolkit!AddPosition, toolkitSteady
  PROVE  ClustersFit'
<1> DEFINE x == approval.symbol
           d == approval.exposure
           N == Toolkit!Held \cup {x}
<1>1. /\ approval # Toolkit!None /\ toolkitPositions' = [toolkitPositions EXCEPT ![x] = @ + d]
      /\ correlated' = correlated /\ toolkitEquity' = toolkitEquity
  BY DEF Toolkit!AddPosition
<1>2. /\ x \in PortfolioSymbols /\ d \in Nat \ {0} /\ Toolkit!CorrelationAllows(x, d)
      /\ toolkitPositions \in [PortfolioSymbols -> Nat] /\ toolkitEquity \in Nat \ {0}
         /\ ClustersFit
  BY <1>1 DEF ToolkitInv, ToolkitTyped, ApprovalFits, LimitsKept
<1> HIDE DEF x, d
<1>3. /\ toolkitPositions' \in [PortfolioSymbols -> Nat]
         /\ toolkitPositions'[x] = toolkitPositions[x] + d
      /\ \A s \in PortfolioSymbols \ {x} : toolkitPositions'[s] = toolkitPositions[s]
  BY <1>1, <1>2
<1>4. Toolkit!Held' = N
  <2>1. \A s \in PortfolioSymbols : toolkitPositions'[s] > 0 <=> toolkitPositions[s] > 0 \/ s = x
    BY <1>2, <1>3
  <2>2. Toolkit!Held' = {s \in PortfolioSymbols : toolkitPositions'[s] > 0}
        /\ Toolkit!Held = {s \in PortfolioSymbols : toolkitPositions[s] > 0}
    BY DEF Toolkit!Held
  <2> QED
    BY <1>2, <2>1, <2>2
<1>5. N \subseteq PortfolioSymbols /\ Toolkit!Held \subseteq PortfolioSymbols
      /\ IsFiniteSet(PortfolioSymbols)
  BY <1>2, ToolkitAssumption DEF Toolkit!Held
<1> HIDE DEF N
<1> SUFFICES ASSUME NEW s \in N, Cardinality(Joined(N, correlated, s)) >= 2
             PROVE  100 * SumOf(toolkitPositions', Joined(N, correlated, s))
                      <= toolkitEquity * CorrelatedLimit
  <2>1. \A s \in N : Toolkit!Cluster(s)' = Joined(N, correlated, s)
    <3> SUFFICES ASSUME NEW s \in N PROVE Toolkit!Cluster(s)' = Joined(N, correlated, s)
      OBVIOUS
    <3>1. Toolkit!Cluster(s)' = Joined(Toolkit!Held' \cup {s}, correlated', s)
      BY ClusterWillBe
    <3>2. Toolkit!Held' \cup {s} = N
      BY <1>4
    <3> QED
      BY <1>1, <3>1, <3>2
  <2> QED
    BY <1>1, <1>4, <2>1, TotalIsSum DEF ClustersFit
<1> DEFINE C == Joined(N, correlated, s)
<1>6. s \in C /\ C \in SUBSET N /\ x \in N
  BY JoinedIs DEF N
<1>7. CASE x \in C
  <2>1. C = Joined(N, correlated, x)
    BY <1>6, <1>7, JoinedIsOf
  <2>2. Toolkit!Cluster(x) = C
    BY <2>1, ClusterIs DEF N
  <2> HIDE DEF C
  <2>3. 100 * (SumOf(toolkitPositions, C) + d) <= toolkitEquity * CorrelatedLimit
    BY <1>2, <2>2, TotalIsSum, CountIsCardinality DEF Toolkit!CorrelationAllows, C
  <2>4. IsFiniteSet(C) /\ C \subseteq PortfolioSymbols
    BY <1>5, <1>6, FS_Subset
  <2>5. SumOf(toolkitPositions', C)
          = SumOf(toolkitPositions, C) - toolkitPositions[x] + toolkitPositions'[x]
    <3>1. \A t \in C : toolkitPositions[t] \in Int
      BY <1>2, <2>4
    <3>2. toolkitPositions'[x] \in Int
          /\ \A t \in C \ {x} : toolkitPositions'[t] = toolkitPositions[t]
      BY <1>2, <1>3, <2>4
    <3> QED
      BY <1>7, <2>4, <3>1, <3>2, SumChanges
  <2>6. SumOf(toolkitPositions, C) \in Int /\ toolkitPositions[x] \in Int
    <3>1. \A t \in C : toolkitPositions[t] \in Int
      BY <1>2, <2>4
    <3> QED
      BY <1>2, <2>4, <3>1, SameSum
  <2>7. SumOf(toolkitPositions', C) = SumOf(toolkitPositions, C) + d
    BY <1>2, <1>3, <2>5, <2>6
  <2> QED
    BY <2>3, <2>7 DEF C
<1>8. CASE x \notin C
  <2>1. s \in Toolkit!Held /\ C \subseteq Toolkit!Held
    BY <1>6, <1>8 DEF N
  <2>2. C = Joined(Toolkit!Held, correlated, s)
    <3>1. Toolkit!Held \subseteq N
      BY DEF N
    <3> QED
      BY <2>1, <3>1, JoinedStays
  <2>3. Toolkit!Cluster(s) = C
    <3>1. Toolkit!Held \cup {s} = Toolkit!Held
      BY <2>1
    <3> QED
      BY <2>2, <3>1, ClusterIs
  <2> HIDE DEF C
  <2>4. 100 * SumOf(toolkitPositions, C) <= toolkitEquity * CorrelatedLimit
    BY <1>2, <2>1, <2>3, TotalIsSum DEF ClustersFit, C
  <2>5. IsFiniteSet(C) /\ C \subseteq PortfolioSymbols
    BY <1>5, <1>6, FS_Subset
  <2>6. SumOf(toolkitPositions', C) = SumOf(toolkitPositions, C)
    <3>1. \A t \in C : toolkitPositions[t] \in Int /\ toolkitPositions[t] = toolkitPositions'[t]
      BY <1>2, <1>3, <1>8, <2>5
    <3> QED
      BY <2>5, <3>1, SameSum
  <2> QED
    BY <2>4, <2>6 DEF C
<1> QED
  BY <1>7, <1>8

(* A sale leaves parts of the clusters there were.                         *)
LEMMA Sold ==
  ASSUME ToolkitInv, NEW x \in PortfolioSymbols, Toolkit!RemovePosition(x), toolkitSteady
  PROVE  100 * Toolkit!Total(toolkitPositions', PortfolioSymbols) < toolkitEquity * SectorLimit
         /\ ClustersFit'
<1>1. /\ toolkitPositions' = [toolkitPositions EXCEPT ![x] = 0] /\ correlated' = correlated
      /\ toolkitEquity' = toolkitEquity /\ x \in Toolkit!Held
  BY DEF Toolkit!RemovePosition
<1>2. /\ toolkitPositions \in [PortfolioSymbols -> Nat] /\ toolkitEquity \in Nat \ {0}
         /\ ClustersFit
      /\ 100 * SumOf(toolkitPositions, PortfolioSymbols) < toolkitEquity * SectorLimit
  BY TotalIsSum DEF ToolkitInv, ToolkitTyped, LimitsKept
<1>3. /\ toolkitPositions' \in [PortfolioSymbols -> Nat] /\ toolkitPositions'[x] = 0
      /\ \A s \in PortfolioSymbols \ {x} : toolkitPositions'[s] = toolkitPositions[s]
  BY <1>1, <1>2
<1>4. Toolkit!Held' = Toolkit!Held \ {x}
  <2>1. \A s \in PortfolioSymbols : toolkitPositions'[s] > 0 <=> toolkitPositions[s] > 0 /\ s # x
    BY <1>2, <1>3
  <2>2. Toolkit!Held' = {s \in PortfolioSymbols : toolkitPositions'[s] > 0}
        /\ Toolkit!Held = {s \in PortfolioSymbols : toolkitPositions[s] > 0}
    BY DEF Toolkit!Held
  <2> QED
    BY <2>1, <2>2
<1>5. Toolkit!Held \subseteq PortfolioSymbols /\ IsFiniteSet(PortfolioSymbols)
      /\ CorrelatedLimit \in Nat
      /\ SectorLimit \in Nat
  BY ToolkitAssumption DEF Toolkit!Held
<1>6. toolkitEquity * SectorLimit \in Int /\ toolkitEquity * CorrelatedLimit \in Int
  BY <1>2, <1>5
(* Sums over symbols that hold nothing of x, or what there was of it.      *)
<1>7. ASSUME NEW S \in SUBSET PortfolioSymbols
      PROVE  /\ SumOf(toolkitPositions', S) <= SumOf(toolkitPositions, S)
             /\ SumOf(toolkitPositions', S) \in Int /\ SumOf(toolkitPositions, S) \in Int
                /\ IsFiniteSet(S)
  <2>1. IsFiniteSet(S)
    BY <1>5, FS_Subset
  <2>2. \A t \in S :
          toolkitPositions[t] \in Int /\ toolkitPositions[t] \in Nat
          /\ toolkitPositions'[t] \in Int
    BY <1>2, <1>3
  <2>3. SumOf(toolkitPositions, S) \in Int /\ SumOf(toolkitPositions', S) \in Int
    BY <2>1, <2>2, SameSum
  <2>4. CASE x \in S
    <3>1. SumOf(toolkitPositions', S)
            = SumOf(toolkitPositions, S) - toolkitPositions[x] + toolkitPositions'[x]
      <4>1. toolkitPositions'[x] \in Int
            /\ \A t \in S \ {x} : toolkitPositions'[t] = toolkitPositions[t]
        BY <1>3
      <4> QED
        BY <2>1, <2>2, <2>4, <4>1, SumChanges
    <3> QED
      BY <1>3, <2>1, <2>2, <2>3, <2>4, <3>1
  <2>5. CASE x \notin S
    <3>1. \A t \in S : toolkitPositions[t] = toolkitPositions'[t]
      BY <1>3, <2>5
    <3>2. SumOf(toolkitPositions, S) = SumOf(toolkitPositions', S)
      BY <2>1, <2>2, <3>1, SameSum
    <3> QED
      BY <2>1, <2>3, <3>2
  <2> QED
    BY <2>4, <2>5
<1>8. 100 * Toolkit!Total(toolkitPositions', PortfolioSymbols) < toolkitEquity * SectorLimit
  <2>1. /\ SumOf(toolkitPositions', PortfolioSymbols) <= SumOf(toolkitPositions, PortfolioSymbols)
        /\ SumOf(toolkitPositions', PortfolioSymbols) \in Int
           /\ SumOf(toolkitPositions, PortfolioSymbols) \in Int
    BY <1>7
  <2>2. 100 * SumOf(toolkitPositions', PortfolioSymbols) < toolkitEquity * SectorLimit
    BY <1>2, <1>6, <2>1
  <2> QED
    BY <2>2, TotalIsSum
<1>9. ASSUME NEW s \in Toolkit!Held', Cardinality(Toolkit!Cluster(s)') >= 2
      PROVE  100 * Toolkit!Total(toolkitPositions', Toolkit!Cluster(s)')
               <= toolkitEquity * CorrelatedLimit
  <2> DEFINE K == Joined(Toolkit!Held', correlated, s)
             C == Joined(Toolkit!Held, correlated, s)
  <2>1. Toolkit!Cluster(s)' = K
    <3>1. Toolkit!Cluster(s)' = Joined(Toolkit!Held' \cup {s}, correlated', s)
      BY ClusterWillBe
    <3>2. Toolkit!Held' \cup {s} = Toolkit!Held'
      OBVIOUS
    <3> QED
      BY <1>1, <3>1, <3>2
  <2>2. Toolkit!Cluster(s) = C /\ s \in Toolkit!Held
    <3>1. Toolkit!Held \cup {s} = Toolkit!Held
      BY <1>4
    <3> QED
      BY <3>1, ClusterIs
  <2>3. K \subseteq C
    <3>1. Toolkit!Held' \subseteq Toolkit!Held
      BY <1>4
    <3> QED
      BY <3>1, JoinedGrows
  <2>4. C \in SUBSET PortfolioSymbols
    BY <1>5, <2>2, JoinedIs
  <2> HIDE DEF K, C
  <2>5. IsFiniteSet(C) /\ Cardinality(C) \in Nat /\ Cardinality(K) \in Nat
        /\ Cardinality(K) <= Cardinality(C)
    BY <1>7, <2>3, <2>4, FS_Subset, FS_CardinalityType
  <2>6. 100 * SumOf(toolkitPositions, C) <= toolkitEquity * CorrelatedLimit
    BY <1>2, <1>9, <2>1, <2>2, <2>5, TotalIsSum DEF ClustersFit
  <2>7. SumOf(toolkitPositions', K) <= SumOf(toolkitPositions', C)
    <3>1. \A t \in C : toolkitPositions'[t] \in Nat
      BY <1>3, <2>4
    <3> QED
      BY <2>3, <2>5, <3>1, SumOfPart
  <2>8. /\ SumOf(toolkitPositions', C) <= SumOf(toolkitPositions, C)
        /\ SumOf(toolkitPositions', C) \in Int /\ SumOf(toolkitPositions, C) \in Int
        /\ SumOf(toolkitPositions', K) \in Int
    BY <1>7, <2>3, <2>4
  <2>9. 100 * SumOf(toolkitPositions', K) <= toolkitEquity * CorrelatedLimit
    BY <1>6, <2>6, <2>7, <2>8
  <2> QED
    BY <2>1, <2>9, TotalIsSum
<1> QED
  BY <1>1, <1>8, <1>9 DEF ClustersFit

(* More equity allows what less did.                                       *)
LEMMA LimitsGrow ==
  ASSUME NEW d \in Nat \ {0}, NEW e \in Nat \ {0}, d <= e, NEW limit \in Nat
  PROVE  d * limit <= e * limit /\ d * limit \in Nat /\ e * limit \in Nat
<1>1. PICK k \in Nat : e = d + k
  <2>1. e - d \in Nat /\ e = d + (e - d)
    OBVIOUS
  <2> QED
    BY <2>1
<1>2. (d + k) * limit = d * limit + k * limit /\ k * limit \in Nat /\ d * limit \in Nat
  OBVIOUS
<1> QED
  BY <1>1, <1>2

(* The account's equity does not fall, or there is nothing to lose.        *)
LEMMA EquityRises ==
  ASSUME ToolkitInv, NEW e \in PortfolioEquities, toolkitEquity' = e,
         UNCHANGED <<toolkitPositions, correlated, approval>>, approval = Toolkit!None,
         toolkitSteady'
           = (toolkitSteady /\ (toolkitPositions = Toolkit!Flat \/ e >= toolkitEquity))
  PROVE  ToolkitTyped' /\ ApprovalFits' /\ LimitsKept'
<1>1. e \in Nat \ {0} /\ toolkitEquity \in Nat \ {0}
      /\ toolkitPositions \in [PortfolioSymbols -> Nat]
  BY ToolkitAssumption DEF ToolkitInv, ToolkitTyped
<1>2. ToolkitTyped' /\ ApprovalFits'
  BY <1>1 DEF ToolkitTyped, ApprovalFits
<1>3. toolkitPositions' = toolkitPositions /\ Toolkit!Held' = Toolkit!Held
      /\ \A s : Toolkit!Cluster(s)' = Toolkit!Cluster(s)
  <2>1. Toolkit!Held' = Toolkit!Held
    BY DEF Toolkit!Held
  <2>2. ASSUME NEW s PROVE Toolkit!Cluster(s)' = Toolkit!Cluster(s)
    <3>1. Toolkit!Cluster(s)' = Joined(Toolkit!Held' \cup {s}, correlated', s)
      BY ClusterWillBe
    <3> QED
      BY <2>1, <3>1, ClusterIs
  <2> QED
    BY <2>1, <2>2
<1>4. CASE toolkitPositions = Toolkit!Flat
  <2>1. Toolkit!Held = {}
    BY <1>4 DEF Toolkit!Held, Toolkit!Flat
  <2> QED
    BY <1>1, <1>2, <1>3, <1>4, <2>1, FlatFits DEF LimitsKept, ClustersFit
<1>5. CASE toolkitSteady /\ e >= toolkitEquity
  <2>1. /\ toolkitEquity * SingleLimit <= e * SingleLimit
        /\ toolkitEquity * SingleLimit \in Int /\ e * SingleLimit \in Int
    BY <1>1, <1>5, LimitsGrow, ToolkitAssumption
  <2>2. /\ toolkitEquity * SectorLimit <= e * SectorLimit
        /\ toolkitEquity * SectorLimit \in Int /\ e * SectorLimit \in Int
    BY <1>1, <1>5, LimitsGrow, ToolkitAssumption
  <2>3. /\ toolkitEquity * CorrelatedLimit <= e * CorrelatedLimit
        /\ toolkitEquity * CorrelatedLimit \in Int /\ e * CorrelatedLimit \in Int
    BY <1>1, <1>5, LimitsGrow, ToolkitAssumption
  <2>4. /\ \A s \in PortfolioSymbols : 100 * toolkitPositions[s] < toolkitEquity * SingleLimit
        /\ 100 * Toolkit!Total(toolkitPositions, PortfolioSymbols) < toolkitEquity * SectorLimit
        /\ ClustersFit
    <3>1. LimitsKept
      BY DEF ToolkitInv
    <3> QED
      BY <1>5, <3>1, Zenon DEF LimitsKept
  <2>5. \A S \in SUBSET PortfolioSymbols : Toolkit!Total(toolkitPositions, S) \in Int
    <3> SUFFICES ASSUME NEW S \in SUBSET PortfolioSymbols PROVE SumOf(toolkitPositions, S) \in Int
      BY TotalIsSum
    <3>1. IsFiniteSet(S) /\ \A t \in S : toolkitPositions[t] \in Int
      BY <1>1, FS_Subset, ToolkitAssumption
    <3> QED
      BY <3>1, SameSum
  <2>6. \A s \in PortfolioSymbols : 100 * toolkitPositions[s] < e * SingleLimit
    BY <1>1, <2>1, <2>4
  <2>7. 100 * Toolkit!Total(toolkitPositions, PortfolioSymbols) < e * SectorLimit
    BY <2>2, <2>4, <2>5
  <2>8. ASSUME NEW s \in Toolkit!Held, Cardinality(Toolkit!Cluster(s)) >= 2
        PROVE  100 * Toolkit!Total(toolkitPositions, Toolkit!Cluster(s)) <= e * CorrelatedLimit
    <3>1. Toolkit!Held \cup {s} \subseteq PortfolioSymbols
      BY DEF Toolkit!Held
    <3>2. Toolkit!Cluster(s) \in SUBSET PortfolioSymbols
      BY <3>1, ClusterIs DEF Joined
    <3>3. Toolkit!Total(toolkitPositions, Toolkit!Cluster(s)) \in Int
      BY <2>5, <3>2
    <3>4. 100 * Toolkit!Total(toolkitPositions, Toolkit!Cluster(s))
            <= toolkitEquity * CorrelatedLimit
      BY <2>4, <2>8 DEF ClustersFit
    <3> QED
      BY <2>3, <3>3, <3>4
  <2> QED
    BY <1>2, <1>3, <2>6, <2>7, <2>8 DEF LimitsKept, ClustersFit
<1> QED
  BY <1>2, <1>4, <1>5 DEF LimitsKept

LEMMA ToolkitStep == ToolkitInv /\ [Toolkit!Next]_toolkitVars => ToolkitInv'
<1> SUFFICES ASSUME ToolkitInv, [Toolkit!Next]_toolkitVars PROVE ToolkitInv'
  OBVIOUS
<1>0. /\ toolkitEquity \in Nat \ {0} /\ toolkitPositions \in [PortfolioSymbols -> Nat]
  BY DEF ToolkitInv, ToolkitTyped
(* What moves neither positions nor equity nor correlations.               *)
<1>1. ASSUME UNCHANGED <<toolkitEquity, toolkitPositions, correlated>>,
             toolkitSteady' = toolkitSteady
      PROVE  ToolkitTyped' /\ LimitsKept'
  <2>1. Toolkit!Held' = Toolkit!Held
    BY <1>1 DEF Toolkit!Held
  <2>2. ASSUME NEW s PROVE Toolkit!Cluster(s)' = Toolkit!Cluster(s)
    <3>1. Toolkit!Cluster(s)' = Joined(Toolkit!Held' \cup {s}, correlated', s)
      BY ClusterWillBe
    <3> QED
      BY <1>1, <2>1, <3>1, ClusterIs
  <2> QED
    BY <1>1, <2>1, <2>2 DEF ToolkitInv, ToolkitTyped, LimitsKept, ClustersFit
<1>2. ASSUME NEW s \in PortfolioSymbols, NEW base \in SizingBases,
             Toolkit!CheckNewPosition(s, base) PROVE ToolkitInv'
  <2>1. PICK amount \in Int : amount = Toolkit!Sized(base)
    <3>1. base \in Int /\ MaxPosition \in Nat
      BY ToolkitAssumption
    <3>2. PICK k \in Int : k = Toolkit!Max({base, 1})
      BY <3>1, MinMaxOfTwo
    <3>3. PICK m \in Int : m = (toolkitEquity * MaxPosition) \div 100
      BY <1>0, <3>1
    <3>4. Toolkit!Min({k, m}) \in Int
      BY MinMaxOfTwo
    <3> QED
      BY <3>2, <3>3, <3>4 DEF Toolkit!Sized
  <2>2. /\ toolkitStatus # "HALT" /\ Toolkit!CorrelationAllows(s, amount) /\ amount >= 1
        /\ ~Toolkit!Concentrated([toolkitPositions EXCEPT ![s] = @ + amount])
        /\ approval' = [symbol |-> s, exposure |-> amount]
        /\ UNCHANGED <<toolkitEquity, toolkitPeak, toolkitStatus, toolkitPositions, correlated,
             toolkitSteady, overridden>>
    BY <1>2, <2>1 DEF Toolkit!CheckNewPosition
  <2>3. approval'.symbol = s /\ approval'.exposure = amount /\ amount \in Nat \ {0}
    BY <2>1, <2>2
  <2>4. Toolkit!CorrelationAllows(s, amount)'
    <3>1. Toolkit!Cluster(s)' = Toolkit!Cluster(s)
      <4>1. Toolkit!Cluster(s)' = Joined(Toolkit!Held' \cup {s}, correlated', s)
        BY ClusterWillBe
      <4>2. Toolkit!Held' = Toolkit!Held
        BY <2>2 DEF Toolkit!Held
      <4> QED
        BY <2>2, <4>1, <4>2, ClusterIs
    <3> QED
      BY <2>2, <3>1 DEF Toolkit!CorrelationAllows
  <2>5. ApprovalFits'
    <3>1. PICK after : after = [toolkitPositions EXCEPT ![s] = @ + amount]
      OBVIOUS
    <3>2. ~Toolkit!Concentrated(after)
      BY <2>2, <3>1
    <3>3. Toolkit!Concentrated(after)' = Toolkit!Concentrated(after)
      BY <2>2 DEF Toolkit!Concentrated
    <3>4. [toolkitPositions' EXCEPT ![approval'.symbol] = @ + approval'.exposure] = after
      BY <2>2, <2>3, <3>1
    <3>5. toolkitStatus' # "HALT" /\ approval'.symbol \in PortfolioSymbols
          /\ approval'.exposure \in Nat \ {0}
      BY <2>2, <2>3
    <3>6. Toolkit!CorrelationAllows(approval.symbol, approval.exposure)'
      BY <2>3, <2>4 DEF Toolkit!CorrelationAllows
    <3>7. ~Toolkit!Concentrated([toolkitPositions EXCEPT ![approval.symbol]
            = @ + approval.exposure])'
      BY <3>2, <3>3, <3>4
    <3> QED
      BY <3>5, <3>6, <3>7 DEF ApprovalFits
  <2>6. HaltIsSeen'
    BY <2>2 DEF ToolkitInv, HaltIsSeen
  <2> QED
    BY <1>1, <2>2, <2>5, <2>6 DEF ToolkitInv
<1>3. CASE Toolkit!AddPosition
  <2> DEFINE x == approval.symbol
             d == approval.exposure
  <2>1. /\ approval # Toolkit!None /\ toolkitPositions' = [toolkitPositions EXCEPT ![x] = @ + d]
           /\ approval' = Toolkit!None
        /\ UNCHANGED <<toolkitEquity, toolkitPeak, toolkitStatus, correlated, toolkitSteady,
             overridden>>
    BY <1>3 DEF Toolkit!AddPosition
  <2>2. x \in PortfolioSymbols /\ d \in Nat \ {0}
        /\ ~Toolkit!Concentrated([toolkitPositions EXCEPT ![x] = @ + d])
    BY <2>1 DEF ToolkitInv, ApprovalFits
  <2> HIDE DEF x, d
  <2>3. toolkitPositions' \in [PortfolioSymbols -> Nat]
    BY <1>0, <2>1, <2>2
  <2>4. /\ \A s \in PortfolioSymbols : 100 * toolkitPositions'[s] < toolkitEquity * SingleLimit
        /\ 100 * Toolkit!Total(toolkitPositions', PortfolioSymbols) < toolkitEquity * SectorLimit
    <3>1. /\ toolkitEquity * SingleLimit \in Int /\ toolkitEquity * SectorLimit \in Int
          /\ \A s \in PortfolioSymbols : toolkitPositions'[s] \in Int
      BY <1>0, <2>3, ToolkitAssumption
    <3>2. SumOf(toolkitPositions', PortfolioSymbols) \in Int
      BY <3>1, SameSum, ToolkitAssumption
    <3>3. Toolkit!Total(toolkitPositions', PortfolioSymbols) \in Int
      BY <3>2, TotalIsSum
    <3> QED
      BY <2>1, <2>2, <3>1, <3>3 DEF Toolkit!Concentrated
  <2>5. ToolkitTyped' /\ HaltIsSeen' /\ ApprovalFits'
    BY <1>0, <2>1, <2>3 DEF ToolkitInv, ToolkitTyped, HaltIsSeen, ApprovalFits
  <2>6. LimitsKept'
    BY <1>3, <2>1, <2>4, Bought DEF LimitsKept
  <2> QED
    BY <2>5, <2>6 DEF ToolkitInv
<1>4. CASE Toolkit!Drop \/ Toolkit!ForceHalt \/ Toolkit!ResetHalt
  <2>1. /\ UNCHANGED <<toolkitEquity, toolkitPeak, toolkitPositions, correlated, toolkitSteady>>
           /\ approval' = Toolkit!None
        /\ overridden' \/ (overridden' = overridden /\ toolkitStatus' = toolkitStatus)
    BY <1>4 DEF Toolkit!Drop, Toolkit!ForceHalt, Toolkit!ResetHalt
  <2> QED
    BY <1>1, <2>1 DEF ToolkitInv, HaltIsSeen, ApprovalFits
<1>5. ASSUME NEW s \in PortfolioSymbols, Toolkit!RemovePosition(s) PROVE ToolkitInv'
  <2>1. /\ toolkitPositions' = [toolkitPositions EXCEPT ![s] = 0]
           /\ toolkitSteady' = (toolkitSteady \/ toolkitPositions' = Toolkit!Flat)
        /\ approval = Toolkit!None
        /\ UNCHANGED <<toolkitEquity, toolkitPeak, toolkitStatus, correlated, approval,
             overridden>>
    BY <1>5 DEF Toolkit!RemovePosition
  <2>2. ToolkitTyped' /\ HaltIsSeen' /\ ApprovalFits'
    BY <1>0, <2>1 DEF ToolkitInv, ToolkitTyped, HaltIsSeen, ApprovalFits
  <2>3. CASE toolkitPositions' = Toolkit!Flat
    <3>1. Toolkit!Held' = {}
      BY <2>3 DEF Toolkit!Held, Toolkit!Flat
    <3> QED
      BY <1>0, <2>1, <2>2, <2>3, <3>1, FlatFits DEF ToolkitInv, LimitsKept, ClustersFit
  <2>4. CASE toolkitSteady
    <3>1. 100 * Toolkit!Total(toolkitPositions', PortfolioSymbols) < toolkitEquity * SectorLimit
          /\ ClustersFit'
      BY <1>5, <2>4, Sold
    <3>2. ASSUME NEW t \in PortfolioSymbols
          PROVE 100 * toolkitPositions'[t] < toolkitEquity * SingleLimit
      <4>1. 100 * toolkitPositions[t] < toolkitEquity * SingleLimit
            /\ toolkitEquity * SingleLimit \in Int
        BY <1>0, <2>4, ToolkitAssumption DEF ToolkitInv, LimitsKept
      <4>2. toolkitPositions'[t] \in Nat /\ toolkitPositions[t] \in Nat
            /\ toolkitPositions'[t] <= toolkitPositions[t]
        BY <1>0, <2>1
      <4> QED
        BY <4>1, <4>2
    <3> QED
      BY <2>1, <2>2, <3>1, <3>2 DEF ToolkitInv, LimitsKept
  <2>5. CASE ~toolkitSteady /\ toolkitPositions' # Toolkit!Flat
    BY <2>1, <2>2, <2>5 DEF ToolkitInv, LimitsKept
  <2> QED
    BY <2>3, <2>4, <2>5
<1>6. ASSUME NEW pairs, Toolkit!UpdateReturns(pairs) PROVE ToolkitInv'
  <2>1. /\ approval = Toolkit!None
           /\ toolkitSteady'
                = (toolkitSteady /\ (toolkitPositions = Toolkit!Flat \/ pairs = correlated))
        /\ correlated' = pairs
        /\ UNCHANGED <<toolkitEquity, toolkitPeak, toolkitStatus, toolkitPositions, approval,
             overridden>>
    BY <1>6 DEF Toolkit!UpdateReturns
  <2>2. ToolkitTyped' /\ HaltIsSeen' /\ ApprovalFits'
    BY <1>0, <2>1 DEF ToolkitInv, ToolkitTyped, HaltIsSeen, ApprovalFits
  <2>3. CASE pairs = correlated /\ toolkitSteady
    <3>1. toolkitSteady' = toolkitSteady
          /\ UNCHANGED <<toolkitEquity, toolkitPositions, correlated>>
      BY <2>1, <2>3 DEF ToolkitInv
    <3> QED
      BY <1>1, <2>2, <3>1 DEF ToolkitInv
  <2>4. CASE toolkitPositions = Toolkit!Flat
    <3>1. Toolkit!Held' = {} /\ toolkitPositions' = Toolkit!Flat
      BY <2>1, <2>4 DEF Toolkit!Held, Toolkit!Flat
    <3> QED
      BY <1>0, <2>1, <2>2, <3>1, FlatFits DEF ToolkitInv, LimitsKept, ClustersFit
  <2>5. CASE ~toolkitSteady'
    BY <2>2, <2>5 DEF ToolkitInv, LimitsKept
  <2> QED
    BY <2>1, <2>3, <2>4, <2>5
<1>7. ASSUME NEW e \in PortfolioEquities, Toolkit!UpdateEquity(e) \/ Toolkit!ResetDaily(e)
      PROVE ToolkitInv'
  <2>1. /\ approval = Toolkit!None /\ toolkitEquity' = e
           /\ UNCHANGED <<toolkitPositions, correlated, approval>>
        /\ toolkitSteady'
             = (toolkitSteady /\ (toolkitPositions = Toolkit!Flat \/ e >= toolkitEquity))
    BY <1>7 DEF Toolkit!UpdateEquity, Toolkit!ResetDaily
  <2>2. ToolkitTyped' /\ ApprovalFits' /\ LimitsKept'
    BY <2>1, EquityRises
  <2>3. HaltIsSeen'
    <3>1. CASE Toolkit!UpdateEquity(e)
      BY <3>1 DEF Toolkit!UpdateEquity, Toolkit!Monitored, Toolkit!StatusOf, HaltIsSeen
    <3>2. CASE Toolkit!ResetDaily(e)
      <4>1. ~Toolkit!Below(HaltLimit, e, e)
        BY NoFall, ToolkitAssumption
      <4>2. toolkitEquity' = e /\ toolkitPeak' = e
        BY <3>2 DEF Toolkit!ResetDaily, Toolkit!DayStarted
      <4> QED
        BY <4>1, <4>2 DEF HaltIsSeen
    <3> QED
      BY <1>7, <3>1, <3>2
  <2> QED
    BY <2>2, <2>3 DEF ToolkitInv
<1>8. CASE UNCHANGED toolkitVars
  <2>1. UNCHANGED <<toolkitEquity, toolkitPeak, toolkitStatus, toolkitPositions, correlated,
          approval, toolkitSteady, overridden>>
    BY <1>8 DEF toolkitVars
  <2>2. ToolkitTyped' /\ LimitsKept'
    BY <1>1, <2>1
  <2>3. HaltIsSeen'
    BY <2>1 DEF ToolkitInv, HaltIsSeen
  <2>4. ApprovalFits'
    <3>1. Toolkit!Held' = Toolkit!Held /\ \A s : Toolkit!Cluster(s)' = Toolkit!Cluster(s)
      <4>1. Toolkit!Held' = Toolkit!Held
        BY <2>1 DEF Toolkit!Held
      <4>2. ASSUME NEW s PROVE Toolkit!Cluster(s)' = Toolkit!Cluster(s)
        <5>1. Toolkit!Cluster(s)' = Joined(Toolkit!Held' \cup {s}, correlated', s)
          BY ClusterWillBe
        <5> QED
          BY <2>1, <4>1, <5>1, ClusterIs
      <4> QED
        BY <4>1, <4>2
    <3> QED
      BY <2>1, <3>1 DEF ToolkitInv, ApprovalFits, Toolkit!CorrelationAllows,
            Toolkit!Concentrated
  <2> QED
    BY <2>2, <2>3, <2>4 DEF ToolkitInv
<1> QED
  BY <1>2, <1>3, <1>4, <1>5, <1>6, <1>7, <1>8 DEF Toolkit!Next

LEMMA WithinLimits == ToolkitInv => Toolkit!PortfolioWithinLimits
<1> SUFFICES ASSUME ToolkitInv PROVE Toolkit!PortfolioWithinLimits
  OBVIOUS
<1>1. LimitsKept
  BY DEF ToolkitInv
<1>2. ASSUME approval # Toolkit!None, ~overridden
      PROVE  ~Toolkit!Below(HaltLimit, toolkitEquity, toolkitPeak)
  BY <1>2 DEF ToolkitInv, ApprovalFits, HaltIsSeen
<1>3. ASSUME NEW s \in Toolkit!Held, toolkitSteady, Toolkit!Cardinality(Toolkit!Cluster(s)) >= 2
      PROVE  100 * Toolkit!Total(toolkitPositions, Toolkit!Cluster(s))
               <= toolkitEquity * CorrelatedLimit
  BY <1>1, <1>3, CountIsCardinality DEF LimitsKept, ClustersFit
<1> QED
  BY <1>1, <1>2, <1>3, Zenon DEF LimitsKept, Toolkit!PortfolioWithinLimits

(* For any symbols, equities, sizes and limits: while the equity has not   *)
(* fallen and the correlations have stayed under open positions, no        *)
(* symbol, no correlated cluster and not the sector is past its limit, and *)
(* nothing is approved in a drawdown past the halt limit.                  *)
THEOREM Portfolio == MCSpec => []PortfolioWithinLimits
<1>1. MCInit => ToolkitInv
  BY Begins, ToolkitInit
<1>2. ToolkitInv /\ [MCNext]_allVars => ToolkitInv'
  BY Moves, ToolkitStep
<1>3. ToolkitInv => PortfolioWithinLimits
  BY WithinLimits DEF PortfolioWithinLimits
<1> QED
  BY <1>1, <1>2, <1>3, PTL DEF MCSpec

-----------------------------------------------------------------------------
(* PortfolioWatch.  The mapper's exposures and sectors are those of the    *)
(* positions at its equity (MapIsKept), and since no percentage is rounded *)
(* those of a sector add up to its own.  Every share after a position's    *)
(* first was bought when the position made money, so that the shares       *)
(* together cost no less than at the first one's price, or no more         *)
(* (AddsWell), and money is made only past it.                             *)

LEMMA WatchCount == \A S : Watch!Cardinality(S) = Cardinality(S)
  BY DEF Watch!Cardinality, Cardinality

LEMMA WatchTotal == \A f, S : Watch!Total(f, S) = SumOf(f, S)
  BY DEF Watch!Total, Watch!FoldFunctionOnSet, Watch!MapThenFoldSet, SumOf, IsSum, Any

LEMMA WatchSum == \A l : Watch!Sum(l) = Folded(l, DOMAIN l)
  BY DEF Watch!Sum, Watch!FoldLeft, Watch!MapThenFoldSet, Watch!Max, Folded, ByGreatest, Greatest

LEMMA ListSum ==
  ASSUME NEW l \in Seq(Nat)
  PROVE  Watch!Sum(l) = SumOf(l, 1 .. Len(l)) /\ Watch!Sum(l) \in Int
<1>1. DOMAIN l = 1 .. Len(l) /\ 1 .. Len(l) \subseteq Nat /\ \A k \in 1 .. Len(l) : l[k] \in Int
  OBVIOUS
<1>2. IsFiniteSet(1 .. Len(l))
  BY FS_Interval
<1>3. Folded(l, 1 .. Len(l)) = SumOf(l, 1 .. Len(l))
  BY <1>1, <1>2, SumInOrder
<1>4. SumOf(l, 1 .. Len(l)) \in Int
  BY <1>1, <1>2, SameSum
<1> QED
  BY <1>1, <1>3, <1>4, WatchSum

(* The sum of a list of one more.                                          *)
LEMMA SumAppended ==
  ASSUME NEW l \in Seq(Nat), NEW p \in Nat
  PROVE  Watch!Sum(Append(l, p)) = Watch!Sum(l) + p
<1> DEFINE more == Append(l, p)
           n == Len(l)
<1>1. more \in Seq(Nat) /\ Len(more) = n + 1 /\ n \in Nat /\ more[n + 1] = p
      /\ \A k \in 1 .. n : more[k] = l[k]
  OBVIOUS
<1>2. IsFiniteSet(1 .. n + 1) /\ IsFiniteSet(1 .. n) /\ 1 .. n + 1 = (1 .. n) \cup {n + 1}
      /\ 1 .. n \in SUBSET (1 .. n + 1) /\ n + 1 \in 1 .. n + 1 /\ n + 1 \notin 1 .. n
  <2>1. n + 1 \in Int /\ n \in Int /\ 1 \in Int
    BY <1>1
  <2>2. IsFiniteSet(1 .. n + 1) /\ IsFiniteSet(1 .. n)
    BY <2>1, FS_Interval
  <2>3. 1 .. n + 1 = (1 .. n) \cup {n + 1} /\ 1 .. n \in SUBSET (1 .. n + 1)
        /\ n + 1 \in 1 .. n + 1 /\ n + 1 \notin 1 .. n
    BY <1>1
  <2> QED
    BY <2>2, <2>3
<1>3. \A k \in 1 .. n + 1 : more[k] \in Int
  BY <1>1
<1> HIDE DEF more, n
<1>4. \A t \in SUBSET (1 .. n + 1), y \in 1 .. n + 1 :
        y \notin t => /\ SumOf(more, t \cup {y}) = SumOf(more, t) + more[y]
                     /\ SumOf(more, t) \in Int /\ more[y] \in Int
  BY <1>2, <1>3, OneMore
<1>5. SumOf(more, 1 .. n + 1) = SumOf(more, 1 .. n) + p
  BY <1>1, <1>2, <1>4
<1>6. SumOf(more, 1 .. n) = SumOf(l, 1 .. n)
  <2>1. \A k \in 1 .. n : more[k] \in Int /\ l[k] \in Int
    BY <1>1, <1>2, <1>3
  <2> QED
    BY <1>1, <1>2, <2>1, SameSum
<1>7. Watch!Sum(more) = SumOf(more, 1 .. n + 1)
  BY <1>1, ListSum
<1>8. Watch!Sum(l) = SumOf(l, 1 .. n)
  BY ListSum DEF n
<1> QED
  BY <1>5, <1>6, <1>7, <1>8 DEF more

LEMMA SumOfEmpty == Watch!Sum(<<>>) = 0
<1>1. <<>> \in Seq(Nat) /\ Len(<<>>) = 0 /\ 1 .. 0 = {}
  OBVIOUS
<1> QED
  BY <1>1, ListSum, SumOfNone

Sides == {"LONG", "SHORT"}

WatchTyped ==
  /\ watchAccount \in WatchEquities /\ watchEquity \in Nat
  /\ lots \in [WatchSymbols -> Seq(WatchPrices)] /\ side \in [WatchSymbols -> Sides]
  /\ value \in [WatchSymbols -> Nat]
  /\ \A s \in Watch!Held : \E p \in WatchPrices : value[s] = p * Len(lots[s])

(* The mapper's pieces are those of the positions.                         *)
MapIsKept ==
  /\ exposure = [s \in Watch!Held |-> Watch!Percent(value[s], watchEquity)]
  /\ sectors = Watch!BySector(exposure)

(* Every share was bought at a price better than the first's, and so the   *)
(* shares together cost no less, or no more, than at the first one's.      *)
Dearer(l) == /\ \A k \in 2 .. Len(l) : l[k] > l[1]
             /\ Watch!Sum(l) >= Len(l) * l[1]
Cheaper(l) == /\ \A k \in 2 .. Len(l) : l[k] < l[1]
              /\ Watch!Sum(l) <= Len(l) * l[1]
AddsWell ==
  MaxLoss = 0 => \A s \in Watch!Held :
    IF side[s] = "LONG" THEN Dearer(lots[s]) ELSE Cheaper(lots[s])

WatchInv == WatchTyped /\ MapIsKept /\ AddsWell

LEMMA WatchInit == Watch!Init => WatchInv
<1> SUFFICES ASSUME Watch!Init PROVE WatchInv
  OBVIOUS
<1>1. lots = [s \in WatchSymbols |-> <<>>] /\ Watch!Held = {}
  BY DEF Watch!Init, Watch!Held
<1>2. WatchTyped
  <2>1. <<>> \in Seq(WatchPrices)
    OBVIOUS
  <2>2. watchEquity \in Nat /\ watchAccount \in WatchEquities
    BY WatchAssumption DEF Watch!Init, Watch!Default
  <2>3. side \in [WatchSymbols -> Sides] /\ value \in [WatchSymbols -> Nat]
    BY DEF Watch!Init, Sides
  <2> QED
    BY <1>1, <2>1, <2>2, <2>3 DEF WatchTyped
<1>3. MapIsKept
  <2>1. exposure = [s \in {} |-> 0] /\ sectors = [s \in {} |-> 0]
    BY DEF Watch!Init, Watch!Empty
  <2>2. exposure = [s \in Watch!Held |-> Watch!Percent(value[s], watchEquity)]
    BY <1>1, <2>1
  <2>3. Watch!BySector(exposure) = [s \in {} |-> 0]
    <3>1. DOMAIN exposure = {}
      BY <2>1
    <3>2. {Watch!SectorOf(s) : s \in DOMAIN exposure} = {}
      BY <3>1
    <3> QED
      BY <3>2 DEF Watch!BySector
  <2> QED
    BY <2>1, <2>2, <2>3 DEF MapIsKept
<1> QED
  BY <1>1, <1>2, <1>3 DEF WatchInv, AddsWell

(* One more share, bought when the position made money.                    *)
LEMMA LessThanTimes ==
  ASSUME NEW p \in Int, NEW q \in Int, NEW n \in Nat \ {0}
  PROVE  (p * n > n * q => p > q) /\ (p * n < n * q => p < q)
<1>1. ASSUME p <= q PROVE p * n <= n * q
  <2>1. PICK d \in Nat : q = p + d
    <3>1. q - p \in Nat /\ q = p + (q - p)
      BY <1>1
    <3> QED
      BY <3>1
  <2>2. n * q = p * n + n * d /\ n * d \in Nat /\ p * n \in Int
    BY <2>1
  <2> QED
    BY <2>2
<1>2. ASSUME p >= q PROVE p * n >= n * q
  <2>1. PICK d \in Nat : p = q + d
    <3>1. p - q \in Nat /\ p = q + (p - q)
      BY <1>2
    <3> QED
      BY <3>1
  <2>2. p * n = n * q + n * d /\ n * d \in Nat /\ n * q \in Int
    BY <2>1
  <2> QED
    BY <2>2
<1>3. p * n \in Int /\ n * q \in Int
  OBVIOUS
<1> QED
  BY <1>1, <1>2, <1>3

LEMMA OneMoreShare ==
  ASSUME NEW l \in Seq(Nat), l # <<>>, NEW p \in Nat
  PROVE  /\ Dearer(l) /\ p * Len(l) - Watch!Sum(l) > 0 => Dearer(Append(l, p))
         /\ Cheaper(l) /\ p * Len(l) - Watch!Sum(l) < 0 => Cheaper(Append(l, p))
<1> DEFINE more == Append(l, p)
<1>1. PICK n \in Nat \ {0} : n = Len(l)
  OBVIOUS
<1>2. /\ Len(more) = n + 1 /\ more[n + 1] = p /\ more[1] = l[1]
      /\ \A k \in 2 .. n : more[k] = l[k]
      /\ 2 .. n + 1 = (2 .. n) \cup {n + 1}
  BY <1>1
<1>3. PICK q \in Nat : q = l[1]
  BY <1>1
<1>4. PICK s \in Int : s = Watch!Sum(l)
  BY ListSum
<1>5. Watch!Sum(more) = s + p
  BY <1>4, SumAppended
<1>6. (n + 1) * q = n * q + q /\ n * q \in Int /\ p * n \in Int
  OBVIOUS
<1> HIDE DEF more
<1>7. ASSUME Dearer(l), p * Len(l) - Watch!Sum(l) > 0 PROVE Dearer(more)
  <2>1. (\A k \in 2 .. n : l[k] > q) /\ s >= n * q
    BY <1>1, <1>3, <1>4, <1>7 DEF Dearer
  <2>2. p * n - s > 0
    BY <1>1, <1>4, <1>7
  <2>3. p > q
    <3>1. p * n > n * q
      BY <1>6, <2>1, <2>2
    <3> QED
      BY <3>1, LessThanTimes
  <2>4. \A k \in 2 .. n + 1 : more[k] > q
    BY <1>2, <2>1, <2>3
  <2>5. s + p >= (n + 1) * q
    BY <1>6, <2>1, <2>3
  <2> QED
    BY <1>2, <1>3, <1>5, <2>4, <2>5 DEF Dearer
<1>8. ASSUME Cheaper(l), p * Len(l) - Watch!Sum(l) < 0 PROVE Cheaper(more)
  <2>1. (\A k \in 2 .. n : l[k] < q) /\ s <= n * q
    BY <1>1, <1>3, <1>4, <1>8 DEF Cheaper
  <2>2. p * n - s < 0
    BY <1>1, <1>4, <1>8
  <2>3. p < q
    <3>1. p * n < n * q
      BY <1>6, <2>1, <2>2
    <3> QED
      BY <3>1, LessThanTimes
  <2>4. \A k \in 2 .. n + 1 : more[k] < q
    BY <1>2, <2>1, <2>3
  <2>5. s + p <= (n + 1) * q
    BY <1>6, <2>1, <2>3
  <2> QED
    BY <1>2, <1>3, <1>5, <2>4, <2>5 DEF Cheaper
<1> QED
  BY <1>7, <1>8 DEF more

LEMMA OneShare ==
  ASSUME NEW p \in Nat
  PROVE  Dearer(Append(<<>>, p)) /\ Cheaper(Append(<<>>, p))
<1> DEFINE l == Append(<<>>, p)
<1>1. Len(l) = 1 /\ l[1] = p /\ 2 .. 1 = {} /\ <<>> \in Seq(Nat)
  OBVIOUS
<1>2. Watch!Sum(l) = p
  <2>1. Watch!Sum(l) = Watch!Sum(<<>>) + p
    BY <1>1, SumAppended
  <2> QED
    BY <2>1, SumOfEmpty
<1> HIDE DEF l
<1>3. Len(l) * l[1] = p
  BY <1>1
<1>4. Dearer(l) /\ Cheaper(l)
  BY <1>1, <1>2, <1>3 DEF Dearer, Cheaper
<1> QED
  BY <1>4 DEF l

(* A position reported at a price.                                         *)
LEMMA Reported ==
  ASSUME WatchTyped, MapIsKept, NEW s \in WatchSymbols, NEW p \in WatchPrices,
         lots' \in [WatchSymbols -> Seq(WatchPrices)], lots'[s] # <<>>,
         \A t \in WatchSymbols : t # s => lots'[t] = lots[t],
         value' = [value EXCEPT ![s] = p * Len(lots'[s])],
         Watch!UpdatePosition(s, value'[s]), watchEquity' = watchEquity
  PROVE  /\ MapIsKept'
         /\ value' \in [WatchSymbols -> Nat]
         /\ \A t \in Watch!Held' : \E q \in WatchPrices : value'[t] = q * Len(lots'[t])
<1>1. Watch!Held' = Watch!Held \cup {s}
  BY DEF Watch!Held
<1>2. /\ value' \in [WatchSymbols -> Nat] /\ value'[s] = p * Len(lots'[s])
      /\ \A t \in WatchSymbols : t # s => value'[t] = value[t]
  <2>1. p \in Nat /\ Len(lots'[s]) \in Nat
    BY WatchAssumption
  <2>2. p * Len(lots'[s]) \in Nat /\ value \in [WatchSymbols -> Nat]
    BY <2>1 DEF WatchTyped
  <2> QED
    BY <2>2
<1>3. exposure = [t \in Watch!Held |-> Watch!Percent(value[t], watchEquity)]
  BY DEF MapIsKept
<1>4. exposure' = [t \in Watch!Held' |-> Watch!Percent(value'[t], watchEquity')]
  <2> DEFINE new == [t \in Watch!Held' |-> Watch!Percent(value'[t], watchEquity')]
  <2>1. exposure' = [t \in Watch!Held' |->
                       IF t = s THEN Watch!Percent(value'[s], watchEquity) ELSE exposure[t]]
    BY <1>1, <1>3 DEF Watch!UpdatePosition
  <2>2. ASSUME NEW t \in Watch!Held'
        PROVE  (IF t = s THEN Watch!Percent(value'[s], watchEquity) ELSE exposure[t])
                 = Watch!Percent(value'[t], watchEquity')
    <3>1. CASE t = s
      BY <3>1
    <3>2. CASE t # s
      <4>1. t \in Watch!Held /\ t \in WatchSymbols
        BY <1>1, <2>2, <3>2 DEF Watch!Held
      <4> QED
        BY <1>2, <1>3, <3>2, <4>1
    <3> QED
      BY <3>1, <3>2
  <2> QED
    BY <2>1, <2>2
<1>5. MapIsKept'
  BY <1>4 DEF MapIsKept, Watch!UpdatePosition
<1>6. ASSUME NEW t \in Watch!Held' PROVE \E q \in WatchPrices : value'[t] = q * Len(lots'[t])
  <2>1. CASE t = s
    BY <1>2, <2>1
  <2>2. CASE t # s
    BY <1>1, <1>2, <2>2 DEF WatchTyped, Watch!Held
  <2> QED
    BY <2>1, <2>2
<1> QED
  BY <1>2, <1>5, <1>6

LEMMA Entered ==
  ASSUME WatchInv, NEW s \in WatchSymbols, NEW d \in Sides, NEW p \in WatchPrices,
         Watch!Enter(s, d, p)
  PROVE  WatchInv'
<1>1. WatchTyped /\ MapIsKept /\ AddsWell
  BY DEF WatchInv
<1>2. /\ lots' = [lots EXCEPT ![s] = Append(@, p)] /\ side' = [side EXCEPT ![s] = d]
      /\ value' = [value EXCEPT ![s] = p * Len(lots'[s])]
      /\ Watch!UpdatePosition(s, value'[s])
      /\ watchAccount' = watchAccount /\ watchEquity' = watchEquity
  BY DEF Watch!Enter
<1>3. /\ lots[s] \in Seq(WatchPrices) /\ lots' \in [WatchSymbols -> Seq(WatchPrices)]
      /\ lots'[s] = Append(lots[s], p) /\ lots'[s] # <<>>
      /\ side' \in [WatchSymbols -> Sides] /\ side'[s] = d
      /\ \A t \in WatchSymbols : t # s => lots'[t] = lots[t] /\ side'[t] = side[t]
  BY <1>1, <1>2 DEF WatchTyped
<1>4. /\ MapIsKept'
      /\ value' \in [WatchSymbols -> Nat]
      /\ \A t \in Watch!Held' : \E q \in WatchPrices : value'[t] = q * Len(lots'[t])
  BY <1>1, <1>2, <1>3, Reported
<1>5. WatchTyped'
  BY <1>1, <1>2, <1>3, <1>4 DEF WatchTyped
<1>6. AddsWell'
  <2> SUFFICES ASSUME MaxLoss = 0, NEW t \in Watch!Held'
               PROVE  IF side'[t] = "LONG" THEN Dearer(lots'[t]) ELSE Cheaper(lots'[t])
    BY DEF AddsWell, Dearer, Cheaper
  <2>1. p \in Nat /\ lots[s] \in Seq(Nat)
    <3>1. WatchPrices \subseteq Nat
      BY WatchAssumption
    <3> QED
      BY <1>3, <3>1, SeqMonotonic
  <2>2. CASE t # s
    <3>1. t \in Watch!Held /\ t \in WatchSymbols
      BY <1>3, <2>2 DEF Watch!Held
    <3> QED
      BY <1>1, <1>3, <2>2, <3>1 DEF AddsWell
  <2>3. CASE t = s /\ lots[s] = <<>>
    BY <1>3, <2>1, <2>3, OneShare
  <2>4. CASE t = s /\ lots[s] # <<>>
    <3>1. d = side[s] /\ Watch!Allowed(s, p)
      BY <2>4 DEF Watch!Enter
    <3>2. Watch!Profit(s, d, p) \in Int /\ Watch!Profit(s, d, p) > 0
      <4>1. PICK m \in Int : m = Watch!Sum(lots[s])
        BY <2>1, ListSum
      <4>2. PICK n \in Nat : n = Len(lots[s])
        BY <2>1
      <4>3. Watch!MaxLossPercent = 0
        BY DEF Watch!MaxLossPercent
      <4>4. Watch!Profit(s, d, p) \in Int
        BY <2>1, <4>1, <4>2 DEF Watch!Profit
      <4>5. PICK k \in Int : k = Watch!Profit(s, d, p)
        BY <4>4
      <4>6. ~(100 * k < -0 * m) /\ k # 0
        BY <2>4, <3>1, <4>1, <4>3, <4>5 DEF Watch!Allowed, Watch!Losing
      <4>7. k > 0
        BY <4>6
      <4> QED
        BY <4>5, <4>7
    <3>3. s \in Watch!Held
      BY <2>4 DEF Watch!Held
    <3>4. PICK m \in Int : m = p * Len(lots[s]) - Watch!Sum(lots[s])
      BY <2>1, ListSum
    <3>5. CASE d = "LONG"
      <4>1. m > 0
        BY <3>2, <3>4, <3>5 DEF Watch!Profit
      <4>2. Dearer(lots[s])
        BY <1>1, <3>1, <3>3, <3>5 DEF AddsWell
      <4> QED
        BY <1>3, <2>1, <2>4, <3>4, <3>5, <4>1, <4>2, OneMoreShare
    <3>6. CASE d # "LONG"
      <4>1. m < 0
        BY <3>2, <3>4, <3>6 DEF Watch!Profit
      <4>2. Cheaper(lots[s])
        BY <1>1, <3>1, <3>3, <3>6 DEF AddsWell
      <4> QED
        BY <1>3, <2>1, <2>4, <3>4, <3>6, <4>1, <4>2, OneMoreShare
    <3> QED
      BY <3>5, <3>6
  <2> QED
    BY <2>2, <2>3, <2>4
<1> QED
  BY <1>4, <1>5, <1>6 DEF WatchInv

LEMMA WatchStep == WatchInv /\ [Watch!Next]_watchVars => WatchInv'
<1> SUFFICES ASSUME WatchInv, [Watch!Next]_watchVars PROVE WatchInv'
  OBVIOUS
<1>1. WatchTyped /\ MapIsKept /\ AddsWell
  BY DEF WatchInv
<1>2. CASE UNCHANGED watchVars
  BY <1>2 DEF watchVars, WatchInv, WatchTyped, MapIsKept, AddsWell, Watch!Held, Dearer, Cheaper
<1>3. ASSUME NEW e \in WatchEquities, Watch!EquityMoves(e) PROVE WatchInv'
  <2>1. /\ watchAccount' = e /\ watchEquity' = e /\ lots' = lots /\ side' = side
        /\ value' = value /\ Watch!Held' = Watch!Held
        /\ exposure' = Watch!Reweighed(e) /\ sectors' = Watch!BySector(exposure')
    BY <1>3 DEF Watch!EquityMoves, Watch!UpdateAccountEquity, Watch!Held
  <2>2. WatchTyped'
    BY <1>1, <2>1, WatchAssumption DEF WatchTyped
  <2>3. MapIsKept'
    <3>1. DOMAIN exposure = Watch!Held
      BY <1>1 DEF MapIsKept
    <3>2. exposure' = [s \in Watch!Held' |-> Watch!Percent(value'[s], watchEquity')]
      BY <2>1, <3>1 DEF Watch!Reweighed
    <3> QED
      BY <2>1, <3>2 DEF MapIsKept
  <2>4. AddsWell'
    BY <1>1, <2>1 DEF AddsWell, Dearer, Cheaper
  <2> QED
    BY <2>2, <2>3, <2>4 DEF WatchInv
<1>4. ASSUME NEW s \in WatchSymbols, Watch!Exit(s) PROVE WatchInv'
  <2>1. /\ lots' = [lots EXCEPT ![s] = <<>>] /\ side' = [side EXCEPT ![s] = "LONG"]
        /\ value' = [value EXCEPT ![s] = 0]
        /\ watchAccount' = watchAccount /\ watchEquity' = watchEquity
        /\ exposure' = Watch!Restrict(exposure, DOMAIN exposure \ {s})
        /\ sectors' = Watch!BySector(exposure')
    BY <1>4 DEF Watch!Exit, Watch!RemovePosition
  <2>2. /\ lots' \in [WatchSymbols -> Seq(WatchPrices)] /\ side' \in [WatchSymbols -> Sides]
        /\ value' \in [WatchSymbols -> Nat] /\ lots'[s] = <<>>
        /\ \A t \in WatchSymbols :
             t # s => lots'[t] = lots[t] /\ side'[t] = side[t] /\ value'[t] = value[t]
    <3>1. <<>> \in Seq(WatchPrices) /\ "LONG" \in Sides /\ 0 \in Nat
      BY DEF Sides
    <3> QED
      BY <1>1, <2>1, <3>1 DEF WatchTyped
  <2>3. Watch!Held' = Watch!Held \ {s}
    BY <2>2 DEF Watch!Held
  <2>4. \A t \in Watch!Held' : t \in Watch!Held /\ t \in WatchSymbols /\ t # s
    BY <2>3 DEF Watch!Held
  <2>5. WatchTyped'
    BY <1>1, <2>1, <2>2, <2>4 DEF WatchTyped
  <2>6. MapIsKept'
    <3>1. exposure = [t \in Watch!Held |-> Watch!Percent(value[t], watchEquity)]
      BY <1>1 DEF MapIsKept
    <3>2. exposure' = [t \in Watch!Held \ {s} |-> exposure[t]]
      BY <2>1, <3>1 DEF Watch!Restrict
    <3>3. \A t \in Watch!Held \ {s} : exposure[t] = Watch!Percent(value'[t], watchEquity')
      BY <2>1, <2>2, <2>3, <2>4, <3>1
    <3>4. exposure' = [t \in Watch!Held' |-> Watch!Percent(value'[t], watchEquity')]
      BY <2>3, <3>2, <3>3, Zenon
    <3> QED
      BY <2>1, <3>4 DEF MapIsKept
  <2>7. AddsWell'
    BY <1>1, <2>2, <2>4 DEF AddsWell, Dearer, Cheaper
  <2> QED
    BY <2>5, <2>6, <2>7 DEF WatchInv
<1>5. ASSUME NEW s \in WatchSymbols, NEW p \in WatchPrices, Watch!Mark(s, p) PROVE WatchInv'
  <2>1. /\ lots' = lots /\ side' = side /\ lots[s] # <<>>
        /\ value' = [value EXCEPT ![s] = p * Len(lots'[s])]
        /\ Watch!UpdatePosition(s, value'[s])
        /\ watchAccount' = watchAccount /\ watchEquity' = watchEquity
        /\ Watch!Held' = Watch!Held
    BY <1>5 DEF Watch!Mark, Watch!Held
  <2>2. lots' \in [WatchSymbols -> Seq(WatchPrices)]
    BY <1>1, <2>1 DEF WatchTyped
  <2>3. /\ MapIsKept'
        /\ value' \in [WatchSymbols -> Nat]
        /\ \A t \in Watch!Held' : \E q \in WatchPrices : value'[t] = q * Len(lots'[t])
    BY <1>1, <2>1, <2>2, Reported
  <2>4. WatchTyped' /\ AddsWell'
    BY <1>1, <2>1, <2>3 DEF WatchTyped, AddsWell, Dearer, Cheaper
  <2> QED
    BY <2>3, <2>4 DEF WatchInv
<1>6. ASSUME NEW s \in WatchSymbols, NEW p \in WatchPrices, Watch!Blocked(s, p) PROVE WatchInv'
  <2>1. /\ watchAccount' = watchAccount /\ lots' = lots /\ side' = side /\ value' = value
        /\ watchEquity' = watchEquity /\ exposure' = exposure /\ sectors' = sectors
        /\ Watch!Held' = Watch!Held
    BY <1>6 DEF Watch!Blocked, Watch!mapper, Watch!Held
  <2> QED
    BY <1>1, <2>1 DEF WatchInv, WatchTyped, MapIsKept, AddsWell, Dearer, Cheaper
<1> QED
  <2>1. {"LONG", "SHORT"} = Sides
    BY DEF Sides
  <2> QED
    BY <1>2, <1>3, <1>4, <1>5, <1>6, <2>1, Entered DEF Watch!Next

SectorNames == {"Technology", "Financials", "Unknown"}

LEMMA ExactQuotient ==
  ASSUME NEW e \in Nat \ {0}, NEW k \in Int, NEW n \in Int, n = e * k
  PROVE  n \div e = k
<1>1. PICK q \in Int, r \in Int : q = n \div e /\ n = e * q + r /\ 0 <= r /\ r < e
  <2>1. n = e * (n \div e) + (n % e) /\ n % e \in 0 .. e - 1 /\ n \div e \in Int
    OBVIOUS
  <2> QED
    BY <2>1
<1>2. e * (k - q) = r
  BY <1>1
<1>3. k - q = 0
  <2>1. CASE k - q >= 1
    <3>1. PICK d \in Nat : k - q = 1 + d
      <4>1. k - q - 1 \in Nat /\ k - q = 1 + (k - q - 1)
        BY <2>1
      <4> QED
        BY <4>1
    <3>2. e * (1 + d) = e + e * d /\ e * d \in Nat
      OBVIOUS
    <3> QED
      BY <1>1, <1>2, <3>1, <3>2
  <2>2. CASE k - q <= -1
    <3>1. PICK d \in Nat : k - q = -1 - d
      <4>1. q - k - 1 \in Nat /\ k - q = -1 - (q - k - 1)
        BY <2>2
      <4> QED
        BY <4>1
    <3>2. e * (-1 - d) = -e - e * d /\ e * d \in Nat
      OBVIOUS
    <3> QED
      BY <1>1, <1>2, <3>1, <3>2
  <2> QED
    BY <2>1, <2>2
<1> QED
  BY <1>1, <1>3

(* The exposures are exact, and so are their sums.                         *)
LEMMA ExposuresAreExact ==
  ASSUME WatchTyped, MapIsKept, watchEquity = watchAccount
  PROVE  /\ DOMAIN exposure = Watch!Held /\ Watch!Held \subseteq WatchSymbols
         /\ \A s \in Watch!Held :
              /\ value[s] \in Nat /\ exposure[s] = Watch!Percent(value[s], watchAccount)
              /\ exposure[s] \in Int
              /\ watchAccount = 0 => exposure[s] = 0
              /\ watchAccount # 0 => 100 * value[s] = watchAccount * exposure[s]
<1>1. exposure = [s \in Watch!Held |-> Watch!Percent(value[s], watchAccount)]
  BY DEF MapIsKept
<1>2. Watch!Held \subseteq WatchSymbols
  BY DEF Watch!Held
<1> SUFFICES ASSUME NEW s \in Watch!Held
             PROVE  /\ value[s] \in Nat
                    /\ exposure[s] \in Int
                    /\ watchAccount = 0 => exposure[s] = 0
                    /\ watchAccount # 0 => 100 * value[s] = watchAccount * exposure[s]
  BY <1>1, <1>2
<1>3. exposure[s] = Watch!Percent(value[s], watchAccount) /\ value[s] \in Nat
  BY <1>1, <1>2 DEF WatchTyped
<1>4. CASE watchAccount = 0
  BY <1>3, <1>4 DEF Watch!Percent
<1>5. CASE watchAccount # 0
  <2>1. PICK e \in Nat \ {0} : e = watchAccount /\ e \in WatchEquities \ {0}
    BY <1>5, WatchAssumption DEF WatchTyped
  <2>2. PICK p \in WatchPrices : value[s] = p * Len(lots[s])
    BY DEF WatchTyped
  <2>3. PICK q \in Int : 100 * p = e * q
    <3>1. p \in Nat /\ 100 * p \in Nat /\ (100 * p) % e = 0
      BY <2>1, WatchAssumption
    <3>2. 100 * p = e * ((100 * p) \div e) + ((100 * p) % e) /\ (100 * p) \div e \in Int
      BY <3>1
    <3> QED
      BY <3>1, <3>2
  <2>4. PICK n \in Nat : n = Len(lots[s])
    BY <1>2 DEF WatchTyped
  <2>5. p \in Nat
    BY WatchAssumption
  <2>6. 100 * (p * n) = e * (q * n) /\ q * n \in Int /\ 100 * (p * n) \in Int
    <3>1. 100 * (p * n) = (100 * p) * n /\ e * (q * n) = (e * q) * n
      BY <2>5
    <3> QED
      BY <2>3, <2>5, <3>1
  <2>7. (100 * (p * n)) \div e = q * n
    BY <2>6, ExactQuotient
  <2>8. exposure[s] = q * n
    BY <1>3, <2>1, <2>2, <2>4, <2>7 DEF Watch!Percent
  <2> QED
    BY <1>3, <1>5, <2>1, <2>2, <2>4, <2>6, <2>8
<1> QED
  BY <1>4, <1>5

LEMMA SectorsHold ==
  /\ \A s \in WatchSymbols : Watch!SectorOf(s) \in SectorNames
  /\ IsFiniteSet(SectorNames)
<1>1. \A s \in WatchSymbols : Watch!SectorOf(s) \in SectorNames
  BY DEF Watch!SectorOf, SectorNames
<1>2. IsFiniteSet({"Technology"}) /\ IsFiniteSet({"Financials"}) /\ IsFiniteSet({"Unknown"})
  BY FS_Singleton
<1>3. IsFiniteSet({"Technology"} \cup {"Financials"})
  BY <1>2, FS_Union
<1>4. IsFiniteSet(({"Technology"} \cup {"Financials"}) \cup {"Unknown"})
  BY <1>2, <1>3, FS_Union
<1>5. SectorNames = ({"Technology"} \cup {"Financials"}) \cup {"Unknown"}
  BY DEF SectorNames
<1> QED
  BY <1>1, <1>4, <1>5

(* A percentage as check_concentration() takes it.                         *)
Pct(v, e) == IF e > 0 THEN (100 * v) \div e ELSE 0

(* The notionals of the sectors give the sectors' exposures.               *)
LEMMA SectorsAreExact ==
  ASSUME WatchTyped, MapIsKept, watchEquity = watchAccount
  PROVE  LET total == Watch!BySector(Watch!Notional) IN
         /\ DOMAIN total = DOMAIN sectors
         /\ DOMAIN sectors = {Watch!SectorOf(s) : s \in Watch!Held}
         /\ \A x \in DOMAIN sectors :
              sectors[x] \in Int /\ Pct(total[x], watchAccount) = sectors[x]
<1> DEFINE total == Watch!BySector(Watch!Notional)
           member(x) == {s \in Watch!Held : Watch!SectorOf(s) = x}
<1>1. /\ DOMAIN exposure = Watch!Held /\ Watch!Held \subseteq WatchSymbols
      /\ \A s \in Watch!Held :
           /\ value[s] \in Nat
           /\ exposure[s] \in Int
           /\ watchAccount = 0 => exposure[s] = 0
           /\ watchAccount # 0 => 100 * value[s] = watchAccount * exposure[s]
  BY ExposuresAreExact
<1>2. Watch!Notional = [s \in Watch!Held |-> value[s]]
  <2>1. DOMAIN value = WatchSymbols
    BY DEF WatchTyped
  <2> QED
    BY <2>1 DEF Watch!Notional, Watch!Restrict, Watch!Held
<1>3. total = [x \in {Watch!SectorOf(s) : s \in Watch!Held} |->
                 Watch!Total(Watch!Notional, member(x))]
  BY <1>2 DEF Watch!BySector, Watch!Members
<1>4. sectors = [x \in {Watch!SectorOf(s) : s \in Watch!Held} |->
                   Watch!Total(exposure, member(x))]
  BY <1>1 DEF MapIsKept, Watch!BySector, Watch!Members
<1>5. ASSUME NEW x \in {Watch!SectorOf(s) : s \in Watch!Held}
      PROVE  sectors[x] \in Int /\ Pct(total[x], watchAccount) = sectors[x]
  <2> DEFINE S == member(x)
             h == Watch!Notional
  <2>1. total[x] = SumOf(h, S) /\ sectors[x] = SumOf(exposure, S)
    BY <1>3, <1>4, WatchTotal
  <2>2. IsFiniteSet(S) /\ S \subseteq Watch!Held
    <3>1. S \subseteq WatchSymbols
      BY <1>1
    <3> QED
      BY <3>1, FS_Subset, WatchAssumption
  <2>3. \A s \in S : h[s] \in Int /\ h[s] = value[s] /\ exposure[s] \in Int
    BY <1>1, <1>2, <2>2
  <2> HIDE DEF S, h, total, member
  <2>4. SumOf(h, S) \in Int /\ SumOf(exposure, S) \in Int
    BY <2>2, <2>3, SameSum
  <2>5. CASE watchAccount = 0
    <3>1. \A s \in S : exposure[s] \in Int /\ h[s] \in Int /\ 1 * exposure[s] = 0 * h[s]
      BY <1>1, <2>2, <2>3, <2>5
    <3>2. 1 * SumOf(exposure, S) = 0 * SumOf(h, S)
      BY <2>2, <3>1, SumScales
    <3>3. SumOf(exposure, S) = 0
      BY <2>4, <3>2
    <3> QED
      BY <2>1, <2>5, <3>3 DEF Pct
  <2>6. CASE watchAccount # 0
    <3>1. PICK e \in Nat \ {0} : e = watchAccount
      BY <2>6, WatchAssumption DEF WatchTyped
    <3>2. \A s \in S : h[s] \in Int /\ exposure[s] \in Int /\ 100 * h[s] = e * exposure[s]
      BY <1>1, <2>2, <2>3, <2>6, <3>1
    <3>3. 100 * SumOf(h, S) = e * SumOf(exposure, S)
      BY <2>2, <3>2, SumScales
    <3>4. PICK m \in Int, k \in Int : m = SumOf(h, S) /\ k = SumOf(exposure, S)
      BY <2>4
    <3>5. 100 * m = e * k /\ 100 * m \in Int
      BY <3>3, <3>4
    <3>6. (100 * m) \div e = k
      BY <3>5, ExactQuotient
    <3> QED
      BY <2>1, <2>4, <3>1, <3>4, <3>6 DEF Pct
  <2> QED
    BY <2>5, <2>6
<1> QED
  BY <1>3, <1>4, <1>5

LEMMA WatchMinMax ==
  ASSUME NEW m \in Int, NEW n \in Int
  PROVE  Watch!Min({m, n}) = IF m < n THEN m ELSE n
<1> DEFINE k == IF m < n THEN m ELSE n
<1>1. k \in {m, n} /\ \A y \in {m, n} : k <= y
  OBVIOUS
<1>2. \A x \in {m, n} : (\A y \in {m, n} : x <= y) => x = k
  OBVIOUS
<1> QED
  BY <1>1, <1>2 DEF Watch!Min

(* The score of a larger exposure is no lower.                             *)
LEMMA HotterScores ==
  ASSUME NEW m \in Int, NEW n \in Int, m <= n
  PROVE  Watch!HeatScore(m) <= Watch!HeatScore(n)
<1> DEFINE score(x) == LET low == IF x < 10 THEN x ELSE 10
                           heat == 50 * low + 150 + 100
                       IN  IF heat < 1000 THEN heat ELSE 1000
<1>1. ASSUME NEW x \in Int PROVE Watch!HeatScore(x) = score(x)
  <2>1. PICK low \in Int : low = Watch!Min({x, 10}) /\ low = IF x < 10 THEN x ELSE 10
    BY WatchMinMax
  <2>2. 50 * low + 150 + 100 \in Int
    OBVIOUS
  <2>3. Watch!Min({50 * low + 150 + 100, 1000})
          = IF 50 * low + 150 + 100 < 1000 THEN 50 * low + 150 + 100 ELSE 1000
    BY <2>2, WatchMinMax
  <2> QED
    BY <2>1, <2>3 DEF Watch!HeatScore
<1>2. score(m) <= score(n)
  OBVIOUS
<1> HIDE DEF score
<1> QED
  BY <1>1, <1>2

(* The map put together from its pieces is the check of the positions.     *)
LEMMA MapStays ==
  ASSUME WatchTyped, MapIsKept, watchEquity = watchAccount
  PROVE  /\ DOMAIN exposure = Watch!Held
         /\ Watch!Critical = Watch!ConcentratedRisks \ {"Unknown"}
         /\ Watch!IsConcentrated <=> Watch!ConcentratedRisks # {}
         /\ Watch!DetectConcentrations \subseteq Watch!ConcentratedRisks
         /\ Watch!Statistics.positions + Watch!Statistics.sectors
              = Watch!Cardinality(Watch!ConcentratedRisks)
         /\ Watch!AnyHeat
<1> DEFINE total == Watch!BySector(Watch!Notional)
           hot == Watch!AtLeast(exposure, MaxSingle)
           heavy == Watch!AtLeast(sectors, MaxSector)
<1>1. /\ DOMAIN exposure = Watch!Held /\ Watch!Held \subseteq WatchSymbols
      /\ \A s \in Watch!Held : value[s] \in Nat /\ exposure[s] \in Int
                               /\ exposure[s] = Watch!Percent(value[s], watchAccount)
  BY ExposuresAreExact
<1>2. /\ DOMAIN total = DOMAIN sectors
      /\ DOMAIN sectors = {Watch!SectorOf(s) : s \in Watch!Held}
      /\ \A x \in DOMAIN sectors :
           sectors[x] \in Int /\ Pct(total[x], watchAccount) = sectors[x]
  BY SectorsAreExact
<1>3. Watch!Notional = [s \in Watch!Held |-> value[s]]
  <2>1. DOMAIN value = WatchSymbols
    BY DEF WatchTyped
  <2> QED
    BY <2>1 DEF Watch!Notional, Watch!Restrict, Watch!Held
<1>4. \A s \in Watch!Held : Pct(Watch!Notional[s], watchAccount) = exposure[s]
  <2>1. watchAccount \in Nat
    BY WatchAssumption DEF WatchTyped
  <2>2. watchAccount > 0 <=> watchAccount # 0
    BY <2>1
  <2> QED
    BY <1>1, <1>3, <2>2 DEF Pct, Watch!Percent
<1>5. DOMAIN sectors \subseteq SectorNames /\ SectorNames \cap Watch!Held = {}
  <2>1. SectorNames \cap WatchSymbols = {}
    BY WatchAssumption DEF SectorNames
  <2> QED
    BY <1>1, <1>2, <2>1, SectorsHold
<1>6. Watch!ConcentratedRisks = hot \cup heavy /\ hot \subseteq Watch!Held
      /\ heavy \subseteq DOMAIN sectors
  BY <1>1 DEF Watch!ConcentratedRisks, Watch!AtLeast
<1>7. Watch!Critical = Watch!ConcentratedRisks \ {"Unknown"}
  <2> DEFINE single(s) ==
               Watch!Severity(Pct(Watch!Notional[s], watchAccount), WarnSingle, MaxSingle)
             sector(x) == Watch!Severity(Pct(total[x], watchAccount), WarnSector, MaxSector)
             all == {[of |-> s, severity |-> single(s)] : s \in Watch!Held}
                    \cup {[of |-> x, severity |-> sector(x)] : x \in DOMAIN sectors \ {"Unknown"}}
  <2>1. \A s \in Watch!Held : single(s) = "CRITICAL" <=> s \in hot
    BY <1>1, <1>4, WatchAssumption DEF Watch!Severity, Watch!AtLeast
  <2>2. \A x \in DOMAIN sectors : sector(x) = "CRITICAL" <=> x \in heavy
    BY <1>2, WatchAssumption DEF Watch!Severity, Watch!AtLeast
  <2>3. Watch!Alerts(Watch!Notional, watchAccount) = {a \in all : a.severity # "none"}
    <3>1. DOMAIN Watch!Notional = Watch!Held
      BY <1>3
    <3> QED
      BY <1>2, <3>1, Zenon DEF Watch!Alerts, Pct
  <2> HIDE DEF single, sector, total, hot, heavy
  <2>4. ASSUME NEW y \in Watch!Critical PROVE y \in Watch!ConcentratedRisks \ {"Unknown"}
    <3>1. PICK a \in all : a.severity = "CRITICAL" /\ y = a.of
      BY <2>3, <2>4 DEF Watch!Critical
    <3>2. CASE \E s \in Watch!Held : a = [of |-> s, severity |-> single(s)]
      BY <1>5, <1>6, <2>1, <3>1, <3>2 DEF SectorNames
    <3>3. CASE \E x \in DOMAIN sectors \ {"Unknown"} : a = [of |-> x, severity |-> sector(x)]
      BY <1>6, <2>2, <3>1, <3>3
    <3> QED
      BY <3>1, <3>2, <3>3
  <2>5. ASSUME NEW y \in Watch!ConcentratedRisks \ {"Unknown"} PROVE y \in Watch!Critical
    <3>1. SUFFICES \E a \in all : a.severity = "CRITICAL" /\ y = a.of
      BY <2>3 DEF Watch!Critical
    <3>2. CASE y \in hot
      <4>1. [of |-> y, severity |-> single(y)] \in all
        BY <1>6, <3>2
      <4> QED
        BY <1>6, <2>1, <3>2, <4>1
    <3>3. CASE y \in heavy
      <4>1. [of |-> y, severity |-> sector(y)] \in all
        BY <1>6, <3>3
      <4> QED
        BY <1>6, <2>2, <3>3, <4>1
    <3> QED
      BY <1>6, <3>2, <3>3
  <2> QED
    BY <2>4, <2>5
<1>8. Watch!IsConcentrated <=> Watch!ConcentratedRisks # {}
  BY <1>1, <1>2 DEF Watch!IsConcentrated, Watch!ConcentratedRisks, Watch!AtLeast
<1>9. Watch!DetectConcentrations \subseteq Watch!ConcentratedRisks
  BY <1>1, WatchAssumption
     DEF Watch!DetectConcentrations, Watch!ConcentratedRisks, Watch!AtLeast
<1>10. Watch!Statistics.positions + Watch!Statistics.sectors
         = Watch!Cardinality(Watch!ConcentratedRisks)
  <2>1. IsFiniteSet(hot) /\ IsFiniteSet(heavy) /\ hot \cap heavy = {}
    <3>1. hot \subseteq WatchSymbols /\ heavy \subseteq SectorNames
      BY <1>1, <1>5, <1>6
    <3>2. IsFiniteSet(hot)
      BY <3>1, FS_Subset, WatchAssumption
    <3>3. IsFiniteSet(heavy)
      BY <3>1, FS_Subset, SectorsHold
    <3> QED
      BY <1>5, <1>6, <3>1, <3>2, <3>3
  <2> HIDE DEF hot, heavy
  <2>2. Cardinality(hot \cup heavy)
          = Cardinality(hot) + Cardinality(heavy) - Cardinality(hot \cap heavy)
    BY <2>1, FS_Union
  <2>3. Cardinality(hot) \in Nat /\ Cardinality(heavy) \in Nat /\ Cardinality(hot \cap heavy) = 0
    BY <2>1, FS_CardinalityType, FS_EmptySet
  <2>4. Cardinality(hot \cup heavy) = Cardinality(hot) + Cardinality(heavy)
    BY <2>2, <2>3
  <2>5. /\ Watch!Statistics.positions = Cardinality(hot)
        /\ Watch!Statistics.sectors = Cardinality(heavy)
    BY WatchCount DEF Watch!Statistics, hot, heavy
  <2> QED
    BY <1>6, <2>4, <2>5, WatchCount
<1>11. Watch!AnyHeat
  <2> DEFINE heat == Watch!HeatMap(Watch!Notional, watchAccount)
  <2>1. \A s \in Watch!Held : heat[s] = Watch!HeatScore(exposure[s])
    <3>1. DOMAIN Watch!Notional = Watch!Held
      BY <1>3
    <3>2. heat = [s \in Watch!Held |-> Watch!HeatScore(Pct(Watch!Notional[s], watchAccount))]
      BY <3>1, Zenon DEF Watch!HeatMap, Pct
    <3> QED
      BY <1>4, <3>2
  <2> HIDE DEF heat
  <2>2. ASSUME NEW s \in Watch!Hottest, NEW t \in Watch!Held PROVE heat[t] <= heat[s]
    <3>1. s \in Watch!Held /\ exposure[t] <= exposure[s]
      BY <1>1 DEF Watch!Hottest
    <3>2. Watch!HeatScore(exposure[t]) <= Watch!HeatScore(exposure[s])
      BY <1>1, <3>1, HotterScores
    <3> QED
      BY <2>1, <3>1, <3>2
  <2> QED
    BY <2>2 DEF Watch!AnyHeat, heat
<1> QED
  BY <1>1, <1>7, <1>8, <1>9, <1>10, <1>11

LEMMA WatchedWell == WatchInv => Watch!WatchKeepsUp
<1> SUFFICES ASSUME WatchInv PROVE Watch!MapIsCurrent /\ Watch!NeverAveragesDown
  BY DEF Watch!WatchKeepsUp
<1>1. WatchTyped /\ MapIsKept /\ AddsWell
  BY DEF WatchInv
<1>2. Watch!MapIsCurrent
  BY <1>1, MapStays DEF Watch!MapIsCurrent
<1>3. Watch!NeverAveragesDown
  <2> SUFFICES ASSUME MaxLoss = 0, NEW s \in Watch!Held, NEW k \in 2 .. Len(lots[s])
               PROVE  Watch!Better(side[s], lots[s][k], lots[s][1])
    BY DEF Watch!NeverAveragesDown
  <2> QED
    BY <1>1 DEF AddsWell, Dearer, Cheaper, Watch!Better
<1> QED
  BY <1>2, <1>3

(* For any symbols, prices, limits and equities that divide a hundred      *)
(* times every price: at the account's equity the mapper's pieces name the *)
(* risks that a check of the positions names, and without an allowed loss  *)
(* no share is added at a price worse than the position's first.           *)
THEOREM Watched == MCSpec => []WatchKeepsUp
<1>1. MCInit => WatchInv
  BY Begins, WatchInit
<1>2. WatchInv /\ [MCNext]_allVars => WatchInv'
  BY Moves, WatchStep
<1>3. WatchInv => WatchKeepsUp
  BY WatchedWell DEF WatchKeepsUp
<1> QED
  BY <1>1, <1>2, <1>3, PTL DEF MCSpec

-----------------------------------------------------------------------------
(* ExecutionReports.  Every submission is lost, waits or had an outcome,   *)
(* and of the outcomes the history has the last ones, each of an order of  *)
(* its own (OrdersKept, OutcomesKept); an order filled in it was reported  *)
(* to the analyzer too (FilledWereTold), whose records are its last fills  *)
(* (RecordsMatch).                                                         *)

LEMMA FillsCount == \A S : Fills!Cardinality(S) = Cardinality(S)
  BY DEF Fills!Cardinality, Cardinality

LEMMA FillsSum == \A S, f : Fills!SumOver(S, f) = SumOf(f, S)
  BY DEF Fills!SumOver, Fills!FoldFunctionOnSet, Fills!MapThenFoldSet, SumOf, IsSum, Any

LEMMA LatestIs ==
  ASSUME NEW T, NEW log \in Seq(T), NEW n \in Nat
  PROVE  LET kept == Fills!Latest(log, n) skip == Len(log) - Len(kept) IN
         /\ kept \in Seq(T)
         /\ Len(kept) = (IF Len(log) <= n THEN Len(log) ELSE n)
         /\ \A k \in 1 .. Len(kept) : skip + k \in 1 .. Len(log) /\ kept[k] = log[skip + k]
<1>1. Len(log) - n + 1 \in Int /\ Len(log) \in Nat
  OBVIOUS
<1>2. PICK m \in Int : m = Fills!Max({1, Len(log) - n + 1})
                       /\ m = (IF Len(log) <= n THEN 1 ELSE Len(log) - n + 1)
  <2> DEFINE k == IF Len(log) <= n THEN 1 ELSE Len(log) - n + 1
             S == {1, Len(log) - n + 1}
  <2>1. k \in S /\ k \in Int /\ \A y \in S : k >= y
    BY <1>1
  <2>2. \A x \in S : (\A y \in S : x >= y) => x = k
    BY <1>1
  <2>3. Fills!Max(S) = k
    BY <2>1, <2>2 DEF Fills!Max
  <2> QED
    BY <2>1, <2>3
<1>3. Fills!Latest(log, n) = SubSeq(log, m, Len(log))
  BY <1>2 DEF Fills!Latest
<1> DEFINE kept == SubSeq(log, m, Len(log))
<1>4. m \in 1 .. Len(log) + 1 /\ Len(log) - m + 1 \in Nat
  BY <1>1, <1>2
<1>5. kept = [k \in 1 .. Len(log) - m + 1 |-> log[k + m - 1]]
  BY <1>4
<1>6. \A k \in 1 .. Len(log) - m + 1 : k + m - 1 \in 1 .. Len(log) /\ log[k + m - 1] \in T
  BY <1>4
<1>7. kept \in Seq(T) /\ Len(kept) = Len(log) - m + 1
  BY <1>4, <1>5, <1>6
<1>8. \A k \in 1 .. Len(log) - m + 1 : kept[k] = log[k + m - 1]
  BY <1>5
<1> HIDE DEF kept
<1>9. Len(log) - Len(kept) = m - 1
  BY <1>1, <1>4, <1>7
<1>10. \A k \in 1 .. Len(kept) : Len(log) - Len(kept) + k = k + m - 1
  BY <1>4, <1>7, <1>9
<1>11. Len(kept) = (IF Len(log) <= n THEN Len(log) ELSE n)
  BY <1>1, <1>2, <1>4, <1>7
<1>12. Fills!Latest(log, n) = kept
  BY <1>3 DEF kept
<1> QED
  BY <1>6, <1>7, <1>8, <1>10, <1>11, <1>12

FillOrder ==
  [number : Nat \ {0}, side : {"BUY", "SELL"}, expected : Nat, quantity : Nat, at : Nat]
FillOutcome ==
  [order : FillOrder, status : {"FILLED", "REJECTED", "CANCELLED"}, price : Nat, took : Int]
FillTold == [number : Nat, order : FillOrder, price : Nat]
FillRecord == [side : {"BUY", "SELL"}, quantity : Nat, bps : Int, took : Int, dollars : Int]

OrdersKept ==
  /\ fillsNow \in Nat /\ submissions \in Seq(FillOrder)
  /\ \A n \in DOMAIN submissions : submissions[n].number = n
  /\ pending \in [FillIds -> FillOrder \cup {Fills!NoOrder}]
  /\ \A i \in Fills!Waiting :
       /\ pending[i].number \in DOMAIN submissions \ lost
       /\ pending[i] = submissions[pending[i].number]
  /\ \A i, j \in Fills!Waiting : pending[i].number = pending[j].number => i = j
  /\ lost \subseteq DOMAIN submissions

(* The orders that had an outcome.                                         *)
Closed == {n \in DOMAIN submissions \ lost : \A i \in Fills!Waiting : pending[i].number # n}

(* Every outcome in the history is of an order of its own, and the history *)
(* lacks none until it had to drop one.                                    *)
OutcomesKept ==
  /\ executions \in Seq(FillOutcome)
  /\ \A k \in DOMAIN executions :
       /\ executions[k].order.number \in Closed
       /\ executions[k].order = submissions[executions[k].order.number]
  /\ \A k, m \in DOMAIN executions :
       executions[k].order.number = executions[m].order.number => k = m
  /\ Len(executions) <= Cardinality(Closed)
  /\ Cardinality(Closed) <= MaxHistory =>
       \A n \in Closed : \E k \in DOMAIN executions : executions[k].order.number = n

FilledWereTold ==
  /\ fills \in Seq(FillTold)
  /\ \A k \in DOMAIN executions : executions[k].status = "FILLED" =>
       \E n \in DOMAIN fills :
         fills[n].number = executions[k].order.number /\ fills[n].price = executions[k].price

(* A record is the report of its fill.                                     *)
Matches(r, f) ==
  /\ r.dollars = Fills!Opposite(f) * Fills!MonitorDollars(f)
  /\ f.order.expected # 0 =>
       r.bps * f.order.expected - 10000 * (f.price - f.order.expected) * Fills!Opposite(f)
         \in -f.order.expected .. f.order.expected
RecordsMatch ==
  /\ records \in Seq(FillRecord)
  /\ Len(records) = (IF Len(fills) <= RecordsKept THEN Len(fills) ELSE RecordsKept)
  /\ \A k \in 1 .. Len(records) : Matches(records[k], fills[Len(fills) - Len(records) + k])

FillsInv == OrdersKept /\ OutcomesKept /\ FilledWereTold /\ RecordsMatch

LEMMA ClosedIsFinite ==
  ASSUME OrdersKept
  PROVE  IsFiniteSet(Closed) /\ Cardinality(Closed) \in Nat
<1>1. DOMAIN submissions = 1 .. Len(submissions) /\ Len(submissions) \in Nat
  BY DEF OrdersKept
<1>2. IsFiniteSet(1 .. Len(submissions))
  BY <1>1, FS_Interval
<1>3. Closed \in SUBSET (1 .. Len(submissions))
  BY <1>1 DEF Closed
<1> QED
  BY <1>2, <1>3, FS_Subset, FS_CardinalityType

LEMMA FillsInit == Fills!Init => FillsInv
<1> SUFFICES ASSUME Fills!Init PROVE FillsInv
  OBVIOUS
<1>1. /\ fillsNow = 0 /\ pending = [i \in FillIds |-> Fills!NoOrder] /\ executions = <<>>
      /\ records = <<>> /\ submissions = <<>> /\ fills = <<>> /\ lost = {}
  BY DEF Fills!Init
<1>2. Fills!Waiting = {}
  BY <1>1 DEF Fills!Waiting, Fills!IsPending
<1>3. OrdersKept
  BY <1>1, <1>2 DEF OrdersKept
<1>4. OutcomesKept
  <2>1. Closed = {}
    BY <1>1 DEF Closed
  <2>2. Cardinality(Closed) = 0
    BY <2>1, FS_EmptySet
  <2>3. executions \in Seq(FillOutcome) /\ DOMAIN executions = {} /\ Len(executions) = 0
    BY <1>1
  <2> QED
    BY <2>1, <2>2, <2>3 DEF OutcomesKept
<1>5. FilledWereTold
  BY <1>1 DEF FilledWereTold
<1>6. RecordsMatch
  BY <1>1, FillsAssumption DEF RecordsMatch
<1> QED
  BY <1>3, <1>4, <1>5, <1>6 DEF FillsInv

LEMMA Submitted ==
  ASSUME FillsInv, NEW i \in FillIds, NEW b \in {"BUY", "SELL"}, NEW e \in ExpectedPrices,
         NEW q \in FillQuantities, Fills!RecordSubmission(i, b, e, q)
  PROVE  FillsInv'
<1>1. OrdersKept /\ OutcomesKept /\ FilledWereTold /\ RecordsMatch
  BY DEF FillsInv
<1> DEFINE N == Len(submissions)
           order ==
             [number |-> N + 1, side |-> b, expected |-> e, quantity |-> q, at |-> fillsNow]
<1>2. /\ pending' = [pending EXCEPT ![i] = order] /\ submissions' = Append(submissions, order)
      /\ lost' = (IF Fills!IsPending(i) THEN lost \cup {pending[i].number} ELSE lost)
      /\ fillsNow' = fillsNow /\ executions' = executions /\ records' = records /\ fills' = fills
  BY DEF Fills!RecordSubmission
<1>3. N \in Nat /\ DOMAIN submissions = 1 .. N /\ order \in FillOrder /\ order.number = N + 1
      /\ order # Fills!NoOrder
  <2>1. e \in Nat /\ q \in Nat /\ fillsNow \in Nat /\ N \in Nat
    BY <1>1, FillsAssumption DEF OrdersKept
  <2> QED
    BY <1>1, <2>1 DEF OrdersKept, FillOrder, Fills!NoOrder
<1>4. /\ submissions' \in Seq(FillOrder) /\ DOMAIN submissions' = 1 .. N + 1
      /\ submissions'[N + 1] = order /\ \A n \in 1 .. N : submissions'[n] = submissions[n]
  BY <1>1, <1>2, <1>3 DEF OrdersKept
<1> HIDE DEF N, order
<1>5. /\ Fills!Waiting' = Fills!Waiting \cup {i}
      /\ pending' \in [FillIds -> FillOrder \cup {Fills!NoOrder}]
      /\ pending'[i] = order /\ \A j \in FillIds : j # i => pending'[j] = pending[j]
  <2>1. /\ pending' \in [FillIds -> FillOrder \cup {Fills!NoOrder}]
        /\ pending'[i] = order /\ \A j \in FillIds : j # i => pending'[j] = pending[j]
    BY <1>1, <1>2, <1>3 DEF OrdersKept
  <2> QED
    BY <1>3, <2>1 DEF Fills!Waiting, Fills!IsPending
<1>6. i \in Fills!Waiting <=> Fills!IsPending(i)
  BY DEF Fills!Waiting
<1>7. /\ lost \subseteq lost' /\ lost' \subseteq 1 .. N
      /\ \A j \in Fills!Waiting : j # i => pending[j].number \notin lost'
      /\ i \in Fills!Waiting => pending[i].number \in lost'
  BY <1>1, <1>2, <1>3, <1>6 DEF OrdersKept
<1>8. OrdersKept'
  <2>1. \A n \in DOMAIN submissions' : submissions'[n].number = n
    BY <1>1, <1>3, <1>4 DEF OrdersKept
  <2>2. ASSUME NEW j \in Fills!Waiting'
        PROVE  /\ pending'[j].number \in DOMAIN submissions' \ lost'
               /\ pending'[j] = submissions'[pending'[j].number]
               /\ j # i => pending'[j].number \in 1 .. N
    <3>1. CASE j = i
      BY <1>3, <1>4, <1>5, <1>7, <3>1
    <3>2. CASE j # i
      <4>1. j \in Fills!Waiting /\ j \in FillIds
        BY <1>5, <3>2 DEF Fills!Waiting
      <4> QED
        BY <1>1, <1>3, <1>4, <1>5, <1>7, <3>2, <4>1 DEF OrdersKept
    <3> QED
      BY <3>1, <3>2
  <2>3. \A j, k \in Fills!Waiting' : pending'[j].number = pending'[k].number => j = k
    <3> SUFFICES ASSUME NEW j \in Fills!Waiting', NEW k \in Fills!Waiting',
                        pending'[j].number = pending'[k].number
                 PROVE  j = k
      OBVIOUS
    <3>1. CASE j # i /\ k # i
      <4>1. j \in Fills!Waiting /\ j \in FillIds /\ k \in Fills!Waiting /\ k \in FillIds
        BY <1>5, <3>1 DEF Fills!Waiting
      <4> QED
        BY <1>1, <1>5, <3>1, <4>1 DEF OrdersKept
    <3>2. CASE j = i \/ k = i
      BY <1>3, <1>5, <2>2, <3>2
    <3> QED
      BY <3>1, <3>2
  <2>4. lost' \subseteq DOMAIN submissions'
    BY <1>3, <1>4, <1>7
  <2> QED
    BY <1>1, <1>2, <1>4, <1>5, <2>1, <2>2, <2>3, <2>4 DEF OrdersKept
<1>9. Closed' = Closed
  <2>1. ASSUME NEW n \in Closed' PROVE n \in Closed
    <3>1. n \in 1 .. N + 1 /\ n \notin lost' /\ \A j \in Fills!Waiting' : pending'[j].number # n
      BY <1>4, <2>1 DEF Closed
    <3>2. n # N + 1 /\ n \in 1 .. N /\ n \notin lost
      BY <1>3, <1>5, <1>7, <3>1
    <3>3. ASSUME NEW j \in Fills!Waiting PROVE pending[j].number # n
      <4>1. j \in FillIds
        BY DEF Fills!Waiting
      <4> QED
        BY <1>5, <1>7, <3>1, <4>1
    <3> QED
      BY <1>3, <3>2, <3>3 DEF Closed
  <2>2. ASSUME NEW n \in Closed PROVE n \in Closed'
    <3>1. n \in 1 .. N /\ n \notin lost /\ \A j \in Fills!Waiting : pending[j].number # n
      BY <1>3, <2>2 DEF Closed
    <3>2. n \in 1 .. N + 1 /\ n \notin lost'
      BY <1>2, <1>3, <1>6, <3>1
    <3>3. ASSUME NEW j \in Fills!Waiting' PROVE pending'[j].number # n
      <4>1. CASE j = i
        BY <1>3, <1>5, <3>1, <4>1
      <4>2. CASE j # i
        <5>1. j \in Fills!Waiting /\ j \in FillIds
          BY <1>5, <4>2 DEF Fills!Waiting
        <5> QED
          BY <1>5, <3>1, <4>2, <5>1
      <4> QED
        BY <4>1, <4>2
    <3> QED
      BY <1>4, <3>2, <3>3 DEF Closed
  <2> QED
    BY <2>1, <2>2
<1>10. OutcomesKept'
  <2>1. \A n \in Closed : submissions'[n] = submissions[n]
    BY <1>3, <1>4 DEF Closed
  <2> QED
    BY <1>1, <1>2, <1>9, <2>1 DEF OutcomesKept
<1>11. FilledWereTold' /\ RecordsMatch'
  <2>1. FilledWereTold'
    BY <1>1, <1>2 DEF FilledWereTold
  <2>2. RecordsMatch'
    BY <1>1, <1>2 DEF RecordsMatch
  <2> QED
    BY <2>1, <2>2
<1> QED
  BY <1>8, <1>10, <1>11 DEF FillsInv

(* An order leaves with its outcome.                                       *)
LEMMA Closing ==
  ASSUME OrdersKept, OutcomesKept, NEW i \in Fills!Waiting,
         NEW outcome \in {"FILLED", "REJECTED", "CANCELLED"}, NEW p \in Nat,
         Fills!Close(i, outcome, p), UNCHANGED <<fillsNow, submissions, lost>>
  PROVE  /\ OrdersKept' /\ OutcomesKept'
         /\ \A k \in DOMAIN executions' :
              \/ \E m \in DOMAIN executions : executions'[k] = executions[m]
              \/ /\ executions'[k].order = pending[i] /\ executions'[k].status = outcome
                 /\ executions'[k].price = p
<1>1. PICK c \in DOMAIN submissions \ lost : c = pending[i].number /\ pending[i] = submissions[c]
  BY DEF OrdersKept
<1> DEFINE done == [order |-> pending[i], status |-> outcome, price |-> p,
                    took |-> fillsNow - pending[i].at]
           all == Append(executions, done)
<1>2. i \in FillIds /\ Fills!IsPending(i) /\ pending[i] \in FillOrder
  BY DEF Fills!Waiting, Fills!IsPending, OrdersKept
<1>3. done \in FillOutcome /\ done.order = pending[i] /\ done.status = outcome /\ done.price = p
  <2>1. fillsNow - pending[i].at \in Int
    BY <1>2 DEF OrdersKept, FillOrder
  <2> QED
    BY <1>2, <2>1 DEF FillOutcome
<1>4. /\ executions' = Fills!Latest(all, MaxHistory)
      /\ pending' = [pending EXCEPT ![i] = Fills!NoOrder]
  BY DEF Fills!Close, Fills!Popped
<1>5. /\ pending' \in [FillIds -> FillOrder \cup {Fills!NoOrder}]
      /\ Fills!Waiting' = Fills!Waiting \ {i}
      /\ \A j \in FillIds : j # i => pending'[j] = pending[j]
  <2>1. /\ pending' \in [FillIds -> FillOrder \cup {Fills!NoOrder}] /\ pending'[i] = Fills!NoOrder
        /\ \A j \in FillIds : j # i => pending'[j] = pending[j]
    BY <1>2, <1>4 DEF OrdersKept
  <2> QED
    BY <2>1 DEF Fills!Waiting, Fills!IsPending
<1>6. OrdersKept'
  <2>1. \A j \in Fills!Waiting' : j \in Fills!Waiting /\ pending'[j] = pending[j]
    BY <1>5 DEF Fills!Waiting
  <2> QED
    BY <1>5, <2>1 DEF OrdersKept
<1>7. Closed' = Closed \cup {c} /\ c \notin Closed
  <2>1. ASSUME NEW n \in Closed' PROVE n \in Closed \cup {c}
    <3>1. ASSUME n # c, NEW j \in Fills!Waiting PROVE pending[j].number # n
      <4>1. j = i \/ (j \in Fills!Waiting' /\ pending'[j] = pending[j])
        BY <1>5 DEF Fills!Waiting
      <4> QED
        BY <1>1, <2>1, <3>1, <4>1 DEF Closed
    <3> QED
      BY <2>1, <3>1 DEF Closed
  <2>2. ASSUME NEW n \in Closed \cup {c} PROVE n \in Closed'
    <3>1. n \in DOMAIN submissions \ lost
      BY <1>1, <2>2 DEF Closed
    <3>2. ASSUME NEW j \in Fills!Waiting' PROVE pending'[j].number # n
      <4>1. j \in Fills!Waiting /\ j # i /\ pending'[j] = pending[j]
        BY <1>5 DEF Fills!Waiting
      <4> QED
        BY <1>1, <2>2, <4>1 DEF Closed, OrdersKept
    <3> QED
      BY <3>1, <3>2 DEF Closed
  <2>3. c \notin Closed
    BY <1>1 DEF Closed
  <2> QED
    BY <2>1, <2>2, <2>3
<1>8. /\ IsFiniteSet(Closed) /\ Cardinality(Closed) \in Nat
      /\ Cardinality(Closed') = Cardinality(Closed) + 1
  <2>1. IsFiniteSet(Closed) /\ Cardinality(Closed) \in Nat
    BY ClosedIsFinite
  <2> QED
    BY <1>7, <2>1, FS_AddElement
<1>9. PICK L \in Nat : L = Len(executions) /\ DOMAIN executions = 1 .. L
  BY DEF OutcomesKept
<1> HIDE DEF done
<1>10. /\ all \in Seq(FillOutcome) /\ Len(all) = L + 1 /\ all[L + 1] = done
       /\ \A k \in 1 .. L : all[k] = executions[k]
  BY <1>3, <1>9 DEF OutcomesKept
<1> HIDE DEF all
<1>11. PICK skip \in Int, kept \in Nat :
         /\ executions' \in Seq(FillOutcome) /\ Len(executions') = kept
         /\ kept = (IF L + 1 <= MaxHistory THEN L + 1 ELSE MaxHistory)
         /\ skip = L + 1 - kept
         /\ \A k \in 1 .. kept : skip + k \in 1 .. L + 1 /\ executions'[k] = all[skip + k]
  <2>1. executions' \in Seq(FillOutcome)
    BY <1>4, <1>10, LatestIs, FillsAssumption
  <2>2. Len(executions') = (IF L + 1 <= MaxHistory THEN L + 1 ELSE MaxHistory)
    BY <1>4, <1>10, LatestIs, FillsAssumption
  <2>3. \A k \in 1 .. Len(executions') :
          /\ Len(all) - Len(executions') + k \in 1 .. Len(all)
          /\ executions'[k] = all[Len(all) - Len(executions') + k]
    BY <1>4, <1>10, LatestIs, FillsAssumption
  <2>4. Len(executions') \in Nat /\ L + 1 - Len(executions') \in Int
    BY <2>1
  <2>5. PICK kept \in Nat, skip \in Int : kept = Len(executions') /\ skip = L + 1 - kept
    BY <2>4
  <2>6. kept = (IF L + 1 <= MaxHistory THEN L + 1 ELSE MaxHistory)
    BY <2>2, <2>5
  <2>7. \A k \in 1 .. kept : skip + k \in 1 .. L + 1 /\ executions'[k] = all[skip + k]
    BY <1>10, <2>3, <2>5
  <2> QED
    BY <2>1, <2>5, <2>6, <2>7
<1>12. DOMAIN executions' = 1 .. kept
  BY <1>11
<1>13. \A k \in 1 .. L + 1 :
         /\ all[k].order.number = c <=> k = L + 1
         /\ all[k].order.number \in Closed' /\ all[k].order = submissions[all[k].order.number]
         /\ k = L + 1 \/ (k \in 1 .. L /\ all[k] = executions[k])
  <2> SUFFICES ASSUME NEW k \in 1 .. L + 1
               PROVE  /\ all[k].order.number = c <=> k = L + 1
                      /\ all[k].order.number \in Closed'
                      /\ all[k].order = submissions[all[k].order.number]
                      /\ k = L + 1 \/ (k \in 1 .. L /\ all[k] = executions[k])
    OBVIOUS
  <2>1. CASE k = L + 1
    BY <1>1, <1>3, <1>7, <1>10, <2>1
  <2>2. CASE k # L + 1
    <3>1. k \in 1 .. L /\ all[k] = executions[k]
      BY <1>10, <2>2
    <3>2. executions[k].order.number \in Closed
          /\ executions[k].order = submissions[executions[k].order.number]
      BY <1>9, <3>1 DEF OutcomesKept
    <3> QED
      BY <1>7, <2>2, <3>1, <3>2
  <2> QED
    BY <2>1, <2>2
<1>14. \A k, m \in 1 .. L + 1 : all[k].order.number = all[m].order.number => k = m
  <2> SUFFICES ASSUME NEW k \in 1 .. L + 1, NEW m \in 1 .. L + 1,
                      all[k].order.number = all[m].order.number
               PROVE  k = m
    OBVIOUS
  <2>1. CASE k = L + 1 \/ m = L + 1
    BY <1>13, <2>1
  <2>2. CASE k # L + 1 /\ m # L + 1
    BY <1>9, <1>13, <2>2 DEF OutcomesKept
  <2> QED
    BY <2>1, <2>2
<1>15. OutcomesKept'
  <2>1. \A k \in 1 .. kept :
          /\ executions'[k].order.number \in Closed'
          /\ executions'[k].order = submissions[executions'[k].order.number]
    <3> SUFFICES ASSUME NEW k \in 1 .. kept
                 PROVE  /\ executions'[k].order.number \in Closed'
                        /\ executions'[k].order = submissions[executions'[k].order.number]
      OBVIOUS
    <3>1. PICK m \in 1 .. L + 1 : executions'[k] = all[m]
      BY <1>11
    <3> QED
      BY <1>13, <3>1
  <2>2. \A k, m \in 1 .. kept :
          executions'[k].order.number = executions'[m].order.number => k = m
    <3> SUFFICES ASSUME NEW k \in 1 .. kept, NEW m \in 1 .. kept,
                        executions'[k].order.number = executions'[m].order.number
                 PROVE  k = m
      OBVIOUS
    <3>1. PICK r \in 1 .. L + 1, t \in 1 .. L + 1 :
            r = skip + k /\ t = skip + m /\ executions'[k] = all[r] /\ executions'[m] = all[t]
      BY <1>11
    <3>2. r = t
      BY <1>14, <3>1
    <3> QED
      BY <3>1, <3>2
  <2>3. L <= Cardinality(Closed)
    BY <1>9 DEF OutcomesKept
  <2>4. kept <= Cardinality(Closed')
    BY <1>8, <1>11, <2>3, FillsAssumption
  <2>5. ASSUME Cardinality(Closed') <= MaxHistory, NEW n \in Closed'
        PROVE  \E k \in 1 .. kept : executions'[k].order.number = n
    <3>1. kept = L + 1 /\ skip = 0 /\ Cardinality(Closed) <= MaxHistory
      BY <1>8, <1>11, <2>3, <2>5, FillsAssumption
    <3>2. \A k \in 1 .. kept : executions'[k] = all[k]
      BY <1>11, <3>1
    <3>3. CASE n = c
      <4>1. L + 1 \in 1 .. kept /\ executions'[L + 1] = all[L + 1]
        BY <3>1, <3>2
      <4> QED
        BY <1>13, <3>1, <3>3, <4>1
    <3>4. CASE n # c
      <4>1. PICK k \in 1 .. L : executions[k].order.number = n
        BY <1>7, <1>9, <2>5, <3>1, <3>4 DEF OutcomesKept
      <4>2. k \in 1 .. kept /\ executions'[k] = executions[k]
        BY <1>10, <3>1, <3>2
      <4> QED
        BY <4>1, <4>2
    <3> QED
      BY <3>3, <3>4
  <2> QED
    BY <1>11, <1>12, <2>1, <2>2, <2>4, <2>5 DEF OutcomesKept
<1>16. \A k \in DOMAIN executions' :
         \/ \E m \in DOMAIN executions : executions'[k] = executions[m]
         \/ executions'[k].order = pending[i] /\ executions'[k].status = outcome
            /\ executions'[k].price = p
  <2> SUFFICES ASSUME NEW k \in 1 .. kept
               PROVE  \/ \E m \in 1 .. L : executions'[k] = executions[m]
                      \/ executions'[k] = done
    BY <1>3, <1>9, <1>12
  <2> QED
    BY <1>10, <1>11, <1>13
<1> QED
  BY <1>6, <1>15, <1>16

(* Basis points are within one of the exact ones.                          *)
LEMMA WithinOne ==
  ASSUME NEW n \in Int, NEW d \in Nat \ {0}, NEW b \in Fills!Truncated(n, d)
  PROVE  b \in Int /\ b * d - n \in -d .. d
<1>1. PICK m \in Nat : m = (IF n < 0 THEN -n ELSE n)
  OBVIOUS
<1>2. PICK q \in Int, r \in Int : q = m \div d /\ m = d * q + r /\ 0 <= r /\ r < d
  <2>1. m = d * (m \div d) + (m % d) /\ m % d \in 0 .. d - 1 /\ m \div d \in Int
    OBVIOUS
  <2> QED
    BY <2>1
<1>3. Fills!Toward0(n, d) = (IF n < 0 THEN -q ELSE q)
  BY <1>1, <1>2 DEF Fills!Toward0
<1>4. PICK a \in Int : a = Fills!Toward0(n, d) /\ a * d - n \in -d .. d
                       /\ (r = 0 => a * d = n)
  <2>1. CASE n < 0
    <3>1. (-q) * d - n = r
      BY <1>1, <1>2, <2>1
    <3> QED
      BY <1>2, <1>3, <2>1, <3>1
  <2>2. CASE ~(n < 0)
    <3>1. q * d - n = -r
      BY <1>1, <1>2, <2>2
    <3> QED
      BY <1>2, <1>3, <2>2, <3>1
  <2> QED
    BY <2>1, <2>2
<1>5. CASE b = a
  BY <1>4, <1>5
<1>6. CASE b # a
  <2>1. n % d = 0 /\ b = a - (IF n < 0 THEN -1 ELSE 1)
    BY <1>4, <1>6 DEF Fills!Truncated
  <2>2. r = 0
    <3>1. n = d * (n \div d) + (n % d) /\ n \div d \in Int
      OBVIOUS
    <3>2. PICK k \in Int : n = d * k
      BY <2>1, <3>1
    <3>3. m = d * k \/ m = d * (-k)
      BY <1>1, <3>2
    <3>4. PICK j \in Int : m = d * j
      <4>1. k \in Int /\ -k \in Int
        OBVIOUS
      <4> QED
        BY <3>3, <4>1, Zenon
    <3>5. m \div d = j
      BY <3>4, ExactQuotient
    <3>6. q = j
      BY <1>2, <3>5
    <3>7. PICK t \in Int : t = d * j
      OBVIOUS
    <3>8. m = t /\ m = t + r
      BY <1>2, <3>4, <3>6, <3>7
    <3> QED
      BY <3>7, <3>8
  <2>3. a * d = n
    BY <1>4, <2>2
  <2>4. (a - 1) * d - n = -d /\ (a - (-1)) * d - n = d
    BY <2>3
  <2> QED
    BY <2>1, <2>4
<1> QED
  BY <1>5, <1>6

LEMMA Recorded ==
  ASSUME NEW order \in FillOrder, NEW p \in Nat, NEW took \in Int,
         NEW bps \in Fills!Bps(order.side, order.expected, p), NEW n \in Nat
  PROVE  LET r == [side |-> order.side, quantity |-> order.quantity, bps |-> bps, took |-> took,
                   dollars |-> Fills!Cost(order.side, order.expected, p) * order.quantity]
         IN  r \in FillRecord /\ Matches(r, [number |-> n, order |-> order, price |-> p])
<1> DEFINE r == [side |-> order.side, quantity |-> order.quantity, bps |-> bps, took |-> took,
                 dollars |-> Fills!Cost(order.side, order.expected, p) * order.quantity]
           f == [number |-> n, order |-> order, price |-> p]
<1>1. PICK e \in Nat, q \in Nat, b \in {"BUY", "SELL"} :
        e = order.expected /\ q = order.quantity /\ b = order.side
  BY DEF FillOrder
<1>2. PICK c \in Int : c = Fills!Cost(b, e, p) /\ c = (IF b = "BUY" THEN p - e ELSE e - p)
  <2>1. Fills!Cost(b, e, p) = (IF b = "BUY" THEN p - e ELSE e - p)
    BY DEF Fills!Cost
  <2>2. p - e \in Int /\ e - p \in Int
    OBVIOUS
  <2> QED
    BY <2>1, <2>2
<1>3. Fills!Opposite(f) = (IF b = "BUY" THEN 1 ELSE -1)
      /\ Fills!MonitorDollars(f) = (p - e) * q
  BY <1>1 DEF Fills!Opposite, Fills!MonitorDollars
<1>4. r.dollars = c * q /\ r.bps = bps
  BY <1>1, <1>2
<1>5. c * q = (IF b = "BUY" THEN 1 ELSE -1) * ((p - e) * q)
      /\ 10000 * c = 10000 * (p - e) * (IF b = "BUY" THEN 1 ELSE -1)
  <2>1. CASE b = "BUY"
    BY <1>2, <2>1
  <2>2. CASE b # "BUY"
    BY <1>2, <2>2
  <2> QED
    BY <2>1, <2>2
<1>6. bps \in Int /\ (e # 0 => bps * e - 10000 * c \in -e .. e)
  <2>1. CASE e = 0
    BY <1>1, <2>1 DEF Fills!Bps
  <2>2. CASE e # 0
    <3>1. bps \in Fills!Truncated(10000 * c, e) /\ 10000 * c \in Int /\ e \in Nat \ {0}
      BY <1>1, <1>2, <2>2 DEF Fills!Bps
    <3> QED
      BY <3>1, WithinOne
  <2> QED
    BY <2>1, <2>2
<1>7. f.order.expected = e /\ f.price = p
  BY <1>1
<1>8. r \in FillRecord
  <2>1. c * q \in Int
    OBVIOUS
  <2> QED
    BY <1>1, <1>2, <1>6, <2>1 DEF FillRecord
<1> HIDE DEF r, f
<1>9. Matches(r, f)
  BY <1>3, <1>4, <1>5, <1>6, <1>7 DEF Matches
<1> QED
  BY <1>8, <1>9 DEF r, f

LEMMA Filled ==
  ASSUME FillsInv, NEW i \in FillIds, NEW n \in DOMAIN submissions, NEW p \in FillPrices,
         Fills!RecordFill(i, n, p)
  PROVE  FillsInv'
<1>1. OrdersKept /\ OutcomesKept /\ FilledWereTold /\ RecordsMatch
  BY DEF FillsInv
<1> DEFINE order == submissions[n]
           known == pending[i] = order
           told == [number |-> IF known THEN n ELSE Fills!Unknown, order |-> order, price |-> p]
<1>2. p \in Nat /\ n \in Nat /\ n # 0 /\ order \in FillOrder /\ order.number = n
  BY <1>1, FillsAssumption DEF OrdersKept
<1>3. /\ IF known THEN Fills!Close(i, "FILLED", p) ELSE UNCHANGED <<pending, executions>>
      /\ fills' = Append(fills, told)
      /\ Fills!RecordExecution(order, p, fillsNow - order.at)
      /\ fillsNow' = fillsNow /\ submissions' = submissions /\ lost' = lost
  BY DEF Fills!RecordFill
<1>4. told \in FillTold /\ told.price = p /\ told.number = (IF known THEN n ELSE 0)
  <2>1. (IF known THEN n ELSE Fills!Unknown) \in Nat /\ Fills!Unknown = 0
    BY <1>2 DEF Fills!Unknown
  <2> QED
    BY <1>2, <2>1 DEF FillTold
<1>5. known => i \in Fills!Waiting
  BY <1>2 DEF Fills!Waiting, Fills!IsPending, Fills!NoOrder, FillOrder
<1>6. /\ OrdersKept' /\ OutcomesKept'
      /\ \A k \in DOMAIN executions' :
           \/ \E m \in DOMAIN executions : executions'[k] = executions[m]
           \/ known /\ executions'[k].order = order /\ executions'[k].price = p
  <2>1. CASE known
    <3>1. Fills!Close(i, "FILLED", p) /\ UNCHANGED <<fillsNow, submissions, lost>>
      BY <1>3, <2>1
    <3>2. /\ OrdersKept' /\ OutcomesKept'
          /\ \A k \in DOMAIN executions' :
               \/ \E m \in DOMAIN executions : executions'[k] = executions[m]
               \/ /\ executions'[k].order = pending[i] /\ executions'[k].status = "FILLED"
                  /\ executions'[k].price = p
      BY <1>1, <1>2, <1>5, <2>1, <3>1, Closing
    <3> QED
      BY <2>1, <3>2
  <2>2. CASE ~known
    <3>1. UNCHANGED <<fillsNow, pending, executions, submissions, lost>>
      BY <1>3, <2>2
    <3>2. Fills!Waiting' = Fills!Waiting /\ Closed' = Closed
      BY <3>1 DEF Fills!Waiting, Fills!IsPending, Closed
    <3>3. OrdersKept' /\ OutcomesKept'
      BY <1>1, <3>1, <3>2 DEF OrdersKept, OutcomesKept
    <3> QED
      BY <3>1, <3>3
  <2> QED
    BY <2>1, <2>2
<1>7. PICK F \in Nat : F = Len(fills) /\ DOMAIN fills = 1 .. F
  BY <1>1 DEF FilledWereTold
<1> HIDE DEF told
<1>8. /\ fills' \in Seq(FillTold) /\ Len(fills') = F + 1 /\ fills'[F + 1] = told
      /\ \A k \in 1 .. F : fills'[k] = fills[k]
  BY <1>1, <1>3, <1>4, <1>7 DEF FilledWereTold
<1>9. FilledWereTold'
  <2> SUFFICES ASSUME NEW k \in DOMAIN executions', executions'[k].status = "FILLED"
               PROVE  \E m \in DOMAIN fills' :
                        /\ fills'[m].number = executions'[k].order.number
                        /\ fills'[m].price = executions'[k].price
    BY <1>8 DEF FilledWereTold
  <2>1. DOMAIN fills' = 1 .. F + 1
    BY <1>8
  <2>2. CASE \E m \in DOMAIN executions : executions'[k] = executions[m]
    <3>1. PICK m \in DOMAIN fills :
            /\ fills[m].number = executions'[k].order.number
            /\ fills[m].price = executions'[k].price
      BY <1>1, <2>2 DEF FilledWereTold
    <3>2. m \in DOMAIN fills' /\ fills'[m] = fills[m]
      BY <1>7, <1>8, <2>1
    <3> QED
      BY <3>1, <3>2
  <2>3. CASE known /\ executions'[k].order = order /\ executions'[k].price = p
    <3>1. F + 1 \in DOMAIN fills' /\ fills'[F + 1] = told
      BY <1>8, <2>1
    <3> QED
      BY <1>2, <1>4, <2>3, <3>1
  <2> QED
    BY <1>6, <2>2, <2>3
<1>10. PICK r \in FillRecord :
         records' = Fills!Latest(Append(records, r), RecordsKept) /\ Matches(r, told)
  <2>1. PICK bps \in Fills!Bps(order.side, order.expected, p) :
          records' = Fills!Latest(Append(records,
            [side |-> order.side, quantity |-> order.quantity, bps |-> bps,
             took |-> fillsNow - order.at,
             dollars |-> Fills!Cost(order.side, order.expected, p) * order.quantity]),
           RecordsKept)
    BY <1>3 DEF Fills!RecordExecution
  <2>2. fillsNow - order.at \in Int
    BY <1>1, <1>2 DEF OrdersKept, FillOrder
  <2>3. (IF known THEN n ELSE Fills!Unknown) \in Nat
    BY <1>2 DEF Fills!Unknown
  <2> DEFINE r == [side |-> order.side, quantity |-> order.quantity, bps |-> bps,
                   took |-> fillsNow - order.at,
                   dollars |-> Fills!Cost(order.side, order.expected, p) * order.quantity]
  <2>4. r \in FillRecord /\ Matches(r, told)
    BY <1>2, <2>2, <2>3, Recorded DEF told
  <2> QED
    BY <2>1, <2>4
<1>11. RecordsMatch'
  <2> DEFINE all == Append(records, r)
  <2>1. PICK R \in Nat : R = Len(records) /\ R = (IF F <= RecordsKept THEN F ELSE RecordsKept)
    BY <1>1, <1>7 DEF RecordsMatch
  <2>2. /\ all \in Seq(FillRecord) /\ Len(all) = R + 1 /\ all[R + 1] = r
        /\ \A k \in 1 .. R : all[k] = records[k]
    BY <1>1, <2>1 DEF RecordsMatch
  <2> HIDE DEF all
  <2>3. records' = Fills!Latest(all, RecordsKept)
    BY <1>10 DEF all
  <2>4. records' \in Seq(FillRecord)
    BY <2>2, <2>3, LatestIs, FillsAssumption
  <2>5. Len(records') = (IF R + 1 <= RecordsKept THEN R + 1 ELSE RecordsKept)
    BY <2>2, <2>3, LatestIs, FillsAssumption
  <2>6. \A k \in 1 .. Len(records') :
          /\ Len(all) - Len(records') + k \in 1 .. Len(all)
          /\ records'[k] = all[Len(all) - Len(records') + k]
    BY <2>2, <2>3, LatestIs, FillsAssumption
  <2>7. PICK kept \in Nat : kept = Len(records')
    BY <2>4
  <2>8. kept = (IF F + 1 <= RecordsKept THEN F + 1 ELSE RecordsKept)
    BY <2>1, <2>5, <2>7, FillsAssumption
  <2>9. \A k \in 1 .. R : Matches(records[k], fills[F - R + k])
    BY <1>1, <1>7, <2>1 DEF RecordsMatch
  <2>10. ASSUME NEW k \in 1 .. kept PROVE Matches(records'[k], fills'[F + 1 - kept + k])
    <3>1. PICK m \in 1 .. R + 1 : m = R + 1 - kept + k /\ records'[k] = all[m]
      BY <2>2, <2>6, <2>7
    <3>2. CASE m = R + 1
      <4>1. F + 1 - kept + k = F + 1
        BY <2>1, <3>1, <3>2
      <4> QED
        BY <1>8, <1>10, <2>2, <3>1, <3>2, <4>1
    <3>3. CASE m # R + 1
      <4>1. m \in 1 .. R /\ F - R + m \in 1 .. F /\ F + 1 - kept + k = F - R + m
        <5>1. R <= F
          BY <2>1, FillsAssumption
        <5> QED
          BY <3>1, <3>3, <5>1
      <4>2. all[m] = records[m] /\ fills'[F - R + m] = fills[F - R + m]
        BY <1>8, <2>2, <4>1
      <4> QED
        BY <2>9, <3>1, <4>1, <4>2
    <3> QED
      BY <3>2, <3>3
  <2>11. \A k \in 1 .. Len(records') :
           Matches(records'[k], fills'[Len(fills') - Len(records') + k])
    <3> SUFFICES ASSUME NEW k \in 1 .. Len(records')
                 PROVE  Matches(records'[k], fills'[Len(fills') - Len(records') + k])
      OBVIOUS
    <3>1. k \in 1 .. kept /\ Len(fills') - Len(records') + k = F + 1 - kept + k
      BY <1>8, <2>7
    <3> QED
      BY <2>10, <3>1
  <2>12. Len(records') = (IF Len(fills') <= RecordsKept THEN Len(fills') ELSE RecordsKept)
    BY <1>8, <2>7, <2>8, Zenon
  <2> QED
    BY <2>4, <2>11, <2>12 DEF RecordsMatch
<1> QED
  BY <1>6, <1>9, <1>11 DEF FillsInv

LEMMA FillsStep == FillsInv /\ [Fills!Next]_fillsVars => FillsInv'
<1> SUFFICES ASSUME FillsInv, [Fills!Next]_fillsVars PROVE FillsInv'
  OBVIOUS
<1>1. OrdersKept /\ OutcomesKept /\ FilledWereTold /\ RecordsMatch
  BY DEF FillsInv
<1>2. ASSUME UNCHANGED <<pending, executions, records, submissions, fills, lost>>,
             fillsNow' \in Nat
      PROVE  FillsInv'
  <2>1. Fills!Waiting' = Fills!Waiting /\ Closed' = Closed
    BY <1>2 DEF Fills!Waiting, Fills!IsPending, Closed
  <2>2. OrdersKept' /\ OutcomesKept'
    BY <1>1, <1>2, <2>1 DEF OrdersKept, OutcomesKept
  <2>3. FilledWereTold'
    BY <1>1, <1>2 DEF FilledWereTold
  <2>4. RecordsMatch'
    BY <1>1, <1>2 DEF RecordsMatch
  <2> QED
    BY <2>2, <2>3, <2>4 DEF FillsInv
<1>3. CASE UNCHANGED fillsVars
  <2>1. fillsNow' \in Nat
    BY <1>1, <1>3 DEF fillsVars, OrdersKept
  <2> QED
    BY <1>2, <1>3, <2>1 DEF fillsVars
<1>4. CASE Fills!Tick
  <2>1. fillsNow' \in Nat
    BY <1>1, <1>4 DEF Fills!Tick, OrdersKept
  <2> QED
    BY <1>2, <1>4, <2>1 DEF Fills!Tick
<1>5. ASSUME NEW i \in FillIds, NEW outcome \in {"REJECTED", "CANCELLED"}, Fills!IsPending(i),
             Fills!Close(i, outcome, 0), UNCHANGED <<fillsNow, records, submissions, fills, lost>>
      PROVE  FillsInv'
  <2>1. i \in Fills!Waiting
    BY <1>5 DEF Fills!Waiting
  <2>2. UNCHANGED <<fillsNow, submissions, lost>>
    BY <1>5
  <2>3. outcome \in {"FILLED", "REJECTED", "CANCELLED"} /\ outcome # "FILLED" /\ 0 \in Nat
    OBVIOUS
  <2>4. /\ OrdersKept' /\ OutcomesKept'
        /\ \A k \in DOMAIN executions' :
             \/ \E m \in DOMAIN executions : executions'[k] = executions[m]
             \/ /\ executions'[k].order = pending[i] /\ executions'[k].status = outcome
                /\ executions'[k].price = 0
    BY <1>1, <1>5, <2>1, <2>2, <2>3, Closing
  <2>5. FilledWereTold'
    BY <1>1, <1>5, <2>3, <2>4 DEF FilledWereTold
  <2>6. RecordsMatch'
    BY <1>1, <1>5 DEF RecordsMatch
  <2> QED
    BY <2>4, <2>5, <2>6 DEF FillsInv
<1>6. ASSUME NEW i \in FillIds, Fills!RecordRejection(i) PROVE FillsInv'
  BY <1>5, <1>6 DEF Fills!RecordRejection
<1>7. ASSUME NEW i \in FillIds, Fills!RecordCancellation(i) PROVE FillsInv'
  BY <1>5, <1>7 DEF Fills!RecordCancellation
<1> QED
  BY <1>3, <1>4, <1>6, <1>7, Submitted, Filled DEF Fills!Next

(* The two groups of the records make up the whole.                        *)
LEMMA GroupsAddUp ==
  ASSUME RecordsMatch
  PROVE  LET all == Fills!Statistics(DOMAIN records) IN
         /\ all.dollars = Fills!ByOrderSize[1].dollars + Fills!ByOrderSize[2].dollars
         /\ all.bps = Fills!ByOrderSize[1].bps + Fills!ByOrderSize[2].bps
         /\ all.count = Fills!ByOrderSize[1].count + Fills!ByOrderSize[2].count
<1> DEFINE S == DOMAIN records
           A == {k \in S : records[k].quantity < Large}
           B == {k \in S : records[k].quantity >= Large}
<1>1. /\ IsFiniteSet(S) /\ A \in SUBSET S /\ B \in SUBSET S
      /\ A \cap B = {} /\ A \cup B = S
      /\ \A k \in S : records[k].dollars \in Int /\ records[k].bps \in Int
  <2>1. S = 1 .. Len(records) /\ Len(records) \in Nat
    BY DEF RecordsMatch
  <2>2. IsFiniteSet(S)
    BY <2>1, FS_Interval
  <2>3. \A k \in S : records[k] \in FillRecord
    BY <2>1 DEF RecordsMatch
  <2>4. \A k \in S : records[k].dollars \in Int /\ records[k].bps \in Int
                     /\ records[k].quantity \in Int
    BY <2>3, FillsAssumption DEF FillRecord
  <2>5. Large \in Int
    BY FillsAssumption
  <2> HIDE DEF S
  <2>6. \A k \in S : (records[k].quantity < Large) <=> ~(records[k].quantity >= Large)
    BY <2>4, <2>5
  <2>7. A \cap B = {} /\ A \cup B = S
    BY <2>6
  <2>8. A \in SUBSET S /\ B \in SUBSET S
    OBVIOUS
  <2> QED
    BY <2>2, <2>4, <2>7, <2>8
<1>2. IsFiniteSet(A) /\ IsFiniteSet(B)
  BY <1>1, FS_Subset
<1> HIDE DEF S, A, B
<1>3. ASSUME NEW f, \A k \in S : f[k] \in Int,
             NEW g, \A k \in A : g[k] = f[k], NEW h, \A k \in B : h[k] = f[k]
      PROVE  SumOf(f, S) = SumOf(g, A) + SumOf(h, B)
  <2>1. SumOf(f, A \cup B) = SumOf(f, A) + SumOf(f, B)
    BY <1>1, <1>3, SumSplits
  <2>2. SumOf(f, A) = SumOf(g, A)
    <3>1. \A k \in A : f[k] \in Int /\ f[k] = g[k]
      BY <1>1, <1>3
    <3> QED
      BY <1>2, <3>1, SameSum
  <2>3. SumOf(f, B) = SumOf(h, B)
    <3>1. \A k \in B : f[k] \in Int /\ f[k] = h[k]
      BY <1>1, <1>3
    <3> QED
      BY <1>2, <3>1, SameSum
  <2> QED
    BY <1>1, <2>1, <2>2, <2>3
<1>4. SumOf([k \in S |-> records[k].dollars], S)
        = SumOf([k \in A |-> records[k].dollars], A) + SumOf([k \in B |-> records[k].dollars], B)
  BY <1>1, <1>3
<1>5. SumOf([k \in S |-> records[k].bps], S)
        = SumOf([k \in A |-> records[k].bps], A) + SumOf([k \in B |-> records[k].bps], B)
  BY <1>1, <1>3
<1>6. Cardinality(S) = Cardinality(A) + Cardinality(B)
  BY <1>1, CountSplits
<1>7. /\ Fills!Statistics(S) = [count |-> Cardinality(S),
           bps |-> SumOf([k \in S |-> records[k].bps], S),
           dollars |-> SumOf([k \in S |-> records[k].dollars], S)]
      /\ Fills!Statistics(A) = [count |-> Cardinality(A),
           bps |-> SumOf([k \in A |-> records[k].bps], A),
           dollars |-> SumOf([k \in A |-> records[k].dollars], A)]
      /\ Fills!Statistics(B) = [count |-> Cardinality(B),
           bps |-> SumOf([k \in B |-> records[k].bps], B),
           dollars |-> SumOf([k \in B |-> records[k].dollars], B)]
  BY FillsCount, FillsSum DEF Fills!Statistics
<1>8. Fills!ByOrderSize[1] = Fills!Statistics(A) /\ Fills!ByOrderSize[2] = Fills!Statistics(B)
  BY DEF Fills!ByOrderSize, A, B, S
<1>9. DOMAIN records = S
  BY DEF S
<1> QED
  BY <1>4, <1>5, <1>6, <1>7, <1>8, <1>9

LEMMA FillsAreTheSame == FillsInv => Fills!SameFills
<1> SUFFICES ASSUME FillsInv PROVE Fills!SameFills
  OBVIOUS
<1>1. OutcomesKept /\ FilledWereTold /\ RecordsMatch
  BY DEF FillsInv
<1> DEFINE told == Fills!Latest(fills, RecordsKept)
<1>2. /\ told \in Seq(FillTold)
      /\ Len(told) = (IF Len(fills) <= RecordsKept THEN Len(fills) ELSE RecordsKept)
      /\ \A k \in 1 .. Len(told) : told[k] = fills[Len(fills) - Len(told) + k]
  BY <1>1, LatestIs, FillsAssumption DEF FilledWereTold
<1>3. Len(records) = Len(told) /\ DOMAIN told = 1 .. Len(told)
  BY <1>1, <1>2 DEF RecordsMatch
<1>4. \A k \in DOMAIN told : Matches(records[k], told[k])
  BY <1>1, <1>2, <1>3 DEF RecordsMatch
<1>5. \A k \in DOMAIN told : LET f == told[k] r == records[k] IN
        /\ r.dollars = Fills!Opposite(f) * Fills!MonitorDollars(f)
        /\ f.order.expected # 0 =>
             LET exact == 10000 * (f.price - f.order.expected) * Fills!Opposite(f)
             IN  r.bps * f.order.expected - exact \in -f.order.expected .. f.order.expected
  BY <1>4 DEF Matches
<1>6. \A k \in Fills!WithStatus(DOMAIN executions, "FILLED") : \E n \in Fills!Known :
        fills[n].number = executions[k].order.number /\ fills[n].price = executions[k].price
  <2> SUFFICES ASSUME NEW k \in DOMAIN executions, executions[k].status = "FILLED"
               PROVE  \E n \in Fills!Known : /\ fills[n].number = executions[k].order.number
                                             /\ fills[n].price = executions[k].price
    BY DEF Fills!WithStatus
  <2>1. PICK n \in DOMAIN fills :
          fills[n].number = executions[k].order.number /\ fills[n].price = executions[k].price
    BY <1>1 DEF FilledWereTold
  <2>2. executions[k] \in FillOutcome
    BY <1>1 DEF OutcomesKept
  <2>3. executions[k].order.number \in Nat \ {0}
    BY <2>2 DEF FillOutcome, FillOrder
  <2> QED
    BY <2>1, <2>3 DEF Fills!Known, Fills!Unknown
<1> QED
  BY <1>1, <1>3, <1>5, <1>6, GroupsAddUp DEF Fills!SameFills

(* While no outcome was dropped, every order is lost, waits or is in the   *)
(* history, once.                                                          *)
LEMMA EveryOrderCounts ==
  ASSUME OrdersKept, OutcomesKept, Fills!NothingDropped, NEW window \in Int
  PROVE  /\ Cardinality(Fills!Recent(window)) + Cardinality(Fills!RecentPending(window))
              = Cardinality(Fills!Since(window) \ lost)
         /\ Cardinality(Fills!Recent(window)) \in Nat
         /\ Cardinality(Fills!RecentPending(window)) \in Nat
         /\ Fills!RecentPending(window) # {} => Cardinality(Fills!RecentPending(window)) # 0
<1> DEFINE D == DOMAIN submissions
           W == {pending[i].number : i \in Fills!Waiting}
           since(n) == submissions[n].at >= fillsNow - window
<1>1. PICK N \in Nat : N = Len(submissions) /\ D = 1 .. N
  BY DEF OrdersKept
<1>2. IsFiniteSet(D) /\ Cardinality(D) = N
  <2>1. IsFiniteSet(1 .. N) /\ Cardinality(1 .. N) = (IF 1 > N THEN 0 ELSE N - 1 + 1)
    BY FS_Interval
  <2>2. (IF 1 > N THEN 0 ELSE N - 1 + 1) = N
    OBVIOUS
  <2> QED
    BY <1>1, <2>1, <2>2
<1>3. IsFiniteSet(Fills!Waiting) /\ IsFiniteSet(W) /\ Cardinality(W) = Cardinality(Fills!Waiting)
  <2>1. Fills!Waiting \in SUBSET FillIds
    BY DEF Fills!Waiting
  <2>2. IsFiniteSet(Fills!Waiting)
    BY <2>1, FS_Subset, FillsAssumption
  <2> DEFINE f == [i \in Fills!Waiting |-> pending[i].number]
  <2>3. \A i, j \in Fills!Waiting : f[i] = f[j] => i = j
    BY DEF OrdersKept
  <2>4. W = {f[i] : i \in Fills!Waiting}
    OBVIOUS
  <2> HIDE DEF f
  <2>5. /\ IsFiniteSet({f[i] : i \in Fills!Waiting})
        /\ Cardinality({f[i] : i \in Fills!Waiting}) = Cardinality(Fills!Waiting)
    BY <2>2, <2>3, AsMany
  <2> QED
    BY <2>2, <2>4, <2>5
<1>4. W \subseteq D \ lost /\ lost \subseteq D /\ Closed = (D \ lost) \ W
  BY DEF OrdersKept, Closed
<1> HIDE DEF D, W
<1>5. Cardinality(Closed) <= MaxHistory
  <2>1. IsFiniteSet(lost) /\ IsFiniteSet(D \ lost) /\ lost = D \cap lost
    BY <1>2, <1>4, FS_Subset
  <2>2. Cardinality(D \ lost) = Cardinality(D) - Cardinality(lost)
    <3>1. Cardinality(D \ lost) = Cardinality(D) - Cardinality(D \cap lost)
      BY <1>2, FS_Difference
    <3> QED
      BY <2>1, <3>1
  <2>3. Cardinality((D \ lost) \ W) = Cardinality(D \ lost) - Cardinality(W)
    <3>1. Cardinality((D \ lost) \ W) = Cardinality(D \ lost) - Cardinality((D \ lost) \cap W)
      BY <2>1, FS_Difference
    <3>2. (D \ lost) \cap W = W
      BY <1>4
    <3> QED
      BY <3>1, <3>2
  <2>4. Cardinality(lost) \in Nat /\ Cardinality(Fills!Waiting) \in Nat
    BY <1>3, <2>1, FS_CardinalityType
  <2>5. N - Cardinality(lost) - Cardinality(Fills!Waiting) <= MaxHistory
    BY <1>1, FillsCount DEF Fills!NothingDropped
  <2> QED
    BY <1>2, <1>3, <1>4, <2>2, <2>3, <2>4, <2>5
<1>6. \A n \in Closed : \E k \in DOMAIN executions : executions[k].order.number = n
  BY <1>5 DEF OutcomesKept
<1> DEFINE closed == {n \in Closed : since(n)}
           waiting == {n \in W : since(n)}
<1>7. Cardinality(Fills!Recent(window)) = Cardinality(closed) /\ IsFiniteSet(closed)
  <2> DEFINE f == [k \in Fills!Recent(window) |-> executions[k].order.number]
  <2>1. IsFiniteSet(Fills!Recent(window))
    <3>1. DOMAIN executions = 1 .. Len(executions) /\ Len(executions) \in Nat
      BY DEF OutcomesKept
    <3>2. IsFiniteSet(1 .. Len(executions))
      BY <3>1, FS_Interval
    <3>3. Fills!Recent(window) \in SUBSET (1 .. Len(executions))
      BY <3>1 DEF Fills!Recent
    <3> QED
      BY <3>2, <3>3, FS_Subset
  <2>2. \A k, m \in Fills!Recent(window) : f[k] = f[m] => k = m
    BY DEF OutcomesKept, Fills!Recent
  <2>3. closed = {f[k] : k \in Fills!Recent(window)}
    <3>1. ASSUME NEW k \in Fills!Recent(window) PROVE f[k] \in closed
      BY DEF OutcomesKept, Fills!Recent
    <3>2. ASSUME NEW n \in closed PROVE \E k \in Fills!Recent(window) : n = f[k]
      <4>1. PICK k \in DOMAIN executions : executions[k].order.number = n
        BY <1>6
      <4>2. executions[k].order = submissions[n]
        BY <4>1 DEF OutcomesKept
      <4>3. k \in Fills!Recent(window)
        BY <4>2 DEF Fills!Recent
      <4> QED
        BY <4>1, <4>3
    <3> QED
      BY <3>1, <3>2
  <2> HIDE DEF f, closed
  <2> QED
    BY <2>1, <2>2, <2>3, AsMany
<1>8. Cardinality(Fills!RecentPending(window)) = Cardinality(waiting) /\ IsFiniteSet(waiting)
      /\ IsFiniteSet(Fills!RecentPending(window))
  <2> DEFINE f == [i \in Fills!RecentPending(window) |-> pending[i].number]
  <2>1. /\ Fills!RecentPending(window) \in SUBSET Fills!Waiting
        /\ IsFiniteSet(Fills!RecentPending(window))
    <3>1. Fills!RecentPending(window) \in SUBSET Fills!Waiting
      BY DEF Fills!RecentPending, Fills!Waiting
    <3> QED
      BY <1>3, <3>1, FS_Subset
  <2>2. \A i, j \in Fills!RecentPending(window) : f[i] = f[j] => i = j
    BY <2>1 DEF OrdersKept
  <2>3. waiting = {f[i] : i \in Fills!RecentPending(window)}
    <3>1. ASSUME NEW i \in Fills!RecentPending(window) PROVE f[i] \in waiting
      BY <2>1 DEF OrdersKept, Fills!RecentPending, W
    <3>2. ASSUME NEW n \in waiting PROVE \E i \in Fills!RecentPending(window) : n = f[i]
      <4>1. PICK i \in Fills!Waiting : pending[i].number = n
        BY DEF W
      <4>2. pending[i] = submissions[n]
        BY <4>1 DEF OrdersKept
      <4>3. i \in Fills!RecentPending(window)
        BY <4>2 DEF Fills!RecentPending, Fills!Waiting
      <4> QED
        BY <4>1, <4>3
    <3> QED
      BY <3>1, <3>2
  <2> HIDE DEF f, waiting
  <2> QED
    BY <2>1, <2>2, <2>3, AsMany
<1>9. closed \cup waiting = Fills!Since(window) \ lost /\ closed \cap waiting = {}
  BY <1>4 DEF Fills!Since, D
<1> HIDE DEF closed, waiting
<1>10. Cardinality(closed \cup waiting)
         = Cardinality(closed) + Cardinality(waiting) - Cardinality(closed \cap waiting)
  BY <1>7, <1>8, FS_Union
<1>11. Cardinality(closed) \in Nat /\ Cardinality(waiting) \in Nat
       /\ Cardinality(closed \cap waiting) = 0
  BY <1>7, <1>8, <1>9, FS_CardinalityType, FS_EmptySet
<1>12. Fills!RecentPending(window) # {} => Cardinality(Fills!RecentPending(window)) # 0
  BY <1>8, FS_EmptySet
<1>13. PICK a \in Nat, b \in Nat : Cardinality(closed) = a /\ Cardinality(waiting) = b
  BY <1>11
<1>14. Cardinality(Fills!Since(window) \ lost) = a + b - 0
  BY <1>9, <1>10, <1>11, <1>13
<1> QED
  BY <1>7, <1>8, <1>12, <1>13, <1>14

LEMMA ReportsAreRight == FillsInv => Fills!ReportsAgree
<1> SUFFICES ASSUME FillsInv, NEW window \in 0 .. FillsEnd PROVE Fills!CountedOnce(window)
  BY FillsAreTheSame DEF Fills!ReportsAgree
<1> SUFFICES ASSUME Fills!NothingDropped
             PROVE  /\ Fills!Summary(window).total = Fills!Cardinality(Fills!Since(window) \ lost)
                    /\ Fills!RecentPending(window) # {} /\ Fills!Summary(window).filled = 0
                         => "fill rate" \in Fills!Anomalies(window)
  BY DEF Fills!CountedOnce
<1>1. OrdersKept /\ OutcomesKept /\ window \in Int
  BY DEF FillsInv
<1>2. PICK m \in Nat, n \in Nat :
        /\ m = Cardinality(Fills!Recent(window)) /\ n = Cardinality(Fills!RecentPending(window))
        /\ m + n = Cardinality(Fills!Since(window) \ lost)
        /\ Fills!RecentPending(window) # {} => n # 0
  BY <1>1, EveryOrderCounts
<1>3. Fills!Summary(window).total = m + n
  BY <1>2, FillsCount DEF Fills!Summary
<1>4. ASSUME Fills!RecentPending(window) # {}, Fills!Summary(window).filled = 0
      PROVE  "fill rate" \in Fills!Anomalies(window)
  <2>1. 100 * 0 < MinFillRate * (m + n)
    <3>1. m + n \in Nat \ {0} /\ MinFillRate \in Nat \ {0}
      BY <1>2, <1>4, FillsAssumption
    <3> QED
      BY <3>1
  <2>2. 100 * Fills!Summary(window).filled < MinFillRate * Fills!Summary(window).total
    BY <1>3, <1>4, <2>1
  <2> QED
    BY <2>2, Zenon DEF Fills!Anomalies
<1> QED
  BY <1>2, <1>3, <1>4, FillsCount

(* For any ids, prices, quantities, sizes of the histories and limits: the *)
(* monitor's summary of a window counts every order submitted in it once,  *)
(* until the history had to drop an outcome; a window whose orders only    *)
(* wait is an anomaly; and the analyzer's records are the monitor's fills, *)
(* the basis points within one of the exact ones, with the groups by size  *)
(* adding up to the whole.                                                 *)
THEOREM ReportedTwice == MCSpec => []ReportsAgree
<1>1. MCInit => FillsInv
  BY Begins, FillsInit
<1>2. FillsInv /\ [MCNext]_allVars => FillsInv'
  BY Moves, FillsStep
<1>3. FillsInv => ReportsAgree
  BY ReportsAreRight DEF ReportsAgree
<1> QED
  BY <1>1, <1>2, <1>3, PTL DEF MCSpec

-----------------------------------------------------------------------------
(* Performance.  A strategy's own account is the sum of its trades but for *)
(* those that closed while it was off (AccountsKept), and what the tracker *)
(* keeps of the equity point by point is what the whole curve gives: the   *)
(* peak is its high, and the spell under way began at the first point that *)
(* nothing rose above since (CurveKept).                                   *)

LEMMA BooksCount == \A S : Books!Cardinality(S) = Cardinality(S)
  BY DEF Books!Cardinality, Cardinality

LEMMA BooksSum == \A S, f : Books!SumOver(S, f) = SumOf(f, S)
  BY DEF Books!SumOver, Books!FoldFunctionOnSet, Books!MapThenFoldSet, SumOf, IsSum, Any

(* The greatest of a set of integers.                                      *)
LEMMA BooksMax ==
  ASSUME NEW S, S \subseteq Int, NEW m \in S, \A x \in S : m >= x
  PROVE  Books!Max(S) = m
<1>1. \A x \in S : (\A y \in S : x >= y) => x = m
  OBVIOUS
<1> QED
  BY <1>1 DEF Books!Max

(* The greatest of a set with more elements.                               *)
LEMMA BooksMaxGrows ==
  ASSUME NEW S, S \subseteq Int, IsFiniteSet(S), S # {}, NEW T, T \subseteq Int,
         NEW d \in T, \A x \in T : d >= x
  PROVE  /\ Books!Max(S) \in S /\ Books!Max(S) \in Int /\ \A x \in S : Books!Max(S) >= x
         /\ Books!Max(S \cup T) = Books!Max({Books!Max(S), d})
<1>1. PICK m \in S : m = Books!Max(S) /\ \A x \in S : m >= x
  <2>1. Greatest(S) \in S /\ \A x \in S : Greatest(S) >= x
    BY GreatestIsIn
  <2> QED
    BY <2>1, BooksMax
<1> DEFINE top == IF m >= d THEN m ELSE d
<1>2. Books!Max({m, d}) = top
  <2>1. top \in {m, d} /\ {m, d} \subseteq Int /\ \A x \in {m, d} : top >= x
    BY <1>1
  <2> HIDE DEF top
  <2> QED
    BY <2>1, BooksMax
<1>3. Books!Max(S \cup T) = top
  <2>1. top \in S \cup T /\ S \cup T \subseteq Int /\ \A x \in S \cup T : top >= x
    BY <1>1
  <2> HIDE DEF top
  <2> QED
    BY <2>1, BooksMax
<1> QED
  BY <1>1, <1>2, <1>3

BookTrade == [strategy : BookStrategies, bucket : {"session", "off hours"},
              pnl : Int, exit : Nat]
Account == [status : {"ACTIVE", "DISABLED_PERFORMANCE", "DISABLED_MANUAL"}, wins : Nat,
            losses : Nat, streak : Nat, equity : Int, peak : Int, pnls : Seq(Int)]
Point == [at : Nat, equity : Int]

BooksTyped ==
  /\ booksNow \in Nat /\ booksTrades \in Seq(BookTrade)
  /\ benched \subseteq DOMAIN booksTrades
  /\ snaps \in [BookStrategies -> Account]

(* The trades a strategy's own account is about, and its account.          *)
Own(s) == {i \in DOMAIN booksTrades \ benched : booksTrades[i].strategy = s}
Results == [i \in DOMAIN booksTrades |-> booksTrades[i].pnl]
AccountsKept == \A s \in BookStrategies :
  /\ snaps[s].equity = SumOf(Results, Own(s))
  /\ snaps[s].wins = Cardinality({i \in Own(s) : Results[i] > 0})
  /\ snaps[s].losses = Cardinality({i \in Own(s) : Results[i] < 0})

(* The falls and the times under water that the curve's reports ended.     *)
Falls ==
  {0} \cup {Books!Drop(Books!HighBefore(j + 1), equities[j].equity) : j \in DOMAIN equities}
Spells == {0} \cup {equities[p[2]].at - equities[p[1]].at :
  p \in {q \in (DOMAIN equities) \X (DOMAIN equities) : Books!UnderWater(q[1], q[2])}}

(* The spell under way started where it is the longest.                    *)
Started(i) ==
  /\ Books!UnderWater(i, Len(equities)) /\ equities[i].at = drawdownStart
  /\ \A k \in DOMAIN equities : Books!UnderWater(k, Len(equities)) => i <= k

CurveKept ==
  /\ equities \in Seq(Point)
  /\ \A i, j \in DOMAIN equities : i <= j => equities[i].at <= equities[j].at
  /\ \A i \in DOMAIN equities : equities[i].at <= booksNow
  /\ peak = Books!HighBefore(Len(equities) + 1)
  /\ worst = Books!Max(Falls) /\ longest = Books!Max(Spells)
  /\ IF drawdownStart = Books!NoStart
     THEN \A i \in DOMAIN equities : ~Books!UnderWater(i, Len(equities))
     ELSE \E i \in DOMAIN equities : Started(i)

BooksInv == BooksTyped /\ AccountsKept /\ CurveKept

(* The high before a point is one of what came before, and over it.        *)
LEMMA HighIs ==
  ASSUME CurveKept, NEW j \in 1 .. Len(equities) + 1
  PROVE  LET S == {StartingEquity} \cup {equities[i].equity : i \in 1 .. j - 1} IN
         /\ S \subseteq Int /\ IsFiniteSet(S) /\ S # {}
         /\ Books!HighBefore(j) = Books!Max(S) /\ Books!HighBefore(j) \in Nat \ {0}
<1> DEFINE S == {StartingEquity} \cup {equities[i].equity : i \in 1 .. j - 1}
<1>1. S \subseteq Int /\ S # {} /\ StartingEquity \in S
  <2>1. \A i \in DOMAIN equities : equities[i].equity \in Int
    <3>1. equities \in Seq(Point)
      BY DEF CurveKept
    <3>2. \A i \in DOMAIN equities : equities[i] \in Point
      BY <3>1
    <3> QED
      BY <3>2 DEF Point
  <2>2. 1 .. j - 1 \subseteq DOMAIN equities
    BY DEF CurveKept
  <2> QED
    BY <2>1, <2>2, BooksAssumption
<1>2. IsFiniteSet(S)
  <2>1. IsFiniteSet(1 .. j - 1)
    <3>1. Len(equities) \in Nat
      BY DEF CurveKept
    <3>2. 1 \in Int /\ j - 1 \in Int
      BY <3>1
    <3> QED
      BY <3>2, FS_Interval
  <2> DEFINE f == [i \in 1 .. j - 1 |-> equities[i].equity]
             R == {f[i] : i \in 1 .. j - 1}
  <2> HIDE DEF f
  <2>3. IsFiniteSet(R)
    BY <2>1, FiniteImage
  <2> HIDE DEF R
  <2>4. S = R \cup {StartingEquity}
    BY DEF R, f
  <2>5. IsFiniteSet(R \cup {StartingEquity})
    BY <2>3, FS_AddElement
  <2> QED
    BY <2>4, <2>5
<1>3. Books!HighBefore(j) = Books!Max(S)
  BY DEF Books!HighBefore
<1> HIDE DEF S
<1>4. Books!Max(S) \in S /\ \A x \in S : Books!Max(S) >= x
  <2>2. Greatest(S) \in S /\ \A x \in S : Greatest(S) >= x
    BY <1>1, <1>2, GreatestIsIn
  <2>3. Books!Max(S) = Greatest(S)
    BY <1>1, <2>2, BooksMax
  <2> QED
    BY <2>2, <2>3
<1>5. Books!HighBefore(j) \in Nat \ {0}
  <2>1. PICK m \in Int : m = Books!Max(S) /\ m >= StartingEquity
    BY <1>1, <1>4
  <2>2. StartingEquity \in Nat \ {0}
    BY BooksAssumption
  <2> QED
    BY <1>3, <2>1, <2>2
<1> QED
  BY <1>1, <1>2, <1>3, <1>5 DEF S

LEMMA BooksInit == Books!Init => BooksInv
<1> SUFFICES ASSUME Books!Init PROVE BooksInv
  OBVIOUS
<1>1. /\ booksNow = 0 /\ booksTrades = <<>> /\ peak = StartingEquity /\ worst = 0
      /\ drawdownStart = Books!NoStart /\ longest = 0 /\ benched = {} /\ equities = <<>>
      /\ snaps = [s \in BookStrategies |-> Books!Snapshot]
  BY DEF Books!Init
<1>2. BooksTyped
  BY <1>1 DEF BooksTyped, Books!Snapshot, Account
<1>3. AccountsKept
  <2>1. \A s \in BookStrategies : Own(s) = {}
    BY <1>1 DEF Own
  <2>2. SumOf(Results, {}) = 0 /\ Cardinality({}) = 0
    BY SumOfNone, FS_EmptySet
  <2>3. \A s \in BookStrategies : {i \in Own(s) : Results[i] > 0} = {}
                                /\ {i \in Own(s) : Results[i] < 0} = {}
    BY <2>1
  <2> QED
    BY <1>1, <2>1, <2>2, <2>3 DEF AccountsKept, Books!Snapshot
<1>4. CurveKept
  <2>1. DOMAIN equities = {} /\ Len(equities) = 0 /\ equities \in Seq(Point)
    BY <1>1
  <2>2. Books!HighBefore(0 + 1) = StartingEquity
    <3>1. {StartingEquity} \cup {equities[i].equity : i \in 1 .. (0 + 1) - 1} = {StartingEquity}
      OBVIOUS
    <3>2. Books!Max({StartingEquity}) = StartingEquity
      BY BooksAssumption, BooksMax
    <3> QED
      BY <3>1, <3>2 DEF Books!HighBefore
  <2>3. Falls = {0} /\ Spells = {0}
    BY <2>1 DEF Falls, Spells
  <2>4. Books!Max({0}) = 0
    BY BooksMax
  <2> QED
    BY <1>1, <2>1, <2>2, <2>3, <2>4 DEF CurveKept
<1> QED
  BY <1>2, <1>3, <1>4 DEF BooksInv

(* One more trade: the sums and counts of the trades before it are kept,   *)
(* and it adds its own.                                                    *)
LEMMA TradeAdds ==
  ASSUME BooksTyped, NEW trade \in BookTrade, booksTrades' = Append(booksTrades, trade)
  PROVE  LET N == Len(booksTrades) + 1 IN
         /\ booksTrades' \in Seq(BookTrade) /\ DOMAIN booksTrades' = DOMAIN booksTrades \cup {N}
         /\ N \notin DOMAIN booksTrades /\ booksTrades'[N] = trade
         /\ \A i \in DOMAIN booksTrades : booksTrades'[i] = booksTrades[i]
         /\ \A C \in SUBSET DOMAIN booksTrades :
              /\ SumOf(Results', C) = SumOf(Results, C)
              /\ {i \in C : Results'[i] > 0} = {i \in C : Results[i] > 0}
              /\ {i \in C : Results'[i] < 0} = {i \in C : Results[i] < 0}
              /\ SumOf(Results', C \cup {N}) = SumOf(Results, C) + trade.pnl
              /\ Cardinality({i \in C \cup {N} : Results'[i] > 0})
                   = Cardinality({i \in C : Results[i] > 0}) + (IF trade.pnl > 0 THEN 1 ELSE 0)
              /\ Cardinality({i \in C \cup {N} : Results'[i] < 0})
                   = Cardinality({i \in C : Results[i] < 0}) + (IF trade.pnl < 0 THEN 1 ELSE 0)
<1> DEFINE N == Len(booksTrades) + 1
           D == DOMAIN booksTrades
<1>1. /\ booksTrades' \in Seq(BookTrade) /\ DOMAIN booksTrades' = D \cup {N}
      /\ N \notin D /\ booksTrades'[N] = trade
      /\ \A i \in D : booksTrades'[i] = booksTrades[i]
  BY DEF BooksTyped
<1>2. IsFiniteSet(D) /\ IsFiniteSet(D \cup {N})
  <2>1. D = 1 .. Len(booksTrades) /\ Len(booksTrades) \in Nat
    BY DEF BooksTyped
  <2>2. IsFiniteSet(1 .. Len(booksTrades))
    BY <2>1, FS_Interval
  <2> HIDE DEF N
  <2> QED
    BY <2>1, <2>2, FS_AddElement
<1>3. /\ N \notin D /\ IsFiniteSet(D) /\ IsFiniteSet(D \cup {N})
      /\ \A i \in D : Results[i] \in Int /\ Results'[i] = Results[i]
      /\ Results'[N] = trade.pnl /\ trade.pnl \in Int
  <2>1. \A i \in D : booksTrades[i].pnl \in Int
    <3>1. booksTrades \in Seq(BookTrade)
      BY DEF BooksTyped
    <3>2. \A i \in D : booksTrades[i] \in BookTrade
      BY <3>1
    <3> QED
      BY <3>2 DEF BookTrade
  <2>2. trade.pnl \in Int
    BY DEF BookTrade
  <2> QED
    BY <1>1, <1>2, <2>1, <2>2 DEF Results
<1> HIDE DEF N, D
<1>4. ASSUME NEW C \in SUBSET D
      PROVE  /\ SumOf(Results', C) = SumOf(Results, C)
             /\ {i \in C : Results'[i] > 0} = {i \in C : Results[i] > 0}
             /\ {i \in C : Results'[i] < 0} = {i \in C : Results[i] < 0}
             /\ SumOf(Results', C \cup {N}) = SumOf(Results, C) + trade.pnl
             /\ Cardinality({i \in C \cup {N} : Results'[i] > 0})
                  = Cardinality({i \in C : Results[i] > 0}) + (IF trade.pnl > 0 THEN 1 ELSE 0)
             /\ Cardinality({i \in C \cup {N} : Results'[i] < 0})
                  = Cardinality({i \in C : Results[i] < 0}) + (IF trade.pnl < 0 THEN 1 ELSE 0)
  <2>1. IsFiniteSet(C) /\ \A i \in C : Results[i] \in Int /\ Results'[i] = Results[i] /\ i # N
    BY <1>3, FS_Subset
  <2>2. SumOf(Results', C) = SumOf(Results, C)
    BY <2>1, SameSum
  <2>3. /\ {i \in C : Results'[i] > 0} = {i \in C : Results[i] > 0}
        /\ {i \in C : Results'[i] < 0} = {i \in C : Results[i] < 0}
    BY <2>1
  <2>4. SumOf(Results', C \cup {N}) = SumOf(Results', C) + Results'[N]
    <3>1. \A i \in D \cup {N} : Results'[i] \in Int
      BY <1>3
    <3>2. \A t \in SUBSET (D \cup {N}), y \in D \cup {N} :
            y \notin t => SumOf(Results', t \cup {y}) = SumOf(Results', t) + Results'[y]
      BY <1>3, <3>1, OneMore
    <3>3. C \in SUBSET (D \cup {N}) /\ N \in D \cup {N} /\ N \notin C
      BY <1>3
    <3> QED
      BY <3>2, <3>3
  <2>5. \A Q \in SUBSET C : /\ N \notin Q /\ Cardinality(Q) \in Nat
                           /\ Cardinality(Q \cup {N}) = Cardinality(Q) + 1
    <3> SUFFICES ASSUME NEW Q \in SUBSET C
                 PROVE  /\ N \notin Q /\ Cardinality(Q) \in Nat
                        /\ Cardinality(Q \cup {N}) = Cardinality(Q) + 1
      OBVIOUS
    <3>1. IsFiniteSet(C) /\ N \notin C
      BY <2>1
    <3>2. N \notin Q
      BY <3>1
    <3>3. IsFiniteSet(Q)
      BY <3>1, FS_Subset
    <3> QED
      BY <3>2, <3>3, FS_AddElement, FS_CardinalityType
  <2>6. Cardinality({i \in C \cup {N} : Results'[i] > 0})
          = Cardinality({i \in C : Results[i] > 0}) + (IF trade.pnl > 0 THEN 1 ELSE 0)
    <3> DEFINE Q == {i \in C : Results[i] > 0}
    <3>1. {i \in C \cup {N} : Results'[i] > 0} = (IF trade.pnl > 0 THEN Q \cup {N} ELSE Q)
      BY <1>3, <2>3
    <3>2. Q \in SUBSET C
      OBVIOUS
    <3> HIDE DEF Q
    <3>3. Cardinality(Q) \in Nat /\ Cardinality(Q \cup {N}) = Cardinality(Q) + 1
      BY <2>5, <3>2
    <3> DEFINE R == {i \in C \cup {N} : Results'[i] > 0}
    <3> HIDE DEF R
    <3>4. R = (IF trade.pnl > 0 THEN Q \cup {N} ELSE Q)
      BY <3>1 DEF R
    <3>5. Cardinality(R) = Cardinality(Q) + (IF trade.pnl > 0 THEN 1 ELSE 0)
      BY <3>3, <3>4
    <3> QED
      BY <3>5 DEF Q, R
  <2>7. Cardinality({i \in C \cup {N} : Results'[i] < 0})
          = Cardinality({i \in C : Results[i] < 0}) + (IF trade.pnl < 0 THEN 1 ELSE 0)
    <3> DEFINE Q == {i \in C : Results[i] < 0}
    <3>1. {i \in C \cup {N} : Results'[i] < 0} = (IF trade.pnl < 0 THEN Q \cup {N} ELSE Q)
      BY <1>3, <2>3
    <3>2. Q \in SUBSET C
      OBVIOUS
    <3> HIDE DEF Q
    <3>3. Cardinality(Q) \in Nat /\ Cardinality(Q \cup {N}) = Cardinality(Q) + 1
      BY <2>5, <3>2
    <3> DEFINE R == {i \in C \cup {N} : Results'[i] < 0}
    <3> HIDE DEF R
    <3>4. R = (IF trade.pnl < 0 THEN Q \cup {N} ELSE Q)
      BY <3>1 DEF R
    <3>5. Cardinality(R) = Cardinality(Q) + (IF trade.pnl < 0 THEN 1 ELSE 0)
      BY <3>3, <3>4
    <3> QED
      BY <3>5 DEF Q, R
  <2> QED
    BY <1>3, <2>2, <2>3, <2>4, <2>6, <2>7
<1> QED
  BY <1>1, <1>4 DEF N, D

(* A result recorded by an account.                                        *)
LEMMA RecordedIs ==
  ASSUME NEW snap \in Account, NEW pnl \in Int
  PROVE  LET r == Books!Recorded(snap, pnl) IN
         /\ r \in Account /\ r.equity = snap.equity + pnl
         /\ r.wins = snap.wins + (IF pnl > 0 THEN 1 ELSE 0)
         /\ r.losses = snap.losses + (IF pnl < 0 THEN 1 ELSE 0)
<1> DEFINE equity == snap.equity + pnl
           counted == [snap EXCEPT
             !.wins = @ + (IF pnl > 0 THEN 1 ELSE 0),
             !.losses = @ + (IF pnl < 0 THEN 1 ELSE 0),
             !.streak = IF pnl > 0 THEN 0 ELSE IF pnl < 0 THEN @ + 1 ELSE @,
             !.equity = equity, !.peak = Books!Max({@, equity}), !.pnls = Append(@, pnl)]
<1>1. Books!Max({snap.peak, equity}) \in Int
  <2> DEFINE top == IF snap.peak >= equity THEN snap.peak ELSE equity
  <2>1. snap.peak \in Int /\ equity \in Int
    BY DEF Account
  <2> HIDE DEF equity
  <2>2. top \in {snap.peak, equity} /\ {snap.peak, equity} \subseteq Int
        /\ \A x \in {snap.peak, equity} : top >= x
    BY <2>1
  <2> HIDE DEF top
  <2>3. Books!Max({snap.peak, equity}) = top
    BY <2>2, BooksMax
  <2> QED
    BY <2>2, <2>3
<1>2. /\ Append(snap.pnls, pnl) \in Seq(Int)
      /\ snap.wins + (IF pnl > 0 THEN 1 ELSE 0) \in Nat
      /\ snap.losses + (IF pnl < 0 THEN 1 ELSE 0) \in Nat
      /\ (IF pnl > 0 THEN 0 ELSE IF pnl < 0 THEN snap.streak + 1 ELSE snap.streak) \in Nat
      /\ equity \in Int
  BY DEF Account
<1>3. /\ counted \in Account /\ counted.equity = snap.equity + pnl
      /\ counted.wins = snap.wins + (IF pnl > 0 THEN 1 ELSE 0)
      /\ counted.losses = snap.losses + (IF pnl < 0 THEN 1 ELSE 0)
  BY <1>1, <1>2 DEF Account
<1> DEFINE off == [counted EXCEPT !.status = "DISABLED_PERFORMANCE"]
<1>4. Books!Recorded(snap, pnl) = IF Books!Retires(counted) THEN off ELSE counted
  BY Zenon DEF Books!Recorded
<1> HIDE DEF counted
<1>5. /\ off \in Account /\ off.equity = counted.equity
      /\ off.wins = counted.wins /\ off.losses = counted.losses
  BY <1>3 DEF Account
<1> HIDE DEF off
<1> QED
  BY <1>3, <1>4, <1>5

(* The curve's part of the invariant, where no equity is reported.         *)
LEMMA CurveStays ==
  ASSUME CurveKept, booksNow' \in Nat, booksNow' >= booksNow, booksNow \in Nat,
         UNCHANGED <<peak, worst, drawdownStart, longest, equities>>
  PROVE  CurveKept'
<1>1. /\ Falls' = Falls /\ Spells' = Spells
      /\ \A j : Books!HighBefore(j)' = Books!HighBefore(j)
      /\ \A i, j : Books!UnderWater(i, j)' <=> Books!UnderWater(i, j)
  BY DEF Falls, Spells, Books!UnderWater, Books!HighBefore, Books!Drop
<1>2. \A i : Started(i)' <=> Started(i)
  BY <1>1 DEF Started
<1>3. \A i \in DOMAIN equities : equities[i].at \in Int
  <2>1. equities \in Seq(Point)
    BY DEF CurveKept
  <2>2. \A i \in DOMAIN equities : equities[i] \in Point
    BY <2>1
  <2> QED
    BY <2>2 DEF Point
<1>4. \A i \in DOMAIN equities' : equities'[i].at <= booksNow'
  BY <1>3 DEF CurveKept
<1> QED
  BY <1>1, <1>2, <1>4 DEF CurveKept, Books!NoStart

LEMMA TradeClosed ==
  ASSUME BooksInv, NEW s \in BookStrategies, NEW b \in Books!Buckets, NEW p \in Books!Results,
         Books!CloseTrade(s, b, p)
  PROVE  BooksInv'
<1>1. BooksTyped /\ AccountsKept /\ CurveKept
  BY DEF BooksInv
<1> DEFINE trade == [strategy |-> s, bucket |-> b, pnl |-> p, exit |-> booksNow]
           N == Len(booksTrades) + 1
           D == DOMAIN booksTrades
           active == snaps[s].status = "ACTIVE"
<1>2. /\ booksTrades' = Append(booksTrades, trade) /\ booksNow' = booksNow
      /\ snaps' = (IF active THEN [snaps EXCEPT ![s] = Books!Recorded(@, p)] ELSE snaps)
      /\ benched' = (IF active THEN benched ELSE benched \cup {Len(booksTrades')})
      /\ UNCHANGED <<peak, worst, drawdownStart, longest, equities>>
  BY DEF Books!CloseTrade, Books!Counts
<1>3. trade \in BookTrade /\ trade.pnl = p /\ trade.strategy = s /\ p \in Int
      /\ booksNow \in Nat
  <2>1. p \in Int
    BY BooksAssumption DEF Books!Results
  <2> QED
    BY <1>1, <2>1 DEF BooksTyped, BookTrade, Books!Buckets
<1>4. Len(booksTrades') = N
  <2> HIDE DEF trade
  <2> QED
    BY <1>1, <1>2, <1>3 DEF BooksTyped
<1> HIDE DEF trade
<1>5. /\ booksTrades' \in Seq(BookTrade) /\ DOMAIN booksTrades' = D \cup {N}
      /\ N \notin D /\ booksTrades'[N] = trade
      /\ \A i \in D : booksTrades'[i] = booksTrades[i]
      /\ \A C \in SUBSET D :
           /\ SumOf(Results', C) = SumOf(Results, C)
           /\ {i \in C : Results'[i] > 0} = {i \in C : Results[i] > 0}
           /\ {i \in C : Results'[i] < 0} = {i \in C : Results[i] < 0}
           /\ SumOf(Results', C \cup {N}) = SumOf(Results, C) + p
           /\ Cardinality({i \in C \cup {N} : Results'[i] > 0})
                = Cardinality({i \in C : Results[i] > 0}) + (IF p > 0 THEN 1 ELSE 0)
           /\ Cardinality({i \in C \cup {N} : Results'[i] < 0})
                = Cardinality({i \in C : Results[i] < 0}) + (IF p < 0 THEN 1 ELSE 0)
  BY <1>1, <1>2, <1>3, TradeAdds
<1>6. benched \subseteq D /\ snaps \in [BookStrategies -> Account]
      /\ \A t \in BookStrategies : Own(t) \in SUBSET D
  BY <1>1 DEF BooksTyped, Own
<1> HIDE DEF N, D
<1>7. CASE active
  <2>1. benched' = benched /\ snaps' = [snaps EXCEPT ![s] = Books!Recorded(@, p)]
    BY <1>2, <1>7
  <2>2. /\ Own(s)' = Own(s) \cup {N}
        /\ \A t \in BookStrategies : t # s => Own(t)' = Own(t)
    <3>1. DOMAIN booksTrades = D
      BY DEF D
    <3> QED
      BY <1>3, <1>5, <1>6, <2>1, <3>1 DEF Own
  <2>3. /\ Books!Recorded(snaps[s], p) \in Account
        /\ Books!Recorded(snaps[s], p).equity = snaps[s].equity + p
        /\ Books!Recorded(snaps[s], p).wins = snaps[s].wins + (IF p > 0 THEN 1 ELSE 0)
        /\ Books!Recorded(snaps[s], p).losses = snaps[s].losses + (IF p < 0 THEN 1 ELSE 0)
    <3>1. snaps[s] \in Account
      BY <1>6
    <3> QED
      BY <1>3, <3>1, RecordedIs
  <2>4. /\ snaps' \in [BookStrategies -> Account] /\ snaps'[s] = Books!Recorded(snaps[s], p)
        /\ \A t \in BookStrategies : t # s => snaps'[t] = snaps[t]
    BY <1>6, <2>1, <2>3
  <2>5. BooksTyped'
    BY <1>1, <1>2, <1>5, <1>6, <2>1, <2>4 DEF BooksTyped
  <2>6. AccountsKept'
    <3> SUFFICES ASSUME NEW t \in BookStrategies
                 PROVE  /\ snaps'[t].equity = SumOf(Results', Own(t)')
                        /\ snaps'[t].wins = Cardinality({i \in Own(t)' : Results'[i] > 0})
                        /\ snaps'[t].losses = Cardinality({i \in Own(t)' : Results'[i] < 0})
      BY DEF AccountsKept
    <3>1. /\ snaps[t].equity = SumOf(Results, Own(t))
          /\ snaps[t].wins = Cardinality({i \in Own(t) : Results[i] > 0})
          /\ snaps[t].losses = Cardinality({i \in Own(t) : Results[i] < 0})
      BY <1>1 DEF AccountsKept
    <3>2. CASE t = s
      BY <1>5, <1>6, <2>2, <2>3, <2>4, <3>1, <3>2
    <3>3. CASE t # s
      BY <1>5, <1>6, <2>2, <2>4, <3>1, <3>3
    <3> QED
      BY <3>2, <3>3
  <2>7. CurveKept'
    BY <1>1, <1>2, <1>3, CurveStays
  <2> QED
    BY <2>5, <2>6, <2>7 DEF BooksInv
<1>8. CASE ~active
  <2>1. benched' = benched \cup {N} /\ snaps' = snaps
    BY <1>2, <1>4, <1>8
  <2>2. \A t \in BookStrategies : Own(t)' = Own(t)
    <3>1. DOMAIN booksTrades = D
      BY DEF D
    <3> QED
      BY <1>5, <1>6, <2>1, <3>1 DEF Own
  <2>3. BooksTyped'
    BY <1>1, <1>2, <1>5, <1>6, <2>1 DEF BooksTyped
  <2>4. AccountsKept'
    <3> SUFFICES ASSUME NEW t \in BookStrategies
                 PROVE  /\ snaps'[t].equity = SumOf(Results', Own(t)')
                        /\ snaps'[t].wins = Cardinality({i \in Own(t)' : Results'[i] > 0})
                        /\ snaps'[t].losses = Cardinality({i \in Own(t)' : Results'[i] < 0})
      BY DEF AccountsKept
    <3>1. /\ snaps[t].equity = SumOf(Results, Own(t))
          /\ snaps[t].wins = Cardinality({i \in Own(t) : Results[i] > 0})
          /\ snaps[t].losses = Cardinality({i \in Own(t) : Results[i] < 0})
      BY <1>1 DEF AccountsKept
    <3> QED
      BY <1>5, <1>6, <2>1, <2>2, <3>1
  <2>5. CurveKept'
    BY <1>1, <1>2, <1>3, CurveStays
  <2> QED
    BY <2>3, <2>4, <2>5 DEF BooksInv
<1> QED
  BY <1>7, <1>8

LEMMA StrategySwitched ==
  ASSUME BooksInv, NEW s \in BookStrategies,
         Books!DisableStrategy(s) \/ Books!EnableStrategy(s)
  PROVE  BooksInv'
<1>1. BooksTyped /\ AccountsKept /\ CurveKept
  BY DEF BooksInv
<1>2. /\ booksNow' = booksNow /\ booksTrades' = booksTrades /\ benched' = benched
      /\ UNCHANGED <<peak, worst, drawdownStart, longest, equities>>
      /\ \/ snaps' = [snaps EXCEPT ![s].status = "DISABLED_MANUAL"]
         \/ snaps' = [snaps EXCEPT ![s].status = "ACTIVE", ![s].streak = 0]
  BY DEF Books!DisableStrategy, Books!EnableStrategy
<1>3. snaps \in [BookStrategies -> Account]
  BY <1>1 DEF BooksTyped
<1>4. /\ snaps' \in [BookStrategies -> Account]
      /\ \A t \in BookStrategies : /\ snaps'[t].equity = snaps[t].equity
                                  /\ snaps'[t].wins = snaps[t].wins
                                  /\ snaps'[t].losses = snaps[t].losses
  <2> DEFINE off == [snaps[s] EXCEPT !.status = "DISABLED_MANUAL"]
             on == [snaps[s] EXCEPT !.status = "ACTIVE", !.streak = 0]
  <2>1. snaps' = [snaps EXCEPT ![s] = off] \/ snaps' = [snaps EXCEPT ![s] = on]
    BY <1>2, <1>3
  <2>2. \A r \in {off, on} : /\ r \in Account /\ r.equity = snaps[s].equity
                            /\ r.wins = snaps[s].wins /\ r.losses = snaps[s].losses
    <3>1. PICK r \in Account : r = snaps[s]
      BY <1>3
    <3>2. /\ off \in Account /\ off.equity = r.equity
          /\ off.wins = r.wins /\ off.losses = r.losses
      BY <3>1 DEF Account
    <3>3. /\ on \in Account /\ on.equity = r.equity
          /\ on.wins = r.wins /\ on.losses = r.losses
      BY <3>1 DEF Account
    <3> QED
      BY <3>1, <3>2, <3>3
  <2> HIDE DEF off, on
  <2>3. PICK r \in {off, on} : snaps' = [snaps EXCEPT ![s] = r]
    BY <2>1
  <2> QED
    BY <1>3, <2>2, <2>3
<1>5. Results' = Results /\ \A t : Own(t)' = Own(t)
  BY <1>2 DEF Results, Own
<1>6. BooksTyped'
  BY <1>1, <1>2, <1>4 DEF BooksTyped
<1>7. AccountsKept'
  BY <1>1, <1>4, <1>5 DEF AccountsKept
<1>8. CurveKept'
  BY <1>1, <1>2, CurveStays DEF BooksTyped
<1> QED
  BY <1>6, <1>7, <1>8 DEF BooksInv

LEMMA PointsAre ==
  ASSUME CurveKept
  PROVE  /\ Len(equities) \in Nat /\ DOMAIN equities = 1 .. Len(equities)
         /\ IsFiniteSet(DOMAIN equities)
         /\ \A i \in DOMAIN equities : equities[i].at \in Nat /\ equities[i].equity \in Int
<1>1. equities \in Seq(Point)
  BY DEF CurveKept
<1>2. Len(equities) \in Nat /\ DOMAIN equities = 1 .. Len(equities)
  BY <1>1
<1>3. IsFiniteSet(1 .. Len(equities))
  BY <1>2, FS_Interval
<1>4. \A i \in DOMAIN equities : equities[i] \in Point
  BY <1>1
<1> QED
  BY <1>2, <1>3, <1>4 DEF Point

LEMMA FallsAre ==
  ASSUME CurveKept
  PROVE  Falls \subseteq Int /\ IsFiniteSet(Falls) /\ 0 \in Falls
<1> DEFINE fall == [j \in DOMAIN equities |->
                     Books!Drop(Books!HighBefore(j + 1), equities[j].equity)]
           R == {fall[j] : j \in DOMAIN equities}
<1>1. Falls = R \cup {0}
  BY DEF Falls
<1>2. \A j \in DOMAIN equities : fall[j] \in Int
  <2> SUFFICES ASSUME NEW j \in DOMAIN equities PROVE fall[j] \in Int
    OBVIOUS
  <2>1. j + 1 \in 1 .. Len(equities) + 1
    BY PointsAre
  <2>2. PICK top \in Nat \ {0} : top = Books!HighBefore(j + 1)
    BY <2>1, HighIs
  <2>3. PICK e \in Int : e = equities[j].equity
    BY PointsAre
  <2>4. 1000 * (top - e) \in Int
    OBVIOUS
  <2>5. (1000 * (top - e)) \div top \in Int
    BY <2>2, <2>4
  <2> QED
    BY <2>2, <2>3, <2>5 DEF Books!Drop
<1>3. IsFiniteSet(R)
  <2> HIDE DEF fall
  <2> QED
    BY PointsAre, FiniteImage
<1> HIDE DEF fall
<1>4. R \subseteq Int
  BY <1>2
<1> HIDE DEF R
<1>5. IsFiniteSet(R \cup {0})
  BY <1>3, FS_AddElement
<1> QED
  BY <1>1, <1>4, <1>5

LEMMA SpellsAre ==
  ASSUME CurveKept
  PROVE  Spells \subseteq Int /\ IsFiniteSet(Spells) /\ 0 \in Spells
<1> DEFINE D == DOMAIN equities
           Q == {q \in D \X D : Books!UnderWater(q[1], q[2])}
           f == [p \in Q |-> equities[p[2]].at - equities[p[1]].at]
           R == {f[p] : p \in Q}
<1>1. Spells = R \cup {0}
  BY DEF Spells
<1>2. \A p \in Q : p[1] \in D /\ p[2] \in D
  OBVIOUS
<1>3. \A p \in Q : f[p] \in Int
  <2>1. \A i \in D : equities[i].at \in Int
    BY PointsAre
  <2> QED
    BY <1>2, <2>1
<1>4. IsFiniteSet(Q)
  <2>1. IsFiniteSet(D \X D)
    BY PointsAre, FS_Product
  <2>2. Q \subseteq D \X D
    OBVIOUS
  <2> HIDE DEF Q, D
  <2> QED
    BY <2>1, <2>2, FS_Subset
<1> HIDE DEF f, Q
<1>5. IsFiniteSet(R)
  BY <1>4, FiniteImage
<1>6. R \subseteq Int
  BY <1>3
<1> HIDE DEF R
<1>7. IsFiniteSet(R \cup {0})
  BY <1>5, FS_AddElement
<1> QED
  BY <1>1, <1>6, <1>7

LEMMA EquityReported ==
  ASSUME BooksInv, NEW e \in BookEquities, Books!UpdateEquity(e)
  PROVE  BooksInv'
<1>1. BooksTyped /\ AccountsKept /\ CurveKept
  BY DEF BooksInv
<1>0. PICK L \in Nat : L = Len(equities)
  BY <1>1, PointsAre
<1> DEFINE point == [at |-> booksNow, equity |-> e]
           n == L + 1
           up == e > peak
           since == IF drawdownStart = Books!NoStart THEN booksNow ELSE drawdownStart
<1>2. /\ peak' = (IF up THEN e ELSE peak)
      /\ worst' = (IF up THEN worst ELSE Books!Max({worst, Books!Drop(peak, e)}))
      /\ drawdownStart' = (IF up THEN Books!NoStart ELSE since)
      /\ longest' = (IF up THEN longest ELSE Books!Max({longest, booksNow - since}))
      /\ equities' = Append(equities, point)
      /\ UNCHANGED <<booksNow, booksTrades, snaps, benched>>
  BY DEF Books!UpdateEquity, Books!NewPeak, Books!DrawdownSince
<1>3. /\ e \in Int /\ booksNow \in Nat /\ point \in Point /\ point.at = booksNow
      /\ point.equity = e /\ L \in Nat /\ DOMAIN equities = 1 .. L
      /\ \A i \in 1 .. L : equities[i].at \in Nat /\ equities[i].equity \in Int
      /\ equities \in Seq(Point)
  BY <1>1, <1>0, BooksAssumption, PointsAre DEF BooksTyped, Point, CurveKept
<1> HIDE DEF point
<1>4. /\ equities' \in Seq(Point) /\ Len(equities') = n /\ DOMAIN equities' = 1 .. n
      /\ equities'[n] = point /\ \A i \in 1 .. L : equities'[i] = equities[i]
  BY <1>2, <1>3, <1>0
<1> HIDE DEF up, since
<1>5. 1 .. n = 1 .. L \cup {n} /\ n \notin 1 .. L /\ n \in Nat \ {0} /\ n \in 1 .. n
  BY <1>3
<1>6. \A j \in 1 .. n : Books!HighBefore(j)' = Books!HighBefore(j)
  <2> SUFFICES ASSUME NEW j \in 1 .. n PROVE Books!HighBefore(j)' = Books!HighBefore(j)
    OBVIOUS
  <2>1. \A i \in 1 .. j - 1 : i \in 1 .. L
    BY <1>3
  <2>2. {equities'[i].equity : i \in 1 .. j - 1} = {equities[i].equity : i \in 1 .. j - 1}
    BY <1>4, <2>1
  <2> QED
    BY <2>2 DEF Books!HighBefore
<1>7. peak = Books!HighBefore(n) /\ peak \in Nat \ {0}
  BY <1>1, <1>5, <1>0, HighIs DEF CurveKept
<1>8. Books!HighBefore(n + 1)' = peak'
  <2> DEFINE S == {StartingEquity} \cup {equities[i].equity : i \in 1 .. n - 1}
  <2>1. /\ S \subseteq Int /\ IsFiniteSet(S) /\ S # {} /\ Books!HighBefore(n) = Books!Max(S)
    BY <1>1, <1>5, <1>0, HighIs
  <2>2. n - 1 = L /\ (n + 1) - 1 = n
    BY <1>3
  <2>3. {StartingEquity} \cup {equities'[i].equity : i \in 1 .. n} = S \cup {e}
    BY <1>3, <1>4, <1>5, <2>2
  <2>4. Books!HighBefore(n + 1)' = Books!Max(S \cup {e})
    BY <2>2, <2>3 DEF Books!HighBefore
  <2> HIDE DEF S
  <2>5. Books!Max(S \cup {e}) = Books!Max({Books!Max(S), e})
    <3>1. {e} \subseteq Int /\ e \in {e} /\ \A x \in {e} : e >= x
      BY <1>3
    <3> QED
      BY <2>1, <3>1, BooksMaxGrows
  <2>6. Books!Max({peak, e}) = peak'
    <3>1. peak' \in {peak, e} /\ {peak, e} \subseteq Int /\ \A x \in {peak, e} : peak' >= x
      BY <1>2, <1>3, <1>7 DEF up
    <3> QED
      BY <3>1, BooksMax
  <2> QED
    BY <1>7, <2>1, <2>4, <2>5, <2>6
<1>9. worst' = Books!Max(Falls')
  <2> DEFINE d == Books!Drop(peak', e)
  <2>1. Falls' = Falls \cup {d}
    <3>1. \A j \in 1 .. L : j + 1 \in 1 .. n
      BY <1>3
    <3>2. \A j \in 1 .. L : Books!Drop(Books!HighBefore(j + 1), equities[j].equity)'
                          = Books!Drop(Books!HighBefore(j + 1), equities[j].equity)
      BY <1>4, <1>6, <3>1 DEF Books!Drop
    <3>3. Books!Drop(Books!HighBefore(n + 1), equities[n].equity)' = d
      BY <1>3, <1>4, <1>8 DEF Books!Drop
    <3> HIDE DEF d
    <3> QED
      BY <1>3, <1>4, <1>5, <3>2, <3>3 DEF Falls
  <2>2. Falls \subseteq Int /\ IsFiniteSet(Falls) /\ 0 \in Falls /\ worst = Books!Max(Falls)
    BY <1>1, FallsAre DEF CurveKept
  <2>3. CASE up
    <3>1. e \in Nat \ {0}
      BY <1>3, <1>7, <2>3 DEF up
    <3>2. (1000 * (e - e)) \div e = 0
      BY <3>1
    <3>3. d = 0
      BY <1>2, <2>3, <3>2 DEF Books!Drop
    <3> HIDE DEF d
    <3>4. Falls' = Falls
      BY <2>1, <2>2, <3>3
    <3> QED
      BY <1>2, <2>2, <2>3, <3>4
  <2>4. CASE ~up
    <3>1. d = Books!Drop(peak, e)
      BY <1>2, <2>4
    <3>2. d \in Int
      <4>1. 1000 * (peak - e) \in Int
        BY <1>3, <1>7
      <4>2. (1000 * (peak - e)) \div peak \in Int
        BY <1>7, <4>1
      <4> QED
        BY <3>1, <4>2 DEF Books!Drop
    <3> HIDE DEF d
    <3>3. Books!Max(Falls \cup {d}) = Books!Max({Books!Max(Falls), d})
      <4>1. {d} \subseteq Int /\ d \in {d} /\ \A x \in {d} : d >= x
        BY <3>2
      <4> QED
        BY <2>2, <4>1, BooksMaxGrows
    <3> QED
      BY <1>2, <2>1, <2>2, <2>4, <3>1, <3>3
  <2> QED
    BY <2>3, <2>4
<1>10. \A i, j \in 1 .. L : Books!UnderWater(i, j)' <=> Books!UnderWater(i, j)
  <2> SUFFICES ASSUME NEW i \in 1 .. L, NEW j \in 1 .. L
               PROVE  Books!UnderWater(i, j)' <=> Books!UnderWater(i, j)
    OBVIOUS
  <2>1. \A k \in i .. j : k \in 1 .. L /\ k \in 1 .. n
    BY <1>3, <1>5
  <2>2. \A k \in i .. j : (equities[k].equity <= Books!HighBefore(k))'
                       <=> equities[k].equity <= Books!HighBefore(k)
    BY <1>4, <1>6, <2>1
  <2> QED
    BY <2>2 DEF Books!UnderWater
<1>11. \A i \in 1 .. n : Books!UnderWater(i, n)' <=> ~up /\ (i = n \/ Books!UnderWater(i, L))
  <2> SUFFICES ASSUME NEW i \in 1 .. n
               PROVE  Books!UnderWater(i, n)' <=> ~up /\ (i = n \/ Books!UnderWater(i, L))
    OBVIOUS
  <2>1. /\ i <= n /\ i .. n = i .. L \cup {n} /\ n = L + 1
        /\ \A k \in i .. L : k \in 1 .. L /\ k \in 1 .. n
    BY <1>3
  <2>2. \A k \in i .. L : (equities[k].equity <= Books!HighBefore(k))'
                       <=> equities[k].equity <= Books!HighBefore(k)
    BY <1>4, <1>6, <2>1
  <2>3. (equities[n].equity <= Books!HighBefore(n))' <=> ~up
    BY <1>3, <1>4, <1>5, <1>6, <1>7 DEF up
  <2>4. Books!UnderWater(i, n)'
          <=> ~up /\ \A k \in i .. L : equities[k].equity <= Books!HighBefore(k)
    BY <2>1, <2>2, <2>3 DEF Books!UnderWater
  <2>5. CASE i = n
    <3>1. i .. L = {}
      BY <1>3, <2>1, <2>5
    <3> QED
      BY <2>4, <2>5, <3>1
  <2>6. CASE i # n
    <3>1. i <= L
      BY <1>3, <2>1, <2>6
    <3> QED
      BY <2>4, <2>6, <3>1 DEF Books!UnderWater
  <2> QED
    BY <2>5, <2>6
<1> DEFINE New == {booksNow - equities'[i].at : i \in {k \in 1 .. n : Books!UnderWater(k, n)'}}
<1>12. Spells' = Spells \cup New
  <2>1. ASSUME NEW x \in Spells' PROVE x \in Spells \cup New
    <3>1. CASE x = 0
      BY <3>1 DEF Spells
    <3>2. CASE x # 0
      <4>1. PICK i \in 1 .. n, j \in 1 .. n :
              x = equities'[j].at - equities'[i].at /\ Books!UnderWater(i, j)'
        BY <1>4, <3>2 DEF Spells
      <4>2. CASE j = n
        BY <1>3, <1>4, <4>1, <4>2
      <4>3. CASE j # n
        <5>1. i <= j
          BY <4>1 DEF Books!UnderWater
        <5>2. i \in 1 .. L /\ j \in 1 .. L
          BY <1>3, <1>5, <4>3, <5>1
        <5>3. x = equities[j].at - equities[i].at /\ Books!UnderWater(i, j)
          BY <1>4, <1>10, <4>1, <5>2
        <5>4. /\ <<i, j>> \in (DOMAIN equities) \X (DOMAIN equities)
              /\ <<i, j>>[1] = i /\ <<i, j>>[2] = j
          BY <1>3, <5>2
        <5> HIDE DEF New
        <5>5. x \in Spells
          BY <5>3, <5>4 DEF Spells
        <5> QED
          BY <5>5
      <4> QED
        BY <4>2, <4>3
    <3> QED
      BY <3>1, <3>2
  <2>2. ASSUME NEW x \in Spells PROVE x \in Spells'
    <3>1. CASE x = 0
      BY <3>1 DEF Spells
    <3>2. CASE x # 0
      <4>1. PICK i \in 1 .. L, j \in 1 .. L :
              x = equities[j].at - equities[i].at /\ Books!UnderWater(i, j)
        BY <1>3, <3>2 DEF Spells
      <4>2. x = equities'[j].at - equities'[i].at /\ Books!UnderWater(i, j)'
        BY <1>4, <1>10, <4>1
      <4>3. i \in 1 .. n /\ j \in 1 .. n
        BY <1>5
      <4>4. /\ <<i, j>> \in (DOMAIN equities') \X (DOMAIN equities')
            /\ <<i, j>>[1] = i /\ <<i, j>>[2] = j
        BY <1>4, <4>3
      <4> QED
        BY <4>2, <4>4 DEF Spells
    <3> QED
      BY <3>1, <3>2
  <2>3. ASSUME NEW x \in New PROVE x \in Spells'
    <3>1. PICK i \in 1 .. n : x = booksNow - equities'[i].at /\ Books!UnderWater(i, n)'
      OBVIOUS
    <3>2. x = equities'[n].at - equities'[i].at
      BY <1>3, <1>4, <3>1
    <3>3. /\ <<i, n>> \in (DOMAIN equities') \X (DOMAIN equities')
          /\ <<i, n>>[1] = i /\ <<i, n>>[2] = n
      BY <1>4, <1>5
    <3> QED
      BY <3>1, <3>2, <3>3 DEF Spells
  <2> HIDE DEF New
  <2> QED
    BY <2>1, <2>2, <2>3
<1>13. /\ Spells \subseteq Int /\ IsFiniteSet(Spells) /\ 0 \in Spells
       /\ longest = Books!Max(Spells)
  BY <1>1, SpellsAre DEF CurveKept
<1>14. PICK f \in 1 .. n :
         ~up => /\ Books!UnderWater(f, n)' /\ equities'[f].at = since
                /\ \A k \in 1 .. n : Books!UnderWater(k, n)' => f <= k
  <2>1. CASE drawdownStart = Books!NoStart
    <3>1. \A i \in 1 .. L : ~Books!UnderWater(i, L)
      BY <1>1, <1>3, <1>0, <2>1 DEF CurveKept
    <3>2. \A k \in 1 .. n : Books!UnderWater(k, n)' => k = n
      BY <1>5, <1>11, <3>1
    <3>3. ~up => Books!UnderWater(n, n)' /\ equities'[n].at = since
      BY <1>3, <1>4, <1>5, <1>11, <2>1 DEF since
    <3> QED
      BY <1>5, <3>2, <3>3
  <2>2. CASE drawdownStart # Books!NoStart
    <3>1. PICK f \in 1 .. L : Started(f)
      BY <1>1, <1>3, <2>2 DEF CurveKept
    <3>2. /\ Books!UnderWater(f, L) /\ equities[f].at = drawdownStart
          /\ \A k \in 1 .. L : Books!UnderWater(k, L) => f <= k
      BY <1>3, <1>0, <3>1 DEF Started
    <3>3. f \in 1 .. n /\ equities'[f].at = since /\ f <= n
      BY <1>3, <1>4, <1>5, <2>2, <3>2 DEF since
    <3>4. ~up => Books!UnderWater(f, n)'
      BY <1>11, <3>2, <3>3
    <3>5. \A k \in 1 .. n : Books!UnderWater(k, n)' => f <= k
      BY <1>5, <1>11, <3>2, <3>3
    <3> QED
      BY <3>3, <3>4, <3>5
  <2> QED
    BY <2>1, <2>2
<1>15. /\ \A i \in 1 .. n : equities'[i].at \in Nat /\ equities'[i].at <= booksNow
       /\ \A i, j \in 1 .. n : i <= j => equities'[i].at <= equities'[j].at
  <2>1. /\ \A i, j \in 1 .. L : i <= j => equities[i].at <= equities[j].at
        /\ \A i \in 1 .. L : equities[i].at <= booksNow
    BY <1>1, <1>3 DEF CurveKept
  <2>2. \A i \in 1 .. n : equities'[i].at \in Nat /\ equities'[i].at <= booksNow
    BY <1>3, <1>4, <1>5, <2>1
  <2>3. ASSUME NEW i \in 1 .. n, NEW j \in 1 .. n, i <= j
        PROVE  equities'[i].at <= equities'[j].at
    <3>1. CASE j = n
      BY <1>3, <1>4, <2>2, <3>1
    <3>2. CASE j # n
      <4>1. i \in 1 .. L /\ j \in 1 .. L
        BY <1>3, <1>5, <2>3, <3>2
      <4> QED
        BY <1>4, <2>1, <2>3, <4>1
    <3> QED
      BY <3>1, <3>2
  <2> QED
    BY <2>2, <2>3
<1>16. longest' = Books!Max(Spells')
  <2>1. CASE up
    <3>1. New = {}
      BY <1>11, <2>1
    <3> HIDE DEF New
    <3>2. Spells' = Spells
      BY <1>12, <3>1
    <3> QED
      BY <1>2, <1>13, <2>1, <3>2
  <2>2. CASE ~up
    <3> DEFINE d == booksNow - since
    <3>1. New \subseteq Int
      BY <1>3, <1>15
    <3>2. d \in New /\ d \in Int
      BY <1>3, <1>14, <1>15, <2>2
    <3>3. ASSUME NEW x \in New PROVE d >= x
      <4>1. PICK i \in 1 .. n : x = booksNow - equities'[i].at /\ Books!UnderWater(i, n)'
        OBVIOUS
      <4>2. equities'[f].at <= equities'[i].at /\ equities'[f].at = since
        BY <1>14, <1>15, <2>2, <4>1
      <4>3. equities'[f].at \in Nat /\ equities'[i].at \in Nat
        BY <1>15
      <4> QED
        BY <1>3, <4>1, <4>2, <4>3
    <3> HIDE DEF New, d
    <3>4. Books!Max(Spells \cup New) = Books!Max({Books!Max(Spells), d})
      BY <1>13, <3>1, <3>2, <3>3, BooksMaxGrows
    <3> QED
      BY <1>2, <1>12, <1>13, <2>2, <3>4 DEF d
  <2> QED
    BY <2>1, <2>2
<1>17. IF drawdownStart' = Books!NoStart
       THEN \A i \in 1 .. n : ~Books!UnderWater(i, n)'
       ELSE \E i \in 1 .. n : Started(i)'
  <2>1. CASE up
    BY <1>2, <1>11, <2>1
  <2>2. CASE ~up
    <3>1. Books!UnderWater(f, n)' /\ equities'[f].at = drawdownStart'
          /\ \A k \in 1 .. n : Books!UnderWater(k, n)' => f <= k
      BY <1>2, <1>14, <2>2
    <3>2. drawdownStart' # Books!NoStart
      BY <1>15, <3>1 DEF Books!NoStart
    <3>3. Started(f)'
      BY <1>4, <3>1 DEF Started
    <3> QED
      BY <3>2, <3>3
  <2> QED
    BY <2>1, <2>2
<1>18. CurveKept'
  BY <1>2, <1>4, <1>8, <1>9, <1>15, <1>16, <1>17 DEF CurveKept
<1>19. Results' = Results /\ \A s : Own(s)' = Own(s)
  BY <1>2 DEF Results, Own
<1>20. AccountsKept'
  BY <1>1, <1>2, <1>19 DEF AccountsKept
<1>21. BooksTyped'
  BY <1>1, <1>2 DEF BooksTyped
<1> QED
  BY <1>18, <1>20, <1>21 DEF BooksInv

LEMMA BooksStep == BooksInv /\ [Books!Next]_booksVars => BooksInv'
<1> SUFFICES ASSUME BooksInv, [Books!Next]_booksVars PROVE BooksInv'
  OBVIOUS
<1>1. BooksTyped /\ AccountsKept /\ CurveKept
  BY DEF BooksInv
<1>2. CASE Books!Tick \/ UNCHANGED booksVars
  <2>1. /\ UNCHANGED <<booksTrades, snaps, benched, peak, worst, drawdownStart, longest,
                       equities>>
        /\ booksNow' \in Nat /\ booksNow' >= booksNow /\ booksNow \in Nat
    BY <1>1, <1>2 DEF Books!Tick, booksVars, BooksTyped
  <2>2. Results' = Results /\ \A s : Own(s)' = Own(s)
    BY <2>1 DEF Results, Own
  <2>3. BooksTyped'
    BY <1>1, <2>1 DEF BooksTyped
  <2>4. AccountsKept'
    BY <1>1, <2>1, <2>2 DEF AccountsKept
  <2>5. CurveKept'
    BY <1>1, <2>1, CurveStays
  <2> QED
    BY <2>3, <2>4, <2>5 DEF BooksInv
<1>3. ASSUME NEW s \in BookStrategies, NEW b \in Books!Buckets, NEW p \in Books!Results,
             Books!CloseTrade(s, b, p)
      PROVE  BooksInv'
  BY <1>3, TradeClosed
<1>4. ASSUME NEW s \in BookStrategies, Books!DisableStrategy(s) \/ Books!EnableStrategy(s)
      PROVE  BooksInv'
  BY <1>4, StrategySwitched
<1>5. ASSUME NEW e \in BookEquities, Books!UpdateEquity(e) PROVE BooksInv'
  BY <1>5, EquityReported
<1> QED
  BY <1>2, <1>3, <1>4, <1>5 DEF Books!Next

(* A set of trades: what is reported of it, and of its parts.              *)
LEMMA PnlIs ==
  ASSUME BooksTyped, NEW S \in SUBSET DOMAIN booksTrades
  PROVE  /\ IsFiniteSet(S) /\ Books!Pnl(S) = SumOf(Results, S) /\ Books!Pnl(S) \in Int
         /\ \A i \in S : /\ Results[i] \in Int /\ Results[i] = booksTrades[i].pnl
                        /\ booksTrades[i].strategy \in BookStrategies
                        /\ booksTrades[i].bucket \in {"session", "off hours"}
<1>1. \A i \in DOMAIN booksTrades : booksTrades[i] \in BookTrade
  <2>1. booksTrades \in Seq(BookTrade)
    BY DEF BooksTyped
  <2> QED
    BY <2>1
<1>2. \A i \in S : /\ Results[i] \in Int /\ Results[i] = booksTrades[i].pnl
                 /\ booksTrades[i].strategy \in BookStrategies
                 /\ booksTrades[i].bucket \in {"session", "off hours"}
  BY <1>1 DEF Results, BookTrade
<1>3. IsFiniteSet(S)
  <2>1. DOMAIN booksTrades = 1 .. Len(booksTrades) /\ Len(booksTrades) \in Nat
    BY DEF BooksTyped
  <2>2. IsFiniteSet(1 .. Len(booksTrades))
    BY <2>1, FS_Interval
  <2> QED
    BY <2>1, <2>2, FS_Subset
<1> DEFINE f == [i \in S |-> booksTrades[i].pnl]
<1>4. Books!Pnl(S) = SumOf(f, S)
  BY BooksSum DEF Books!Pnl
<1>5. \A i \in S : f[i] \in Int /\ f[i] = Results[i]
  BY <1>2
<1> HIDE DEF f
<1>6. SumOf(f, S) = SumOf(Results, S) /\ SumOf(f, S) \in Int
  BY <1>3, <1>5, SameSum
<1> QED
  BY <1>2, <1>3, <1>4, <1>6

(* What two groups report adds up to what the whole does.                  *)
LEMMA PnlSplits ==
  ASSUME BooksTyped, NEW S \in SUBSET DOMAIN booksTrades,
         NEW A \in SUBSET S, NEW B \in SUBSET S, A \cap B = {}, A \cup B = S
  PROVE  Books!Pnl(S) = Books!Pnl(A) + Books!Pnl(B)
<1>1. IsFiniteSet(S) /\ \A i \in S : Results[i] \in Int
  BY PnlIs
<1>2. SumOf(Results, A \cup B) = SumOf(Results, A) + SumOf(Results, B)
  BY <1>1, SumSplits
<1>3. A \in SUBSET DOMAIN booksTrades /\ B \in SUBSET DOMAIN booksTrades
  OBVIOUS
<1> QED
  BY <1>2, <1>3, PnlIs

LEMMA AccountsAgree ==
  ASSUME BooksInv, NEW s \in BookStrategies
  PROVE  Books!AccountIsAttribution(s)
<1>1. BooksTyped /\ AccountsKept
  BY DEF BooksInv
<1> DEFINE D == DOMAIN booksTrades
           own == Own(s)
           all == {i \in D : booksTrades[i].strategy = s}
           off == {i \in benched : booksTrades[i].strategy = s}
           zeros == {i \in D \ benched : booksTrades[i].strategy = s /\ booksTrades[i].pnl = 0}
<1>2. /\ all \in SUBSET D /\ own \in SUBSET all /\ off \in SUBSET all
      /\ own \cap off = {} /\ own \cup off = all
  BY <1>1 DEF Own, BooksTyped
<1>3. /\ IsFiniteSet(all)
      /\ \A i \in all : Results[i] \in Int /\ Results[i] = booksTrades[i].pnl
  BY <1>1, PnlIs
<1>4. zeros = {i \in own : booksTrades[i].pnl = 0}
  BY DEF Own
<1> HIDE DEF all, off, own, zeros, D
<1>5. Books!Pnl(all) = Books!Pnl(own) + Books!Pnl(off)
  BY <1>1, <1>2, PnlSplits DEF D
<1>6. PICK x \in Int, y \in Int : x = Books!Pnl(own) /\ y = Books!Pnl(off)
                              /\ x = SumOf(Results, own)
  <2>1. own \in SUBSET DOMAIN booksTrades /\ off \in SUBSET DOMAIN booksTrades
    BY <1>2 DEF D
  <2> QED
    BY <1>1, <2>1, PnlIs
<1>7. snaps[s].equity = Books!Pnl(all) - Books!Pnl(off)
  <2>1. snaps[s].equity = x
    BY <1>1, <1>6 DEF AccountsKept, own
  <2>2. Books!Pnl(all) = x + y
    BY <1>5, <1>6
  <2> QED
    BY <1>6, <2>1, <2>2
<1>8. snaps[s].wins = Cardinality(Books!Winners(all)) - Cardinality(Books!Winners(off))
  <2> DEFINE W == {i \in all : Results[i] > 0}
             A == {i \in own : Results[i] > 0}
             B == {i \in off : Results[i] > 0}
  <2>1. Books!Winners(all) = W /\ Books!Winners(off) = B
    BY <1>2, <1>3 DEF Books!Winners
  <2>2. snaps[s].wins = Cardinality(A)
    BY <1>1 DEF AccountsKept, own
  <2>3. A \in SUBSET W /\ B \in SUBSET W /\ A \cap B = {} /\ A \cup B = W
    BY <1>2
  <2>4. IsFiniteSet(W)
    BY <1>3, FS_Subset
  <2> HIDE DEF W, A, B
  <2>5. PICK a \in Nat, b \in Nat :
          a = Cardinality(A) /\ b = Cardinality(B) /\ Cardinality(W) = a + b
    BY <2>3, <2>4, CountSplits
  <2> QED
    BY <2>1, <2>2, <2>5
<1>9. snaps[s].losses + Cardinality(zeros)
        = Cardinality(Books!Losers(all)) - Cardinality(Books!Losers(off))
  <2> DEFINE W == {i \in all : Results[i] <= 0}
             A == {i \in own : Results[i] <= 0}
             B == {i \in off : Results[i] <= 0}
             F == {i \in own : Results[i] < 0}
  <2>1. Books!Losers(all) = W /\ Books!Losers(off) = B
    BY <1>2, <1>3 DEF Books!Losers
  <2>2. snaps[s].losses = Cardinality(F)
    BY <1>1 DEF AccountsKept, own
  <2>3. A \in SUBSET W /\ B \in SUBSET W /\ A \cap B = {} /\ A \cup B = W
    BY <1>2
  <2>4. F \in SUBSET A /\ zeros \in SUBSET A /\ F \cap zeros = {} /\ F \cup zeros = A
    BY <1>2, <1>3, <1>4
  <2>5. IsFiniteSet(W)
    BY <1>3, FS_Subset
  <2>6. IsFiniteSet(A)
    BY <2>3, <2>5, FS_Subset
  <2> HIDE DEF W, A, B, F
  <2>7. PICK a \in Nat, b \in Nat :
          a = Cardinality(A) /\ b = Cardinality(B) /\ Cardinality(W) = a + b
    BY <2>3, <2>5, CountSplits
  <2>8. PICK c \in Nat, d \in Nat :
          c = Cardinality(F) /\ d = Cardinality(zeros) /\ Cardinality(A) = c + d
    BY <2>4, <2>6, CountSplits
  <2> QED
    BY <2>1, <2>2, <2>7, <2>8
<1>10. Books!ByStrategy(D)[s] = Books!Attribution(all)
  BY DEF Books!ByStrategy, all
<1> QED
  BY <1>7, <1>8, <1>9, <1>10, BooksCount
     DEF Books!AccountIsAttribution, Books!Attribution, D, off, zeros

LEMMA PeriodsAddUp ==
  ASSUME BooksInv, NEW from \in Int, NEW to \in Int
  PROVE  Books!PeriodAddsUp(from, to)
<1>1. BooksTyped
  BY DEF BooksInv
<1> DEFINE S == Books!InPeriod(from, to)
           K == BookStrategies
           of(s) == {i \in S : booksTrades[i].strategy = s}
           wins == Books!Winners(S)
           losses == Books!Losers(S)
           kind == [i \in S |-> booksTrades[i].strategy]
           one == [i \in S |-> 1]
           day == {i \in S : booksTrades[i].bucket = "session"}
           night == {i \in S : booksTrades[i].bucket = "off hours"}
           groups == Books!ByStrategy(S)
           hours == Books!ByTimeOfDay(S)
<1>2. S \in SUBSET DOMAIN booksTrades
  BY DEF Books!InPeriod
<1>3. /\ IsFiniteSet(S) /\ IsFiniteSet(K)
      /\ \A i \in S : /\ Results[i] \in Int /\ Results[i] = booksTrades[i].pnl
                     /\ booksTrades[i].strategy \in K
                     /\ booksTrades[i].bucket \in {"session", "off hours"}
  <2> HIDE DEF S
  <2> QED
    BY <1>1, <1>2, PnlIs, BooksAssumption
<1> HIDE DEF S, K
(* The winners' result less the absolute value of the losers' is theirs    *)
(* together.                                                               *)
<1>4. Books!Pnl(S) \in Int
      /\ Books!Pnl(wins) - Books!AbsOf(Books!Pnl(losses)) = Books!Pnl(S)
  <2>1. /\ wins \in SUBSET S /\ losses \in SUBSET S
        /\ wins \cap losses = {} /\ wins \cup losses = S
    <3>1. \A i \in S : (booksTrades[i].pnl > 0) <=> ~(booksTrades[i].pnl <= 0)
      <4>1. \A i \in S : booksTrades[i].pnl \in Int
        BY <1>3
      <4> QED
        BY <4>1
    <3> QED
      BY <3>1 DEF Books!Winners, Books!Losers
  <2>2. \A i \in losses : Results[i] \in Int /\ Results[i] <= 0
    BY <1>3 DEF Books!Losers
  <2> HIDE DEF wins, losses
  <2>3. Books!Pnl(S) = Books!Pnl(wins) + Books!Pnl(losses)
    BY <1>1, <1>2, <2>1, PnlSplits
  <2>4. wins \in SUBSET DOMAIN booksTrades /\ losses \in SUBSET DOMAIN booksTrades
    BY <1>2, <2>1
  <2>5. PICK x \in Int, y \in Int : x = Books!Pnl(wins) /\ y = Books!Pnl(losses) /\ y <= 0
    <3>1. IsFiniteSet(losses) /\ Books!Pnl(losses) = SumOf(Results, losses)
      BY <1>1, <2>4, PnlIs
    <3>2. SumOf(Results, losses) <= 0
      BY <2>2, <3>1, SumOfLosses
    <3>3. Books!Pnl(wins) \in Int /\ Books!Pnl(losses) \in Int
      BY <1>1, <2>4, PnlIs
    <3> QED
      BY <3>1, <3>2, <3>3
  <2>6. Books!AbsOf(y) = -y
    BY <2>5 DEF Books!AbsOf
  <2>7. Books!Pnl(wins) - Books!AbsOf(Books!Pnl(losses)) = x - (-y)
    BY <2>5, <2>6
  <2> QED
    BY <2>3, <2>5, <2>7
(* Every trade is of one strategy.                                         *)
<1>5. Books!Pnl(S) = SumOf([s \in K |-> groups[s].pnl], K)
  <2> DEFINE g == [k \in K |-> SumOf(Results, OfKind(S, kind, k))]
             h == [s \in K |-> groups[s].pnl]
  <2>1. SumOf(Results, S) = SumOf(g, K)
    <3>1. \A i \in S : kind[i] \in K
      BY <1>3
    <3>2. \A i \in S : Results[i] \in Int
      BY <1>3
    <3>3. \A k \in K : g[k] = SumOf(Results, OfKind(S, kind, k))
      OBVIOUS
    <3>4. IsFiniteSet(S) /\ IsFiniteSet(K)
      BY <1>3
    <3> HIDE DEF kind, g
    <3> QED
      BY <3>1, <3>2, <3>3, <3>4, SumByKind
  <2>2. ASSUME NEW s \in K PROVE h[s] \in Int /\ h[s] = g[s]
    <3>1. of(s) \in SUBSET DOMAIN booksTrades
      BY <1>2
    <3>2. OfKind(S, kind, s) = of(s)
      BY DEF OfKind
    <3>3. h[s] = Books!Pnl(of(s))
      BY Zenon DEF Books!ByStrategy, Books!Attribution, K
    <3>4. g[s] = SumOf(Results, of(s))
      <4>1. g[s] = SumOf(Results, OfKind(S, kind, s))
        OBVIOUS
      <4> QED
        BY <3>2, <4>1
    <3> HIDE DEF of, g, h
    <3> QED
      BY <1>1, <3>1, <3>3, <3>4, PnlIs
  <2> HIDE DEF g, h
  <2>3. SumOf(h, K) = SumOf(g, K)
    BY <1>3, <2>2, SameSum
  <2>4. Books!Pnl(S) = SumOf(Results, S)
    BY <1>1, <1>2, PnlIs
  <2> QED
    BY <2>1, <2>3, <2>4 DEF h
<1>6. Cardinality(wins) = SumOf([s \in K |-> groups[s].wins], K)
  <2> DEFINE g == [k \in K |-> SumOf(one, OfKind(wins, kind, k))]
             h == [s \in K |-> groups[s].wins]
  <2>1. wins \in SUBSET S /\ \A i \in wins : one[i] = 1 /\ kind[i] \in K
    BY <1>3 DEF Books!Winners
  <2>2. IsFiniteSet(wins)
    BY <1>3, <2>1, FS_Subset
  <2>3. SumOf(one, wins) = SumOf(g, K)
    <3>1. \A i \in wins : one[i] \in Int
      BY <2>1
    <3>2. \A i \in wins : kind[i] \in K
      BY <2>1
    <3>3. \A k \in K : g[k] = SumOf(one, OfKind(wins, kind, k))
      OBVIOUS
    <3>4. IsFiniteSet(K)
      BY <1>3
    <3> HIDE DEF kind, one, wins, g
    <3> QED
      BY <2>2, <3>1, <3>2, <3>3, <3>4, SumByKind
  <2>4. ASSUME NEW s \in K PROVE h[s] \in Int /\ h[s] = g[s]
    <3> DEFINE some == OfKind(wins, kind, s)
    <3>1. some = Books!Winners(of(s))
      BY DEF Books!Winners, OfKind
    <3>2. h[s] = Cardinality(Books!Winners(of(s)))
      BY BooksCount, Zenon DEF Books!ByStrategy, Books!Attribution, K
    <3>3. g[s] = SumOf(one, some)
      OBVIOUS
    <3>4. some \in SUBSET wins
      BY DEF OfKind
    <3> HIDE DEF some, of, g, h, wins
    <3>5. IsFiniteSet(some)
      BY <2>2, <3>4, FS_Subset
    <3>6. \A i \in some : one[i] = 1
      BY <2>1, <3>4
    <3> HIDE DEF one
    <3>7. SumOf(one, some) = Cardinality(some)
      BY <3>5, <3>6, CountIsSum
    <3>8. Cardinality(some) \in Nat
      BY <3>5, FS_CardinalityType
    <3> QED
      BY <3>1, <3>2, <3>3, <3>7, <3>8
  <2>5. SumOf(h, K) = SumOf(g, K)
    <3> HIDE DEF g, h
    <3> QED
      BY <1>3, <2>4, SameSum
  <2>6. SumOf(one, wins) = Cardinality(wins)
    <3> HIDE DEF one, wins
    <3> QED
      BY <2>1, <2>2, CountIsSum
  <2> HIDE DEF g
  <2> QED
    BY <2>3, <2>5, <2>6
(* And of one part of the day.                                             *)
<1>7. Books!Pnl(S) - SumOf([b \in DOMAIN hours |-> hours[b].pnl], DOMAIN hours)
        = Books!Pnl(night)
  <2>1. DOMAIN hours = {"session"} /\ hours["session"].pnl = Books!Pnl(day)
    BY DEF Books!ByTimeOfDay, Books!Attribution, Books!Buckets
  <2>2. /\ day \in SUBSET S /\ night \in SUBSET S
        /\ day \cap night = {} /\ day \cup night = S
    BY <1>3
  <2> HIDE DEF hours, day, night
  <2>3. Books!Pnl(S) = Books!Pnl(day) + Books!Pnl(night)
    BY <1>1, <1>2, <2>2, PnlSplits
  <2>4. PICK x \in Int, y \in Int : x = Books!Pnl(day) /\ y = Books!Pnl(night)
    <3>1. day \in SUBSET DOMAIN booksTrades /\ night \in SUBSET DOMAIN booksTrades
      BY <1>2, <2>2
    <3> QED
      BY <1>1, <3>1, PnlIs
  <2> DEFINE h == [b \in DOMAIN hours |-> hours[b].pnl]
  <2>5. h["session"] = x
    BY <2>1, <2>4
  <2>6. SumOf(h, {"session"}) = x
    <3>1. \A i \in {"session"} : h[i] \in Int
      BY <2>4, <2>5
    <3> HIDE DEF h
    <3>2. IsFiniteSet({"session"})
      BY FS_Singleton
    <3>3. \A t \in SUBSET {"session"}, i \in {"session"} :
            i \notin t => SumOf(h, t \cup {i}) = SumOf(h, t) + h[i]
      BY <3>1, <3>2, OneMore
    <3>4. {} \cup {"session"} = {"session"}
      OBVIOUS
    <3>5. SumOf(h, {} \cup {"session"}) = SumOf(h, {}) + h["session"]
      BY <3>3
    <3> QED
      BY <2>4, <2>5, <3>4, <3>5, SumOfNone
  <2>7. SumOf(h, DOMAIN hours) = x
    BY <2>1, <2>6
  <2> HIDE DEF h
  <2>8. Books!Pnl(S) - SumOf(h, DOMAIN hours) = x + y - x
    BY <2>3, <2>4, <2>7
  <2>9. Books!Pnl(S) - SumOf(h, DOMAIN hours) = Books!Pnl(night)
    BY <2>4, <2>8
  <2> QED
    BY <2>9 DEF h
<1>8. /\ Books!Metrics(from, to).net = Books!Pnl(S)
      /\ Books!Metrics(from, to).wins = Cardinality(wins)
  <2>1. /\ Books!Metrics(from, to).net = Books!Pnl(wins) - Books!AbsOf(Books!Pnl(losses))
        /\ Books!Metrics(from, to).wins = Cardinality(wins)
    BY BooksCount DEF Books!Metrics, S
  <2> QED
    BY <1>4, <2>1
<1> QED
  BY <1>5, <1>6, <1>7, <1>8, BooksSum, Zenon DEF Books!PeriodAddsUp, S, K

LEMMA BooksAreRight == BooksInv => Books!BooksAreExact
<1> SUFFICES ASSUME BooksInv PROVE Books!BooksAreExact
  OBVIOUS
<1>1. \A to \in 0 .. BooksEnd : \A from \in 0 .. to : Books!PeriodAddsUp(from, to)
  <2> SUFFICES ASSUME NEW to \in 0 .. BooksEnd, NEW from \in 0 .. to
               PROVE  Books!PeriodAddsUp(from, to)
    OBVIOUS
  <2>1. to \in Int /\ from \in Int
    OBVIOUS
  <2> QED
    BY <2>1, PeriodsAddUp
<1>2. \A s \in BookStrategies : Books!AccountIsAttribution(s)
  BY AccountsAgree
<1>3. Books!DrawdownIsExact
  <2>1. worst = Books!Max(Falls) /\ longest = Books!Max(Spells)
    BY DEF BooksInv, CurveKept
  <2> QED
    BY <2>1 DEF Books!DrawdownIsExact, Falls, Spells
<1> QED
  BY <1>1, <1>2, <1>3 DEF Books!BooksAreExact, Books!BooksAgree

(* For any strategies, results and equities, and any rules by which a      *)
(* strategy is retired: the tracker's report of a period is the sum of the *)
(* analyzer's groups, a strategy's account differs from its attribution by *)
(* the trades that closed while it was off, and the drawdown and its       *)
(* duration are those of the whole curve, of which only the last points    *)
(* are kept.                                                               *)
THEOREM BooksKept == MCSpec => []BooksAreExact
<1>1. MCInit => BooksInv
  BY Begins, BooksInit
<1>2. BooksInv /\ [MCNext]_allVars => BooksInv'
  BY Moves, BooksStep
<1>3. BooksInv => BooksAreExact
  BY BooksAreRight DEF BooksAreExact
<1> QED
  BY <1>1, <1>2, <1>3, PTL DEF MCSpec

=============================================================================
