------------------------- MODULE CanaryLogPollProofs -------------------------
(* What holds of CanaryLogPoll for any number of lines, polls, refreshes and *)
(* failures.                                                                *)
EXTENDS CanaryLogPoll, TLAPS, WellFoundedInduction

-----------------------------------------------------------------------------
(* Type correctness *)

\* A non-empty set of numbers up to a bound has a greatest one.
LEMMA GreatestExists ==
    ASSUME NEW S, S \subseteq Nat, S # {}, NEW b \in Nat, \A i \in S : i <= b
    PROVE  \E n \in S : \A i \in S : i <= n
<1> DEFINE R == OpToRel(<, Nat)
<1> DEFINE T == {b - i : i \in S}
<1>1. T \subseteq Nat /\ T # {}
  <2>1. \A i \in S : b - i \in Nat
    OBVIOUS
  <2> QED
    BY <2>1
<1>2. IsWellFoundedOn(R, Nat)
  BY NatLessThanWellFounded
<1> HIDE DEF R
<1>3. PICK x \in T : \A y \in T : ~(<<y, x>> \in R)
  BY <1>1, <1>2, WFMin
<1>4. PICK n \in S : x = b - n
  OBVIOUS
<1>5. ASSUME NEW i \in S PROVE i <= n
  <2>1. b - i \in Nat /\ b - n \in Nat /\ b - i \in T
    BY <1>1
  <2>2. ~(b - i < b - n)
    BY <1>3, <1>4, <2>1 DEF R, OpToRel
  <2> QED
    BY <2>2
<1> QED
  BY <1>5

\* The new offset is where the read began or where a line ends behind it.
LEMMA NewOffsetType ==
    ASSUME NEW f \in Seq(Byte), NEW start \in Nat
    PROVE  NewOffset(f, start) \in Ends(f, start) \cup {start} /\ NewOffset(f, start) \in Nat
<1> DEFINE S == Ends(f, start) \cup {start}
<1>1. S \subseteq Nat /\ S # {}
  BY DEF Ends
<1>2. \E n \in S : \A i \in S : i <= n
  <2>1. Len(f) \in Nat
    OBVIOUS
  <2>2. CASE Len(f) >= start
    <3>1. \A i \in S : i <= Len(f)
      BY <2>1, <2>2 DEF Ends
    <3> QED
      BY <1>1, <2>1, <3>1, GreatestExists
  <2>3. CASE Len(f) < start
    <3>1. \A i \in S : i <= start
      BY <2>1, <2>3 DEF Ends
    <3> QED
      BY <1>1, <3>1, GreatestExists
  <2> QED
    BY <2>1, <2>2, <2>3
<1>3. \E n \in S : \A i \in Ends(f, start) : i <= n
  BY <1>2
<1>4. NewOffset(f, start) \in S
  BY <1>3 DEF NewOffset
<1> QED
  BY <1>1, <1>4

\* A file with something in it was written to.
WrittenInv == \A p \in Paths : file[p] # <<>> => written > 0

LEMMA NothingYet ==
    /\ [path |-> FirstPath, offset |-> 0] \in Row
    /\ NoPoll \in PollTask
    /\ NoRefresh \in RefreshTask
  BY ConstantsAssumption DEF ConstantsAssumption, Row, NoPoll, PollTask, NoRefresh, RefreshTask,
     Unknown

\* Counting one more fault within its bound.
LEMMA FaultsType ==
    ASSUME faults \in Faults
    PROVE  /\ faults.failures < MaxFailures => [faults EXCEPT !.failures = @ + 1] \in Faults
           /\ faults.moves < MaxMoves => [faults EXCEPT !.moves = @ + 1] \in Faults
           /\ \A p \in Paths : faults.rotations < MaxRotations =>
                 [faults EXCEPT !.rotations = @ + 1, !.unseen = @ \cup {p}] \in Faults
<1> USE ConstantsAssumption DEF ConstantsAssumption
<1>1. ASSUME faults.failures < MaxFailures
      PROVE  [faults EXCEPT !.failures = @ + 1] \in Faults
  <2>1. faults.failures + 1 \in 0..MaxFailures
    BY <1>1 DEF Faults
  <2> QED
    BY <2>1 DEF Faults
<1>2. ASSUME faults.moves < MaxMoves PROVE [faults EXCEPT !.moves = @ + 1] \in Faults
  <2>1. faults.moves + 1 \in 0..MaxMoves
    BY <1>2 DEF Faults
  <2> QED
    BY <2>1 DEF Faults
<1>3. ASSUME NEW p \in Paths, faults.rotations < MaxRotations
      PROVE  [faults EXCEPT !.rotations = @ + 1, !.unseen = @ \cup {p}] \in Faults
  <2>1. faults.rotations + 1 \in 0..MaxRotations /\ faults.unseen \cup {p} \in SUBSET Paths
    BY <1>3 DEF Faults
  <2> QED
    BY <2>1 DEF Faults
<1> QED
  BY <1>1, <1>2, <1>3

\* The bytes a read takes in are a file's.
LEMMA EventsType ==
    ASSUME NEW f \in Seq(Byte), NEW start \in Nat
    PROVE  Events(f, start) \in SUBSET Lines
<1>1. \A i \in Ends(f, start) : i \in 1..Len(f)
  BY DEF Ends
<1>2. \A i \in 1..Len(f) : f[i].line \in Lines
  <2>1. \A i \in 1..Len(f) : f[i] \in Byte
    OBVIOUS
  <2> QED
    BY <2>1 DEF Byte
<1>3. ASSUME NEW l \in Events(f, start) PROVE l \in Lines
  <2>1. PICK i \in Ends(f, start) : l = f[i].line
    BY DEF Events
  <2> QED
    BY <1>1, <1>2, <2>1
<1> QED
  BY <1>3

LEMMA TypeStep == TypeOK /\ WrittenInv /\ [Next]_vars => TypeOK' /\ WrittenInv'
<1> SUFFICES ASSUME TypeOK, WrittenInv, [Next]_vars PROVE TypeOK' /\ WrittenInv'
  OBVIOUS
<1> USE ConstantsAssumption DEF ConstantsAssumption
<1>0. \A p \in Paths : file[p] \in Seq(Byte)
  BY DEF TypeOK
<1>1. CASE EndLine
  <2>1. written \in Lines
    BY <1>1, <1>0 DEF EndLine, HalfWritten, WrittenInv, TypeOK, Lines
  <2>2. [line |-> written, last |-> TRUE] \in Byte
    BY <2>1 DEF Byte
  <2>3. file' \in [Paths -> Seq(Byte)]
    BY <1>1, <1>0, <2>2 DEF EndLine, TypeOK
  <2>4. WrittenInv'
    BY <1>1, <2>1 DEF EndLine, WrittenInv, Lines
  <2> QED
    BY <1>1, <2>3, <2>4 DEF EndLine, TypeOK
<1>2. CASE BeginLine
  <2>1. written' = written + 1 /\ written' \in Lines /\ written' \in 0..MaxLines
    BY <1>2 DEF BeginLine, TypeOK, Lines
  <2>2. [line |-> written + 1, last |-> FALSE] \in Byte
    BY <2>1 DEF Byte
  <2>3. file' \in [Paths -> Seq(Byte)]
    BY <1>2, <1>0, <2>2 DEF BeginLine, TypeOK
  <2>4. WrittenInv'
    BY <2>1 DEF WrittenInv, Lines
  <2> QED
    BY <1>2, <2>1, <2>3, <2>4 DEF BeginLine, TypeOK
<1>3. CASE Rotate
  <2>1. file' \in [Paths -> Seq(Byte)] /\ WrittenInv'
    BY <1>3 DEF Rotate, TypeOK, WrittenInv
  <2>2. faults' \in Faults
    BY <1>3, FaultsType DEF Rotate, TypeOK
  <2> QED
    BY <1>3, <2>1, <2>2 DEF Rotate, TypeOK
<1>4. ASSUME NEW p \in Paths, Move(p) PROVE TypeOK' /\ WrittenInv'
  <2>1. faults' \in Faults
    BY <1>4, FaultsType DEF Move, TypeOK
  <2> QED
    BY <1>4, <2>1 DEF Move, TypeOK, WrittenInv
<1>5. ASSUME NEW p \in Pollers, BeginPoll(p) PROVE TypeOK' /\ WrittenInv'
  <2>1. [NoPoll EXCEPT !.pc = "connecting", !.copy = row] \in PollTask
    BY NothingYet DEF PollTask, TypeOK
  <2>2. faults' \in Faults
    BY <1>5 DEF BeginPoll, TypeOK, Faults
  <2> QED
    BY <1>5, <2>1, <2>2 DEF BeginPoll, TypeOK, WrittenInv, honeypot
<1>6. ASSUME NEW p \in Pollers, Stat(p) PROVE TypeOK' /\ WrittenInv'
  <2>1. poller[p].copy \in Row /\ faults.unseen \in SUBSET Paths
    BY DEF TypeOK, PollTask, Faults
  <2>2. StartOf(Len(file[poller[p].copy.path]), poller[p].copy.offset) \in Nat
    BY <2>1 DEF StartOf, Row
  <2>3. {poller[p].copy.path} \cap faults.unseen \in SUBSET Paths
    BY <2>1
  <2> DEFINE start == StartOf(Len(file[poller[p].copy.path]), poller[p].copy.offset)
  <2> DEFINE saw == {poller[p].copy.path} \cap faults.unseen
  <2> DEFINE task == [poller[p] EXCEPT !.pc = "reading", !.start = start, !.saw = saw]
  <2>4. poller' = [poller EXCEPT ![p] = task]
    BY <1>6 DEF Stat, TypeOK
  <2>5. start \in Nat /\ saw \in SUBSET Paths
    BY <2>2, <2>3
  <2> HIDE DEF start, saw
  <2>6. task \in PollTask
    BY <2>5 DEF TypeOK, PollTask
  <2> HIDE DEF task
  <2>7. poller' \in [Pollers -> PollTask]
    BY <2>4, <2>6 DEF TypeOK
  <2> QED
    BY <1>6, <2>7 DEF Stat, TypeOK, WrittenInv, honeypot
<1>7. ASSUME NEW p \in Pollers, ReadNew(p) PROVE TypeOK' /\ WrittenInv'
  <2> DEFINE f == file[poller[p].copy.path]
  <2>1. f \in Seq(Byte) /\ poller[p].start \in Nat
    BY <1>0 DEF TypeOK, PollTask, Row
  <2>2. Events(f, poller[p].start) \in SUBSET Lines /\ NewOffset(f, poller[p].start) \in Nat
    BY <2>1, EventsType, NewOffsetType
  <2> DEFINE events == Events(f, poller[p].start)
  <2> DEFINE newOffset == NewOffset(f, poller[p].start)
  <2> DEFINE task == [poller[p] EXCEPT !.pc = "storing", !.events = events,
                                       !.newOffset = newOffset]
  <2>3. poller' = [poller EXCEPT ![p] = task]
    BY <1>7 DEF ReadNew, TypeOK
  <2> HIDE DEF events, newOffset
  <2>4. task \in PollTask
    BY <2>2 DEF TypeOK, PollTask, events, newOffset
  <2> HIDE DEF task
  <2>5. poller' \in [Pollers -> PollTask]
    BY <2>3, <2>4 DEF TypeOK
  <2> QED
    BY <1>7, <2>5 DEF ReadNew, TypeOK, WrittenInv, honeypot
<1>8. ASSUME NEW p \in Pollers, ReadBroken(p) PROVE TypeOK' /\ WrittenInv'
  <2>1. faults' \in Faults
    BY <1>8, FaultsType DEF ReadBroken, TypeOK
  <2> DEFINE task == [poller[p] EXCEPT !.pc = "storing", !.newOffset = Unknown]
  <2>2. task \in PollTask
    BY DEF TypeOK, PollTask
  <2>3. poller' = [poller EXCEPT ![p] = task]
    BY <1>8 DEF ReadBroken, TypeOK
  <2> HIDE DEF task
  <2>4. poller' \in [Pollers -> PollTask]
    BY <2>2, <2>3 DEF TypeOK
  <2> QED
    BY <1>8, <2>1, <2>4 DEF ReadBroken, TypeOK, WrittenInv, honeypot
<1>9. ASSUME NEW p \in Pollers, StoreEvents(p) PROVE TypeOK' /\ WrittenInv'
  <2>1. row \in Row /\ poller[p].newOffset \in Nat \cup {Unknown}
    BY DEF TypeOK, PollTask
  <2>2. OffsetAfter(p) \in Nat
    BY <2>1 DEF OffsetAfter, Row
  <2>3. row' \in Row
    BY <1>9, <2>1, <2>2 DEF StoreEvents, Row
  <2>4. stored' \in [Lines -> Nat]
    BY <1>9 DEF StoreEvents, TypeOK
  <2>5. faults' \in Faults
    BY <1>9 DEF StoreEvents, TypeOK, Faults
  <2> QED
    BY <1>9, <2>3, <2>4, <2>5, NothingYet DEF StoreEvents, TypeOK, WrittenInv, honeypot
<1>10. ASSUME NEW p \in Pollers, PollFails(p) PROVE TypeOK' /\ WrittenInv'
  <2>1. faults' \in Faults
    BY <1>10, FaultsType DEF PollFails, TypeOK
  <2> QED
    BY <1>10, <2>1, NothingYet DEF PollFails, TypeOK, WrittenInv, honeypot
<1>11. ASSUME NEW r \in Refreshers, BeginRefresh(r) PROVE TypeOK' /\ WrittenInv'
  <2>1. [NoRefresh EXCEPT !.pc = "gathering", !.copy = row] \in RefreshTask
    BY NothingYet DEF RefreshTask, TypeOK
  <2>2. faults' \in Faults
    BY <1>11 DEF BeginRefresh, Faults, TypeOK
  <2> QED
    BY <1>11, <2>1, <2>2 DEF BeginRefresh, TypeOK, WrittenInv, honeypot
<1>12. ASSUME NEW r \in Refreshers, GatherFacts(r) PROVE TypeOK' /\ WrittenInv'
  <2>1. refresher' \in [Refreshers -> RefreshTask]
    BY <1>12 DEF GatherFacts, TypeOK, RefreshTask
  <2> QED
    BY <1>12, <2>1 DEF GatherFacts, TypeOK, WrittenInv, honeypot
<1>13. ASSUME NEW r \in Refreshers, SaveFacts(r) PROVE TypeOK' /\ WrittenInv'
  <2>1. row' \in Row
    BY <1>13 DEF SaveFacts, RowAfter, TypeOK, RefreshTask, Row
  <2> QED
    BY <1>13, <2>1, NothingYet DEF SaveFacts, TypeOK, WrittenInv, honeypot
<1>14. ASSUME NEW r \in Refreshers, RefreshFails(r) PROVE TypeOK' /\ WrittenInv'
  <2>1. faults' \in Faults
    BY <1>14, FaultsType DEF RefreshFails, TypeOK
  <2> QED
    BY <1>14, <2>1, NothingYet DEF RefreshFails, TypeOK, WrittenInv, honeypot
<1>15. CASE UNCHANGED vars
  BY <1>15 DEF TypeOK, WrittenInv, vars, honeypot
<1> QED
  BY <1>1, <1>2, <1>3, <1>4, <1>5, <1>6, <1>7, <1>8, <1>9, <1>10, <1>11, <1>12, <1>13, <1>14,
     <1>15 DEF Next, Poll, Refresh

LEMMA InitType == Init => TypeOK /\ WrittenInv
<1> SUFFICES ASSUME Init PROVE TypeOK /\ WrittenInv
  OBVIOUS
<1>1. faults \in Faults
  BY ConstantsAssumption DEF Init, Faults, ConstantsAssumption
<1>2. file \in [Paths -> Seq(Byte)] /\ written \in 0..MaxLines /\ logging \in Paths
  BY ConstantsAssumption DEF Init, ConstantsAssumption
<1>3. poller \in [Pollers -> PollTask] /\ refresher \in [Refreshers -> RefreshTask] /\ row \in Row
  BY NothingYet DEF Init
<1>4. stored \in [Lines -> Nat] /\ WrittenInv
  BY DEF Init, WrittenInv
<1> QED
  BY <1>1, <1>2, <1>3, <1>4 DEF TypeOK

\* Every reachable state is well typed: in particular no unknown offset is
\* ever stored.
THEOREM TypeCorrect == Spec => []TypeOK
  BY InitType, TypeStep, PTL DEF Spec

-----------------------------------------------------------------------------
(* What overlapping polls of one log cannot do *)

\* What went wrong or was moved stays on the record.
LEMMA FaultsGrow ==
    TypeOK /\ [Next]_vars =>
        /\ faults'.rotations = 0 => faults.rotations = 0 /\ ~Rotate
        /\ faults'.moves = 0 => faults.moves = 0 /\ \A p \in Paths : ~Move(p)
        /\ faults'.moves <= 1 => faults.moves <= 1
        /\ \A p \in Paths : Move(p) /\ faults'.moves <= 1 => faults.moves = 0 /\ faults'.moves = 1
        /\ faults.overlapped => faults'.overlapped
        /\ faults.crossed => faults'.crossed
<1> SUFFICES ASSUME TypeOK, [Next]_vars
             PROVE  /\ faults'.rotations = 0 => faults.rotations = 0 /\ ~Rotate
                    /\ faults'.moves = 0 => faults.moves = 0 /\ \A p \in Paths : ~Move(p)
                    /\ faults'.moves <= 1 => faults.moves <= 1
                    /\ \A p \in Paths : Move(p) /\ faults'.moves <= 1 =>
                          faults.moves = 0 /\ faults'.moves = 1
                    /\ faults.overlapped => faults'.overlapped
                    /\ faults.crossed => faults'.crossed
  OBVIOUS
<1>1. faults \in Faults /\ faults.moves \in Nat /\ faults.rotations \in Nat
  BY ConstantsAssumption DEF ConstantsAssumption, TypeOK, Faults
<1>2. Rotate => faults'.rotations = faults.rotations + 1
  BY <1>1 DEF Rotate, Faults
<1>3. \A p \in Paths : Move(p) => faults'.moves = faults.moves + 1
  BY <1>1 DEF Move, Faults
<1> DEFINE Grown == /\ faults'.rotations \in Nat /\ faults'.moves \in Nat
                    /\ faults'.rotations >= faults.rotations /\ faults'.moves >= faults.moves
                    /\ faults.overlapped => faults'.overlapped
                    /\ faults.crossed => faults'.crossed
<1>4. Grown
  <2>1. CASE UNCHANGED faults
    BY <1>1, <2>1
  <2>2. CASE Rotate
    BY <1>1, <2>2 DEF Rotate, Faults
  <2>3. CASE \E p \in Paths : Move(p)
    BY <1>1, <2>3 DEF Move, Faults
  <2>4. ASSUME NEW p \in Pollers, BeginPoll(p) \/ Poll(p) \/ ReadBroken(p) \/ PollFails(p)
        PROVE  Grown
    BY <1>1, <2>4 DEF BeginPoll, Poll, Stat, ReadNew, StoreEvents, ReadBroken, PollFails, Faults
  <2>5. ASSUME NEW r \in Refreshers, BeginRefresh(r) \/ Refresh(r) \/ RefreshFails(r)
        PROVE  Grown
    BY <1>1, <2>5 DEF BeginRefresh, Refresh, GatherFacts, SaveFacts, RefreshFails, Faults
  <2>6. EndLine \/ BeginLine \/ UNCHANGED vars => UNCHANGED faults
    BY DEF EndLine, BeginLine, vars
  <2> QED
    BY <2>1, <2>2, <2>3, <2>4, <2>5, <2>6 DEF Next
<1> QED
  BY <1>1, <1>2, <1>3, <1>4

\* The log was never rotated, truncated or configured elsewhere.
Steady == faults.rotations = 0 /\ faults.moves = 0

Log == file[FirstPath]

\* An offset that lies in the log at the start of a line.
Boundary(f, n) == n \in 0..Len(f) /\ (n # 0 => f[n].last)

\* Every line that ends by the offset n has become an event.
StoredUpTo(f, s, n) == \A i \in 1..n : f[i].last => s[f[i].line] > 0

\* Nobody knows another path.
PathInv ==
    /\ logging = FirstPath /\ row.path = FirstPath
    /\ \A p \in Pollers : poller[p].copy.path = FirstPath
    /\ \A r \in Refreshers : refresher[r].copy.path = FirstPath /\ refresher[r].path = FirstPath

\* A line's end follows its beginning.
LinesApart(f) == \A i \in 1..Len(f) : f[i].last => i > 1 /\ ~f[i - 1].last

\* An offset that was stored once stays a good one, however old a copy of it is.
GoodOffset(f, s, n) == Boundary(f, n) /\ StoredUpTo(f, s, n)

\* Where a poll stopped and what it found until there.
Found(f, task) ==
    /\ Boundary(f, task.newOffset)
    /\ \A i \in (task.start + 1)..task.newOffset : f[i].last => f[i].line \in task.events

\* What a poll has made of its copy so far.
Reading(f, task) ==
    /\ task.pc \in {"reading", "storing"} => task.start = task.copy.offset
    /\ task.pc = "storing" /\ task.newOffset # Unknown => Found(f, task)

OffsetInv ==
    /\ LinesApart(Log)
    /\ GoodOffset(Log, stored, row.offset)
    /\ \A p \in Pollers : GoodOffset(Log, stored, poller[p].copy.offset) /\ Reading(Log, poller[p])

SkipInv == PathInv /\ OffsetInv

SteadyInv == Steady => SkipInv

\* What is true of an offset stays true when the log grows.
LEMMA GrowthKeeps ==
    ASSUME NEW f \in Seq(Byte), NEW b \in Byte, NEW s, LinesApart(f),
           b.last => f # <<>> /\ ~f[Len(f)].last
    PROVE  /\ LinesApart(Append(f, b))
           /\ \A n \in Nat : GoodOffset(f, s, n) => GoodOffset(Append(f, b), s, n)
           /\ \A task \in PollTask :
                 task.newOffset # Unknown /\ Found(f, task) => Found(Append(f, b), task)
           /\ \A task \in PollTask : Reading(f, task) => Reading(Append(f, b), task)
<1> DEFINE g == Append(f, b)
<1>1. Len(f) \in Nat /\ Len(g) = Len(f) + 1 /\ g[Len(f) + 1] = b
      /\ \A i \in 1..Len(f) : g[i] = f[i]
  OBVIOUS
<1> HIDE DEF g
<1>2. LinesApart(g)
  <2> SUFFICES ASSUME NEW i \in 1..Len(g), g[i].last PROVE i > 1 /\ ~g[i - 1].last
    BY DEF LinesApart
  <2>1. CASE i \in 1..Len(f)
    BY <1>1, <2>1 DEF LinesApart
  <2>2. CASE i = Len(f) + 1
    <3>1. Len(f) > 0
      BY <1>1, <2>2
    <3> QED
      BY <1>1, <2>2, <3>1
  <2> QED
    BY <1>1, <2>1, <2>2
<1>3. \A n \in Nat : Boundary(f, n) => Boundary(g, n)
  BY <1>1 DEF Boundary
<1>4. ASSUME NEW n \in Nat, GoodOffset(f, s, n) PROVE GoodOffset(g, s, n)
  <2>1. n <= Len(f)
    BY <1>1, <1>4 DEF GoodOffset, Boundary
  <2>2. \A i \in 1..n : g[i] = f[i]
    BY <1>1, <2>1
  <2> QED
    BY <1>3, <1>4, <2>2 DEF GoodOffset, StoredUpTo
<1>5. ASSUME NEW task \in PollTask, task.newOffset # Unknown, Found(f, task) PROVE Found(g, task)
  <2>1. task.newOffset \in Nat /\ task.start \in Nat /\ Boundary(f, task.newOffset)
    BY <1>5 DEF Found, PollTask
  <2>2. \A i \in (task.start + 1)..task.newOffset : i \in 1..Len(f)
    BY <1>1, <2>1 DEF Boundary
  <2>3. \A i \in (task.start + 1)..task.newOffset : g[i] = f[i]
    BY <1>1, <2>2
  <2> QED
    BY <1>3, <1>5, <2>1, <2>3 DEF Found
<1>6. \A task \in PollTask : Reading(f, task) => Reading(g, task)
  BY <1>5 DEF Reading
<1> QED
  BY <1>2, <1>4, <1>5, <1>6 DEF g

\* The lines between a good offset and the one its read found are all events.
LEMMA ReadIsGood ==
    ASSUME NEW f \in Seq(Byte), LinesApart(f), NEW start \in Nat, Boundary(f, start)
    PROVE  /\ Boundary(f, NewOffset(f, start))
           /\ \A i \in (start + 1)..NewOffset(f, start) : f[i].last => f[i].line \in Events(f, start)
<1> DEFINE n == NewOffset(f, start)
<1>1. n \in Ends(f, start) \cup {start} /\ n \in Nat /\ Len(f) \in Nat
  BY NewOffsetType
<1> HIDE DEF n
<1>2. Boundary(f, n)
  BY <1>1 DEF Boundary, Ends
<1>3. ASSUME NEW i \in (start + 1)..n, f[i].last PROVE f[i].line \in Events(f, start)
  <2>1. i \in 1..Len(f) /\ i \in Ends(f, start)
    BY <1>1, <1>2, <1>3 DEF Boundary, Ends
  <2>2. i > 1 /\ ~f[i - 1].last
    BY <1>3, <2>1 DEF LinesApart
  <2>3. i - 1 # start
    BY <2>1, <2>2 DEF Boundary
  <2>4. i - 1 > start
    BY <2>1, <2>3
  <2> QED
    BY <2>1, <2>4 DEF Events
<1> QED
  BY <1>2, <1>3 DEF n

LEMMA SkipInit == Init => SkipInv
  BY ConstantsAssumption DEF ConstantsAssumption, Init, SkipInv, PathInv, OffsetInv, LinesApart,
     GoodOffset, Boundary, StoredUpTo, Reading, NoPoll, NoRefresh, Log, Lines

\* More bytes in the log, nothing else.
LEMMA GrowthStep ==
    ASSUME TypeOK, WrittenInv, SkipInv, BeginLine \/ EndLine
    PROVE  SkipInv'
<1>1. file[FirstPath] \in Seq(Byte) /\ logging = FirstPath
  BY ConstantsAssumption DEF ConstantsAssumption, TypeOK, SkipInv, PathInv
<1>2. PICK b \in Byte : Log' = Append(Log, b) /\ (b.last => HalfWritten(Log))
  <2>1. CASE BeginLine
    <3>1. [line |-> written + 1, last |-> FALSE] \in Byte
      BY <2>1, ConstantsAssumption DEF ConstantsAssumption, BeginLine, TypeOK, Byte, Lines
    <3> QED
      BY <1>1, <2>1, <3>1, ConstantsAssumption DEF ConstantsAssumption, BeginLine, TypeOK, Log
  <2>2. CASE EndLine
    <3>1. file[FirstPath] # <<>>
      BY <1>1, <2>2 DEF EndLine, HalfWritten
    <3>2. [line |-> written, last |-> TRUE] \in Byte
      BY <3>1, ConstantsAssumption DEF ConstantsAssumption, WrittenInv, TypeOK, Byte, Lines
    <3> QED
      BY <1>1, <2>2, <3>2, ConstantsAssumption DEF ConstantsAssumption, EndLine, TypeOK, Log
  <2> QED
    BY <2>1, <2>2
<1>3. /\ LinesApart(Append(Log, b))
      /\ \A n \in Nat : GoodOffset(Log, stored, n) => GoodOffset(Append(Log, b), stored, n)
      /\ \A task \in PollTask : Reading(Log, task) => Reading(Append(Log, b), task)
  BY <1>1, <1>2, GrowthKeeps DEF SkipInv, OffsetInv, HalfWritten, Log
<1>4. UNCHANGED <<logging, row, stored, poller, refresher>>
  BY DEF BeginLine, EndLine
<1>5. row.offset \in Nat /\ \A p \in Pollers : poller[p] \in PollTask /\ poller[p].copy.offset \in Nat
  BY DEF TypeOK, Row, PollTask
<1>6. OffsetInv'
  BY <1>2, <1>3, <1>4, <1>5 DEF OffsetInv, SkipInv
<1>7. PathInv'
  BY <1>4 DEF PathInv, SkipInv
<1> QED
  BY <1>6, <1>7 DEF SkipInv

\* A step of one poller that leaves log, row and events alone.
LEMMA PollerStep ==
    ASSUME SkipInv, TypeOK, NEW p \in Pollers, NEW task, poller' = [poller EXCEPT ![p] = task],
           UNCHANGED <<honeypot, row, stored, refresher>>,
           task.copy.path = FirstPath, GoodOffset(Log, stored, task.copy.offset), Reading(Log, task)
    PROVE  SkipInv'
<1>1. \A q \in Pollers : poller'[q] = IF q = p THEN task ELSE poller[q]
  BY DEF TypeOK
<1>2. PathInv'
  BY <1>1 DEF PathInv, SkipInv, honeypot
<1>3. Log' = Log
  BY DEF Log, honeypot
<1>4. OffsetInv'
  BY <1>1, <1>3 DEF OffsetInv, SkipInv
<1> QED
  BY <1>2, <1>4 DEF SkipInv

\* A poll that starts over knows nothing and can have missed nothing.
LEMMA NoPollIsGood ==
    ASSUME TypeOK
    PROVE  NoPoll.copy.path = FirstPath /\ GoodOffset(Log, stored, NoPoll.copy.offset)
           /\ Reading(Log, NoPoll)
<1>1. Len(Log) \in Nat
  BY ConstantsAssumption DEF ConstantsAssumption, Log, TypeOK
<1> QED
  BY <1>1 DEF NoPoll, GoodOffset, Boundary, StoredUpTo, Reading

\* What a poll read becomes events in the step that moves the offset past it.
LEMMA StoreStep ==
    ASSUME TypeOK, SkipInv, NEW p \in Pollers, StoreEvents(p)
    PROVE  SkipInv'
<1> DEFINE task == poller[p]
<1>1. task \in PollTask /\ task.newOffset \in Nat \cup {Unknown} /\ task.start \in Nat
      /\ task.copy.offset \in Nat /\ row \in Row /\ Len(Log) \in Nat /\ Log \in Seq(Byte)
  BY ConstantsAssumption DEF ConstantsAssumption, TypeOK, PollTask, Row, Log
<1>2. Log' = Log /\ row' = [row EXCEPT !.offset = OffsetAfter(p)]
      /\ poller' = [poller EXCEPT ![p] = NoPoll] /\ UNCHANGED <<honeypot, refresher>>
  BY DEF StoreEvents, Log, honeypot
<1>3. \A l \in Lines : stored'[l] >= stored[l] /\ (l \in task.events => stored'[l] > 0)
  BY DEF StoreEvents, TypeOK
<1>4. \A i \in 1..Len(Log) : Log[i].line \in Lines
  <2>1. \A i \in 1..Len(Log) : Log[i] \in Byte
    BY <1>1
  <2> QED
    BY <2>1 DEF Byte
<1>5. ASSUME NEW n \in Nat, GoodOffset(Log, stored, n) PROVE GoodOffset(Log, stored', n)
  <2>1. \A i \in 1..n : i \in 1..Len(Log)
    BY <1>1, <1>5 DEF GoodOffset, Boundary
  <2>2. \A i \in 1..n : Log[i].last => stored[Log[i].line] > 0 /\ Log[i].line \in Lines
    BY <1>4, <1>5, <2>1 DEF GoodOffset, StoredUpTo
  <2>3. \A l \in Lines : stored[l] > 0 => stored'[l] > 0
    BY <1>3 DEF StoreEvents, TypeOK
  <2> QED
    BY <1>5, <2>2, <2>3 DEF GoodOffset, StoredUpTo
<1>6. GoodOffset(Log, stored', OffsetAfter(p))
  <2>1. CASE task.newOffset \in {Unknown, task.copy.offset}
    BY <1>1, <1>5, <2>1 DEF OffsetAfter, SkipInv, OffsetInv, Row
  <2>2. CASE task.newOffset \notin {Unknown, task.copy.offset}
    <3> DEFINE n == task.newOffset
    <3>1. /\ task.start = task.copy.offset /\ n \in Nat /\ OffsetAfter(p) = n
          /\ Boundary(Log, n)
          /\ \A i \in (task.start + 1)..n : Log[i].last => Log[i].line \in task.events
      BY <1>1, <2>2 DEF StoreEvents, SkipInv, OffsetInv, Reading, Found, OffsetAfter
    <3>2. GoodOffset(Log, stored', task.start)
      BY <1>1, <1>5, <3>1 DEF SkipInv, OffsetInv
    <3>3. ASSUME NEW i \in 1..n, Log[i].last PROVE stored'[Log[i].line] > 0
      <4>1. CASE i <= task.start
        BY <1>1, <3>2, <3>3, <4>1 DEF GoodOffset, StoredUpTo
      <4>2. CASE i > task.start
        <5>1. i \in (task.start + 1)..n /\ i \in 1..Len(Log)
          BY <1>1, <3>1, <4>2 DEF Boundary
        <5> QED
          BY <1>3, <1>4, <3>1, <3>3, <5>1
      <4> QED
        BY <1>1, <3>1, <4>1, <4>2
    <3> QED
      BY <3>1, <3>3 DEF GoodOffset, StoredUpTo
  <2> QED
    BY <2>1, <2>2
<1>7. \A q \in Pollers : poller'[q] = IF q = p THEN NoPoll ELSE poller[q]
  BY <1>2 DEF TypeOK
<1>8. PathInv'
  BY <1>1, <1>2, <1>7, NoPollIsGood DEF PathInv, SkipInv, honeypot, Row
<1>9. OffsetInv'
  <2>1. row'.offset = OffsetAfter(p)
    BY <1>1, <1>2 DEF Row
  <2>2. ASSUME NEW q \in Pollers
        PROVE  GoodOffset(Log, stored', poller'[q].copy.offset) /\ Reading(Log, poller'[q])
    <3>1. CASE q = p
      <4>1. GoodOffset(Log, stored, NoPoll.copy.offset) /\ NoPoll.copy.offset \in Nat
        BY NoPollIsGood DEF NoPoll
      <4> QED
        BY <1>5, <1>7, <3>1, <4>1, NoPollIsGood
    <3>2. CASE q # p
      <4>1. poller[q].copy.offset \in Nat
        BY DEF TypeOK, PollTask, Row
      <4> QED
        BY <1>5, <1>7, <3>2, <4>1 DEF SkipInv, OffsetInv
    <3> QED
      BY <3>1, <3>2
  <2> QED
    BY <1>2, <1>6, <2>1, <2>2 DEF OffsetInv, SkipInv
<1> QED
  BY <1>8, <1>9 DEF SkipInv

\* A step of one refresher: the path it finds is the path there is.
LEMMA RefresherStep ==
    ASSUME TypeOK, SkipInv, NEW r \in Refreshers,
           BeginRefresh(r) \/ GatherFacts(r) \/ SaveFacts(r) \/ RefreshFails(r)
    PROVE  SkipInv'
<1>1. row' = row
  BY DEF BeginRefresh, GatherFacts, SaveFacts, RefreshFails, RowAfter, SkipInv, PathInv
<1>2. UNCHANGED <<honeypot, stored, poller>>
  BY DEF BeginRefresh, GatherFacts, SaveFacts, RefreshFails
<1>3. ASSUME NEW q \in Refreshers
      PROVE  refresher'[q].copy.path = FirstPath /\ refresher'[q].path = FirstPath
  <2>1. CASE BeginRefresh(r)
    BY <2>1 DEF BeginRefresh, SkipInv, PathInv, TypeOK, RefreshTask, NoRefresh
  <2>2. CASE GatherFacts(r)
    BY <2>2 DEF GatherFacts, SkipInv, PathInv, TypeOK, RefreshTask
  <2>3. CASE SaveFacts(r) \/ RefreshFails(r)
    BY <2>3 DEF SaveFacts, RefreshFails, SkipInv, PathInv, TypeOK, NoRefresh
  <2> QED
    BY <2>1, <2>2, <2>3
<1>4. PathInv'
  BY <1>1, <1>2, <1>3 DEF PathInv, SkipInv, honeypot
<1>5. OffsetInv'
  BY <1>1, <1>2 DEF OffsetInv, SkipInv, Log, honeypot
<1> QED
  BY <1>4, <1>5 DEF SkipInv

LEMMA SteadyStep == TypeOK /\ WrittenInv /\ SteadyInv /\ [Next]_vars => SteadyInv'
<1> SUFFICES ASSUME TypeOK, WrittenInv, SteadyInv, [Next]_vars, Steady' PROVE SkipInv'
  BY DEF SteadyInv
<1>0. Log \in Seq(Byte) /\ Len(Log) \in Nat
  BY ConstantsAssumption DEF ConstantsAssumption, Log, TypeOK
<1>1. SkipInv /\ ~Rotate /\ \A p \in Paths : ~Move(p)
  BY FaultsGrow DEF Steady, SteadyInv
<1>2. CASE EndLine \/ BeginLine
  BY <1>1, <1>2, GrowthStep
<1>3. ASSUME NEW p \in Pollers, BeginPoll(p) PROVE SkipInv'
  <2> DEFINE task == [NoPoll EXCEPT !.pc = "connecting", !.copy = row]
  <2>1. task.pc = "connecting" /\ task.copy = row
    BY DEF NoPoll
  <2>2. poller' = [poller EXCEPT ![p] = task] /\ UNCHANGED <<honeypot, row, stored, refresher>>
    BY <1>3 DEF BeginPoll
  <2> HIDE DEF task
  <2>3. task.copy.path = FirstPath /\ GoodOffset(Log, stored, task.copy.offset)
        /\ Reading(Log, task)
    BY <1>1, <2>1 DEF SkipInv, PathInv, OffsetInv, Reading
  <2> QED
    BY <2>2, <2>3, <1>1, PollerStep
<1>4. ASSUME NEW p \in Pollers, Stat(p) PROVE SkipInv'
  <2> DEFINE copy == poller[p].copy
  <2> DEFINE start == StartOf(Len(file[copy.path]), copy.offset)
  <2> DEFINE saw == {copy.path} \cap faults.unseen
  <2> DEFINE task == [poller[p] EXCEPT !.pc = "reading", !.start = start, !.saw = saw]
  <2>1. poller' = [poller EXCEPT ![p] = task] /\ UNCHANGED <<honeypot, row, stored, refresher>>
    BY <1>4 DEF Stat, TypeOK
  <2>2. copy.path = FirstPath /\ GoodOffset(Log, stored, copy.offset) /\ copy.offset \in Nat
    BY <1>1 DEF SkipInv, PathInv, OffsetInv, TypeOK, PollTask, Row
  <2>3. start = copy.offset
    BY <1>0, <2>2 DEF StartOf, Log, GoodOffset, Boundary
  <2> HIDE DEF start, saw
  <2>4. task.pc = "reading" /\ task.copy = copy /\ task.start = start
    BY DEF TypeOK, PollTask
  <2> HIDE DEF task
  <2>5. Reading(Log, task)
    BY <2>3, <2>4 DEF Reading
  <2> QED
    BY <2>1, <2>2, <2>4, <2>5, <1>1, PollerStep
<1>5. ASSUME NEW p \in Pollers, ReadNew(p) PROVE SkipInv'
  <2> DEFINE start == poller[p].start
  <2> DEFINE events == Events(file[poller[p].copy.path], start)
  <2> DEFINE newOffset == NewOffset(file[poller[p].copy.path], start)
  <2> DEFINE task == [poller[p] EXCEPT !.pc = "storing", !.events = events,
                                       !.newOffset = newOffset]
  <2>1. poller' = [poller EXCEPT ![p] = task] /\ UNCHANGED <<honeypot, row, stored, refresher>>
    BY <1>5 DEF ReadNew, TypeOK
  <2>2. /\ poller[p].copy.path = FirstPath
        /\ GoodOffset(Log, stored, poller[p].copy.offset) /\ LinesApart(Log)
        /\ start = poller[p].copy.offset /\ start \in Nat
    BY <1>1, <1>5 DEF ReadNew, SkipInv, PathInv, OffsetInv, Reading, TypeOK, PollTask
  <2>3. /\ Boundary(Log, newOffset)
        /\ \A i \in (start + 1)..newOffset : Log[i].last => Log[i].line \in events
    BY <1>0, <2>2, ReadIsGood DEF GoodOffset, Log
  <2> HIDE DEF events, newOffset
  <2>4. /\ task.pc = "storing" /\ task.copy = poller[p].copy /\ task.start = start
        /\ task.events = events /\ task.newOffset = newOffset
    BY DEF TypeOK, PollTask
  <2> HIDE DEF task
  <2>5. Reading(Log, task)
    BY <2>2, <2>3, <2>4 DEF Reading, Found
  <2> QED
    BY <2>1, <2>2, <2>4, <2>5, <1>1, PollerStep
<1>6. ASSUME NEW p \in Pollers, ReadBroken(p) PROVE SkipInv'
  <2> DEFINE task == [poller[p] EXCEPT !.pc = "storing", !.newOffset = Unknown]
  <2>1. poller' = [poller EXCEPT ![p] = task] /\ UNCHANGED <<honeypot, row, stored, refresher>>
    BY <1>6 DEF ReadBroken, TypeOK
  <2>2. /\ task.pc = "storing" /\ task.copy = poller[p].copy /\ task.start = poller[p].start
        /\ task.newOffset = Unknown
    BY DEF TypeOK, PollTask
  <2> HIDE DEF task
  <2>3. task.copy.path = FirstPath /\ GoodOffset(Log, stored, task.copy.offset)
    BY <1>1, <2>2 DEF SkipInv, PathInv, OffsetInv
  <2>4. Reading(Log, task)
    BY <1>1, <1>6, <2>2 DEF ReadBroken, SkipInv, OffsetInv, Reading
  <2> QED
    BY <2>1, <2>3, <2>4, <1>1, PollerStep
<1>7. ASSUME NEW p \in Pollers, StoreEvents(p) PROVE SkipInv'
  BY <1>7, <1>1, StoreStep
<1>8. ASSUME NEW p \in Pollers, PollFails(p) PROVE SkipInv'
  <2>1. poller' = [poller EXCEPT ![p] = NoPoll] /\ UNCHANGED <<honeypot, row, stored, refresher>>
    BY <1>8 DEF PollFails
  <2> QED
    BY <2>1, NoPollIsGood, <1>1, PollerStep
<1>9. ASSUME NEW r \in Refreshers, BeginRefresh(r) \/ Refresh(r) \/ RefreshFails(r) PROVE SkipInv'
  BY <1>1, <1>9, RefresherStep DEF Refresh
<1>10. CASE UNCHANGED vars
  BY <1>1, <1>10 DEF SkipInv, PathInv, OffsetInv, Log, vars, honeypot
<1> QED
  BY <1>1, <1>2, <1>3, <1>4, <1>5, <1>6, <1>7, <1>8, <1>9, <1>10 DEF Next, Poll

-----------------------------------------------------------------------------
(* What a rotation cannot do to polls that do not overlap *)

OneAtATime == \A p, q \in Pollers : poller[p].pc # "idle" /\ poller[q].pc # "idle" => p = q

\* The log was rotated, and no poll that found it so has stored its offset.
Rotated == FirstPath \in faults.unseen

\* The one poll has the row as it is. Of a log rotated before it looked it reads
\* everything; of one rotated since it moves the offset on, never back.
ReadHonest(task) ==
    /\ task.copy = row
    /\ task.saw \subseteq {FirstPath}
    /\ task.pc \in {"reading", "storing"} =>
          IF task.saw = {} THEN task.start = row.offset ELSE Rotated /\ task.start = 0
    /\ task.pc = "storing" /\ task.newOffset # Unknown =>
          /\ task.newOffset >= task.start
          /\ task.saw # {} \/ ~Rotated => Found(Log, task)

\* A rotated log stays shorter than the offset, so that the next poll notices.
Honest ==
    /\ PathInv /\ OneAtATime /\ LinesApart(Log)
    /\ IF Rotated THEN Log = <<>> \/ Len(Log) < row.offset
       ELSE GoodOffset(Log, stored, row.offset)
    /\ \A p \in Pollers : poller[p].pc # "idle" => ReadHonest(poller[p])

HonestInv == ~faults.overlapped /\ faults.moves = 0 => Honest

\* The byte a line begins or ends with.
LEMMA OneByteMore ==
    ASSUME TypeOK, WrittenInv, BeginLine \/ EndLine
    PROVE  \E b \in Byte :
              /\ file' = [file EXCEPT ![logging] = Append(@, b)]
              /\ \/ /\ EndLine /\ written \in Lines /\ HalfWritten(file[logging])
                    /\ b = [line |-> written, last |-> TRUE]
                 \/ BeginLine /\ b = [line |-> written + 1, last |-> FALSE]
<1> USE ConstantsAssumption DEF ConstantsAssumption
<1>1. CASE BeginLine
  <2>1. [line |-> written + 1, last |-> FALSE] \in Byte
    BY <1>1 DEF BeginLine, TypeOK, Byte, Lines
  <2> QED
    BY <1>1, <2>1 DEF BeginLine
<1>2. CASE EndLine
  <2>1. written \in Lines
    BY <1>2 DEF EndLine, HalfWritten, WrittenInv, TypeOK, Lines
  <2>2. [line |-> written, last |-> TRUE] \in Byte
    BY <2>1 DEF Byte
  <2> QED
    BY <1>2, <2>1, <2>2 DEF EndLine
<1> QED
  BY <1>1, <1>2

\* A line is begun or ended, as far behind the offset as a rotated log stays.
LEMMA HonestGrows ==
    ASSUME TypeOK, WrittenInv, Honest, BeginLine \/ EndLine
    PROVE  Honest'
<1>1. Log \in Seq(Byte) /\ Len(Log) \in Nat /\ logging = FirstPath /\ row.offset \in Nat
  BY ConstantsAssumption DEF ConstantsAssumption, TypeOK, Honest, PathInv, Log, Row
<1>2. PICK b \in Byte : Log' = Append(Log, b) /\ (b.last => HalfWritten(Log))
  <2>1. FirstPath \in DOMAIN file
    BY ConstantsAssumption DEF ConstantsAssumption, TypeOK
  <2> QED
    BY <1>1, <2>1, OneByteMore DEF Log
<1>3. /\ LinesApart(Append(Log, b))
      /\ \A n \in Nat : GoodOffset(Log, stored, n) => GoodOffset(Append(Log, b), stored, n)
      /\ \A task \in PollTask :
            task.newOffset # Unknown /\ Found(Log, task) => Found(Append(Log, b), task)
  BY <1>1, <1>2, GrowthKeeps DEF Honest, HalfWritten
<1>4. /\ UNCHANGED <<logging, row, stored, poller, refresher, faults>>
      /\ Rotated => Len(Log) + 1 < row.offset
  BY <1>1 DEF BeginLine, EndLine, StaysBehind, Rotated, Log
<1>5. PathInv' /\ OneAtATime' /\ LinesApart(Log)' /\ Rotated' = Rotated
  BY <1>2, <1>3, <1>4 DEF PathInv, OneAtATime, Honest, Rotated, LinesApart
<1>6. IF Rotated' THEN Log' = <<>> \/ Len(Log') < row'.offset
      ELSE GoodOffset(Log', stored', row'.offset)
  <2>1. Len(Log') = Len(Log) + 1
    BY <1>1, <1>2
  <2> QED
    BY <1>1, <1>2, <1>3, <1>4, <1>5, <2>1 DEF Honest
<1>7. ASSUME NEW p \in Pollers, poller[p].pc # "idle" PROVE ReadHonest(poller[p])'
  <2>1. ReadHonest(poller[p]) /\ poller[p] \in PollTask
    BY <1>7 DEF Honest, TypeOK
  <2> QED
    BY <1>2, <1>3, <1>4, <1>5, <2>1 DEF ReadHonest
<1> QED
  BY <1>4, <1>5, <1>6, <1>7 DEF Honest

\* Nothing is claimed of an empty log; what a poll holds is of the old one.
LEMMA HonestRotates == ASSUME TypeOK, Honest, Rotate PROVE Honest'
<1>1. /\ logging = FirstPath /\ Log' = <<>> /\ ~Rotated /\ Rotated'
      /\ UNCHANGED <<logging, row, stored, poller, refresher>>
  BY ConstantsAssumption DEF ConstantsAssumption, Rotate, Honest, PathInv, Log, Rotated, TypeOK,
     Faults
<1>2. PathInv' /\ OneAtATime' /\ LinesApart(Log)'
  BY <1>1 DEF Honest, PathInv, OneAtATime, LinesApart
<1>3. ASSUME NEW p \in Pollers, poller[p].pc # "idle" PROVE ReadHonest(poller[p])'
  <2>1. ReadHonest(poller[p]) /\ poller[p] \in PollTask /\ row \in Row
    BY <1>3 DEF Honest, TypeOK
  <2>2. poller[p].pc \in {"reading", "storing"} => poller[p].saw = {}
    BY <1>1, <2>1 DEF ReadHonest, Rotated
  <2> QED
    BY <1>1, <2>1, <2>2 DEF ReadHonest
<1> QED
  BY <1>1, <1>2, <1>3 DEF Honest

\* A step of one poll that stores nothing.
LEMMA HonestPolls ==
    ASSUME TypeOK, Honest, NEW p \in Pollers, NEW task, poller' = [poller EXCEPT ![p] = task],
           UNCHANGED <<honeypot, row, stored, refresher>>, faults'.unseen = faults.unseen,
           poller[p].pc # "idle" \/ \A q \in Pollers : poller[q].pc = "idle",
           task.copy.path = FirstPath, task.pc # "idle" => ReadHonest(task)
    PROVE  Honest'
<1>1. /\ UNCHANGED <<file, logging, written, Log>> /\ Rotated' = Rotated
      /\ \A q \in Pollers : poller'[q] = IF q = p THEN task ELSE poller[q]
  BY DEF honeypot, Log, Rotated, TypeOK
<1>2. PathInv' /\ OneAtATime' /\ LinesApart(Log)'
  BY <1>1 DEF Honest, PathInv, OneAtATime, LinesApart
<1>3. ASSUME NEW q \in Pollers, poller'[q].pc # "idle" PROVE ReadHonest(poller[q])'
  <2>1. ReadHonest(IF q = p THEN task ELSE poller[q])
    BY <1>1, <1>3 DEF Honest
  <2> QED
    BY <1>1, <2>1 DEF ReadHonest
<1>4. IF Rotated' THEN Log' = <<>> \/ Len(Log') < row'.offset
      ELSE GoodOffset(Log', stored', row'.offset)
  BY <1>1 DEF Honest
<1> QED
  BY <1>2, <1>3, <1>4 DEF Honest

\* The offset moves past what becomes events in the same commit; that of a file
\* rotated meanwhile stays out of reach of the new one.
LEMMA HonestStores == ASSUME TypeOK, Honest, NEW p \in Pollers, StoreEvents(p) PROVE Honest'
<1> DEFINE task == poller[p]
<1>0. /\ task \in PollTask /\ task.pc = "storing" /\ Log \in Seq(Byte) /\ Len(Log) \in Nat
      /\ row.offset \in Nat /\ task.start \in Nat /\ row \in Row
      /\ task.newOffset \in Nat \cup {Unknown} /\ Unknown \notin Nat
  BY ConstantsAssumption DEF ConstantsAssumption, StoreEvents, TypeOK, Log, PollTask, Row, Unknown
<1>1. ReadHonest(task) /\ task.copy = row
  BY <1>0 DEF Honest, ReadHonest
<1>2. /\ poller' = [poller EXCEPT ![p] = NoPoll] /\ UNCHANGED <<file, logging, written, Log, refresher>>
      /\ stored' = [l \in Lines |-> IF l \in task.events THEN stored[l] + 1 ELSE stored[l]]
      /\ row'.path = row.path
      /\ row'.offset = (IF task.newOffset = Unknown THEN row.offset ELSE task.newOffset)
      /\ faults'.unseen =
            (IF task.newOffset = Unknown THEN faults.unseen ELSE faults.unseen \ task.saw)
  BY <1>0, <1>1 DEF StoreEvents, honeypot, Log, OffsetAfter, TypeOK, Row, Faults
<1>3. \A q \in Pollers : poller'[q].pc = "idle"
  BY <1>0, <1>2 DEF Honest, OneAtATime, NoPoll, TypeOK
<1>4. PathInv' /\ OneAtATime' /\ LinesApart(Log)'
  BY <1>2, <1>3 DEF Honest, PathInv, OneAtATime, LinesApart, TypeOK, NoPoll
<1>5. \A l \in Lines : /\ stored[l] > 0 => stored'[l] > 0
                       /\ l \in task.events => stored'[l] > 0
  BY <1>2 DEF TypeOK
<1>6. \A i \in 1..Len(Log) : Log[i].line \in Lines
  <2>1. \A i \in 1..Len(Log) : Log[i] \in Byte
    BY <1>0
  <2> QED
    BY <2>1 DEF Byte
<1>7. ASSUME NEW n \in Nat, GoodOffset(Log, stored, n) PROVE GoodOffset(Log, stored', n)
  <2>1. \A i \in 1..n : i \in 1..Len(Log)
    BY <1>0, <1>7 DEF GoodOffset, Boundary
  <2>2. \A i \in 1..n : Log[i].last => stored[Log[i].line] > 0 /\ Log[i].line \in Lines
    BY <1>6, <1>7, <2>1 DEF GoodOffset, StoredUpTo
  <2> QED
    BY <1>5, <1>7, <2>2 DEF GoodOffset, StoredUpTo
<1>8. CASE task.newOffset = Unknown
  <2>1. Rotated' = Rotated /\ row'.offset = row.offset
    BY <1>2, <1>8 DEF Rotated
  <2> QED
    BY <1>0, <1>2, <1>3, <1>4, <1>7, <2>1 DEF Honest
<1>9. CASE task.newOffset # Unknown
  <2> DEFINE n == task.newOffset
  <2>1. n \in Nat /\ row'.offset = n /\ n >= task.start
    BY <1>0, <1>1, <1>2, <1>9 DEF ReadHonest
  <2>2. CASE Rotated /\ task.saw = {}
    <3>1. Rotated' /\ n >= row.offset
      BY <1>0, <1>1, <1>2, <1>9, <2>1, <2>2 DEF Rotated, ReadHonest
    <3>2. Log = <<>> \/ Len(Log) < n
      BY <1>0, <2>1, <2>2, <3>1 DEF Honest
    <3> QED
      BY <1>2, <1>3, <1>4, <2>1, <3>1, <3>2 DEF Honest
  <2>3. CASE ~(Rotated /\ task.saw = {})
    <3>1. ~Rotated' /\ Found(Log, task)
      BY <1>0, <1>1, <1>2, <1>9, <2>3 DEF Rotated, ReadHonest
    <3>2. task.start = 0 \/ GoodOffset(Log, stored', task.start)
      BY <1>0, <1>1, <1>7, <2>3 DEF Honest, ReadHonest
    <3>3. ASSUME NEW i \in 1..n, Log[i].last PROVE stored'[Log[i].line] > 0
      <4>1. CASE i <= task.start
        BY <1>0, <2>1, <3>2, <3>3, <4>1 DEF GoodOffset, StoredUpTo
      <4>2. CASE i > task.start
        <5>1. i \in (task.start + 1)..n /\ i \in 1..Len(Log)
          BY <1>0, <2>1, <3>1, <4>2 DEF Found, Boundary
        <5> QED
          BY <1>5, <1>6, <3>1, <3>3, <5>1 DEF Found
      <4> QED
        BY <1>0, <2>1, <4>1, <4>2
    <3>4. GoodOffset(Log, stored', n)
      BY <3>1, <3>3 DEF GoodOffset, StoredUpTo, Found
    <3> QED
      BY <1>2, <1>3, <1>4, <2>1, <3>1, <3>4 DEF Honest
  <2> QED
    BY <2>2, <2>3
<1> QED
  BY <1>8, <1>9

\* A refresh finds the path there is, and leaves row and log alone.
LEMMA HonestRefreshes ==
    ASSUME TypeOK, Honest, NEW r \in Refreshers, BeginRefresh(r) \/ Refresh(r) \/ RefreshFails(r)
    PROVE  Honest'
<1>1. row' = row /\ UNCHANGED <<honeypot, stored, poller>> /\ faults'.unseen = faults.unseen
  BY DEF Honest, PathInv, BeginRefresh, Refresh, GatherFacts, SaveFacts, RefreshFails, RowAfter,
     TypeOK, Faults
<1>2. ASSUME NEW q \in Refreshers
      PROVE  refresher'[q].copy.path = FirstPath /\ refresher'[q].path = FirstPath
  <2>1. CASE BeginRefresh(r)
    BY <2>1 DEF BeginRefresh, Honest, PathInv, TypeOK, RefreshTask, NoRefresh
  <2>2. CASE GatherFacts(r)
    BY <2>2 DEF GatherFacts, Honest, PathInv, TypeOK, RefreshTask
  <2>3. CASE SaveFacts(r) \/ RefreshFails(r)
    BY <2>3 DEF SaveFacts, RefreshFails, Honest, PathInv, TypeOK, NoRefresh
  <2> QED
    BY <2>1, <2>2, <2>3 DEF Refresh
<1>3. PathInv'
  BY <1>1, <1>2 DEF Honest, PathInv, honeypot
<1> QED
  BY <1>1, <1>3 DEF Honest, OneAtATime, ReadHonest, Rotated, Log, honeypot

LEMMA HonestStep == TypeOK /\ WrittenInv /\ HonestInv /\ [Next]_vars => HonestInv'
<1> SUFFICES ASSUME TypeOK, WrittenInv, HonestInv, [Next]_vars, ~faults'.overlapped,
                    faults'.moves = 0
             PROVE  Honest'
  BY DEF HonestInv
<1>1. Honest /\ \A z \in Paths : ~Move(z)
  BY FaultsGrow DEF HonestInv
<1>2. CASE EndLine \/ BeginLine
  BY <1>1, <1>2, HonestGrows
<1>3. CASE Rotate
  BY <1>1, <1>3, HonestRotates
<1>4. ASSUME NEW p \in Pollers, BeginPoll(p) PROVE Honest'
  <2> DEFINE task == [NoPoll EXCEPT !.pc = "connecting", !.copy = row]
  <2>1. faults'.unseen = faults.unseen /\ \A q \in Pollers : poller[q].pc = "idle"
    BY <1>4 DEF BeginPoll, TypeOK, Faults
  <2>2. task.copy.path = FirstPath /\ ReadHonest(task)
    BY <1>1 DEF Honest, PathInv, ReadHonest, NoPoll
  <2>3. poller' = [poller EXCEPT ![p] = task] /\ UNCHANGED <<honeypot, row, stored, refresher>>
    BY <1>4 DEF BeginPoll
  <2> HIDE DEF task
  <2> QED
    BY <1>1, <2>1, <2>2, <2>3, HonestPolls
<1>5. ASSUME NEW p \in Pollers, Stat(p) PROVE Honest'
  <2> DEFINE old == poller[p]
             start == StartOf(Len(Log), row.offset)
             task == [old EXCEPT !.pc = "reading", !.start = start,
                                 !.saw = {FirstPath} \cap faults.unseen]
  <2>0. /\ old \in PollTask /\ old.pc = "connecting" /\ row.offset \in Nat
        /\ Log \in Seq(Byte) /\ Len(Log) \in Nat
    BY <1>5, ConstantsAssumption DEF ConstantsAssumption, Stat, TypeOK, Row, Log
  <2>1. ReadHonest(old) /\ old.copy = row /\ row.path = FirstPath
    BY <1>1, <2>0 DEF Honest, ReadHonest, PathInv
  <2>2. poller' = [poller EXCEPT ![p] = task] /\ UNCHANGED <<honeypot, row, stored, refresher, faults>>
    BY <1>5, <2>1 DEF Stat, TypeOK, Log
  <2>3. /\ task.copy = row /\ task.pc = "reading" /\ task.start = start
        /\ task.saw = {FirstPath} \cap faults.unseen
    BY <2>0, <2>1 DEF PollTask
  <2>4. IF Rotated THEN start = 0 ELSE start = row.offset
    BY <1>1, <2>0 DEF Honest, GoodOffset, Boundary, StartOf
  <2> HIDE DEF task, start
  <2>5. ReadHonest(task)
    BY <2>3, <2>4 DEF ReadHonest, Rotated
  <2> QED
    BY <1>1, <2>0, <2>1, <2>2, <2>3, <2>5, HonestPolls
<1>6. ASSUME NEW p \in Pollers, ReadNew(p) PROVE Honest'
  <2> DEFINE old == poller[p]
             n == NewOffset(Log, old.start)
             found == Events(Log, old.start)
             task == [old EXCEPT !.pc = "storing", !.events = found, !.newOffset = n]
  <2>0. /\ Log \in Seq(Byte) /\ Len(Log) \in Nat /\ old \in PollTask /\ old.start \in Nat
        /\ old.pc = "reading" /\ row.offset \in Nat
    BY <1>6, ConstantsAssumption DEF ConstantsAssumption, ReadNew, TypeOK, Log, PollTask, Row
  <2>1. ReadHonest(old) /\ old.copy = row /\ row.path = FirstPath /\ LinesApart(Log)
    BY <1>1, <2>0 DEF Honest, ReadHonest, PathInv
  <2>2. poller' = [poller EXCEPT ![p] = task] /\ UNCHANGED <<honeypot, row, stored, refresher, faults>>
    BY <1>6, <2>1 DEF ReadNew, Log, TypeOK
  <2>3. n \in Ends(Log, old.start) \cup {old.start} /\ n \in Nat
    BY <2>0, NewOffsetType
  <2>4. n >= old.start
    BY <2>0, <2>3 DEF Ends
  <2>5. ASSUME old.saw # {} \/ ~Rotated
        PROVE  /\ Boundary(Log, n)
               /\ \A i \in (old.start + 1)..n : Log[i].last => Log[i].line \in found
    <3>1. Boundary(Log, old.start)
      BY <1>1, <2>0, <2>1, <2>5 DEF Honest, ReadHonest, GoodOffset, Boundary
    <3> QED
      BY <2>0, <2>1, <3>1, ReadIsGood
  <2> HIDE DEF n, found
  <2>6. /\ task.copy = row /\ task.saw = old.saw /\ task.start = old.start /\ task.pc = "storing"
        /\ task.events = found /\ task.newOffset = n
    BY <2>0, <2>1 DEF PollTask
  <2> HIDE DEF task
  <2>7. ReadHonest(task)
    BY <2>0, <2>1, <2>4, <2>5, <2>6 DEF ReadHonest, Found
  <2> QED
    BY <1>1, <2>0, <2>1, <2>2, <2>6, <2>7, HonestPolls
<1>7. ASSUME NEW p \in Pollers, StoreEvents(p) PROVE Honest'
  BY <1>1, <1>7, HonestStores
<1>8. ASSUME NEW p \in Pollers, ReadBroken(p) PROVE Honest'
  <2> DEFINE old == poller[p]
             task == [old EXCEPT !.pc = "storing", !.newOffset = Unknown]
  <2>0. old \in PollTask /\ old.pc = "reading"
    BY <1>8 DEF ReadBroken, TypeOK
  <2>1. ReadHonest(old) /\ old.copy = row /\ row.path = FirstPath
    BY <1>1, <2>0 DEF Honest, ReadHonest, PathInv
  <2>2. poller' = [poller EXCEPT ![p] = task] /\ UNCHANGED <<honeypot, row, stored, refresher>>
        /\ faults'.unseen = faults.unseen
    BY <1>8 DEF ReadBroken, TypeOK, Faults
  <2>3. /\ task.copy = row /\ task.pc = "storing" /\ task.start = old.start
        /\ task.saw = old.saw /\ task.newOffset = Unknown
    BY <2>0, <2>1 DEF PollTask
  <2> HIDE DEF task
  <2>4. ReadHonest(task)
    BY <2>0, <2>1, <2>3 DEF ReadHonest
  <2> QED
    BY <1>1, <2>0, <2>1, <2>2, <2>3, <2>4, HonestPolls
<1>9. ASSUME NEW p \in Pollers, PollFails(p) PROVE Honest'
  <2>1. poller' = [poller EXCEPT ![p] = NoPoll] /\ UNCHANGED <<honeypot, row, stored, refresher>>
        /\ faults'.unseen = faults.unseen /\ poller[p].pc # "idle"
    BY <1>9 DEF PollFails, TypeOK, Faults
  <2>2. NoPoll.copy.path = FirstPath /\ NoPoll.pc = "idle"
    BY DEF NoPoll
  <2> QED
    BY <1>1, <2>1, <2>2, HonestPolls
<1>10. ASSUME NEW r \in Refreshers, BeginRefresh(r) \/ Refresh(r) \/ RefreshFails(r) PROVE Honest'
  BY <1>1, <1>10, HonestRefreshes
<1>11. CASE UNCHANGED vars
  BY <1>1, <1>11 DEF Honest, PathInv, OneAtATime, ReadHonest, Rotated, Log, vars, honeypot
<1> QED
  BY <1>1, <1>2, <1>3, <1>4, <1>5, <1>6, <1>7, <1>8, <1>9, <1>10, <1>11 DEF Next, Poll

\* However polls and refreshes of a log overlap, fail and store what they read
\* late, and however it is rotated under polls that do not, no complete line
\* below the stored offset has been left out.
THEOREM NothingSkippedAlways == Spec => []NothingSkipped
<1>1. Init => TypeOK /\ WrittenInv /\ SteadyInv /\ HonestInv
  <2>1. Init => TypeOK /\ WrittenInv /\ SkipInv
    BY InitType, SkipInit
  <2>2. Init /\ SkipInv => HonestInv
    BY DEF Init, NoPoll, SkipInv, OffsetInv, HonestInv, Honest, OneAtATime, Rotated
  <2> QED
    BY <2>1, <2>2 DEF SteadyInv
<1>2. TypeOK /\ WrittenInv /\ SteadyInv /\ HonestInv /\ [Next]_vars =>
         (TypeOK /\ WrittenInv /\ SteadyInv /\ HonestInv)'
  BY TypeStep, SteadyStep, HonestStep
<1>3. TypeOK /\ SteadyInv /\ HonestInv => NothingSkipped
  <2> SUFFICES ASSUME TypeOK, SteadyInv, HonestInv, faults.moves = 0, InOrder,
                      row.offset <= Len(file[row.path])
               PROVE  StoredUpTo(file[row.path], stored, row.offset)
    BY DEF NothingSkipped, OffsetIsHonest, StoredUpTo
  <2>1. CASE faults.rotations = 0
    BY <2>1 DEF SteadyInv, Steady, SkipInv, PathInv, OffsetInv, GoodOffset, Log
  <2>2. CASE ~faults.overlapped
    <3>1. Honest /\ row.path = FirstPath /\ row.offset \in Nat
      BY <2>2 DEF HonestInv, Honest, PathInv, TypeOK, Row
    <3>2. CASE Rotated
      <4>1. row.offset = 0
        BY <3>1, <3>2 DEF Honest, Log
      <4> QED
        BY <4>1 DEF StoredUpTo
    <3>3. CASE ~Rotated
      BY <3>1, <3>3 DEF Honest, GoodOffset, Log
    <3> QED
      BY <3>2, <3>3
  <2> QED
    BY <2>1, <2>2 DEF InOrder
<1> QED
  BY <1>1, <1>2, <1>3, PTL DEF Spec

-----------------------------------------------------------------------------
(* No line is counted twice, a move to another path included *)

Taken == {l \in Lines : stored[l] > 0}

\* An event, stored or about to be, is of a line that was ended; what line is
\* being written is of no event yet.
Ended(l) == l <= written /\ (HalfWritten(file[logging]) => l # written)

\* What a read of f from the offset n would find is not among the lines s.
Unread(f, s, n) ==
    \A i \in 1..Len(f) : f[i].last /\ (i > n \/ Len(f) < n) => f[i].line \notin s

\* No line is ended twice, in one file or in two.
LinesInv ==
    /\ \A q \in Paths : q # logging => ~HalfWritten(file[q])
    /\ \A q \in Paths : \A i \in 1..Len(file[q]) : file[q][i].last => Ended(file[q][i].line)
    /\ \A q, z \in Paths : \A i \in 1..Len(file[q]), j \in 1..Len(file[z]) :
          file[q][i].last /\ file[z][j].last /\ file[q][i].line = file[z][j].line =>
             q = z /\ i = j
    /\ \A l \in Taken : Ended(l)

\* The paths in hand are the first one and, since the move, the one it went to;
\* a refresh that is alone has the row's.
MoveInv ==
    /\ faults.moves = 0 <=> logging = FirstPath
    /\ row.path \in {FirstPath, logging}
    /\ \A p \in Pollers : poller[p].copy.path \in {FirstPath, row.path}
    /\ \A r \in Refreshers :
          /\ refresher[r].copy.path \in {FirstPath, row.path}
          /\ refresher[r].path \in {FirstPath, logging}
          /\ refresher[r].pc = "saving" /\ refresher[r].copy.path # FirstPath =>
                refresher[r].path = refresher[r].copy.path
    /\ ~faults.crossed => \A r, q \in Refreshers :
          refresher[r].pc # "idle" =>
             refresher[r].copy.path = row.path /\ (refresher[q].pc # "idle" => r = q)

\* A poll reads the file of its copy from behind what was taken of it; when the
\* row has left that path, nothing of the new file has been taken yet.
ReadOnce(task) ==
    /\ IF task.copy.path = row.path THEN task.copy = row ELSE Unread(file[row.path], Taken, 0)
    /\ task.pc # "storing" \/ task.newOffset = Unknown => task.events = {}
    /\ task.pc = "connecting" => Unread(file[task.copy.path], Taken, task.copy.offset)
    /\ task.pc = "reading" => Unread(file[task.copy.path], Taken, task.start)
    /\ task.pc = "storing" /\ task.newOffset # Unknown =>
          /\ \A l \in task.events : stored[l] = 0 /\ Ended(l)
          /\ Unread(file[task.copy.path], Taken \cup task.events, task.newOffset)
          /\ \A q \in Paths : q # task.copy.path => Unread(file[q], task.events, 0)

\* Nothing behind the row's offset, and nothing of a file the row has not named
\* yet, has been taken.
RowInv ==
    /\ \A l \in Lines : stored[l] <= 1
    /\ Unread(file[row.path], Taken, row.offset)
    /\ \A q \in Paths : q \notin {FirstPath, row.path} => Unread(file[q], Taken, 0)

\* As long as polls do not overlap and OpenCanary logs to one path, or moved once.
Once ==
    /\ OneAtATime /\ LinesInv /\ MoveInv /\ RowInv
    /\ \A p \in Pollers : poller[p].pc # "idle" => ReadOnce(poller[p])

MovedOnce == ~faults.overlapped /\ faults.moves <= 1 /\ (faults.crossed => faults.moves = 0)

OnceInv == MovedOnce => Once

\* What was taken is not read by reading from further on.
LEMMA UnreadBehind ==
    ASSUME NEW f \in Seq(Byte), NEW s, NEW n \in Nat, Unread(f, s, 0)
    PROVE  Unread(f, s, n)
<1>1. Len(f) \in Nat
  OBVIOUS
<1> QED
  BY <1>1 DEF Unread

\* A byte more that is of no line taken changes nothing.
LEMMA UnreadGrows ==
    ASSUME NEW f \in Seq(Byte), NEW b \in Byte, NEW s, NEW n \in Nat,
           b.last => b.line \notin s, Unread(f, s, n)
    PROVE  Unread(Append(f, b), s, n)
<1> DEFINE g == Append(f, b)
<1>1. Len(f) \in Nat /\ Len(g) = Len(f) + 1 /\ g[Len(f) + 1] = b
      /\ \A i \in 1..Len(f) : g[i] = f[i]
  OBVIOUS
<1> HIDE DEF g
<1>2. ASSUME NEW i \in 1..Len(g), g[i].last, i > n \/ Len(g) < n PROVE g[i].line \notin s
  <2>1. CASE i = Len(f) + 1
    BY <1>1, <1>2, <2>1
  <2>2. CASE i \in 1..Len(f)
    <3>1. i > n \/ Len(f) < n
      BY <1>1, <1>2, <2>2
    <3> QED
      BY <1>1, <1>2, <2>2, <3>1 DEF Unread
  <2> QED
    BY <1>1, <2>1, <2>2
<1> QED
  BY <1>2 DEF Unread, g

\* A line is begun, or the one that was begun is ended.
LEMMA OnceGrows ==
    ASSUME TypeOK, WrittenInv, Once, BeginLine \/ EndLine
    PROVE  Once'
<1> USE ConstantsAssumption DEF ConstantsAssumption
<1> DEFINE n == Len(file[logging])
<1>0. /\ \A q \in Paths : file[q] \in Seq(Byte) /\ Len(file[q]) \in Nat
      /\ logging \in Paths /\ written \in 0..MaxLines /\ row \in Row /\ row.offset \in Nat
      /\ row.path \in Paths
  BY DEF TypeOK, Row
<1>1. PICK b \in Byte : /\ file' = [file EXCEPT ![logging] = Append(@, b)]
                        /\ \/ /\ EndLine /\ written \in Lines /\ HalfWritten(file[logging])
                              /\ b = [line |-> written, last |-> TRUE]
                           \/ BeginLine /\ b = [line |-> written + 1, last |-> FALSE]
  BY OneByteMore
<1>2. UNCHANGED <<logging, row, stored, poller, refresher, faults>> /\ written' \in Nat
      /\ Taken' = Taken
  BY <1>0 DEF BeginLine, EndLine, Taken
<1>3. /\ file'[logging] = Append(file[logging], b)
      /\ \A q \in Paths : q # logging => file'[q] = file[q]
      /\ Len(file'[logging]) = n + 1 /\ file'[logging][n + 1] = b
      /\ \A i \in 1..n : file'[logging][i] = file[logging][i]
  <2>1. /\ file'[logging] = Append(file[logging], b)
        /\ \A q \in Paths : q # logging => file'[q] = file[q]
    BY <1>0, <1>1 DEF TypeOK
  <2> QED
    BY <1>0, <2>1
<1>h. /\ HalfWritten(file[logging]) <=> n # 0 /\ ~file[logging][n].last
      /\ HalfWritten(file'[logging]) <=> ~b.last
  <2>1. HalfWritten(file[logging]) <=> n # 0 /\ ~file[logging][n].last
    BY <1>0 DEF HalfWritten
  <2>2. file'[logging] # <<>> /\ file'[logging][Len(file'[logging])] = b
    BY <1>0, <1>3
  <2> QED
    BY <2>1, <2>2 DEF HalfWritten
<1> HIDE DEF n
<1> DEFINE Later(l) == l <= written' /\ (HalfWritten(file'[logging]) => l # written')
<1>l. \A l : Ended(l)' <=> Later(l)
  BY <1>2 DEF Ended
<1>4. /\ \A l \in Lines : Ended(l) => Later(l)
      /\ written <= written' /\ b.line \in Lines
      /\ b.last => Later(b.line) /\ ~Ended(b.line)
  <2>1. CASE EndLine /\ b = [line |-> written, last |-> TRUE] /\ written \in Lines
             /\ HalfWritten(file[logging])
    BY <1>0, <1>h, <1>2, <2>1 DEF Ended, EndLine, Lines
  <2>2. CASE BeginLine /\ b = [line |-> written + 1, last |-> FALSE]
    BY <1>0, <1>h, <1>2, <2>2 DEF Ended, BeginLine, Lines, Byte
  <2> QED
    BY <1>1, <2>1, <2>2
<1>5. b.last => b.line \notin Taken
  BY <1>4 DEF Once, LinesInv
<1>6. ASSUME NEW q \in Paths, NEW s \in SUBSET Lines, NEW k \in Nat,
             b.last => b.line \notin s, Unread(file[q], s, k)
      PROVE  Unread(file'[q], s, k)
  BY <1>0, <1>3, <1>6, UnreadGrows
<1> HIDE DEF Later
<1>7. \A q \in Paths : \A i \in 1..Len(file'[q]) :
         \/ i \in 1..Len(file[q]) /\ file'[q][i] = file[q][i]
         \/ q = logging /\ i = n + 1 /\ file'[q][i] = b
  BY <1>0, <1>3 DEF n
<1>8. \A q \in Paths : \A i \in 1..Len(file[q]) : file[q][i].line \in Lines
  <2>1. \A q \in Paths : \A i \in 1..Len(file[q]) : file[q][i] \in Byte
    BY <1>0
  <2> QED
    BY <2>1 DEF Byte
<1>9. LinesInv'
  <2>1. \A q \in Paths : q # logging => ~HalfWritten(file'[q])
    BY <1>3 DEF Once, LinesInv
  <2>2. ASSUME NEW q \in Paths, NEW i \in 1..Len(file'[q]), file'[q][i].last
        PROVE  Later(file'[q][i].line)
    <3>2. CASE i \in 1..Len(file[q]) /\ file'[q][i] = file[q][i]
      BY <1>4, <1>8, <2>2, <3>2 DEF Once, LinesInv
    <3>3. CASE q = logging /\ i = n + 1 /\ file'[q][i] = b
      BY <1>4, <2>2, <3>3
    <3> QED
      BY <1>7, <3>2, <3>3
  <2>3. ASSUME NEW q \in Paths, NEW z \in Paths,
               NEW i \in 1..Len(file'[q]), NEW j \in 1..Len(file'[z]),
               file'[q][i].last, file'[z][j].last, file'[q][i].line = file'[z][j].line
        PROVE  q = z /\ i = j
    <3>1. \A y \in Paths : \A k \in 1..Len(file[y]) :
             file[y][k].last /\ b.last => file[y][k].line # b.line
      BY <1>4 DEF Once, LinesInv
    <3>2. CASE i \in 1..Len(file[q]) /\ file'[q][i] = file[q][i]
               /\ j \in 1..Len(file[z]) /\ file'[z][j] = file[z][j]
      BY <2>3, <3>2 DEF Once, LinesInv
    <3>3. CASE q = logging /\ i = n + 1 /\ file'[q][i] = b
               /\ z = logging /\ j = n + 1 /\ file'[z][j] = b
      BY <3>3
    <3>4. CASE i \in 1..Len(file[q]) /\ file'[q][i] = file[q][i] /\ file'[z][j] = b
      BY <2>3, <3>1, <3>4
    <3>5. CASE j \in 1..Len(file[z]) /\ file'[z][j] = file[z][j] /\ file'[q][i] = b
      BY <2>3, <3>1, <3>5
    <3> QED
      BY <1>7, <3>2, <3>3, <3>4, <3>5
  <2>4. \A l \in Taken : Later(l)
    BY <1>4 DEF Once, LinesInv, Taken
  <2> QED
    BY <1>2, <1>l, <2>1, <2>2, <2>3, <2>4 DEF LinesInv
<1>10. RowInv'
  <2>1. Taken \in SUBSET Lines /\ 0 \in Nat
    BY DEF Taken
  <2>2. Unread(file'[row.path], Taken, row.offset)
    BY <1>0, <1>5, <1>6, <2>1 DEF Once, RowInv
  <2>3. \A q \in Paths : q \notin {FirstPath, row.path} => Unread(file'[q], Taken, 0)
    BY <1>5, <1>6, <2>1 DEF Once, RowInv
  <2> QED
    BY <1>2, <2>2, <2>3 DEF Once, RowInv
<1>11. ASSUME NEW p \in Pollers, poller[p].pc # "idle" PROVE ReadOnce(poller[p])'
  <2> DEFINE task == poller[p]
  <2>1. /\ ReadOnce(task) /\ task.events \in SUBSET Lines /\ task.copy.path \in Paths
        /\ task.copy.offset \in Nat /\ task.start \in Nat /\ task.newOffset \in Nat \cup {Unknown}
        /\ Taken \in SUBSET Lines /\ 0 \in Nat
    BY <1>11 DEF Once, TypeOK, PollTask, Row, Taken
  <2> HIDE DEF task
  <2>2. task.copy.path # row.path => Unread(file'[row.path], Taken, 0)
    BY <1>0, <1>5, <1>6, <2>1 DEF ReadOnce
  <2>3. /\ task.pc = "connecting" => Unread(file'[task.copy.path], Taken, task.copy.offset)
        /\ task.pc = "reading" => Unread(file'[task.copy.path], Taken, task.start)
    BY <1>5, <1>6, <2>1 DEF ReadOnce
  <2>4. ASSUME task.pc = "storing", task.newOffset # Unknown
        PROVE  /\ \A l \in task.events : stored[l] = 0 /\ Later(l)
               /\ Unread(file'[task.copy.path], Taken \cup task.events, task.newOffset)
               /\ \A q \in Paths : q # task.copy.path => Unread(file'[q], task.events, 0)
    <3>1. /\ \A l \in task.events : stored[l] = 0 /\ Ended(l)
          /\ b.last => b.line \notin task.events
          /\ Taken \cup task.events \in SUBSET Lines
          /\ b.last => b.line \notin Taken \cup task.events
      BY <1>4, <1>5, <2>1, <2>4 DEF ReadOnce
    <3>2. Unread(file'[task.copy.path], Taken \cup task.events, task.newOffset)
      BY <1>6, <2>1, <2>4, <3>1 DEF ReadOnce
    <3>3. \A q \in Paths : q # task.copy.path => Unread(file'[q], task.events, 0)
      BY <1>6, <2>1, <2>4, <3>1 DEF ReadOnce
    <3>4. \A l \in task.events : Later(l)
      BY <1>4, <2>1, <3>1
    <3> QED
      BY <3>1, <3>2, <3>3, <3>4
  <2>5. poller'[p] = task
    BY <1>2 DEF task
  <2> QED
    BY <1>2, <1>l, <2>1, <2>2, <2>3, <2>4, <2>5 DEF ReadOnce
<1>12. OneAtATime' /\ MoveInv'
  BY <1>2 DEF Once, OneAtATime, MoveInv
<1> QED
  BY <1>2, <1>9, <1>10, <1>11, <1>12 DEF Once

\* The log is rotated: whatever was in it cannot be read any more.
LEMMA OnceRotates == ASSUME TypeOK, Once, Rotate PROVE Once'
<1>1. /\ file' = [file EXCEPT ![logging] = <<>>] /\ ~HalfWritten(file[logging])
      /\ UNCHANGED <<logging, written, row, stored, poller, refresher>>
      /\ faults'.moves = faults.moves /\ faults'.crossed = faults.crossed
  BY DEF Rotate, TypeOK, Faults
<1>2. /\ \A q \in Paths : file'[q] = IF q = logging THEN <<>> ELSE file[q]
      /\ file'[logging] = <<>> /\ Len(<<>>) = 0 /\ 1..0 = {} /\ logging \in Paths
  BY <1>1 DEF TypeOK
<1>3. ~HalfWritten(file'[logging])
  BY <1>2 DEF HalfWritten
<1>4. \A l : Ended(l)' <=> Ended(l)
  BY <1>1, <1>3 DEF Ended
<1>5. \A q \in Paths : \A i \in 1..Len(file'[q]) :
         i \in 1..Len(file[q]) /\ file'[q][i] = file[q][i]
  BY <1>2
<1>6. ASSUME NEW q \in Paths, NEW s, NEW n, Unread(file[q], s, n) PROVE Unread(file'[q], s, n)
  <2>1. CASE q = logging
    BY <1>2, <2>1 DEF Unread
  <2>2. CASE q # logging
    BY <1>2, <1>6, <2>2
  <2> QED
    BY <2>1, <2>2
<1>7. Taken' = Taken /\ row.path \in Paths
  BY <1>1 DEF Taken, TypeOK, Row
<1>8. LinesInv'
  <2>1. \A q \in Paths : q # logging' => ~HalfWritten(file'[q])
    BY <1>1, <1>2 DEF Once, LinesInv
  <2>2. \A q \in Paths : \A i \in 1..Len(file'[q]) : file'[q][i].last => Ended(file[q][i].line)'
    BY <1>4, <1>5 DEF Once, LinesInv
  <2>3. ASSUME NEW q \in Paths, NEW z \in Paths,
               NEW i \in 1..Len(file'[q]), NEW j \in 1..Len(file'[z]),
               file'[q][i].last, file'[z][j].last, file'[q][i].line = file'[z][j].line
        PROVE  q = z /\ i = j
    <3>1. /\ i \in 1..Len(file[q]) /\ file'[q][i] = file[q][i]
          /\ j \in 1..Len(file[z]) /\ file'[z][j] = file[z][j]
      BY <1>5, <2>3
    <3> QED
      BY <2>3, <3>1 DEF Once, LinesInv
  <2>4. \A l \in Taken' : Ended(l)'
    BY <1>4, <1>7 DEF Once, LinesInv
  <2> QED
    BY <1>4, <1>5, <2>1, <2>2, <2>3, <2>4 DEF LinesInv
<1>9. RowInv'
  BY <1>1, <1>6, <1>7 DEF Once, RowInv
<1>10. OneAtATime' /\ MoveInv'
  BY <1>1 DEF Once, OneAtATime, MoveInv
<1>11. ASSUME NEW p \in Pollers, poller[p].pc # "idle" PROVE ReadOnce(poller[p])'
  <2>1. ReadOnce(poller[p]) /\ poller[p].copy.path \in Paths
    BY <1>11 DEF Once, TypeOK, PollTask, Row
  <2> QED
    BY <1>1, <1>4, <1>6, <1>7, <2>1 DEF ReadOnce
<1> QED
  BY <1>1, <1>8, <1>9, <1>10, <1>11 DEF Once

\* OpenCanary moves: nothing of the file it goes to has been read.
LEMMA OnceMoves ==
    ASSUME TypeOK, Once, NEW q \in Paths, Move(q), faults.moves = 0, faults'.moves = 1
    PROVE  Once'
<1>1. /\ logging = FirstPath /\ logging' = q /\ q # FirstPath /\ ~HalfWritten(file[logging])
      /\ UNCHANGED <<file, written, row, stored, poller, refresher>>
      /\ faults'.crossed = faults.crossed
  BY DEF Move, Once, MoveInv, TypeOK, Faults
<1>2. \A z \in Paths : ~HalfWritten(file[z])
  BY <1>1 DEF Once, LinesInv
<1>3. \A l : Ended(l)' <=> Ended(l)
  BY <1>1, <1>2 DEF Ended
<1>4. Taken' = Taken
  BY <1>1 DEF Taken
<1>5. LinesInv'
  BY <1>1, <1>2, <1>3, <1>4 DEF Once, LinesInv
<1>6. MoveInv'
  BY <1>1 DEF Once, MoveInv
<1>7. RowInv' /\ OneAtATime'
  BY <1>1, <1>4 DEF Once, RowInv, OneAtATime
<1>8. ASSUME NEW p \in Pollers, poller[p].pc # "idle" PROVE ReadOnce(poller[p])'
  BY <1>1, <1>3, <1>4, <1>8 DEF Once, ReadOnce
<1> QED
  BY <1>1, <1>5, <1>6, <1>7, <1>8 DEF Once

\* A step of one poll that stores nothing.
LEMMA OncePolls ==
    ASSUME TypeOK, Once, NEW p \in Pollers, NEW task, poller' = [poller EXCEPT ![p] = task],
           UNCHANGED <<honeypot, row, stored, refresher>>,
           faults'.moves = faults.moves, faults'.crossed = faults.crossed,
           poller[p].pc # "idle" \/ \A q \in Pollers : poller[q].pc = "idle",
           task.copy.path \in {FirstPath, row.path}, task.pc # "idle" => ReadOnce(task)
    PROVE  Once'
<1>1. /\ UNCHANGED <<file, logging, written>> /\ Taken' = Taken
      /\ \A q \in Pollers : poller'[q] = IF q = p THEN task ELSE poller[q]
      /\ \A l : Ended(l)' <=> Ended(l)
  BY DEF honeypot, TypeOK, Ended, Taken
<1>2. OneAtATime' /\ LinesInv' /\ MoveInv' /\ RowInv'
  <2>1. LinesInv' /\ RowInv'
    BY <1>1 DEF Once, LinesInv, RowInv
  <2>2. OneAtATime' /\ MoveInv'
    BY <1>1 DEF Once, OneAtATime, MoveInv
  <2> QED
    BY <2>1, <2>2
<1>3. ASSUME NEW q \in Pollers, poller'[q].pc # "idle" PROVE ReadOnce(poller[q])'
  <2>1. ReadOnce(IF q = p THEN task ELSE poller[q])
    BY <1>1, <1>3 DEF Once
  <2> QED
    BY <1>1, <2>1 DEF ReadOnce
<1> QED
  BY <1>2, <1>3 DEF Once

\* Where the new offset stands.
LEMMA NewOffsetStands ==
    ASSUME NEW f \in Seq(Byte), NEW start \in Nat
    PROVE  LET n == NewOffset(f, start) IN
           /\ n \in Nat /\ n >= start
           /\ n = start \/ n <= Len(f)
           /\ \A i \in (n + 1)..Len(f) : ~f[i].last
<1> DEFINE n == NewOffset(f, start)
           S == Ends(f, start) \cup {start}
<1>0. Len(f) \in Nat
  OBVIOUS
<1>1. n \in S /\ n \in Nat
  BY NewOffsetType
<1>2. \E m \in S : \A i \in S : i <= m
  <2>1. S \subseteq Nat /\ S # {} /\ \A i \in S : i <= Len(f) + start
    BY <1>0 DEF Ends
  <2>2. Len(f) + start \in Nat
    BY <1>0
  <2> HIDE DEF S
  <2> QED
    BY <2>1, <2>2, GreatestExists
<1>3. \A i \in Ends(f, start) : i <= n
  BY <1>2 DEF NewOffset
<1>4. n >= start /\ (n = start \/ n <= Len(f))
  BY <1>0, <1>1 DEF Ends
<1>5. ASSUME NEW i \in (n + 1)..Len(f), f[i].last PROVE FALSE
  <2>1. i \in Ends(f, start)
    BY <1>0, <1>1, <1>4, <1>5 DEF Ends
  <2> QED
    BY <1>1, <1>3, <2>1
<1> QED
  BY <1>1, <1>4, <1>5

\* What a read finds behind the offset has not been taken, is in no other file,
\* and is not found again from the new offset on.
LEMMA OnceReads == ASSUME TypeOK, Once, NEW p \in Pollers, ReadNew(p) PROVE Once'
<1> USE ConstantsAssumption DEF ConstantsAssumption
<1> DEFINE old == poller[p]
           f == file[old.copy.path]
           n == NewOffset(f, old.start)
           found == Events(f, old.start)
           task == [old EXCEPT !.pc = "storing", !.events = found, !.newOffset = n]
<1>0. /\ old.copy.path \in Paths /\ f \in Seq(Byte) /\ Len(f) \in Nat /\ old \in PollTask
      /\ old.start \in Nat /\ old.pc = "reading"
  BY DEF ReadNew, TypeOK, PollTask, Row
<1>1. ReadOnce(old) /\ Unread(f, Taken, old.start)
  BY <1>0 DEF Once, ReadOnce
<1>2. /\ poller' = [poller EXCEPT ![p] = task]
      /\ UNCHANGED <<honeypot, row, stored, refresher, faults>>
  BY DEF ReadNew, TypeOK
<1>3. /\ task.copy = old.copy /\ task.pc = "storing" /\ task.events = found /\ task.newOffset = n
  BY <1>0 DEF PollTask
<1>4. /\ n \in Nat /\ n >= old.start /\ (n = old.start \/ n <= Len(f))
      /\ \A i \in (n + 1)..Len(f) : ~f[i].last
  BY <1>0, NewOffsetStands
<1>5. n # Unknown
  <2> HIDE DEF n
  <2> QED
    BY <1>4 DEF Unknown
<1>6. \A l \in found : \E i \in 1..Len(f) : i > old.start /\ f[i].last /\ l = f[i].line
  BY <1>0 DEF Events, Ends
<1>7. found \in SUBSET Lines
  BY <1>0, EventsType
<1> HIDE DEF task, n, found
<1>8. ASSUME NEW l \in found PROVE stored[l] = 0 /\ Ended(l)
  <2>1. PICK i \in 1..Len(f) : i > old.start /\ f[i].last /\ l = f[i].line
    BY <1>6
  <2>2. l \notin Taken /\ l \in Lines
    BY <1>1, <1>7, <2>1 DEF Unread
  <2> QED
    BY <1>0, <2>1, <2>2 DEF Once, LinesInv, Taken, TypeOK
<1>9. Unread(f, Taken \cup found, n)
  <2> SUFFICES ASSUME NEW i \in 1..Len(f), f[i].last, i > n \/ Len(f) < n
               PROVE  f[i].line \notin Taken \cup found
    BY DEF Unread
  <2>1. n = old.start /\ Len(f) < n
    BY <1>0, <1>4
  <2>2. found = {}
    BY <1>0, <1>6, <2>1
  <2> QED
    BY <1>1, <2>1, <2>2 DEF Unread
<1>10. ASSUME NEW q \in Paths, q # old.copy.path PROVE Unread(file[q], found, 0)
  BY <1>0, <1>6, <1>10 DEF Once, LinesInv, Unread
<1>11. ReadOnce(task)
  BY <1>0, <1>1, <1>3, <1>5, <1>8, <1>9, <1>10 DEF ReadOnce
<1> QED
  BY <1>0, <1>2, <1>3, <1>11, OncePolls DEF Once, MoveInv

\* The lines found are taken once, and the offset moves behind them; a poll that
\* finds the row gone to another path leaves an offset no line there minds.
LEMMA OnceStores == ASSUME TypeOK, Once, NEW p \in Pollers, StoreEvents(p) PROVE Once'
<1> USE ConstantsAssumption DEF ConstantsAssumption
<1> DEFINE task == poller[p]
<1>0. /\ task \in PollTask /\ task.pc = "storing" /\ row.offset \in Nat /\ row.path \in Paths
      /\ task.events \subseteq Lines /\ row \in Row /\ task.copy.path \in Paths
      /\ task.newOffset \in Nat \cup {Unknown} /\ Unknown \notin Nat
      /\ \A q \in Paths : file[q] \in Seq(Byte)
  BY DEF StoreEvents, TypeOK, PollTask, Row, Unknown
<1>1. ReadOnce(task)
  BY <1>0 DEF Once
<1>2. /\ poller' = [poller EXCEPT ![p] = NoPoll] /\ UNCHANGED <<file, logging, written, refresher>>
      /\ stored' = [l \in Lines |-> IF l \in task.events THEN stored[l] + 1 ELSE stored[l]]
      /\ row'.path = row.path /\ row'.offset = OffsetAfter(p)
      /\ faults'.moves = faults.moves /\ faults'.crossed = faults.crossed
  BY <1>0 DEF StoreEvents, honeypot, Row, TypeOK, Faults
<1>3. \A q \in Pollers : poller'[q].pc = "idle"
  BY <1>0, <1>2 DEF Once, OneAtATime, NoPoll, TypeOK
<1>4. \A l : Ended(l)' <=> Ended(l)
  BY <1>2 DEF Ended
<1>5. \A l \in task.events : stored[l] = 0 /\ Ended(l)
  BY <1>0, <1>1 DEF ReadOnce
<1>6. /\ \A l \in Lines : stored[l] \in Nat /\ stored[l] <= 1
      /\ \A l \in Taken : Ended(l)
  BY DEF TypeOK, Once, RowInv, LinesInv
<1>7. \A l \in Lines : stored'[l] <= 1 /\ (stored'[l] > 0 <=> stored[l] > 0 \/ l \in task.events)
  BY <1>0, <1>2, <1>5, <1>6
<1>8. Taken' = Taken \cup task.events
  BY <1>0, <1>7 DEF Taken
<1>9. LinesInv' /\ OneAtATime'
  BY <1>2, <1>3, <1>4, <1>5, <1>6, <1>8 DEF Once, LinesInv, OneAtATime
<1>10. MoveInv'
  <2>1. \A q \in Pollers : poller'[q].copy.path \in {FirstPath, row.path}
    BY <1>2 DEF Once, MoveInv, NoPoll, TypeOK
  <2> QED
    BY <1>2, <2>1 DEF Once, MoveInv
<1>11. ASSUME NEW q \in Paths, Unread(file[q], Taken, 0), q # task.copy.path
       PROVE  Unread(file[q], Taken', 0)
  <2>1. Unread(file[q], task.events, 0)
    BY <1>0, <1>1, <1>11 DEF ReadOnce, Unread
  <2> QED
    BY <1>8, <1>11, <2>1 DEF Unread
<1>12. RowInv'
  <2>1. OffsetAfter(p) \in Nat
    BY <1>0 DEF OffsetAfter
  <2>2. CASE task.copy.path # row.path
    <3>1. Unread(file[row.path], Taken', 0)
      BY <1>0, <1>1, <1>11, <2>2 DEF ReadOnce
    <3>2. Unread(file[row.path], Taken', OffsetAfter(p))
      BY <1>0, <2>1, <3>1, UnreadBehind
    <3>3. \A q \in Paths : q \notin {FirstPath, row.path} => Unread(file[q], Taken', 0)
      BY <1>11, <2>2 DEF Once, RowInv, MoveInv
    <3> QED
      BY <1>2, <1>7, <3>2, <3>3 DEF RowInv
  <2>3. CASE task.copy.path = row.path
    <3>1. task.copy = row
      BY <1>1, <2>3 DEF ReadOnce
    <3>2. Unread(file[row.path], Taken', OffsetAfter(p))
      <4>1. CASE task.newOffset = Unknown
        BY <1>1, <1>8, <4>1 DEF ReadOnce, OffsetAfter, Once, RowInv
      <4>2. CASE task.newOffset # Unknown
        <5>1. OffsetAfter(p) = task.newOffset
          BY <3>1, <4>2 DEF OffsetAfter
        <5> QED
          BY <1>0, <1>1, <1>8, <2>3, <4>2, <5>1 DEF ReadOnce
      <4> QED
        BY <4>1, <4>2
    <3>3. \A q \in Paths : q \notin {FirstPath, row.path} => Unread(file[q], Taken', 0)
      BY <1>11, <2>3 DEF Once, RowInv
    <3> QED
      BY <1>2, <1>7, <3>2, <3>3 DEF RowInv
  <2> QED
    BY <2>2, <2>3
<1> QED
  BY <1>3, <1>9, <1>10, <1>12 DEF Once

\* A refresh that starts or finds the path.
LEMMA OnceLooks ==
    ASSUME TypeOK, Once, MovedOnce', NEW r \in Refreshers,
           BeginRefresh(r) \/ GatherFacts(r) \/ RefreshFails(r)
    PROVE  Once'
<1>0. faults \in Faults /\ refresher \in [Refreshers -> RefreshTask]
  BY DEF TypeOK
<1>1. UNCHANGED <<honeypot, row, stored, poller>> /\ faults'.moves = faults.moves
  BY <1>0 DEF BeginRefresh, GatherFacts, RefreshFails, Faults
<1>2. Taken' = Taken /\ \A l : Ended(l)' <=> Ended(l)
  BY <1>1 DEF Taken, Ended, honeypot
<1>3. OneAtATime' /\ LinesInv' /\ RowInv' /\ \A p \in Pollers : poller'[p].pc # "idle" =>
         ReadOnce(poller[p])'
  <2>1. OneAtATime' /\ LinesInv' /\ RowInv'
    BY <1>1, <1>2 DEF Once, OneAtATime, LinesInv, RowInv, honeypot
  <2>2. ASSUME NEW p \in Pollers, poller'[p].pc # "idle" PROVE ReadOnce(poller[p])'
    BY <1>1, <1>2, <2>2 DEF Once, ReadOnce, honeypot
  <2> QED
    BY <2>1, <2>2
<1>4. MoveInv'
  <2> DEFINE Known(t) == /\ t.copy.path \in {FirstPath, row.path}
                         /\ t.path \in {FirstPath, logging}
                         /\ t.pc = "saving" /\ t.copy.path # FirstPath => t.path = t.copy.path
             Alone == \A z, q \in Refreshers :
                         refresher[z].pc # "idle" =>
                            refresher[z].copy.path = row.path /\ (refresher[q].pc # "idle" => z = q)
  <2>0. /\ \A z \in Refreshers : Known(refresher[z])
        /\ ~faults.crossed => Alone
        /\ row.path \in {FirstPath, logging}
    BY DEF Once, MoveInv
  <2>1. CASE BeginRefresh(r)
    <3> DEFINE task == [NoRefresh EXCEPT !.pc = "gathering", !.copy = row]
    <3>1. task.pc = "gathering" /\ task.copy = row /\ task.path = FirstPath
      BY DEF NoRefresh
    <3>2. /\ \A z \in Refreshers : refresher'[z] = IF z = r THEN task ELSE refresher[z]
          /\ ~faults'.crossed => ~faults.crossed /\ \A q \in Refreshers : refresher[q].pc = "idle"
      BY <1>0, <2>1 DEF BeginRefresh, Faults
    <3> HIDE DEF task
    <3>3. \A z \in Refreshers : Known(refresher'[z])
      BY <2>0, <3>1, <3>2
    <3>4. ~faults'.crossed => Alone'
      BY <1>1, <3>1, <3>2
    <3> QED
      BY <1>1, <3>3, <3>4 DEF Once, MoveInv, honeypot
  <2>2. CASE GatherFacts(r)
    <3> DEFINE task == [refresher[r] EXCEPT !.pc = "saving", !.path = logging]
    <3>1. /\ task.pc = "saving" /\ task.copy = refresher[r].copy /\ task.path = logging
          /\ refresher[r].pc = "gathering"
      BY <1>0, <2>2 DEF RefreshTask, GatherFacts
    <3>2. /\ \A z \in Refreshers : refresher'[z] = IF z = r THEN task ELSE refresher[z]
          /\ faults'.crossed = faults.crossed
      BY <1>0, <2>2 DEF GatherFacts
    <3> HIDE DEF task
    <3>3. \A z \in Refreshers : Known(refresher'[z])
      BY <2>0, <3>1, <3>2
    <3>4. ~faults'.crossed => Alone'
      BY <1>1, <2>0, <3>1, <3>2
    <3> QED
      BY <1>1, <3>3, <3>4 DEF Once, MoveInv, honeypot
  <2>3. CASE RefreshFails(r)
    <3>1. NoRefresh.pc = "idle" /\ Known(NoRefresh)
      BY DEF NoRefresh
    <3>2. /\ \A z \in Refreshers : refresher'[z] = IF z = r THEN NoRefresh ELSE refresher[z]
          /\ faults'.crossed = faults.crossed
      BY <1>0, <2>3 DEF RefreshFails, Faults
    <3>3. \A z \in Refreshers : Known(refresher'[z])
      BY <2>0, <3>1, <3>2
    <3>4. ~faults'.crossed => Alone'
      BY <1>1, <2>0, <3>1, <3>2
    <3> QED
      BY <1>1, <3>3, <3>4 DEF Once, MoveInv, honeypot
  <2> QED
    BY <2>1, <2>2, <2>3
<1> QED
  BY <1>1, <1>3, <1>4 DEF Once

\* The one refresh since the move takes the row to the new path, of which
\* nothing has been read: whatever offset it leaves there, no line is below it.
LEMMA OnceSaves ==
    ASSUME TypeOK, Once, MovedOnce, NEW r \in Refreshers, SaveFacts(r)
    PROVE  Once'
<1> DEFINE new == refresher[r].path
<1>0. /\ refresher \in [Refreshers -> RefreshTask] /\ row \in Row /\ RowAfter(r) \in Row
      /\ row.path \in Paths /\ new \in Paths /\ \A q \in Paths : file[q] \in Seq(Byte)
  BY DEF TypeOK, RefreshTask, Row, RowAfter
<1>1. /\ UNCHANGED <<honeypot, stored, poller, faults>> /\ row' = RowAfter(r)
      /\ \A z \in Refreshers : refresher'[z] = IF z = r THEN NoRefresh ELSE refresher[z]
      /\ refresher[r].pc = "saving" /\ NoRefresh.pc = "idle"
      /\ NoRefresh.copy.path = FirstPath /\ NoRefresh.path = FirstPath
  BY <1>0 DEF SaveFacts, NoRefresh
<1>2. Taken' = Taken /\ (\A l : Ended(l)' <=> Ended(l)) /\ LinesInv' /\ OneAtATime'
  <2>1. Taken' = Taken /\ (\A l : Ended(l)' <=> Ended(l))
    BY <1>1 DEF Taken, Ended, honeypot
  <2> QED
    BY <1>1, <2>1 DEF Once, LinesInv, OneAtATime, honeypot
<1>3. CASE row' = row
  <2>1. MoveInv'
    BY <1>1, <1>3 DEF Once, MoveInv, honeypot
  <2>2. RowInv' /\ \A p \in Pollers : poller'[p].pc # "idle" => ReadOnce(poller[p])'
    BY <1>1, <1>2, <1>3 DEF Once, RowInv, ReadOnce, honeypot
  <2> QED
    BY <1>2, <2>1, <2>2 DEF Once
<1>4. CASE row' # row
  <2>1. /\ new # refresher[r].copy.path /\ new = logging /\ refresher[r].copy.path = FirstPath
        /\ row'.path = new
    BY <1>1, <1>4 DEF RowAfter, Once, MoveInv
  <2>2. /\ faults.moves # 0 /\ ~faults.crossed /\ row.path = FirstPath
        /\ \A z \in Refreshers : z # r => refresher[z].pc = "idle"
    BY <1>1, <2>1 DEF Once, MoveInv, MovedOnce
  <2>3. \A z \in Refreshers : refresher'[z].pc = "idle" /\ refresher'[z].copy.path = FirstPath
                              /\ refresher'[z].path \in {FirstPath, logging}
    BY <1>1, <2>2 DEF Once, MoveInv
  <2>4. MoveInv'
    BY <1>1, <2>1, <2>2, <2>3 DEF Once, MoveInv, honeypot
  <2>5. Unread(file[new], Taken, 0)
    BY <1>0, <2>1, <2>2 DEF Once, RowInv
  <2>6. RowInv'
    <3>1. row'.offset \in Nat
      BY <1>0, <1>1 DEF Row
    <3>2. Unread(file[new], Taken, row'.offset)
      BY <1>0, <2>5, <3>1, UnreadBehind
    <3> QED
      BY <1>1, <1>2, <2>1, <2>2, <3>2 DEF Once, RowInv, honeypot
  <2>7. ASSUME NEW p \in Pollers, poller[p].pc # "idle" PROVE ReadOnce(poller[p])'
    <3>1. ReadOnce(poller[p]) /\ poller[p].copy.path = FirstPath /\ new # FirstPath
      BY <2>1, <2>2, <2>7 DEF Once, MoveInv
    <3> QED
      BY <1>1, <1>2, <2>1, <2>5, <3>1 DEF ReadOnce, honeypot
  <2> QED
    BY <1>1, <1>2, <2>4, <2>6, <2>7 DEF Once
<1> QED
  BY <1>3, <1>4

LEMMA OnceStep == TypeOK /\ WrittenInv /\ OnceInv /\ [Next]_vars => OnceInv'
<1> SUFFICES ASSUME TypeOK, WrittenInv, OnceInv, [Next]_vars, MovedOnce' PROVE Once'
  BY DEF OnceInv
<1>1. /\ MovedOnce /\ Once
      /\ \A q \in Paths : Move(q) => faults.moves = 0 /\ faults'.moves = 1
  BY FaultsGrow DEF MovedOnce, OnceInv
<1>2. CASE EndLine \/ BeginLine
  BY <1>1, <1>2, OnceGrows
<1>3. CASE Rotate
  BY <1>1, <1>3, OnceRotates
<1>4. ASSUME NEW q \in Paths, Move(q) PROVE Once'
  BY <1>1, <1>4, OnceMoves
<1>5. ASSUME NEW p \in Pollers, BeginPoll(p) PROVE Once'
  <2> DEFINE task == [NoPoll EXCEPT !.pc = "connecting", !.copy = row]
  <2>1. /\ faults'.moves = faults.moves /\ faults'.crossed = faults.crossed
        /\ \A q \in Pollers : poller[q].pc = "idle"
    BY <1>5 DEF BeginPoll, TypeOK, Faults, MovedOnce
  <2>2. task.copy.path = row.path /\ ReadOnce(task)
    <3>1. task.pc = "connecting" /\ task.copy = row /\ task.events = {}
      BY DEF NoPoll
    <3> HIDE DEF task
    <3> QED
      BY <1>1, <3>1 DEF ReadOnce, Once, RowInv
  <2>3. poller' = [poller EXCEPT ![p] = task] /\ UNCHANGED <<honeypot, row, stored, refresher>>
    BY <1>5 DEF BeginPoll
  <2> HIDE DEF task
  <2> QED
    BY <1>1, <2>1, <2>2, <2>3, OncePolls
<1>6. ASSUME NEW p \in Pollers, Stat(p) PROVE Once'
  <2> DEFINE old == poller[p]
             f == file[old.copy.path]
             start == StartOf(Len(f), old.copy.offset)
             task == [old EXCEPT !.pc = "reading", !.start = start,
                                 !.saw = {old.copy.path} \cap faults.unseen]
  <2>0. /\ old \in PollTask /\ old.pc = "connecting" /\ old.copy.offset \in Nat
        /\ old.copy.path \in Paths /\ f \in Seq(Byte) /\ Len(f) \in Nat
    BY <1>6, ConstantsAssumption DEF ConstantsAssumption, Stat, TypeOK, PollTask, Row
  <2>1. ReadOnce(old) /\ old.copy.path \in {FirstPath, row.path}
    BY <1>1, <2>0 DEF Once, MoveInv
  <2>2. poller' = [poller EXCEPT ![p] = task] /\ UNCHANGED <<honeypot, row, stored, refresher, faults>>
    BY <1>6 DEF Stat, TypeOK
  <2>3. /\ task.copy = old.copy /\ task.pc = "reading" /\ task.start = start
        /\ task.events = old.events
    BY <2>0 DEF PollTask
  <2>4. Unread(f, Taken, start)
    BY <2>0, <2>1 DEF ReadOnce, StartOf, Unread
  <2> HIDE DEF task, start
  <2>5. ReadOnce(task)
    BY <2>0, <2>1, <2>3, <2>4 DEF ReadOnce
  <2> QED
    BY <1>1, <2>0, <2>1, <2>2, <2>3, <2>5, OncePolls
<1>7. ASSUME NEW p \in Pollers, ReadNew(p) PROVE Once'
  BY <1>1, <1>7, OnceReads
<1>8. ASSUME NEW p \in Pollers, StoreEvents(p) PROVE Once'
  BY <1>1, <1>8, OnceStores
<1>9. ASSUME NEW p \in Pollers, ReadBroken(p) PROVE Once'
  <2> DEFINE old == poller[p]
             task == [old EXCEPT !.pc = "storing", !.newOffset = Unknown]
  <2>0. old \in PollTask /\ old.pc = "reading"
    BY <1>9 DEF ReadBroken, TypeOK
  <2>1. ReadOnce(old) /\ old.copy.path \in {FirstPath, row.path}
    BY <1>1, <2>0 DEF Once, MoveInv
  <2>2. poller' = [poller EXCEPT ![p] = task] /\ UNCHANGED <<honeypot, row, stored, refresher>>
        /\ faults'.moves = faults.moves /\ faults'.crossed = faults.crossed
    BY <1>9 DEF ReadBroken, TypeOK, Faults
  <2>3. /\ task.copy = old.copy /\ task.events = old.events /\ task.pc = "storing"
        /\ task.newOffset = Unknown
    BY <2>0 DEF PollTask
  <2> HIDE DEF task
  <2>4. ReadOnce(task)
    BY <2>0, <2>1, <2>3 DEF ReadOnce
  <2> QED
    BY <1>1, <2>0, <2>1, <2>2, <2>3, <2>4, OncePolls
<1>10. ASSUME NEW p \in Pollers, PollFails(p) PROVE Once'
  <2>1. poller' = [poller EXCEPT ![p] = NoPoll] /\ UNCHANGED <<honeypot, row, stored, refresher>>
        /\ faults'.moves = faults.moves /\ faults'.crossed = faults.crossed
        /\ poller[p].pc # "idle"
    BY <1>10 DEF PollFails, TypeOK, Faults
  <2>2. NoPoll.copy.path = FirstPath /\ NoPoll.pc = "idle"
    BY DEF NoPoll
  <2> QED
    BY <1>1, <2>1, <2>2, OncePolls
<1>11. ASSUME NEW r \in Refreshers, BeginRefresh(r) \/ Refresh(r) \/ RefreshFails(r) PROVE Once'
  BY <1>1, <1>11, OnceLooks, OnceSaves DEF Refresh
<1>12. CASE UNCHANGED vars
  <2>1. Taken' = Taken /\ \A l : Ended(l)' <=> Ended(l)
    BY <1>12 DEF Taken, Ended, vars, honeypot
  <2>2. OneAtATime' /\ LinesInv' /\ MoveInv' /\ RowInv'
    BY <1>1, <1>12, <2>1 DEF Once, OneAtATime, LinesInv, MoveInv, RowInv, vars, honeypot
  <2>3. ASSUME NEW p \in Pollers, poller'[p].pc # "idle" PROVE ReadOnce(poller[p])'
    BY <1>1, <1>12, <2>1, <2>3 DEF Once, ReadOnce, vars, honeypot
  <2> QED
    BY <2>2, <2>3 DEF Once
<1> QED
  BY <1>2, <1>3, <1>4, <1>5, <1>6, <1>7, <1>8, <1>9, <1>10, <1>11, <1>12 DEF Next, Poll

LEMMA OnceInit == Init => OnceInv
<1> SUFFICES ASSUME Init PROVE Once
  BY DEF OnceInv
<1> USE ConstantsAssumption DEF ConstantsAssumption
<1>1. /\ \A q \in Paths : file[q] = <<>> /\ ~HalfWritten(file[q])
      /\ Len(<<>>) = 0 /\ 1..0 = {} /\ Taken = {} /\ row.path = FirstPath
  BY DEF Init, HalfWritten, Taken
<1>2. LinesInv
  BY <1>1 DEF LinesInv
<1>3. RowInv
  BY <1>1 DEF Init, RowInv, Unread
<1>4. MoveInv /\ OneAtATime /\ \A p \in Pollers : poller[p].pc = "idle"
  BY <1>1 DEF Init, MoveInv, OneAtATime, NoPoll, NoRefresh
<1> QED
  BY <1>2, <1>3, <1>4 DEF Once

\* As long as polls do not overlap, every line becomes at most one event,
\* whatever fails, however lines are half written, whenever the log is rotated
\* (before the file is looked at, while it is read, or before what was read is
\* stored), and when OpenCanary moves once to another file while a refresh and a
\* poll have the old path in hand (canary_activity.py, jobs.py).
THEOREM EachLineOnceAlways == Spec => []EachLineOnce
<1>1. OnceInv => EachLineOnce
  BY DEF OnceInv, MovedOnce, Once, RowInv, EachLineOnce
<1> QED
  BY InitType, TypeStep, OnceInit, OnceStep, <1>1, PTL DEF Spec

=============================================================================
