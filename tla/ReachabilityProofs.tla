------------------------- MODULE ReachabilityProofs -------------------------
(* What holds of Reachability for every rule, clock and number of flips: of *)
(* acknowledgements whatever runs side by side, of what is told as long as  *)
(* only one sweep runs at a time, and none dies.                            *)
EXTENDS Reachability, TLAPS

-----------------------------------------------------------------------------
(* Type correctness, for any number of overlapping sweeps and checks *)

\* A clock runs from a time that was read.
LEMMA FoundType ==
    ASSUME NEW r \in Row, NEW reached \in BOOLEAN, NEW now \in 0..MaxClock
    PROVE  Found(r, reached, now) \in Row /\ FoundByHand(r, reached, now) \in Row
  BY DEF Row, Time, Found, FoundByHand, StillAcked, Never

\* A flush mixes two records of the same type.
LEMMA FlushRow ==
    ASSUME NEW db \in Row, NEW loaded \in Row, NEW new \in Row
    PROVE  /\ Flush(db, loaded, new) \in Row
           /\ \A a \in {"seen", "pinged", "downSince", "upSince", "acked"} :
                 Flush(db, loaded, new)[a] = IF new[a] = loaded[a] THEN db[a] ELSE new[a]
  BY DEF Row, Flush

LEMMA FlushState ==
    ASSUME NEW db \in State, NEW loaded \in State, NEW new \in State
    PROVE  /\ Flush(db, loaded, new) \in State
           /\ \A a \in {"exists", "told", "toldBack"} :
                 Flush(db, loaded, new)[a] = IF new[a] = loaded[a] THEN db[a] ELSE new[a]
  BY DEF State, Flush

LEMMA NothingYet ==
    NewRow \in Row /\ NoState \in State /\ NoSweep \in SweepTask /\ NoCheck \in CheckTask
<1>1. NewRow \in Row /\ NoState \in State
  BY DEF NewRow, NoState, Row, State, Time
<1> QED
  BY <1>1, ConstantsAssumption DEF ConstantsAssumption, NoSweep, NoCheck, SweepTask, CheckTask, Mail

\* One more of what is counted stays within the bound that allowed it.
LEMMA CountsType ==
    ASSUME counts \in Counts, ConstantsAssumption
    PROVE  /\ counts.flips < MaxFlips => [counts EXCEPT !.flips = @ + 1] \in Counts
           /\ counts.windows < MaxWindows => [counts EXCEPT !.windows = @ + 1] \in Counts
           /\ counts.acks < MaxAcks => \A b \in BOOLEAN :
                 [counts EXCEPT !.acks = @ + 1, !.raced = @ \/ b] \in Counts
           /\ counts.checks < MaxChecks => [counts EXCEPT !.checks = @ + 1] \in Counts
           /\ counts.deaths < MaxDeaths => [counts EXCEPT !.deaths = @ + 1] \in Counts
<1>2. ASSUME counts.flips < MaxFlips PROVE [counts EXCEPT !.flips = @ + 1] \in Counts
  <2>1. counts.flips + 1 \in 0..MaxFlips
    BY <1>2 DEF ConstantsAssumption, Counts
  <2> QED
    BY <2>1 DEF Counts
<1>3. ASSUME counts.windows < MaxWindows PROVE [counts EXCEPT !.windows = @ + 1] \in Counts
  <2>1. counts.windows + 1 \in 0..MaxWindows
    BY <1>3 DEF ConstantsAssumption, Counts
  <2> QED
    BY <2>1 DEF Counts
<1>4. ASSUME counts.acks < MaxAcks, NEW b \in BOOLEAN
      PROVE  [counts EXCEPT !.acks = @ + 1, !.raced = @ \/ b] \in Counts
  <2>1. counts.acks + 1 \in 0..MaxAcks
    BY <1>4 DEF ConstantsAssumption, Counts
  <2>2. (counts.raced \/ b) \in BOOLEAN
    BY DEF Counts
  <2> QED
    BY <2>1, <2>2 DEF Counts
<1>5. ASSUME counts.checks < MaxChecks PROVE [counts EXCEPT !.checks = @ + 1] \in Counts
  <2>1. counts.checks + 1 \in 0..MaxChecks
    BY <1>5 DEF ConstantsAssumption, Counts
  <2> QED
    BY <2>1 DEF Counts
<1>6. ASSUME counts.deaths < MaxDeaths PROVE [counts EXCEPT !.deaths = @ + 1] \in Counts
  <2>1. counts.deaths + 1 \in 0..MaxDeaths
    BY <1>6 DEF ConstantsAssumption, Counts
  <2> QED
    BY <2>1 DEF Counts
<1> QED
  BY <1>2, <1>3, <1>4, <1>5, <1>6

LEMMA TypeStep == TypeOK /\ [Next]_vars => TypeOK'
<1> SUFFICES ASSUME TypeOK, [Next]_vars PROVE TypeOK'
  OBVIOUS
<1> USE ConstantsAssumption DEF ConstantsAssumption
<1>1. CASE Tick
  BY <1>1 DEF TypeOK, Tick
<1>2. CASE Flip
  BY <1>2, CountsType DEF TypeOK, Flip
<1>3. CASE ToggleWindow
  BY <1>3, CountsType DEF TypeOK, ToggleWindow
<1>4. CASE Acknowledge
  <2>1. counts' \in Counts
    BY <1>4, CountsType DEF TypeOK, Acknowledge
  <2>2. row' \in Row
    BY <1>4 DEF TypeOK, Acknowledge, Row
  <2> QED
    BY <1>4, <2>1, <2>2 DEF TypeOK, Acknowledge
<1>5. ASSUME NEW s \in Sweeps, BeginSweep(s) PROVE TypeOK'
  <2>1. [NoSweep EXCEPT !.pc = "probing", !.loaded = row] \in SweepTask
    BY NothingYet DEF TypeOK, SweepTask
  <2> QED
    BY <1>5, <2>1 DEF TypeOK, BeginSweep
<1>6. ASSUME NEW s \in Sweeps, Probe(s) PROVE TypeOK'
  BY <1>6 DEF TypeOK, Probe, SweepTask
<1>7. ASSUME NEW s \in Sweeps, Record(s) PROVE TypeOK'
  <2> DEFINE new == Found(sweep[s].loaded, sweep[s].reached, clock)
  <2>1. sweep[s].loaded \in Row /\ sweep[s].reached \in BOOLEAN /\ clock \in 0..MaxClock /\ row \in Row
    BY DEF TypeOK, SweepTask, CheckTask
  <2>2. new \in Row
    BY <2>1, FoundType
  <2>3. row' \in Row
    BY <2>1, <2>2, FlushRow, <1>7 DEF Record
  <2>4. mails' \in Mails
    BY <2>1, <1>7 DEF Record, Recorded, TypeOK, Mails, Time
  <2>5. sweep' = [sweep EXCEPT ![s] = [@ EXCEPT !.pc = "reading", !.loaded = new, !.now = clock]]
    BY <1>7 DEF Record
  <2>6. UNCHANGED <<clock, answers, window, rule, state, check, counts>>
    BY <1>7 DEF Record
  <2> HIDE DEF new
  <2>7. [sweep[s] EXCEPT !.pc = "reading", !.loaded = new, !.now = clock] \in SweepTask
    BY <2>1, <2>2 DEF TypeOK, SweepTask
  <2>8. sweep' \in [Sweeps -> SweepTask]
    BY <2>5, <2>7 DEF TypeOK
  <2> QED
    BY <2>3, <2>4, <2>6, <2>8 DEF TypeOK
<1>8. ASSUME NEW s \in Sweeps, ReadState(s) PROVE TypeOK'
  BY <1>8 DEF TypeOK, ReadState, SweepTask
<1>9. ASSUME NEW s \in Sweeps, Evaluate(s) PROVE TypeOK'
  <2>1. ASSUME NEW pc \in {"sending", "storing"}, NEW mail \in Mail, NEW told \in BOOLEAN,
               NEW toldBack \in BOOLEAN, Decide(s, pc, mail, told, toldBack)
        PROVE  TypeOK'
    <3>1. [exists |-> TRUE, told |-> told, toldBack |-> toldBack] \in State
      BY <2>1 DEF State
    <3> QED
      BY <1>9, <2>1, <3>1 DEF TypeOK, Evaluate, Decide, SweepTask
  <2>2. ASSUME sweep' = [sweep EXCEPT ![s] = NoSweep] PROVE TypeOK'
    BY <1>9, <2>2, NothingYet DEF TypeOK, Evaluate
  <2>3. sweep[s].read.told \in BOOLEAN /\ sweep[s].read.toldBack \in BOOLEAN
    BY DEF TypeOK, SweepTask, State
  <2>4. Decide(s, "sending", "back", FALSE, TRUE) => TypeOK'
    BY <2>1 DEF Mail
  <2>5. Decide(s, "sending", "down", TRUE, FALSE) => TypeOK'
    BY <2>1 DEF Mail
  <2>6. Decide(s, "storing", "none", FALSE, sweep[s].read.toldBack) => TypeOK'
    BY <2>1, <2>3 DEF Mail
  <2>7. Decide(s, "storing", "none", sweep[s].read.told, FALSE) => TypeOK'
    BY <2>1, <2>3 DEF Mail
  <2>8. \/ Decide(s, "sending", "back", FALSE, TRUE)
        \/ Decide(s, "sending", "down", TRUE, FALSE)
        \/ Decide(s, "storing", "none", FALSE, sweep[s].read.toldBack)
        \/ Decide(s, "storing", "none", sweep[s].read.told, FALSE)
        \/ sweep' = [sweep EXCEPT ![s] = NoSweep]
    BY <1>9 DEF Evaluate
  <2> QED
    BY <2>2, <2>4, <2>5, <2>6, <2>7, <2>8
<1>10. ASSUME NEW s \in Sweeps, Send(s) PROVE TypeOK'
  <2>1. mails' \in Mails
    <3>1. mails \in Mails
      BY DEF TypeOK
    <3>2. mails.downThisOutage + 1 \in Nat /\ mails.backThisRecovery + 1 \in Nat
      BY <3>1 DEF Mails
    <3>3. \A sent \in BOOLEAN :
             [mails EXCEPT !.said = "down", !.heard = Heard("down", sent),
                           !.downThisOutage = @ + 1] \in Mails
      BY <3>1, <3>2 DEF Mails, Mail, Heard
    <3>4. \A sent \in BOOLEAN :
             [mails EXCEPT !.said = "back", !.heard = Heard("back", sent),
                           !.backThisRecovery = @ + 1] \in Mails
      BY <3>1, <3>2 DEF Mails, Mail, Heard
    <3> QED
      BY <1>10, <3>3, <3>4 DEF Send
  <2>2. sweep' \in [Sweeps -> SweepTask]
    BY <1>10 DEF TypeOK, Send, SweepTask
  <2> QED
    BY <1>10, <2>1, <2>2 DEF TypeOK, Send
<1>11. ASSUME NEW s \in Sweeps, Store(s) PROVE TypeOK'
  <2>1. state' \in State
    BY <1>11, FlushState DEF Store, TypeOK, SweepTask
  <2> QED
    BY <1>11, <2>1, NothingYet DEF TypeOK, Store
<1>12. ASSUME NEW s \in Sweeps, SweepDies(s) PROVE TypeOK'
  BY <1>12, CountsType, NothingYet DEF TypeOK, SweepDies
<1>13. ASSUME NEW c \in Checks, BeginCheck(c) PROVE TypeOK'
  <2>1. [NoCheck EXCEPT !.pc = "probing", !.loaded = row] \in CheckTask
    BY NothingYet DEF TypeOK, CheckTask
  <2> QED
    BY <1>13, <2>1, CountsType DEF TypeOK, BeginCheck
<1>14. ASSUME NEW c \in Checks, ProbeByHand(c) PROVE TypeOK'
  BY <1>14 DEF TypeOK, ProbeByHand, CheckTask
<1>15. ASSUME NEW c \in Checks, RecordByHand(c) PROVE TypeOK'
  <2> DEFINE new == FoundByHand(check[c].loaded, check[c].reached, clock)
  <2>1. check[c].loaded \in Row /\ check[c].reached \in BOOLEAN /\ clock \in 0..MaxClock /\ row \in Row
    BY DEF TypeOK, SweepTask, CheckTask
  <2>2. new \in Row
    BY <2>1, FoundType
  <2>3. row' \in Row
    BY <2>1, <2>2, FlushRow, <1>15 DEF RecordByHand
  <2>4. mails' \in Mails
    BY <2>1, <1>15 DEF RecordByHand, Recorded, TypeOK, Mails, Time
  <2>5. check' = [check EXCEPT ![c] = NoCheck]
    BY <1>15 DEF RecordByHand
  <2>6. NoCheck \in CheckTask
    BY NothingYet
  <2> HIDE DEF new
  <2> QED
    BY <1>15, <2>3, <2>4, <2>5, <2>6 DEF RecordByHand, TypeOK
<1>16. CASE UNCHANGED vars
  BY <1>16 DEF TypeOK, vars
<1> QED
  BY <1>1, <1>2, <1>3, <1>4, <1>5, <1>6, <1>7, <1>8, <1>9, <1>10, <1>11, <1>12, <1>13,
     <1>14, <1>15, <1>16 DEF Next

\* Every reachable state is well typed, whatever overlaps and dies.
THEOREM TypeCorrect == Spec => []TypeOK
<1>1. Init => TypeOK
  <2>1. ASSUME Init PROVE mails \in Mails /\ counts \in Counts
    BY <2>1, ConstantsAssumption DEF Init, Mails, Mail, Counts, Time, ConstantsAssumption
  <2>2. ASSUME Init PROVE sweep \in [Sweeps -> SweepTask] /\ check \in [Checks -> CheckTask]
    BY <2>2, NothingYet DEF Init
  <2>3. 0 \in 0..MaxClock
    BY ConstantsAssumption DEF ConstantsAssumption
  <2> QED
    BY <2>1, <2>2, <2>3, NothingYet DEF Init, TypeOK
<1> QED
  BY <1>1, TypeStep, PTL DEF Spec
-----------------------------------------------------------------------------
(* One sweep at a time tells once *)

\* Sweeps do not overlap; checks by hand and deaths there may be.
OneSweep == \A s, t \in Sweeps : s = t

SameButAcked(r, q) ==
    r.seen = q.seen /\ r.pinged = q.pinged /\ r.downSince = q.downSince /\ r.upSince = q.upSince

\* Nobody else writes the row but the one who acknowledges.
CopyInv == \A s \in Sweeps : sweep[s].pc # "idle" => SameButAcked(sweep[s].loaded, row)

\* The row shows what the sweep found.
SeenInv ==
    \A s \in Sweeps : sweep[s].pc \in {"reading", "evaluating", "sending", "storing"} =>
        row.seen = IF sweep[s].reached THEN "up" ELSE "down"

\* The state the sweep read is still the stored one.
ReadInv ==
    \A s \in Sweeps : sweep[s].pc \in {"evaluating", "sending", "storing"} =>
        sweep[s].read = state

\* What is about to be sent was not sent before, and will be remembered.
SendInv ==
    \A s \in Sweeps : sweep[s].pc = "sending" =>
        \/ /\ sweep[s].mail = "down" /\ ~sweep[s].reached
           /\ ~sweep[s].read.told /\ sweep[s].new.told
        \/ /\ sweep[s].mail = "back" /\ sweep[s].reached
           /\ ~sweep[s].read.toldBack /\ sweep[s].new.toldBack

\* What was said of this outage, or recovery, is remembered by state st.
Remembers(st) ==
    /\ mails.downThisOutage > 0 => st.told
    /\ mails.backThisRecovery > 0 => st.toldBack

ToldInv ==
    /\ mails.downThisOutage > 0 => row.seen = "down"
    /\ mails.backThisRecovery > 0 => row.seen = "up"
    /\ (\A s \in Sweeps : sweep[s].pc # "storing") => Remembers(state)
    /\ \A s \in Sweeps : sweep[s].pc = "storing" => Remembers(sweep[s].new)

IInv ==
    /\ CopyInv /\ SeenInv /\ ReadInv /\ SendInv /\ ToldInv
    /\ ToldOnce /\ ClocksMatch

\* Nobody has a check by hand under way.
NoCheckRuns == \A c \in Checks : check[c].pc = "idle"

\* What a recorded check leaves: the row shows what was found, its clocks fit,
\* and nothing of it is lost in the flush but an acknowledgement.
LEMMA RecordLeaves ==
    ASSUME TypeOK, CopyInv, NEW s \in Sweeps, Record(s)
    PROVE  LET new == Found(sweep[s].loaded, sweep[s].reached, clock) IN
           /\ row'.seen = (IF sweep[s].reached THEN "up" ELSE "down")
           /\ row'.seen = "up" => row'.downSince = Never
           /\ row'.seen = "down" => row'.upSince = Never
           /\ SameButAcked(new, row')
<1> DEFINE new == Found(sweep[s].loaded, sweep[s].reached, clock)
<1>1. sweep[s].loaded \in Row /\ sweep[s].reached \in BOOLEAN /\ clock \in 0..MaxClock /\ row \in Row
  BY DEF TypeOK, SweepTask
<1>2. new \in Row
  BY <1>1, FoundType
<1>3. SameButAcked(sweep[s].loaded, row)
  BY DEF CopyInv, Record
<1>4. row' = Flush(row, sweep[s].loaded, new)
  BY DEF Record
<1>5. \A a \in {"seen", "pinged", "downSince", "upSince"} : row'[a] = new[a]
  BY <1>1, <1>2, <1>3, <1>4, FlushRow DEF SameButAcked
<1>6. new.seen = (IF sweep[s].reached THEN "up" ELSE "down")
  BY <1>1 DEF Found, Row
<1>7. new.seen = "up" => new.downSince = Never
  BY <1>1 DEF Found, Row
<1>8. new.seen = "down" => new.upSince = Never
  BY <1>1 DEF Found, Row
<1> HIDE DEF new
<1>9. SameButAcked(new, row') /\ row'.seen = new.seen /\ row'.downSince = new.downSince
      /\ row'.upSince = new.upSince
  BY <1>5 DEF SameButAcked
<1> QED
  BY <1>6, <1>7, <1>8, <1>9 DEF new

\* The stored state becomes the one the sweep decided on.
LEMMA StoreLeaves ==
    ASSUME TypeOK, ReadInv, NEW s \in Sweeps, Store(s)
    PROVE  state' \in State /\ state'.told = sweep[s].new.told
           /\ state'.toldBack = sweep[s].new.toldBack
<1>1. state \in State /\ sweep[s].new \in State /\ sweep[s].read = state
  BY DEF TypeOK, SweepTask, ReadInv, Store
<1>2. state' = Flush(state, state, sweep[s].new)
  BY <1>1 DEF Store, Conflict
<1> HIDE DEF State
<1>3. /\ state' \in State
      /\ \A a \in {"exists", "told", "toldBack"} : state'[a] = sweep[s].new[a]
  BY <1>1, <1>2, FlushState
<1> QED
  BY <1>3

\* Before there was a check by hand or a death there was none, and no check runs.
LEMMA QuietStep ==
    ASSUME TypeOK, [Next]_vars, OnlySweeps'
    PROVE  /\ OnlySweeps
           /\ \A s \in Sweeps : ~SweepDies(s)
           /\ \A c \in Checks : ~BeginCheck(c)
           /\ NoCheckRuns =>
                 NoCheckRuns' /\ \A c \in Checks : ~ProbeByHand(c) /\ ~RecordByHand(c)
<1>1. counts.checks \in Nat /\ counts.deaths \in Nat /\ counts \in Counts
  BY ConstantsAssumption DEF TypeOK, Counts, ConstantsAssumption
<1>2. ASSUME NEW s \in Sweeps PROVE ~SweepDies(s)
  <2>1. SUFFICES ASSUME SweepDies(s) PROVE FALSE
    OBVIOUS
  <2>2. counts'.deaths = counts.deaths + 1
    BY <1>1, <2>1 DEF SweepDies, Counts
  <2> QED
    BY <1>1, <2>2 DEF OnlySweeps
<1>3. ASSUME NEW c \in Checks PROVE ~BeginCheck(c)
  <2>1. SUFFICES ASSUME BeginCheck(c) PROVE FALSE
    OBVIOUS
  <2>2. counts'.checks = counts.checks + 1
    BY <1>1, <2>1 DEF BeginCheck, Counts
  <2> QED
    BY <1>1, <2>2 DEF OnlySweeps
<1>4. OnlySweeps
  <2>1. CASE Flip \/ ToggleWindow \/ Acknowledge
    BY <1>1, <2>1 DEF Flip, ToggleWindow, Acknowledge, Counts, OnlySweeps
  <2>2. CASE counts' = counts
    BY <2>2 DEF OnlySweeps
  <2> QED
    BY <1>2, <1>3, <2>1, <2>2 DEF Next, vars, Tick, BeginSweep, Probe, Record, ReadState,
       Evaluate, Send, Store, ProbeByHand, RecordByHand
<1>5. ASSUME NoCheckRuns
      PROVE  NoCheckRuns' /\ \A c \in Checks : ~ProbeByHand(c) /\ ~RecordByHand(c)
  <2>1. \A c \in Checks : ~ProbeByHand(c) /\ ~RecordByHand(c)
    BY <1>5 DEF NoCheckRuns, ProbeByHand, RecordByHand
  <2>2. check' = check
    BY <1>2, <1>3, <2>1 DEF Next, vars, Tick, Flip, ToggleWindow, Acknowledge, BeginSweep,
       Probe, Record, ReadState, Evaluate, Send, Store
  <2> QED
    BY <1>5, <2>1, <2>2 DEF NoCheckRuns
<1> QED
  BY <1>2, <1>3, <1>4, <1>5

\* No step of one sweep, and nothing around it, breaks what its copies know.
LEMMA InvStep ==
    ASSUME OneSweep, TypeOK, NoCheckRuns, IInv, [Next]_vars, OnlySweeps'
    PROVE  IInv'
<1> USE DEF IInv
<1>0. mails.downThisOutage \in Nat /\ mails.backThisRecovery \in Nat /\ sweep \in [Sweeps -> SweepTask]
  BY DEF TypeOK, Mails
<1>1. ASSUME UNCHANGED <<row, state, sweep, mails>> PROVE IInv'
  BY <1>1 DEF CopyInv, SeenInv, ReadInv, SendInv, ToldInv, Remembers, ToldOnce, ClocksMatch,
     SameButAcked
<1>2. CASE Tick
  BY <1>1, <1>2 DEF Tick
<1>3. CASE Flip
  BY <1>1, <1>3 DEF Flip
<1>4. CASE ToggleWindow
  BY <1>1, <1>4 DEF ToggleWindow
<1>5. CASE Acknowledge
  <2>1. /\ row'.seen = row.seen /\ row'.pinged = row.pinged
        /\ row'.downSince = row.downSince /\ row'.upSince = row.upSince
    BY <1>5 DEF Acknowledge, TypeOK, Row
  <2>2. UNCHANGED <<state, sweep, mails>>
    BY <1>5 DEF Acknowledge
  <2> QED
    BY <2>1, <2>2 DEF CopyInv, SeenInv, ReadInv, SendInv, ToldInv, Remembers, ToldOnce,
       ClocksMatch, SameButAcked
<1>6. ASSUME NEW s \in Sweeps, BeginSweep(s) PROVE IInv'
  <2>1. \A t \in Sweeps : t = s
    BY DEF OneSweep
  <2>2. sweep[s].pc = "idle" /\ sweep'[s].pc = "probing" /\ sweep'[s].loaded = row
    BY <1>0, <1>6 DEF BeginSweep, NoSweep
  <2>3. UNCHANGED <<row, state, mails>>
    BY <1>6 DEF BeginSweep
  <2> QED
    BY <2>1, <2>2, <2>3 DEF CopyInv, SeenInv, ReadInv, SendInv, ToldInv, Remembers, ToldOnce,
       ClocksMatch, SameButAcked
<1>7. ASSUME NEW s \in Sweeps, Probe(s) PROVE IInv'
  <2>1. \A t \in Sweeps : t = s
    BY DEF OneSweep
  <2>2. sweep[s].pc = "probing" /\ sweep'[s].pc = "recording" /\ sweep'[s].loaded = sweep[s].loaded
    BY <1>0, <1>7 DEF Probe, SweepTask
  <2>3. UNCHANGED <<row, state, mails>>
    BY <1>7 DEF Probe
  <2> QED
    BY <2>1, <2>2, <2>3 DEF CopyInv, SeenInv, ReadInv, SendInv, ToldInv, Remembers, ToldOnce,
       ClocksMatch, SameButAcked
<1>8. ASSUME NEW s \in Sweeps, Record(s) PROVE IInv'
  <2> DEFINE new == Found(sweep[s].loaded, sweep[s].reached, clock)
  <2>1. \A t \in Sweeps : t = s
    BY DEF OneSweep
  <2>2. /\ row'.seen = (IF sweep[s].reached THEN "up" ELSE "down")
        /\ row'.seen = "up" => row'.downSince = Never
        /\ row'.seen = "down" => row'.upSince = Never
        /\ SameButAcked(new, row')
    BY <1>8, RecordLeaves
  <2>3. sweep[s].pc = "recording"
    BY <1>8 DEF Record
  <2>4. sweep' = [sweep EXCEPT ![s] = [@ EXCEPT !.pc = "reading", !.loaded = new, !.now = clock]]
    BY <1>8 DEF Record
  <2>5. Recorded(sweep[s].reached) /\ state' = state
    BY <1>8 DEF Record
  <2> HIDE DEF new
  <2>6. sweep'[s].pc = "reading" /\ sweep'[s].loaded = new /\ sweep'[s].reached = sweep[s].reached
    BY <1>0, <2>4 DEF SweepTask
  <2>7. CopyInv' /\ SeenInv' /\ ReadInv' /\ SendInv' /\ ClocksMatch'
    BY <2>1, <2>2, <2>6 DEF CopyInv, SeenInv, ReadInv, SendInv, ClocksMatch
  <2>8. \/ /\ sweep[s].reached /\ mails'.downThisOutage = 0
           /\ mails'.backThisRecovery = mails.backThisRecovery
        \/ /\ ~sweep[s].reached /\ mails'.backThisRecovery = 0
           /\ mails'.downThisOutage = mails.downThisOutage
    BY <2>5 DEF Recorded, TypeOK, Mails
  <2>9. Remembers(state)
    BY <2>1, <2>3 DEF ToldInv
  <2>10. ToldInv' /\ ToldOnce'
    BY <1>0, <2>1, <2>2, <2>5, <2>6, <2>8, <2>9 DEF ToldInv, Remembers, ToldOnce
  <2> QED
    BY <2>7, <2>10
<1>9. ASSUME NEW s \in Sweeps, ReadState(s) PROVE IInv'
  <2>1. \A t \in Sweeps : t = s
    BY DEF OneSweep
  <2>2. /\ sweep[s].pc = "reading" /\ sweep'[s].pc = "evaluating" /\ sweep'[s].read = state
        /\ sweep'[s].loaded = sweep[s].loaded /\ sweep'[s].reached = sweep[s].reached
    BY <1>0, <1>9 DEF ReadState, SweepTask
  <2>3. UNCHANGED <<row, state, mails>>
    BY <1>9 DEF ReadState
  <2> QED
    BY <2>1, <2>2, <2>3 DEF CopyInv, SeenInv, ReadInv, SendInv, ToldInv, Remembers, ToldOnce,
       ClocksMatch, SameButAcked
<1>10. ASSUME NEW s \in Sweeps, Evaluate(s) PROVE IInv'
  <2>1. \A t \in Sweeps : t = s
    BY DEF OneSweep
  <2>2. UNCHANGED <<row, state, mails>> /\ sweep[s].pc = "evaluating"
    BY <1>10 DEF Evaluate
  <2>3. /\ SameButAcked(sweep[s].loaded, row) /\ sweep[s].read = state /\ Remembers(state)
        /\ row.seen = IF sweep[s].reached THEN "up" ELSE "down"
    BY <2>1, <2>2 DEF CopyInv, SeenInv, ReadInv, ToldInv
  <2>4. state.told \in BOOLEAN /\ state.toldBack \in BOOLEAN /\ sweep[s].reached \in BOOLEAN
    BY <1>0 DEF TypeOK, State, SweepTask
  <2>5. ToldOnce' /\ ClocksMatch'
    BY <2>2 DEF ToldOnce, ClocksMatch
  <2>6. ASSUME NEW pc \in {"sending", "storing"}, NEW mail \in Mail, NEW told \in BOOLEAN,
               NEW toldBack \in BOOLEAN, Decide(s, pc, mail, told, toldBack),
               \/ /\ pc = "sending" /\ mail = "down" /\ ~sweep[s].reached
                  /\ ~sweep[s].read.told /\ told
               \/ /\ pc = "sending" /\ mail = "back" /\ sweep[s].reached
                  /\ ~sweep[s].read.toldBack /\ toldBack
               \/ pc = "storing" /\ sweep[s].reached /\ toldBack = sweep[s].read.toldBack
               \/ pc = "storing" /\ ~sweep[s].reached /\ told = sweep[s].read.told
        PROVE  IInv'
    <3>1. /\ sweep'[s].pc = pc /\ sweep'[s].mail = mail /\ sweep'[s].new.told = told
          /\ sweep'[s].new.toldBack = toldBack /\ sweep'[s].read = sweep[s].read
          /\ sweep'[s].loaded = sweep[s].loaded /\ sweep'[s].reached = sweep[s].reached
      BY <1>0, <2>6 DEF Decide, SweepTask
    <3>2. CopyInv' /\ SeenInv' /\ ReadInv' /\ SendInv'
      BY <2>1, <2>2, <2>3, <2>6, <3>1 DEF CopyInv, SeenInv, ReadInv, SendInv, SameButAcked
    <3>3. ToldInv'
      BY <2>1, <2>2, <2>3, <2>6, <3>1 DEF ToldInv, Remembers
    <3> QED
      BY <2>5, <3>2, <3>3
  <2>7. ASSUME sweep' = [sweep EXCEPT ![s] = NoSweep] PROVE IInv'
    <3>1. sweep'[s].pc = "idle"
      BY <1>0, <2>7 DEF NoSweep
    <3> QED
      BY <2>1, <2>2, <2>3, <2>5, <3>1 DEF CopyInv, SeenInv, ReadInv, SendInv, ToldInv, Remembers
  <2>8. CASE AnnounceBack(s) /\ Decide(s, "sending", "back", FALSE, TRUE)
    BY <2>6, <2>8 DEF AnnounceBack, Mail
  <2>9. CASE AnnounceDown(s) /\ Decide(s, "sending", "down", TRUE, FALSE)
    BY <2>6, <2>9 DEF AnnounceDown, Mail
  <2>10. CASE Forgets(s) /\ Decide(s, "storing", "none", FALSE, sweep[s].read.toldBack)
    BY <2>3, <2>4, <2>6, <2>10 DEF Forgets, Mail
  <2>11. CASE ~sweep[s].reached /\ Decide(s, "storing", "none", sweep[s].read.told, FALSE)
    BY <2>3, <2>4, <2>6, <2>11 DEF Mail
  <2> QED
    BY <1>10, <2>7, <2>8, <2>9, <2>10, <2>11 DEF Evaluate
<1>11. ASSUME NEW s \in Sweeps, Send(s) PROVE IInv'
  <2>1. \A t \in Sweeps : t = s
    BY DEF OneSweep
  <2>2. /\ sweep[s].pc = "sending" /\ sweep'[s].pc = "storing" /\ sweep'[s].loaded = sweep[s].loaded
        /\ sweep'[s].reached = sweep[s].reached /\ sweep'[s].read = sweep[s].read
        /\ sweep'[s].new = sweep[s].new
    BY <1>0, <1>11 DEF Send, SweepTask
  <2>3. UNCHANGED <<row, state>>
    BY <1>11 DEF Send
  <2>4. CopyInv' /\ SeenInv' /\ ReadInv' /\ SendInv' /\ ClocksMatch'
    BY <2>1, <2>2, <2>3 DEF CopyInv, SeenInv, ReadInv, SendInv, ClocksMatch, SameButAcked
  <2>5. /\ row.seen = (IF sweep[s].reached THEN "up" ELSE "down")
        /\ sweep[s].read = state /\ Remembers(state)
    BY <2>1, <2>2 DEF SeenInv, ReadInv, ToldInv
  <2>6. CASE sweep[s].mail = "down"
    <3>1. ~sweep[s].reached /\ ~state.told /\ sweep[s].new.told
      BY <2>2, <2>5, <2>6 DEF SendInv
    <3>2. mails.downThisOutage = 0 /\ mails.backThisRecovery = 0
      BY <1>0, <2>5, <3>1 DEF ToldInv, Remembers
    <3>3. mails'.downThisOutage \in {0, 1} /\ mails'.backThisRecovery = 0
      BY <1>11, <2>6, <3>2 DEF Send, TypeOK, Mails
    <3> QED
      BY <2>1, <2>2, <2>3, <2>4, <2>5, <3>1, <3>3 DEF ToldInv, Remembers, ToldOnce
  <2>7. CASE sweep[s].mail # "down"
    <3>1. sweep[s].reached /\ ~state.toldBack /\ sweep[s].new.toldBack
      BY <2>2, <2>5, <2>7 DEF SendInv
    <3>2. mails.downThisOutage = 0 /\ mails.backThisRecovery = 0
      BY <1>0, <2>5, <3>1 DEF ToldInv, Remembers
    <3>3. mails'.backThisRecovery \in {0, 1} /\ mails'.downThisOutage = 0
      BY <1>11, <2>7, <3>2 DEF Send, TypeOK, Mails
    <3> QED
      BY <2>1, <2>2, <2>3, <2>4, <2>5, <3>1, <3>3 DEF ToldInv, Remembers, ToldOnce
  <2> QED
    BY <2>6, <2>7
<1>12. ASSUME NEW s \in Sweeps, Store(s) PROVE IInv'
  <2>1. \A t \in Sweeps : t = s
    BY DEF OneSweep
  <2>2. sweep[s].pc = "storing" /\ sweep'[s].pc = "idle"
    BY <1>0, <1>12 DEF Store, NoSweep
  <2>3. UNCHANGED <<row, mails>>
    BY <1>12 DEF Store
  <2>4. state'.told = sweep[s].new.told /\ state'.toldBack = sweep[s].new.toldBack
    BY <1>12, StoreLeaves
  <2>5. Remembers(sweep[s].new)
    BY <2>2 DEF ToldInv
  <2> QED
    BY <2>1, <2>2, <2>3, <2>4, <2>5 DEF CopyInv, SeenInv, ReadInv, SendInv, ToldInv, Remembers,
       ToldOnce, ClocksMatch
<1>13. \A s \in Sweeps : ~SweepDies(s)
  BY QuietStep
<1>14. \A c \in Checks : ~BeginCheck(c) /\ ~ProbeByHand(c) /\ ~RecordByHand(c)
  BY QuietStep
<1>15. CASE UNCHANGED vars
  BY <1>1, <1>15 DEF vars
<1> QED
  BY <1>2, <1>3, <1>4, <1>5, <1>6, <1>7, <1>8, <1>9, <1>10, <1>11, <1>12, <1>13, <1>14, <1>15
     DEF Next

LEMMA InvInit == Init => IInv
  BY DEF Init, IInv, NoSweep, NewRow, CopyInv, SeenInv, ReadInv, SendInv, ToldInv, Remembers,
     ToldOnce, ClocksMatch

\* All of it holds until a sweep dies or somebody checks by hand.
QuietInv == OnlySweeps => IInv /\ NoCheckRuns

\* It is inductive together with the types.
LEMMA QuietInvAlways == ASSUME OneSweep PROVE Spec => []QuietInv
<1>1. Init => QuietInv
  BY InvInit DEF QuietInv, Init, NoCheckRuns, NoCheck
<1>2. TypeOK /\ QuietInv /\ [Next]_vars => QuietInv'
  <2>1. SUFFICES ASSUME TypeOK, QuietInv, [Next]_vars, OnlySweeps' PROVE IInv' /\ NoCheckRuns'
    BY DEF QuietInv
  <2>2. IInv /\ NoCheckRuns
    BY <2>1, QuietStep DEF QuietInv
  <2> QED
    BY <2>1, <2>2, QuietStep, InvStep
<1> QED
  BY <1>1, <1>2, TypeCorrect, PTL DEF Spec

\* With one sweep at a time, an outage sends at most one "it's down" and a
\* recovery at most one "it's back", until a sweep dies or somebody checks by
\* hand, and so long the clocks of outage and recovery fit what the row shows:
\* for every rule, delay, number of flips, windows and acknowledgements.
THEOREM OneSweepTellsOnce ==
    ASSUME OneSweep
    PROVE  Spec => [](OncePerOutage /\ (OnlySweeps => ClocksMatch))
<1>1. QuietInv => OncePerOutage /\ (OnlySweeps => ClocksMatch)
  BY DEF QuietInv, IInv, OncePerOutage
<1> QED
  BY <1>1, QuietInvAlways, PTL

-----------------------------------------------------------------------------
(* No outage is passed over *)

\* A rule with "it's back": the state st remembers which of the two was the last.
Balanced(st) == st.told <=> mails.said = "down"

\* A rule without it: what st remembers was dispatched in this outage.
Said(st) == st.told => mails.downThisOutage > 0

\* "It's back" goes out for what was told, and is what a rule wants.
BackInv ==
    \A s \in Sweeps : sweep[s].pc = "sending" /\ sweep[s].mail = "back" =>
        rule.onUp /\ sweep[s].read.told /\ ~sweep[s].new.told

BalanceInv ==
    /\ (\A s \in Sweeps : sweep[s].pc # "storing") => Balanced(state)
    /\ \A s \in Sweeps : sweep[s].pc = "storing" => Balanced(sweep[s].new)

\* A sweep that found the honeypot up has the outage still to be forgotten.
FoundUp(s) ==
    sweep[s].reached /\ sweep[s].pc \in {"reading", "evaluating", "sending", "storing"}
SaidInv ==
    /\ (\A s \in Sweeps : ~FoundUp(s)) => Said(state)
    /\ \A s \in Sweeps : sweep[s].pc = "storing" => Said(sweep[s].new)

\* What was dispatched is what was heard, or something is lost; a rule without
\* "it's back" dispatches nothing else in an outage.
HeardInv ==
    /\ mails.heard \in {mails.said, "lost"}
    /\ ~rule.onUp /\ mails.downThisOutage > 0 => mails.said = "down"

OwnerInv ==
    /\ BackInv
    /\ HeardInv
    /\ IF rule.onUp THEN BalanceInv ELSE SaidInv

\* Every step keeps what was told and what is remembered of it in balance.
LEMMA OwnerStep ==
    ASSUME OneSweep, TypeOK, NoCheckRuns, IInv, OwnerInv, [Next]_vars, OnlySweeps'
    PROVE  OwnerInv'
<1> USE DEF OwnerInv
<1>0. /\ mails.downThisOutage \in Nat
      /\ mails \in Mails /\ sweep \in [Sweeps -> SweepTask]
  BY DEF TypeOK, Mails
<1>1. ASSUME UNCHANGED <<rule, state, sweep, mails>> PROVE OwnerInv'
  BY <1>1 DEF BackInv, BalanceInv, SaidInv, Balanced, Said, FoundUp, HeardInv
<1>2. CASE Tick \/ Flip \/ ToggleWindow \/ Acknowledge \/ UNCHANGED vars
  BY <1>1, <1>2 DEF Tick, Flip, ToggleWindow, Acknowledge, vars
\* A sweep on its way to the row: what is told and stored stays.
<1>3. ASSUME NEW s \in Sweeps, UNCHANGED <<rule, state, mails>>, ~FoundUp(s),
             sweep[s].pc # "storing", sweep'[s].pc \in {"idle", "probing", "recording"}
      PROVE  OwnerInv'
  <2>1. \A t \in Sweeps : t = s
    BY DEF OneSweep
  <2> QED
    BY <1>3, <2>1 DEF BackInv, BalanceInv, SaidInv, Balanced, Said, FoundUp, HeardInv
<1>4. ASSUME NEW s \in Sweeps, BeginSweep(s) \/ Probe(s) PROVE OwnerInv'
  <2>1. /\ sweep[s].pc \in {"idle", "probing"} /\ sweep'[s].pc \in {"probing", "recording"}
        /\ UNCHANGED <<rule, state, mails>>
    BY <1>0, <1>4 DEF BeginSweep, Probe, NoSweep, SweepTask
  <2> QED
    BY <1>3, <2>1 DEF FoundUp
<1>5. ASSUME NEW s \in Sweeps, Record(s) PROVE OwnerInv'
  <2>1. \A t \in Sweeps : t = s
    BY DEF OneSweep
  <2>2. /\ sweep[s].pc = "recording" /\ sweep'[s].pc = "reading"
        /\ sweep'[s].reached = sweep[s].reached /\ UNCHANGED <<rule, state>>
    BY <1>0, <1>5 DEF Record, SweepTask
  <2>3. /\ mails'.said = mails.said /\ mails'.heard = mails.heard
        /\ ~sweep[s].reached => mails'.downThisOutage = mails.downThisOutage
        /\ mails'.downThisOutage \in {0, mails.downThisOutage}
    BY <1>0, <1>5 DEF Record, Recorded, Mails
  <2>4. HeardInv'
    BY <1>0, <2>2, <2>3 DEF HeardInv
  <2> QED
    BY <2>1, <2>2, <2>3, <2>4 DEF BackInv, BalanceInv, SaidInv, Balanced, Said, FoundUp
<1>6. ASSUME NEW s \in Sweeps, ReadState(s) PROVE OwnerInv'
  <2>1. \A t \in Sweeps : t = s
    BY DEF OneSweep
  <2>2. /\ sweep[s].pc = "reading" /\ sweep'[s].pc = "evaluating"
        /\ sweep'[s].reached = sweep[s].reached /\ UNCHANGED <<rule, state, mails>>
    BY <1>0, <1>6 DEF ReadState, SweepTask
  <2> QED
    BY <2>1, <2>2 DEF BackInv, BalanceInv, SaidInv, Balanced, Said, FoundUp, HeardInv
<1>7. ASSUME NEW s \in Sweeps, Evaluate(s) PROVE OwnerInv'
  <2>1. \A t \in Sweeps : t = s
    BY DEF OneSweep
  <2>2. UNCHANGED <<rule, state, mails>> /\ sweep[s].pc = "evaluating"
    BY <1>7 DEF Evaluate
  <2>3. sweep[s].read = state
    BY <2>1, <2>2 DEF IInv, ReadInv
  <2>4. /\ state.told \in BOOLEAN /\ state.toldBack \in BOOLEAN /\ sweep[s].reached \in BOOLEAN
        /\ rule.onUp \in BOOLEAN
    BY <1>0, ConstantsAssumption DEF TypeOK, State, SweepTask, ConstantsAssumption, Rule
  <2>5. ASSUME NEW pc \in {"sending", "storing"}, NEW mail \in Mail, NEW told \in BOOLEAN,
               NEW toldBack \in BOOLEAN, Decide(s, pc, mail, told, toldBack),
               \/ pc = "sending" /\ mail = "down"
               \/ pc = "sending" /\ mail = "back" /\ rule.onUp /\ state.told /\ ~told
               \/ pc = "storing" /\ ~rule.onUp /\ ~told
               \/ pc = "storing" /\ ~sweep[s].reached /\ told = state.told
        PROVE  OwnerInv'
    <3>1. /\ sweep'[s].pc = pc /\ sweep'[s].mail = mail /\ sweep'[s].new.told = told
          /\ sweep'[s].read = sweep[s].read /\ sweep'[s].reached = sweep[s].reached
      BY <1>0, <2>5 DEF Decide, SweepTask
    <3>2. BackInv'
      BY <2>1, <2>2, <2>3, <2>5, <3>1 DEF BackInv
    <3>3. BalanceInv /\ rule.onUp => BalanceInv'
      BY <2>1, <2>2, <2>5, <3>1 DEF BalanceInv, Balanced
    <3>4. SaidInv /\ ~rule.onUp => SaidInv'
      BY <2>1, <2>2, <2>5, <3>1 DEF SaidInv, Said, FoundUp
    <3>5. HeardInv'
      BY <2>2 DEF HeardInv
    <3> QED
      BY <2>2, <3>2, <3>3, <3>4, <3>5
  <2>6. ASSUME sweep' = [sweep EXCEPT ![s] = NoSweep],
               sweep[s].reached /\ ~rule.onUp => ~state.told
        PROVE  OwnerInv'
    <3>1. sweep'[s].pc = "idle"
      BY <1>0, <2>6 DEF NoSweep
    <3>2. BackInv' /\ (BalanceInv => BalanceInv')
      BY <2>1, <2>2, <3>1 DEF BackInv, BalanceInv, Balanced
    <3>3. SaidInv /\ ~rule.onUp => SaidInv'
      BY <2>1, <2>2, <2>6, <3>1 DEF SaidInv, Said, FoundUp
    <3>4. HeardInv'
      BY <2>2 DEF HeardInv
    <3> QED
      BY <2>2, <3>2, <3>3, <3>4
  <2>7. CASE AnnounceBack(s) /\ Decide(s, "sending", "back", FALSE, TRUE)
    BY <2>3, <2>5, <2>7 DEF AnnounceBack, Mail
  <2>8. CASE AnnounceDown(s) /\ Decide(s, "sending", "down", TRUE, FALSE)
    BY <2>5, <2>8 DEF Mail
  <2>9. CASE Forgets(s) /\ Decide(s, "storing", "none", FALSE, sweep[s].read.toldBack)
    BY <2>3, <2>4, <2>5, <2>9 DEF Forgets, Mail
  <2>10. CASE ~sweep[s].reached /\ Decide(s, "storing", "none", sweep[s].read.told, FALSE)
    BY <2>3, <2>4, <2>5, <2>10 DEF Mail
  <2>11. CASE ~Forgets(s) /\ sweep' = [sweep EXCEPT ![s] = NoSweep]
    BY <2>3, <2>6, <2>11 DEF Forgets
  <2> QED
    BY <1>7, <2>7, <2>8, <2>9, <2>10, <2>11 DEF Evaluate
<1>8. ASSUME NEW s \in Sweeps, Send(s) PROVE OwnerInv'
  <2>1. \A t \in Sweeps : t = s
    BY DEF OneSweep
  <2>2. /\ sweep[s].pc = "sending" /\ sweep'[s].pc = "storing"
        /\ sweep'[s].reached = sweep[s].reached /\ sweep'[s].read = sweep[s].read
        /\ sweep'[s].new = sweep[s].new /\ UNCHANGED <<rule, state>>
    BY <1>0, <1>8 DEF Send, SweepTask
  <2>3. sweep[s].read = state
    BY <2>1, <2>2 DEF IInv, ReadInv
  <2>4. BackInv'
    BY <2>1, <2>2 DEF BackInv
  <2>5. CASE sweep[s].mail = "down"
    <3>1. ~sweep[s].reached /\ ~state.told /\ sweep[s].new.told
      BY <2>2, <2>3, <2>5 DEF IInv, SendInv
    <3>2. mails'.said = "down" /\ mails'.downThisOutage = mails.downThisOutage + 1
      BY <1>0, <1>8, <2>5 DEF Send, Mails
    <3>3. BalanceInv => BalanceInv'
      BY <2>1, <2>2, <3>1, <3>2 DEF BalanceInv, Balanced
    <3>4. SaidInv'
      BY <1>0, <2>1, <2>2, <3>1, <3>2 DEF SaidInv, Said
    <3>5. mails'.heard \in {"down", "lost"}
      BY <1>0, <1>8, <2>5 DEF Send, Mails, Heard
    <3>6. HeardInv'
      BY <3>2, <3>5 DEF HeardInv
    <3> QED
      BY <2>2, <2>4, <3>3, <3>4, <3>6
  <2>6. CASE sweep[s].mail # "down"
    <3>1. sweep[s].mail = "back"
      BY <2>2, <2>6 DEF IInv, SendInv
    <3>2. rule.onUp /\ state.told /\ ~sweep[s].new.told
      BY <2>2, <2>3, <3>1 DEF BackInv
    <3>3. mails'.said = "back"
      BY <1>0, <1>8, <2>6 DEF Send, Mails
    <3>4. BalanceInv => BalanceInv'
      BY <2>1, <2>2, <3>2, <3>3 DEF BalanceInv, Balanced
    <3>5. mails'.heard \in {"back", "lost"}
      BY <1>0, <1>8, <2>6 DEF Send, Mails, Heard
    <3>6. HeardInv'
      BY <2>2, <3>2, <3>3, <3>5 DEF HeardInv
    <3> QED
      BY <2>2, <2>4, <3>2, <3>4, <3>6
  <2> QED
    BY <2>5, <2>6
<1>9. ASSUME NEW s \in Sweeps, Store(s) PROVE OwnerInv'
  <2>1. \A t \in Sweeps : t = s
    BY DEF OneSweep
  <2>2. /\ sweep[s].pc = "storing" /\ sweep'[s].pc = "idle" /\ UNCHANGED <<rule, mails>>
    BY <1>0, <1>9 DEF Store, NoSweep
  <2>3. state'.told = sweep[s].new.told
    BY <1>9, StoreLeaves DEF IInv
  <2> QED
    BY <2>1, <2>2, <2>3 DEF BackInv, BalanceInv, SaidInv, Balanced, Said, HeardInv
<1>10. /\ \A s \in Sweeps : ~SweepDies(s)
       /\ \A c \in Checks : ~BeginCheck(c) /\ ~ProbeByHand(c) /\ ~RecordByHand(c)
  BY QuietStep
<1> QED
  BY <1>2, <1>4, <1>5, <1>6, <1>7, <1>8, <1>9, <1>10 DEF Next

\* A sweep that passes an overdue outage over read that it was told.
LEMMA PassesOver ==
    ASSUME OneSweep, TypeOK, NoCheckRuns, IInv, OwnerInv, [Next]_vars, OnlySweeps',
           NEW s \in Sweeps, LeavesOverdueOutage(s)
    PROVE  DownWasSaid /\ mails.heard \in {"down", "lost"}
<1>0. /\ mails.downThisOutage \in Nat
      /\ sweep \in [Sweeps -> SweepTask]
  BY DEF TypeOK, Mails
<1>1. sweep[s].pc = "evaluating" /\ sweep'[s].pc = "idle" /\ ~sweep[s].reached
  BY DEF LeavesOverdueOutage
<1>2. \A t \in Sweeps : t = s
  BY DEF OneSweep
<1>3. Evaluate(s)
  <2>1. sweep' # sweep
    BY <1>1
  <2>2. \A t \in Sweeps : ~BeginSweep(t) /\ ~Probe(t) /\ ~Record(t) /\ ~ReadState(t)
                         /\ ~Send(t) /\ ~Store(t)
    BY <1>0, <1>1, <1>2 DEF BeginSweep, Probe, Record, ReadState, Send, Store, SweepTask
  <2>3. /\ \A t \in Sweeps : ~SweepDies(t)
        /\ \A c \in Checks : ~BeginCheck(c) /\ ~ProbeByHand(c) /\ ~RecordByHand(c)
    BY QuietStep
  <2> QED
    BY <1>2, <2>1, <2>2, <2>3 DEF Next, vars, Tick, Flip, ToggleWindow, Acknowledge
<1>4. ~AnnounceDown(s)
  <2>1. ASSUME NEW pc \in {"sending", "storing"}, NEW mail, NEW told, NEW toldBack,
               Decide(s, pc, mail, told, toldBack)
        PROVE  FALSE
    <3>1. sweep'[s].pc = pc
      BY <1>0, <2>1 DEF Decide, SweepTask
    <3> QED
      BY <1>1, <3>1
  <2> QED
    BY <1>3, <2>1 DEF Evaluate
<1>5. sweep[s].read.told /\ sweep[s].read = state
  BY <1>1, <1>4 DEF AnnounceDown, LeavesOverdueOutage, IInv, ReadInv
<1>6. CASE rule.onUp
  <2>1. Balanced(state)
    BY <1>1, <1>2, <1>6 DEF OwnerInv, BalanceInv
  <2> QED
    BY <1>0, <1>5, <1>6, <2>1 DEF Balanced, DownWasSaid, OwnerInv, HeardInv
<1>7. CASE ~rule.onUp
  <2>1. Said(state)
    BY <1>1, <1>2, <1>7 DEF OwnerInv, SaidInv, FoundUp
  <2> QED
    BY <1>5, <1>7, <2>1 DEF Said, DownWasSaid, OwnerInv, HeardInv
<1> QED
  BY <1>6, <1>7

\* No outage is passed over: with one sweep at a time, and until one dies or
\* somebody checks by hand, a sweep leaves an overdue outage alone only if the
\* rule dispatched "it's down" for it, and as long as nothing that was dispatched
\* is lost, that is what the owner heard last: for every rule, delay, number of
\* flips and acknowledgements (_evaluate_unavailability_notifications, jobs.py).
THEOREM OutageIsAnnouncedAlways == ASSUME OneSweep PROVE Spec => OutageIsAnnounced
<1> DEFINE Knowing == OnlySweeps => OwnerInv
<1>1. Init => Knowing
  BY DEF Init, NoSweep, NoState, OwnerInv, BackInv, BalanceInv, SaidInv, Balanced, Said,
         HeardInv
<1>2. TypeOK /\ QuietInv /\ Knowing /\ [Next]_vars => Knowing'
  <2>1. SUFFICES ASSUME TypeOK, QuietInv, Knowing, [Next]_vars, OnlySweeps' PROVE OwnerInv'
    OBVIOUS
  <2>2. OnlySweeps
    BY <2>1, QuietStep
  <2> QED
    BY <2>1, <2>2, OwnerStep DEF QuietInv
<1>3. TypeOK /\ QuietInv /\ Knowing /\ [Next]_vars =>
          [\A s \in Sweeps : LeavesOverdueOutage(s) /\ OnlySweeps' =>
              DownWasSaid /\ mails.heard \in {"down", "lost"}]_vars
  <2>1. SUFFICES ASSUME TypeOK, QuietInv, Knowing, [Next]_vars, OnlySweeps',
                        NEW s \in Sweeps, LeavesOverdueOutage(s)
                 PROVE  DownWasSaid /\ mails.heard \in {"down", "lost"}
    OBVIOUS
  <2>2. OnlySweeps
    BY <2>1, QuietStep
  <2> QED
    BY <2>1, <2>2, PassesOver DEF QuietInv
<1> QED
  BY <1>1, <1>2, <1>3, QuietInvAlways, TypeCorrect, PTL DEF Spec, OutageIsAnnounced

-----------------------------------------------------------------------------
(* An acknowledgement ends with its outage, however many sweeps and checks    *)
(* overlap.                                                                  *)

\* Whoever is about to record read of the outage and of its acknowledgement.
KnowsOfAck(loaded) == loaded.acked /\ loaded.seen = "down"

AckInv ==
    row.acked /\ ~counts.raced =>
        /\ row.seen = "down"
        /\ \A s \in Sweeps : sweep[s].pc \in {"probing", "recording"} => KnowsOfAck(sweep[s].loaded)
        /\ \A c \in Checks : check[c].pc # "idle" => KnowsOfAck(check[c].loaded)

\* What one record makes of the row: of an acknowledged outage it either ends
\* both, or it leaves both.
LEMMA RecordEndsAck ==
    ASSUME NEW db \in Row, NEW loaded \in Row, NEW reached \in BOOLEAN, NEW now \in 0..MaxClock,
           NEW new \in Row, new.seen = (IF reached THEN "up" ELSE "down"),
           new.acked = StillAcked(loaded, reached)
    PROVE  LET after == Flush(db, loaded, new) IN
           /\ after.acked => db.acked
           /\ after.acked /\ KnowsOfAck(loaded) => after.seen = db.seen
  BY FlushRow DEF KnowsOfAck, StillAcked, Row

LEMMA AckStep == TypeOK /\ AckInv /\ [Next]_vars => AckInv'
<1> SUFFICES ASSUME TypeOK, AckInv, [Next]_vars PROVE AckInv'
  OBVIOUS
<1> USE ConstantsAssumption DEF ConstantsAssumption
<1>0. row \in Row /\ clock \in 0..MaxClock /\ counts \in Counts /\ counts.raced \in BOOLEAN
  BY DEF TypeOK, Counts
<1>1. CASE Tick
  BY <1>1 DEF Tick, AckInv, KnowsOfAck
<1>2. CASE Flip \/ ToggleWindow
  BY <1>0, <1>2 DEF Flip, ToggleWindow, AckInv, KnowsOfAck, Counts
<1>3. CASE Acknowledge
  <2>1. counts'.raced = (counts.raced \/ ~NothingRuns) /\ row'.seen = "down"
        /\ UNCHANGED <<sweep, check>>
    BY <1>0, <1>3 DEF Acknowledge, Counts, Row
  <2> QED
    BY <2>1 DEF AckInv, NothingRuns
<1>4. ASSUME NEW s \in Sweeps, BeginSweep(s) PROVE AckInv'
  <2>1. [NoSweep EXCEPT !.pc = "probing", !.loaded = row].loaded = row
    BY DEF NoSweep
  <2>2. sweep'[s].loaded = row /\ \A t \in Sweeps \ {s} : sweep'[t] = sweep[t]
    BY <1>4, <2>1 DEF BeginSweep, TypeOK
  <2> QED
    BY <1>4, <2>2 DEF BeginSweep, AckInv, KnowsOfAck
<1>5. ASSUME NEW s \in Sweeps, Probe(s) PROVE AckInv'
  BY <1>5 DEF Probe, AckInv, KnowsOfAck, TypeOK, SweepTask
<1>6. ASSUME NEW s \in Sweeps, Record(s) PROVE AckInv'
  <2> DEFINE loaded == sweep[s].loaded
             new == Found(loaded, sweep[s].reached, clock)
  <2>1. loaded \in Row /\ sweep[s].reached \in BOOLEAN /\ new \in Row
    BY <1>0, FoundType DEF TypeOK, SweepTask
  <2>2. new.seen = (IF sweep[s].reached THEN "up" ELSE "down")
        /\ new.acked = StillAcked(loaded, sweep[s].reached)
    BY <2>1 DEF Found, Row
  <2>3. row' = Flush(row, loaded, new) /\ UNCHANGED <<check, counts>>
        /\ sweep'[s].pc = "reading" /\ \A t \in Sweeps \ {s} : sweep'[t] = sweep[t]
    BY <1>6 DEF Record, TypeOK, SweepTask
  <2>4. sweep[s].pc = "recording"
    BY <1>6 DEF Record
  <2> HIDE DEF loaded, new
  <2>5. row'.acked => row.acked /\ (KnowsOfAck(loaded) => row'.seen = row.seen)
    BY <1>0, <2>1, <2>2, <2>3, RecordEndsAck
  <2> QED
    BY <2>3, <2>4, <2>5 DEF AckInv, KnowsOfAck, loaded
<1>7. ASSUME NEW s \in Sweeps,
             ReadState(s) \/ Evaluate(s) \/ Send(s) \/ Store(s) \/ SweepDies(s)
      PROVE  AckInv'
  <2>1. UNCHANGED <<row, check>> /\ counts'.raced = counts.raced
    BY <1>0, <1>7 DEF ReadState, Evaluate, Send, Store, SweepDies, Counts
  <2>2. sweep'[s].pc \notin {"probing", "recording"} /\ \A t \in Sweeps \ {s} : sweep'[t] = sweep[t]
    <3>1. NoSweep.pc = "idle"
      BY DEF NoSweep
    <3>2. CASE Evaluate(s)
      BY <3>1, <3>2 DEF Evaluate, Decide, TypeOK, SweepTask
    <3>3. CASE ReadState(s) \/ Store(s) \/ SweepDies(s)
      BY <3>1, <3>3 DEF ReadState, Store, SweepDies, TypeOK, SweepTask
    <3>4. CASE Send(s)
      <4>1. sweep' = [sweep EXCEPT ![s].pc = "storing"]
        BY <3>4 DEF Send
      <4> QED
        BY <4>1 DEF TypeOK, SweepTask
    <3> QED
      BY <1>7, <3>2, <3>3, <3>4
  <2> QED
    BY <2>1, <2>2 DEF AckInv
<1>8. ASSUME NEW c \in Checks, BeginCheck(c) PROVE AckInv'
  <2>1. [NoCheck EXCEPT !.pc = "probing", !.loaded = row].loaded = row
    BY DEF NoCheck
  <2>2. check'[c].loaded = row /\ \A d \in Checks \ {c} : check'[d] = check[d]
    BY <1>8, <2>1 DEF BeginCheck, TypeOK
  <2>3. counts'.raced = counts.raced
    BY <1>0, <1>8 DEF BeginCheck, Counts
  <2> QED
    BY <1>8, <2>2, <2>3 DEF BeginCheck, AckInv, KnowsOfAck
<1>9. ASSUME NEW c \in Checks, ProbeByHand(c) PROVE AckInv'
  BY <1>9 DEF ProbeByHand, AckInv, KnowsOfAck, TypeOK, CheckTask
<1>10. ASSUME NEW c \in Checks, RecordByHand(c) PROVE AckInv'
  <2> DEFINE loaded == check[c].loaded
             new == FoundByHand(loaded, check[c].reached, clock)
  <2>1. loaded \in Row /\ check[c].reached \in BOOLEAN /\ new \in Row
    BY <1>0, FoundType DEF TypeOK, CheckTask
  <2>2. new.seen = (IF check[c].reached THEN "up" ELSE "down")
        /\ new.acked = StillAcked(loaded, check[c].reached)
    BY <2>1 DEF FoundByHand, Row
  <2>3. row' = Flush(row, loaded, new) /\ UNCHANGED <<sweep, counts>>
        /\ check'[c].pc = "idle" /\ \A d \in Checks \ {c} : check'[d] = check[d]
    BY <1>10 DEF RecordByHand, TypeOK, NoCheck
  <2>4. check[c].pc = "recording"
    BY <1>10 DEF RecordByHand
  <2> HIDE DEF loaded, new
  <2>5. row'.acked => row.acked /\ (KnowsOfAck(loaded) => row'.seen = row.seen)
    BY <1>0, <2>1, <2>2, <2>3, RecordEndsAck
  <2> QED
    BY <2>3, <2>4, <2>5 DEF AckInv, KnowsOfAck, loaded
<1>11. CASE UNCHANGED vars
  BY <1>11 DEF vars, AckInv
<1> QED
  BY <1>1, <1>2, <1>3, <1>4, <1>5, <1>6, <1>7, <1>8, <1>9, <1>10, <1>11 DEF Next

\* "I know about this one" is never carried over into a later outage: the
\* sweep or check that finds the honeypot up takes it back, whichever of those
\* that overlap commits first and however old its copy of the row is
\* (_ping_all_honeypots and _check_honeypot_reachability, jobs.py).
THEOREM AckEndsWithOutageAlways == Spec => []AckEndsWithOutage
<1>1. Init => AckInv
  BY DEF Init, AckInv, NewRow
<1>2. AckInv => AckEndsWithOutage
  BY DEF AckInv, AckEndsWithOutage
<1> QED
  BY <1>1, <1>2, TypeCorrect, AckStep, PTL DEF Spec

=============================================================================
