-------------------------- MODULE BackgroundProofs --------------------------
(* What the worker and Beat do in the background.                            *)
(*                                                                           *)
(* Scheduled tasks: a task is enqueued once for each time it comes due, for  *)
(* any number of tasks, ticks, workers and editors, any set of periods and   *)
(* however long anything takes. The inductive part says where a next_run_at  *)
(* may be that was already enqueued: nowhere but in the row of a task whose  *)
(* tick has sent it and not committed yet; every other one, also one that an *)
(* editor has read or computed and not written, is after all that was sent.  *)
(*                                                                           *)
(* Update runs: every rolling batch implements RollingBatch, and a retry     *)
(* never runs beside what it retries, for any number of batches, honeypots,  *)
(* tasks and messages, whoever dies and whatever is deleted. The inductive   *)
(* part is a token: of each rolling batch one slot at most drives a run, and *)
(* what lies before that run is done with, what lies behind it untouched.    *)
EXTENDS Scheduler, UpdateRollout, TLAPS

Sending(k) == tick[k].pc = "sending"

\* After every occurrence of t that was enqueued.
AfterSent(t, n) == n = NotPlanned \/ \A sent \in seen.sent : sent[1] = t => sent[2] < n

\* Rows, copies and requests have a period where they have a task.
Planned ==
    /\ \A t \in Tasks : IsHere(t) => row[t].period \in Periods
    /\ \A q \in Editors : change[q].task # NoTask =>
          change[q].copy.period \in Periods /\ change[q].new.period \in Periods
    /\ \A k \in Ticks : \A t \in tick[k].due : tick[k].copy[t].period \in Periods

\* A tick reads what is due by now, and sends from what it has read.
Dated ==
    /\ \A sent \in seen.sent : sent[2] <= now
    /\ \A k \in Ticks :
          /\ tick[k].todo \subseteq tick[k].due
          /\ Sending(k) => tick[k].at <= now
          /\ \A t \in tick[k].due : tick[k].copy[t].next <= tick[k].at /\ Sending(k)

\* One tick at a time, unless something was spoiled.
Alone == \A j, k \in Ticks : Sending(j) /\ Sending(k) => j = k

\* What was sent by the time a tick read was sent before it read.
SentBefore == \A k \in Ticks : Sending(k) => \A sent \in seen.sent : sent[2] <= tick[k].at

\* What is still to be sent was not sent.
Unsent ==
    \A k \in Ticks : \A t \in tick[k].todo : <<t, tick[k].copy[t].next>> \notin seen.sent

\* The row of t names a time still to come, or the one its tick has just sent.
RowsAhead ==
    \A t \in Tasks :
        \/ AfterSent(t, row[t].next)
        \/ \E k \in Ticks : t \in tick[k].due

\* So does what an editor is going to write, even after the tick under way.
EditsAhead ==
    \A q \in Editors : change[q].task # NoTask =>
        /\ AfterSent(change[q].task, change[q].new.next)
        /\ \A k \in Ticks : change[q].task \in tick[k].due =>
              \/ change[q].new.next = NotPlanned
              \/ tick[k].at < change[q].new.next

Undisturbed == Alone /\ SentBefore /\ Unsent /\ RowsAhead /\ EditsAhead

IInv ==
    /\ TypeOK /\ Planned /\ Dated
    /\ ~seen.spoiled => Undisturbed /\ ~seen.twice

-----------------------------------------------------------------------------
(* What is planned *)

\* The next run is strictly after the given minute (compute_next_run).
LEMMA NextRunIsLater ==
    ASSUME NEW p \in Nat \ {0}, NEW n \in Nat
    PROVE  NextRun(p, n) \in Nat /\ n < NextRun(p, n)
<1>1. n \div p \in Nat /\ n = p * (n \div p) + (n % p) /\ n % p < p
  OBVIOUS
<1>2. NextRun(p, n) = p * (n \div p) + p
  BY <1>1 DEF NextRun
<1>3. p * (n \div p) \in Nat
  BY <1>1
<1> QED
  BY <1>1, <1>2, <1>3

Ahead(n) == n = NotPlanned \/ now < n

\* A row as the routes plan it anew.
LEMMA PlanIsAhead ==
    ASSUME ConstantsAreSound, now \in Nat, NEW r \in Row, NEW enabled \in BOOLEAN,
           NEW p \in Periods
    PROVE  /\ Plan(r, enabled, p) \in Row
           /\ Plan(r, enabled, p).period = p
           /\ Plan(r, enabled, p).state = r.state
           /\ Ahead(Plan(r, enabled, p).next)
<1>1. p \in Nat \ {0}
  BY DEF ConstantsAreSound
<1>2. NextRun(p, now) \in Nat /\ now < NextRun(p, now)
  BY <1>1, NextRunIsLater
<1> QED
  BY <1>2 DEF Plan, Row, Ahead, NotPlanned

\* What the editors do: a row that appears, and a change that is asked for.
Appears(t) ==
    /\ CountEdit
    /\ row[t].state = "new"
    /\ \E new \in Row :
          /\ new.state = "here" /\ new.period \in Periods /\ Ahead(new.next)
          /\ row' = [row EXCEPT ![t] = new]
    /\ seen' = [seen EXCEPT !.edits = @ + 1]
    /\ UNCHANGED <<queue, tick, worker, change, now>>

Asks(q, t) ==
    \E new \in Row : new.period \in Periods /\ Ahead(new.next) /\ Request(q, t, new)

LEMMA EditingSteps ==
    ASSUME ConstantsAreSound, TypeOK, Planned, Editing
    PROVE  \E t \in Tasks :
              \/ Appears(t) \/ RunNow(t) \/ DeleteTask(t)
              \/ \E q \in Editors : Asks(q, t)
<1> USE DEF TypeOK
<1>n. now \in Nat
  BY DEF ConstantsAreSound
<1>1. ASSUME NEW t \in Tasks, NEW enabled \in BOOLEAN, NEW p \in Periods,
             CreateTask(t, enabled, p)
      PROVE  Appears(t)
  <2> DEFINE r == [row[t] EXCEPT !.state = "here"]
  <2>1. r \in Row /\ r.state = "here"
    BY DEF Row
  <2> HIDE DEF r
  <2>2. row' = [row EXCEPT ![t] = Plan(r, enabled, p)]
    BY <1>1 DEF CreateTask, r
  <2>3. /\ Plan(r, enabled, p) \in Row /\ Plan(r, enabled, p).state = "here"
        /\ Plan(r, enabled, p).period \in Periods /\ Ahead(Plan(r, enabled, p).next)
    BY <1>n, <2>1, PlanIsAhead
  <2>4. /\ CountEdit /\ row[t].state = "new"
        /\ seen' = [seen EXCEPT !.edits = @ + 1]
        /\ UNCHANGED <<queue, tick, worker, change, now>>
    BY <1>1 DEF CreateTask
  <2> QED
    BY <2>2, <2>3, <2>4 DEF Appears
<1>2. ASSUME NEW t \in Tasks, NEW q \in Editors, NEW enabled \in BOOLEAN, NEW p \in Periods,
             Request(q, t, Plan(row[t], enabled, p))
      PROVE  Asks(q, t)
  <2>1. row[t] \in Row
    OBVIOUS
  <2> QED
    BY <1>2, <1>n, <2>1, PlanIsAhead DEF Asks
<1>3. ASSUME NEW t \in Tasks, NEW q \in Editors,
             ToggleTask(q, t) \/ EnableTask(q, t) \/ DisableTask(q, t)
      PROVE  Asks(q, t)
  <2>0. IsHere(t)
    BY <1>3, Zenon DEF ToggleTask, EnableTask, DisableTask, Request
  <2>1. row[t].period \in Periods
    BY <2>0 DEF Planned
  <2>2. (~row[t].enabled) \in BOOLEAN
    OBVIOUS
  <2> QED
    BY <1>2, <1>3, <2>1, <2>2 DEF ToggleTask, EnableTask, DisableTask
<1> QED
  BY <1>1, <1>2, <1>3
     DEF Editing, CreateTaskApi, UpdateTask, RunNowApi, DeleteTaskApi

\* A request copies a row and asks for a planned one, of a task that is there.
LEMMA AskedOf ==
    ASSUME NEW q \in Editors, NEW t \in Tasks, Asks(q, t)
    PROVE  \E new \in Row :
              /\ new.period \in Periods /\ Ahead(new.next)
              /\ IsHere(t)
              /\ change[q].task = NoTask
              /\ change' = [change EXCEPT ![q] = [task |-> t, copy |-> row[t], new |-> new]]
              /\ seen.edits < MaxEdits /\ seen' = [seen EXCEPT !.edits = @ + 1]
              /\ UNCHANGED <<row, queue, tick, worker, now>>
BY Zenon DEF Asks, Request, CountEdit

-----------------------------------------------------------------------------
(* Type correctness *)

LEMMA AdvancedRow ==
    ASSUME ConstantsAreSound, TypeOK, Planned, NEW k \in Ticks, NEW t \in tick[k].due
    PROVE  Advanced(t, k) \in Row /\ Advanced(t, k).state = row[t].state
           /\ Advanced(t, k).period = row[t].period
           /\ tick[k].at < Advanced(t, k).next
<1>1. tick[k] \in Tick /\ t \in Tasks /\ tick[k].at \in Nat
  BY DEF TypeOK, Tick, ConstantsAreSound
<1>2. tick[k].copy[t].period \in Nat \ {0}
  BY DEF Planned, ConstantsAreSound
<1>3. /\ NextRun(tick[k].copy[t].period, tick[k].at) \in Nat
      /\ tick[k].at < NextRun(tick[k].copy[t].period, tick[k].at)
  BY <1>1, <1>2, NextRunIsLater
<1>4. row[t] \in Row
  BY <1>1 DEF TypeOK
<1> QED
  BY <1>3, <1>4 DEF Advanced, Row

\* The row a flush leaves: of each column what was asked for, or what is there.
LEMMA WrittenRow ==
    ASSUME NEW r \in Row, NEW copy \in Row, NEW new \in Row
    PROVE  /\ Flushed(r, copy, new) \in Row
           /\ Flushed(r, copy, new).state = r.state
           /\ Flushed(r, copy, new).period \in {r.period, new.period}
           /\ Flushed(r, copy, new).next \in {r.next, new.next}
<1>1. Written(copy.enabled, new.enabled, r.enabled) \in BOOLEAN
  BY DEF Written, Row
<1>2. Written(copy.period, new.period, r.period) \in {r.period, new.period}
  BY DEF Written
<1>3. Written(copy.next, new.next, r.next) \in {r.next, new.next}
  BY DEF Written
<1> QED
  BY <1>1, <1>2, <1>3 DEF Row, Flushed

Seen == [edits : 0..MaxEdits, deaths : 0..MaxDeaths, sent : SUBSET (Tasks \X Nat),
         twice : BOOLEAN, spoiled : BOOLEAN]

LEMMA TypeStep ==
    ASSUME ConstantsAreSound, TypeOK, Planned, Dated, Next
    PROVE  TypeOK'
<1> USE DEF TypeOK
<1>s. seen \in Seen
  BY DEF Seen
<1>b. 0 \in Nat /\ 0 \in 0..MaxClock /\ NotPlanned \in Nat /\ Blank \in Row /\ NoTick \in Tick
      /\ NoChange \in Change /\ now \in Nat
  BY DEF ConstantsAreSound, NotPlanned, Blank, Row, NoTick, Tick, NoChange, Change
<1>e. ASSUME seen.edits < MaxEdits, seen' = [seen EXCEPT !.edits = @ + 1]
      PROVE  seen' \in Seen
  BY <1>s, <1>e DEF Seen, ConstantsAreSound
<1>q. ASSUME NEW t \in Tasks, queue[t] < MaxQueue, queue' = [queue EXCEPT ![t] = @ + 1]
      PROVE  queue' \in [Tasks -> 0..MaxQueue]
  <2>1. queue[t] + 1 \in 0..MaxQueue
    BY <1>q DEF ConstantsAreSound
  <2> QED
    BY <1>q, <2>1
<1>r. (TypeOK' <=> /\ row' \in [Tasks -> Row]
                   /\ queue' \in [Tasks -> 0..MaxQueue]
                   /\ tick' \in [Ticks -> Tick]
                   /\ worker' \in [Workers -> Tasks \cup {NoTask}]
                   /\ change' \in [Editors -> Change]
                   /\ now' \in 0..MaxClock
                   /\ seen' \in Seen)
  BY DEF Seen
<1>1. ASSUME NEW k \in Ticks, TickReads(k) PROVE TypeOK'
  <2>1. [t \in Tasks |-> IF t \in Due THEN row[t] ELSE Blank] \in [Tasks -> Row]
    BY <1>b
  <2>2. Due \in SUBSET Tasks
    BY DEF Due
  <2>3. [pc |-> "sending", at |-> now, due |-> Due, todo |-> Due,
         copy |-> [t \in Tasks |-> IF t \in Due THEN row[t] ELSE Blank]] \in Tick
    BY <2>1, <2>2 DEF Tick
  <2>4. tick' \in [Ticks -> Tick]
    BY <1>1, <2>3 DEF TickReads
  <2>5. seen' \in Seen
    <3> DEFINE s == \/ seen.spoiled
                    \/ \E j \in Ticks \ {k} : tick[j].pc # "idle"
                    \/ \E q \in Editors : change[q].task \in Due
    <3>1. s \in BOOLEAN
      OBVIOUS
    <3>2. seen' = [seen EXCEPT !.spoiled = s]
      BY <1>1 DEF TickReads
    <3> HIDE DEF s
    <3> QED
      BY <1>s, <3>1, <3>2 DEF Seen
  <2> QED
    BY <1>r, <1>1, <2>4, <2>5 DEF TickReads
<1>2. ASSUME NEW k \in Ticks, TickSends(k) PROVE TypeOK'
  <2>1. PICK t \in tick[k].todo :
           /\ queue[t] < MaxQueue
           /\ queue' = [queue EXCEPT ![t] = @ + 1]
           /\ tick' = [tick EXCEPT ![k].todo = @ \ {t}]
           /\ seen' = [seen EXCEPT !.sent = @ \cup {<<t, tick[k].copy[t].next>>},
                          !.twice = @ \/ <<t, tick[k].copy[t].next>> \in seen.sent]
           /\ UNCHANGED <<row, worker, change, now>>
    BY <1>2 DEF TickSends
  <2>2. tick[k] \in Tick /\ t \in Tasks /\ tick[k].copy[t] \in Row
    BY DEF Tick
  <2>3. tick' \in [Ticks -> Tick]
    BY <2>1, <2>2 DEF Tick
  <2>4. <<t, tick[k].copy[t].next>> \in Tasks \X Nat
    BY <2>2 DEF Row
  <2>5. seen' \in Seen
    <3> DEFINE s == seen.twice \/ <<t, tick[k].copy[t].next>> \in seen.sent
               o == seen.sent \cup {<<t, tick[k].copy[t].next>>}
    <3>1. s \in BOOLEAN
      BY <1>s DEF Seen
    <3>2. o \in SUBSET (Tasks \X Nat)
      BY <1>s, <2>4 DEF Seen
    <3>3. seen' = [seen EXCEPT !.sent = o, !.twice = s]
      BY <2>1
    <3> HIDE DEF s, o
    <3> QED
      BY <1>s, <3>1, <3>2, <3>3 DEF Seen
  <2>6. queue' \in [Tasks -> 0..MaxQueue]
    BY <1>q, <2>1, <2>2
  <2> QED
    BY <1>r, <2>1, <2>3, <2>5, <2>6
<1>3. ASSUME NEW k \in Ticks, TickCommits(k) PROVE TypeOK'
  <2>1. row' \in [Tasks -> Row]
    BY <1>3, AdvancedRow DEF TickCommits
  <2>2. tick' \in [Ticks -> Tick]
    BY <1>3, <1>b DEF TickCommits
  <2> QED
    BY <1>r, <1>s, <1>3, <2>1, <2>2 DEF TickCommits
<1>4. ASSUME NEW k \in Ticks, TickRaises(k) \/ TickDies(k) PROVE TypeOK'
  <2>1. tick' \in [Ticks -> Tick]
    BY <1>4, <1>b DEF TickRaises, TickDies
  <2>2. CASE TickRaises(k)
    <3>1. seen' \in Seen
      BY <2>2, <1>s DEF Seen, TickRaises
    <3> QED
      BY <1>r, <2>1, <2>2, <3>1 DEF TickRaises
  <2>3. CASE TickDies(k)
    <3>1. seen.deaths + 1 \in 0..MaxDeaths
      BY <2>3, <1>s DEF Seen, TickDies, ConstantsAreSound
    <3>2. seen' \in Seen
      BY <2>3, <1>s, <3>1 DEF Seen, TickDies
    <3> QED
      BY <1>r, <2>1, <2>3, <3>2 DEF TickDies
  <2> QED
    BY <1>4, <2>2, <2>3
<1>5. CASE Execution
  <2>1. ASSUME NEW w \in Workers, NEW t \in Tasks, RunTask(w, t)
        PROVE  queue' \in [Tasks -> 0..MaxQueue] /\ worker' \in [Workers -> Tasks \cup {NoTask}]
    <3>1. queue[t] - 1 \in 0..MaxQueue
      BY <2>1 DEF RunTask, ConstantsAreSound
    <3> QED
      BY <2>1, <3>1 DEF RunTask
  <2> QED
    BY <1>r, <1>s, <1>5, <2>1 DEF Execution, TaskEnds, RunTask
<1>6. ASSUME NEW t \in Tasks, Appears(t) PROVE TypeOK'
  BY <1>r, <1>e, <1>6 DEF Appears, CountEdit
<1>7. ASSUME NEW q \in Editors, NEW t \in Tasks, Asks(q, t) PROVE TypeOK'
  <2>1. PICK new \in Row :
              /\ change' = [change EXCEPT ![q] = [task |-> t, copy |-> row[t], new |-> new]]
              /\ seen.edits < MaxEdits /\ seen' = [seen EXCEPT !.edits = @ + 1]
              /\ UNCHANGED <<row, queue, tick, worker, now>>
    BY <1>7, AskedOf
  <2>2. [task |-> t, copy |-> row[t], new |-> new] \in Change
    BY DEF Change
  <2> QED
    BY <1>r, <1>e, <2>1, <2>2
<1>8. ASSUME NEW t \in Tasks, RunNow(t) PROVE TypeOK'
  <2>1. queue' \in [Tasks -> 0..MaxQueue]
    BY <1>q, <1>8 DEF RunNow
  <2> QED
    BY <1>r, <1>e, <1>8, <2>1 DEF RunNow, CountEdit
<1>9. ASSUME NEW t \in Tasks, DeleteTask(t) PROVE TypeOK'
  <2>1. [Blank EXCEPT !.state = "gone"] \in Row
    BY <1>b DEF Row
  <2>2. row' \in [Tasks -> Row]
    BY <1>9, <2>1 DEF DeleteTask
  <2> QED
    BY <1>r, <1>e, <1>9, <2>2 DEF DeleteTask, CountEdit
<1>10. ASSUME NEW q \in Editors, CommitTask(q) PROVE TypeOK'
  <2>1. change' \in [Editors -> Change]
    BY <1>10, <1>b DEF CommitTask
  <2>2. change[q].task \in Tasks /\ change[q].copy \in Row /\ change[q].new \in Row
    BY <1>10 DEF CommitTask, Change
  <2>3. row' \in [Tasks -> Row]
    <3>1. /\ row[change[q].task] \in Row
          /\ Flushed(row[change[q].task], change[q].copy, change[q].new) \in Row
      BY <2>2, WrittenRow
    <3> QED
      BY <1>10, <3>1 DEF CommitTask
  <2> QED
    BY <1>r, <1>s, <1>10, <2>1, <2>3 DEF CommitTask
<1>11. CASE Minute
  <2>1. now' \in 0..MaxClock
    BY <1>11 DEF Minute, ConstantsAreSound
  <2> QED
    BY <1>r, <1>s, <1>11, <2>1 DEF Minute
<1> QED
  BY <1>1, <1>2, <1>3, <1>4, <1>5, <1>6, <1>7, <1>8, <1>9, <1>10, <1>11, EditingSteps
     DEF Next, TickStep

-----------------------------------------------------------------------------
(* Periods and dates *)

LEMMA PlannedStep ==
    ASSUME ConstantsAreSound, TypeOK, Planned, Dated, Next
    PROVE  Planned'
<1> USE DEF TypeOK, Planned, IsHere
<1>1. ASSUME NEW k \in Ticks, TickReads(k) PROVE Planned'
  <2>1. \A t \in Due : row[t].period \in Periods
    BY DEF Due, IsDue
  <2>2. Due \subseteq Tasks
    BY DEF Due
  <2>3. \A j \in Ticks : \A t \in tick'[j].due : tick'[j].copy[t].period \in Periods
    BY <1>1, <2>1, <2>2 DEF TickReads
  <2> QED
    BY <1>1, <2>3 DEF TickReads
<1>2. ASSUME NEW k \in Ticks, TickSends(k) PROVE Planned'
  <2>1. \A j \in Ticks : tick'[j].due = tick[j].due /\ tick'[j].copy = tick[j].copy
    BY <1>2 DEF TickSends
  <2> QED
    BY <1>2, <2>1 DEF TickSends
<1>3. ASSUME NEW k \in Ticks, TickCommits(k) PROVE Planned'
  <2>1. \A t \in Tasks : row'[t].state = row[t].state /\ row'[t].period = row[t].period
    BY <1>3, AdvancedRow DEF TickCommits
  <2>2. \A j \in Ticks : j # k => tick'[j] = tick[j]
    BY <1>3 DEF TickCommits
  <2>3. tick'[k].due = {}
    BY <1>3 DEF TickCommits, NoTick
  <2> QED
    BY <1>3, <2>1, <2>2, <2>3 DEF TickCommits
<1>4. ASSUME NEW k \in Ticks, TickRaises(k) \/ TickDies(k) PROVE Planned'
  <2>1. UNCHANGED <<row, change>> /\ tick' = [tick EXCEPT ![k] = NoTick]
    BY <1>4 DEF TickRaises, TickDies
  <2>2. \A j \in Ticks : j # k => tick'[j] = tick[j]
    BY <2>1
  <2>3. tick'[k].due = {}
    BY <2>1 DEF NoTick
  <2> QED
    BY <2>1, <2>2, <2>3
<1>5. CASE Execution
  BY <1>5 DEF Execution, TaskEnds, RunTask
<1>6. ASSUME NEW t \in Tasks, Appears(t) PROVE Planned'
  BY <1>6 DEF Appears
<1>7. ASSUME NEW q \in Editors, NEW t \in Tasks, Asks(q, t) PROVE Planned'
  <2>1. PICK new \in Row :
              /\ new.period \in Periods /\ IsHere(t)
              /\ change' = [change EXCEPT ![q] = [task |-> t, copy |-> row[t], new |-> new]]
              /\ UNCHANGED <<row, queue, tick, worker, now>>
    BY <1>7, AskedOf
  <2> QED
    BY <2>1
<1>8. ASSUME NEW t \in Tasks, RunNow(t) PROVE Planned'
  BY <1>8 DEF RunNow
<1>9. ASSUME NEW t \in Tasks, DeleteTask(t) PROVE Planned'
  BY <1>9 DEF DeleteTask, Blank
<1>10. ASSUME NEW q \in Editors, CommitTask(q) PROVE Planned'
  <2>1. change[q].task \in Tasks /\ change[q].copy \in Row /\ change[q].new \in Row
    BY <1>10 DEF CommitTask, Change
  <2> DEFINE f == Flushed(row[change[q].task], change[q].copy, change[q].new)
  <2>2. /\ f.state = row[change[q].task].state
        /\ f.period \in {row[change[q].task].period, change[q].new.period}
    BY <2>1, WrittenRow
  <2> HIDE DEF f
  <2>3. row' = [row EXCEPT ![change[q].task] = IF IsHere(change[q].task) THEN f ELSE @]
    BY <1>10 DEF CommitTask, f
  <2>4. \A t \in Tasks : row'[t].state = "here" => row'[t].period \in Periods
    BY <2>1, <2>2, <2>3, <1>10 DEF CommitTask
  <2>5. change' = [change EXCEPT ![q] = NoChange]
    BY <1>10 DEF CommitTask
  <2>6. \A p \in Editors : change'[p].task # NoTask => p # q /\ change'[p] = change[p]
    BY <2>5 DEF NoChange
  <2> QED
    BY <1>10, <2>4, <2>6 DEF CommitTask
<1>11. CASE Minute
  BY <1>11 DEF Minute
<1> QED
  BY <1>1, <1>2, <1>3, <1>4, <1>5, <1>6, <1>7, <1>8, <1>9, <1>10, <1>11, EditingSteps
     DEF Next, TickStep

LEMMA DatedStep ==
    ASSUME ConstantsAreSound, TypeOK, Planned, Dated, Next
    PROVE  Dated'
<1> USE DEF TypeOK, Dated, Sending
<1>n. now \in Nat /\ \A sent \in seen.sent : sent[2] \in Nat
  BY DEF ConstantsAreSound
<1>k. \A k \in Ticks : tick[k].at \in Nat
  BY DEF Tick, ConstantsAreSound
<1>0. ASSUME UNCHANGED <<tick, now>>, seen'.sent = seen.sent PROVE Dated'
  BY <1>0
<1>i. ASSUME NEW k \in Ticks, tick' = [tick EXCEPT ![k] = NoTick], seen'.sent = seen.sent,
             UNCHANGED now
      PROVE  Dated'
  <2>1. \A j \in Ticks : j # k => tick'[j] = tick[j]
    BY <1>i
  <2>2. tick'[k] = NoTick
    BY <1>i
  <2> QED
    BY <1>i, <2>1, <2>2 DEF NoTick
<1>1. ASSUME NEW k \in Ticks, TickReads(k) PROVE Dated'
  <2>1. \A j \in Ticks : j # k => tick'[j] = tick[j]
    BY <1>1 DEF TickReads
  <2>2. /\ tick'[k].pc = "sending" /\ tick'[k].at = now
        /\ tick'[k].due = Due /\ tick'[k].todo = Due
    BY <1>1 DEF TickReads
  <2>3. \A t \in Due : tick'[k].copy[t].next <= now
    BY <1>1 DEF TickReads, Due, IsDue
  <2>4. seen'.sent = seen.sent /\ UNCHANGED now
    BY <1>1 DEF TickReads
  <2> QED
    BY <1>n, <2>1, <2>2, <2>3, <2>4
<1>2. ASSUME NEW k \in Ticks, TickSends(k) PROVE Dated'
  <2>1. PICK t \in tick[k].todo :
           /\ tick' = [tick EXCEPT ![k].todo = @ \ {t}]
           /\ seen'.sent = seen.sent \cup {<<t, tick[k].copy[t].next>>}
           /\ UNCHANGED now
    BY <1>2 DEF TickSends
  <2>2. \A j \in Ticks : /\ tick'[j].pc = tick[j].pc /\ tick'[j].due = tick[j].due
                         /\ tick'[j].copy = tick[j].copy /\ tick'[j].at = tick[j].at
                         /\ tick'[j].todo \subseteq tick[j].todo
    BY <2>1
  <2>3. t \in tick[k].due /\ t \in Tasks /\ tick[k].copy[t] \in Row
    BY DEF Tick
  <2>4. tick[k].copy[t].next <= now
    BY <1>n, <1>k, <2>3 DEF Row
  <2> QED
    BY <2>1, <2>2, <2>4
<1>3. ASSUME NEW k \in Ticks, TickCommits(k) PROVE Dated'
  BY <1>i, <1>3 DEF TickCommits
<1>4. ASSUME NEW k \in Ticks, TickRaises(k) \/ TickDies(k) PROVE Dated'
  <2>1. tick' = [tick EXCEPT ![k] = NoTick] /\ seen'.sent = seen.sent /\ UNCHANGED now
    BY <1>4 DEF TickRaises, TickDies
  <2> QED
    BY <1>i, <2>1
<1>5. CASE Execution
  BY <1>0, <1>5 DEF Execution, TaskEnds, RunTask
<1>6. ASSUME NEW t \in Tasks, Appears(t) PROVE Dated'
  BY <1>0, <1>6 DEF Appears
<1>7. ASSUME NEW q \in Editors, NEW t \in Tasks, Asks(q, t) PROVE Dated'
  <2>1. UNCHANGED <<tick, now>> /\ seen' = [seen EXCEPT !.edits = @ + 1]
    BY <1>7, AskedOf
  <2> QED
    BY <1>0, <2>1
<1>8. ASSUME NEW t \in Tasks, RunNow(t) \/ DeleteTask(t) PROVE Dated'
  <2>1. UNCHANGED <<tick, now>> /\ seen' = [seen EXCEPT !.edits = @ + 1]
    BY <1>8 DEF RunNow, DeleteTask
  <2> QED
    BY <1>0, <2>1
<1>9. ASSUME NEW q \in Editors, CommitTask(q) PROVE Dated'
  BY <1>0, <1>9 DEF CommitTask
<1>10. CASE Minute
  <2>1. UNCHANGED <<tick, seen>> /\ now' = now + 1
    BY <1>10 DEF Minute
  <2> QED
    BY <1>n, <1>k, <2>1
<1> QED
  BY <1>1, <1>2, <1>3, <1>4, <1>5, <1>6, <1>7, <1>8, <1>9, <1>10, EditingSteps
     DEF Next, TickStep

-----------------------------------------------------------------------------
(* One occurrence, one message *)

LEMMA UndisturbedStep ==
    ASSUME ConstantsAreSound, IInv, Next, ~seen'.spoiled
    PROVE  Undisturbed' /\ ~seen'.twice
<1> USE DEF TypeOK, Sending
<1>i. TypeOK /\ Planned /\ Dated
  BY DEF IInv
<1>s. ~seen.spoiled
  BY <1>i, EditingSteps
     DEF Next, TickStep, TickReads, TickSends, TickCommits, TickRaises, TickDies, Execution,
         TaskEnds, RunTask, Appears, Asks, Request, RunNow, DeleteTask, CommitTask, Minute
<1>u. Undisturbed /\ ~seen.twice
  BY <1>s DEF IInv
<1> USE DEF Undisturbed, Alone, SentBefore, Unsent, RowsAhead, EditsAhead, AfterSent
<1>n. now \in Nat /\ \A sent \in seen.sent : sent[2] \in Nat
  BY <1>i DEF ConstantsAreSound
<1>k. \A k \in Ticks : tick[k].at \in Nat
  BY <1>i DEF Tick, ConstantsAreSound
\* Nothing is sent, and the ticks stay as they are.
<1>0. ASSUME UNCHANGED <<tick, row, change>>, seen'.sent = seen.sent, seen'.twice = seen.twice
      PROVE  Undisturbed' /\ ~seen'.twice
  BY <1>0, <1>u
<1>1. ASSUME NEW k \in Ticks, TickReads(k) PROVE Undisturbed' /\ ~seen'.twice
  <2>1. /\ \A j \in Ticks : j # k => tick'[j] = tick[j] /\ ~Sending(j)
        /\ \A q \in Editors : change[q].task \notin Due
    <3>1. tick[k].pc = "idle"
      BY <1>1 DEF TickReads
    <3>2. \A j \in Ticks \ {k} : tick[j].pc = "idle"
      BY <1>1, <1>i DEF TickReads
    <3> QED
      BY <1>1, <1>i, <3>2 DEF TickReads
  <2>2. /\ tick'[k].pc = "sending" /\ tick'[k].at = now
        /\ tick'[k].due = Due /\ tick'[k].todo = Due
        /\ \A t \in Due : tick'[k].copy[t].next = row[t].next
    BY <1>1, <1>i DEF TickReads, Due
  <2>3. /\ seen'.sent = seen.sent /\ seen'.twice = seen.twice
        /\ UNCHANGED <<row, change, now>>
    BY <1>1, <1>i DEF TickReads
  <2>4. \A j \in Ticks : tick[j].due = {} /\ tick[j].todo = {}
    BY <1>1, <1>i, <2>1 DEF TickReads, Dated
  <2>5. \A t \in Due : <<t, row[t].next>> \notin seen.sent
    <3>1. \A t \in Due : AfterSent(t, row[t].next) /\ row[t].next # NotPlanned
      BY <1>u, <2>4 DEF Due, IsDue
    <3> QED
      BY <1>n, <3>1
  <2>6. Alone' /\ SentBefore'
    BY <2>1, <2>2, <2>3, <1>i DEF Dated
  <2>7. Unsent'
    BY <2>1, <2>2, <2>3, <2>4, <2>5
  <2>8. RowsAhead' /\ EditsAhead'
    BY <1>u, <2>1, <2>2, <2>3, <2>4
  <2> QED
    BY <1>u, <2>3, <2>6, <2>7, <2>8
<1>2. ASSUME NEW k \in Ticks, TickSends(k) PROVE Undisturbed' /\ ~seen'.twice
  <2>1. PICK t \in tick[k].todo :
           /\ tick' = [tick EXCEPT ![k].todo = @ \ {t}]
           /\ seen' = [seen EXCEPT !.sent = @ \cup {<<t, tick[k].copy[t].next>>},
                          !.twice = @ \/ <<t, tick[k].copy[t].next>> \in seen.sent]
           /\ UNCHANGED <<row, change, now>>
    BY <1>2, Zenon DEF TickSends
  <2> DEFINE n == tick[k].copy[t].next
  <2>2. \A j \in Ticks : /\ tick'[j].pc = tick[j].pc /\ tick'[j].due = tick[j].due
                         /\ tick'[j].copy = tick[j].copy /\ tick'[j].at = tick[j].at
                         /\ tick'[j].todo \subseteq tick[j].todo
                         /\ j = k => t \notin tick'[j].todo
    BY <1>i, <2>1
  <2>3. /\ t \in tick[k].due /\ t \in Tasks /\ n \in Nat /\ n <= tick[k].at /\ Sending(k)
        /\ <<t, n>> \notin seen.sent
    BY <1>i, <1>u DEF Dated, Tick, Row
  <2>4. seen'.sent = seen.sent \cup {<<t, n>>}
    BY <1>i, <2>1
  <2>5. ~seen'.twice
    <3>1. (<<t, n>> \in seen.sent) = FALSE
      BY <2>3
    <3>2. seen'.twice = (seen.twice \/ <<t, n>> \in seen.sent)
      BY <1>i, <2>1
    <3> QED
      BY <1>u, <3>1, <3>2
  <2>k. \A j \in Ticks : Sending(j) => j = k
    BY <1>u, <2>3
  <2> HIDE DEF n
  <2>6. Alone' /\ SentBefore'
    <3>1. \A sent \in seen'.sent : sent[2] <= tick[k].at
      BY <1>u, <2>3, <2>4
    <3> QED
      BY <1>u, <2>2, <2>k, <3>1
  <2>7. Unsent'
    <3>1. \A j \in Ticks : j # k => tick[j].todo = {}
      BY <1>i, <2>k DEF Dated
    <3> QED
      BY <1>u, <2>2, <2>4, <3>1
  <2>8. RowsAhead'
    BY <1>u, <2>1, <2>2, <2>3, <2>4
  <2>9. EditsAhead'
    <3> SUFFICES ASSUME NEW q \in Editors, change[q].task # NoTask
                 PROVE  /\ AfterSent(change[q].task, change[q].new.next)'
                        /\ \A j \in Ticks : change[q].task \in tick[j].due =>
                              \/ change[q].new.next = NotPlanned
                              \/ tick[j].at < change[q].new.next
      BY <2>1, <2>2
    <3>1. change[q].new.next \in Nat
      BY <1>i DEF Change, Row
    <3>2. change[q].task = t => change[q].new.next = NotPlanned \/ n < change[q].new.next
      BY <1>u, <1>k, <2>3, <3>1
    <3> QED
      BY <1>u, <2>1, <2>4, <3>2
  <2> QED
    BY <2>5, <2>6, <2>7, <2>8, <2>9
<1>3. ASSUME NEW k \in Ticks, TickCommits(k) PROVE Undisturbed' /\ ~seen'.twice
  <2>1. /\ tick' = [tick EXCEPT ![k] = NoTick]
        /\ row' = [t \in Tasks |-> IF t \in tick[k].due THEN Advanced(t, k) ELSE row[t]]
        /\ Sending(k)
        /\ UNCHANGED <<change, now, seen>>
    BY <1>3 DEF TickCommits
  <2>2. /\ \A j \in Ticks : j # k => tick'[j] = tick[j] /\ ~Sending(j) /\ tick[j].due = {}
        /\ tick'[k] = NoTick
    BY <1>i, <1>u, <2>1 DEF Dated
  <2>3. \A j \in Ticks : tick'[j].pc # "sending" /\ tick'[j].due = {} /\ tick'[j].todo = {}
    BY <1>i, <2>2 DEF NoTick, Dated
  <2>4. RowsAhead'
    <3> SUFFICES ASSUME NEW t \in Tasks
                 PROVE  AfterSent(t, row'[t].next)
      BY <2>1
    <3>1. CASE t \in tick[k].due
      <4>1. row'[t] = Advanced(t, k)
        BY <2>1, <3>1
      <4>2. Advanced(t, k) \in Row /\ tick[k].at < Advanced(t, k).next
        BY <1>i, <3>1, AdvancedRow
      <4>3. Advanced(t, k).next \in Nat
        BY <4>2 DEF Row
      <4> QED
        BY <1>u, <1>n, <1>k, <2>1, <4>1, <4>2, <4>3
    <3>2. CASE t \notin tick[k].due
      BY <1>u, <2>1, <2>2, <3>2
    <3> QED
      BY <3>1, <3>2
  <2> QED
    BY <1>u, <2>1, <2>3, <2>4
<1>4. ASSUME NEW k \in Ticks, TickRaises(k) \/ TickDies(k) PROVE FALSE
  BY <1>4, <1>i DEF TickRaises, TickDies
<1>5. CASE Execution
  BY <1>0, <1>5 DEF Execution, TaskEnds, RunTask
<1>6. ASSUME NEW t \in Tasks, Appears(t) PROVE Undisturbed' /\ ~seen'.twice
  <2>1. PICK new \in Row : Ahead(new.next) /\ row' = [row EXCEPT ![t] = new]
    BY <1>6 DEF Appears
  <2>2. UNCHANGED <<tick, change>> /\ seen'.sent = seen.sent /\ seen'.twice = seen.twice
    BY <1>6, <1>i DEF Appears
  <2>3. new.next \in Nat
    BY DEF Row
  <2>4. AfterSent(t, new.next)
    BY <1>i, <1>n, <2>1, <2>3 DEF Ahead, Dated
  <2>5. RowsAhead'
    BY <1>i, <1>u, <2>1, <2>2, <2>4
  <2> QED
    BY <1>u, <2>2, <2>5
<1>7. ASSUME NEW q \in Editors, NEW t \in Tasks, Asks(q, t)
      PROVE  Undisturbed' /\ ~seen'.twice
  <2>1. PICK new \in Row :
              /\ Ahead(new.next)
              /\ change' = [change EXCEPT ![q] = [task |-> t, copy |-> row[t], new |-> new]]
              /\ seen' = [seen EXCEPT !.edits = @ + 1]
              /\ UNCHANGED <<row, tick, now>>
    BY <1>7, AskedOf
  <2>2. seen'.sent = seen.sent /\ seen'.twice = seen.twice
    BY <1>i, <2>1
  <2>3. new.next \in Nat
    BY DEF Row
  <2>4. /\ AfterSent(t, new.next)
        /\ \A k \in Ticks : t \in tick[k].due => new.next = NotPlanned \/ tick[k].at < new.next
    BY <1>i, <1>n, <1>k, <2>1, <2>3 DEF Ahead, Dated
  <2>5. /\ change'[q].task = t /\ change'[q].new = new
        /\ \A p \in Editors : p # q => change'[p] = change[p]
    BY <1>i, <2>1
  <2>6. EditsAhead'
    BY <1>u, <2>1, <2>2, <2>4, <2>5
  <2> QED
    BY <1>u, <2>1, <2>2, <2>6
<1>8. ASSUME NEW t \in Tasks, RunNow(t) PROVE Undisturbed' /\ ~seen'.twice
  <2>1. UNCHANGED <<tick, row, change>> /\ seen' = [seen EXCEPT !.edits = @ + 1]
    BY <1>8 DEF RunNow
  <2> QED
    BY <1>0, <1>i, <2>1
<1>9. ASSUME NEW t \in Tasks, DeleteTask(t) PROVE Undisturbed' /\ ~seen'.twice
  <2>1. /\ UNCHANGED <<tick, change>> /\ seen' = [seen EXCEPT !.edits = @ + 1]
        /\ row' = [row EXCEPT ![t] = [Blank EXCEPT !.state = "gone"]]
    BY <1>9 DEF DeleteTask
  <2>2. seen'.sent = seen.sent /\ seen'.twice = seen.twice
    BY <1>i, <2>1
  <2>3. row'[t].next = NotPlanned /\ \A x \in Tasks : x # t => row'[x] = row[x]
    BY <1>i, <2>1 DEF Blank
  <2>4. RowsAhead'
    BY <1>u, <2>1, <2>2, <2>3
  <2> QED
    BY <1>u, <2>1, <2>2, <2>4
<1>10. ASSUME NEW q \in Editors, CommitTask(q) PROVE Undisturbed' /\ ~seen'.twice
  <2>1. change[q].task \in Tasks /\ change[q].copy \in Row /\ change[q].new \in Row
    BY <1>10, <1>i DEF CommitTask, Change
  <2> DEFINE t == change[q].task
             f == Flushed(row[t], change[q].copy, change[q].new)
  <2>2. f.next \in {row[t].next, change[q].new.next}
    BY <1>i, <2>1, WrittenRow
  <2> HIDE DEF f
  <2>3. row' = [row EXCEPT ![t] = IF IsHere(t) THEN f ELSE @]
    BY <1>10 DEF CommitTask, f
  <2>4. change' = [change EXCEPT ![q] = NoChange] /\ UNCHANGED <<tick, seen>>
    BY <1>10 DEF CommitTask
  <2>5. /\ row'[t].next \in {row[t].next, change[q].new.next}
        /\ \A x \in Tasks : x # t => row'[x] = row[x]
    BY <1>i, <2>1, <2>2, <2>3
  <2>6. AfterSent(t, change[q].new.next)
    BY <1>u, <1>10 DEF CommitTask
  <2>7. RowsAhead'
    BY <1>u, <2>1, <2>4, <2>5, <2>6
  <2>8. \A p \in Editors : change'[p].task # NoTask => change'[p] = change[p]
    BY <1>i, <2>4 DEF NoChange
  <2>9. EditsAhead'
    BY <1>u, <2>4, <2>8
  <2> QED
    BY <1>u, <2>4, <2>7, <2>9
<1>11. CASE Minute
  BY <1>0, <1>11 DEF Minute
<1> QED
  BY <1>i, <1>1, <1>2, <1>3, <1>4, <1>5, <1>6, <1>7, <1>8, <1>9, <1>10, <1>11, EditingSteps
     DEF Next, TickStep

-----------------------------------------------------------------------------
LEMMA InitHolds ==
    ASSUME ConstantsAreSound, Init
    PROVE  IInv
<1>1. Blank \in Row /\ NoTick \in Tick /\ NoChange \in Change
  BY DEF ConstantsAreSound, NotPlanned, Blank, Row, NoTick, Tick, NoChange, Change
<1>2. TypeOK
  BY <1>1 DEF Init, TypeOK, ConstantsAreSound
<1>3. Planned
  BY DEF Init, Planned, IsHere, Blank, NoTick, NoChange
<1>4. Dated
  BY DEF Init, Dated, Sending, NoTick
<1>5. Undisturbed /\ ~seen.twice
  BY DEF Init, Undisturbed, Alone, SentBefore, Unsent, RowsAhead, EditsAhead, AfterSent, Sending,
         NoTick, NoChange
<1> QED
  BY <1>2, <1>3, <1>4, <1>5 DEF IInv

LEMMA Inductive ==
    ASSUME ConstantsAreSound, IInv, [Next]_vars
    PROVE  IInv'
<1>1. CASE Next
  BY <1>1, TypeStep, PlannedStep, DatedStep, UndisturbedStep DEF IInv
<1>2. CASE UNCHANGED vars
  BY <1>2 DEF vars, IInv, TypeOK, Planned, Dated, Undisturbed, Alone, SentBefore, Unsent,
              RowsAhead, EditsAhead, AfterSent, Sending, IsHere
<1> QED
  BY <1>1, <1>2

LEMMA IInvAlways == ASSUME ConstantsAreSound PROVE Spec => []IInv
<1>1. Init => IInv
  BY InitHolds
<1>2. IInv /\ [Next]_vars => IInv'
  BY Inductive
<1> QED
  BY <1>1, <1>2, PTL DEF Spec

\* Every row, message, tick, worker and request is of its type.
THEOREM ScheduleTyped == ASSUME ConstantsAreSound PROVE Spec => []TypeOK
<1>1. IInv => TypeOK
  BY DEF IInv
<1> QED
  BY <1>1, IInvAlways, PTL

\* A task is enqueued once for each time it comes due, for any number of tasks,
\* ticks, workers and edits (run_due_scheduled_tasks against the task routes).
THEOREM OncePerOccurrenceAlways ==
    ASSUME ConstantsAreSound PROVE Spec => []OncePerOccurrence
<1>1. IInv => OncePerOccurrence
  BY DEF IInv, OncePerOccurrence
<1> QED
  BY <1>1, IInvAlways, PTL

-----------------------------------------------------------------------------
(* What is in hand *)

\* The runs slot s is about, and those of them it will start or is working on.
Touches(s, r) == r = task[s].run \/ r \in task[s].todo
Starts(s, r) == task[s].pc \in {"enqueueing", "run_queued", "updating"} /\ Touches(s, r)
Drives(s, r) ==
    /\ Touches(s, r)
    /\ \/ task[s].pc \in {"enqueueing", "run_queued", "updating", "updated", "rebooting"}
       \/ task[s].pc = "finish_queued" /\ status[r] = "succeeded"
       \/ task[s].pc = "continuing" /\ WentWell(s)

OneRun == {"run_queued", "updating", "updated", "finish_queued", "rebooting", "continuing",
           "stopping"}
Listing == {"enqueueing", "reaping", "reaped", "stopping"}

\* What a slot carries at each stage.
InSlot == {T \in TaskRecord : /\ T.pc \in OneRun <=> T.run # NoRun
                              /\ T.pc \notin Listing => T.todo = {}}

\* A rolling batch may go on behind such a row, or must not.
Passed(r) ==
    \/ status[r] = "none"
    \/ /\ status[r] = "succeeded" /\ outcome[r] \notin BadOutcomes
       /\ RebootIfRequired(r) => outcome[r] # "unset"
Halted(r) ==
    \/ status[r] \in {"none", "failed"}
    \/ status[r] = "succeeded" /\ outcome[r] \in BadOutcomes

\* The rows fit what is done with them. Any of them may be gone.
Fits(s) ==
    LET r == task[s].run
        todo == task[s].todo
    IN  /\ task[s].pc = "enqueueing" => \A q \in todo : status[q] \in {"pending", "none"}
        /\ task[s].pc = "run_queued" => status[r] \in {"pending", "none"}
        /\ task[s].pc = "updating" => status[r] \in {"running", "none"}
        /\ task[s].pc \in {"updated", "finish_queued"} =>
              /\ status[r] \in Terminal \cup {"none"}
              /\ status[r] = "succeeded" => outcome[r] = "unset"
        /\ task[s].pc = "rebooting" =>
              /\ status[r] \in {"succeeded", "none"} /\ outcome[r] = "unset"
              /\ task[s].status = "succeeded" /\ task[s].outcome = "unset"
              /\ RebootIfRequired(r)
        /\ task[s].pc = "continuing" =>
              Rolling(r) /\ IF WentWell(s) THEN Passed(r) ELSE Halted(r)
        /\ task[s].pc = "stopping" =>
              /\ Rolling(r) /\ Halted(r)
              /\ \A q \in todo : Before(r, q) /\ status[q] \in {"pending", "failed", "none"}
              /\ \A q \in Runs : Before(r, q) /\ status[q] = "pending" => q \in todo
        /\ task[s].pc = "reaping" =>
              \A q \in todo : status[q] \in {"running", "failed", "none"}
        /\ task[s].pc = "reaped" =>
              \A q \in todo : Rolling(q) /\ status[q] \in {"failed", "none"}

\* Who drives a run is the only one about it, and about its batch if that is
\* rolling.
OneDriver ==
    \A s, t \in Slots, r, q \in Runs :
        /\ Drives(s, r) /\ Touches(t, q)
        /\ BatchOf[q] = BatchOf[r] /\ (Rolling(r) \/ q = r)
        => s = t /\ q = r

\* A rolling batch is driven where everything before is done with and nothing
\* behind has begun.
InPlace ==
    \A s \in Slots, r, q \in Runs :
        Drives(s, r) /\ Rolling(r) =>
            /\ Before(q, r) => Passed(q)
            /\ Before(r, q) => status[q] \in {"none", "pending"}

\* Nothing is about a batch that was not made.
Unmade ==
    /\ \A r \in Runs : ~batch[BatchOf[r]].made =>
          /\ status[r] = "none" /\ outcome[r] = "unset"
          /\ \A s \in Slots : ~Touches(s, r)
    /\ \A b \in Batches : ~batch[b].made => ~batch[b].rolling
    /\ \A b \in Batches : batch[b].retryOf # 0 => batch[batch[b].retryOf].made

\* A reboot has an outcome only after the update.
NotRebooted == \A r \in Runs : status[r] \in {"pending", "running"} => outcome[r] = "unset"

OneRunning ==
    \A q, r \in Runs :
        BatchOf[q] = BatchOf[r] /\ Rolling(r) /\ status[q] = "running" /\ status[r] = "running"
            => q = r

\* The run of a retry is not to be started while that of the batch it retries
\* is.
Fresh(r) == status[r] = "pending" \/ \E s \in Slots : Starts(s, r)
Retried ==
    \A q, r \in Runs :
        /\ batch[BatchOf[q]].retryOf = BatchOf[r] /\ HoneypotOf[q] = HoneypotOf[r]
        /\ Fresh(q)
        => ~Fresh(r)

\* The inductive invariant of update runs.
RolloutInv ==
    /\ RolloutTypeOK
    /\ task \in [Slots -> InSlot]
    /\ \A s \in Slots : Fits(s)
    /\ OneDriver /\ InPlace /\ Unmade /\ NotRebooted /\ OneRunning /\ Retried

\* The broker delivers a message once and update_timeout_seconds is not lowered
\* while an update runs: with either, two slots may drive one run.
Calm == MaxRedeliveries = 0 /\ ~TimeoutMayShrink

-----------------------------------------------------------------------------
(* Types *)

\* A free slot, a message and a list of work are of the type of a slot.
LEMMA MessagesTyped ==
    ASSUME RolloutConstants
    PROVE  /\ FreeSlot \in InSlot
           /\ \A pc \in {"run_queued", "finish_queued"}, r \in Runs : Message(pc, r) \in InSlot
           /\ \A pc \in {"enqueueing", "reaping", "reaped"}, R \in SUBSET Runs :
                 Work(pc, R) \in InSlot
<1>1. FreeSlot \in TaskRecord
  BY DEF FreeSlot, TaskRecord, Pcs, Statuses, Outcomes
<1>2. ASSUME NEW pc \in {"run_queued", "finish_queued"}, NEW r \in Runs
      PROVE  Message(pc, r) \in InSlot
  <2>1. Message(pc, r) \in TaskRecord
    BY <1>1 DEF Message, TaskRecord, Pcs
  <2> QED
    BY <2>1 DEF Message, FreeSlot, InSlot, OneRun, Listing, RolloutConstants
<1>3. ASSUME NEW pc \in {"enqueueing", "reaping", "reaped"}, NEW R \in SUBSET Runs
      PROVE  Work(pc, R) \in InSlot
  <2>1. Work(pc, R) \in TaskRecord
    BY <1>1 DEF Work, TaskRecord, Pcs
  <2> QED
    BY <2>1 DEF Work, FreeSlot, InSlot, OneRun, Listing
<1>4. FreeSlot \in InSlot
  BY <1>1 DEF FreeSlot, InSlot, OneRun, Listing
<1> QED
  BY <1>2, <1>3, <1>4

\* What a slot in a stage of OneRun is about is a run.
LEMMA RunInHand ==
    ASSUME task \in [Slots -> InSlot], NEW s \in Slots
    PROVE  /\ task[s] \in TaskRecord /\ task[s].todo \subseteq Runs
           /\ task[s].pc \in OneRun => task[s].run \in Runs
BY DEF InSlot, TaskRecord

\* What sending one message does to the slots.
LEMMA SendsOne ==
    ASSUME RolloutConstants, task \in [Slots -> InSlot], NEW s \in Slots,
           task[s].pc \in {"enqueueing", "reaped"},
           NEW pc \in {"run_queued", "finish_queued"}, SendOne(s, pc)
    PROVE  \E r \in task[s].todo, t \in Slots :
              /\ task' \in [Slots -> InSlot]
              /\ task'[t] = Message(pc, r)
              /\ t # s => /\ task[t].pc = "free"
                          /\ task'[s] = [task[s] EXCEPT !.todo = task[s].todo \ {r}]
              /\ \A u \in Slots \ {s, t} : task'[u] = task[u]
<1>1. PICK r \in task[s].todo :
          IF task[s].todo = {r}
          THEN task' = [task EXCEPT ![s] = Message(pc, r)]
          ELSE \E t \in Slots \ {s} :
                  /\ task[t].pc = "free"
                  /\ task' = [task EXCEPT ![s].todo = task[s].todo \ {r}, ![t] = Message(pc, r)]
  BY DEF SendOne
<1>2. task[s].todo \subseteq Runs
  BY RunInHand
<1>3. Message(pc, r) \in InSlot
  BY <1>2, MessagesTyped
<1>4. CASE task[s].todo = {r}
  <2>1. task' = [task EXCEPT ![s] = Message(pc, r)]
    BY <1>1, <1>4
  <2> QED
    BY <1>3, <1>4, <2>1
<1>5. CASE task[s].todo # {r}
  <2>1. PICK t \in Slots \ {s} :
            /\ task[t].pc = "free"
            /\ task' = [task EXCEPT ![s].todo = task[s].todo \ {r}, ![t] = Message(pc, r)]
    BY <1>1, <1>5
  <2>2. [task[s] EXCEPT !.todo = task[s].todo \ {r}] \in InSlot
    BY <1>2 DEF InSlot, TaskRecord, Listing
  <2>3. /\ task'[s] = [task[s] EXCEPT !.todo = task[s].todo \ {r}]
        /\ task'[t] = Message(pc, r)
        /\ \A u \in Slots \ {s, t} : task'[u] = task[u]
        /\ task' \in [Slots -> InSlot]
    BY <1>3, <2>1, <2>2
  <2> QED
    BY <2>1, <2>3
<1> QED
  BY <1>4, <1>5

\* The part of it that needs no assumption about redelivery or the timeout.
RolloutTyped == RolloutTypeOK /\ task \in [Slots -> InSlot]

\* Every step keeps the types.
LEMMA RolloutTypeStep ==
    ASSUME RolloutConstants, RolloutTyped, [RolloutNext]_rolloutVars
    PROVE  RolloutTyped'
<1> USE DEF RolloutTyped
<1>0. InSlot \subseteq TaskRecord
  BY DEF InSlot
<1>1. ASSUME NEW s \in Slots, NEW b \in Batches, NEW H, NEW kind, NEW source \in Batches \cup {0},
             kind.rolling \in BOOLEAN, kind.reboot \in BOOLEAN,
             TriggerUpdates(s, b, H, kind, source)
      PROVE  RolloutTyped'
  <2> DEFINE R == {r \in RunsOf(b) : HoneypotOf[r] \in H}
  <2>1. batch' \in [Batches -> BatchRecord]
    BY <1>1 DEF TriggerUpdates, BatchRecord, RolloutTypeOK
  <2>2. status' \in [Runs -> Statuses]
    BY <1>1 DEF TriggerUpdates, Statuses, RolloutTypeOK
  <2>3. Work("enqueueing", SentNow(kind, R)) \in InSlot
    <3>1. SentNow(kind, R) \in SUBSET Runs
      BY DEF SentNow, RunsOf
    <3> QED
      BY <3>1, MessagesTyped
  <2>4. task' \in [Slots -> InSlot]
    BY <1>1, <2>3 DEF TriggerUpdates
  <2> QED
    BY <1>0, <1>1, <2>1, <2>2, <2>4 DEF TriggerUpdates, RolloutTypeOK
<1>2. ASSUME NEW s \in Slots, NEW pc \in {"run_queued", "finish_queued"}, SendOne(s, pc),
             task[s].pc \in {"enqueueing", "reaped"},
             UNCHANGED <<batch, status, outcome, known, faults>>
      PROVE  RolloutTyped'
  <2>1. task' \in [Slots -> InSlot]
    BY <1>2, SendsOne
  <2> QED
    BY <1>0, <1>2, <2>1 DEF RolloutTypeOK
<1>3. ASSUME NEW s \in Slots, NEW T \in InSlot, task' = [task EXCEPT ![s] = T],
             UNCHANGED <<batch, known>>, status' \in [Runs -> Statuses],
             outcome' \in [Runs -> Outcomes],
             faults' \in [deaths : 0..MaxRolloutDeaths, deletions : 0..MaxDeletions,
                          redeliveries : 0..MaxRedeliveries]
      PROVE  RolloutTyped'
  BY <1>0, <1>3 DEF RolloutTypeOK
<1>4. ASSUME NEW s \in Slots, Step(s)
      PROVE  RolloutTyped'
  <2>0. /\ task[s] \in TaskRecord /\ task[s].todo \in SUBSET Runs
        /\ task[s].pc \in OneRun => task[s].run \in Runs
    BY RunInHand
  <2> DEFINE r == task[s].run
  <2>1. CASE EnqueueRun(s)
    BY <1>2, <2>1 DEF EnqueueRun
  <2>2. CASE DropMissing(s)
    BY <1>3, <2>2, MessagesTyped DEF DropMissing, RolloutTypeOK
  <2>3. CASE BeginUpdate(s)
    <3>1. [task[s] EXCEPT !.pc = "updating"] \in InSlot
      BY <2>0, <2>3 DEF BeginUpdate, InSlot, TaskRecord, Pcs, OneRun, Listing
    <3>2. status' \in [Runs -> Statuses]
      BY <2>3 DEF BeginUpdate, RolloutTypeOK, Statuses
    <3> QED
      BY <1>3, <2>3, <3>1, <3>2 DEF BeginUpdate, RolloutTypeOK
  <2>4. ASSUME NEW verdict \in Terminal, EndUpdate(s, verdict)
        PROVE  RolloutTyped'
    <3>1. [task[s] EXCEPT !.pc = "updated"] \in InSlot
      BY <2>0, <2>4 DEF EndUpdate, InSlot, TaskRecord, Pcs, OneRun, Listing
    <3>2. status' \in [Runs -> Statuses]
      BY <2>4 DEF EndUpdate, RolloutTypeOK, Statuses
    <3> QED
      BY <1>3, <2>4, <3>1, <3>2 DEF EndUpdate, RolloutTypeOK
  <2>5. CASE RowVanished(s)
    BY <1>3, <2>5, MessagesTyped DEF RowVanished, RolloutTypeOK
  <2>6. CASE FollowUp(s)
    <3>1. Message("finish_queued", r) \in InSlot
      BY <2>0, <2>6, MessagesTyped DEF FollowUp, OneRun
    <3>2. (IF HasFollowUp(r) THEN Message("finish_queued", r) ELSE FreeSlot) \in InSlot
      BY <3>1, MessagesTyped
    <3> QED
      BY <1>3, <2>6, <3>2 DEF FollowUp, RolloutTypeOK
  <2>7. CASE BeginFinish(s)
    <3> DEFINE Copy(next) == [task[s] EXCEPT !.pc = next, !.status = status[r],
                                             !.outcome = outcome[r]]
    <3>1. status[r] \in Statuses /\ outcome[r] \in Outcomes
      BY <2>0, <2>7 DEF BeginFinish, OneRun, RolloutTypeOK
    <3>2. ASSUME NEW next \in {"rebooting", "continuing"}
          PROVE  Copy(next) \in InSlot
      BY <2>0, <2>7, <3>1 DEF BeginFinish, InSlot, TaskRecord, Pcs, OneRun, Listing
    <3>3. PICK next \in {"rebooting", "continuing", "free"} :
             task' = [task EXCEPT ![s] = IF next = "free" THEN FreeSlot ELSE Copy(next)]
      BY <2>7 DEF BeginFinish
    <3> QED
      BY <1>3, <2>7, <3>2, <3>3, MessagesTyped DEF BeginFinish, RolloutTypeOK
  <2>8. ASSUME NEW result \in Outcomes \ {"unset"}, RebootAfterUpdate(s, result)
        PROVE  RolloutTyped'
    <3> DEFINE T == [task[s] EXCEPT !.pc = "continuing", !.outcome = result]
    <3>1. T \in InSlot
      BY <2>0, <2>8 DEF RebootAfterUpdate, InSlot, TaskRecord, Pcs, OneRun, Listing
    <3>2. outcome' \in [Runs -> Outcomes]
      BY <2>8 DEF RebootAfterUpdate, RolloutTypeOK
    <3>3. (IF Rolling(r) THEN T ELSE FreeSlot) \in InSlot
      BY <3>1, MessagesTyped
    <3> QED
      BY <1>3, <2>8, <3>2, <3>3 DEF RebootAfterUpdate, RolloutTypeOK
  <2>9. CASE ContinueRollout(s)
    <3> DEFINE waiting == WaitingBehind(r)
    <3>1. ASSUME NEW q \in waiting
          PROVE  Message("run_queued", q) \in InSlot
      BY <3>1, MessagesTyped DEF WaitingBehind
    <3>2. [task[s] EXCEPT !.pc = "stopping", !.todo = waiting] \in InSlot
      BY <2>0, <2>9 DEF ContinueRollout, WaitingBehind, InSlot, TaskRecord, Pcs, OneRun, Listing
    <3>3. [task EXCEPT ![s].pc = "stopping", ![s].todo = waiting]
            = [task EXCEPT ![s] = [task[s] EXCEPT !.pc = "stopping", !.todo = waiting]]
      OBVIOUS
    <3>4. PICK T \in InSlot : task' = [task EXCEPT ![s] = T]
      <4>1. CASE task' = [task EXCEPT ![s] = FreeSlot]
        BY <4>1, MessagesTyped
      <4>2. CASE \E q \in waiting : task' = [task EXCEPT ![s] = Message("run_queued", q)]
        BY <3>1, <4>2
      <4>3. CASE task' = [task EXCEPT ![s].pc = "stopping", ![s].todo = waiting]
        BY <3>2, <3>3, <4>3
      <4> QED
        BY <2>9, <4>1, <4>2, <4>3 DEF ContinueRollout
    <3> QED
      BY <1>3, <2>9, <3>4 DEF ContinueRollout, RolloutTypeOK
  <2>10. \A R : FailRows(R) => status' \in [Runs -> Statuses]
    BY DEF FailRows, RolloutTypeOK, Statuses, Terminal
  <2>11. CASE StopRollout(s)
    BY <1>3, <2>10, <2>11, MessagesTyped DEF StopRollout, RolloutTypeOK
  <2>12. CASE FlushRaises(s)
    BY <1>3, <2>12, MessagesTyped DEF FlushRaises, RolloutTypeOK
  <2>13. CASE ReapCommit(s)
    <3> DEFINE rolling == WaitingBatches(task[s].todo)
    <3>1. (IF rolling = {} THEN FreeSlot ELSE Work("reaped", rolling)) \in InSlot
      BY <2>0, MessagesTyped DEF WaitingBatches
    <3> QED
      BY <1>3, <2>10, <2>13, <3>1 DEF ReapCommit, RolloutTypeOK
  <2>14. CASE ReapSend(s)
    BY <1>2, <2>14 DEF ReapSend
  <2> QED
    BY <1>4, <2>1, <2>2, <2>3, <2>4, <2>5, <2>6, <2>7, <2>8, <2>9, <2>11, <2>12, <2>13, <2>14
       DEF Step
<1>5. CASE Requests
  <2>1. ASSUME NEW s \in Slots, NEW b \in Batches, NEW H, NEW kind \in BatchKinds,
               TriggerUpdates(s, b, H, kind, 0)
        PROVE  RolloutTyped'
    <3>1. kind.rolling \in BOOLEAN /\ kind.reboot \in BOOLEAN
      BY DEF RolloutConstants
    <3> QED
      BY <1>1, <2>1, <3>1
  <2>2. ASSUME NEW s \in Slots, NEW b \in Batches, NEW c \in Batches, NEW V,
               RetryFailed(s, b, c, V)
        PROVE  RolloutTyped'
    <3> DEFINE kind == [rolling |-> batch[c].rolling, reboot |-> batch[c].reboot]
    <3>1. kind.rolling \in BOOLEAN /\ kind.reboot \in BOOLEAN
      BY DEF RolloutTypeOK, BatchRecord
    <3>2. PICK H : TriggerUpdates(s, b, H, kind, c)
      BY <2>2 DEF RetryFailed
    <3> HIDE DEF kind
    <3> QED
      BY <1>1, <3>1, <3>2
  <2> QED
    BY <1>5, <2>1, <2>2 DEF Requests
<1>6. CASE Watchdog
  <2>1. PICK s \in Slots, R \in SUBSET Runs : ReapSelect(s, R)
    BY <1>6 DEF Watchdog
  <2>2. Work("reaping", R) \in InSlot
    BY MessagesTyped
  <2> QED
    BY <1>3, <2>1, <2>2 DEF ReapSelect, RolloutTypeOK
<1>7. CASE Faults
  <2>1. ASSUME NEW s \in Slots, Die(s)
        PROVE  RolloutTyped'
    <3>1. faults.deaths + 1 \in 0..MaxRolloutDeaths
      BY <2>1 DEF Die, RolloutTypeOK, RolloutConstants
    <3>2. faults' \in [deaths : 0..MaxRolloutDeaths, deletions : 0..MaxDeletions,
                       redeliveries : 0..MaxRedeliveries]
      BY <2>1, <3>1 DEF Die, RolloutTypeOK
    <3> QED
      BY <1>3, <2>1, <3>2, MessagesTyped DEF Die, RolloutTypeOK
  <2>2. ASSUME NEW s \in Slots, NEW t \in Slots, Redeliver(s, t)
        PROVE  RolloutTyped'
    <3>1. faults.redeliveries + 1 \in 0..MaxRedeliveries
      BY <2>2 DEF Redeliver, RolloutTypeOK, RolloutConstants
    <3>2. faults' \in [deaths : 0..MaxRolloutDeaths, deletions : 0..MaxDeletions,
                       redeliveries : 0..MaxRedeliveries]
      BY <2>2, <3>1 DEF Redeliver, RolloutTypeOK
    <3> QED
      BY <1>3, <2>2, <3>2 DEF Redeliver, RolloutTypeOK
  <2>3. ASSUME NEW h \in Targets, DeleteHoneypotAndRuns(h)
        PROVE  RolloutTyped'
    <3>1. faults.deletions + 1 \in 0..MaxDeletions
      BY <2>3 DEF DeleteHoneypotAndRuns, RolloutTypeOK, RolloutConstants
    <3>2. faults' \in [deaths : 0..MaxRolloutDeaths, deletions : 0..MaxDeletions,
                       redeliveries : 0..MaxRedeliveries]
      BY <2>3, <3>1 DEF DeleteHoneypotAndRuns, RolloutTypeOK
    <3>3. status' \in [Runs -> Statuses]
      BY <2>3 DEF DeleteHoneypotAndRuns, RolloutTypeOK, Statuses
    <3> QED
      BY <2>3, <3>2, <3>3 DEF DeleteHoneypotAndRuns, RolloutTypeOK
  <2> QED
    BY <1>7, <2>1, <2>2, <2>3 DEF Faults
<1>8. CASE UNCHANGED rolloutVars
  BY <1>8 DEF rolloutVars, RolloutTypeOK
<1> QED
  BY <1>4, <1>5, <1>6, <1>7, <1>8 DEF RolloutNext

-----------------------------------------------------------------------------
(* What most steps have in common *)

\* After the step the slots hold no more than before, slot t what was in the
\* hands of slot origin[t].
NoMoreInHand(origin) ==
    /\ origin \in [Slots -> Slots]
    /\ \A t \in Slots, r \in Runs :
          /\ Touches(t, r)' => Touches(origin[t], r)
          /\ Drives(t, r)' => Drives(origin[t], r)
          /\ Starts(t, r)' => Starts(origin[t], r)
    /\ \A t, u \in Slots, r \in Runs :
          Touches(t, r)' /\ Touches(u, r)' /\ origin[t] = origin[u] => t = u

\* Rows vanish, or change by the hand of slot s; those it does not drive fail.
OnlyBy(s) ==
    /\ batch' = batch
    /\ \A q \in Runs :
          \/ status'[q] = status[q] /\ outcome'[q] = outcome[q]
          \/ status'[q] = "none" /\ outcome'[q] = outcome[q]
          \/ /\ s \in Slots /\ Touches(s, q)
             /\ \/ Drives(s, q)
                \/ status'[q] = "failed" /\ outcome'[q] = outcome[q]

\* No row becomes pending or running.
NoneBegins ==
    \A q \in Runs : status'[q] \in {"pending", "running"} =>
        status'[q] = status[q] /\ outcome'[q] = outcome[q]

\* What a slot holds still fits when its rows vanish, or fail while it does
\* not drive them, and none of their batches has a row that becomes pending.
LEMMA HeldFits ==
    ASSUME RolloutConstants, RolloutInv, NEW t \in Slots, task'[t] = task[t],
           \A q \in Runs : Touches(t, q) =>
               /\ batch'[BatchOf[q]] = batch[BatchOf[q]]
               /\ \/ status'[q] = status[q] /\ outcome'[q] = outcome[q]
                  \/ status'[q] = "none" /\ outcome'[q] = outcome[q]
                  \/ status'[q] = "failed" /\ outcome'[q] = outcome[q] /\ ~Drives(t, q),
           \A q, r \in Runs :
               Touches(t, r) /\ BatchOf[q] = BatchOf[r] /\ status'[q] = "pending"
                   => status[q] = "pending"
    PROVE  Fits(t)'
<1> DEFINE r == task[t].run
           todo == task[t].todo
<1>1. /\ task[t] \in TaskRecord /\ todo \subseteq Runs
      /\ task[t].pc \in OneRun => r \in Runs
  BY RunInHand DEF RolloutInv
<1>2. ASSUME NEW q \in Runs, Touches(t, q)
      PROVE  /\ \/ status'[q] = status[q] /\ outcome'[q] = outcome[q]
                \/ status'[q] = "none" /\ outcome'[q] = outcome[q]
                \/ status'[q] = "failed" /\ outcome'[q] = outcome[q] /\ ~Drives(t, q)
             /\ Rolling(q)' = Rolling(q) /\ RebootIfRequired(q)' = RebootIfRequired(q)
  BY <1>2 DEF Rolling, RebootIfRequired
<1>3. task[t].pc \in OneRun =>
         Rolling(r)' = Rolling(r) /\ RebootIfRequired(r)' = RebootIfRequired(r)
  BY <1>1, <1>2 DEF Touches
<1>4. Fits(t)
  BY DEF RolloutInv
<1>5. task[t].pc = "enqueueing" => \A q \in todo : status'[q] \in {"pending", "none"}
  BY <1>1, <1>2, <1>4 DEF Fits, Touches, Drives
<1>6. task[t].pc \in OneRun =>
         \/ status'[r] = status[r] /\ outcome'[r] = outcome[r]
         \/ status'[r] = "none" /\ outcome'[r] = outcome[r]
         \/ status'[r] = "failed" /\ outcome'[r] = outcome[r] /\ ~Drives(t, r)
  BY <1>1, <1>2 DEF Touches
<1>7. task[t].pc = "run_queued" => status'[r] \in {"pending", "none"}
  BY <1>1, <1>4, <1>6 DEF Fits, OneRun, Touches, Drives
<1>8. task[t].pc = "updating" => status'[r] \in {"running", "none"}
  BY <1>1, <1>4, <1>6 DEF Fits, OneRun, Touches, Drives
<1>9. task[t].pc \in {"updated", "finish_queued"} =>
         /\ status'[r] \in Terminal \cup {"none"}
         /\ status'[r] = "succeeded" => outcome'[r] = "unset"
  BY <1>1, <1>4, <1>6 DEF Fits, OneRun, Terminal
<1>10. task[t].pc = "rebooting" =>
          /\ status'[r] \in {"succeeded", "none"} /\ outcome'[r] = "unset"
          /\ task[t].status = "succeeded" /\ task[t].outcome = "unset"
          /\ RebootIfRequired(r)'
  BY <1>1, <1>3, <1>4, <1>6 DEF Fits, OneRun, Touches, Drives
<1>11. WentWell(t)' <=> WentWell(t)
  BY DEF WentWell
<1>12. task[t].pc = "continuing" => IF WentWell(t) THEN Passed(r)' ELSE Halted(r)'
  <2>1. ASSUME task[t].pc = "continuing", WentWell(t)
        PROVE  Passed(r)'
    <3>1. Drives(t, r) /\ Passed(r)
      BY <1>4, <2>1 DEF Fits, Drives, Touches
    <3> QED
      BY <1>3, <1>6, <2>1, <3>1 DEF Passed, OneRun, RebootIfRequired
  <2>2. ASSUME task[t].pc = "continuing", ~WentWell(t)
        PROVE  Halted(r)'
    <3>1. Halted(r)
      BY <1>4, <2>2 DEF Fits
    <3> QED
      BY <1>6, <2>2, <3>1 DEF Halted, OneRun
  <2> QED
    BY <2>1, <2>2
<1>13. task[t].pc = "stopping" =>
          /\ Halted(r)'
          /\ \A q \in todo : Before(r, q) /\ status'[q] \in {"pending", "failed", "none"}
          /\ \A q \in Runs : Before(r, q) /\ status'[q] = "pending" => q \in todo
  <2>1. ASSUME task[t].pc = "stopping"
        PROVE  Halted(r)'
    BY <1>4, <1>6, <2>1 DEF Fits, Halted, OneRun
  <2>2. ASSUME task[t].pc = "stopping", NEW q \in Runs, Before(r, q), status'[q] = "pending"
        PROVE  q \in todo
    <3>1. r \in Runs /\ Touches(t, r)
      BY <1>1, <2>2 DEF OneRun, Touches
    <3>2. status[q] = "pending"
      BY <2>2, <3>1 DEF Before
    <3> QED
      BY <1>4, <2>2, <3>2 DEF Fits
  <2> QED
    BY <1>1, <1>2, <1>4, <2>1, <2>2 DEF Fits, Touches
<1>14. task[t].pc = "reaping" => \A q \in todo : status'[q] \in {"running", "failed", "none"}
  BY <1>1, <1>2, <1>4 DEF Fits, Touches
<1>15. task[t].pc = "reaped" =>
          \A q \in todo : Rolling(q)' /\ status'[q] \in {"failed", "none"}
  BY <1>1, <1>2, <1>4 DEF Fits, Touches
<1>16. task[t].pc \in {"continuing", "stopping"} => Rolling(r)'
  BY <1>3, <1>4 DEF Fits, OneRun
<1> QED
  BY <1>5, <1>7, <1>8, <1>9, <1>10, <1>11, <1>12, <1>13, <1>14, <1>15, <1>16 DEF Fits

\* What another slot holds still fits.
LEMMA OthersFit ==
    ASSUME RolloutConstants, RolloutInv, NEW s, NEW t \in Slots, t # s, OnlyBy(s),
           task'[t] = task[t],
           \A q \in Runs : status'[q] = "pending" => status[q] = "pending"
    PROVE  Fits(t)'
<1>1. ASSUME NEW q \in Runs, Touches(t, q), s \in Slots, Touches(s, q)
      PROVE  ~Drives(s, q) /\ ~Drives(t, q)
  BY <1>1 DEF RolloutInv, OneDriver
<1>2. ASSUME NEW q \in Runs, Touches(t, q)
      PROVE  \/ status'[q] = status[q] /\ outcome'[q] = outcome[q]
             \/ status'[q] = "none" /\ outcome'[q] = outcome[q]
             \/ status'[q] = "failed" /\ outcome'[q] = outcome[q] /\ ~Drives(t, q)
  BY <1>1, <1>2 DEF OnlyBy
<1>3. batch' = batch
  BY DEF OnlyBy
<1> QED
  BY <1>2, <1>3, HeldFits

\* Nobody else comes to drive a run, and what lies around it stays.
LEMMA DriversStay ==
    ASSUME RolloutConstants, RolloutInv, NEW s, NEW origin, NoMoreInHand(origin), OnlyBy(s)
    PROVE  OneDriver' /\ InPlace'
<1>1. ASSUME NEW r
      PROVE  Rolling(r)' = Rolling(r) /\ RebootIfRequired(r)' = RebootIfRequired(r)
  BY DEF OnlyBy, Rolling, RebootIfRequired
<1>2. ASSUME NEW t \in Slots, NEW u \in Slots, NEW r \in Runs, NEW q \in Runs,
             Drives(t, r)', Touches(u, q)', BatchOf[q] = BatchOf[r], Rolling(r) \/ q = r
      PROVE  t = u /\ q = r
  <2>1. Drives(origin[t], r) /\ Touches(origin[u], q) /\ Touches(t, r)'
    BY <1>2 DEF NoMoreInHand, Drives
  <2>2. origin[t] = origin[u] /\ q = r
    BY <1>2, <2>1 DEF NoMoreInHand, RolloutInv, OneDriver
  <2> QED
    BY <1>2, <2>1, <2>2 DEF NoMoreInHand
<1>3. ASSUME NEW t \in Slots, NEW r \in Runs, NEW q \in Runs, Drives(t, r)', Rolling(r)
      PROVE  /\ Before(q, r) => Passed(q)'
             /\ Before(r, q) => status'[q] \in {"none", "pending"}
  <2>1. Drives(origin[t], r) /\ origin[t] \in Slots
    BY <1>3 DEF NoMoreInHand
  <2>2. ASSUME BatchOf[q] = BatchOf[r], q # r, s \in Slots
        PROVE  ~Touches(s, q)
    BY <1>3, <2>1, <2>2 DEF RolloutInv, OneDriver
  <2>3. ASSUME BatchOf[q] = BatchOf[r], q # r
        PROVE  \/ status'[q] = status[q] /\ outcome'[q] = outcome[q]
               \/ status'[q] = "none" /\ outcome'[q] = outcome[q]
    BY <2>2, <2>3 DEF OnlyBy
  <2>4. ASSUME Before(q, r) \/ Before(r, q)
        PROVE  BatchOf[q] = BatchOf[r] /\ q # r
    <3>1. HoneypotOf[q] \in Nat /\ HoneypotOf[r] \in Nat
      BY DEF RolloutConstants
    <3> QED
      BY <2>4, <3>1 DEF Before
  <2>5. /\ Before(q, r) => Passed(q)
        /\ Before(r, q) => status[q] \in {"none", "pending"}
    BY <1>3, <2>1 DEF RolloutInv, InPlace
  <2>6. ASSUME Before(q, r)
        PROVE  Passed(q)'
    BY <1>1, <2>3, <2>4, <2>5, <2>6 DEF Passed
  <2>7. ASSUME Before(r, q)
        PROVE  status'[q] \in {"none", "pending"}
    BY <2>3, <2>4, <2>5, <2>7
  <2> QED
    BY <2>6, <2>7
<1>4. OneDriver'
  BY <1>1, <1>2 DEF OneDriver
<1>5. InPlace'
  BY <1>1, <1>3 DEF InPlace, Before
<1> QED
  BY <1>4, <1>5

\* A batch that is not made stays untouched.
LEMMA UnmadeStays ==
    ASSUME RolloutConstants, RolloutInv, NEW s, OnlyBy(s),
           \A t \in Slots, r \in Runs : Touches(t, r)' => batch[BatchOf[r]].made
    PROVE  Unmade'
<1>1. ASSUME NEW r \in Runs, ~batch[BatchOf[r]].made
      PROVE  status'[r] = "none" /\ outcome'[r] = "unset"
  <2>1. status[r] = "none" /\ outcome[r] = "unset" /\ \A t \in Slots : ~Touches(t, r)
    BY <1>1 DEF RolloutInv, Unmade
  <2> QED
    BY <2>1 DEF OnlyBy
<1>2. batch' = batch
  BY DEF OnlyBy
<1> QED
  BY <1>1, <1>2 DEF RolloutInv, Unmade

\* Where no row begins, none of the claims about the rows is at stake.
LEMMA RowsStay ==
    ASSUME RolloutConstants, RolloutInv, batch' = batch, NoneBegins
    PROVE  NotRebooted' /\ OneRunning'
BY DEF RolloutInv, NoneBegins, NotRebooted, OneRunning, Rolling

\* A retry overlaps only with what newly waits or begins.
LEMMA RetriedStays ==
    ASSUME RolloutInv, batch' = batch, \A r \in Runs : Fresh(r)' => Fresh(r)
    PROVE  Retried'
BY DEF RolloutInv, Retried

\* All of it together: what is left to show of a step is what its rows are.
LEMMA StepSettles ==
    ASSUME RolloutConstants, RolloutInv, RolloutTyped', NEW s, NEW origin,
           NoMoreInHand(origin), OnlyBy(s),
           \A q \in Runs : status'[q] = "pending" => status[q] = "pending",
           \A t \in Slots : Fits(t)' \/ (t # s /\ task'[t] = task[t]),
           NotRebooted', OneRunning'
    PROVE  RolloutInv'
<1>1. \A t \in Slots : Fits(t)'
  BY OthersFit
<1>2. OneDriver' /\ InPlace'
  BY DriversStay
<1>3. ASSUME NEW t \in Slots, NEW r \in Runs, Touches(t, r)'
      PROVE  batch[BatchOf[r]].made
  <2>1. origin[t] \in Slots /\ Touches(origin[t], r)
    BY <1>3 DEF NoMoreInHand
  <2> QED
    BY <2>1 DEF RolloutInv, Unmade
<1>4. Unmade'
  BY <1>3, UnmadeStays
<1>5. ASSUME NEW r \in Runs, Fresh(r)'
      PROVE  Fresh(r)
  <2>1. CASE status'[r] = "pending"
    BY <2>1 DEF Fresh
  <2>2. CASE status'[r] # "pending"
    <3>1. PICK t \in Slots : Starts(t, r)'
      BY <1>5, <2>2 DEF Fresh
    <3>2. origin[t] \in Slots /\ Starts(origin[t], r)
      BY <3>1 DEF NoMoreInHand
    <3> QED
      BY <3>2 DEF Fresh
  <2> QED
    BY <2>1, <2>2
<1>6. batch' = batch
  BY DEF OnlyBy
<1>7. Retried'
  BY <1>5, <1>6, RetriedStays
<1> QED
  BY <1>1, <1>2, <1>4, <1>7 DEF RolloutInv, RolloutTyped

\* Where no row begins, even that needs no showing.
LEMMA SettlesDown ==
    ASSUME RolloutConstants, RolloutInv, RolloutTyped', NEW s, NEW origin,
           NoMoreInHand(origin), OnlyBy(s), NoneBegins,
           \A t \in Slots : Fits(t)' \/ (t # s /\ task'[t] = task[t])
    PROVE  RolloutInv'
<1>1. \A q \in Runs : status'[q] = "pending" => status[q] = "pending"
  BY DEF NoneBegins
<1>2. NotRebooted' /\ OneRunning'
  BY RowsStay DEF OnlyBy
<1> QED
  BY <1>1, <1>2, StepSettles

-----------------------------------------------------------------------------
(* The steps *)

\* What another slot drives, it drove before.
LEMMA OthersHold ==
    ASSUME RolloutInv, NEW s, NEW t \in Slots, t # s, OnlyBy(s),
           task'[t] = task[t], NEW r \in Runs
    PROVE  /\ Touches(t, r)' => Touches(t, r)
           /\ Drives(t, r)' => Drives(t, r)
           /\ Starts(t, r)' => Starts(t, r)
<1>1. /\ Touches(t, r)' <=> Touches(t, r)
      /\ Starts(t, r)' <=> Starts(t, r)
      /\ WentWell(t)' <=> WentWell(t)
  BY DEF Touches, Starts, WentWell
<1>2. ASSUME task[t].pc = "finish_queued", Touches(t, r), status'[r] = "succeeded"
      PROVE  status[r] = "succeeded"
  <2>1. ASSUME s \in Slots, Touches(s, r)
        PROVE  ~Drives(s, r)
    BY <1>2, <2>1 DEF RolloutInv, OneDriver
  <2> QED
    BY <1>2, <2>1 DEF OnlyBy
<1> QED
  BY <1>1, <1>2 DEF Drives

\* The slot that acts keeps what it holds, or lets go of some of it.
LEMMA NoMoreIsHeld ==
    ASSUME RolloutInv, NEW s \in Slots, NEW T,
           task' = [task EXCEPT ![s] = T], OnlyBy(s),
           \A r \in Runs : /\ Touches(s, r)' => Touches(s, r)
                           /\ Drives(s, r)' => Drives(s, r)
                           /\ Starts(s, r)' => Starts(s, r)
    PROVE  /\ NoMoreInHand([t \in Slots |-> t])
           /\ \A t \in Slots : t # s => task'[t] = task[t]
<1>1. \A t \in Slots : t # s => task'[t] = task[t]
  BY DEF RolloutInv
<1>2. ASSUME NEW t \in Slots, NEW r \in Runs
      PROVE  /\ Touches(t, r)' => Touches(t, r)
             /\ Drives(t, r)' => Drives(t, r)
             /\ Starts(t, r)' => Starts(t, r)
  BY <1>1, OthersHold
<1> QED
  BY <1>1, <1>2 DEF NoMoreInHand

\* Such a step, when no row begins, keeps the invariant.
LEMMA SlotSettles ==
    ASSUME RolloutConstants, RolloutInv, RolloutTyped', NEW s \in Slots, NEW T,
           task' = [task EXCEPT ![s] = T], OnlyBy(s), NoneBegins, Fits(s)',
           \A r \in Runs : /\ Touches(s, r)' => Touches(s, r)
                           /\ Drives(s, r)' => Drives(s, r)
                           /\ Starts(s, r)' => Starts(s, r)
    PROVE  RolloutInv'
<1> DEFINE origin == [t \in Slots |-> t]
<1>1. NoMoreInHand(origin) /\ \A t \in Slots : t # s => task'[t] = task[t]
  BY NoMoreIsHeld
<1> HIDE DEF origin
<1> QED
  BY <1>1, SettlesDown

\* A free slot is about nothing.
LEMMA IdleIsNothing ==
    ASSUME RolloutConstants, NEW s \in Slots, task'[s] = FreeSlot
    PROVE  /\ Fits(s)'
           /\ \A r \in Runs : ~Touches(s, r)' /\ ~Drives(s, r)' /\ ~Starts(s, r)'
<1>1. \A r \in Runs : ~Touches(s, r)'
  BY DEF Touches, FreeSlot, RolloutConstants
<1>2. Fits(s)'
  BY DEF Fits, FreeSlot
<1> QED
  BY <1>1, <1>2 DEF Drives, Starts

\* A step that frees its slot keeps the invariant.
LEMMA SlotIsFreed ==
    ASSUME RolloutConstants, RolloutInv, RolloutTyped', NEW s \in Slots,
           task' = [task EXCEPT ![s] = FreeSlot], OnlyBy(s), NoneBegins
    PROVE  RolloutInv'
<1>1. task'[s] = FreeSlot
  BY DEF RolloutInv
<1> QED
  BY <1>1, IdleIsNothing, SlotSettles

\* Rows that stay as they are were changed by nobody and did not begin.
LEMMA NothingChanges ==
    ASSUME UNCHANGED <<batch, status, outcome>>, NEW s
    PROVE  OnlyBy(s) /\ NoneBegins
BY DEF OnlyBy, NoneBegins

\* One of the messages a process has to send.
LEMMA SendSettles ==
    ASSUME RolloutConstants, RolloutInv, RolloutTyped', NEW s \in Slots,
           NEW pc \in {"run_queued", "finish_queued"}, SendOne(s, pc),
           \/ task[s].pc = "enqueueing" /\ pc = "run_queued"
           \/ task[s].pc = "reaped" /\ pc = "finish_queued",
           UNCHANGED <<batch, status, outcome>>
    PROVE  RolloutInv'
<1>0. task \in [Slots -> InSlot] /\ Fits(s)
  BY DEF RolloutInv
<1>1. PICK q \in task[s].todo, t \in Slots :
              /\ task' \in [Slots -> InSlot]
              /\ task'[t] = Message(pc, q)
              /\ t # s => /\ task[t].pc = "free"
                          /\ task'[s] = [task[s] EXCEPT !.todo = task[s].todo \ {q}]
              /\ \A u \in Slots \ {s, t} : task'[u] = task[u]
  BY <1>0, SendsOne
<1>2. q \in Runs /\ task[s].run = NoRun /\ task[s].pc \in {"enqueueing", "reaped"}
  BY <1>0, RunInHand DEF InSlot, OneRun
<1> DEFINE origin == [u \in Slots |-> IF u = t THEN s ELSE u]
<1>3. \A r \in Runs : Touches(t, r)' <=> r = q
  BY <1>1, <1>2 DEF Touches, Message, FreeSlot
<1>4. task'[t].pc = pc
  BY <1>1 DEF Message, FreeSlot
<1>5. ASSUME NEW r \in Runs
      PROVE  /\ Touches(t, r)' => Touches(s, r)
             /\ Drives(t, r)' => Drives(s, r)
             /\ Starts(t, r)' => Starts(s, r)
  <2>1. Touches(t, r)' => Touches(s, r)
    BY <1>1, <1>3 DEF Touches
  <2>2. CASE pc = "run_queued"
    <3>1. task[s].pc = "enqueueing"
      BY <2>2
    <3> QED
      BY <2>1, <3>1 DEF Drives, Starts
  <2>3. CASE pc = "finish_queued"
    <3>1. task[s].pc = "reaped"
      BY <2>3
    <3>2. ~Starts(t, r)'
      BY <1>4, <2>3 DEF Starts
    <3>3. Touches(t, r)' => status'[r] # "succeeded"
      BY <1>0, <1>1, <1>3, <3>1 DEF Fits
    <3>4. ~Drives(t, r)'
      BY <1>4, <2>3, <3>3 DEF Drives
    <3> QED
      BY <2>1, <3>2, <3>4
  <2> QED
    BY <2>2, <2>3
<1>6. ASSUME NEW u \in Slots, u # t, NEW r \in Runs
      PROVE  /\ Touches(u, r)' => Touches(u, r)
             /\ Drives(u, r)' => Drives(u, r)
             /\ Starts(u, r)' => Starts(u, r)
  <2>1. CASE u = s
    <3>1. task'[s] = [task[s] EXCEPT !.todo = task[s].todo \ {q}]
      BY <1>1, <1>6, <2>1
    <3>2. /\ task'[s].pc = task[s].pc /\ task'[s].run = task[s].run
          /\ task'[s].todo \subseteq task[s].todo
      BY <1>0, <3>1, RunInHand DEF TaskRecord
    <3>3. Touches(s, r)' => Touches(s, r)
      BY <3>2 DEF Touches
    <3> QED
      BY <1>2, <2>1, <3>2, <3>3 DEF Drives, Starts
  <2>2. CASE u # s
    <3>1. task'[u] = task[u]
      BY <1>1, <1>6, <2>2
    <3>2. OnlyBy(s)
      BY NothingChanges
    <3> QED
      BY <2>2, <3>1, <3>2, OthersHold
  <2> QED
    BY <2>1, <2>2
<1>7. ASSUME t # s
      PROVE  ~Touches(s, q)'
  <2>1. task'[s] = [task[s] EXCEPT !.todo = task[s].todo \ {q}]
    BY <1>1, <1>7
  <2>2. task'[s].run = task[s].run /\ task'[s].todo = task[s].todo \ {q}
    BY <1>0, <2>1, RunInHand DEF TaskRecord
  <2> QED
    BY <1>2, <2>2 DEF Touches, RolloutConstants
<1>8. NoMoreInHand(origin)
  <2>1. origin \in [Slots -> Slots]
    OBVIOUS
  <2>2. ASSUME NEW u \in Slots, NEW r \in Runs
        PROVE  /\ Touches(u, r)' => Touches(origin[u], r)
               /\ Drives(u, r)' => Drives(origin[u], r)
               /\ Starts(u, r)' => Starts(origin[u], r)
    <3>1. CASE u = t
      <4>1. origin[u] = s
        BY <3>1
      <4> HIDE DEF origin
      <4> QED
        BY <1>5, <3>1, <4>1
    <3>2. CASE u # t
      <4>1. origin[u] = u
        BY <3>2
      <4> HIDE DEF origin
      <4> QED
        BY <1>6, <3>2, <4>1
    <3> QED
      BY <3>1, <3>2
  <2>3. ASSUME NEW u \in Slots, NEW v \in Slots, NEW r \in Runs,
               Touches(u, r)', Touches(v, r)', origin[u] = origin[v]
        PROVE  u = v
    BY <1>3, <1>7, <2>3
  <2> HIDE DEF origin
  <2> QED
    BY <2>1, <2>2, <2>3 DEF NoMoreInHand
<1> HIDE DEF origin
<1>9. Fits(t)'
  <2>1. task'[t].run = q
    BY <1>1 DEF Message, FreeSlot
  <2>2. CASE pc = "run_queued"
    <3>1. status'[q] \in {"pending", "none"}
      BY <1>0, <1>1, <2>2 DEF Fits
    <3> QED
      BY <1>4, <2>1, <2>2, <3>1 DEF Fits
  <2>3. CASE pc = "finish_queued"
    <3>1. status'[q] \in {"failed", "none"}
      BY <1>0, <1>1, <2>3 DEF Fits
    <3> QED
      BY <1>4, <2>1, <2>3, <3>1 DEF Fits, Terminal
  <2> QED
    BY <2>2, <2>3
<1>10. ASSUME t # s
       PROVE  Fits(s)'
  <2>1. task'[s] = [task[s] EXCEPT !.todo = task[s].todo \ {q}]
    BY <1>1, <1>10
  <2>2. task'[s].pc = task[s].pc /\ task'[s].todo = task[s].todo \ {q}
    BY <1>0, <2>1, RunInHand DEF TaskRecord
  <2>3. \A x : Rolling(x)' = Rolling(x)
    BY DEF Rolling
  <2> QED
    BY <1>0, <1>2, <2>2, <2>3 DEF Fits
<1>11. \A u \in Slots : Fits(u)' \/ (u # s /\ task'[u] = task[u])
  BY <1>1, <1>9, <1>10
<1> QED
  BY <1>8, <1>11, NothingChanges, SettlesDown

-----------------------------------------------------------------------------
(* The steps of a slot that only let go *)

\* The end of apt, and the hand-over to finish_update_run.
LEMMA UpdateSettles ==
    ASSUME RolloutConstants, RolloutInv, RolloutTyped', NEW s \in Slots
    PROVE  /\ \A verdict \in Terminal : EndUpdate(s, verdict) => RolloutInv'
           /\ FollowUp(s) => RolloutInv'
<1> DEFINE r == task[s].run
<1>0. /\ task[s] \in TaskRecord /\ task \in [Slots -> InSlot] /\ Fits(s)
      /\ task[s].pc \in OneRun => r \in Runs
      /\ task[s].pc \notin Listing => task[s].todo = {}
  BY RunInHand DEF RolloutInv, InSlot
<1>1. ASSUME NEW verdict \in Terminal, EndUpdate(s, verdict)
      PROVE  RolloutInv'
  <2> DEFINE T == [task[s] EXCEPT !.pc = "updated"]
  <2>1. r \in Runs /\ task[s].pc = "updating" /\ status[r] = "running" /\ task[s].todo = {}
    BY <1>0, <1>1 DEF EndUpdate, OneRun, Listing, Fits
  <2>2. task' = [task EXCEPT ![s] = T]
    BY <1>1 DEF EndUpdate
  <2>3. task'[s].pc = "updated" /\ task'[s].run = r /\ task'[s].todo = {}
    BY <1>0, <2>1, <2>2 DEF TaskRecord
  <2>4. status' = [status EXCEPT ![r] = verdict] /\ outcome' = outcome /\ batch' = batch
    BY <1>1 DEF EndUpdate
  <2>5. status \in [Runs -> Statuses] /\ outcome[r] = "unset"
    BY <2>1 DEF RolloutInv, NotRebooted, RolloutTypeOK
  <2>6. Touches(s, r) /\ Drives(s, r)
    BY <2>1 DEF Touches, Drives
  <2>7. OnlyBy(s) /\ NoneBegins
    BY <2>4, <2>5, <2>6 DEF OnlyBy, NoneBegins, Terminal
  <2>8. Fits(s)'
    BY <2>1, <2>3, <2>4, <2>5 DEF Fits
  <2>9. \A q \in Runs : /\ Touches(s, q)' => Touches(s, q)
                        /\ Drives(s, q)' => Drives(s, q)
                        /\ Starts(s, q)' => Starts(s, q)
    BY <2>1, <2>3 DEF Touches, Drives, Starts
  <2> HIDE DEF T
  <2> QED
    BY <2>2, <2>7, <2>8, <2>9, SlotSettles
<1>2. ASSUME FollowUp(s)
      PROVE  RolloutInv'
  <2>1. r \in Runs /\ task[s].pc = "updated"
    BY <1>0, <1>2 DEF FollowUp, OneRun
  <2>2. OnlyBy(s) /\ NoneBegins
    BY <1>2, NothingChanges DEF FollowUp
  <2>3. CASE task' = [task EXCEPT ![s] = FreeSlot]
    BY <2>2, <2>3, SlotIsFreed
  <2>4. CASE task' = [task EXCEPT ![s] = Message("finish_queued", r)]
    <3>1. task'[s] = Message("finish_queued", r)
      BY <1>0, <2>4
    <3>2. task'[s].pc = "finish_queued" /\ task'[s].run = r /\ task'[s].todo = {}
      BY <3>1 DEF Message, FreeSlot
    <3>3. Fits(s)'
      BY <1>0, <1>2, <2>1, <3>2 DEF Fits, FollowUp
    <3>4. \A q \in Runs : /\ Touches(s, q)' => Touches(s, q)
                          /\ Drives(s, q)' => Drives(s, q)
                          /\ Starts(s, q)' => Starts(s, q)
      BY <2>1, <3>2 DEF Touches, Drives, Starts
    <3> QED
      BY <2>2, <2>4, <3>3, <3>4, SlotSettles
  <2> QED
    BY <1>2, <2>3, <2>4 DEF FollowUp
<1> QED
  BY <1>1, <1>2

\* finish_update_run up to the reboot.
LEMMA FinishSettles ==
    ASSUME RolloutConstants, RolloutInv, RolloutTyped', NEW s \in Slots
    PROVE  /\ BeginFinish(s) => RolloutInv'
           /\ \A result \in Outcomes \ {"unset"} :
                 RebootAfterUpdate(s, result) => RolloutInv'
<1> DEFINE r == task[s].run
<1>0. /\ task[s] \in TaskRecord /\ task \in [Slots -> InSlot] /\ Fits(s)
      /\ task[s].pc \in OneRun => r \in Runs
      /\ task[s].pc \notin Listing => task[s].todo = {}
  BY RunInHand DEF RolloutInv, InSlot
<1>1. ASSUME BeginFinish(s)
      PROVE  RolloutInv'
  <2> DEFINE Copy(next) == [task[s] EXCEPT !.pc = next, !.status = status[r],
                                           !.outcome = outcome[r]]
  <2>1. r \in Runs /\ task[s].pc = "finish_queued" /\ status[r] # "none" /\ task[s].todo = {}
    BY <1>0, <1>1 DEF BeginFinish, OneRun, Listing
  <2>2. status[r] \in Terminal /\ (status[r] = "succeeded" => outcome[r] = "unset")
    BY <1>0, <2>1 DEF Fits
  <2>3. UNCHANGED <<batch, status, outcome>>
    BY <1>1 DEF BeginFinish
  <2>4. OnlyBy(s) /\ NoneBegins
    BY <2>3, NothingChanges
  <2>5. PICK next \in {"rebooting", "continuing", "free"} :
           /\ task' = [task EXCEPT ![s] = IF next = "free" THEN FreeSlot ELSE Copy(next)]
           /\ next = "rebooting" => status[r] = "succeeded" /\ RebootIfRequired(r)
           /\ next = "continuing" =>
                 Rolling(r) /\ ~(status[r] = "succeeded" /\ RebootIfRequired(r))
    BY <1>1 DEF BeginFinish
  <2>6. CASE next = "free"
    <3>1. task' = [task EXCEPT ![s] = FreeSlot]
      BY <2>5, <2>6
    <3> QED
      BY <2>4, <3>1, SlotIsFreed
  <2>7. CASE next # "free"
    <3>1. task' = [task EXCEPT ![s] = Copy(next)]
      BY <2>5, <2>7
    <3>2. /\ task'[s].pc = next /\ task'[s].run = r /\ task'[s].todo = {}
          /\ task'[s].status = status[r] /\ task'[s].outcome = outcome[r]
      BY <1>0, <2>1, <3>1 DEF TaskRecord
    <3>3. WentWell(s)' <=> status[r] = "succeeded"
      BY <2>2, <3>2 DEF WentWell, BadOutcomes
    <3>4. Rolling(r)' = Rolling(r) /\ RebootIfRequired(r)' = RebootIfRequired(r)
      BY <2>3, <3>2 DEF Rolling, RebootIfRequired
    <3>5. Fits(s)'
      <4>1. CASE next = "rebooting"
        BY <2>2, <2>3, <2>5, <3>2, <3>4, <4>1 DEF Fits
      <4>2. CASE next = "continuing"
        <5>1. status[r] = "succeeded" => Passed(r)'
          BY <2>2, <2>3, <2>5, <3>2, <3>4, <4>2 DEF Passed, BadOutcomes
        <5>2. status[r] # "succeeded" => Halted(r)'
          BY <2>2, <2>3, <3>2 DEF Halted, Terminal
        <5> QED
          BY <2>5, <3>2, <3>3, <3>4, <4>2, <5>1, <5>2 DEF Fits
      <4> QED
        BY <2>7, <4>1, <4>2
    <3>6. \A q \in Runs : /\ Touches(s, q)' => Touches(s, q)
                          /\ Drives(s, q)' => Drives(s, q)
                          /\ Starts(s, q)' => Starts(s, q)
      BY <2>1, <2>5, <2>7, <3>2, <3>3 DEF Touches, Drives, Starts
    <3> HIDE DEF Copy
    <3> QED
      BY <2>4, <3>1, <3>5, <3>6, SlotSettles
  <2> QED
    BY <2>6, <2>7
<1>2. ASSUME NEW result \in Outcomes \ {"unset"}, RebootAfterUpdate(s, result)
      PROVE  RolloutInv'
  <2> DEFINE T == [task[s] EXCEPT !.pc = "continuing", !.outcome = result]
  <2>1. r \in Runs /\ task[s].pc = "rebooting" /\ status[r] # "none" /\ task[s].todo = {}
    BY <1>0, <1>2 DEF RebootAfterUpdate, OneRun, Listing
  <2>2. /\ status[r] = "succeeded" /\ outcome[r] = "unset"
        /\ task[s].status = "succeeded" /\ task[s].outcome = "unset"
    BY <1>0, <2>1 DEF Fits
  <2>3. outcome' = [outcome EXCEPT ![r] = result] /\ UNCHANGED <<batch, status>>
    BY <1>2, <2>2 DEF RebootAfterUpdate
  <2>4. outcome'[r] = result /\ \A q \in Runs : q # r => outcome'[q] = outcome[q]
    BY <2>1, <2>3 DEF RolloutInv, RolloutTypeOK
  <2>5. Touches(s, r) /\ Drives(s, r)
    BY <2>1 DEF Touches, Drives
  <2>6. OnlyBy(s) /\ NoneBegins
    BY <2>2, <2>3, <2>4, <2>5 DEF OnlyBy, NoneBegins
  <2>7. CASE task' = [task EXCEPT ![s] = FreeSlot]
    BY <2>6, <2>7, SlotIsFreed
  <2>8. CASE Rolling(r) /\ task' = [task EXCEPT ![s] = T]
    <3>1. /\ task'[s].pc = "continuing" /\ task'[s].run = r /\ task'[s].todo = {}
          /\ task'[s].status = "succeeded" /\ task'[s].outcome = result
      BY <1>0, <2>1, <2>2, <2>8 DEF TaskRecord
    <3>2. WentWell(s)' <=> result \notin BadOutcomes
      BY <3>1 DEF WentWell
    <3>3. Rolling(r)'
      BY <2>3, <2>8, <3>1 DEF Rolling
    <3>4. result \notin BadOutcomes => Passed(r)'
      BY <2>2, <2>3, <2>4, <3>1 DEF Passed
    <3>5. result \in BadOutcomes => Halted(r)'
      BY <2>2, <2>3, <2>4, <3>1 DEF Halted
    <3>6. Fits(s)'
      BY <3>1, <3>2, <3>3, <3>4, <3>5 DEF Fits
    <3>7. \A q \in Runs : /\ Touches(s, q)' => Touches(s, q)
                          /\ Drives(s, q)' => Drives(s, q)
                          /\ Starts(s, q)' => Starts(s, q)
      BY <2>1, <3>1 DEF Touches, Drives, Starts
    <3> HIDE DEF T
    <3> QED
      BY <2>6, <2>8, <3>6, <3>7, SlotSettles
  <2> QED
    BY <1>2, <2>7, <2>8 DEF RebootAfterUpdate
<1> QED
  BY <1>1, <1>2

\* The rows failed are those the slot holds, and it drives none of them.
LEMMA FailedByHand ==
    ASSUME RolloutInv, NEW s \in Slots, FailRows(task[s].todo), UNCHANGED <<batch, outcome>>
    PROVE  OnlyBy(s) /\ NoneBegins
<1>1. status' = [r \in Runs |-> IF r \in task[s].todo /\ status[r] # "none" THEN "failed"
                                ELSE status[r]]
  BY DEF FailRows
<1> QED
  BY <1>1 DEF OnlyBy, NoneBegins, Touches

\* A stopped rollout, and what the watchdog closes.
LEMMA ClosingSettles ==
    ASSUME RolloutConstants, RolloutInv, RolloutTyped', NEW s \in Slots
    PROVE  /\ StopRollout(s) => RolloutInv'
           /\ ReapCommit(s) => RolloutInv'
<1>0. /\ task[s] \in TaskRecord /\ task \in [Slots -> InSlot] /\ Fits(s)
      /\ task[s].todo \subseteq Runs
  BY RunInHand DEF RolloutInv
<1>1. ASSUME StopRollout(s)
      PROVE  RolloutInv'
  BY <1>1, FailedByHand, SlotIsFreed DEF StopRollout
<1>2. ASSUME ReapCommit(s)
      PROVE  RolloutInv'
  <2> DEFINE todo == WaitingBatches(task[s].todo)
  <2>1. OnlyBy(s) /\ NoneBegins
    BY <1>2, FailedByHand DEF ReapCommit
  <2>2. CASE task' = [task EXCEPT ![s] = FreeSlot]
    BY <2>1, <2>2, SlotIsFreed
  <2>3. CASE task' = [task EXCEPT ![s] = Work("reaped", todo)]
    <3>1. task'[s] = Work("reaped", todo)
      BY <1>0, <2>3
    <3>2. task'[s].pc = "reaped" /\ task'[s].run = NoRun /\ task'[s].todo = todo
      BY <3>1 DEF Work, FreeSlot
    <3>3. ASSUME NEW q \in todo
          PROVE  Rolling(q)' /\ status'[q] \in {"failed", "none"}
      <4>1. q \in Runs /\ q \in task[s].todo /\ Rolling(q)
        BY <1>0 DEF WaitingBatches
      <4> QED
        BY <1>2, <4>1 DEF ReapCommit, FailRows, Rolling
    <3>4. Fits(s)'
      BY <3>2, <3>3 DEF Fits
    <3>5. \A q \in Runs : /\ Touches(s, q)' => Touches(s, q)
                          /\ Drives(s, q)' => Drives(s, q)
                          /\ Starts(s, q)' => Starts(s, q)
      BY <3>2 DEF Touches, Drives, Starts, WaitingBatches, RolloutConstants
    <3> HIDE DEF todo
    <3> QED
      BY <2>1, <2>3, <3>4, <3>5, SlotSettles
  <2> QED
    BY <1>2, <2>2, <2>3 DEF ReapCommit
<1> QED
  BY <1>1, <1>2

\* A deleted honeypot takes its rows along.
LEMMA DeletionSettles ==
    ASSUME RolloutConstants, RolloutInv, RolloutTyped', NEW h \in Targets, DeleteHoneypotAndRuns(h)
    PROVE  RolloutInv'
<1> DEFINE origin == [t \in Slots |-> t]
<1>1. PICK s : s \notin Slots
  BY NoSetContainsEverything
<1>2. UNCHANGED <<batch, outcome, task>>
  BY DEF DeleteHoneypotAndRuns
<1>3. \A q \in Runs : status'[q] = status[q] \/ status'[q] = "none"
  BY DEF DeleteHoneypotAndRuns
<1>4. OnlyBy(s) /\ NoneBegins
  BY <1>2, <1>3 DEF OnlyBy, NoneBegins
<1>5. \A t \in Slots : t # s /\ task'[t] = task[t]
  BY <1>1, <1>2
<1>6. NoMoreInHand(origin)
  BY <1>4, <1>5, OthersHold DEF NoMoreInHand
<1> HIDE DEF origin
<1> QED
  BY <1>4, <1>5, <1>6, SettlesDown

\* Two runs of one batch are ordered.
LEMMA InOrder ==
    ASSUME RolloutConstants, NEW q \in Runs, NEW r \in Runs, BatchOf[q] = BatchOf[r]
    PROVE  /\ q = r \/ Before(q, r) \/ Before(r, q)
           /\ ~(Before(q, r) /\ Before(r, q))
           /\ Before(q, r) => q # r
<1>1. HoneypotOf[q] \in Nat /\ HoneypotOf[r] \in Nat
  BY DEF RolloutConstants
<1>2. HoneypotOf[q] = HoneypotOf[r] => q = r
  BY DEF RolloutConstants
<1> QED
  BY <1>1, <1>2 DEF Before

-----------------------------------------------------------------------------
(* The steps that take something in hand *)

\* The run that begins is the one its slot drives; the rest of a rolling batch does not
\* run.
LEMMA BeginSettles ==
    ASSUME RolloutConstants, RolloutInv, RolloutTyped', NEW s \in Slots, BeginUpdate(s)
    PROVE  RolloutInv'
<1> DEFINE r == task[s].run
           T == [task[s] EXCEPT !.pc = "updating"]
           origin == [t \in Slots |-> t]
<1>0. /\ task[s] \in TaskRecord /\ task \in [Slots -> InSlot] /\ Fits(s)
      /\ task[s].pc \in OneRun => r \in Runs
      /\ task[s].pc \notin Listing => task[s].todo = {}
  BY RunInHand DEF RolloutInv, InSlot
<1>1. r \in Runs /\ task[s].pc = "run_queued" /\ status[r] = "pending" /\ task[s].todo = {}
  BY <1>0 DEF BeginUpdate, OneRun, Listing, Fits
<1>2. task' = [task EXCEPT ![s] = T]
  BY DEF BeginUpdate
<1>3. task'[s].pc = "updating" /\ task'[s].run = r /\ task'[s].todo = {}
  BY <1>0, <1>1, <1>2 DEF TaskRecord
<1>4. status' = [status EXCEPT ![r] = "running"] /\ UNCHANGED <<batch, outcome>>
  BY DEF BeginUpdate
<1>5. status'[r] = "running" /\ \A q \in Runs : q # r => status'[q] = status[q]
  BY <1>1, <1>4 DEF RolloutInv, RolloutTypeOK
<1>6. Touches(s, r) /\ Drives(s, r)
  BY <1>1 DEF Touches, Drives
<1>7. OnlyBy(s)
  BY <1>4, <1>5, <1>6 DEF OnlyBy
<1>8. \A q \in Runs : /\ Touches(s, q)' => Touches(s, q)
                      /\ Drives(s, q)' => Drives(s, q)
                      /\ Starts(s, q)' => Starts(s, q)
  BY <1>1, <1>3 DEF Touches, Drives, Starts
<1>9. Fits(s)'
  BY <1>3, <1>5 DEF Fits
<1> HIDE DEF T
<1>10. NoMoreInHand(origin) /\ \A t \in Slots : t # s => task'[t] = task[t]
  BY <1>2, <1>7, <1>8, NoMoreIsHeld
<1>11. NotRebooted'
  <2>1. outcome[r] = "unset"
    BY <1>1 DEF RolloutInv, NotRebooted
  <2> QED
    BY <1>4, <1>5, <2>1 DEF RolloutInv, NotRebooted
<1>12. ASSUME NEW q \in Runs, q # r, BatchOf[q] = BatchOf[r], Rolling(r)
       PROVE  status[q] # "running"
  <2>1. CASE Before(q, r)
    BY <1>1, <1>6, <1>12, <2>1 DEF RolloutInv, InPlace, Passed
  <2>2. CASE Before(r, q)
    BY <1>1, <1>6, <1>12, <2>2 DEF RolloutInv, InPlace
  <2> QED
    BY <1>1, <1>12, <2>1, <2>2, InOrder
<1>13. OneRunning'
  <2>1. ASSUME NEW x \in Runs, NEW y \in Runs, BatchOf[x] = BatchOf[y], Rolling(y),
               status'[x] = "running", status'[y] = "running"
        PROVE  x = y
    <3>1. Rolling(x)
      BY <2>1 DEF Rolling
    <3>2. CASE x # r /\ y # r
      BY <1>5, <2>1, <3>2 DEF RolloutInv, OneRunning
    <3>3. CASE x = r
      BY <1>5, <1>12, <2>1, <3>1, <3>3
    <3>4. CASE y = r
      BY <1>5, <1>12, <2>1, <3>4
    <3> QED
      BY <3>2, <3>3, <3>4
  <2>2. \A y : Rolling(y)' = Rolling(y)
    BY <1>4 DEF Rolling
  <2> QED
    BY <2>1, <2>2 DEF OneRunning
<1>14. \A q \in Runs : status'[q] = "pending" => status[q] = "pending"
  BY <1>5
<1>15. \A t \in Slots : Fits(t)' \/ (t # s /\ task'[t] = task[t])
  BY <1>9, <1>10
<1> HIDE DEF origin, r
<1> QED
  BY <1>7, <1>10, <1>11, <1>13, <1>14, <1>15, StepSettles

\* A rolling batch goes on with the first run that waits, or gives up those that wait.
LEMMA ContinueSettles ==
    ASSUME RolloutConstants, RolloutInv, RolloutTyped', NEW s \in Slots, ContinueRollout(s)
    PROVE  RolloutInv'
<1> DEFINE r == task[s].run
           waiting == WaitingBehind(r)
<1>0. /\ task[s] \in TaskRecord /\ task \in [Slots -> InSlot] /\ Fits(s)
      /\ task[s].pc \in OneRun => r \in Runs
      /\ task[s].pc \notin Listing => task[s].todo = {}
  BY RunInHand DEF RolloutInv, InSlot
<1>1. r \in Runs /\ task[s].pc = "continuing" /\ task[s].todo = {} /\ Rolling(r)
  BY <1>0 DEF ContinueRollout, OneRun, Listing, Fits
<1>2. UNCHANGED <<batch, status, outcome>>
  BY DEF ContinueRollout
<1>3. OnlyBy(s) /\ NoneBegins
  BY <1>2, NothingChanges
<1>4. Touches(s, r)
  BY DEF Touches
<1>5. /\ \A x : Rolling(x)' = Rolling(x) /\ RebootIfRequired(x)' = RebootIfRequired(x)
      /\ \A x : Passed(x)' <=> Passed(x)
      /\ \A x : Halted(x)' <=> Halted(x)
  BY <1>2 DEF Rolling, RebootIfRequired, Passed, Halted
<1>6. \A q \in Runs : status'[q] = "pending" => status[q] = "pending"
  BY <1>2
<1>7. NotRebooted' /\ OneRunning'
  BY <1>2, <1>3, RowsStay
<1>8. ASSUME NEW q \in waiting
      PROVE  q \in Runs /\ Before(r, q) /\ status[q] = "pending" /\ BatchOf[q] = BatchOf[r]
             /\ Rolling(q) /\ batch[BatchOf[q]].made
  <2>1. q \in Runs /\ Before(r, q) /\ status[q] = "pending" /\ BatchOf[q] = BatchOf[r]
    BY DEF WaitingBehind, Before
  <2> QED
    BY <1>1, <2>1 DEF RolloutInv, Unmade, Rolling
\* Nobody else drives a run of the batch or, if it went well, touches one.
<1>9. ASSUME NEW t \in Slots, t # s, NEW x \in Runs, BatchOf[x] = BatchOf[r]
      PROVE  ~Drives(t, x) /\ (WentWell(s) => ~Touches(t, x))
  <2>1. Rolling(x)
    BY <1>1, <1>9 DEF Rolling
  <2>2. WentWell(s) => Drives(s, r)
    BY <1>1, <1>4 DEF Drives
  <2> QED
    BY <1>1, <1>4, <1>9, <2>1, <2>2 DEF RolloutInv, OneDriver
<1> HIDE DEF waiting
<1>10. ASSUME NEW T, task' = [task EXCEPT ![s] = T]
       PROVE  /\ \A t \in Slots : t # s => task'[t] = task[t]
              /\ \A t \in Slots, x \in Runs : t # s =>
                    /\ Touches(t, x)' => Touches(t, x)
                    /\ Drives(t, x)' => Drives(t, x)
                    /\ Starts(t, x)' => Starts(t, x)
  <2>1. \A t \in Slots : t # s => task'[t] = task[t]
    BY <1>0, <1>10
  <2> QED
    BY <1>3, <2>1, OthersHold
<1>11. CASE task' = [task EXCEPT ![s] = FreeSlot]
  BY <1>3, <1>11, SlotIsFreed
<1>12. ASSUME WentWell(s), NEW q \in waiting, IsFirst(q, waiting),
              task' = [task EXCEPT ![s] = Message("run_queued", q)]
       PROVE  RolloutInv'
  <2>1. task'[s] = Message("run_queued", q)
    BY <1>0, <1>12
  <2>2. task'[s].pc = "run_queued" /\ task'[s].run = q /\ task'[s].todo = {}
    BY <2>1 DEF Message, FreeSlot
  <2>3. \A x \in Runs : Touches(s, x)' <=> x = q
    BY <2>2 DEF Touches
  <2>4. Drives(s, r) /\ Passed(r)
    BY <1>0, <1>1, <1>4, <1>12 DEF Drives, Fits
  <2>5. OneDriver'
    <3>1. ASSUME NEW t \in Slots, NEW u \in Slots, NEW x \in Runs, NEW y \in Runs,
                 Drives(t, x)', Touches(u, y)', BatchOf[y] = BatchOf[x], Rolling(x) \/ y = x
          PROVE  t = u /\ y = x
      <4>1. CASE t = s /\ u = s
        BY <2>3, <3>1, <4>1 DEF Drives
      <4>2. CASE t = s /\ u # s
        <5>1. x = q /\ Touches(u, y)
          BY <1>10, <1>12, <2>3, <3>1, <4>2 DEF Drives
        <5> QED
          BY <1>8, <1>9, <1>12, <3>1, <4>2, <5>1
      <4>3. CASE t # s /\ u = s
        <5>1. y = q /\ Drives(t, x)
          BY <1>10, <1>12, <2>3, <3>1, <4>3
        <5> QED
          BY <1>8, <1>9, <1>12, <3>1, <4>3, <5>1
      <4>4. CASE t # s /\ u # s
        <5>1. Drives(t, x) /\ Touches(u, y)
          BY <1>10, <1>12, <3>1, <4>4
        <5> QED
          BY <3>1, <5>1 DEF RolloutInv, OneDriver
      <4> QED
        BY <4>1, <4>2, <4>3, <4>4
    <3> QED
      BY <1>5, <3>1 DEF OneDriver
  <2>6. InPlace'
    <3>1. ASSUME NEW x \in Runs
          PROVE  /\ Before(x, q) => Passed(x)
                 /\ Before(q, x) => status[x] \in {"none", "pending"}
      <4>0. /\ HoneypotOf[x] \in Nat /\ HoneypotOf[r] \in Nat /\ HoneypotOf[q] \in Nat
            /\ BatchOf[q] = BatchOf[r] /\ HoneypotOf[r] < HoneypotOf[q]
        BY <1>1, <1>8, <1>12 DEF RolloutConstants, Before
      <4>1. /\ Before(x, r) => Passed(x)
            /\ Before(r, x) => status[x] \in {"none", "pending"}
        BY <1>1, <2>4 DEF RolloutInv, InPlace
      <4>2. CASE Before(x, q) /\ Before(r, x)
        <5>1. x \notin waiting
          BY <1>12, <4>0, <4>2 DEF IsFirst, Before
        <5>2. status[x] # "pending"
          BY <4>2, <5>1 DEF waiting, WaitingBehind
        <5> QED
          BY <4>1, <4>2, <5>2, InOrder, <1>8, <1>12 DEF Passed, Before
      <4>3. CASE Before(x, q) /\ ~Before(r, x)
        <5>1. x = r \/ Before(x, r)
          BY <1>1, <4>0, <4>3, InOrder DEF Before
        <5> QED
          BY <2>4, <4>0, <4>1, <4>3, <5>1 DEF Before
      <4>4. CASE Before(q, x)
        <5>1. Before(r, x)
          BY <4>0, <4>4 DEF Before
        <5> QED
          BY <4>0, <4>1, <4>4, <5>1 DEF Before
      <4> QED
        BY <4>2, <4>3, <4>4
    <3>2. ASSUME NEW t \in Slots, NEW x \in Runs, NEW y \in Runs, Drives(t, x)', Rolling(x)
          PROVE  /\ Before(y, x) => Passed(y)
                 /\ Before(x, y) => status[y] \in {"none", "pending"}
      <4>1. CASE t = s
        <5>1. x = q
          BY <2>3, <3>2, <4>1 DEF Drives
        <5> QED
          BY <3>1, <5>1
      <4>2. CASE t # s
        BY <1>10, <1>12, <3>2, <4>2 DEF RolloutInv, InPlace
      <4> QED
        BY <4>1, <4>2
    <3> QED
      BY <1>2, <1>5, <3>2 DEF InPlace, Before
  <2>7. ASSUME NEW t \in Slots
        PROVE  Fits(t)'
    <3>1. CASE t = s
      BY <1>2, <1>8, <1>12, <2>2, <3>1 DEF Fits
    <3>2. CASE t # s
      BY <1>3, <1>6, <1>10, <1>12, <3>2, OthersFit
    <3> QED
      BY <3>1, <3>2
  <2>8. Unmade'
    <3>1. ASSUME NEW t \in Slots, NEW x \in Runs, Touches(t, x)'
          PROVE  batch[BatchOf[x]].made
      <4>1. CASE t = s
        BY <1>8, <1>12, <2>3, <3>1, <4>1
      <4>2. CASE t # s
        BY <1>10, <1>12, <3>1, <4>2 DEF RolloutInv, Unmade
      <4> QED
        BY <4>1, <4>2
    <3> QED
      BY <1>3, <3>1, UnmadeStays
  <2>9. Retried'
    <3>1. ASSUME NEW x \in Runs, Fresh(x)'
          PROVE  Fresh(x)
      <4>1. CASE status'[x] = "pending"
        BY <1>6, <4>1 DEF Fresh
      <4>2. CASE \E t \in Slots : Starts(t, x)'
        <5>1. PICK t \in Slots : Starts(t, x)'
          BY <4>2
        <5>2. CASE t = s
          <6>1. x = q
            BY <2>3, <5>1, <5>2 DEF Starts
          <6> QED
            BY <1>8, <1>12, <6>1 DEF Fresh
        <5>3. CASE t # s
          BY <1>10, <1>12, <5>1, <5>3 DEF Fresh
        <5> QED
          BY <5>2, <5>3
      <4> QED
        BY <3>1, <4>1, <4>2 DEF Fresh
    <3> QED
      BY <1>2, <3>1, RetriedStays
  <2> QED
    BY <1>7, <2>5, <2>6, <2>7, <2>8, <2>9 DEF RolloutInv, RolloutTyped
<1>13. ASSUME ~WentWell(s), task' = [task EXCEPT ![s].pc = "stopping", ![s].todo = waiting]
       PROVE  RolloutInv'
  <2> DEFINE T == [task[s] EXCEPT !.pc = "stopping", !.todo = waiting]
  <2>1. task' = [task EXCEPT ![s] = T]
    BY <1>13
  <2>2. task'[s].pc = "stopping" /\ task'[s].run = r /\ task'[s].todo = waiting
    BY <1>0, <2>1 DEF TaskRecord
  <2> HIDE DEF T
  <2>3. \A x \in Runs : /\ Touches(s, x)' => x = r \/ x \in waiting
                        /\ ~Drives(s, x)' /\ ~Starts(s, x)'
    BY <2>2 DEF Touches, Drives, Starts
  <2>4. Halted(r)
    BY <1>0, <1>1, <1>13 DEF Fits
  <2>5. OneDriver'
    <3>1. ASSUME NEW t \in Slots, NEW u \in Slots, NEW x \in Runs, NEW y \in Runs,
                 Drives(t, x)', Touches(u, y)', BatchOf[y] = BatchOf[x], Rolling(x) \/ y = x
          PROVE  t = u /\ y = x
      <4>1. t # s /\ Drives(t, x)
        BY <1>10, <2>1, <2>3, <3>1
      <4>2. CASE u = s
        <5>1. BatchOf[y] = BatchOf[r]
          BY <1>8, <2>3, <3>1, <4>2
        <5> QED
          BY <1>9, <3>1, <4>1, <5>1
      <4>3. CASE u # s
        <5>1. Touches(u, y)
          BY <1>10, <2>1, <3>1, <4>3
        <5> QED
          BY <3>1, <4>1, <5>1 DEF RolloutInv, OneDriver
      <4> QED
        BY <4>2, <4>3
    <3> QED
      BY <1>5, <3>1 DEF OneDriver
  <2>6. InPlace'
    <3>1. ASSUME NEW t \in Slots, NEW x \in Runs, NEW y \in Runs, Drives(t, x)', Rolling(x)
          PROVE  /\ Before(y, x) => Passed(y)
                 /\ Before(x, y) => status[y] \in {"none", "pending"}
      <4>1. Drives(t, x)
        BY <1>10, <2>1, <2>3, <3>1
      <4> QED
        BY <3>1, <4>1 DEF RolloutInv, InPlace
    <3> QED
      BY <1>2, <1>5, <3>1 DEF InPlace, Before
  <2>7. ASSUME NEW t \in Slots
        PROVE  Fits(t)'
    <3>1. CASE t = s
      <4>1. \A q \in waiting : Before(r, q) /\ status'[q] = "pending"
        BY <1>2, <1>8
      <4>2. \A q \in Runs : Before(r, q) /\ status'[q] = "pending" => q \in waiting
        BY <1>2 DEF waiting, WaitingBehind
      <4>3. Rolling(r)' /\ Halted(r)'
        BY <1>1, <1>2, <2>2, <2>4 DEF Rolling, Halted
      <4> QED
        BY <2>2, <3>1, <4>1, <4>2, <4>3 DEF Fits, Before
    <3>2. CASE t # s
      BY <1>3, <1>6, <1>10, <2>1, <3>2, OthersFit
    <3> QED
      BY <3>1, <3>2
  <2>8. Unmade'
    <3>1. ASSUME NEW t \in Slots, NEW x \in Runs, Touches(t, x)'
          PROVE  batch[BatchOf[x]].made
      <4>1. CASE t = s
        <5>1. Touches(s, r) => batch[BatchOf[r]].made
          BY <1>1 DEF RolloutInv, Unmade
        <5> QED
          BY <1>4, <1>8, <2>3, <3>1, <4>1, <5>1
      <4>2. CASE t # s
        BY <1>10, <2>1, <3>1, <4>2 DEF RolloutInv, Unmade
      <4> QED
        BY <4>1, <4>2
    <3> QED
      BY <1>3, <3>1, UnmadeStays
  <2>9. Retried'
    <3>1. ASSUME NEW x \in Runs, Fresh(x)'
          PROVE  Fresh(x)
      BY <1>6, <1>10, <2>1, <2>3, <3>1 DEF Fresh
    <3> QED
      BY <1>2, <3>1, RetriedStays
  <2> QED
    BY <1>7, <2>5, <2>6, <2>7, <2>8, <2>9 DEF RolloutInv, RolloutTyped
<1> QED
  BY <1>11, <1>12, <1>13 DEF ContinueRollout, waiting

\* The watchdog takes runs nobody is at, if its limit was not lowered.
LEMMA SelectSettles ==
    ASSUME RolloutConstants, Calm, RolloutInv, RolloutTyped', NEW s \in Slots,
           NEW R \in SUBSET Runs, ReapSelect(s, R)
    PROVE  RolloutInv'
<1>1. UNCHANGED <<batch, status, outcome>> /\ task' = [task EXCEPT ![s] = Work("reaping", R)]
  BY DEF ReapSelect
<1>2. OnlyBy(s) /\ NoneBegins
  BY <1>1, NothingChanges
<1>3. task'[s] = Work("reaping", R) /\ \A t \in Slots : t # s => task'[t] = task[t]
  BY <1>1 DEF RolloutInv
<1>4. task'[s].pc = "reaping" /\ task'[s].run = NoRun /\ task'[s].todo = R
  BY <1>3 DEF Work, FreeSlot
<1>5. \A x \in Runs : /\ Touches(s, x)' => x \in R
                      /\ ~Drives(s, x)' /\ ~Starts(s, x)'
  BY <1>4 DEF Touches, Drives, Starts, RolloutConstants
<1>6. ASSUME NEW t \in Slots, t # s, NEW x \in Runs
      PROVE  /\ Touches(t, x)' => Touches(t, x)
             /\ Drives(t, x)' => Drives(t, x)
             /\ Starts(t, x)' => Starts(t, x)
  BY <1>2, <1>3, <1>6, OthersHold
<1>7. /\ \A x : Rolling(x)' = Rolling(x) /\ RebootIfRequired(x)' = RebootIfRequired(x)
      /\ \A x : Passed(x)' <=> Passed(x)
  BY <1>1 DEF Rolling, RebootIfRequired, Passed
<1>8. \A q \in Runs : status'[q] = "pending" => status[q] = "pending"
  BY <1>1
\* What is stale is driven by nobody.
<1>9. ASSUME NEW y \in R, NEW t \in Slots, NEW x \in Runs, Drives(t, x),
             BatchOf[y] = BatchOf[x], Rolling(x) \/ y = x
      PROVE  FALSE
  <2>1. y \in Runs /\ status[y] = "running" /\ ~(task[t].pc = "updating" /\ task[t].run = y)
    BY DEF ReapSelect, IsStale, Calm
  <2>2. x # y
    <3>1. SUFFICES ASSUME x = y PROVE FALSE
      OBVIOUS
    <3>2. task[t].todo \subseteq Runs /\ (task[t].pc \notin Listing => task[t].todo = {})
      BY RunInHand DEF RolloutInv, InSlot
    <3>3. Fits(t) /\ Touches(t, y)
      BY <1>9, <3>1 DEF RolloutInv, Drives
    <3>4. task[t].pc # "enqueueing" =>
             y = task[t].run \/ task[t].pc \in {"reaping", "reaped", "stopping"}
      BY <3>2, <3>3 DEF Touches, Listing
    <3>5. task[t].pc = "enqueueing" => task[t].run = NoRun
      BY DEF RolloutInv, InSlot, OneRun
    <3>6. task[t].pc = "enqueueing" => y \in task[t].todo
      BY <2>1, <3>3, <3>5 DEF Touches, RolloutConstants
    <3>7. WentWell(t) /\ task[t].pc = "continuing" => Passed(task[t].run)
      BY <3>3 DEF Fits
    <3> QED
      BY <1>9, <2>1, <3>1, <3>3, <3>4, <3>6, <3>7 DEF Drives, Fits, Passed, Terminal
  <2>3. Rolling(x) /\ (Before(y, x) \/ Before(x, y))
    BY <1>9, <2>1, <2>2, InOrder
  <2> QED
    BY <1>9, <2>1, <2>3 DEF RolloutInv, InPlace, Passed
<1>10. OneDriver'
  <2>1. ASSUME NEW t \in Slots, NEW u \in Slots, NEW x \in Runs, NEW y \in Runs,
               Drives(t, x)', Touches(u, y)', BatchOf[y] = BatchOf[x], Rolling(x) \/ y = x
        PROVE  t = u /\ y = x
    <3>1. t # s /\ Drives(t, x)
      BY <1>5, <1>6, <2>1
    <3>2. u # s
      BY <1>5, <1>9, <2>1, <3>1
    <3>3. Touches(u, y)
      BY <1>6, <2>1, <3>2
    <3> QED
      BY <2>1, <3>1, <3>3 DEF RolloutInv, OneDriver
  <2> QED
    BY <1>7, <2>1 DEF OneDriver
<1>11. InPlace'
  <2>1. ASSUME NEW t \in Slots, NEW x \in Runs, NEW y \in Runs, Drives(t, x)', Rolling(x)
        PROVE  /\ Before(y, x) => Passed(y)
               /\ Before(x, y) => status[y] \in {"none", "pending"}
    <3>1. Drives(t, x)
      BY <1>5, <1>6, <2>1
    <3> QED
      BY <2>1, <3>1 DEF RolloutInv, InPlace
  <2> QED
    BY <1>1, <1>7, <2>1 DEF InPlace, Before
<1>12. ASSUME NEW t \in Slots
       PROVE  Fits(t)'
  <2>1. CASE t = s
    <3>1. \A q \in R : status'[q] = "running"
      BY <1>1 DEF ReapSelect, IsStale
    <3> QED
      BY <1>4, <2>1, <3>1 DEF Fits
  <2>2. CASE t # s
    BY <1>2, <1>3, <1>8, <2>2, OthersFit
  <2> QED
    BY <2>1, <2>2
<1>13. Unmade'
  <2>1. ASSUME NEW t \in Slots, NEW x \in Runs, Touches(t, x)'
        PROVE  batch[BatchOf[x]].made
    <3>1. CASE t = s
      <4>1. status[x] = "running"
        BY <1>5, <2>1, <3>1 DEF ReapSelect, IsStale
      <4> QED
        BY <4>1 DEF RolloutInv, Unmade
    <3>2. CASE t # s
      BY <1>6, <2>1, <3>2 DEF RolloutInv, Unmade
    <3> QED
      BY <3>1, <3>2
  <2> QED
    BY <1>2, <2>1, UnmadeStays
<1>14. Retried'
  <2>1. ASSUME NEW x \in Runs, Fresh(x)'
        PROVE  Fresh(x)
    BY <1>5, <1>6, <1>8, <2>1 DEF Fresh
  <2> QED
    BY <1>1, <2>1, RetriedStays
<1>15. NotRebooted' /\ OneRunning'
  BY <1>1, <1>2, RowsStay
<1> QED
  BY <1>10, <1>11, <1>12, <1>13, <1>14, <1>15 DEF RolloutInv, RolloutTyped

\* A new batch, where nobody is at a run it retries.
LEMMA TriggerSettles ==
    ASSUME RolloutConstants, RolloutInv, RolloutTyped', NEW s \in Slots, NEW b \in Batches,
           NEW H, NEW kind, NEW source \in Batches \cup {0}, TriggerUpdates(s, b, H, kind, source),
           source # 0 => batch[source].made,
           \A r \in Runs : BatchOf[r] = source /\ HoneypotOf[r] \in H => ~Fresh(r)
    PROVE  RolloutInv'
<1> DEFINE R == {r \in RunsOf(b) : HoneypotOf[r] \in H}
           N == SentNow(kind, R)
<1>0. batch \in [Batches -> BatchRecord] /\ BatchOf \in [Runs -> Batches]
  BY DEF RolloutInv, RolloutTypeOK, RolloutConstants
<1>1. ~batch[b].made
  BY DEF TriggerUpdates, IsNewBatch
<1>2. /\ batch' = [batch EXCEPT ![b] =
             [made |-> TRUE, rolling |-> kind.rolling, reboot |-> kind.reboot,
              retryOf |-> source]]
      /\ status' = [r \in Runs |-> IF r \in R THEN "pending" ELSE status[r]]
      /\ task' = [task EXCEPT ![s] = Work("enqueueing", N)]
      /\ outcome' = outcome /\ task[s].pc = "free"
  BY DEF TriggerUpdates
<1>3. /\ batch'[b].made /\ batch'[b].rolling = kind.rolling /\ batch'[b].retryOf = source
      /\ \A c \in Batches : c # b => batch'[c] = batch[c]
  BY <1>0, <1>2
<1>4. /\ \A r \in R : r \in Runs /\ BatchOf[r] = b /\ status'[r] = "pending"
      /\ \A r \in Runs : r \notin R => status'[r] = status[r]
  BY <1>2 DEF RunsOf
<1>5. N \subseteq R /\ (kind.rolling => \A r \in N : IsFirst(r, R))
  BY DEF SentNow
<1> HIDE DEF N, R
<1>6. task'[s].pc = "enqueueing" /\ task'[s].run = NoRun /\ task'[s].todo = N
  BY <1>2 DEF RolloutInv, Work, FreeSlot
<1>7. \A t \in Slots : t # s => task'[t] = task[t]
  BY <1>2 DEF RolloutInv
\* The batch was untouched.
<1>8. ASSUME NEW r \in Runs, BatchOf[r] = b
      PROVE  status[r] = "none" /\ outcome[r] = "unset" /\ \A t \in Slots : ~Touches(t, r)
  BY <1>1, <1>8 DEF RolloutInv, Unmade
<1>9. \A x \in Runs : Touches(s, x)' => x \in N /\ x \in R /\ BatchOf[x] = b
  BY <1>4, <1>5, <1>6 DEF Touches, RolloutConstants
<1>10. ASSUME NEW t \in Slots, t # s, NEW x \in Runs
       PROVE  /\ Touches(t, x)' => Touches(t, x) /\ BatchOf[x] # b
              /\ Drives(t, x)' => Drives(t, x)
              /\ Starts(t, x)' => Starts(t, x)
  <2>1. /\ Touches(t, x)' <=> Touches(t, x)
        /\ Starts(t, x)' <=> Starts(t, x)
        /\ WentWell(t)' <=> WentWell(t)
    BY <1>7, <1>10 DEF Touches, Starts, WentWell
  <2>2. status'[x] = "succeeded" => status[x] = "succeeded"
    BY <1>4
  <2> QED
    BY <1>7, <1>8, <1>10, <2>1, <2>2 DEF Drives
<1>11. ASSUME NEW x \in Runs, BatchOf[x] # b
       PROVE  /\ batch'[BatchOf[x]] = batch[BatchOf[x]] /\ Rolling(x)' = Rolling(x)
              /\ status'[x] = status[x] /\ outcome'[x] = outcome[x]
              /\ Passed(x)' <=> Passed(x)
  <2>1. batch'[BatchOf[x]] = batch[BatchOf[x]]
    BY <1>0, <1>3, <1>11
  <2>2. status'[x] = status[x] /\ outcome'[x] = outcome[x]
    BY <1>2, <1>4, <1>11
  <2> QED
    BY <2>1, <2>2 DEF Rolling, RebootIfRequired, Passed
<1>12. ASSUME NEW x \in Runs, BatchOf[x] = b
       PROVE  /\ Rolling(x)' = kind.rolling
              /\ status'[x] = IF x \in R THEN "pending" ELSE "none"
  BY <1>3, <1>4, <1>8, <1>12 DEF Rolling
<1>13. OneDriver'
  <2>1. ASSUME NEW t \in Slots, NEW u \in Slots, NEW x \in Runs, NEW y \in Runs,
               Drives(t, x)', Touches(u, y)', BatchOf[y] = BatchOf[x], Rolling(x)' \/ y = x
        PROVE  t = u /\ y = x
    <3>0. Touches(t, x)'
      BY <2>1 DEF Drives
    <3>1. CASE t = s /\ u = s
      <4>1. x \in N /\ y \in N /\ BatchOf[x] = b
        BY <1>9, <2>1, <3>0, <3>1
      <4>2. CASE y = x
        BY <3>1, <4>2
      <4>3. CASE Rolling(x)'
        <5>1. IsFirst(x, R) /\ IsFirst(y, R)
          BY <1>5, <1>12, <4>1, <4>3
        <5>2. HoneypotOf[x] <= HoneypotOf[y] /\ HoneypotOf[y] <= HoneypotOf[x]
          BY <5>1 DEF IsFirst
        <5>3. HoneypotOf[x] \in Nat /\ HoneypotOf[y] \in Nat
          BY DEF RolloutConstants
        <5>4. ~Before(x, y) /\ ~Before(y, x)
          BY <5>2, <5>3 DEF Before
        <5> QED
          BY <2>1, <3>1, <5>4, InOrder
      <4> QED
        BY <2>1, <4>2, <4>3
    <3>2. CASE t # s /\ u # s
      <4>1. Drives(t, x) /\ Touches(u, y) /\ BatchOf[x] # b
        BY <1>10, <2>1, <3>0, <3>2
      <4>2. Rolling(x)' = Rolling(x)
        BY <1>11, <4>1
      <4> QED
        BY <2>1, <4>1, <4>2 DEF RolloutInv, OneDriver
    <3>3. CASE (t = s /\ u # s) \/ (t # s /\ u = s)
      BY <1>9, <1>10, <2>1, <3>0, <3>3
    <3> QED
      BY <3>1, <3>2, <3>3
  <2> QED
    BY <2>1 DEF OneDriver
<1>14. InPlace'
  <2>1. ASSUME NEW t \in Slots, NEW x \in Runs, NEW y \in Runs, Drives(t, x)', Rolling(x)'
        PROVE  /\ Before(y, x) => Passed(y)'
               /\ Before(x, y) => status'[y] \in {"none", "pending"}
    <3>0. Touches(t, x)'
      BY <2>1 DEF Drives
    <3>1. CASE t = s
      <4>1. x \in N /\ BatchOf[x] = b
        BY <1>9, <3>0, <3>1
      <4>2. IsFirst(x, R)
        BY <1>5, <1>12, <2>1, <4>1
      <4>3. HoneypotOf[x] \in Nat /\ HoneypotOf[y] \in Nat
        BY DEF RolloutConstants
      <4>4. ASSUME Before(y, x)
            PROVE  Passed(y)'
        <5>1. y \notin R /\ BatchOf[y] = b
          BY <4>1, <4>2, <4>3, <4>4 DEF IsFirst, Before
        <5>2. status'[y] = "none"
          BY <1>12, <5>1
        <5> QED
          BY <5>2 DEF Passed
      <4>5. ASSUME Before(x, y)
            PROVE  status'[y] \in {"none", "pending"}
        <5>1. BatchOf[y] = b
          BY <4>1, <4>5 DEF Before
        <5> QED
          BY <1>12, <5>1
      <4> QED
        BY <4>4, <4>5
    <3>2. CASE t # s
      <4>1. Drives(t, x) /\ BatchOf[x] # b
        BY <1>10, <2>1, <3>0, <3>2
      <4>2. Rolling(x)
        BY <1>11, <2>1, <4>1
      <4>3. Before(x, y) \/ Before(y, x) => BatchOf[y] # b
        BY <4>1 DEF Before
      <4>4. /\ Before(y, x) => Passed(y)
            /\ Before(x, y) => status[y] \in {"none", "pending"}
        BY <4>1, <4>2 DEF RolloutInv, InPlace
      <4> QED
        BY <1>11, <4>3, <4>4
    <3> QED
      BY <3>1, <3>2
  <2> QED
    BY <2>1 DEF InPlace, Before
<1>15. ASSUME NEW t \in Slots
       PROVE  Fits(t)'
  <2>1. CASE t = s
    <3>1. \A q \in N : status'[q] = "pending"
      BY <1>4, <1>5
    <3> QED
      BY <1>6, <2>1, <3>1 DEF Fits
  <2>2. CASE t # s
    <3>1. ASSUME NEW q \in Runs, Touches(t, q)
          PROVE  BatchOf[q] # b
      BY <1>8, <3>1
    <3>2. \A q \in Runs : Touches(t, q) =>
             /\ batch'[BatchOf[q]] = batch[BatchOf[q]]
             /\ status'[q] = status[q] /\ outcome'[q] = outcome[q]
      BY <1>11, <3>1
    <3>3. \A q, r \in Runs :
             Touches(t, r) /\ BatchOf[q] = BatchOf[r] /\ status'[q] = "pending"
                 => status[q] = "pending"
      BY <1>11, <3>1
    <3> QED
      BY <1>7, <2>2, <3>2, <3>3, HeldFits
  <2> QED
    BY <2>1, <2>2
<1>16. source # b
  <2>1. b \in Nat \ {0}
    BY DEF RolloutConstants
  <2> QED
    BY <1>1, <2>1
<1>17. Unmade'
  <2>1. ASSUME NEW r \in Runs, ~batch'[BatchOf[r]].made
        PROVE  status'[r] = "none" /\ outcome'[r] = "unset" /\ \A t \in Slots : ~Touches(t, r)'
    <3>1. BatchOf[r] # b
      BY <1>3, <2>1
    <3>2. ~batch[BatchOf[r]].made
      BY <1>11, <2>1, <3>1
    <3>3. status[r] = "none" /\ outcome[r] = "unset" /\ \A t \in Slots : ~Touches(t, r)
      BY <3>2 DEF RolloutInv, Unmade
    <3> QED
      BY <1>9, <1>10, <1>11, <3>1, <3>3
  <2>2. ASSUME NEW c \in Batches, ~batch'[c].made
        PROVE  ~batch'[c].rolling
    BY <1>3, <2>2 DEF RolloutInv, Unmade
  <2>3. ASSUME NEW c \in Batches, batch'[c].retryOf # 0
        PROVE  batch'[batch'[c].retryOf].made
    <3>1. CASE c = b
      BY <1>3, <1>16, <2>3, <3>1
    <3>2. CASE c # b
      <4>1. batch[c].retryOf \in Batches /\ batch[batch[c].retryOf].made
        BY <1>0, <1>3, <2>3, <3>2 DEF RolloutInv, Unmade, BatchRecord
      <4> QED
        BY <1>1, <1>3, <3>2, <4>1
    <3> QED
      BY <3>1, <3>2
  <2> QED
    BY <2>1, <2>2, <2>3 DEF Unmade
<1>18. NotRebooted'
  BY <1>2, <1>8, <1>11 DEF RolloutInv, NotRebooted
<1>19. OneRunning'
  <2>1. ASSUME NEW x \in Runs, NEW y \in Runs, BatchOf[x] = BatchOf[y], Rolling(y)',
               status'[x] = "running", status'[y] = "running"
        PROVE  x = y
    <3>1. BatchOf[y] # b
      BY <1>12, <2>1
    <3> QED
      BY <1>11, <2>1, <3>1 DEF RolloutInv, OneRunning
  <2> QED
    BY <2>1 DEF OneRunning
<1>20. ASSUME NEW x \in Runs, BatchOf[x] # b, Fresh(x)'
       PROVE  Fresh(x)
  <2>1. CASE status'[x] = "pending"
    BY <1>11, <1>20, <2>1 DEF Fresh
  <2>2. CASE \E t \in Slots : Starts(t, x)'
    <3>1. PICK t \in Slots : Starts(t, x)'
      BY <2>2
    <3>2. t # s
      BY <1>9, <1>20, <3>1 DEF Starts
    <3> QED
      BY <1>10, <3>1, <3>2 DEF Fresh
  <2> QED
    BY <1>20, <2>1, <2>2 DEF Fresh
<1>21. ASSUME NEW x \in Runs, BatchOf[x] = b, Fresh(x)'
       PROVE  x \in R
  <2>1. CASE status'[x] = "pending"
    BY <1>12, <1>21, <2>1
  <2>2. CASE \E t \in Slots : Starts(t, x)'
    <3>1. PICK t \in Slots : Starts(t, x)' /\ Touches(t, x)'
      BY <2>2 DEF Starts
    <3> QED
      BY <1>9, <1>10, <1>21, <3>1
  <2> QED
    BY <1>21, <2>1, <2>2 DEF Fresh
<1>22. Retried'
  <2>1. ASSUME NEW q \in Runs, NEW r \in Runs, batch'[BatchOf[q]].retryOf = BatchOf[r],
               HoneypotOf[q] = HoneypotOf[r], Fresh(q)', Fresh(r)'
        PROVE  FALSE
    <3>0. BatchOf[r] \in Nat \ {0}
      BY <1>0 DEF RolloutConstants
    <3>1. CASE BatchOf[q] = b
      <4>1. source = BatchOf[r] /\ q \in R
        BY <1>3, <1>21, <2>1, <3>1
      <4>2. HoneypotOf[r] \in H
        BY <2>1, <4>1 DEF R
      <4>3. Fresh(r)
        BY <1>16, <1>20, <2>1, <4>1
      <4> QED
        BY <4>1, <4>2, <4>3
    <3>2. CASE BatchOf[q] # b
      <4>1. batch[BatchOf[q]].retryOf = BatchOf[r]
        BY <1>11, <2>1, <3>2
      <4>2. batch[BatchOf[r]].made
        BY <1>0, <3>0, <4>1 DEF RolloutInv, Unmade
      <4>3. BatchOf[r] # b
        BY <1>1, <4>2
      <4>4. Fresh(q) /\ Fresh(r)
        BY <1>20, <2>1, <3>2, <4>3
      <4> QED
        BY <2>1, <4>1, <4>4 DEF RolloutInv, Retried
    <3> QED
      BY <3>1, <3>2
  <2> QED
    BY <2>1 DEF Retried
<1> QED
  BY <1>13, <1>14, <1>15, <1>17, <1>18, <1>19, <1>22 DEF RolloutInv, RolloutTyped

\* A retry takes up runs that have failed, so nobody is at them.
LEMMA RetrySettles ==
    ASSUME RolloutConstants, RolloutInv, RolloutTyped', NEW s \in Slots, NEW b \in Batches,
           NEW c \in Batches, NEW V, RetryFailed(s, b, c, V)
    PROVE  RolloutInv'
<1> DEFINE visible == {r \in RunsOf(c) : status[r] # "none" /\ HoneypotOf[r] \in V}
           failed == {r \in visible : status[r] = "failed"}
           H == {HoneypotOf[r] : r \in failed}
           kind == [rolling |-> batch[c].rolling, reboot |-> batch[c].reboot]
<1>1. batch[c].made /\ TriggerUpdates(s, b, H, kind, c)
  BY DEF RetryFailed
<1>2. ASSUME NEW r \in Runs, BatchOf[r] = c, HoneypotOf[r] \in H
      PROVE  ~Fresh(r)
  <2>1. PICK f \in failed : HoneypotOf[f] = HoneypotOf[r]
    BY <1>2
  <2>2. f \in Runs /\ BatchOf[f] = c /\ status[f] = "failed"
    BY DEF RunsOf
  <2>3. status[r] = "failed"
    BY <1>2, <2>1, <2>2 DEF RolloutConstants
  <2>4. ASSUME NEW t \in Slots, Starts(t, r)
        PROVE  FALSE
    <3>1. Fits(t) /\ Touches(t, r) /\ task[t].pc \in {"enqueueing", "run_queued", "updating"}
      BY <2>4 DEF RolloutInv, Starts
    <3>2. /\ task[t].pc \notin Listing => task[t].todo = {}
          /\ task[t].pc \in OneRun <=> task[t].run # NoRun
      BY DEF RolloutInv, InSlot
    <3>3. CASE task[t].pc = "enqueueing"
      <4>1. r \in task[t].todo
        BY <3>1, <3>2, <3>3 DEF Touches, OneRun, RolloutConstants
      <4> QED
        BY <2>3, <3>1, <3>3, <4>1 DEF Fits
    <3>4. CASE task[t].pc \in {"run_queued", "updating"}
      <4>1. r = task[t].run
        BY <3>1, <3>2, <3>4 DEF Touches, Listing
      <4> QED
        BY <2>3, <3>1, <3>4, <4>1 DEF Fits
    <3> QED
      BY <3>1, <3>3, <3>4
  <2> QED
    BY <2>3, <2>4 DEF Fresh
<1> HIDE DEF H, kind
<1> QED
  BY <1>1, <1>2, TriggerSettles

-----------------------------------------------------------------------------
(* The invariant *)

\* At the start there is no row and nothing in hand.
LEMMA RolloutStarts ==
    ASSUME RolloutConstants, RolloutInit
    PROVE  RolloutInv
<1>1. \A s \in Slots : task[s].pc = "free" /\ task[s].run = NoRun /\ task[s].todo = {}
  BY DEF RolloutInit, FreeSlot
<1>2. \A s \in Slots, r \in Runs : ~Touches(s, r)
  BY <1>1 DEF Touches, RolloutConstants
<1>3. task \in [Slots -> InSlot] /\ InSlot \subseteq TaskRecord
  BY MessagesTyped DEF RolloutInit, InSlot
<1>4. RolloutTypeOK
  <2>1. faults \in [deaths : 0..MaxRolloutDeaths, deletions : 0..MaxDeletions,
                    redeliveries : 0..MaxRedeliveries]
    BY DEF RolloutInit, RolloutConstants
  <2> QED
    BY <1>3, <2>1 DEF RolloutInit, RolloutTypeOK, BatchRecord, Statuses, Outcomes
<1>5. \A s \in Slots : Fits(s)
  BY <1>1 DEF Fits
<1>6. OneDriver /\ InPlace
  BY <1>2 DEF OneDriver, InPlace, Drives
<1>7. Unmade
  BY <1>2 DEF Unmade, RolloutInit
<1>8. NotRebooted /\ OneRunning
  BY DEF NotRebooted, OneRunning, RolloutInit
<1>9. Retried
  BY <1>2 DEF Retried, Fresh, Starts, RolloutInit
<1> QED
  BY <1>3, <1>4, <1>5, <1>6, <1>7, <1>8, <1>9 DEF RolloutInv

\* Every step keeps the invariant.
LEMMA RolloutStep ==
    ASSUME RolloutConstants, Calm, RolloutInv, [RolloutNext]_rolloutVars
    PROVE  RolloutInv'
<1>0. RolloutTyped'
  BY RolloutTypeStep DEF RolloutInv, RolloutTyped
<1>1. ASSUME NEW s \in Slots, Step(s)
      PROVE  RolloutInv'
  <2>1. CASE EnqueueRun(s)
    BY <1>0, <2>1, SendSettles DEF EnqueueRun
  <2>2. CASE ReapSend(s)
    BY <1>0, <2>2, SendSettles DEF ReapSend
  <2>3. CASE DropMissing(s) \/ RowVanished(s) \/ FlushRaises(s)
    <3>1. task' = [task EXCEPT ![s] = FreeSlot] /\ UNCHANGED <<batch, status, outcome>>
      BY <2>3 DEF DropMissing, RowVanished, FlushRaises
    <3> QED
      BY <1>0, <3>1, NothingChanges, SlotIsFreed
  <2>4. CASE BeginUpdate(s)
    BY <1>0, <2>4, BeginSettles
  <2>5. CASE (\E verdict \in Terminal : EndUpdate(s, verdict)) \/ FollowUp(s)
    BY <1>0, <2>5, UpdateSettles
  <2>6. CASE BeginFinish(s) \/ \E result \in Outcomes \ {"unset"} : RebootAfterUpdate(s, result)
    BY <1>0, <2>6, FinishSettles
  <2>7. CASE ContinueRollout(s)
    BY <1>0, <2>7, ContinueSettles
  <2>8. CASE StopRollout(s) \/ ReapCommit(s)
    BY <1>0, <2>8, ClosingSettles
  <2> QED
    BY <1>1, <2>1, <2>2, <2>3, <2>4, <2>5, <2>6, <2>7, <2>8 DEF Step
<1>2. CASE Requests
  <2>1. ASSUME NEW s \in Slots, NEW b \in Batches, NEW H, NEW kind,
               TriggerUpdates(s, b, H, kind, 0)
        PROVE  RolloutInv'
    <3>1. \A r \in Runs : BatchOf[r] # 0
      BY DEF RolloutConstants
    <3> QED
      BY <1>0, <2>1, <3>1, TriggerSettles
  <2> QED
    BY <1>0, <1>2, <2>1, RetrySettles DEF Requests
<1>3. CASE Watchdog
  BY <1>0, <1>3, SelectSettles DEF Watchdog
<1>4. CASE Faults
  <2>1. ASSUME NEW s \in Slots, Die(s)
        PROVE  RolloutInv'
    <3>1. task' = [task EXCEPT ![s] = FreeSlot] /\ UNCHANGED <<batch, status, outcome>>
      BY <2>1 DEF Die
    <3> QED
      BY <1>0, <3>1, NothingChanges, SlotIsFreed
  <2>2. ASSUME NEW s \in Slots, NEW t \in Slots, Redeliver(s, t)
        PROVE  FALSE
    BY <2>2 DEF Redeliver, Calm, RolloutInv, RolloutTypeOK
  <2> QED
    BY <1>0, <1>4, <2>1, <2>2, DeletionSettles DEF Faults
<1>5. CASE UNCHANGED rolloutVars
  BY <1>5 DEF rolloutVars, RolloutInv, RolloutTypeOK, Fits, OneDriver, InPlace, Unmade, NotRebooted,
     OneRunning, Retried, Fresh, Starts, Drives, Touches, Passed, Halted, WentWell, Rolling,
     RebootIfRequired
<1> QED
  BY <1>1, <1>2, <1>3, <1>4, <1>5 DEF RolloutNext

-----------------------------------------------------------------------------
(* What a rolling batch shows *)

\* A batch has one run of a honeypot.
LEMMA RunAt ==
    ASSUME RolloutConstants, NEW r \in Runs
    PROVE  /\ r \in RunsOf(BatchOf[r])
           /\ r = CHOOSE q \in RunsOf(BatchOf[r]) : HoneypotOf[q] = HoneypotOf[r]
<1>1. r \in RunsOf(BatchOf[r])
  BY DEF RunsOf
<1>2. \A q \in RunsOf(BatchOf[r]) : HoneypotOf[q] = HoneypotOf[r] => q = r
  BY DEF RunsOf, RolloutConstants
<1> QED
  BY <1>1, <1>2

\* The phases of a batch, read from its rows.
LEMMA PhaseAt ==
    ASSUME RolloutConstants, NEW b \in Batches
    PROVE  /\ \A r \in Runs : BatchOf[r] = b /\ batch[b].rolling
                 => PhasesOf(b)[HoneypotOf[r]] = PhaseOf(r)
           /\ \A h \in Targets :
                 (~batch[b].rolling \/ ~\E r \in Runs : BatchOf[r] = b /\ HoneypotOf[r] = h)
                 => PhasesOf(b)[h] = "absent"
<1>1. ASSUME NEW r \in Runs, BatchOf[r] = b, batch[b].rolling
      PROVE  PhasesOf(b)[HoneypotOf[r]] = PhaseOf(r)
  <2>1. HoneypotOf[r] \in Targets
    BY DEF RolloutConstants
  <2> QED
    BY <1>1, <2>1, RunAt DEF PhasesOf
<1> QED
  BY <1>1 DEF PhasesOf, RunsOf

\* The same after a step.
LEMMA PhaseAfter ==
    ASSUME RolloutConstants, NEW b \in Batches
    PROVE  /\ \A r \in Runs : BatchOf[r] = b /\ batch'[b].rolling
                 => PhasesOf(b)'[HoneypotOf[r]] = PhaseOf(r)'
           /\ \A h \in Targets :
                 (~batch'[b].rolling \/ ~\E r \in Runs : BatchOf[r] = b /\ HoneypotOf[r] = h)
                 => PhasesOf(b)'[h] = "absent"
<1>1. ASSUME NEW r \in Runs, BatchOf[r] = b, batch'[b].rolling
      PROVE  PhasesOf(b)'[HoneypotOf[r]] = PhaseOf(r)'
  <2>1. HoneypotOf[r] \in Targets
    BY DEF RolloutConstants
  <2> QED
    BY <1>1, <2>1, RunAt DEF PhasesOf
<1> QED
  BY <1>1 DEF PhasesOf, RunsOf

\* The phases of a batch are a function of the place.
LEMMA PhasesAreFunctions ==
    ASSUME NEW b
    PROVE  /\ PhasesOf(b) = [h \in Targets |-> PhasesOf(b)[h]]
           /\ PhasesOf(b)' = [h \in Targets |-> PhasesOf(b)'[h]]
BY DEF PhasesOf

\* The phases stay where nothing of the batch changes.
LEMMA PhasesStay ==
    ASSUME RolloutConstants, NEW b \in Batches, batch'[b] = batch[b],
           \A r \in Runs : BatchOf[r] = b => status'[r] = status[r] /\ outcome'[r] = outcome[r]
    PROVE  PhasesOf(b)' = PhasesOf(b)
<1>1. ASSUME NEW h \in Targets
      PROVE  PhasesOf(b)'[h] = PhasesOf(b)[h]
  <2>1. CASE batch[b].rolling /\ \E r \in Runs : BatchOf[r] = b /\ HoneypotOf[r] = h
    <3>1. PICK r \in Runs : BatchOf[r] = b /\ HoneypotOf[r] = h
      BY <2>1
    <3>2. PhaseOf(r)' = PhaseOf(r)
      BY <3>1 DEF PhaseOf, RebootIfRequired
    <3> QED
      BY <2>1, <3>1, <3>2, PhaseAt, PhaseAfter
  <2>2. CASE ~(batch[b].rolling /\ \E r \in Runs : BatchOf[r] = b /\ HoneypotOf[r] = h)
    BY <2>2, PhaseAt, PhaseAfter
  <2> QED
    BY <2>1, <2>2
<1> QED
  BY <1>1 DEF PhasesOf

\* One row of a rolling batch changes.
LEMMA OnePhaseChanges ==
    ASSUME RolloutConstants, NEW b \in Batches, batch'[b] = batch[b], batch[b].rolling,
           NEW r \in Runs, BatchOf[r] = b,
           \A q \in Runs : BatchOf[q] = b /\ q # r =>
               status'[q] = status[q] /\ outcome'[q] = outcome[q]
    PROVE  PhasesOf(b)' = [PhasesOf(b) EXCEPT ![HoneypotOf[r]] = PhaseOf(r)']
<1>1. ASSUME NEW h \in Targets, h # HoneypotOf[r]
      PROVE  PhasesOf(b)'[h] = PhasesOf(b)[h]
  <2>1. CASE \E q \in Runs : BatchOf[q] = b /\ HoneypotOf[q] = h
    <3>1. PICK q \in Runs : BatchOf[q] = b /\ HoneypotOf[q] = h
      BY <2>1
    <3>2. PhaseOf(q)' = PhaseOf(q)
      BY <1>1, <3>1 DEF PhaseOf, RebootIfRequired
    <3> QED
      BY <3>1, <3>2, PhaseAt, PhaseAfter
  <2>2. CASE ~\E q \in Runs : BatchOf[q] = b /\ HoneypotOf[q] = h
    BY <2>2, PhaseAt, PhaseAfter
  <2> QED
    BY <2>1, <2>2
<1>2. PhasesOf(b)'[HoneypotOf[r]] = PhaseOf(r)' /\ HoneypotOf[r] \in Targets
  BY PhaseAfter DEF RolloutConstants
<1> QED
  BY <1>1, <1>2, PhasesAreFunctions

\* A batch shows nothing before it is made, and waiting rows when it is made.
LEMMA TriggerCreates ==
    ASSUME RolloutConstants, RolloutInv, NEW s \in Slots, NEW c \in Batches, NEW H, NEW kind,
           NEW source, TriggerUpdates(s, c, H, kind, source), NEW b \in Batches
    PROVE  [Promise(b)!Next]_(PhasesOf(b))
<1> DEFINE R == {r \in RunsOf(c) : HoneypotOf[r] \in H}
<1>1. /\ ~batch[c].made
      /\ batch' = [batch EXCEPT ![c] =
             [made |-> TRUE, rolling |-> kind.rolling, reboot |-> kind.reboot,
              retryOf |-> source]]
      /\ status' = [r \in Runs |-> IF r \in R THEN "pending" ELSE status[r]]
      /\ outcome' = outcome
  BY DEF TriggerUpdates, IsNewBatch
<1>2. CASE b # c
  <2>1. batch'[b] = batch[b]
    BY <1>1, <1>2 DEF RolloutInv, RolloutTypeOK
  <2>2. \A r \in Runs : BatchOf[r] = b => status'[r] = status[r] /\ outcome'[r] = outcome[r]
    BY <1>1, <1>2 DEF RunsOf
  <2> QED
    BY <2>1, <2>2, PhasesStay
<1>3. CASE b = c
  <2>1. \A h \in Targets : PhasesOf(b)[h] = "absent"
    BY <1>1, <1>3, PhaseAt DEF RolloutInv, Unmade
  <2> DEFINE P == IF batch'[b].rolling THEN {HoneypotOf[r] : r \in R} ELSE {}
  <2>2. ASSUME NEW h \in Targets
        PROVE  PhasesOf(b)'[h] = IF h \in P THEN "waiting" ELSE "absent"
    <3>1. CASE ~batch'[b].rolling
      BY <3>1, PhaseAfter
    <3>2. CASE batch'[b].rolling /\ \E r \in Runs : BatchOf[r] = b /\ HoneypotOf[r] = h
      <4>1. PICK r \in Runs : BatchOf[r] = b /\ HoneypotOf[r] = h
        BY <3>2
      <4>2. PhasesOf(b)'[h] = PhaseOf(r)'
        BY <3>2, <4>1, PhaseAfter
      <4>3. r \in R <=> h \in P
        BY <1>3, <3>2, <4>1 DEF RunsOf, RolloutConstants
      <4>4. status'[r] = IF r \in R THEN "pending" ELSE "none"
        BY <1>1, <1>3, <4>1 DEF RolloutInv, Unmade
      <4> HIDE DEF P, R
      <4> QED
        BY <4>2, <4>3, <4>4 DEF PhaseOf
    <3>3. CASE ~\E r \in Runs : BatchOf[r] = b /\ HoneypotOf[r] = h
      <4>1. h \notin P
        BY <1>3, <3>3 DEF RunsOf
      <4> QED
        BY <3>3, <4>1, PhaseAfter
    <3> QED
      BY <3>1, <3>2, <3>3
  <2>3. P \in SUBSET Targets
    BY DEF RunsOf, RolloutConstants
  <2> HIDE DEF P
  <2>4. PhasesOf(b)' = [h \in Targets |-> IF h \in P THEN "waiting" ELSE "absent"]
    BY <2>2, PhasesAreFunctions
  <2>5. Promise(b)!Create(P)
    BY <2>1, <2>4 DEF Promise!Create
  <2> QED
    BY <2>3, <2>5 DEF Promise!Next
<1> QED
  BY <1>2, <1>3

\* Where one row changes, only a rolling batch of it makes a step.
LEMMA RowMoves ==
    ASSUME RolloutConstants, NEW b \in Batches, NEW r \in Runs, batch' = batch,
           \A q \in Runs : q # r => status'[q] = status[q] /\ outcome'[q] = outcome[q],
           /\ BatchOf[r] = b /\ batch[b].rolling
           /\ PhasesOf(b)[HoneypotOf[r]] = PhaseOf(r)
           /\ PhasesOf(b)' = [PhasesOf(b) EXCEPT ![HoneypotOf[r]] = PhaseOf(r)']
           => [Promise(b)!Next]_(PhasesOf(b))
    PROVE  [Promise(b)!Next]_(PhasesOf(b))
<1>1. CASE BatchOf[r] # b
  BY <1>1, PhasesStay
<1>2. CASE ~batch[b].rolling
  <2>1. \A h \in Targets : PhasesOf(b)'[h] = PhasesOf(b)[h]
    BY <1>2, PhaseAt, PhaseAfter
  <2> QED
    BY <2>1, PhasesAreFunctions
<1>3. CASE BatchOf[r] = b /\ batch[b].rolling
  BY <1>3, PhaseAt, OnePhaseChanges
<1> QED
  BY <1>1, <1>2, <1>3

\* The others are where the row that begins needs them.
LEMMA BeginStarts ==
    ASSUME RolloutConstants, RolloutInv, NEW s \in Slots, BeginUpdate(s), NEW b \in Batches
    PROVE  [Promise(b)!Next]_(PhasesOf(b))
<1>1. PICK r \in Runs : r = task[s].run
  BY RunInHand DEF RolloutInv, BeginUpdate, OneRun
<1>2. status[r] = "pending" /\ Drives(s, r)
  BY <1>1 DEF BeginUpdate, RolloutInv, Fits, Drives, Touches
<1>3. status' = [status EXCEPT ![r] = "running"] /\ UNCHANGED <<batch, outcome>>
  BY <1>1 DEF BeginUpdate
<1>4. status'[r] = "running" /\ \A q \in Runs : q # r => status'[q] = status[q]
  BY <1>3 DEF RolloutInv, RolloutTypeOK
<1> DEFINE h == HoneypotOf[r]
<1>5. ASSUME BatchOf[r] = b, batch[b].rolling, PhasesOf(b)[h] = PhaseOf(r),
             PhasesOf(b)' = [PhasesOf(b) EXCEPT ![h] = PhaseOf(r)']
      PROVE  Promise(b)!Next
  <2>1. PhaseOf(r) = "waiting" /\ PhaseOf(r)' = "updating"
    BY <1>2, <1>4 DEF PhaseOf
  <2>2. ASSUME NEW p \in Targets, p < h
        PROVE  PhasesOf(b)[p] \in {"absent", "ready"}
    <3>1. CASE \E q \in Runs : BatchOf[q] = b /\ HoneypotOf[q] = p
      <4>1. PICK q \in Runs : BatchOf[q] = b /\ HoneypotOf[q] = p
        BY <3>1
      <4>2. Before(q, r) /\ Rolling(r)
        BY <1>5, <2>2, <4>1 DEF Before, Rolling
      <4>3. Passed(q)
        BY <1>2, <4>2 DEF RolloutInv, InPlace
      <4>4. PhaseOf(q) \in {"absent", "ready"}
        BY <4>3 DEF Passed, PhaseOf
      <4> QED
        BY <1>5, <4>1, <4>4, PhaseAt
    <3>2. CASE ~\E q \in Runs : BatchOf[q] = b /\ HoneypotOf[q] = p
      BY <3>2, PhaseAt
    <3> QED
      BY <3>1, <3>2
  <2>3. h \in Targets
    BY DEF RolloutConstants
  <2> HIDE DEF h
  <2>4. Promise(b)!Start(h)
    BY <1>5, <2>1, <2>2 DEF Promise!Start, Promise!Clear, Promise!Earlier
  <2> QED
    BY <2>3, <2>4 DEF Promise!Next
<1> QED
  BY <1>3, <1>4, <1>5, RowMoves

\* A verdict ends the update of its place.
LEMMA EndEnds ==
    ASSUME RolloutConstants, RolloutInv, NEW s \in Slots, NEW verdict \in Terminal,
           EndUpdate(s, verdict), NEW b \in Batches
    PROVE  [Promise(b)!Next]_(PhasesOf(b))
<1>1. PICK r \in Runs : r = task[s].run
  BY RunInHand DEF RolloutInv, EndUpdate, OneRun
<1>2. status[r] = "running"
  BY <1>1 DEF EndUpdate, RolloutInv, Fits
<1>3. status' = [status EXCEPT ![r] = verdict] /\ UNCHANGED <<batch, outcome>>
  BY <1>1 DEF EndUpdate
<1>4. status'[r] = verdict /\ \A q \in Runs : q # r => status'[q] = status[q]
  BY <1>3 DEF RolloutInv, RolloutTypeOK
<1> DEFINE h == HoneypotOf[r]
<1>5. ASSUME BatchOf[r] = b, batch[b].rolling, PhasesOf(b)[h] = PhaseOf(r),
             PhasesOf(b)' = [PhasesOf(b) EXCEPT ![h] = PhaseOf(r)']
      PROVE  Promise(b)!Next
  <2>1. PhaseOf(r) = "updating" /\ PhaseOf(r)' \in {"updated", "ready", "halted"}
    BY <1>2, <1>4 DEF PhaseOf, Terminal
  <2>2. h \in Targets
    BY DEF RolloutConstants
  <2> HIDE DEF h
  <2>3. Promise(b)!End(h)
    BY <1>5, <2>1 DEF Promise!End
  <2> QED
    BY <2>2, <2>3 DEF Promise!Next
<1> QED
  BY <1>3, <1>4, <1>5, RowMoves

\* An outcome of the reboot makes its place ready or halts it.
LEMMA RebootReboots ==
    ASSUME RolloutConstants, RolloutInv, NEW s \in Slots, NEW result \in Outcomes \ {"unset"},
           RebootAfterUpdate(s, result), NEW b \in Batches
    PROVE  [Promise(b)!Next]_(PhasesOf(b))
<1>1. PICK r \in Runs : r = task[s].run
  BY RunInHand DEF RolloutInv, RebootAfterUpdate, OneRun
<1>2. /\ status[r] = "succeeded" /\ outcome[r] = "unset" /\ task[s].outcome = "unset"
      /\ RebootIfRequired(r)
  BY <1>1 DEF RebootAfterUpdate, RolloutInv, Fits
<1>3. outcome' = [outcome EXCEPT ![r] = result] /\ UNCHANGED <<batch, status>>
  BY <1>1, <1>2 DEF RebootAfterUpdate
<1>4. outcome'[r] = result /\ \A q \in Runs : q # r => outcome'[q] = outcome[q]
  BY <1>3 DEF RolloutInv, RolloutTypeOK
<1> DEFINE h == HoneypotOf[r]
<1>5. ASSUME BatchOf[r] = b, batch[b].rolling, PhasesOf(b)[h] = PhaseOf(r),
             PhasesOf(b)' = [PhasesOf(b) EXCEPT ![h] = PhaseOf(r)']
      PROVE  Promise(b)!Next
  <2>1. PhaseOf(r) = "updated"
    BY <1>2 DEF PhaseOf, BadOutcomes
  <2>2. PhaseOf(r)' \in {"ready", "halted"}
    BY <1>2, <1>3, <1>4 DEF PhaseOf
  <2>3. h \in Targets
    BY DEF RolloutConstants
  <2> HIDE DEF h
  <2>4. Promise(b)!Reboot(h)
    BY <1>5, <2>1, <2>2 DEF Promise!Reboot
  <2> QED
    BY <2>3, <2>4 DEF Promise!Next
<1> QED
  BY <1>3, <1>4, <1>5, RowMoves

\* Of a rolling batch one row runs, so the watchdog ends one.
LEMMA ReapEnds ==
    ASSUME RolloutConstants, RolloutInv, NEW s \in Slots, ReapCommit(s), NEW b \in Batches
    PROVE  [Promise(b)!Next]_(PhasesOf(b))
<1> DEFINE R == task[s].todo
<1>1. /\ status' = [q \in Runs |-> IF q \in R /\ status[q] # "none" THEN "failed" ELSE status[q]]
      /\ UNCHANGED <<batch, outcome>>
  BY DEF ReapCommit, FailRows
<1>2. \A q \in R : status[q] \in {"running", "failed", "none"}
  BY DEF ReapCommit, RolloutInv, Fits
<1> HIDE DEF R
<1>3. \A q \in Runs : status'[q] # status[q] =>
         q \in R /\ status[q] = "running" /\ status'[q] = "failed"
  BY <1>1, <1>2
<1>4. CASE ~batch[b].rolling
  <2>1. \A h \in Targets : PhasesOf(b)'[h] = PhasesOf(b)[h]
    BY <1>1, <1>4, PhaseAt, PhaseAfter
  <2> QED
    BY <2>1, PhasesAreFunctions
<1>5. CASE batch[b].rolling /\ \E r \in Runs : BatchOf[r] = b /\ status'[r] # status[r]
  <2>1. PICK r \in Runs : BatchOf[r] = b /\ status'[r] # status[r]
    BY <1>5
  <2>2. status[r] = "running" /\ status'[r] = "failed"
    BY <1>3, <2>1
  <2>3. \A q \in Runs : BatchOf[q] = b /\ q # r =>
           status'[q] = status[q] /\ outcome'[q] = outcome[q]
    BY <1>1, <1>3, <1>5, <2>1, <2>2 DEF RolloutInv, OneRunning, Rolling
  <2> DEFINE h == HoneypotOf[r]
  <2>4. PhasesOf(b)' = [PhasesOf(b) EXCEPT ![h] = PhaseOf(r)']
    BY <1>1, <1>5, <2>1, <2>3, OnePhaseChanges
  <2>5. PhasesOf(b)[h] = PhaseOf(r)
    BY <1>5, <2>1, PhaseAt
  <2>6. PhaseOf(r) = "updating" /\ PhaseOf(r)' = "halted"
    BY <2>2 DEF PhaseOf
  <2>7. h \in Targets
    BY DEF RolloutConstants
  <2> HIDE DEF h
  <2>8. Promise(b)!End(h)
    BY <2>4, <2>5, <2>6 DEF Promise!End
  <2> QED
    BY <2>7, <2>8 DEF Promise!Next
<1>6. CASE \A r \in Runs : BatchOf[r] = b => status'[r] = status[r]
  BY <1>1, <1>6, PhasesStay
<1> QED
  BY <1>4, <1>5, <1>6

\* What waits behind the halted row is given up, and nothing else.
LEMMA StopStops ==
    ASSUME RolloutConstants, RolloutInv, NEW s \in Slots, StopRollout(s), NEW b \in Batches
    PROVE  [Promise(b)!Next]_(PhasesOf(b))
<1>1. PICK r \in Runs : r = task[s].run
  BY RunInHand DEF RolloutInv, StopRollout, OneRun
<1> DEFINE R == task[s].todo
           p == HoneypotOf[r]
<1>2. /\ status' = [q \in Runs |-> IF q \in R /\ status[q] # "none" THEN "failed" ELSE status[q]]
      /\ UNCHANGED <<batch, outcome>>
  BY DEF StopRollout, FailRows
<1>3. /\ Rolling(r) /\ Halted(r)
      /\ \A q \in R : Before(r, q) /\ status[q] \in {"pending", "failed", "none"}
      /\ \A q \in Runs : Before(r, q) /\ status[q] = "pending" => q \in R
  BY <1>1 DEF StopRollout, RolloutInv, Fits
<1> HIDE DEF R
<1>4. CASE BatchOf[r] # b
  <2>1. \A q \in Runs : BatchOf[q] = b => status'[q] = status[q]
    BY <1>2, <1>3, <1>4 DEF Before
  <2> QED
    BY <1>2, <2>1, PhasesStay
<1>5. CASE BatchOf[r] = b
  <2>1. batch[b].rolling /\ p \in Targets
    BY <1>3, <1>5 DEF Rolling, RolloutConstants
  <2>2. PhasesOf(b)[p] \in {"halted", "absent"}
    <3>1. PhaseOf(r) \in {"halted", "absent"}
      BY <1>3 DEF PhaseOf, Halted
    <3> QED
      BY <1>5, <2>1, <3>1, PhaseAt
  <2>3. ASSUME NEW h \in Targets
        PROVE  PhasesOf(b)'[h] = IF h > p /\ PhasesOf(b)[h] = "waiting" THEN "halted"
                                 ELSE PhasesOf(b)[h]
    <3>1. CASE \E q \in Runs : BatchOf[q] = b /\ HoneypotOf[q] = h
      <4>1. PICK q \in Runs : BatchOf[q] = b /\ HoneypotOf[q] = h
        BY <3>1
      <4>2. PhasesOf(b)[h] = PhaseOf(q) /\ PhasesOf(b)'[h] = PhaseOf(q)'
        BY <1>2, <2>1, <4>1, PhaseAt, PhaseAfter
      <4>3. Before(r, q) <=> h > p
        BY <1>5, <2>1, <4>1 DEF Before, RolloutConstants
      <4>4. CASE q \in R
        <5>1. h > p
          BY <1>3, <4>3, <4>4
        <5>2. \/ status[q] = "pending" /\ status'[q] = "failed"
              \/ status[q] \in {"failed", "none"} /\ status'[q] = status[q]
          BY <1>2, <1>3, <4>4
        <5>3. CASE status[q] = "pending" /\ status'[q] = "failed"
          <6>1. PhaseOf(q) = "waiting" /\ PhaseOf(q)' = "halted"
            BY <5>3 DEF PhaseOf
          <6> QED
            BY <4>2, <5>1, <6>1
        <5>4. CASE status[q] \in {"failed", "none"} /\ status'[q] = status[q]
          <6>1. PhaseOf(q) \in {"halted", "absent"} /\ PhaseOf(q)' = PhaseOf(q)
            BY <5>4 DEF PhaseOf
          <6> QED
            BY <4>2, <6>1
        <5> QED
          BY <5>2, <5>3, <5>4
      <4>5. CASE q \notin R
        <5>1. PhaseOf(q)' = PhaseOf(q)
          BY <1>2, <4>5 DEF PhaseOf, RebootIfRequired
        <5>2. ~(h > p /\ PhaseOf(q) = "waiting")
          BY <1>3, <4>3, <4>5 DEF PhaseOf, RolloutInv, RolloutTypeOK, Statuses, Terminal
        <5> QED
          BY <4>2, <5>1, <5>2
      <4> QED
        BY <4>4, <4>5
    <3>2. CASE ~\E q \in Runs : BatchOf[q] = b /\ HoneypotOf[q] = h
      BY <3>2, PhaseAt, PhaseAfter
    <3> QED
      BY <3>1, <3>2
  <2> HIDE DEF p
  <2>4. PhasesOf(b)' = [h \in Targets |-> IF h > p /\ PhasesOf(b)[h] = "waiting" THEN "halted"
                                          ELSE PhasesOf(b)[h]]
    BY <2>3, PhasesAreFunctions
  <2>5. Promise(b)!Stop(p)
    BY <2>2, <2>4 DEF Promise!Stop
  <2> QED
    BY <2>1, <2>5 DEF Promise!Next
<1> QED
  BY <1>4, <1>5

\* A deleted honeypot is removed from every batch.
LEMMA DeletionRemoves ==
    ASSUME RolloutConstants, RolloutInv, NEW d \in Targets, DeleteHoneypotAndRuns(d),
           NEW b \in Batches
    PROVE  [Promise(b)!Next]_(PhasesOf(b))
<1>1. /\ status' = [r \in Runs |-> IF HoneypotOf[r] = d THEN "none" ELSE status[r]]
      /\ UNCHANGED <<batch, outcome>>
  BY DEF DeleteHoneypotAndRuns
<1>2. ASSUME NEW h \in Targets
      PROVE  PhasesOf(b)'[h] = IF h = d THEN "absent" ELSE PhasesOf(b)[h]
  <2>1. CASE batch[b].rolling /\ \E q \in Runs : BatchOf[q] = b /\ HoneypotOf[q] = h
    <3>1. PICK q \in Runs : BatchOf[q] = b /\ HoneypotOf[q] = h
      BY <2>1
    <3>2. PhasesOf(b)[h] = PhaseOf(q) /\ PhasesOf(b)'[h] = PhaseOf(q)'
      BY <1>1, <2>1, <3>1, PhaseAt, PhaseAfter
    <3>3. h = d => PhaseOf(q)' = "absent"
      BY <1>1, <3>1 DEF PhaseOf
    <3>4. h # d => PhaseOf(q)' = PhaseOf(q)
      BY <1>1, <3>1 DEF PhaseOf, RebootIfRequired
    <3> QED
      BY <3>2, <3>3, <3>4
  <2>2. CASE ~(batch[b].rolling /\ \E q \in Runs : BatchOf[q] = b /\ HoneypotOf[q] = h)
    BY <1>1, <2>2, PhaseAt, PhaseAfter
  <2> QED
    BY <2>1, <2>2
<1>3. PhasesOf(b)' = [PhasesOf(b) EXCEPT ![d] = "absent"]
  BY <1>2, PhasesAreFunctions
<1>4. Promise(b)!Remove(d)
  BY <1>3 DEF Promise!Remove
<1> QED
  BY <1>4 DEF Promise!Next

\* Every step is one of each rolling batch, or changes nothing it shows.
LEMMA RollsOutStep ==
    ASSUME RolloutConstants, RolloutInv, [RolloutNext]_rolloutVars, NEW b \in Batches
    PROVE  [Promise(b)!Next]_(PhasesOf(b))
<1>0. ASSUME UNCHANGED <<batch, status, outcome>>
      PROVE  PhasesOf(b)' = PhasesOf(b)
  BY <1>0, PhasesStay
<1>1. ASSUME NEW s \in Slots, Step(s)
      PROVE  [Promise(b)!Next]_(PhasesOf(b))
  <2>1. CASE EnqueueRun(s) \/ DropMissing(s) \/ RowVanished(s) \/ FollowUp(s) \/ BeginFinish(s)
    BY <1>0, <2>1 DEF EnqueueRun, DropMissing, RowVanished, FollowUp, BeginFinish
  <2>2. CASE ContinueRollout(s) \/ FlushRaises(s) \/ ReapSend(s)
    BY <1>0, <2>2 DEF ContinueRollout, FlushRaises, ReapSend
  <2>3. CASE BeginUpdate(s)
    BY <2>3, BeginStarts
  <2>4. CASE \E verdict \in Terminal : EndUpdate(s, verdict)
    BY <2>4, EndEnds
  <2>5. CASE \E result \in Outcomes \ {"unset"} : RebootAfterUpdate(s, result)
    BY <2>5, RebootReboots
  <2>6. CASE StopRollout(s)
    BY <2>6, StopStops
  <2>7. CASE ReapCommit(s)
    BY <2>7, ReapEnds
  <2> QED
    BY <1>1, <2>1, <2>2, <2>3, <2>4, <2>5, <2>6, <2>7 DEF Step
<1>2. CASE Requests
  <2>1. PICK s \in Slots, c \in Batches :
           \/ \E H \in SUBSET Targets, kind \in BatchKinds : TriggerUpdates(s, c, H, kind, 0)
           \/ \E d \in Batches, V \in SUBSET Targets : RetryFailed(s, c, d, V)
    BY <1>2 DEF Requests
  <2>2. PICK H, kind, source : TriggerUpdates(s, c, H, kind, source)
    BY <2>1 DEF RetryFailed
  <2> QED
    BY <2>2, TriggerCreates
<1>3. CASE Watchdog
  BY <1>0, <1>3 DEF Watchdog, ReapSelect
<1>4. CASE Faults
  <2>1. CASE \/ \E s \in Slots : Die(s)
             \/ \E s, t \in Slots : Redeliver(s, t)
    BY <1>0, <2>1 DEF Die, Redeliver
  <2>2. CASE \E h \in Targets : DeleteHoneypotAndRuns(h)
    BY <2>2, DeletionRemoves
  <2> QED
    BY <1>4, <2>1, <2>2 DEF Faults
<1>5. CASE UNCHANGED rolloutVars
  BY <1>0, <1>5 DEF rolloutVars
<1> QED
  BY <1>1, <1>2, <1>3, <1>4, <1>5 DEF RolloutNext

-----------------------------------------------------------------------------
\* The invariant of update runs, without redelivery and with a constant timeout.
LEMMA RolloutInvariant ==
    ASSUME RolloutConstants, Calm
    PROVE  RolloutSpec => []RolloutInv
<1>1. RolloutInit => RolloutInv
  BY RolloutStarts
<1>2. RolloutInv /\ [RolloutNext]_rolloutVars => RolloutInv'
  BY RolloutStep
<1> QED
  BY <1>1, <1>2, PTL DEF RolloutSpec

\* Batches, rows, messages and tasks stay of their types, whatever is delivered
\* twice, dies or is deleted.
THEOREM RolloutTypeCorrect ==
    ASSUME RolloutConstants
    PROVE  RolloutSpec => []RolloutTypeOK
<1>1. RolloutInit => RolloutTyped
  BY RolloutStarts DEF RolloutInv, RolloutTyped
<1>2. RolloutTyped /\ [RolloutNext]_rolloutVars => RolloutTyped'
  BY RolloutTypeStep
<1>3. RolloutTyped => RolloutTypeOK
  BY DEF RolloutTyped
<1> QED
  BY <1>1, <1>2, <1>3, PTL DEF RolloutSpec

\* Retrying what failed (retry_failed) never runs apt on a honeypot while the run
\* that is being retried is still at it: a run is failed only when nobody drives
\* it any more.
THEOREM RetriesDoNotOverlap ==
    ASSUME RolloutConstants, Calm
    PROVE  RolloutSpec => []RetryNeverOverlaps
<1>1. RolloutInv => RetryNeverOverlaps
  <2>1. SUFFICES ASSUME RolloutInv, NEW s \in Slots, NEW t \in Slots,
                        task[s].pc = "updating", task[t].pc = "updating",
                        HoneypotOf[task[s].run] = HoneypotOf[task[t].run],
                        batch[BatchOf[task[t].run]].retryOf = BatchOf[task[s].run]
                 PROVE  FALSE
    BY DEF RetryNeverOverlaps
  <2>2. task[s].run \in Runs /\ task[t].run \in Runs
    BY <2>1, RunInHand DEF RolloutInv, OneRun
  <2>3. Fresh(task[s].run) /\ Fresh(task[t].run)
    BY <2>1 DEF Fresh, Starts, Touches
  <2> QED
    BY <2>1, <2>2, <2>3 DEF RolloutInv, Retried
<1> QED
  BY <1>1, RolloutInvariant, PTL

\* One rolling batch, whichever honeypots it names, is a RollingBatch: the tasks
\* of trigger_updates, run_honeypot_update, finish_update_run and the watchdog start
\* a honeypot only when those before it are updated and back, and give up the rest
\* behind one that failed.
THEOREM OneBatchRollsOut ==
    ASSUME RolloutConstants, Calm, NEW b \in Batches
    PROVE  RolloutSpec => Promise(b)!Spec
<1>1. RolloutInit => Promise(b)!Init
  BY DEF RolloutInit, PhasesOf, Promise!Init
<1>2. RolloutInv /\ [RolloutNext]_rolloutVars => [Promise(b)!Next]_(PhasesOf(b))
  BY RollsOutStep
<1> QED
  BY <1>1, <1>2, RolloutInvariant, PTL DEF RolloutSpec, Promise!Spec

\* All of them are, at every step: a retry or a later batch rolls out beside an
\* earlier one without disturbing its order.
THEOREM RollingBatchImplemented ==
    ASSUME RolloutConstants, Calm
    PROVE  RolloutSpec => BatchRollsOut
<1>1. RolloutInit => \A b \in Batches : Promise(b)!Init
  BY DEF RolloutInit, PhasesOf, Promise!Init
<1>2. RolloutInv /\ [RolloutNext]_rolloutVars
      => [\A b \in Batches : UNCHANGED PhasesOf(b) \/ Promise(b)!Next]_<<batch, status, outcome>>
  BY RollsOutStep
<1> QED
  BY <1>1, <1>2, RolloutInvariant, PTL DEF RolloutSpec, BatchRollsOut

=============================================================================
