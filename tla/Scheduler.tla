------------------------------ MODULE Scheduler ------------------------------
(***************************************************************************)
(* Scheduled tasks: the per-minute tick that enqueues what is due           *)
(* (run_due_scheduled_tasks), the workers that execute it                   *)
(* (run_scheduled_task), and the web and API routes that create, edit,      *)
(* enable, disable, run and delete tasks. Deleting a task stands also for   *)
(* the deletion of its honeypot or company, which cascades to it.           *)
(***************************************************************************)
EXTENDS Integers, FiniteSets

CONSTANTS
    Tasks,     \* ScheduledTask ids
    Periods,   \* the cron expressions: p fires at the multiples of p
    Ticks,     \* tick tasks that may run at once
    Workers,   \* worker processes executing tasks
    Editors,   \* requests that change tasks, at once
    MaxClock,  \* bounds the minutes modelled
    MaxEdits,  \* bounds the changes requested
    MaxQueue,  \* bounds the messages waiting for one task
    MaxDeaths  \* bounds the ticks that die half-way

NoTask == "no task"

ConstantsAreSound ==
    /\ NoTask \notin Tasks
    /\ Periods \subseteq Nat \ {0}
    /\ MaxClock \in Nat /\ MaxEdits \in Nat /\ MaxQueue \in Nat /\ MaxDeaths \in Nat

VARIABLES
    row,     \* row[t]: the scheduled_tasks row
    queue,   \* queue[t]: messages waiting for a worker
    tick,    \* tick[k]: a run of the tick
    worker,  \* worker[w]: the task it is executing
    change,  \* change[q]: a request, between its read and its commit
    now,
    seen     \* what happened, for the bounds and the properties

vars == <<row, queue, tick, worker, change, now, seen>>

\* compute_next_run: strictly after the given minute.
NextRun(p, after) == ((after \div p) + 1) * p

NotPlanned == 0                              \* next_run_at IS NULL
Row == [state : {"new", "here", "gone"}, enabled : BOOLEAN, period : Periods \cup {0},
        next : Nat]
Blank == [state |-> "new", enabled |-> FALSE, period |-> 0, next |-> NotPlanned]
Tick == [pc : {"idle", "sending"}, at : 0..MaxClock, due : SUBSET Tasks,
         todo : SUBSET Tasks, copy : [Tasks -> Row]]
NoTick == [pc |-> "idle", at |-> 0, due |-> {}, todo |-> {},
           copy |-> [t \in Tasks |-> Blank]]
Change == [task : Tasks \cup {NoTask}, copy : Row, new : Row]
NoChange == [task |-> NoTask, copy |-> Blank, new |-> Blank]

Init ==
    /\ row = [t \in Tasks |-> Blank]
    /\ queue = [t \in Tasks |-> 0]
    /\ tick = [k \in Ticks |-> NoTick]
    /\ worker = [w \in Workers |-> NoTask]
    /\ change = [q \in Editors |-> NoChange]
    /\ now = 0
    /\ seen = [edits |-> 0, deaths |-> 0, sent |-> {}, twice |-> FALSE,
               spoiled |-> FALSE]

IsHere(t) == row[t].state = "here"

-----------------------------------------------------------------------------
(* The tick. *)

\* Mutant of IsDue: the minute itself is left out.
IsOverdue(t) == IsHere(t) /\ row[t].enabled /\ row[t].next # NotPlanned /\ row[t].next < now

IsDue(t) == IsHere(t) /\ row[t].enabled /\ row[t].next # NotPlanned /\ row[t].next <= now

Due == {t \in Tasks : IsDue(t)}

\* The due tasks are read once.
TickReads(k) ==
    /\ tick[k].pc = "idle"
    /\ Due # {}
    /\ tick' = [tick EXCEPT ![k] =
           [pc |-> "sending", at |-> now, due |-> Due, todo |-> Due,
            copy |-> [t \in Tasks |-> IF t \in Due THEN row[t] ELSE Blank]]]
    /\ seen' = [seen EXCEPT !.spoiled =
           \/ @
           \/ \E j \in Ticks \ {k} : tick[j].pc # "idle"
           \/ \E q \in Editors : change[q].task \in Due]
    /\ UNCHANGED <<row, queue, worker, change, now>>

\* One message per due task, before anything is committed.
TickSends(k) ==
    \E t \in tick[k].todo :
        LET occurrence == <<t, tick[k].copy[t].next>> IN
        /\ queue[t] < MaxQueue
        /\ queue' = [queue EXCEPT ![t] = @ + 1]
        /\ tick' = [tick EXCEPT ![k].todo = @ \ {t}]
        /\ seen' = [seen EXCEPT !.sent = @ \cup {occurrence},
                                !.twice = @ \/ occurrence \in seen.sent]
        /\ UNCHANGED <<row, worker, change, now>>

\* Mutant of Advanced: the next run is counted from the run that was due.
AdvancedFromDue(t, k) == [row[t] EXCEPT !.next = tick[k].copy[t].next]

\* Runs that were missed are not made up for: the next one is after now.
Advanced(t, k) == [row[t] EXCEPT !.next = NextRun(tick[k].copy[t].period, tick[k].at)]

\* The new next_run_at of all of them, in one commit ...
TickCommits(k) ==
    /\ tick[k].pc = "sending" /\ tick[k].todo = {}
    /\ \A t \in tick[k].due : IsHere(t)
    /\ row' = [t \in Tasks |-> IF t \in tick[k].due THEN Advanced(t, k) ELSE row[t]]
    /\ tick' = [tick EXCEPT ![k] = NoTick]
    /\ UNCHANGED <<queue, worker, change, now, seen>>

\* ... or of none, when one of the rows is no longer there to be updated.
TickRaises(k) ==
    /\ tick[k].pc = "sending" /\ tick[k].todo = {}
    /\ \E t \in tick[k].due : ~IsHere(t)
    /\ tick' = [tick EXCEPT ![k] = NoTick]
    /\ seen' = [seen EXCEPT !.spoiled = TRUE]
    /\ UNCHANGED <<row, queue, worker, change, now>>

TickDies(k) ==
    /\ tick[k].pc = "sending"
    /\ seen.deaths < MaxDeaths
    /\ tick' = [tick EXCEPT ![k] = NoTick]
    /\ seen' = [seen EXCEPT !.deaths = @ + 1, !.spoiled = TRUE]
    /\ UNCHANGED <<row, queue, worker, change, now>>

-----------------------------------------------------------------------------
(* The workers. A task is executed whether or not it is still enabled. *)

RunTask(w, t) ==
    /\ worker[w] = NoTask
    /\ queue[t] > 0
    /\ queue' = [queue EXCEPT ![t] = @ - 1]
    /\ worker' = [worker EXCEPT ![w] = IF IsHere(t) THEN t ELSE NoTask]
    /\ UNCHANGED <<row, tick, change, now, seen>>

\* The outcome goes to last_run_at and a run of the history; both need the row.
TaskEnds(w) ==
    /\ worker[w] # NoTask
    /\ worker' = [worker EXCEPT ![w] = NoTask]
    /\ UNCHANGED <<row, queue, tick, change, now, seen>>

-----------------------------------------------------------------------------
(* The routes: read the row, then write the columns that changed. *)

Plan(r, enabled, period) ==
    [r EXCEPT !.enabled = enabled, !.period = period,
              !.next = IF enabled THEN NextRun(period, now) ELSE NotPlanned]

CountEdit == seen.edits < MaxEdits

CreateTask(t, enabled, period) ==
    /\ CountEdit
    /\ row[t].state = "new"
    /\ row' = [row EXCEPT ![t] = Plan([@ EXCEPT !.state = "here"], enabled, period)]
    /\ seen' = [seen EXCEPT !.edits = @ + 1]
    /\ UNCHANGED <<queue, tick, worker, change, now>>

\* The REST API's.
CreateTaskApi(t, enabled, period) == CreateTask(t, enabled, period)

Request(q, t, new) ==
    /\ CountEdit
    /\ change[q].task = NoTask
    /\ IsHere(t)
    /\ change' = [change EXCEPT ![q] = [task |-> t, copy |-> row[t], new |-> new]]
    /\ seen' = [seen EXCEPT !.edits = @ + 1]
    /\ UNCHANGED <<row, queue, tick, worker, now>>

UpdateTask(q, t, enabled, period) == Request(q, t, Plan(row[t], enabled, period))

ToggleTask(q, t) == Request(q, t, Plan(row[t], ~row[t].enabled, row[t].period))

EnableTask(q, t) == Request(q, t, Plan(row[t], TRUE, row[t].period))

DisableTask(q, t) == Request(q, t, Plan(row[t], FALSE, row[t].period))

\* What a flush leaves in a column: the new value only where it differs from
\* the copy that was read.
Written(copied, wanted, current) == IF wanted = copied THEN current ELSE wanted

Flushed(r, copy, new) ==
    [r EXCEPT !.enabled = Written(copy.enabled, new.enabled, r.enabled),
              !.period = Written(copy.period, new.period, r.period),
              !.next = Written(copy.next, new.next, r.next)]

CommitTask(q) ==
    LET t == change[q].task IN
    /\ t # NoTask
    /\ row' = [row EXCEPT ![t] =
           IF IsHere(t) THEN Flushed(@, change[q].copy, change[q].new) ELSE @]
    /\ change' = [change EXCEPT ![q] = NoChange]
    /\ UNCHANGED <<queue, tick, worker, now, seen>>

RunNow(t) ==
    /\ CountEdit
    /\ IsHere(t)
    /\ queue[t] < MaxQueue
    /\ queue' = [queue EXCEPT ![t] = @ + 1]
    /\ seen' = [seen EXCEPT !.edits = @ + 1]
    /\ UNCHANGED <<row, tick, worker, change, now>>

DeleteTask(t) ==
    /\ CountEdit
    /\ IsHere(t)
    /\ row' = [row EXCEPT ![t] = [Blank EXCEPT !.state = "gone"]]
    /\ seen' = [seen EXCEPT !.edits = @ + 1]
    /\ UNCHANGED <<queue, tick, worker, change, now>>

\* The REST API's.
RunNowApi(t) == RunNow(t)
DeleteTaskApi(t) == DeleteTask(t)

Minute ==
    /\ now < MaxClock
    /\ now' = now + 1
    /\ UNCHANGED <<row, queue, tick, worker, change, seen>>

-----------------------------------------------------------------------------
TickStep(k) == TickReads(k) \/ TickSends(k) \/ TickCommits(k) \/ TickRaises(k)
Execution == \E w \in Workers : TaskEnds(w) \/ \E t \in Tasks : RunTask(w, t)

Editing ==
    \E t \in Tasks :
        \/ \E enabled \in BOOLEAN, p \in Periods :
              \/ CreateTask(t, enabled, p) \/ CreateTaskApi(t, enabled, p)
              \/ \E q \in Editors : UpdateTask(q, t, enabled, p)
        \/ \E q \in Editors : ToggleTask(q, t) \/ EnableTask(q, t) \/ DisableTask(q, t)
        \/ RunNow(t) \/ RunNowApi(t)
        \/ DeleteTask(t) \/ DeleteTaskApi(t)

Next ==
    \/ \E k \in Ticks : TickStep(k) \/ TickDies(k)
    \/ Execution
    \/ Editing
    \/ \E q \in Editors : CommitTask(q)
    \/ Minute

Spec == Init /\ [][Next]_vars

\* Beat starts the tick every minute and a worker that lives goes on with it;
\* workers take what waits. Nobody has to edit anything.
FairSpec ==
    /\ Spec
    /\ \A k \in Ticks : WF_vars(TickStep(k))
    /\ WF_vars(Execution)

-----------------------------------------------------------------------------
(* Properties *)

TypeOK ==
    /\ row \in [Tasks -> Row]
    /\ queue \in [Tasks -> 0..MaxQueue]
    /\ tick \in [Ticks -> Tick]
    /\ worker \in [Workers -> Tasks \cup {NoTask}]
    /\ change \in [Editors -> Change]
    /\ now \in 0..MaxClock
    /\ seen \in [edits : 0..MaxEdits, deaths : 0..MaxDeaths, sent : SUBSET (Tasks \X Nat),
                 twice : BOOLEAN, spoiled : BOOLEAN]

\* However long a tick takes and whatever is created, edited, disabled or run by
\* hand meanwhile, a task is enqueued once for each time it comes due, as long as
\* no tick dies, meets another tick, finds a task it read deleted or reads one
\* that a request has read and not yet written.
OncePerOccurrence == ~seen.spoiled => ~seen.twice

\* A task that is due is enqueued and planned anew, deleted or disabled: a tick
\* that dies or cannot commit only delays it.
DueIsHandled ==
    \A t \in Tasks :
        IsHere(t) /\ row[t].enabled /\ row[t].next \in 1..now
            ~> ~(IsHere(t) /\ row[t].enabled /\ row[t].next \in 1..now)

=============================================================================
