---------------------------- MODULE UpdateRollout ----------------------------
(***************************************************************************)
(* Package-update runs: the web request that creates a batch of            *)
(* HoneypotUpdateRun rows (trigger_updates, retry_failed), the Celery tasks *)
(* that execute them (run_honeypot_update, finish_update_run), the          *)
(* watchdog that closes abandoned ones (fail_stale_update_runs) and the     *)
(* deletion of a honeypot, which cascades to its runs.                      *)
(*                                                                         *)
(* Everything that executes or waits to execute is a record in task: a web *)
(* request, a message in the broker (pc "..._queued") or a worker's task.  *)
(* A step is what lies between two database commits or two sends: every    *)
(* interleaving of the others can fall between two steps.                  *)
(***************************************************************************)
EXTENDS Integers, FiniteSets

CONSTANTS
    Runs,             \* ids of HoneypotUpdateRun rows
    NoRun,            \* a task that is about no single run
    Batches,          \* batch ids, numbered in the order they are created
    Targets,        \* honeypots, numbered in name order
    BatchOf,          \* [Runs -> Batches]:   HoneypotUpdateRun.batch_id
    HoneypotOf,       \* [Runs -> Honeypots]: HoneypotUpdateRun.honeypot_id
    Slots,            \* bounds the messages and tasks alive at once
    BatchKinds,            \* the (rolling, reboot) choices a batch is triggered with
    DeathPoints,      \* the pcs at which a process may die
    MaxRolloutDeaths, \* bounds the processes that die
    MaxDeletions,     \* bounds the honeypots deleted
    MaxRedeliveries,  \* bounds the messages the broker delivers twice
    TimeoutMayShrink  \* an admin may lower update_timeout_seconds mid-run

Pcs == {"free", "enqueueing", "run_queued", "updating", "updated",
        "finish_queued", "rebooting", "continuing", "stopping",
        "reaping", "reaped"}

RolloutConstants ==
    /\ NoRun \notin Runs
    /\ Batches \subseteq Nat \ {0} /\ Targets \subseteq Nat
    /\ BatchOf \in [Runs -> Batches]
    /\ HoneypotOf \in [Runs -> Targets]
    /\ \A q, r \in Runs :
          BatchOf[q] = BatchOf[r] /\ HoneypotOf[q] = HoneypotOf[r] => q = r
    /\ BatchKinds \subseteq [rolling : BOOLEAN, reboot : BOOLEAN]
    /\ DeathPoints \subseteq Pcs \ {"free", "run_queued", "finish_queued"}
    /\ MaxRolloutDeaths \in Nat /\ MaxDeletions \in Nat /\ MaxRedeliveries \in Nat
    /\ TimeoutMayShrink \in BOOLEAN

VARIABLES
    batch,     \* batch[b]: what batch b was created with
    status,    \* status[r]: HoneypotUpdateRun.status, "none" when no such row
    outcome,   \* outcome[r]: HoneypotUpdateRun.reboot_outcome, "unset" for NULL
    known,     \* the honeypots in the database
    task,      \* task[s]: the request, message or task in slot s
    faults     \* how many of each bounded fault has happened

rolloutVars == <<batch, status, outcome, known, task, faults>>

Terminal == {"succeeded", "failed"}
Statuses == {"none", "pending", "running"} \cup Terminal
BadOutcomes == {"failed", "not_back"}
Outcomes == {"unset", "not_needed", "rebooted"} \cup BadOutcomes
Working == {"updating", "rebooting"}

BatchRecord == [made : BOOLEAN, rolling : BOOLEAN, reboot : BOOLEAN,
                retryOf : Batches \cup {0}]
TaskRecord == [pc : Pcs, run : Runs \cup {NoRun}, status : Statuses,
               outcome : Outcomes, todo : SUBSET Runs]
FreeSlot == [pc |-> "free", run |-> NoRun, status |-> "none",
             outcome |-> "unset", todo |-> {}]
Message(pc, r) == [FreeSlot EXCEPT !.pc = pc, !.run = r]
Work(pc, R) == [FreeSlot EXCEPT !.pc = pc, !.todo = R]

RunsOf(b) == {r \in Runs : BatchOf[r] = b}
Rolling(r) == batch[BatchOf[r]].rolling
RebootIfRequired(r) == batch[BatchOf[r]].reboot
\* rollout_position orders a batch by honeypot name.
Before(q, r) == BatchOf[q] = BatchOf[r] /\ HoneypotOf[q] < HoneypotOf[r]
IsFirst(r, R) == r \in R /\ \A q \in R : HoneypotOf[r] <= HoneypotOf[q]

RolloutInit ==
    /\ batch = [b \in Batches |-> [made |-> FALSE, rolling |-> FALSE,
                                   reboot |-> FALSE, retryOf |-> 0]]
    /\ status = [r \in Runs |-> "none"]
    /\ outcome = [r \in Runs |-> "unset"]
    /\ known = Targets
    /\ task = [s \in Slots |-> FreeSlot]
    /\ faults = [deaths |-> 0, deletions |-> 0, redeliveries |-> 0]

-----------------------------------------------------------------------------
(* The web process: create the rows, commit, then enqueue. *)

\* The next batch of a database whose batch ids are taken in order.
IsNewBatch(b) == ~batch[b].made /\ \A c \in Batches : c < b => batch[c].made

\* What is enqueued at once: everything, or the first run of a rolling batch.
SentNow(kind, R) == IF kind.rolling THEN {r \in R : IsFirst(r, R)} ELSE R

\* One pending run per eligible honeypot, committed before anything is sent.
TriggerUpdates(s, b, H, kind, source) ==
    LET R == {r \in RunsOf(b) : HoneypotOf[r] \in H} IN
    /\ task[s].pc = "free"
    /\ IsNewBatch(b)
    /\ H \subseteq known
    /\ R # {}
    /\ batch' = [batch EXCEPT ![b] =
           [made |-> TRUE, rolling |-> kind.rolling, reboot |-> kind.reboot,
            retryOf |-> source]]
    /\ status' = [r \in Runs |-> IF r \in R THEN "pending" ELSE status[r]]
    /\ task' = [task EXCEPT ![s] = Work("enqueueing", SentNow(kind, R))]
    /\ UNCHANGED <<outcome, known, faults>>

\* An account that may write the honeypots in V retries a batch of which it
\* sees nothing unfinished: a new batch on the visible failed honeypots.
RetryFailed(s, b, c, V) ==
    LET visible == {r \in RunsOf(c) : status[r] # "none" /\ HoneypotOf[r] \in V}
        failed  == {r \in visible : status[r] = "failed"}
    IN  /\ batch[c].made
        /\ \A r \in visible : status[r] \in Terminal
        /\ failed # {}
        /\ TriggerUpdates(s, b, {HoneypotOf[r] : r \in failed},
               [rolling |-> batch[c].rolling, reboot |-> batch[c].reboot], c)

\* A process with a set of messages still to send sends one of them; after
\* the last its slot is the message's.
SendOne(s, pc) ==
    \E r \in task[s].todo :
        IF task[s].todo = {r}
        THEN task' = [task EXCEPT ![s] = Message(pc, r)]
        ELSE \E t \in Slots \ {s} :
                /\ task[t].pc = "free"
                /\ task' = [task EXCEPT ![s].todo = @ \ {r}, ![t] = Message(pc, r)]

EnqueueRun(s) ==
    /\ task[s].pc = "enqueueing"
    /\ SendOne(s, "run_queued")
    /\ UNCHANGED <<batch, status, outcome, known, faults>>

\* Deleting a honeypot cascades to its update runs, whatever their status.
DeleteHoneypotAndRuns(h) ==
    /\ h \in known
    /\ faults.deletions < MaxDeletions
    /\ known' = known \ {h}
    /\ status' = [r \in Runs |-> IF HoneypotOf[r] = h THEN "none" ELSE status[r]]
    /\ faults' = [faults EXCEPT !.deletions = @ + 1]
    /\ UNCHANGED <<batch, outcome, task>>

-----------------------------------------------------------------------------
(* run_honeypot_update: the row is taken whatever its status. *)

\* Both tasks return when the row is gone by the time they start.
DropMissing(s) ==
    /\ task[s].pc \in {"run_queued", "finish_queued"}
    /\ status[task[s].run] = "none"
    /\ task' = [task EXCEPT ![s] = FreeSlot]
    /\ UNCHANGED <<batch, status, outcome, known, faults>>

BeginUpdate(s) ==
    LET r == task[s].run IN
    /\ task[s].pc = "run_queued"
    /\ status[r] # "none"
    /\ status' = [status EXCEPT ![r] = "running"]
    /\ task' = [task EXCEPT ![s].pc = "updating"]
    /\ UNCHANGED <<batch, outcome, known, faults>>

\* apt ended, or the connection failed: the verdict overwrites the row.
EndUpdate(s, verdict) ==
    LET r == task[s].run IN
    /\ task[s].pc = "updating"
    /\ status[r] # "none"
    /\ status' = [status EXCEPT ![r] = verdict]
    /\ task' = [task EXCEPT ![s].pc = "updated"]
    /\ UNCHANGED <<batch, outcome, known, faults>>

\* An UPDATE of a row that was deleted meanwhile raises: the task ends there.
RowVanished(s) ==
    /\ task[s].pc \in Working
    /\ status[task[s].run] = "none"
    /\ task' = [task EXCEPT ![s] = FreeSlot]
    /\ UNCHANGED <<batch, status, outcome, known, faults>>

HasFollowUp(r) == RebootIfRequired(r) \/ Rolling(r)

\* After the commit: hand over to finish_update_run when it has work to do.
FollowUp(s) ==
    LET r == task[s].run IN
    /\ task[s].pc = "updated"
    /\ task' = [task EXCEPT ![s] =
           IF HasFollowUp(r) THEN Message("finish_queued", r) ELSE FreeSlot]
    /\ UNCHANGED <<batch, status, outcome, known, faults>>

-----------------------------------------------------------------------------
(* finish_update_run: reboot if needed, then go on with a rolling batch. *)

\* The row is read once here; the task works on that copy until it ends.
BeginFinish(s) ==
    LET r == task[s].run
        next == IF status[r] = "succeeded" /\ RebootIfRequired(r) THEN "rebooting"
                ELSE IF Rolling(r) THEN "continuing" ELSE "free"
    IN  /\ task[s].pc = "finish_queued"
        /\ status[r] # "none"
        /\ task' = [task EXCEPT ![s] =
               IF next = "free" THEN FreeSlot
               ELSE [@ EXCEPT !.pc = next, !.status = status[r], !.outcome = outcome[r]]]
        /\ UNCHANGED <<batch, status, outcome, known, faults>>

\* Check, reboot, wait for the honeypot: the outcome lands on the run. The
\* flush writes the column only when it differs from the copy.
RebootAfterUpdate(s, result) ==
    LET r == task[s].run IN
    /\ task[s].pc = "rebooting"
    /\ status[r] # "none"
    /\ outcome' = [outcome EXCEPT ![r] = IF result = task[s].outcome THEN @ ELSE result]
    /\ task' = [task EXCEPT ![s] =
           IF Rolling(r) THEN [@ EXCEPT !.pc = "continuing", !.outcome = result] ELSE FreeSlot]
    /\ UNCHANGED <<batch, status, known, faults>>

\* The runs of the batch still waiting behind run r.
WaitingBehind(r) == {q \in Runs : Before(r, q) /\ status[q] = "pending"}

\* Mutant of WentWell: a honeypot that did not come back is ignored.
UpdatedWell(s) == task[s].status = "succeeded"

WentWell(s) == task[s].status = "succeeded" /\ task[s].outcome \notin BadOutcomes

ContinueRollout(s) ==
    LET waiting == WaitingBehind(task[s].run) IN
    /\ task[s].pc = "continuing"
    /\ \/ /\ waiting = {}
          /\ task' = [task EXCEPT ![s] = FreeSlot]
       \/ /\ waiting # {} /\ WentWell(s)
          /\ \E q \in waiting :
                /\ IsFirst(q, waiting)
                /\ task' = [task EXCEPT ![s] = Message("run_queued", q)]
       \/ /\ waiting # {} /\ ~WentWell(s)
          /\ task' = [task EXCEPT ![s].pc = "stopping", ![s].todo = waiting]
    /\ UNCHANGED <<batch, status, outcome, known, faults>>

\* The rows in R that still exist become "failed", in one commit.
FailRows(R) ==
    status' = [r \in Runs |-> IF r \in R /\ status[r] # "none" THEN "failed" ELSE status[r]]

StopRollout(s) ==
    /\ task[s].pc = "stopping"
    /\ FailRows(task[s].todo)
    /\ task' = [task EXCEPT ![s] = FreeSlot]
    /\ UNCHANGED <<batch, outcome, known, faults>>

\* A row of the same commit was deleted since it was read: the flush raises
\* and nothing of it is written.
FlushRaises(s) ==
    /\ task[s].pc \in {"stopping", "reaping"}
    /\ \E r \in task[s].todo : status[r] = "none"
    /\ task' = [task EXCEPT ![s] = FreeSlot]
    /\ UNCHANGED <<batch, status, outcome, known, faults>>

-----------------------------------------------------------------------------
(* fail_stale_update_runs, every ten minutes. *)

\* Mutants of IsStale: no grace period; rolling batches only.
IsRunning(r) == status[r] = "running"

\* Started longer ago than any live worker may take: its worker is gone,
\* unless update_timeout_seconds was lowered while the update was running.
IsStale(r) ==
    /\ status[r] = "running"
    /\ \/ TimeoutMayShrink
       \/ \A s \in Slots : ~(task[s].pc = "updating" /\ task[s].run = r)

ReapSelect(s, R) ==
    /\ task[s].pc = "free"
    /\ R # {}
    /\ \A r \in R : IsStale(r)
    /\ task' = [task EXCEPT ![s] = Work("reaping", R)]
    /\ UNCHANGED <<batch, status, outcome, known, faults>>

\* Mutant of WaitingBatches: the batch waiting on a closed run is forgotten.
NoBatches(R) == {}

\* The closed runs whose rolling batch waits on them.
WaitingBatches(R) == {r \in R : Rolling(r)}

ReapCommit(s) ==
    LET rolling == WaitingBatches(task[s].todo) IN
    /\ task[s].pc = "reaping"
    /\ FailRows(task[s].todo)
    /\ task' = [task EXCEPT ![s] = IF rolling = {} THEN FreeSlot ELSE Work("reaped", rolling)]
    /\ UNCHANGED <<batch, outcome, known, faults>>

\* Release the rolling batches that waited on a closed run.
ReapSend(s) ==
    /\ task[s].pc = "reaped"
    /\ SendOne(s, "finish_queued")
    /\ UNCHANGED <<batch, status, outcome, known, faults>>

-----------------------------------------------------------------------------
(* Faults: a process dies or its task raises (messages are acknowledged    *)
(* before they are executed, so nobody runs it again); the broker restores *)
(* a reserved message that waited too long, and two copies are executed.   *)

Die(s) ==
    /\ task[s].pc \in DeathPoints
    /\ faults.deaths < MaxRolloutDeaths
    /\ task' = [task EXCEPT ![s] = FreeSlot]
    /\ faults' = [faults EXCEPT !.deaths = @ + 1]
    /\ UNCHANGED <<batch, status, outcome, known>>

Redeliver(s, t) ==
    /\ task[s].pc \in {"run_queued", "finish_queued"}
    /\ task[t].pc = "free"
    /\ faults.redeliveries < MaxRedeliveries
    /\ task' = [task EXCEPT ![t] = task[s]]
    /\ faults' = [faults EXCEPT !.redeliveries = @ + 1]
    /\ UNCHANGED <<batch, status, outcome, known>>

-----------------------------------------------------------------------------
Requests ==
    \E s \in Slots, b \in Batches :
        \/ \E H \in SUBSET Targets, kind \in BatchKinds : TriggerUpdates(s, b, H, kind, 0)
        \/ \E c \in Batches, V \in SUBSET Targets : RetryFailed(s, b, c, V)

\* What a worker (or the web process, once it has committed) does next.
Step(s) ==
    \/ EnqueueRun(s)
    \/ DropMissing(s)
    \/ BeginUpdate(s)
    \/ \E verdict \in Terminal : EndUpdate(s, verdict)
    \/ RowVanished(s)
    \/ FollowUp(s)
    \/ BeginFinish(s)
    \/ \E result \in Outcomes \ {"unset"} : RebootAfterUpdate(s, result)
    \/ ContinueRollout(s)
    \/ StopRollout(s)
    \/ FlushRaises(s)
    \/ ReapCommit(s)
    \/ ReapSend(s)

Watchdog == \E s \in Slots, R \in SUBSET Runs : ReapSelect(s, R)

Faults ==
    \/ \E s \in Slots : Die(s)
    \/ \E s, t \in Slots : Redeliver(s, t)
    \/ \E h \in Targets : DeleteHoneypotAndRuns(h)

RolloutNext ==
    \/ Requests
    \/ \E s \in Slots : Step(s)
    \/ Watchdog
    \/ Faults

RolloutSpec == RolloutInit /\ [][RolloutNext]_rolloutVars

\* A worker that lives goes on with its task and takes the messages that
\* wait; Beat starts the watchdog again and again. Nobody is obliged to
\* trigger, retry or delete anything, and no fault has to happen.
RolloutFairSpec ==
    /\ RolloutSpec
    /\ \A s \in Slots : WF_rolloutVars(Step(s))
    /\ WF_rolloutVars(Watchdog)

-----------------------------------------------------------------------------
(* Properties *)

RolloutTypeOK ==
    /\ batch \in [Batches -> BatchRecord]
    /\ status \in [Runs -> Statuses]
    /\ outcome \in [Runs -> Outcomes]
    /\ known \subseteq Targets
    /\ task \in [Slots -> TaskRecord]
    /\ faults \in [deaths : 0..MaxRolloutDeaths, deletions : 0..MaxDeletions,
                   redeliveries : 0..MaxRedeliveries]

\* Retrying what failed never runs apt on a honeypot while the run being
\* retried is still at it.
RetryNeverOverlaps ==
    \A s, t \in Slots :
        /\ task[s].pc = "updating" /\ task[t].pc = "updating"
        /\ HoneypotOf[task[s].run] = HoneypotOf[task[t].run]
        => batch[BatchOf[task[t].run]].retryOf # BatchOf[task[s].run]

\* No run is left pending for ever: it is started, or marked failed with the
\* reason when the rollout stops.
NothingLeftPending == \A r \in Runs : status[r] = "pending" ~> status[r] # "pending"

-----------------------------------------------------------------------------
(* What a rolling batch shows. *)

PhaseOf(r) ==
    CASE status[r] = "none"    -> "absent"
      [] status[r] = "pending" -> "waiting"
      [] status[r] = "running" -> "updating"
      [] status[r] = "failed"  -> "halted"
      [] status[r] = "succeeded" ->
            IF outcome[r] \in BadOutcomes THEN "halted"
            ELSE IF RebootIfRequired(r) /\ outcome[r] = "unset" THEN "updated"
            ELSE "ready"

\* The phases of batch b by honeypot; a batch that is not rolling shows none.
PhasesOf(b) ==
    [h \in Targets |->
        IF batch[b].rolling /\ \E r \in RunsOf(b) : HoneypotOf[r] = h
        THEN PhaseOf(CHOOSE r \in RunsOf(b) : HoneypotOf[r] = h)
        ELSE "absent"]

Promise(b) == INSTANCE RollingBatch WITH Places <- Targets, phase <- PhasesOf(b)

\* Every rolling batch does what RollingBatch allows: each step of the tasks, the
\* watchdog, a deletion or a death is a step of the abstract batch or none.
BatchRollsOut ==
    /\ \A b \in Batches : Promise(b)!Init
    /\ [][\A b \in Batches : UNCHANGED PhasesOf(b) \/ Promise(b)!Next]_<<batch, status, outcome>>

=============================================================================
