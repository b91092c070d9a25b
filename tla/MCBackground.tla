---------------------------- MODULE MCBackground ----------------------------
(***************************************************************************)
(* Small instances, for TLC, of what runs without anybody waiting for it,    *)
(* under the fairness of Beat, the workers, systemd and the browser: the     *)
(* update tasks, the schedule, the upgrade of the application and the pages  *)
(* that follow it all. They share no state; a behaviour moves one of them.   *)
(* Init, Next, TypeOK and vars are those of the schedule.                    *)
(***************************************************************************)
EXTENDS Scheduler

CONSTANTS Nil, Sent     \* no run, no row, no request; a request under way

VARIABLES
    batch, status, outcome, known, task, faults,             \* UpdateRollout
    files, upgrade, available, origin, head, deployed, host, todo, holder,
    web, reboots,                                            \* AppUpdate
    kind, version, owed, socket, wire, shown, request, again, timer, unseen,
    visible, focus, losses,                            \* LiveUpdates
    part,                                                    \* the one that moves
    stranded                   \* history: nobody is obliged to go on with the batch

rolloutVars == <<batch, status, outcome, known, task, faults>>
upgradeVars == <<files, upgrade, available, origin, head, deployed, host, todo, holder,
                 web, reboots>>
liveVars == <<kind, version, owed, socket, wire, shown, request, again, timer, unseen,
              visible, focus, losses>>
allVars == <<rolloutVars, vars, upgradeVars, liveVars, part, stranded>>

-----------------------------------------------------------------------------
\* The instances and their bounds

One == {"a"}
Two == {"a", "b"}

\* Two honeypots in one batch of any kind.
TwoRuns == 1..2
BatchOfRun == <<1, 1>>
HoneypotOfRun == <<1, 2>>
AnyDeathPoint == {"enqueueing", "updating", "updated", "rebooting", "continuing",
                  "stopping", "reaping", "reaped"}
R == INSTANCE UpdateRollout WITH
    Runs <- TwoRuns, NoRun <- Nil, Batches <- {1}, Targets <- 1..2,
    BatchOf <- BatchOfRun, HoneypotOf <- HoneypotOfRun, Slots <- Two,
    BatchKinds <- [rolling : BOOLEAN, reboot : BOOLEAN], DeathPoints <- AnyDeathPoint,
    MaxRolloutDeaths <- 2, MaxDeletions <- 1, MaxRedeliveries <- 1, TimeoutMayShrink <- TRUE
ASSUME RolloutAssumption == R!RolloutConstants

\* A bound: two faults in a behaviour, or a message that comes twice.
TwoFaults == faults.deaths + faults.deletions + 2 * faults.redeliveries <= 2

ASSUME SchedulerAssumption == ConstantsAreSound

U == INSTANCE AppUpdate WITH Webs <- One, MaxCommits <- 1, MaxReboots <- 2

L == INSTANCE LiveUpdates WITH
    Nothing <- Nil, MaxVersion <- 2, MaxLosses <- 1

-----------------------------------------------------------------------------
\* A process that dies takes along what it was to send next: the messages of
\* the whole batch while they are being enqueued, the next run of a rolling one
\* later. Not while apt runs, nor before the watchdog has closed a run: that
\* run is still running, and the next watchdog finds it. Deleting the honeypot
\* a rolling batch has arrived at leaves nobody to continue behind it: the task,
\* or the watchdog, no longer finds the run.
Strands ==
    \/ /\ faults'.deaths # faults.deaths
       /\ \E s \in Two :
             /\ task'[s] # task[s]
             /\ \/ task[s].pc = "enqueueing"
                \/ task[s].pc \notin {"updating", "reaping"} /\ batch[1].rolling
    \/ /\ batch[1].rolling
       /\ \E r \in TwoRuns :
             /\ status[r] # "none" /\ status'[r] = "none"
             /\ \/ status[r] = "running"
                \/ \E s \in Two : task[s].run = r \/ r \in task[s].todo

BackgroundInit ==
    /\ R!RolloutInit /\ stranded = FALSE /\ Init /\ U!Init /\ L!Init
    /\ part \in {"rollout", "schedule", "upgrade", "page"}
    \* Where the page does not move, one beginning stands for all.
    /\ part # "page" => kind = "panel"

\* All the parts but p stay as they are.
Only(p, A) ==
    /\ part = p /\ UNCHANGED part /\ A
    /\ IF p = "rollout" THEN stranded' = (stranded \/ Strands)
       ELSE UNCHANGED <<rolloutVars, stranded>>
    /\ IF p = "schedule" THEN TRUE ELSE UNCHANGED vars
    /\ IF p = "upgrade" THEN TRUE ELSE UNCHANGED upgradeVars
    /\ IF p = "page" THEN TRUE ELSE UNCHANGED liveVars

BackgroundNext ==
    \/ Only("rollout", R!RolloutNext /\ TwoFaults')
    \/ Only("schedule", Next)
    \/ Only("upgrade", U!Next)
    \/ Only("page", L!Next)

\* FairSpec of UpdateRollout, Scheduler, AppUpdate and LiveUpdates.
BackgroundFairness ==
    /\ \A s \in Two : WF_allVars(Only("rollout", R!Step(s)))
    /\ WF_allVars(Only("rollout", R!Watchdog))
    /\ \A k \in Ticks : WF_allVars(Only("schedule", TickStep(k)))
    /\ WF_allVars(Only("schedule", Execution))
    /\ \A u \in U!Units :
          /\ WF_allVars(Only("upgrade", U!Starts(u) \/ U!Works(u)))
          /\ SF_allVars(Only("upgrade", U!Locks(u)))
    /\ WF_allVars(Only("page", L!Poll))
    /\ WF_allVars(Only("page", L!Read))
    /\ WF_allVars(Only("page", L!Answer))

BackgroundSpec ==
    BackgroundInit /\ [][BackgroundNext]_allVars /\ BackgroundFairness

-----------------------------------------------------------------------------
\* Every row, message, task, tick, file and page is of its type (all four).
BackgroundTypeOK ==
    /\ R!RolloutTypeOK /\ TypeOK /\ U!TypeOK /\ L!TypeOK

\* No run stays running for ever, wherever processes die and whatever is
\* deleted; and none stays pending as long as its batch is not stranded
\* (jobs.py: fail_stale_update_runs, _finish_update_run). A stranded batch may
\* stay pending for ever: NothingLeftPending does not hold of the code.
Unfinished(r) == status[r] = "running" \/ (status[r] = "pending" /\ ~stranded)
EveryRunEnds == (\E r \in TwoRuns : Unfinished(r)) ~> (\A r \in TwoRuns : ~Unfinished(r))

\* No upgrade shows as running for ever (AppUpdate).
UpgradeEnds == U!UpgradeEnds

\* A panel shows every change in the end (LiveUpdates).
PanelCatchesUp == L!PanelCatchesUp

=============================================================================
