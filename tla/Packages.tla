------------------------------ MODULE Packages -------------------------------
(***************************************************************************)
(* The apt packages of one honeypot: update runs with the snapshot they take *)
(* first, rollbacks to such a snapshot, held packages, and the checks that   *)
(* read them back (tasks/jobs.py, ssh/updates.py, routes/honeypots_updates   *)
(* .py and api_v1.py). Each task reads its rows, talks to the machine and    *)
(* commits afterwards; nothing keeps two of them off one honeypot.           *)
(***************************************************************************)
EXTENDS FiniteSets, Naturals

CONSTANTS Names, Updates, NoUpdate, HoldTasks,
          MaxVersion,  \* bound: versions a package gets
          MaxHolds     \* bound: holds, releases and checks

VARIABLES
    latest,     \* the version apt would install
    version,    \* the version installed, or 0
    held,       \* apt-mark showhold
    noted,      \* honeypots.apt_held_packages
    updateRun,  \* honeypot_update_runs
    hold,       \* tasks that hold, release or check
    holds,
    touched,    \* history: what each run changed
    overtaken   \* history: rollbacks during which the packages were changed

packageVars == <<latest, version, held, noted, updateRun, hold, holds, touched, overtaken>>
aptState == <<latest, version, held>>

Versions == 0..MaxVersion
NoSnapshot == [n \in {} |-> 0]
Snapshots == [Names -> Versions] \cup {NoSnapshot}
UpdateRow == [status : {"none", "pending", "running", "succeeded", "failed", "purged"},
              stage : {"", "capture", "apt"}, of : Updates \cup {NoUpdate},
              snapshot : Snapshots, target : Snapshots, current : Snapshots]
Blank == [status |-> "none", stage |-> "", of |-> NoUpdate,
          snapshot |-> NoSnapshot, target |-> NoSnapshot, current |-> NoSnapshot]
HoldTask == [kind : {"none", "hold", "unhold", "check"}, name : SUBSET Names,
             copy : SUBSET Names, read : SUBSET Names, done : BOOLEAN]
NoHold == [kind |-> "none", name |-> {}, copy |-> {}, read |-> {}, done |-> FALSE]

PackagesConstants ==
    /\ NoUpdate \notin Updates
    /\ MaxVersion \in Nat \ {0} /\ MaxHolds \in Nat

PackagesTypeOK ==
    /\ latest \in [Names -> Versions] /\ version \in [Names -> Versions]
    /\ held \subseteq Names /\ noted \subseteq Names
    /\ updateRun \in [Updates -> UpdateRow]
    /\ hold \in [HoldTasks -> HoldTask]
    /\ holds \in 0..MaxHolds
    /\ touched \in [Updates -> SUBSET Names]
    /\ overtaken \subseteq Updates

PackagesInit ==
    /\ latest = [n \in Names |-> 1] /\ version = [n \in Names |-> 1]
    /\ held = {} /\ noted = {}
    /\ updateRun = [r \in Updates |-> Blank]
    /\ hold = [t \in HoldTasks |-> NoHold]
    /\ holds = 0
    /\ touched = [r \in Updates |-> {}] /\ overtaken = {}

-----------------------------------------------------------------------------
\* Update runs

Publish(n) ==
    /\ latest[n] < MaxVersion
    /\ latest' = [latest EXCEPT ![n] = @ + 1]
    /\ UNCHANGED <<version, held, noted, updateRun, hold, holds, touched, overtaken>>

Trigger(r, of) ==
    /\ updateRun[r].status = "none"
    /\ updateRun' = [updateRun EXCEPT ![r].status = "pending", ![r].of = of]
    /\ UNCHANGED <<aptState, noted, hold, holds, touched, overtaken>>

TriggerUpdate(r) == Trigger(r, NoUpdate)
TriggerUpdateApi(r) == Trigger(r, NoUpdate)

\* Of an update that succeeded and has its snapshot.
CanRollBack(s) ==
    /\ updateRun[s].status = "succeeded" /\ updateRun[s].snapshot # NoSnapshot
    /\ updateRun[s].of = NoUpdate
TriggerRollback(r, s) == CanRollBack(s) /\ Trigger(r, s)

IsRollback(r) == updateRun[r].of # NoUpdate

\* The snapshot the task of a rollback finds: a purge of the source takes it away.
SourceSnapshot(r) == IF IsRollback(r) THEN updateRun[updateRun[r].of].snapshot ELSE NoSnapshot

\* A rollback loads its source before the row says it is running, and keeps what
\* it has loaded: a purge later does not disturb it.
UpdateBegins(r) ==
    /\ updateRun[r].status = "pending"
    /\ IsRollback(r) => SourceSnapshot(r) # NoSnapshot
    /\ updateRun' = [updateRun EXCEPT ![r].status = "running", ![r].stage = "capture",
                                      ![r].target = SourceSnapshot(r)]
    /\ UNCHANGED <<aptState, noted, hold, holds, touched, overtaken>>

\* ... and fails at once where that is gone.
RollbackLosesSource(r) ==
    /\ updateRun[r].status = "pending"
    /\ IsRollback(r) /\ SourceSnapshot(r) = NoSnapshot
    /\ updateRun' = [updateRun EXCEPT ![r].status = "failed"]
    /\ UNCHANGED <<aptState, noted, hold, holds, touched, overtaken>>

UpdateAt(r, stage) == updateRun[r].status = "running" /\ updateRun[r].stage = stage

\* What is installed; an update goes on without, a rollback fails.
Captures(r) ==
    /\ UpdateAt(r, "capture")
    /\ updateRun' = [updateRun EXCEPT ![r].stage = "apt",
                                      ![r].snapshot = IF IsRollback(r) THEN @ ELSE version,
                                      ![r].current = IF IsRollback(r) THEN version ELSE @]
    /\ UNCHANGED <<aptState, noted, hold, holds, touched, overtaken>>

CaptureFails(r) ==
    /\ UpdateAt(r, "capture")
    /\ updateRun' = [updateRun EXCEPT ![r].stage = IF IsRollback(r) THEN "" ELSE "apt",
                                      ![r].status = IF IsRollback(r) THEN "failed" ELSE @]
    /\ UNCHANGED <<aptState, noted, hold, holds, touched, overtaken>>

\* apt is one command; the run ends with it. Where it fails half way some of
\* the packages are already changed.
Installs(r, new, ok) ==
    /\ version' = new
    /\ updateRun' = [updateRun EXCEPT ![r].stage = "",
                          ![r].status = IF ok THEN "succeeded" ELSE "failed"]
    /\ touched' = [touched EXCEPT ![r] = {n \in Names : new[n] # version[n]}]
    /\ overtaken' = IF new = version THEN overtaken
                    ELSE overtaken
                         \cup {x \in Updates \ {r} : UpdateAt(x, "apt") /\ IsRollback(x)}
    /\ UNCHANGED <<latest, held, noted, hold, holds>>

Upgradable == {n \in Names \ held : version[n] > 0 /\ version[n] < latest[n]}

\* Which of them depends on the strategy and on the dependencies; autoremove
\* may take a package away.
Upgrades(r, U, gone, ok) ==
    /\ UpdateAt(r, "apt") /\ ~IsRollback(r)
    /\ U \subseteq Upgradable /\ gone \subseteq Upgradable \ U
    /\ Installs(r, [n \in Names |-> IF n \in U THEN latest[n]
                                    ELSE IF n \in gone THEN 0 ELSE version[n]], ok)

\* The versions a rollback goes back to.
Target(r) == updateRun[r].target

\* Mutant of Differing: held packages are left out.
DifferingUnheld(r) ==
    {n \in Names \ noted : updateRun[r].current[n] # 0
        /\ Target(r)[n] # 0 /\ updateRun[r].current[n] # Target(r)[n]}

\* In the snapshot and installed, but in another version.
Differing(r) ==
    {n \in Names : updateRun[r].current[n] # 0
        /\ Target(r)[n] # 0 /\ updateRun[r].current[n] # Target(r)[n]}

\* apt refuses to change a held package or to install a version it no longer
\* finds; with nothing to do the run succeeds without it.
Reinstalls(r, D, ok) ==
    /\ UpdateAt(r, "apt") /\ IsRollback(r)
    /\ D \subseteq Differing(r) /\ D \cap held = {}
    /\ ok => D = Differing(r)
    /\ Installs(r, [n \in Names |-> IF n \in D THEN Target(r)[n] ELSE version[n]], ok)

\* Retention: finished runs go, the source of a rollback too. The reference to
\* it becomes NULL; the tasks know which kind each of them is.
Purge(s) ==
    /\ updateRun[s].status \in {"succeeded", "failed"}
    /\ updateRun' = [updateRun EXCEPT ![s] = [Blank EXCEPT !.status = "purged"]]
    /\ UNCHANGED <<aptState, noted, hold, holds, touched, overtaken>>

-----------------------------------------------------------------------------
\* Held packages

\* The row is read first ...
HoldBegins(t, kind, name) ==
    /\ hold[t] = NoHold /\ holds < MaxHolds
    /\ holds' = holds + 1
    /\ hold' = [hold EXCEPT ![t] = [NoHold EXCEPT !.kind = kind, !.name = name, !.copy = noted]]
    /\ UNCHANGED <<aptState, noted, updateRun, touched, overtaken>>

SetPackageHold(t, n) == \E kind \in {"hold", "unhold"} : HoldBegins(t, kind, {n})
CheckUpdates(t) == HoldBegins(t, "check", {})

\* The REST API's; it waits for the task and reads the row again.
SetPackageHoldApi(t, n) == SetPackageHold(t, n)
CheckUpdatesApi(t) == CheckUpdates(t)

\* ... then apt-mark runs, or apt-mark showhold, ...
Marked(t) ==
    CASE hold[t].kind = "hold" -> held \cup hold[t].name
      [] hold[t].kind = "unhold" -> held \ hold[t].name
      [] OTHER -> held
MarksOnMachine(t) ==
    /\ hold[t] # NoHold /\ ~hold[t].done
    /\ held' = Marked(t)
    /\ hold' = [hold EXCEPT ![t].done = TRUE, ![t].read = held]
    /\ UNCHANGED <<latest, version, noted, updateRun, holds, touched, overtaken>>

\* Also when the answer is late: what apt-mark did is then not noted.
HoldFails(t) ==
    /\ hold[t] # NoHold
    /\ hold' = [hold EXCEPT ![t] = NoHold]
    /\ UNCHANGED <<aptState, noted, updateRun, holds, touched, overtaken>>

\* ... and the list follows from what the row held, or from what was read.
Known(t) ==
    CASE hold[t].kind = "hold" -> hold[t].copy \cup hold[t].name
      [] hold[t].kind = "unhold" -> hold[t].copy \ hold[t].name
      [] OTHER -> hold[t].read

\* A list equal to the one loaded is not written.
HoldEnds(t) ==
    /\ hold[t].done
    /\ noted' = IF Known(t) = hold[t].copy THEN noted ELSE Known(t)
    /\ hold' = [hold EXCEPT ![t] = NoHold]
    /\ UNCHANGED <<aptState, updateRun, holds, touched, overtaken>>

-----------------------------------------------------------------------------
PackagesNext ==
    \/ \E n \in Names : Publish(n)
    \/ \E r \in Updates :
          \/ TriggerUpdate(r) \/ TriggerUpdateApi(r) \/ UpdateBegins(r)
          \/ RollbackLosesSource(r) \/ Captures(r) \/ CaptureFails(r) \/ Purge(r)
          \/ \E s \in Updates : TriggerRollback(r, s)
          \/ \E D, gone \in SUBSET Names, ok \in BOOLEAN : Upgrades(r, D, gone, ok)
          \/ \E D \in SUBSET Names, ok \in BOOLEAN : Reinstalls(r, D, ok)
    \/ \E t \in HoldTasks :
          \/ \E n \in Names : SetPackageHold(t, n) \/ SetPackageHoldApi(t, n)
          \/ CheckUpdates(t) \/ CheckUpdatesApi(t)
          \/ MarksOnMachine(t) \/ HoldFails(t) \/ HoldEnds(t)

PackagesSpec == PackagesInit /\ [][PackagesNext]_packageVars

-----------------------------------------------------------------------------
\* Step r of a rollback that ends well.
EndsWell(r) ==
    /\ updateRun[r].status = "running" /\ IsRollback(r)
    /\ updateRun'[r].status = "succeeded"

\* A rollback that succeeds leaves every package that the snapshot loaded from
\* its source names and that is still installed in the version it names,
\* whatever was upgraded or held since, and although the source may be purged
\* while it works (tasks/jobs.py:2698-2778), unless another run changed packages
\* between its comparison and its own apt.
RollbackRestores ==
    [][\A r \in Updates : EndsWell(r) /\ r \notin overtaken =>
          \A n \in Names :
              LET old == Target(r)[n]
              IN  old # 0 /\ version'[n] # 0 => version'[n] = old]_packageVars

\* "a rollback run days later doesn't also revert something else that was
\* updated in the meantime for unrelated reasons" (tasks/jobs.py:2707-2711):
\* whatever differs from the snapshot is reverted, later updates too.
RollbackTouchesOnlyItsOwn ==
    [][\A r \in Updates : EndsWell(r) =>
          \A n \in Names : version'[n] # version[n] => n \in touched[updateRun[r].of]]_packageVars

=============================================================================
