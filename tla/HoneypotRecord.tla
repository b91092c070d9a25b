--------------------------- MODULE HoneypotRecord ---------------------------
(***************************************************************************)
(* One honeypots row, shared by the routes that edit it, the routes and     *)
(* sweeps that enqueue tasks for it, and the tasks, which read the row,     *)
(* visit whatever answers at its address over SSH and write what they found *)
(* to the row as it is by then. A machine is known by its host key.         *)
(*                                                                         *)
(* The columns a task fills form a group; no task reads another's. The      *)
(* model follows one group, picked at the start. A route is one step: none  *)
(* waits for a machine between reading the row and committing.              *)
(***************************************************************************)
EXTENDS Naturals, FiniteSets

CONSTANTS
    Addresses,   \* address and port
    Machines,    \* what may answer there, each with its host key
    Nobody,      \* no machine: NULL
    Columns,     \* the groups of columns to look at
    Jobs,        \* tasks under way at once
    MaxWaiting,  \* bounds the tasks asked for ahead
    MaxStarts,   \* bounds the tasks that ever begin
    MaxChanges   \* bounds the edits and decisions of administrators

VARIABLES
    column,   \* the group of columns followed
    host,     \* host[a]: the machine that answers at a
    row,      \* the honeypots row; data: the machine the group tells of
    shown,    \* the fingerprints an administrator was shown
    waiting,  \* kinds of tasks in the broker; more of one kind are not told apart
    job,      \* job[j]: a running task
    seen      \* what happened, for the bounds and the properties

recordVars == <<column, host, row, shown, waiting, job, seen>>

AllColumns == {"facts", "hardware", "packages", "services", "monitoring",
               "readiness", "updates", "mac", "log"}

\* The groups of columns there are; the bounds are numbers.
RecordConstants ==
    Columns \subseteq AllColumns /\ MaxStarts \in Nat /\ MaxChanges \in Nat

Machine == Machines \cup {Nobody}
Row == [here : BOOLEAN, active : BOOLEAN, address : Addresses, pin : Machine,
        changed : Machine, data : Machine]
\* "refresh" fills the group followed, "fix" installs what the readiness check
\* misses and repeats it, "run" stands for every task that writes no column.
Kinds == {"refresh", "poll", "fix", "run"}
Copy == [address : Addresses \cup {Nobody}, pin : Machine, changed : Machine]
Job == [pc : {"idle", "connecting", "visiting"}, kind : Kinds, copy : Copy, at : Machine]
NoCopy == [address |-> Nobody, pin |-> Nobody, changed |-> Nobody]
Idle == [pc |-> "idle", kind |-> "run", copy |-> NoCopy, at |-> Nobody]

RecordInit ==
    /\ column \in Columns
    /\ host \in [Addresses -> Machines]
    /\ row \in [here : {TRUE}, active : {TRUE}, address : Addresses, pin : {Nobody},
                changed : {Nobody}, data : {Nobody}]
    /\ shown = {}
    /\ waiting = {}
    /\ job = [j \in Jobs |-> Idle]
    /\ seen = [starts |-> 0, changes |-> 0, replaced |-> FALSE, crossed |-> FALSE,
               trustedHere |-> {}]

-----------------------------------------------------------------------------
(* Administrators: edit, discover, trust, delete. *)

CountChange ==
    /\ row.here
    /\ seen.changes < MaxChanges

UnderWay == \E j \in Jobs : job[j].pc # "idle"

ResetOnEdit == {"facts"}

Moved(r, a) ==
    [r EXCEPT !.address = a, !.pin = Nobody,
              !.data = IF column \in ResetOnEdit THEN Nobody ELSE @]

\* Mutant of MovedAlarm: the reset forgets the facts.
MovedPinOnly(r, a) == [r EXCEPT !.address = a, !.pin = Nobody, !.changed = Nobody]

\* The web form's reset: of the alarm, too.
MovedAlarm(r, a) == [Moved(r, a) EXCEPT !.changed = Nobody]

SeeEdit(a) ==
    seen' = [seen EXCEPT !.changes = @ + 1,
                         !.crossed = @ \/ (a # row.address /\ UnderWay),
                         !.trustedHere = IF a # row.address THEN {} ELSE @]

EditHoneypot(a, active) ==
    /\ CountChange
    /\ row' = [IF a # row.address THEN MovedAlarm(row, a) ELSE row EXCEPT !.active = active]
    /\ SeeEdit(a)
    /\ UNCHANGED <<column, host, shown, waiting, job>>

UpdateHoneypotApi(a, active) ==
    /\ CountChange
    /\ row' = [IF a # row.address THEN Moved(row, a) ELSE row EXCEPT !.active = active]
    /\ SeeEdit(a)
    /\ UNCHANGED <<column, host, shown, waiting, job>>

\* The key exchange alone: nothing is trusted and nothing stored.
DiscoverHostKey ==
    /\ CountChange
    /\ shown' = shown \cup {host[row.address]}
    /\ UNCHANGED <<column, host, row, waiting, job, seen>>

\* A facts pass and a readiness check follow.
FollowUps(W) ==
    W \cup IF column \in {"facts", "hardware", "readiness"} THEN {"refresh"} ELSE {}

SeeTrust(m) ==
    seen' = [seen EXCEPT !.changes = @ + 1, !.crossed = @ \/ UnderWay,
                         !.trustedHere = @ \cup {m}]

Trusted(r, m) == [r EXCEPT !.pin = m, !.changed = Nobody]

\* Any fingerprint that was shown may be confirmed, however long ago.
TrustHostKey(m) ==
    /\ CountChange
    /\ m \in shown
    /\ row' = Trusted(row, m)
    /\ waiting' = FollowUps(waiting)
    /\ SeeTrust(m)
    /\ UNCHANGED <<column, host, shown, job>>

\* The API leaves the alarm as it is.
TrustHostKeyApi(m) ==
    /\ CountChange
    /\ m \in shown
    /\ row' = [row EXCEPT !.pin = m]
    /\ waiting' = FollowUps(waiting)
    /\ SeeTrust(m)
    /\ UNCHANGED <<column, host, shown, job>>

DeleteHoneypot ==
    /\ CountChange
    /\ row' = [row EXCEPT !.here = FALSE]
    /\ UNCHANGED <<column, host, shown, waiting, job, seen>>

-----------------------------------------------------------------------------
(* What is enqueued. A route asks for one honeypot, active or not, ... *)

Ask(kind) ==
    /\ row.here
    /\ Cardinality(waiting) < MaxWaiting
    /\ waiting' = waiting \cup {kind}
    /\ UNCHANGED <<column, host, row, shown, job, seen>>

AskFor(group) == column \in group /\ Ask("refresh")

RefreshFactsEndpoint == AskFor({"facts", "hardware"})
RefreshFactsApi == AskFor({"facts", "hardware"})
RefreshPackagesEndpoint == AskFor({"packages"})
RefreshPackagesApi == AskFor({"packages"})
RefreshServicesApi == AskFor({"services"})
RefreshMonitoringEndpoint == AskFor({"monitoring", "services"})
RecheckReadinessEndpoint == AskFor({"readiness"})
RecheckReadinessApi == AskFor({"readiness"})
CheckUpdatesEndpoint == AskFor({"updates"})
SetMacAddressEndpoint == AskFor({"mac"})
FixReadinessDirectly == column = "readiness" /\ Ask("fix")
FixReadinessDirectlyApi == column = "readiness" /\ Ask("fix")
PollNowEndpoint == Ask("poll")
TestConnectionEndpoint == Ask("run")
TestConnectionApi == Ask("run")

\* ... a sweep for every active honeypot with a pinned key that is due.
Sweep(kind) ==
    /\ row.active /\ row.pin # Nobody
    /\ Ask(kind)

RefreshAllFacts == column \in {"facts", "hardware"} /\ Sweep("refresh")
RefreshAllPackages == column = "packages" /\ Sweep("refresh")
RefreshAllServices == column = "services" /\ Sweep("refresh")
MonitorAll == column = "monitoring" /\ Sweep("refresh")
CheckAllReadiness == column = "readiness" /\ Sweep("refresh")
CheckAllUpdates == column = "updates" /\ Sweep("refresh")
PollAll == Sweep("poll")

Asking ==
    \/ RefreshFactsEndpoint \/ RefreshFactsApi \/ RefreshPackagesEndpoint
    \/ RefreshPackagesApi \/ RefreshServicesApi \/ RefreshMonitoringEndpoint
    \/ RecheckReadinessEndpoint \/ RecheckReadinessApi \/ CheckUpdatesEndpoint
    \/ SetMacAddressEndpoint \/ FixReadinessDirectly \/ FixReadinessDirectlyApi
    \/ PollNowEndpoint \/ TestConnectionEndpoint \/ TestConnectionApi

Sweeping ==
    \/ RefreshAllFacts \/ RefreshAllPackages \/ RefreshAllServices
    \/ MonitorAll \/ CheckAllReadiness \/ CheckAllUpdates \/ PollAll

-----------------------------------------------------------------------------
(* The tasks. *)

\* Every task reads the row first, and does nothing without a pinned key (the
\* connection test and the power actions leave that to the SSH client).
Begin(j, kind) ==
    /\ job[j].pc = "idle"
    /\ kind \in waiting
    /\ seen.starts < MaxStarts
    /\ waiting' = waiting \ {kind}
    /\ job' = [job EXCEPT ![j] =
           IF row.here /\ row.pin # Nobody
           THEN [pc |-> "connecting", kind |-> kind, at |-> Nobody,
                 copy |-> [address |-> row.address, pin |-> row.pin, changed |-> row.changed]]
           ELSE Idle]
    /\ seen' = [seen EXCEPT !.starts = @ + 1]
    /\ UNCHANGED <<column, host, row, shown>>

Answering(j) == host[job[j].copy.address]

Accepts(j) == Answering(j) = job[j].copy.pin

Connect(j) ==
    /\ job[j].pc = "connecting"
    /\ Accepts(j)
    /\ job' = [job EXCEPT ![j].pc = "visiting", ![j].at = Answering(j)]
    /\ UNCHANGED <<column, host, row, shown, waiting, seen>>

Leave(j) == job' = [job EXCEPT ![j] = Idle]

\* Nobody answers in time, or with another key; nothing is stored ...
ConnectionFails(j) ==
    /\ job[j].pc = "connecting"
    /\ Leave(j)
    /\ UNCHANGED <<column, host, row, shown, waiting, seen>>

\* ... but by a poll, which notes another key.
NoteHostKeyChange(j) ==
    LET presented == Answering(j) IN
    /\ job[j].pc = "connecting" /\ job[j].kind = "poll"
    /\ ~Accepts(j)
    /\ row' = IF row.here /\ presented # job[j].copy.changed
              THEN [row EXCEPT !.changed = presented] ELSE row
    /\ Leave(j)
    /\ UNCHANGED <<column, host, shown, waiting, seen>>

\* One commit at the end; the time of the reading among the columns, so that
\* they are written even when nothing else differs from the copy.
Store(j, group) ==
    /\ job[j].pc = "visiting" /\ job[j].kind = "refresh"
    /\ column \in group
    /\ row' = IF row.here THEN [row EXCEPT !.data = job[j].at] ELSE row
    /\ Leave(j)
    /\ UNCHANGED <<column, host, shown, waiting, seen>>

StoreFacts(j) == Store(j, {"facts", "hardware"})
StorePackages(j) == Store(j, {"packages"})
StoreServices(j) == Store(j, {"services"})
StoreSample(j) == Store(j, {"monitoring"})
StoreReadiness(j) == Store(j, {"readiness"})
StoreUpdates(j) == Store(j, {"updates"})
StoreMacAddress(j) == Store(j, {"mac"})

\* A vendor, model or serial number that cannot be read keeps its last value.
KeepHardware(j) ==
    /\ job[j].pc = "visiting" /\ job[j].kind = "refresh"
    /\ column = "hardware"
    /\ Leave(j)
    /\ UNCHANGED <<column, host, row, shown, waiting, seen>>

\* After the installation the readiness check runs, with the row read anew.
FixRootReadiness(j) ==
    /\ job[j].pc = "visiting" /\ job[j].kind = "fix"
    /\ job' = [job EXCEPT ![j] =
           IF row.here /\ row.pin # Nobody
           THEN [pc |-> "connecting", kind |-> "refresh", at |-> Nobody,
                 copy |-> [address |-> row.address, pin |-> row.pin, changed |-> row.changed]]
           ELSE Idle]
    /\ UNCHANGED <<column, host, row, shown, waiting, seen>>

\* The copy's alarm, if it had one, is over; the offset is that of the log read.
StorePoll(j) ==
    /\ job[j].pc = "visiting" /\ job[j].kind = "poll"
    /\ row' = IF row.here
              THEN [row EXCEPT !.changed = IF job[j].copy.changed = Nobody THEN @ ELSE Nobody,
                               !.data = IF column = "log" THEN job[j].at ELSE @]
              ELSE row
    /\ Leave(j)
    /\ UNCHANGED <<column, host, shown, waiting, seen>>

\* The answer goes back to the request that waits for it, nothing is stored.
Report(j) ==
    /\ job[j].pc = "visiting" /\ job[j].kind = "run"
    /\ Leave(j)
    /\ UNCHANGED <<column, host, row, shown, waiting, seen>>

TestConnection(j) == Report(j)
RunRemoteCommand(j) == Report(j)
ReadJournal(j) == Report(j)
ReadLogFile(j) == Report(j)
ListLogDirectory(j) == Report(j)
CheckReadonlyStatus(j) == Report(j)
FetchChangelog(j) == Report(j)
PreviewUpdate(j) == Report(j)
RunPowerAction(j) == Report(j)

\* Something else answers at an address: a new machine, a reinstalled one.
Replace(a, m) ==
    /\ ~seen.replaced
    /\ m # host[a]
    /\ host' = [host EXCEPT ![a] = m]
    /\ seen' = [seen EXCEPT !.replaced = TRUE]
    /\ UNCHANGED <<column, row, shown, waiting, job>>

-----------------------------------------------------------------------------
Administration ==
    \/ \E a \in Addresses, active \in BOOLEAN :
          EditHoneypot(a, active) \/ UpdateHoneypotApi(a, active)
    \/ DiscoverHostKey
    \/ \E m \in Machines : TrustHostKey(m) \/ TrustHostKeyApi(m)
    \/ DeleteHoneypot

Task(j) ==
    \/ \E kind \in Kinds : Begin(j, kind)
    \/ Connect(j) \/ ConnectionFails(j) \/ NoteHostKeyChange(j)
    \/ StoreFacts(j) \/ StorePackages(j) \/ StoreServices(j) \/ StoreSample(j)
    \/ StoreReadiness(j) \/ StoreUpdates(j) \/ StoreMacAddress(j)
    \/ KeepHardware(j) \/ FixRootReadiness(j) \/ StorePoll(j)
    \/ TestConnection(j) \/ RunRemoteCommand(j) \/ ReadJournal(j) \/ ReadLogFile(j)
    \/ ListLogDirectory(j) \/ CheckReadonlyStatus(j) \/ FetchChangelog(j)
    \/ PreviewUpdate(j) \/ RunPowerAction(j)

RecordNext ==
    \/ Administration
    \/ Asking
    \/ Sweeping
    \/ \E j \in Jobs : Task(j)
    \/ \E a \in Addresses, m \in Machines : Replace(a, m)

RecordSpec == RecordInit /\ [][RecordNext]_recordVars

-----------------------------------------------------------------------------
(* Properties *)

RecordTypeOK ==
    /\ column \in AllColumns
    /\ host \in [Addresses -> Machines]
    /\ row \in Row
    /\ shown \subseteq Machines
    /\ waiting \subseteq Kinds
    /\ job \in [Jobs -> Job]
    /\ seen \in [starts : 0..MaxStarts, changes : 0..MaxChanges, replaced : BOOLEAN,
                 crossed : BOOLEAN, trustedHere : SUBSET Machines]

OfThisAddress == row.data \in seen.trustedHere \cup {Nobody}

\* The facts shown are those of a machine whose key was confirmed since the
\* honeypot got its address, unless a task was under way when it was edited.
FactsOfThisAddress == column \in ResetOnEdit /\ ~seen.crossed => OfThisAddress

=============================================================================
