# Honeypot Shelf: TLA+ verification

Honeypot Shelf (`app/`) is a FastAPI web application with Celery workers that manages a
fleet of OpenCanary honeypots over SSH. This directory holds TLA+ models of the parts of
it whose correctness depends on concurrency, failure or long histories, the TLC
configurations that check them on small instances, and TLAPS proofs of what matters most.

Paths are relative to the repository's root. `PROJECT.json` is the index: components, runs,
the lines every definition models, hazards with the line where each bites, findings and
theorems.

1. The system · 2. Modules · 3. Runs, bounds and fairness · 4. Proofs · 5. Disagreements
between code and documentation · 6. What is not modelled, and the plan

## 1. The system

Four kinds of process share one PostgreSQL (or TimescaleDB) database and one Redis:

- the **web process** (`app/main.py`, `app/web/routes`) answers requests, commits rows and
  sends Celery messages; a handler gives way to others at every `await`;
- **Celery workers** (`app/tasks/celery_app.py`, `app/tasks/jobs.py`) execute tasks. A
  message is acknowledged *before* the task runs (`task_acks_late` is not set), so a task
  whose worker dies is not executed again. Tasks have a hard time limit;
- **Celery Beat** starts the periodic tasks; nothing prevents a periodic task from being
  started while its previous execution is still running;
- the **honeypots** and other remote hosts, reached over SSH, and on the application's own
  host the scripts systemd starts.

All mutual exclusion comes from the database. Apart from the `FOR UPDATE` on the audit
chain's tip, nothing locks what it reads: rows are read, worked on for seconds or minutes
and written back attribute by attribute (`autoflush=False`, `expire_on_commit=False`; a
flush writes the attributes that differ from the copy that was loaded, and raises when the
row is gone). Most of the hazards in `PROJECT.json` come from that shape, and so does the
shape of the modules: a task or a request is a record with a program counter and the copies
it holds; one step is what lies between two commits, sends, awaits or remote calls; every
interleaving of the others can fall between two steps. The operators `Written`, `Merged`,
`RowAfter`, `Flush` and `Column` are that flush.

| part | state it keeps | operations | hard behaviour | what makes it correct |
|---|---|---|---|---|
| package updates (`jobs.py` 2278-2778, `honeypot_actions.py`, `update_batches.py`) | `HoneypotUpdateRun` rows; package versions, holds, snapshots | trigger, retry, run, finish, watchdog, rollback, hold | worker deaths, watchdog against late workers, deletion and redelivery mid-run | a rolling batch goes on honeypot by honeypot and stops at the first failure; a rollback restores |
| audit log (`app/audit.py`, `jobs.py` 3058-3110) | `AuditLogEntry` rows, the one `AuditChainState` row | `log_event`, purge, `verify_chain` | concurrent writers, the first row, purges in batches, entries and tip read apart | linked, gapless, what is vouched for is complete |
| reachability and notifications (`jobs.py` 1022-1370, `services/notifications.py`, `maintenance_windows.py`) | reachability columns, `NotificationRule(State)`, `MaintenanceWindow` | sweep, manual check, acknowledge, notify, edit rules and windows | overlapping sweeps and polls, a death between mail and commit, edits that cross | one "down" per outage, honest counts, deliverable pushes, an ended window is over |
| canary log polling (`jobs.py` 1977-2120, `ssh/canary_activity.py`) | log path and byte offset, `HoneypotEvent` rows | poll, facts refresh | overlapping polls, rotation, half-written lines, a moved path | each line once, none skipped, all stored in the end |
| health announcements (`jobs.py` 1142-1182, 1463-1510) | `Honeypot.health_announced`, one JSON dictionary | announce per kind | the dictionary is copied and stored whole | announced once per episode |
| scheduled tasks (`scheduling/jobs.py`, `routes/scheduling.py`, `api_v1_scheduling.py`) | `ScheduledTask` rows | tick, run, create, edit, toggle, delete | deaths between sending and committing, overlapping ticks, edits that cross a tick | each due time fires once, and is handled in the end |
| sign-in (`auth/login.py`, `routes/auth.py`, `session_policy.py`) | failed counter, lock, codes, passkeys; the policy and every process's copy | password, second factor, enrol, save policy | parallel attempts, stale copies | lockout, codes used once, a policy takes hold within `TTL`, save for sign-ins that wait |
| accounts and sessions (`auth/sessions.py`, `routes/users.py`, `api_v1_users.py`) | `User`, `UserSession`, `ApiToken` rows | sign in and out, slide, impersonate, edit, deactivate, reset, delete | requests that were let in before a revocation | revoked stays revoked, a cut-off is final, a superadmin remains |
| access to honeypots (`auth/scope.py`, `companies.py`, `api_v1_company_links.py`) | companies, levels, links | edit, attach, detach, grant, delete | a request's scope and copy age while it runs | an edit stays in the scope it was submitted with |
| SSH identity, onboarding (`ssh/identity.py`, `routes/settings.py`, `jobs.py`) | active and pending key; each honeypot's login | generate, roll out, activate, discard, onboard | rotation while rolling out, time-outs and late answers | the shared key logs in everywhere |
| a honeypot's row (`jobs.py`, `honeypots_list.py`, `honeypots_detail.py`, `api_v1*.py`) | address, pinned key, what each kind of task found | edit, trust, refresh, sweep, store | tasks that visit the old address and store late | facts are those of a trusted machine at the present address |
| tags (`services/honeypot_tags.py`) | `tags`, `honeypot_tags` rows | set, add, remove, sync | the deletion of an unused tag cascades | a tag goes only by a request about its honeypot |
| OpenCanary configuration (`honeypots_config.py`, `ssh/opencanary_config.py`, `ssh/readonly.py`) | file, smbd, module tags, fixed paths in `/tmp` | save, toggle read-only, reboot | saves that cross, give-ups half-way | one undisturbed save settles it all |
| watched files (`services/watched_files.py`, `jobs.py` 1511-1620) | list, last contents, audit entries | check, save list | checks side by side, a death before the entries | what is stored was told |
| Initialize (`routes/initialize*.py`, `ssh/initialize.py`) | pending forms, runs, the device | submit, claim, script, wait for the reboot | runs side by side, given-up runs, moved devices | "success" means the machine is back |
| VPN (`services/netbird.py`, `wireguard.py`, `routes/settings.py`) | provider, configuration, tunnels | connect, disconnect, restart | time-outs whose request still runs | the tunnel is the one that is named |
| history and retention (`_record_company_snapshots`, the `_purge_old_...` tasks of `jobs.py`, `db/timescale.py`) | samples, events, other aged tables | record, purge in batches and chunks, snapshot | overrides per honeypot, whole days dropped | only what is past is purged |
| backups (`services/full_backup.py`, `auto_backup.py`, `scripts/backup.sh`, `restore.sh`) | archives, the key in `.env`, sealed secrets | back up, prune, restore | interrupted scripts, other instances' keys | secrets open |
| database move (`scripts/switch_db.sh`, `db_import.sh`) | two volumes and their marks | switch, import, mark | an import that fails half-way | never on part of the data (refuted) |
| application update (`services/app_update.py`, `scripts/self_update.py`) | request and status files, a lock | check, upgrade, timer | kills and reboots mid-way | an interrupted upgrade refuses nothing for ever |
| live updates, terminals (`services/live_updates.py`, `live_ws.py`, `terminal_ws.py`, `logs_ws.py`) | doorbells, pages; connections, recordings | publish, poll, refresh; open, relay, close | lost doorbells, sockets, requests; every way out | a panel catches up; nothing is left open |
| settings (`routes/settings.py`, `celery_app.py`) | one `AppSettings` row | one form per service, intervals | saves that cross | what is switched on is complete |
| reference data (`services/geoip.py`, `mac_vendors.py`) | files, readers, the vendors table | refresh, read | two downloads at once | one edition; checked readers are current |
| schema; lists, notes, search; setup scripts | | | declarative, read-only or interactive | |

## 2. Modules

A component is one module with its state, `Init`, one action per operation, `Next`, its type
invariant and its properties. Modules that are put together in one TLC instance and proved
about use names with a prefix of their own (`RecordInit`, `SshNext`, `vpnVars`, ...), so
that an MC module can EXTEND several; the others are brought in with `INSTANCE ... WITH`.

Web and REST handlers that do the same share an action and have a named one each where
they differ (`UpdateHoneypot` / `UpdateHoneypotApi`): the operators are named after the
handlers, and `PROJECT.json` has the lines of both.

| module | models | proofs | checked in |
|---|---|---|---|
| `RollingBatch` | the promise of a rolling update, abstractly | `BackgroundProofs` | `fleet` |
| `UpdateRollout` | update runs, their tasks and their watchdog | `BackgroundProofs` | `fleet`, `background` |
| `Packages` | snapshots, rollbacks, holds | `FleetProofs` | `fleet` |
| `AuditChain` | audit log, purge, verification | `AuditChainProofs` | `people` |
| `CanaryLogPoll` | reading the OpenCanary log by offset | `CanaryLogPollProofs` | `canary` |
| `Reachability` | sweeps, manual checks, "down" and "back" mails | `ReachabilityProofs` | `reach` |
| `AlertThrottle` | windows of alerts and held-back counts | `NoticesProofs` | `reach` |
| `HealthNotices` | health and warranty announcements | `NoticesProofs` | `reach` |
| `NotificationRules` | rules, their scope and delivery | `NoticesProofs` | `reach` |
| `Maintenance` | maintenance windows | `NoticesProofs` | `reach` |
| `Scheduler` | scheduled tasks | `BackgroundProofs` | `background` |
| `AppUpdate` | the application's own update | | `background` |
| `LiveUpdates` | pages that follow what is stored | | `background` |
| `Accounts` | accounts, sessions, tokens | `AccountsProofs` | `people` |
| `Logins` | signing in, lockout, second factors | `AccountsProofs` | `people` |
| `SignInPolicy` | the policy and every process's copy of it | `AccountsProofs` | `people` |
| `Estate` | companies, levels, links of honeypots | `EstateProofs` | `people` |
| `Settings` | services and intervals, Beat | `EstateProofs` | `people` |
| `Backup` | backups, restores, keys | `EstateProofs` | `people` |
| `HoneypotRecord` | a honeypot's row under edits and late tasks | `FleetProofs` | `fleet` |
| `SshAccess` | the shared key and the onboarding | `FleetProofs` | `fleet` |
| `CanaryConfig` | saving `opencanary.conf` | `FleetProofs` | `fleet` |
| `WatchedFiles` | watched files | `FleetProofs` | `fleet` |
| `Vpn` | the tunnel | `FleetProofs` | `fleet` |
| `Retention` | history, purges, snapshots | `FleetProofs` | `fleet` |
| `Terminals` | terminals and followed logs | `FleetProofs` | `fleet` |
| `HoneypotTags` | tags | `FleetProofs` | `fleet` |
| `Initialize` | the provisioning wizard | `FleetProofs` | `fleet` |
| `ReferenceData` | GeoIP and manufacturers | `FleetProofs` | `fleet` |
| `DatabaseMove` | moving between the databases | | `database_move` |

`MCAuditChain`, `MCCanaryLogPoll`, `MCReachability`, `MCPeople`, `MCBackground`, `MCFleet`
and `MCUpdateRollout` hold the instances for TLC; that those of `people`, `fleet` and `reach`
are behaviours of every component they put together is proved (section 4).

### Updates: RollingBatch, UpdateRollout, Packages

In `UpdateRollout`, `status[r]` and `outcome[r]` are columns of the run `r`, `batch[b]` what
a batch was created with, `known` the honeypots in the database. `task` is a pool of slots: a
request that has committed and still has to enqueue, a message in the broker, or a task in
a worker with its program counter and local variables.

| action | code |
|---|---|
| `TriggerUpdates`, `RetryFailed`, `EnqueueRun` | `trigger_updates`, `retry_failed` and the `delay` loop after the commit |
| `BeginUpdate`, `EndUpdate`, `FollowUp` | `_run_honeypot_update`: running, apt, the verdict, `finish_update_run` sent |
| `BeginFinish`, `RebootAfterUpdate`, `ContinueRollout`, `StopRollout` | `_finish_update_run`, `_reboot_after_update`, `_continue_rollout` |
| `ReapSelect`, `ReapCommit`, `ReapSend` | `_fail_stale_update_runs` |
| `DropMissing`, `RowVanished`, `FlushRaises`, `DeleteHoneypotAndRuns` | early returns and errors over rows deleted meanwhile; the cascade |
| `Die`, `Redeliver` | a process that ends; a message handed out twice |

Time is abstracted: `IsStale` says that a running row the watchdog closes has no live
worker, because the limit is longer than any worker may take. That is true only while
`update_timeout_seconds` stays what it was when the worker started; `TimeoutMayShrink`
drops it (`background` sets it). `RollingBatch` has only the phase of each place of a batch:
a place starts only when everything before it is gone or ready, a halted place lets the
rest be given up. `UpdateRollout!PhasesOf` maps rows to phases; tasks, messages, watchdog
and deaths become stuttering or one abstract step.

`Packages` has the versions installed and published, holds, runs with the snapshot each
took before it began, and what the last check noted. An update captures, upgrades and ends
in three steps. A rollback loads its source (`UpdateBegins`; `RollbackLosesSource` when it, or
its snapshot, is gone), and keeps what it has loaded (`target`) whatever happens to the source
afterwards: `Purge` leaves a running rollback alone, as `expire_on_commit=False` does. It
compares that snapshot with what is installed *then*.

### Audit log: AuditChain

`entries` are the rows (random id, time, sequence, previous hash, altered or not), `chain`
the tip, and per writer its position in `log_event`, its id, `created_at` and the tip it read
under the lock. `purge` and `verify` are the locals of the purge task and of
`verify_chain`. SHA-256 is injective here.

| action | code |
|---|---|
| `LogEvent`, `LockTip`, `FindNoTip`, `CreateTip` | `log_event` up to the lock; `SELECT ... FOR UPDATE`, else insert, else (key violated) select again |
| `CommitEntry`, `GiveUp`, `WriteFails` | entry and tip in one commit; every exception is swallowed |
| `BeginPurge`, `DeleteBatch`, `EndPurge`, `PurgeDies` | `_purge_old_audit_log_entries`, `_delete_in_batches` |
| `VerifyRead`, `VerifyTip` | `verify_chain`: entries and tip are two statements |
| `Alter`, `TakeOut` | rows changed by something other than this code |

### Notices: CanaryLogPoll, Reachability, AlertThrottle, HealthNotices, NotificationRules, Maintenance

`CanaryLogPoll`: `file[p]` is the log at path `p`, a sequence of bytes of which each line has
two (so a read can end inside one), `row` the stored path and offset, `stored[l]` how many
event rows line `l` became, `poller` and `refresher` the two tasks with their copies. `Stat`
and `ReadNew` are two moments on the honeypot; `RowAfter` is what the refresh's flush writes.

`Reachability`: `row` has the reachability and acknowledgement columns, `state` the
`NotificationRuleState`, `sweep` and `check` the running tasks. `BeginSweep`, `Probe`,
`Record` are `_ping_all_honeypots`; `ReadState`, `Evaluate`, `Send`, `Store` the
evaluation of the rules, the dispatch, and the commit. `Send` says what the rule announces
(`mails.said`) and whether a mail went out: not when it is muted, and also otherwise it may
not, because dispatch finds no target or a delivery fails; the caller stores "told" in every
case. `mails.heard` is what the owner heard last, or that something got lost. `mails` and
`counts` are history.

`AlertThrottle`: the window and the held-back count of one rule on one honeypot, and the
polls that go through new events: `HoldBack`, `SendAlert`, `Reset`, `StoreAlert`, and
`Clashes` when two create the row. `HealthNotices`: the dictionary `announced`, the tasks of
each kind that load it, visit, change their entry and store it whole. `NotificationRules`:
a rule's channel with what it needs, the checks of the form (`IsWhole`, `Authorized`), the
flush (`Merged`), the matching and the push (`Target`, `Complete`, `Deliver`).
`Maintenance`: a window's dates, scope and cancellation, edit forms that may be old.

### People: Accounts, Logins, SignInPolicy, Estate, Settings, Backup

`Accounts` keeps `user`, `session` and `token` rows and `request`: a request arrives
(`require_auth`), is served (`Slid` the session), decides, and commits in later steps.
`due` marks the sessions a cut-off should have ended. `Logins` has one account's row and the
attempts that read it, verify (`SubmitPassword`, `SubmitCode`, `UseRecoveryCode`,
`LoginWithPasskey`) and write from their copy. In `SignInPolicy` a request that has loaded
nothing yet dates its copy *before* it reads the row (`BeginLoad`, `ReadRow`); a sign-in has
loaded the settings row into its session, waited for LDAP or the OpenID provider, and then
gets that row again from the session and dates it *now* (`LoadSettings`, `SignsIn`): `held`
is how long it had it. A save forgets the copy in its own process only. `Estate` has
companies, levels, links, and edits; the edit of a honeypot is a form that is opened
(`EditHoneypotForm`, with what it `offered`), lies there, and is submitted
(`UpdateHoneypot`): what it may touch is resolved at the submission, not when it was drawn. `Settings` has which fields are filled, two
concurrent saves and Beat's own copy of the intervals. `Backup` has the key every secret is
sealed under, archives and dumps with theirs, and the scripts' steps.

### Honeypots: HoneypotRecord, SshAccess, HoneypotTags, CanaryConfig, WatchedFiles, Initialize, Vpn, Retention, Terminals, ReferenceData

`HoneypotRecord` follows one group of columns (`column`); jobs load (`Begin`), meet whoever
answers at the address (`Connect`, `Accepts` with the pinned key) and store into the row as
it is by then; an edit of the address resets `ResetOnEdit`. `SshAccess` has `identity`
(active, pending), `auth` (each honeypot's stored login), `authorized` (keys on the
machines), the roll-out `push` with a task per honeypot, the onboarding attempts. In
`CanaryConfig` a save is read, merge, write to `/tmp`, script, run, clean, tags. `WatchedFiles`:
`watched`, `check`, what was told. `Vpn`: settings, tunnels, handlers and the control server's
own sessions; `wg-quick down` may fail and leave the interface (`ServerDowns`), and a NetBird
client killed after its time-out leaves its command with the daemon (`NetbirdTimesOut`,
`DaemonCatchesUp`). `Retention`: one table at a time, rows with their age, per-honeypot retention,
batches and chunks. `Terminals`: sessions with their audit entries and recordings.
`HoneypotTags`: transactions statement by statement. `Initialize`: forms, runs, scripts on
machines behind ports, reboots. `ReferenceData`: editions fetched, the readers' copies, the
list's transaction.

### Background: Scheduler, AppUpdate, LiveUpdates, DatabaseMove

`Scheduler`: tasks with period and `next`, ticks with the list they read, requests with
their copies, queued runs. `AppUpdate`: request and status files, the two units of the host,
one lock, reboots. `LiveUpdates`: a version in the database, doorbells on the wire, a socket,
a page with its timer, request and visibility. `DatabaseMove`: two volumes with the number
of tables copied and the marks, `CopyTable` one transaction each.

## 3. Runs, bounds and fairness

Each MC module puts together components that share no state: the columns and tables they
use are disjoint, and what one needs of another is an input of it. So a behaviour moves
**one** of them, chosen at the start by `part` (`focus`), and the others stay where they
begin: the states add up instead of multiplying, and no interleaving is lost, because a step
of another part changes nothing a property of this one reads. Where an initial state of a
part that stays still does not matter, one stands for all. Names are plain strings; where
values are interchangeable, one of the permutations is taken (`FirstPlace` in `MCPeople`
hands out places for requests and sessions in order, the one in `MCFleet` the update runs and
the packages of `Packages`).

Inside a part nothing is cut away by the composition, except what is named:
`MCAuditChain` and `MCCanaryLogPoll` split their component in two scenarios, because the
product is out of TLC's reach (many writers that fail, *or* few events with purges and
damage; a rotation under overlapping polls, *or* a moved path), `MCReachability` likewise
(long time with every rule, *or* sweeps that die and manual checks over a short one).
In `background` at most two faults happen to a batch, or a message comes twice (`TwoFaults`).

| run | configuration | properties |
|---|---|---|
| `canary` | `CanaryLogPoll.cfg` | `EachLineOnce`, `NothingSkipped`, `EventuallyStored` |
| `reach` | `Reachability.cfg` | `OncePerOutage`, `AckEndsWithOutage`, `OutageIsAnnounced` (`Reachability`); `CountsAreHonest` (`AlertThrottle`); `HealthToldOnce` (`HealthNotices`); `PushesAreComplete` (`NotificationRules`); `EndedIsOver` (`Maintenance`) |
| `people` | `People.cfg` | `PeopleTypeOK`; `ChainLinked`, `VouchedIsComplete` (`AuditChain`); `SuperadminRemains`, `CutOffIsFinal`, `RevokedStaysRevoked` (`Accounts`); `LocksOut`, `RecoveryCodesAreSpent` (`Logins`); `PolicyTakesHold` (`SignInPolicy`); `EditsStayInScope` (`Estate`); `EnabledIsComplete` (`Settings`); `SecretsOpen` (`Backup`) |
| `background` | `Background.cfg` | `OncePerOccurrence`, `DueIsHandled` (`Scheduler`); `EveryRunEnds` (`UpdateRollout`); `UpgradeEnds` (`AppUpdate`); `PanelCatchesUp` (`LiveUpdates`) |
| `fleet` | `Fleet.cfg` | `FactsOfThisAddress` (`HoneypotRecord`); `SharedKeyLogsIn` (`SshAccess`); `TagsStick` (`HoneypotTags`); `RollbackRestores` (`Packages`); `BatchRollsOut`, `RetryNeverOverlaps` (`UpdateRollout`); `SaveSettles` (`CanaryConfig`); `StoredIsTold` (`WatchedFiles`); `SuccessIsBack` (`Initialize`); `TunnelIsTheOneNamed` (`Vpn`); `ReferenceDataHolds` (`ReferenceData`); `NothingLeftOpen` (`Terminals`); `OnlyPastIsPurged` (`Retention`) |

Seven more runs are refuted by TLC and belong to section 5: `rollout_pending`,
`audit_purged_verify`, `canary_moved`, `rollback_others`, `watched_defaults`,
`database_move`, `snapshot_day`.

Most properties carry an antecedent (`~overlapped`, `r \notin overtaken`, `odd = {}`, ...). Each is a
history variable that some step of the model sets, and each is there because TLC refutes the
property without it: the code protects against the listed disturbances and not against
these. `EveryRunEnds` claims two things: no run stays *running* for ever, wherever
processes die; and none stays *pending*, except in a batch that is `stranded`: a process died
that held the messages to be sent next (`enqueueing`, and of a rolling batch `updated`,
`continuing`, `stopping`, `reaped`), or the honeypot a rolling batch had arrived at was
deleted. Such a batch may stay pending for ever, and nothing in the code picks it up.
`OutageIsAnnounced` says what the owner *heard* only while no mail is lost: one that is muted,
has no target or fails counts as told and is not tried again. `PolicyTakesHold` allows a copy
to be older than `TTL` by `held`, the time a sign-in waited with its settings row in hand.
Section 5 says what goes wrong then. Every one of them is also false in states with many steps
behind them, so the properties are not vacuous.

### Bounds

- *Two of everything that races*: polls, ticks' requests, saves, checks, sessions, handlers,
  edits. A step of one only relates its own copy to the row, so a third adds no new order;
  the exceptions have three (writers: two that race while one holds the lock; users: two
  superadmins and one who is not).
- `UpdateRollout` (in `fleet`): three honeypots in a rolling batch are the least number with a
  first, a middle and a last run, and the retry of the middle one makes a second batch beside
  it (`BatchRollsOut`, `RetryNeverOverlaps`); two slots let a follow-up, a request or the
  watchdog meet a running update, and with three (493,161 states, too long for the run) both
  hold as well. `background` has two runs, one worked on and one waiting, in a batch of any
  kind, with every point at which a process may die and the lowered timeout; a behaviour has
  two deaths (a worker's and the watchdog's behind it), or a death and a deletion, or a
  redelivery. With all four in one behaviour `EveryRunEnds` holds as well (291,000 states, too
  many beside the others).
- `Packages`: two packages, two versions and three runs: an update of one package, an update of
  the other since, and the rollback of the first; or the second update between what the
  rollback compares and its apt (`overtaken`). The source may be purged at any time; a run that no
  rollback goes back to is not, since nothing reads it. Runs and packages are interchangeable, so
  the runs are triggered in the order of their names and the one hold is of the first package. With
  any purges and two holds the property holds as well.
- `AuditChain`: four events reach an entry with a predecessor, a successor and one more; two
  purges at different clock values cut at different places.
- `CanaryLogPoll`: three lines are one stored, one being read and one being written; the
  fourth lets a rotated file grow again.
- `Reachability`: six intervals fit an outage, a recovery and a second outage with delays
  of two; four flips are down, up, down, up.
- `Accounts`: four requests with two under way; `Logins`: five answers with a limit of two
  reach a lock, its end and the next lock; `SignInPolicy`: `TTL` 2 of 3 seconds, with reads
  that take any part of them.
- `Backup`: four acts cover back up, reinstall with another key, restore, restore again.
- `SshAccess`: one honeypot, three keys and four steps: generate, roll out, activate and a
  second rotation or an onboarding in between. Its invariant was also checked with two
  attempts, where the run would take too long.
- `HoneypotRecord`: two addresses and two machines, two changes: the address moves away and
  back, or moves and the machine behind it is exchanged. Every kind of task in turn
  (`column`).
- `Scheduler`: two tasks with periods 1 and 2 over three minutes; two edits; one death.

Every bound is a constant or a named guard of the module. Deadlock is not checked: requests,
edits and failures are bounded and the clocks stop, so a behaviour may end.

### Fairness

`EventuallyStored` (`canary`): weak fairness of the beginning and of each step of every poll and
refresh: Beat sends them every interval, a task that runs goes on to its end or fails
(`CONNECT`/command time-outs, `task_time_limit`).

`background`:

- `EveryRunEnds`: `WF(Step(s))`, a live worker goes on and a waiting message is eventually
  taken; `WF(Watchdog)`, Beat keeps starting the watchdog.
- `DueIsHandled`: `WF(TickStep(k))`: Beat starts ticks and a tick goes on; `WF(Execution)`:
  a worker takes queued runs and ends them.
- `UpgradeEnds`: `WF` of the start and the work of both units (systemd starts them, their
  commands are bounded by `GIT_TIMEOUT_SECONDS` and `TimeoutStartSec`), `SF` of taking the
  lock: a waiter gets it in the end although the other unit takes it again and again.
- `PanelCatchesUp`: `WF` of the panel's interval, of the server's read and of its answer.

Nobody is obliged to trigger, retry, edit or delete, and no fault has to happen. A worker
that dies is modelled as a step that may or may not come; there is no fairness for any of
them.

## 4. Proofs

Eight modules hold theorems; `PROJECT.json` lists 59 of them. Every safety invariant and
every action property that a passing run checks is stated by one. Each component declares
what it assumes of its constants (`SshConstants`, `ConstantsAssumption`, ...): finiteness is
not assumed, only that bounds are naturals and that the "no such thing" values are outside
the sets they stand beside. The MC modules `ASSUME` these conjunctions, so TLC evaluates
them. Every inductive invariant was checked by TLC on a small instance first.

All theorems are of the form `Spec => []P` (or `[][A]_vars`) for the component's own
specification, for every value of the constants. That a theorem covers what a run shows is
proved too: `FleetAreItsParts`, `PeopleAreTheirParts` and `TellersAreApart` say that a
behaviour of an MC instance is one of every component in it, for each step of a part moves
that part by its own `Next` and leaves the variables of the others alone. `PeopleTyped`
puts the type invariants together (`PeopleTypeOK`) under the one assumption the run evaluates.

### AuditChainProofs

`IInv == TypeOK /\ LockInv /\ TipInv /\ FreshInv /\ ChainLinked /\ NoGap`. `ChainLinked`
alone is not inductive: that two entries do not get the same predecessor depends on who may
commit. `LockInv`: at most one writer is past the lock and the tip it read is still the
committed one (what `FOR UPDATE`, or the uncommitted insert of the first row, buys).
`TipInv`: an absent tip means an empty log. `FreshInv`: a drawn id is no entry's. Each part
has its lemma with one step per action; `NumberIsFree` shows that the number a lock holder is
about to use is free, so only `WriteFails` loses events (`WritersLoseNothing`).
`VouchedIsComplete` adds `ReadInv` about the rows and the tip `verify_chain` read, and an
induction on the sequence numbers along the links.

### CanaryLogPollProofs

`NothingSkipped` is true for two reasons, and its proof has an invariant for each. Where
nothing was rotated (`SteadyInv`), polls and refreshes may overlap as they like:
`SkipInv == PathInv /\ OffsetInv` says of *every* offset anybody holds what the property says
of the stored one: it lies at the start of a line and everything below it is stored. Where
polls do not overlap (`HonestInv`), the log may be rotated under the one poll there is:
`Honest` says that it has the row as it is, that a rotated log stays empty or shorter than
the offset until a poll has noticed, and that an offset found in the old file only moves on.
With both at once lines do get lost.

`EachLineOnceAlways` is the whole property, a move to another path included. `Once` needs
nothing about rotations: `Unread(f, s, n)` says that a read of the file `f` from the offset
`n` finds none of the lines `s`, and holds of the row's file and offset (`RowInv`), of every
file the row has not named yet, and of the copy, the start and the new offset a poll has in
hand (`ReadOnce`), the last with the lines it is about to store. `MoveInv` says which paths
may be in hand: the one refresh since the move takes the row from the first path to the
new one and nobody takes it back. `LinesInv`: no line is ended twice, in one file or in two.

### ReachabilityProofs

`OneSweepTellsOnce` (`OncePerOutage` and the clocks) assumes `OneSweep`, that sweeps do not
overlap. Deaths and checks by hand may come at any time; the property is about what happens
until the first of them (`OnlySweeps`), because each of the three breaks it, and
`QuietInv == OnlySweeps => IInv` carries the invariant over the step that brings it. The
counters of mails are in the model for the properties only, so the invariant ties them to
what the code remembers: `ToldInv` (a mail that was sent is remembered by the stored state or
the one about to be stored), `CopyInv` and `ReadInv` (the sweep's copies are current although
it took no lock), `SeenInv`, `SendInv`.

`OutageIsAnnouncedAlways` relates what the rule announced last, and what the owner heard of
it, to its history over several outages. Dispatches may get lost, and the code does not know
which; `HeardInv` ties what was heard to what was dispatched until the first one is.
`Balanced` says what the stored state adds up to for a rule that wants "it's back": every
"it's down" but the one remembered was taken back. For a rule without it, `Said`: what is
remembered was announced in this outage, except while a sweep that found the honeypot up has still
to forget it (`FoundUp`). `OwnerInv` has one of the two, of the stored state and of the copy a sweep
is about to store, and `BackInv`: "it's back" is sent for what was told.

`AckEndsWithOutageAlways` needs none of it: `AckInv` holds for any overlap of sweeps, checks
and deaths.

### AccountsProofs

- `RevokedStaysRevoked`, `CutOffIsFinal`: `CutInv == Unused /\ Named /\ Revokes`: whoever has a
  cut-off under way still names the account and will still revoke its sessions. The lemmas
  about `SessionStays` and `Evolves` say once what any request may do to a session.
- `SuperadminRemains`: `AdminInv` carries, of every decided change that has not committed,
  what it still leaves (`Keeps`).
- `LocksOut`, `RecoveryCodesAreSpent`: `LoginsInv == Alone /\ LockHolds /\ CodesInv` while no
  two answers were verified at once: the copy the one attempt holds is the row.
- `LoginsTypeCorrect`: counters and times are bounded, so that types are not enough by
  themselves: `WithinSteps` counts the wrong answers that are stored together with those being
  verified, `WithinTime` bounds what any copy says of a lock.
- `PolicyTakesHold`: `PolicyInv == PolicyTypeOK /\ History /\ Reads /\ CachedInForce`: a version
  read at a time was in force then or later (`InForceAt`), for readers under way; a copy's was
  in force at its date less the time its row had been held.

### EstateProofs

`EditsStayInScope` from `Resolves` (a decided edit's sets are bounded by what it resolved on
arrival, a form's when it is submitted); `EnabledIsComplete` from `Complete` and `AddressStays` with what each handler has
read; `SecretsOpen` from `SealedUnder`: every copy of the rows, in files, dumps, downloads
and half-way restores, is sealed under the key that travels with it. `SettingsTyped` and
`BackupTyped` with the other components' give `PeopleTyped`.

### NoticesProofs

`EndedIsOver` (`WindowInv`: a request under way writes the end whenever it writes the dates of
an ended window), `CountsAreHonest` (`ThrottleInv`: the one poll has the row as it is, in
every step between reading and storing), `PushesAreComplete` (`RulesInv`: an accepted form
merged with the rule it was checked against is whole), `HealthToldOnce` (`HealthInv`:
`Undisturbed(k)` relates the entry, the copy of the one task of the kind, and the history).
The last proof attempt found an error of the model's history, not of the code: a notice about
a finding that was outdated by then was counted against a later episode; two tasks in TLC's
instance could not show it, three could.

### BackgroundProofs

- `OncePerOccurrence`: `IInv` has `Planned` and `Dated` (what a tick read and when), and as
  long as nothing was spoiled `Alone`, `SentBefore`, `Unsent`, `RowsAhead` and `EditsAhead`:
  what was sent is behind every row, every tick and every edit that may still be written.
- `RetryNeverOverlaps` and the refinement of `RollingBatch` assume `Calm`: the broker hands
  every message out once and `update_timeout_seconds` is not lowered mid-run. Each of the two
  breaks both: two slots then work on one run. `RolloutInv` is a token: a slot *drives* a run
  while it may still start it, work on it or go on behind it. `OneDriver`: whoever drives a
  run is the only slot about it, and about its batch when that is rolling; a batch whose run
  was closed by the watchdog has no driver until somebody stops it. `InPlace`: before a driven
  run everything is done with, behind it nothing has begun. `Fits` says for each stage of a
  task what it knows of its rows, whichever of them are deleted meanwhile; `Retried`, that a
  run and the one it retries are not both still to be started.
  Most steps only let go of what a slot holds, and `StepSettles` shows once that those keep the
  invariant; `ContinueSettles`, `SelectSettles` and `TriggerSettles` are about the steps that
  take something in hand.
- `RollsOutStep` maps every step to one of `RollingBatch`: a request to `Create`,
  `BeginUpdate` to `Start`, `EndUpdate` and `ReapCommit` (of a rolling batch one row runs) to
  `End`, `RebootAfterUpdate` to `Reboot`, `StopRollout` to `Stop`,
  `DeleteHoneypotAndRuns` to `Remove`, every other to a stutter. `OneBatchRollsOut` is the
  refinement for any one batch, `RollingBatchImplemented` what the run checks, all batches at
  once.

### FleetProofs

- `SharedKeyLogsIn`: `SshInv == SshTypeOK /\ LoginsArePure /\ InHandKeys /\ RollOut /\ LetIn`:
  every copy of a login that may be written back is pure (key if and only if the shared
  account), a task has a key in hand, what a roll-out reports was appended, and where the
  shared account is used the active key lets in.
- `SaveSettles`: `ConfigInv` with `SaveOrder` (what each step of a save has put down) and
  `AloneSave`, then `Settled`.
- `StoredIsTold`: `WatchInv` with `ChecksAlone`, `NothingUnwatched`, `RowsAreCurrent` and
  `WillBeTold`.
- `FactsOfThisAddress`: `RecordInv == Dialled /\ TrustedOnly`: what a job carries comes from a
  machine that was trusted when it dialled.
- `TunnelIsTheOneNamed`: while nothing odd happened, `InOrder`: what each handler has done
  (`Brought`, `Progress`) and has still to save. A `wg-quick down` that fails is no oddity for
  the first half: the interface that stays is the stored provider's (`OnRecord`). Which
  configuration it runs is claimed only without one.
- `OnlyPastIsPurged`: `PurgeInv` bounds the horizon of the chunks by every retention read.
- `TagsStick`: `TagsInv` with `LinksInHand` (a transaction has links of honeypots that exist,
  and takes off only those of the ones it is about) and, as long as no two overlapped,
  `ReadsHold` (what it read, and the tags it found unused, are so until it commits).
- `RollbackRestores`: `PackagesInv` with `TargetLoaded` (a rollback that runs holds the snapshot
  it goes back to, whatever became of its source) and `ComparedHolds` (what was compared is
  what is installed unless another run came between).
- `SuccessIsBack`: `InitializeInv` has `RunMatches` for every run: from the key it saw and the
  port it asked for to the script on that machine and to the machine it waits for.
- `ReferenceDataHolds`: `ReferenceInv` with `NumbersAreNew` (no reader and no row has the
  number of a download under way), `NumberTellsFile` (so the number stands for the file),
  `ChecksArePast` and `ListInHand`.
- `NothingLeftOpen`: `TerminalInv` with `Holds` (who holds a connection) and `Told` (which
  entries and recordings exist at which stage).

### What stays with TLC, and why

- Liveness (`EventuallyStored`, `EveryRunEnds`, `DueIsHandled`, `UpgradeEnds`,
  `PanelCatchesUp`): fairness is out of the prover's reach here.
- `OncePerOutage` and `OutageIsAnnounced` beside overlapping sweeps, `EachLineOnce` and
  `NothingSkipped` beside polls that overlap a rotation, `BatchRollsOut` and
  `RetryNeverOverlaps` with redelivery or a lowered timeout are not true: the assumptions and
  antecedents of the theorems are the ones TLC refutes the properties without.
- `AppUpdate`, `LiveUpdates` and `DatabaseMove` have only liveness properties or a refuted one.

## 5. Disagreements between code and documentation

Shown by a run that TLC refutes; `PROJECT.json` quotes the lines:

1. `rollout_pending`: a rolling batch whose current honeypot is deleted leaves the runs
   behind it pending for ever, although `jobs.py` promises the opposite.
2. `audit_purged_verify`: after any purge that leaves entries, `verify_chain` reports an
   undamaged log as broken, because it expects the first remaining entry to link to nothing.
3. `canary_moved`: a poll that overlaps the refresh which follows a changed log path leaves
   the old file's offset with the new path; the new log's beginning is skipped.
4. `rollback_others`: a rollback also takes back what later updates changed.
5. `watched_defaults`: a check that looks up the home directory replaces the list a person
   saves meanwhile with the default one.
6. `database_move`: a move that fails half-way leaves part of the data in the new database,
   and the next start runs on it.
7. `snapshot_day`: the day's snapshot counts the first ten minutes of the day.

Seen with the same modules under other constants, and excluded by a constant or by the
antecedent of a property in the passing runs:

- *Updates.* With `TimeoutMayShrink` the watchdog closes a live run, and a rolling batch
  works on two honeypots at once.
- *Audit log.* `created_at` is taken before the lock: its order is not the chain's, and a
  purge by time can leave a hole in the middle. `audit.py:4-7` says that every change is
  logged right after it; the API's create and edit of a honeypot commit, look the row up again
  and answer 404 without an entry when it is out of the account's scope by then.
- *Canary log.* Two polls store the same lines; two polls that overlap each other and a
  rotation may lose some. "A poll never re-parses a line it already saw" is also false of a
  path that is returned to, and when the later of two overlapping refreshes resets the
  offset. A rotated log that outgrows the old offset before the next poll is read from the
  middle.
- *Reachability.* Two sweeps, or one that dies between mail and commit, send "it's down"
  twice. "It's back" is sent for an outage whose "it's down" was withheld or lost, although
  `notifications.py:618-619` says it is only called when that one was "sent first". An outage
  that begins before the last recovery was due is not announced. An acknowledgement made during
  the sweep that finds the honeypot back survives it. A manual check changes `is_reachable` without the clocks.
- *Notices.* Two polls that cross each send within one window or lose counts; a death between
  sending and storing repeats a notice. A task that stores the dictionary with another kind's
  old entry makes that kind be announced again (`jobs.py:1152-1153` promises once). A rule two
  edits of which cross can be stored with the channel of one and the address of the other
  (`notification_rule.py:9` promises the like of a rule's scope: "never a mix of both, never
  zero"); `has_token` is asked regardless of the channel the token was typed for.
- *Scheduled tasks.* A tick that dies after sending, or overlaps another, enqueues a task
  twice; an edit that crosses a tick brings the old due time back.
- *Sign-in.* Parallel wrong answers count once, and parallel attempts use one recovery code
  twice. A saved policy does not hold "at once" even in the process that saved it
  (`session_policy.py:6-11`): a read under way stores the old one after `invalidate`. Nor does
  it hold in every process `_CACHE_TTL_SECONDS` later: a sign-in that waited for LDAP or the
  OpenID provider stores the row it had loaded before as a copy dated now.
- *Accounts.* Two superadmins who demote each other at the same time leave none.
- *Backups.* `scripts/reencrypt_secrets.py` names the columns it converts and lacks some
  of the encrypted ones; rows a full backup read before their company was deleted are restored
  without it.
- *Tags.* Two overlapping changes of tags: the deletion of a tag nobody uses cascades to a
  link committed meanwhile.
- *Watched files.* Crossing checks and a death between commit and entries lose an entry
  (`watched_files.py:3-6`).
- *Configuration.* Two saves that cross share the fixed paths in `/tmp`: one runs the other's
  script.
- *Edits of a honeypot.* A task that visited the old address stores after the edit. A company
  the editor is granted while the form lies open counts as offered and not ticked, and is
  detached, against `honeypots_detail.py:585-589`.
- *Onboarding.* A failed one-time attempt is to "restore this honeypot to what it was before"
  (`honeypots_detail.py:482-488`): a stored secret is not put back, and a web process that dies
  meanwhile restores nothing.
- *VPN.* "Mutually exclusive" (`app_settings.py:62-67`, `257-259`) fails when a request times
  out in the web process and is finished by the sidecar, or when the daemon carries out what a killed NetBird client asked
  for. After a `wg-quick down` that failed, the tunnel runs the old configuration while the
  settings hold the new one (`vpn_control_server.py:73-83`, `settings.py:1359-1369`).
- *Initialize.* A run counts as a success only because the reboot begins within the fifteen
  seconds of grace; a machine that answers on the new port before it went down is taken for
  one that came back.
- *Application update.* A check lists "what an upgrade would bring" (`self_update.py:159`)
  relative to the checkout's HEAD: after an upgrade that failed behind its pull it lists
  nothing although the old version runs. A request that was taken when the host goes down is
  lost.
- *Terminals.* The recording of a session whose honeypot is deleted meanwhile is lost.
- *Live updates.* The honeypot list does not poll (`live-list.js`): a lost doorbell leaves it
  as it is until the next one.
- *Reference data.* A reader sets `_checked_at` before it reads the row, so a failing read
  keeps an old reader for the whole interval; `refresh_geoip_now` beside a scheduled refresh
  fetches twice.

## 6. What is not modelled, and the plan

Out of scope: parsing of remote output, wording of mails, archive formats, lists and forms,
SQL filters, cryptographic protocols, the schema, the interactive setup scripts, the
per-address rate limit in Redis. Entries written before the hash chain existed and the syslog
mirror are left out of `AuditChain`; an acknowledgement's end time and several rules per
honeypot of `Reachability`; honeypots that announce themselves (`pending_honeypot.py`).
`PROJECT.json` names the reason for each component, and for each hazard that no property
covers.

Worth doing next: the liveness properties by hand-written leads-to chains, when a prover of
ENABLED is at hand; the type invariants of `AppUpdate` and `LiveUpdates`; two sweeps that
overlap, with the promise they can keep.
