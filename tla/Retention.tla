------------------------------- MODULE Retention -------------------------------
(***************************************************************************)
(* History and how long it is kept: the samples of the honeypots, each with  *)
(* a retention of its own or the general one, the events, the rows of the    *)
(* other tables with a retention (the audit log's purge is in AuditChain),   *)
(* and the snapshot of each day's events for the Dashboard. The purges       *)
(* delete in batches, oldest first; on TimescaleDB whole days are dropped    *)
(* first. A behaviour is about one table.                                    *)
(***************************************************************************)
EXTENDS Naturals, FiniteSets, FiniteSetsExt

CONSTANTS
    Sensors,
    None,       \* of a table that is not kept per honeypot; no snapshot
    Day,        \* the length of a day (and of a chunk), in clock units
    MaxClock,   \* bounds the clock
    Longest,    \* bounds what is set as a retention, in clock units; 0: for ever
    BatchSize,  \* _DELETE_BATCH_SIZE
    MaxRows,    \* bounds the rows there are at a time
    MaxOrders   \* bounds the settings saved, the purges begun and those killed

RetentionConstants ==
    /\ Day \in Nat \ {0} /\ MaxClock \in Nat /\ Longest \in Nat /\ MaxOrders \in Nat
    /\ None \notin Sensors

VARIABLES
    table,      \* the table the behaviour is about
    timescale,  \* the database has TimescaleDB
    clock,
    rows,       \* its rows
    keep,       \* its retention in AppSettings
    override,   \* Honeypot.monitoring_history_retention_days (0: not set)
    purge,      \* the purge that runs
    snapshot,   \* CompanySnapshot.event_count of each day
    steps

retentionVars == <<table, timescale, clock, rows, keep, override, purge, snapshot, steps>>

Logs == {"snapshots", "runs", "recordings", "notifications"}
Hypertables == {"samples", "events"}
Times == 0..MaxClock
DayOf(t) == t \div Day
Days == {DayOf(t) : t \in Times}
Kept == [honeypot : Sensors \cup {None}, at : Times]
Retentions == 0..Longest
NoPurge == [pc |-> "idle", now |-> 0, keep |-> 0, override |-> [h \in Sensors |-> 0]]

RetentionTypeOK ==
    /\ table \in Logs \cup Hypertables /\ timescale \in BOOLEAN /\ clock \in Times
    /\ rows \subseteq Kept /\ keep \in Retentions /\ override \in [Sensors -> Retentions]
    /\ purge \in [pc : {"idle", "chunks", "rows"}, now : Times, keep : Retentions,
                  override : [Sensors -> Retentions]]
    /\ snapshot \in [Days -> Nat \cup {None}] /\ steps \in 0..MaxOrders

RetentionInit ==
    /\ table \in Logs \cup Hypertables
    /\ timescale \in IF table \in Hypertables THEN BOOLEAN ELSE {FALSE}
    /\ clock = 0 /\ rows = {} /\ purge = NoPurge /\ steps = 0
    /\ keep \in IF table = "events" THEN 1..Longest ELSE Retentions
    /\ override = [h \in Sensors |-> 0]
    /\ snapshot = [d \in Days |-> None]

TimePasses == /\ clock < MaxClock /\ clock' = clock + 1
              /\ UNCHANGED <<table, timescale, rows, keep, override, purge, snapshot, steps>>

Order == steps < MaxOrders /\ steps' = steps + 1

-----------------------------------------------------------------------------
(* What is recorded, and the settings *)

\* A sample, an event, a run or a log line; a snapshot counts from its day.
Record(h) ==
    /\ (h = None) = (table # "samples") /\ Cardinality(rows) < MaxRows
    /\ LET at == IF table = "snapshots" THEN DayOf(clock) * Day ELSE clock
       IN rows' = rows \cup {[honeypot |-> h, at |-> at]}
    /\ UNCHANGED <<table, timescale, clock, keep, override, purge, snapshot, steps>>

\* Events are never kept for ever.
SaveRetention(days) ==
    /\ Order /\ days # keep
    /\ table = "events" => days > 0
    /\ keep' = days
    /\ UNCHANGED <<table, timescale, clock, rows, override, purge, snapshot>>

\* The same from the API.
ApiSaveRetention(days) == SaveRetention(days)

SaveOverride(h, days) ==
    /\ Order /\ table = "samples" /\ days # override[h]
    /\ override' = [override EXCEPT ![h] = days]
    /\ UNCHANGED <<table, timescale, clock, rows, keep, purge, snapshot>>

\* The samples go with their honeypot.
DropSensor(h) ==
    /\ Order /\ table = "samples"
    /\ rows' = {r \in rows : r.honeypot # h}
    /\ UNCHANGED <<table, timescale, clock, keep, override, purge, snapshot>>

-----------------------------------------------------------------------------
(* The purges *)

Chunked == timescale /\ table \in Hypertables

\* The settings and every honeypot's own retention are read once.
BeginPurge(of) ==
    /\ purge.pc = "idle" /\ table = of /\ Order
    /\ keep > 0 \/ of = "samples"
    /\ purge' = [pc |-> IF Chunked THEN "chunks" ELSE "rows", now |-> clock,
                 keep |-> keep, override |-> override]
    /\ UNCHANGED <<table, timescale, clock, rows, keep, override, snapshot>>

PurgeOldEvents == BeginPurge("events")
PurgeOldMonitoringSamples == BeginPurge("samples")
PurgeOldCompanySnapshots == BeginPurge("snapshots")
PurgeOldHoneypotUpdateRuns == BeginPurge("runs")
PurgeOldTerminalRecordings == BeginPurge("recordings")
PurgeOldNotificationLogs == BeginPurge("notifications")

\* The retention a row falls under, as the purge read it (override or general).
RetentionOf(h) ==
    IF h = None \/ purge.override[h] = 0 THEN purge.keep ELSE purge.override[h]

\* Mutant of Horizon: the shortest retention decides.
ShortestHorizon == Min({RetentionOf(h) : h \in Sensors})
\* Every honeypot's retention has passed beyond the longest of them, if all
\* have one.
Horizon ==
    IF table = "events" THEN purge.keep
    ELSE IF \E h \in Sensors : RetentionOf(h) = 0 THEN 0
    ELSE Max({RetentionOf(h) : h \in Sensors})

\* Of a day all of it is older, or none of it goes.
DropOldChunks ==
    /\ purge.pc = "chunks"
    /\ rows' = IF Horizon = 0 THEN rows
               ELSE {r \in rows : (DayOf(r.at) + 1) * Day + Horizon > purge.now}
    /\ purge' = [purge EXCEPT !.pc = "rows"]
    /\ UNCHANGED <<table, timescale, clock, keep, override, snapshot, steps>>

\* A snapshot has a date, and so has its cutoff.
Past(r) ==
    /\ RetentionOf(r.honeypot) > 0
    /\ IF table = "snapshots" THEN DayOf(r.at) + DayOf(RetentionOf(r.honeypot)) < DayOf(purge.now)
       ELSE r.at + RetentionOf(r.honeypot) < purge.now

Oldest(R) == {r \in R : Cardinality({o \in R : o.at < r.at}) < BatchSize}

\* The next batch, of one honeypot after the other, in a transaction of its own.
DeleteBatch(h) ==
    LET past == {r \in rows : r.honeypot = h /\ Past(r)}
    IN /\ purge.pc = "rows" /\ past # {}
       /\ \E batch \in SUBSET Oldest(past) :
             /\ Cardinality(batch) = Min({BatchSize, Cardinality(past)})
             /\ rows' = rows \ batch
       /\ UNCHANGED <<table, timescale, clock, keep, override, purge, snapshot, steps>>

\* Each honeypot's rows have been looked through: what came in since is newer.
EndPurge ==
    /\ purge.pc = "rows" /\ \A r \in rows : ~Past(r)
    /\ purge' = NoPurge
    /\ UNCHANGED <<table, timescale, clock, rows, keep, override, snapshot, steps>>

\* After task_time_limit, or with its worker.
PurgeKilled ==
    /\ purge.pc # "idle" /\ Order
    /\ purge' = NoPurge
    /\ UNCHANGED <<table, timescale, clock, rows, keep, override, snapshot>>

-----------------------------------------------------------------------------
(* The day's snapshot, which Beat has written at ten past midnight *)

EventsOn(d) == Cardinality({r \in rows : DayOf(r.at) = d})

RecordCompanySnapshots ==
    /\ table = "events" /\ clock % Day = 0
    /\ LET today == DayOf(clock)
       IN /\ snapshot[today] # EventsOn(today)
          /\ snapshot' = [snapshot EXCEPT ![today] = EventsOn(today)]
    /\ UNCHANGED <<table, timescale, clock, rows, keep, override, purge, steps>>

-----------------------------------------------------------------------------
RetentionNext ==
    \/ TimePasses \/ \E h \in Sensors \cup {None} : Record(h) \/ DeleteBatch(h)
    \/ \E days \in Retentions : SaveRetention(days) \/ ApiSaveRetention(days)
    \/ \E h \in Sensors : DropSensor(h) \/ \E days \in Retentions : SaveOverride(h, days)
    \/ PurgeOldEvents \/ PurgeOldMonitoringSamples \/ PurgeOldCompanySnapshots
    \/ PurgeOldHoneypotUpdateRuns \/ PurgeOldTerminalRecordings \/ PurgeOldNotificationLogs
    \/ DropOldChunks \/ EndPurge \/ PurgeKilled
    \/ RecordCompanySnapshots
RetentionSpec == RetentionInit /\ [][RetentionNext]_retentionVars

-----------------------------------------------------------------------------
\* What a purge deletes was past the retention it read, in whole days for the
\* days TimescaleDB drops too, whatever is recorded or set meanwhile; a
\* honeypot whose samples are kept for ever loses none.
OnlyPastIsPurged ==
    [][purge.pc # "idle" /\ UNCHANGED steps => \A r \in rows \ rows' : Past(r)]_retentionVars

\* The snapshot of a day that is over counts that day's events
\* (celery_app.py:262-270, "roll yesterday's per-company counts into
\* CompanySnapshot").
CountsTheDay ==
    \A d \in Days : d < DayOf(clock) /\ snapshot[d] # None => snapshot[d] = EventsOn(d)

=============================================================================
