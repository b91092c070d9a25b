----------------------------- MODULE DatabaseMove -----------------------------
(***************************************************************************)
(* Moving the data between the two bundled databases, PostgreSQL and        *)
(* TimescaleDB (scripts/switch_db.sh, scripts/db_import.sh). The import runs *)
(* before the application at every start: it empties the tables of the      *)
(* database in use, copies them from the other one's volume, each in a      *)
(* transaction of its own and in the order of their names, sets the         *)
(* sequences, and marks the other volume as moved.                          *)
(***************************************************************************)
EXTENDS Naturals

CONSTANTS
    Last,         \* the tables are 1..Last in the order of their names; the
                  \* sequences, set at the end, count as one
    Users,        \* the table that tells whether anybody uses a database
    MaxWrites,    \* bounds what the application writes
    MaxFailures   \* bounds the imports that fail

Services == {"db", "timescaledb"}
Other(s) == CHOOSE o \in Services : o # s

VARIABLES
    profile,    \* the database COMPOSE_PROFILES names
    volume,     \* of each: the last write each table holds (0: empty), whether the
                \* volume was ever used, is marked as moved, and has a postmaster.pid
    app,        \* "up", "stopped", "starting", "importing", or "failed"
    copied,     \* the tables the import has copied so far
    written,    \* the writes of the application
    failures

vars == <<profile, volume, app, copied, written, failures>>

Tables == 1..Last
Volume == [rows : [Tables -> 0..MaxWrites], used : BOOLEAN, moved : BOOLEAN, pid : BOOLEAN]
Bare == [rows |-> [t \in Tables |-> 0], used |-> FALSE, moved |-> FALSE, pid |-> FALSE]

TypeOK ==
    /\ profile \in Services /\ volume \in [Services -> Volume]
    /\ app \in {"up", "stopped", "starting", "importing", "failed"}
    /\ copied \in 0..Last /\ written \in 0..MaxWrites /\ failures \in 0..MaxFailures

Source == volume[Other(profile)]
Target == volume[profile]

Init ==
    /\ profile \in Services
    /\ volume = [s \in Services |-> IF s = profile THEN [Bare EXCEPT !.used = TRUE] ELSE Bare]
    /\ app = "up" /\ copied = 0 /\ written = 0 /\ failures = 0

\* The application writes: at first its accounts, and all the rest.
Write ==
    /\ app = "up" /\ written < MaxWrites
    /\ written' = written + 1
    /\ volume' = [volume EXCEPT ![profile].rows = [t \in Tables |-> written + 1]]
    /\ UNCHANGED <<profile, app, copied, failures>>

\* switch_db.sh: the application stops, the profile changes, the database it
\* leaves is shut down and the stack is started on the other.
SwitchDb ==
    /\ app \in {"up", "failed"}
    /\ profile' = Other(profile)
    /\ volume' = [volume EXCEPT ![profile].pid = FALSE, ![Other(profile)].used = TRUE]
    /\ app' = "starting" /\ copied' = 0
    /\ UNCHANGED <<written, failures>>

\* The stack is stopped, or started again (the import-from-* service first).
Stop ==
    /\ app \in {"up", "failed"}
    /\ app' = "stopped"
    /\ UNCHANGED <<profile, volume, copied, written, failures>>
Start ==
    /\ app \in {"stopped", "failed"}
    /\ app' = "starting" /\ copied' = 0
    /\ UNCHANGED <<profile, volume, written, failures>>

-----------------------------------------------------------------------------
(* db_import.sh *)

\* Nothing to move: no other volume, or one that was moved before.
NothingToMove ==
    /\ app = "starting"
    /\ ~Source.used \/ Source.moved
    /\ app' = "up"
    /\ UNCHANGED <<profile, volume, copied, written, failures>>

\* The other database was not shut down cleanly.
Refuse ==
    /\ app = "starting" /\ Source.used /\ ~Source.moved /\ Source.pid
    /\ app' = "failed"
    /\ UNCHANGED <<profile, volume, copied, written, failures>>

Mine == Target.rows[Users] # 0 /\ ~Target.moved

\* HONEYPOTSHELF_DB_IMPORT_FORCE passes over the postmaster.pid.
Look(force) == app = "starting" /\ Source.used /\ ~Source.moved /\ (~Source.pid \/ force)

\* Both hold data and neither was moved: the one in use stays as it is.
KeepMine(force) ==
    /\ Look(force) /\ Mine
    /\ app' = "up" /\ volume' = [volume EXCEPT ![Other(profile)].pid = FALSE]
    /\ UNCHANGED <<profile, copied, written, failures>>

\* Every table is emptied; the old database runs in the import's container.
Truncate(force) ==
    /\ Look(force) /\ ~Mine
    /\ app' = "importing"
    /\ volume' = [volume EXCEPT ![profile].rows = [t \in Tables |-> 0], ![Other(profile)].pid = TRUE]
    /\ UNCHANGED <<profile, copied, written, failures>>

CopyTable ==
    /\ app = "importing" /\ copied < Last
    /\ copied' = copied + 1
    /\ volume' = [volume EXCEPT ![profile].rows[copied + 1] = Source.rows[copied + 1]]
    /\ UNCHANGED <<profile, app, written, failures>>

\* The markers: the old volume was moved, the new one counts again.
Mark ==
    /\ app = "importing" /\ copied = Last
    /\ volume' = [volume EXCEPT ![Other(profile)].moved = TRUE, ![Other(profile)].pid = FALSE,
                                ![profile].moved = FALSE]
    /\ app' = "up"
    /\ UNCHANGED <<profile, copied, written, failures>>

\* A statement fails (the trap stops the old database), or the host goes down.
ImportFails ==
    /\ app = "importing" /\ failures < MaxFailures
    /\ failures' = failures + 1 /\ app' = "failed"
    /\ \E pid \in BOOLEAN : volume' = [volume EXCEPT ![Other(profile)].pid = pid]
    /\ UNCHANGED <<profile, copied, written>>

Next ==
    \/ Write \/ SwitchDb \/ Stop \/ Start
    \/ NothingToMove \/ Refuse \/ CopyTable \/ Mark \/ ImportFails
    \/ \E force \in BOOLEAN : KeepMine(force) \/ Truncate(force)
Spec == Init /\ [][Next]_vars

-----------------------------------------------------------------------------
\* The application never runs on part of the data: every table of its database
\* holds the last write (db_import.sh:27-29, "A failure leaves the new database
\* as `migrate` left it and the old one untouched, and stops the stack from
\* starting").
NeverOnPartOfIt == app = "up" => \A t \in Tables : Target.rows[t] = written

=============================================================================
