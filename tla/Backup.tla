-------------------------------- MODULE Backup --------------------------------
(***************************************************************************)
(* The copies of the whole application: the full backup an administrator    *)
(* downloads and the one the worker writes every so many hours              *)
(* (services/full_backup.py, services/auto_backup.py), both restored by the *)
(* application itself, and the dump of scripts/backup.sh, which             *)
(* scripts/restore.sh loads while the application is stopped.               *)
(*                                                                         *)
(* Of the database there are companies, honeypots that refer to one, the    *)
(* keys its stored secrets are encrypted under, and the settings of the     *)
(* automatic backup. A statement sees what is committed when it begins      *)
(* (READ COMMITTED), so a backup reads its tables at different moments.     *)
(* Two automatic backups begin in different seconds: their files differ.    *)
(***************************************************************************)
EXTENDS Naturals, SequencesExt

CONSTANTS
    StoredCompanies, StoredHoneypots,
    Keys,          \* values of ENCRYPTION_KEY
    BackupTasks,   \* Celery tasks and requests that write a backup
    Nothing,       \* no backup, no dump
    Keep,          \* auto_backup_keep
    MaxActs        \* bounds what people do and the workers that die

BackupConstants == Keep \in Nat /\ MaxActs \in Nat

VARIABLES
    rows,      \* the database
    key,       \* ENCRYPTION_KEY of this instance's .env
    up,        \* the containers of the application run
    task,      \* the backups being written
    stored,    \* the files of the backup directory, oldest first
    copy,      \* the full backup somebody keeps elsewhere
    dump,      \* the directory of scripts/backup.sh
    loading,   \* the dump scripts/restore.sh has loaded, its .env not yet replaced
    mixed,     \* restore.sh once died there: the database and .env were of two
               \* instances, and so may be what was copied since
    acts

backupVars == <<rows, key, up, task, stored, copy, dump, loading, mixed, acts>>
host == <<key, up, dump, loading, mixed>>

\* recent: auto_backup_last_at lies less than the interval back.
AutoBackup == [on : BOOLEAN, passphrase : BOOLEAN, recent : BOOLEAN]
Honeypot == [id : StoredHoneypots, company : StoredCompanies]
Rows == [companies : SUBSET StoredCompanies, honeypots : SUBSET Honeypot,
         sealed : SUBSET Keys, auto : AutoBackup]
Archives == [rows : Rows, key : Keys]

NoAuto == [on |-> FALSE, passphrase |-> FALSE, recent |-> FALSE]
Installed(k) == [companies |-> {}, honeypots |-> {}, sealed |-> {k}, auto |-> NoAuto]
NotWriting == [pc |-> "idle", kind |-> "auto", rows |-> Nothing]

BackupTypeOK ==
    /\ rows \in Rows /\ key \in Keys /\ up \in BOOLEAN
    /\ \A t \in BackupTasks : task[t].rows \in Rows \cup {Nothing}
    /\ Len(stored) <= Keep /\ ToSet(stored) \subseteq Archives
    /\ {copy, dump, loading} \subseteq Archives \cup {Nothing}
    /\ mixed \in BOOLEAN /\ acts \in 0..MaxActs

BackupInit ==
    /\ key \in Keys /\ rows = Installed(key) /\ up = TRUE
    /\ task = [t \in BackupTasks |-> NotWriting]
    /\ stored = <<>> /\ copy = Nothing /\ dump = Nothing
    /\ loading = Nothing /\ mixed = FALSE /\ acts = 0

Acts == acts < MaxActs /\ acts' = acts + 1

-----------------------------------------------------------------------------
(* What people change meanwhile; a secret is stored under this instance's key. *)

WriteRows(new) ==
    /\ up /\ Acts /\ new # rows
    /\ rows' = [new EXCEPT !.sealed = @ \cup {key}]
    /\ UNCHANGED <<task, stored, copy, host>>

AddCompany(c) == WriteRows([rows EXCEPT !.companies = @ \cup {c}])
\* The honeypots of a company go with it.
DropCompany(c) == WriteRows([rows EXCEPT !.companies = @ \ {c},
                                         !.honeypots = {h \in @ : h.company # c}])
AddHoneypot(h) ==
    h.company \in rows.companies /\ (\A o \in rows.honeypots : o.id # h.id) /\
    WriteRows([rows EXCEPT !.honeypots = @ \cup {h}])

\* A passphrase that was given stays; without one there is nothing to switch on.
SaveAutoBackup(on, given) ==
    /\ on => given \/ rows.auto.passphrase
    /\ WriteRows([rows EXCEPT !.auto.on = on, !.auto.passphrase = @ \/ given])
UpdateAutoBackupApi(on, given) == SaveAutoBackup(on, given)

IntervalPasses ==
    /\ rows.auto.recent
    /\ rows' = [rows EXCEPT !.auto.recent = FALSE]
    /\ UNCHANGED <<task, stored, copy, host, acts>>

-----------------------------------------------------------------------------
(* Writing a backup *)

BeginBackup(t, kind) ==
    /\ up /\ task[t].pc = "idle"
    /\ task' = [task EXCEPT ![t] = [pc |-> "companies", kind |-> kind, rows |-> rows]]
    /\ UNCHANGED <<rows, stored, copy, host>>

IsDue == rows.auto.on /\ rows.auto.passphrase /\ ~rows.auto.recent

\* Beat's task when a backup is due, or "Back up now" (force), which asks for
\* the passphrase alone.
RunDueAppBackup(t) == IsDue /\ BeginBackup(t, "auto") /\ UNCHANGED acts
RunBackupNow(t) == rows.auto.passphrase /\ BeginBackup(t, "auto") /\ Acts
DownloadFullBackup(t) == BeginBackup(t, "download") /\ Acts
\* The same from the API.
RunAutoBackupApi(t) == RunBackupNow(t)
FullBackupApi(t) == DownloadFullBackup(t)

\* One statement per table, parents first; each sees what is committed by then.
ReadCompanies(t) ==
    /\ task[t].pc = "companies"
    /\ task' = [task EXCEPT ![t].pc = "honeypots", ![t].rows = rows]
    /\ UNCHANGED <<rows, stored, copy, host, acts>>
ReadHoneypots(t) ==
    /\ task[t].pc = "honeypots"
    /\ task' = [task EXCEPT ![t].pc = "writing", ![t].rows.honeypots = rows.honeypots]
    /\ UNCHANGED <<rows, stored, copy, host, acts>>

\* All but the newest of the files go.
Prune(files) == SubSeq(files, Len(files) - Keep + 1, Len(files))

\* The manifest carries the key. A stored backup gets its name, the old ones
\* go, and the settings note when.
WriteBackup(t) ==
    LET file == [rows |-> task[t].rows, key |-> key]
    IN /\ task[t].pc = "writing"
       /\ task' = [task EXCEPT ![t] = NotWriting]
       /\ IF task[t].kind = "download" THEN copy' = file /\ UNCHANGED <<rows, stored>>
          ELSE /\ stored' = IF Len(stored) < Keep THEN Append(stored, file)
                            ELSE Prune(Append(stored, file))
               /\ rows' = [rows EXCEPT !.auto.recent = TRUE]
               /\ UNCHANGED copy
       /\ UNCHANGED <<host, acts>>

\* The disk is full: the unfinished file is removed and the failure noted, as
\* the time of this backup.
BackupFails(t) ==
    /\ task[t].pc # "idle"
    /\ task' = [task EXCEPT ![t] = NotWriting]
    /\ rows' = IF task[t].kind = "auto" THEN [rows EXCEPT !.auto.recent = TRUE] ELSE rows
    /\ UNCHANGED <<stored, copy, host, acts>>

\* A worker is killed: its .part file is listed nowhere and stays.
WorkerDies(t) ==
    /\ task[t].pc # "idle" /\ Acts
    /\ task' = [task EXCEPT ![t] = NotWriting]
    /\ UNCHANGED <<rows, stored, copy, host>>

\* Somebody takes a stored backup away, or deletes it.
DownloadStored(i) ==
    /\ up /\ copy # stored[i]
    /\ copy' = stored[i]
    /\ UNCHANGED <<rows, task, stored, host, acts>>
DeleteStored(i) ==
    /\ up /\ Acts
    /\ stored' = RemoveAt(stored, i)
    /\ UNCHANGED <<rows, task, copy, host>>
DownloadStoredApi(i) == DownloadStored(i)
DeleteStoredApi(i) == DeleteStored(i)

-----------------------------------------------------------------------------
(* Restoring a full backup: one transaction, which waits (TRUNCATE) for every
   backup that is still reading. *)

\* Mutant of Restored: secrets are taken over as they are.
RestoredAsIs(b) == b.rows
Restored(b) ==
    [b.rows EXCEPT !.sealed = IF b.key # key /\ @ # {} THEN {key} ELSE @]

\* A secret that the backup's own key does not open stops it before the commit.
Opens(b) == b.key = key \/ b.rows.sealed \subseteq {b.key}

RestoreFullBackup(b) ==
    /\ up /\ \A t \in BackupTasks : task[t].pc = "idle"
    /\ b # Nothing /\ Acts
    /\ Opens(b)
    /\ rows' = Restored(b)
    /\ UNCHANGED <<task, stored, copy, host>>

-----------------------------------------------------------------------------
(* The host *)

\* pg_dump sees one moment; the .env is copied next to it.
BackupScript ==
    /\ up /\ Acts
    /\ dump' = [rows |-> rows, key |-> key]
    /\ UNCHANGED <<rows, task, stored, copy, key, up, loading, mixed>>

\* The host is lost: a new installation has a key of its own, and what was
\* copied off the old one.
Reinstall(k) ==
    /\ Acts
    /\ key' = k /\ rows' = Installed(k) /\ up' = TRUE
    /\ task' = [t \in BackupTasks |-> NotWriting] /\ stored' = <<>>
    /\ loading' = Nothing
    /\ UNCHANGED <<copy, dump, mixed>>

\* restore.sh stops the application and loads the dump,
RestoreScript ==
    /\ dump # Nothing /\ loading = Nothing /\ Acts
    /\ up' = FALSE /\ rows' = dump.rows /\ loading' = dump
    /\ task' = [t \in BackupTasks |-> NotWriting]
    /\ UNCHANGED <<stored, copy, key, dump, mixed>>

\* then replaces .env and starts it.
ReplaceEnv ==
    /\ loading # Nothing
    /\ key' = loading.key /\ up' = TRUE /\ loading' = Nothing
    /\ UNCHANGED <<rows, task, stored, copy, dump, mixed, acts>>

\* It is cut short there, and somebody starts the application.
RestoreScriptDies ==
    /\ loading # Nothing
    /\ up' = TRUE /\ loading' = Nothing /\ mixed' = (mixed \/ loading.key # key)
    /\ UNCHANGED <<rows, task, stored, copy, key, dump, acts>>

-----------------------------------------------------------------------------
AtWork ==
    \/ \E c \in StoredCompanies : AddCompany(c) \/ DropCompany(c)
    \/ \E h \in Honeypot : AddHoneypot(h)
    \/ \E on, given \in BOOLEAN : SaveAutoBackup(on, given) \/ UpdateAutoBackupApi(on, given)
    \/ \E i \in DOMAIN stored :
          DownloadStored(i) \/ DeleteStored(i) \/ DownloadStoredApi(i) \/ DeleteStoredApi(i)
    \/ RestoreFullBackup(copy)
BackingUp(t) ==
    \/ RunDueAppBackup(t) \/ RunBackupNow(t) \/ DownloadFullBackup(t)
    \/ RunAutoBackupApi(t) \/ FullBackupApi(t)
    \/ ReadCompanies(t) \/ ReadHoneypots(t)
    \/ WriteBackup(t) \/ BackupFails(t) \/ WorkerDies(t)
Scripts ==
    \/ BackupScript \/ RestoreScript \/ ReplaceEnv \/ RestoreScriptDies
    \/ \E k \in Keys : Reinstall(k)
BackupNext == AtWork \/ IntervalPasses \/ (\E t \in BackupTasks : BackingUp(t)) \/ Scripts
BackupSpec == BackupInit /\ [][BackupNext]_backupVars

-----------------------------------------------------------------------------
\* Every secret in the database opens with the key in .env, whichever backups
\* of whichever instance were restored, unless scripts/restore.sh was once cut
\* short between the database and .env (full_backup.py, module comment: "secrets
\* re-encrypted if the keys differ").
SecretsOpen == up /\ ~mixed => rows.sealed \subseteq {key}

=============================================================================
