--------------------------- MODULE ReferenceData ---------------------------
(***************************************************************************)
(* The reference data the application downloads: the GeoIP database          *)
(* (app/services/geoip.py), which every process reads through a reader of    *)
(* its own, and the list of MAC manufacturers (app/services/mac_vendors.py). *)
(* Both are fetched by the schedule and by "Download now", so two downloads  *)
(* of one thing can be under way at once.                                    *)
(*                                                                           *)
(* A file is the number of the edition its site had when it was fetched: the *)
(* two GeoIP addresses and the list's each serve the current edition. Two    *)
(* editions of the list have a prefix in common, so rows of both break the   *)
(* table's key. A commit writes the columns that differ from those read.     *)
(***************************************************************************)
EXTENDS Integers, FiniteSets

CONSTANTS
    Downloads,    \* downloads under way at one time
    Processes,    \* processes that look addresses up
    Nothing,      \* no database, no reader, no edition
    Recheck,      \* _RECHECK_INTERVAL
    Interval,     \* mac_vendor_refresh_interval_hours
    MaxHours, MaxEditions, MaxPulls   \* bounds: time, editions, downloads and failures

VARIABLES
    edition,      \* the edition the sites serve
    enabled,      \* geoip_enabled, with at least a primary address
    geo,          \* the GeoipDatabase row: the file, which download wrote it, its error
    changedAt,    \* when the stored file last became another one
    vendors,      \* the editions that rows of the manufacturers' table are from
    attempted,    \* mac_vendor_list_attempted_at; Nothing before the first
    download,     \* download -> where it is
    reader,       \* process -> its reader and what it knows of the row (_ReaderCache)
    hour, pulls

referenceVars == <<edition, enabled, geo, changedAt, vendors, attempted, download, reader,
                   hour, pulls>>

Editions == 1 .. MaxEditions
Files == Editions \cup {Nothing}
Dates == 0 .. MaxHours
NoRow == [file |-> Nothing, by |-> 0, failed |-> FALSE]
NoDownload == [pc |-> "idle", had |-> NoRow, from |-> Nothing, number |-> 0, at |-> 0,
               sees |-> {}]
NoReader == [file |-> Nothing, by |-> 0, checked |-> Nothing, asking |-> FALSE,
             broken |-> FALSE]

Rows == [file : Files, by : 0 .. MaxPulls, failed : BOOLEAN]

DownloadRecord == [pc : {"idle", "primary", "backup", "write", "list", "delete", "insert"},
                   had : Rows, from : Files, number : 0 .. MaxPulls,
                   at : Dates, sees : SUBSET Editions]
ReaderRecord == [file : Files, by : 0 .. MaxPulls, checked : Dates \cup {Nothing},
                 asking : BOOLEAN, broken : BOOLEAN]

ReferenceConstants ==
    /\ Nothing \notin Dates \cup Editions
    /\ Recheck \in Nat /\ Interval \in Nat
    /\ MaxHours \in Nat /\ MaxEditions \in Nat \ {0} /\ MaxPulls \in Nat

ReferenceTypeOK ==
    /\ edition \in Editions /\ enabled \in BOOLEAN
    /\ geo \in Rows /\ changedAt \in Dates
    /\ vendors \subseteq Editions /\ attempted \in Dates \cup {Nothing}
    /\ download \in [Downloads -> DownloadRecord]
    /\ reader \in [Processes -> ReaderRecord]
    /\ hour \in Dates /\ pulls \in 0 .. MaxPulls

ReferenceInit ==
    /\ edition = 1 /\ enabled = TRUE
    /\ geo = NoRow /\ changedAt = 0
    /\ vendors = {} /\ attempted = Nothing
    /\ download = [d \in Downloads |-> NoDownload]
    /\ reader = [p \in Processes |-> NoReader]
    /\ hour = 0 /\ pulls = 0

-----------------------------------------------------------------------------
\* The GeoIP database

GeoOnly == UNCHANGED <<edition, enabled, vendors, attempted, reader, hour>>

\* The task (scheduled, or behind "Download now") reads the row; when GeoIP is
\* not enabled it does nothing.
BeginGeoip(d) ==
    /\ download[d].pc = "idle" /\ pulls < MaxPulls
    /\ enabled
    /\ pulls' = pulls + 1
    /\ download' = [download EXCEPT ![d] =
          [NoDownload EXCEPT !.pc = "primary", !.had = geo, !.number = pulls + 1]]
    /\ UNCHANGED <<geo, changedAt>> /\ GeoOnly

\* A file that is fetched, unpacked and opened as a database.
Fetch(d) ==
    /\ download[d].pc \in {"primary", "backup"}
    /\ download' = [download EXCEPT ![d].pc = "write", ![d].from = edition]
    /\ UNCHANGED <<geo, changedAt, pulls>> /\ GeoOnly

\* Only when the first address fails the second one is tried; when both fail
\* the error is recorded and the stored file stays.
FetchFails(d) ==
    /\ download[d].pc \in {"primary", "backup"} /\ pulls < MaxPulls
    /\ pulls' = pulls + 1
    /\ download' = [download EXCEPT ![d] =
          IF @.pc = "primary" THEN [@ EXCEPT !.pc = "backup"] ELSE NoDownload]
    /\ geo' = IF download[d].pc = "backup" /\ ~download[d].had.failed
              THEN [geo EXCEPT !.failed = TRUE] ELSE geo
    /\ UNCHANGED changedAt /\ GeoOnly

\* The row a download leaves: its number always, the file and the error where
\* they differ from those it had read.
RowWritten(d) ==
    [file |-> IF download[d].from # download[d].had.file THEN download[d].from ELSE geo.file,
     by |-> download[d].number,
     failed |-> IF download[d].had.failed THEN FALSE ELSE geo.failed]

StoreGeoip(d) ==
    /\ download[d].pc = "write"
    /\ geo' = RowWritten(d)
    /\ changedAt' = IF RowWritten(d).file # geo.file THEN hour ELSE changedAt
    /\ download' = [download EXCEPT ![d] = NoDownload]
    /\ UNCHANGED pulls /\ GeoOnly

-----------------------------------------------------------------------------
\* The readers (_ReaderCache.get)

ReaderOnly == UNCHANGED <<edition, enabled, geo, changedAt, vendors, attempted, download, hour>>

ReaderTrusted(p) == reader[p].checked # Nothing /\ hour - reader[p].checked < Recheck

\* The check is dated before the row is asked for: whoever looks an address up
\* meanwhile uses the reader as it is.
AskRow(p) ==
    /\ ~ReaderTrusted(p)
    /\ reader' = [reader EXCEPT ![p] =
          [@ EXCEPT !.checked = hour, !.asking = TRUE, !.broken = FALSE]]
    /\ UNCHANGED pulls /\ ReaderOnly

\* The reader is kept while the row's date is the one it was built from.
ReaderFor(r, row) ==
    IF row.file = Nothing THEN [r EXCEPT !.file = Nothing, !.by = 0]
    ELSE IF r.file # Nothing /\ row.by = r.by THEN r
    ELSE [r EXCEPT !.file = row.file, !.by = row.by]

GetReader(p) ==
    /\ reader[p].asking
    /\ reader' = [reader EXCEPT ![p] = [ReaderFor(@, geo) EXCEPT !.asking = FALSE]]
    /\ UNCHANGED pulls /\ ReaderOnly

\* The database does not answer: the date of the check stands.
AskFails(p) ==
    /\ reader[p].asking /\ pulls < MaxPulls
    /\ pulls' = pulls + 1
    /\ reader' = [reader EXCEPT ![p].asking = FALSE, ![p].broken = TRUE]
    /\ ReaderOnly

-----------------------------------------------------------------------------
\* The list of manufacturers

ListOnly == UNCHANGED <<edition, enabled, geo, changedAt, reader, hour>>

IsDue == attempted # Nothing => hour - attempted >= Interval

FetchList(d) ==
    /\ download[d].pc = "idle" /\ pulls < MaxPulls
    /\ pulls' = pulls + 1
    /\ download' = [download EXCEPT ![d] =
          [NoDownload EXCEPT !.pc = "list", !.from = edition, !.at = hour]]
    /\ UNCHANGED <<vendors, attempted>> /\ ListOnly

\* The hourly task downloads when the interval has passed; "Download now" always.
RefreshIfDue(d) == IsDue /\ FetchList(d)
RefreshListNow(d) == FetchList(d)

\* Not downloaded, or too short to be a list: the attempt is recorded.
ListFails(d) ==
    /\ download[d].pc = "list" /\ pulls < MaxPulls
    /\ pulls' = pulls + 1
    /\ attempted' = download[d].at
    /\ download' = [download EXCEPT ![d] = NoDownload]
    /\ UNCHANGED vendors /\ ListOnly

\* DELETE: it goes over the rows committed when it begins ...
DeleteList(d) ==
    /\ download[d].pc = "list"
    /\ download' = [download EXCEPT ![d].pc = "delete", ![d].sees = vendors]
    /\ UNCHANGED <<vendors, attempted, pulls>> /\ ListOnly

\* ... and waits for another transaction that has deleted one of them.
Locks(d) == download[d].sees \cap vendors

LockRows(d) ==
    /\ download[d].pc = "delete"
    /\ \A e \in Downloads : download[e].pc = "insert" => Locks(e) \cap Locks(d) = {}
    /\ download' = [download EXCEPT ![d].pc = "insert"]
    /\ UNCHANGED <<vendors, attempted, pulls>> /\ ListOnly

\* INSERT and commit: rows another refresh has committed meanwhile are in the
\* way, and then the whole transaction is undone.
LeftBy(d) == vendors \ download[d].sees

\* Mutant of InTheWay: the table has no key.
NothingInTheWay(d) == FALSE

\* The prefix is the table's primary key.
InTheWay(d) == LeftBy(d) # {}

ReplaceList(d) ==
    /\ download[d].pc = "insert"
    /\ IF InTheWay(d)
       THEN UNCHANGED <<vendors, attempted>>
       ELSE vendors' = LeftBy(d) \cup {download[d].from} /\ attempted' = download[d].at
    /\ download' = [download EXCEPT ![d] = NoDownload]
    /\ UNCHANGED pulls /\ ListOnly

-----------------------------------------------------------------------------
NewEdition ==
    /\ edition < MaxEditions
    /\ edition' = edition + 1
    /\ UNCHANGED <<enabled, geo, changedAt, vendors, attempted, download, reader, hour, pulls>>

\* update_geoip_settings switches the downloads on and off; the file stays.
SwitchGeoip ==
    /\ enabled' = ~enabled
    /\ UNCHANGED <<edition, geo, changedAt, vendors, attempted, download, reader, hour, pulls>>

Tick ==
    /\ hour < MaxHours
    /\ hour' = hour + 1
    /\ UNCHANGED <<edition, enabled, geo, changedAt, vendors, attempted, download, reader,
                   pulls>>

GeoNext ==
    \/ \E d \in Downloads : BeginGeoip(d) \/ Fetch(d) \/ FetchFails(d) \/ StoreGeoip(d)
    \/ \E p \in Processes : AskRow(p) \/ GetReader(p) \/ AskFails(p)
    \/ SwitchGeoip

ListNext ==
    \E d \in Downloads :
        \/ RefreshIfDue(d) \/ RefreshListNow(d) \/ ListFails(d)
        \/ DeleteList(d) \/ LockRows(d) \/ ReplaceList(d)

ReferenceNext == GeoNext \/ ListNext \/ NewEdition \/ Tick

ReferenceSpec == ReferenceInit /\ [][ReferenceNext]_referenceVars

-----------------------------------------------------------------------------
\* However refreshes of the list overlap, the table holds one edition, never
\* rows of two (refresh_vendor_list: delete and insert in one transaction).
ListIsOneDownload == Cardinality(vendors) <= 1

\* A trusted reader holds the stored file, or the file became another one
\* since the reader was checked: a new database is noticed within Recheck of
\* its download. While the row is being asked for, and after the database did
\* not answer, the date of the check stands for a look that did not happen.
ReaderIsCurrent ==
    \A p \in Processes :
        ReaderTrusted(p) /\ ~reader[p].asking /\ ~reader[p].broken /\ reader[p].file # geo.file
            => changedAt >= reader[p].checked

\* The list is one edition, and a reader that was just checked is of the
\* GeoIP database stored.
ReferenceDataHolds == ListIsOneDownload /\ ReaderIsCurrent

=============================================================================
