---------------------------- MODULE WatchedFiles -----------------------------
(***************************************************************************)
(* The files watched for changes on one honeypot (services/watched_files.py, *)
(* tasks/jobs.py _check_watched_files, routes/honeypots_files.py). A check   *)
(* loads the list, gives a honeypot whose list nobody edited the default     *)
(* one, reads every file over SSH, stores the readings in one commit and     *)
(* only then writes what changed to the audit log. A person may save another *)
(* list at any time, and a second check may run beside the first.            *)
(***************************************************************************)
EXTENDS Naturals

CONSTANTS
    Defaults, KeysFile,   \* DEFAULT_PATHS; the login account's authorized_keys
    Contents, NoContent,  \* contents of a file; none stored
    Checks,               \* checks under way at once
    MaxChecks,            \* bounds the checks that begin
    MaxFileChanges,       \* bounds the changes of files
    MaxLists              \* bounds the lists saved

VARIABLES
    file,        \* file[p]: what is on the honeypot
    watched,     \* watched[p]: the honeypot_watched_files row of the path
    customized,  \* honeypots.watched_files_customized
    check,       \* the running checks
    starts, edits, listSaves,
    lastTold,    \* history: the content the audit log last told of, or that of
                 \* the baseline
    asked,       \* history: the list last saved by a person
    upset        \* history: a check crossed another, or died before it told

watchVars == <<file, watched, customized, check, starts, edits, listSaves, lastTold, asked, upset>>
world == <<file, edits>>
list == <<watched, customized, asked, listSaves>>

Paths == Defaults \cup {KeysFile}
Unread == {"missing", "unreadable"}  \* too large counts as unreadable

\* A content is told from none and from a file that could not be read.
WatchConstants ==
    /\ NoContent \notin Contents \cup Unread /\ Contents \cap Unread = {}
    /\ MaxChecks \in Nat /\ MaxFileChanges \in Nat /\ MaxLists \in Nat

Entry == [here : BOOLEAN, state : {"pending", "ok"} \cup Unread,
          content : Contents \cup {NoContent}]
Absent == [here |-> FALSE, state |-> "pending", content |-> NoContent]
Pending == [Absent EXCEPT !.here = TRUE]
Check == [pc : {"idle", "home", "read", "store", "tell"}, rows : [Paths -> Entry],
          found : [Paths -> Unread \cup Contents \cup {NoContent}],
          lost : BOOLEAN,        \* a row it loaded has been deleted
          todo : SUBSET Paths]   \* changes still to be told
NoCheck == [pc |-> "idle", rows |-> [p \in Paths |-> Absent],
            found |-> [p \in Paths |-> NoContent], lost |-> FALSE, todo |-> {}]

WatchTypeOK ==
    /\ file \in [Paths -> Unread \cup Contents]
    /\ watched \in [Paths -> Entry]
    /\ customized \in BOOLEAN
    /\ check \in [Checks -> Check]
    /\ starts \in 0..MaxChecks /\ edits \in 0..MaxFileChanges /\ listSaves \in 0..MaxLists
    /\ lastTold \in [Paths -> Contents \cup {NoContent}]
    /\ asked \subseteq Paths
    /\ upset \in BOOLEAN

WatchInit ==
    /\ file = [p \in Paths |-> "missing"]
    /\ watched = [p \in Paths |-> Absent]
    /\ customized = FALSE
    /\ check = [c \in Checks |-> NoCheck]
    /\ starts = 0 /\ edits = 0 /\ listSaves = 0
    /\ lastTold = [p \in Paths |-> NoContent]
    /\ asked = {}
    /\ upset = FALSE

-----------------------------------------------------------------------------
\* The list

Listed(rows) == {p \in Paths : rows[p].here}

\* New paths are added, dropped ones deleted with what was stored of them: a
\* check that holds a deleted row cannot store it.
SetPaths(P) ==
    /\ watched' = [p \in Paths |->
          IF p \notin P THEN Absent ELSE IF watched[p].here THEN watched[p] ELSE Pending]
    /\ lastTold' = [p \in Paths |-> IF p \in P THEN lastTold[p] ELSE NoContent]

Losing(c, P) == [check[c] EXCEPT !.lost = @ \/ Listed(check[c].rows) \ P # {}]

SaveList(P) ==
    /\ listSaves < MaxLists
    /\ listSaves' = listSaves + 1
    /\ SetPaths(P)
    /\ customized' = TRUE
    /\ check' = [c \in Checks |-> Losing(c, P)]
    /\ asked' = P
    /\ UNCHANGED <<world, starts, upset>>

\* The REST API's; a check is queued after it.
SaveListApi(P) == SaveList(P)

-----------------------------------------------------------------------------
\* A check

NeedsDefaults(rows) == ~customized /\ Listed(rows) = {}

ChecksBusy == {c \in Checks : check[c].pc # "idle"}

\* Nothing to watch: the task ends.
BeginCheck(c) ==
    /\ check[c].pc = "idle" /\ starts < MaxChecks
    /\ starts' = starts + 1
    /\ LET pc == IF NeedsDefaults(watched) THEN "home"
                 ELSE IF Listed(watched) = {} THEN "idle" ELSE "read"
       IN  /\ check' = [check EXCEPT ![c] = IF pc = "idle" THEN NoCheck
                           ELSE [NoCheck EXCEPT !.pc = pc, !.rows = watched]]
           /\ upset' = (upset \/ (pc # "idle" /\ ChecksBusy # {}))
    /\ UNCHANGED <<world, list, lastTold>>

\* The login account's home is looked up over SSH first; whether it is known
\* decides on one more path. The list is then set, whatever it is by now.
ApplyDefaults(c, P) ==
    /\ check[c].pc = "home"
    /\ SetPaths(P)
    /\ check' = [x \in Checks |->
          IF x = c THEN [check[c] EXCEPT !.pc = "read", !.rows = watched'] ELSE Losing(x, P)]
    /\ UNCHANGED <<world, customized, asked, listSaves, starts, upset>>

\* One script reads every file of the list as it was loaded; of some nothing
\* may come back.
Read(c, P) ==
    /\ check[c].pc = "read"
    /\ check' = [check EXCEPT ![c].pc = "store",
           ![c].found = [p \in Paths |->
               IF p \in P \cap Listed(check[c].rows) THEN file[p] ELSE NoContent]]
    /\ UNCHANGED <<world, list, starts, lastTold, upset>>

Stop(c) == check' = [check EXCEPT ![c] = NoCheck]

ReadFails(c) ==
    /\ check[c].pc \in {"home", "read"}
    /\ Stop(c)
    /\ UNCHANGED <<world, list, starts, lastTold, upset>>

\* apply_reading; a file that cannot be read keeps the content stored before.
Applied(row, found) ==
    IF found = NoContent THEN row
    ELSE IF found \in Unread THEN [row EXCEPT !.state = found]
    ELSE [row EXCEPT !.state = "ok", !.content = found]

\* Mutant of Differs: a file that appears is taken as the baseline.
DiffersFromContent(row, found) ==
    \/ found \in Unread /\ row.state = "ok"
    \/ found \in Contents \ {row.content} /\ row.content # NoContent

\* Worth telling: it could be read before and cannot now, its content is another
\* one, or it was not there before; not the first reading.
Differs(row, found) ==
    \/ found \in Unread /\ row.state = "ok"
    \/ found \in Contents \ {row.content} /\ (row.content # NoContent \/ row.state = "missing")

\* The row of a path that came before the check's own is what is compared with;
\* only what differs from that copy is written.
StoreReadings(c) ==
    LET rows == check[c].rows
        found == check[c].found
        read == {p \in Listed(rows) : found[p] # NoContent}
    IN
    /\ check[c].pc = "store" /\ ~check[c].lost
    /\ watched' = [p \in Paths |->
          IF p \notin read THEN watched[p]
          ELSE LET new == Applied(rows[p], found[p]) IN
               [watched[p] EXCEPT
                   !.state = IF new.state = rows[p].state THEN @ ELSE new.state,
                   !.content = IF new.content = rows[p].content THEN @ ELSE new.content]]
    /\ lastTold' = [p \in Paths |->
          IF p \in read /\ rows[p].content = NoContent /\ rows[p].state # "missing"
                /\ found[p] \in Contents
          THEN found[p] ELSE lastTold[p]]
    /\ check' = [check EXCEPT ![c] =
          LET todo == {p \in read : Differs(rows[p], found[p])} IN
          IF todo = {} THEN NoCheck ELSE [@ EXCEPT !.pc = "tell", !.todo = todo]]
    /\ UNCHANGED <<world, customized, asked, listSaves, starts, upset>>

\* The UPDATE of a row that was deleted meanwhile raises: nothing is written.
StoreRaises(c) ==
    /\ check[c].pc = "store" /\ check[c].lost
    /\ Stop(c)
    /\ UNCHANGED <<world, list, starts, lastTold, upset>>

\* One audit entry per change, then the notification.
Tell(c, p) ==
    /\ check[c].pc = "tell" /\ p \in check[c].todo
    /\ lastTold' = [lastTold EXCEPT ![p] =
          IF check[c].found[p] = watched[p].content THEN watched[p].content ELSE @]
    /\ check' = [check EXCEPT ![c] =
          IF check[c].todo = {p} THEN NoCheck
          ELSE [check[c] EXCEPT !.todo = check[c].todo \ {p}]]
    /\ UNCHANGED <<world, list, starts, upset>>

CheckDies(c) ==
    /\ check[c].pc \in {"store", "tell"}
    /\ Stop(c)
    /\ upset' = (upset \/ check[c].todo # {})
    /\ UNCHANGED <<world, list, starts, lastTold>>

FileChanges(p, content) ==
    /\ edits < MaxFileChanges
    /\ content # file[p]
    /\ edits' = edits + 1
    /\ file' = [file EXCEPT ![p] = content]
    /\ UNCHANGED <<list, check, starts, lastTold, upset>>

-----------------------------------------------------------------------------
WatchNext ==
    \/ \E P \in SUBSET Paths : SaveList(P) \/ SaveListApi(P)
    \/ \E c \in Checks :
          \/ BeginCheck(c) \/ ReadFails(c) \/ StoreReadings(c) \/ StoreRaises(c) \/ CheckDies(c)
          \/ \E P \in {Defaults, Paths} : ApplyDefaults(c, P)
          \/ \E P \in SUBSET Paths : Read(c, P)
          \/ \E p \in Paths : Tell(c, p)
    \/ \E p \in Paths, content \in Unread \cup Contents : FileChanges(p, content)

WatchSpec == WatchInit /\ [][WatchNext]_watchVars

-----------------------------------------------------------------------------
\* The audit log tells of every content that is stored: no difference is taken
\* for known without an entry, unless two checks ran side by side or a worker
\* died between the commit and the entries.
StoredIsTold ==
    ~upset => \A p \in Paths :
        watched[p].here /\ (\A c \in Checks : p \notin check[c].todo)
            => watched[p].content = lastTold[p]

\* "A person saving the list marks it as theirs, so the default list is never
\* put back" (services/watched_files.py:151-152).
SavedListStays == customized => Listed(watched) = asked

=============================================================================
