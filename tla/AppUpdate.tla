------------------------------ MODULE AppUpdate -----------------------------
(***************************************************************************)
(* Updating the application from its own web page: the web container drops   *)
(* a file named "check" or "upgrade" into a directory (services/             *)
(* app_update.py), a path unit on the host runs scripts/self_update.py,      *)
(* which reports through JSON files; a daily timer checks as well.           *)
(*                                                                         *)
(* Both host processes hold one file lock while they work. What is lost when *)
(* the host goes down in the middle is only the process: requests already    *)
(* taken are gone, and upgrade.json still says "running".                    *)
(***************************************************************************)
EXTENDS FiniteSets, Naturals

CONSTANTS Webs,          \* request handlers of the web application
          MaxCommits,    \* bound: commits that appear at the origin
          MaxReboots     \* bound: times the host goes down or kills a unit

VARIABLES
    files,      \* self-update/request
    upgrade,    \* upgrade.json: its state
    available,  \* available.json: checking, ok, behind
    origin,     \* newest commit of the branch
    head,       \* commit of the checkout
    deployed,   \* commit the containers run
    host,       \* the path unit's process and the timer's
    todo,       \* requests the path unit's process has taken
    holder,     \* who holds the lock
    web,        \* what a handler is about to ask for, once it has looked
    reboots

vars == <<files, upgrade, available, origin, head, deployed, host, todo, holder, web, reboots>>

Kinds == {"check", "upgrade"}
Units == {"path", "timer"}
Steps == {"idle", "waiting", "marked", "upgrade", "pull", "build", "check", "fetch"}

TypeOK ==
    /\ files \subseteq Kinds
    /\ upgrade \in {"none", "running", "succeeded", "failed", "interrupted"}
    /\ available \in [checking : BOOLEAN, ok : BOOLEAN, behind : 0..MaxCommits]
    /\ origin \in 0..MaxCommits /\ head \in 0..origin /\ deployed \in 0..head
    /\ host \in [Units -> Steps]
    /\ todo \subseteq Kinds
    /\ holder \in Units \cup {"nobody"}
    /\ web \in [Webs -> Kinds \cup {"idle"}]
    /\ reboots \in 0..MaxReboots

Init ==
    /\ files = {} /\ upgrade = "none"
    /\ available = [checking |-> FALSE, ok |-> FALSE, behind |-> 0]
    /\ origin = 0 /\ head = 0 /\ deployed = 0
    /\ host = [u \in Units |-> "idle"]
    /\ todo = {} /\ holder = "nobody"
    /\ web = [w \in Webs |-> "idle"]
    /\ reboots = 0

commits == <<origin, head, deployed>>

-----------------------------------------------------------------------------
\* The web application

\* read_status refuses a second upgrade; the file is made afterwards.
Refused == "upgrade" \in files \/ upgrade = "running"

Asks(w, kind) ==
    /\ web[w] = "idle"
    /\ kind = "upgrade" => ~Refused
    /\ web' = [web EXCEPT ![w] = kind]
    /\ UNCHANGED <<files, upgrade, available, commits, host, todo, holder, reboots>>

Creates(w) ==
    /\ web[w] # "idle"
    /\ files' = files \cup {web[w]}
    /\ web' = [web EXCEPT ![w] = "idle"]
    /\ UNCHANGED <<upgrade, available, commits, host, todo, holder, reboots>>

-----------------------------------------------------------------------------
\* The host

\* systemd starts the path unit while the directory is not empty, the timer
\* every day and after a boot; a unit that runs is not started again.
Starts(u) ==
    /\ host[u] = "idle"
    /\ u = "path" => files # {}
    /\ host' = [host EXCEPT ![u] = "waiting"]
    /\ UNCHANGED <<files, upgrade, available, commits, todo, holder, web, reboots>>

\* Mutant of Marked: what was cut short stays as it is.
MarkedNever(state) == state

\* An upgrade "running" while the lock was free was cut short.
Marked(state) == IF state = "running" THEN "interrupted" ELSE state

Locks(u) ==
    /\ host[u] = "waiting" /\ holder = "nobody"
    /\ holder' = u
    /\ upgrade' = Marked(upgrade)
    /\ available' = [available EXCEPT !.checking = FALSE]
    /\ host' = [host EXCEPT ![u] = IF u = "path" THEN "marked" ELSE "check"]
    /\ UNCHANGED <<files, commits, todo, web, reboots>>

Releases(u) ==
    /\ host' = [host EXCEPT ![u] = "idle"]
    /\ holder' = "nobody"

\* An upgrade comes before a check, and makes one itself. Nobody else takes the
\* files, so there is one: the unit was started for it.
Takes(u) ==
    /\ host[u] = "marked"
    /\ files' = {} /\ todo' = files
    /\ host' = [host EXCEPT ![u] = IF "upgrade" \in files THEN "upgrade" ELSE "check"]
    /\ UNCHANGED <<upgrade, available, commits, holder, web, reboots>>

UpgradeStarts(u) ==
    /\ host[u] = "upgrade"
    /\ upgrade' = "running"
    /\ host' = [host EXCEPT ![u] = "pull"]
    /\ UNCHANGED <<files, available, commits, todo, holder, web, reboots>>

\* upgrade.sh: git pull, then build, migrate and restart; the web container
\* goes down with what its handlers were about to do.
UpgradePulls(u) ==
    /\ host[u] = "pull"
    /\ head' = origin
    /\ host' = [host EXCEPT ![u] = "build"]
    /\ UNCHANGED <<files, upgrade, available, origin, deployed, todo, holder, web, reboots>>

UpgradeSucceeds(u) ==
    /\ host[u] = "build"
    /\ deployed' = head
    /\ upgrade' = "succeeded"
    /\ web' = [w \in Webs |-> "idle"]
    /\ host' = [host EXCEPT ![u] = "check"]
    /\ UNCHANGED <<files, available, origin, head, todo, holder, reboots>>

UpgradeFails(u) ==
    /\ host[u] \in {"pull", "build"}
    /\ upgrade' = "failed"
    /\ host' = [host EXCEPT ![u] = "check"]
    /\ UNCHANGED <<files, available, commits, todo, holder, web, reboots>>

CheckStarts(u) ==
    /\ host[u] = "check"
    /\ available' = [available EXCEPT !.checking = TRUE]
    /\ host' = [host EXCEPT ![u] = "fetch"]
    /\ UNCHANGED <<files, upgrade, commits, todo, holder, web, reboots>>

\* The count is from the checkout, not from what runs.
CheckEnds(u, ok) ==
    /\ host[u] = "fetch"
    /\ available' = [checking |-> FALSE, ok |-> ok, behind |-> IF ok THEN origin - head ELSE 0]
    /\ Releases(u)
    /\ todo' = IF u = "path" THEN {} ELSE todo
    /\ UNCHANGED <<files, upgrade, commits, web, reboots>>

-----------------------------------------------------------------------------
\* The environment

Commit ==
    /\ origin < MaxCommits
    /\ origin' = origin + 1
    /\ UNCHANGED <<files, upgrade, available, head, deployed, host, todo, holder, web, reboots>>

\* TimeoutStartSec: the unit and everything it runs is killed.
Killed(u) ==
    /\ host[u] # "idle"
    /\ reboots < MaxReboots
    /\ reboots' = reboots + 1
    /\ host' = [host EXCEPT ![u] = "idle"]
    /\ holder' = IF holder = u THEN "nobody" ELSE holder
    /\ todo' = IF u = "path" THEN {} ELSE todo
    /\ UNCHANGED <<files, upgrade, available, commits, web>>

HostReboots ==
    /\ reboots < MaxReboots
    /\ reboots' = reboots + 1
    /\ host' = [u \in Units |-> "idle"]
    /\ holder' = "nobody" /\ todo' = {}
    /\ web' = [w \in Webs |-> "idle"]
    /\ UNCHANGED <<files, upgrade, available, commits>>

Works(u) ==
    \/ Takes(u) \/ UpgradeStarts(u) \/ UpgradePulls(u) \/ UpgradeSucceeds(u) \/ UpgradeFails(u)
    \/ CheckStarts(u) \/ \E ok \in BOOLEAN : CheckEnds(u, ok)

Next ==
    \/ \E w \in Webs : Creates(w) \/ \E kind \in Kinds : Asks(w, kind)
    \/ \E u \in Units : Starts(u) \/ Locks(u) \/ Works(u) \/ Killed(u)
    \/ Commit \/ HostReboots

\* systemd starts its units and a process that runs goes on (its commands are
\* bounded by GIT_TIMEOUT_SECONDS and TimeoutStartSec). A waiter gets the lock
\* in the end although the other unit takes it again and again.
Fairness ==
    \A u \in Units : WF_vars(Starts(u) \/ Works(u)) /\ SF_vars(Locks(u))

Spec == Init /\ [][Next]_vars
FairSpec == Spec /\ Fairness

-----------------------------------------------------------------------------
\* An upgrade cut short does not refuse the next one for ever: the timer finds
\* it and marks it (self_update.py:258-270).
UpgradeEnds == upgrade = "running" ~> upgrade # "running"

=============================================================================
