---------------------------- MODULE SignInPolicy ----------------------------
(***************************************************************************)
(* The sign-in policy (app/auth/session_policy.py): which networks may reach *)
(* the application, how long a session lasts, how many wrong answers lock an *)
(* account. Every request needs it, so every process keeps a copy for a few  *)
(* seconds (TTL). A copy is dated before the row is asked for: whatever the  *)
(* read takes, what it stores was in force at that date or later. But a      *)
(* session of the database answers with the row it has loaded before, and a  *)
(* sign-in loads the settings, asks LDAP or the OpenID provider and only     *)
(* then asks for the policy: its copy is as old as that wait.                *)
(*                                                                           *)
(* A policy is the number of the save that made it and the networks it       *)
(* lets in (none: everybody); until[v] is when version v was replaced. A     *)
(* coroutine gives way only where it awaits: at the read, and at the commit  *)
(* of a save, which its own process is told of afterwards (invalidate).      *)
(***************************************************************************)
EXTENDS Integers

CONSTANTS
    Processes,    \* the web processes
    Visits,       \* requests under way at one time
    Networks,     \* where a request may come from
    TTL,          \* _CACHE_TTL_SECONDS
    NoPolicy,     \* no policy kept or read
    MaxSeconds,   \* bound: how long time runs
    MaxSaves      \* bound: how many saves

PolicyConstants ==
    /\ TTL \in Nat \ {0} /\ MaxSeconds \in Nat /\ MaxSaves \in Nat
    /\ NoPolicy \notin [version : Nat, networks : SUBSET Networks]

VARIABLES
    row,      \* the policy of the app_settings row
    cached,   \* process -> the policy it keeps and its date (_cached)
    visit,    \* request -> where it runs and comes from, what it is about to do,
              \* the policy it has read and when it began to
    until,    \* version -> when it was replaced; not in DOMAIN while in force
    second

policyVars == <<row, cached, visit, until, second>>

Versions == 0 .. MaxSaves
Policies == [version : Versions, networks : SUBSET Networks]
NoCopy == [at |-> 0, held |-> 0, policy |-> NoPolicy]
\* For the properties: how long before its date its row had been loaded (held).
Copies == {NoCopy} \cup [at : 0 .. MaxSeconds, held : 0 .. MaxSeconds, policy : Policies]
Over(r) == [r EXCEPT !.pc = "idle", !.at = 0, !.policy = NoPolicy]

PolicyTypeOK ==
    /\ row \in Policies
    /\ cached \in [Processes -> Copies]
    /\ visit \in [Visits ->
          [pc : {"idle", "reading", "storing", "served", "signing", "telling"},
           process : Processes, from : Networks, at : 0 .. MaxSeconds,
           policy : Policies \cup {NoPolicy}]]
    /\ second \in 0 .. MaxSeconds
    /\ \E r \in SUBSET Versions : until \in [r -> 0 .. MaxSeconds]

PolicyInit ==
    /\ row = [version |-> 0, networks |-> {}]
    /\ cached = [p \in Processes |-> NoCopy]
    /\ visit \in [Visits -> [pc : {"idle"}, process : Processes, from : Networks,
                            at : {0}, policy : {NoPolicy}]]
    /\ until = [v \in {} |-> 0]
    /\ second = 0

-----------------------------------------------------------------------------
\* An empty list admits everyone.
Admits(networks, n) == networks = {} \/ n \in networks

Fresh(p) == cached[p].policy # NoPolicy /\ second - cached[p].at < TTL

\* What the middleware answers under a policy: it goes on to the session and
\* the page, or refuses the network.
Decided(r, policy) ==
    [Over(r) EXCEPT !.pc = IF Admits(policy.networks, r.from) THEN "served" ELSE "idle"]

\* With a fresh copy no database session is opened (fresh_cached_policy).
UseCopy(q) ==
    /\ visit[q].pc = "idle" /\ Fresh(visit[q].process)
    /\ visit' = [visit EXCEPT ![q] = Decided(@, cached[@.process].policy)]
    /\ UNCHANGED <<row, cached, until, second>>

\* load_policy, in a session that has loaded nothing yet (of the middleware, of
\* a WebSocket): the date is taken, then the row is asked for.
BeginLoad(q) ==
    /\ visit[q].pc = "idle" /\ ~Fresh(visit[q].process)
    /\ visit' = [visit EXCEPT ![q].pc = "reading", ![q].at = second]
    /\ UNCHANGED <<row, cached, until, second>>

\* The database answers; the coroutine is resumed later.
ReadRow(q) ==
    /\ visit[q].pc = "reading"
    /\ visit' = [visit EXCEPT ![q].pc = "storing", ![q].policy = row]
    /\ UNCHANGED <<row, cached, until, second>>

\* Mutant of CopyOf: dated when it is stored.
CopyOfNow(q) == [at |-> second, held |-> 0, policy |-> visit[q].policy]

\* The copy, with the date taken before the read.
CopyOf(q) == [at |-> visit[q].at, held |-> 0, policy |-> visit[q].policy]

StorePolicy(q) ==
    /\ visit[q].pc = "storing"
    /\ cached' = [cached EXCEPT ![visit[q].process] = CopyOf(q)]
    /\ visit' = [visit EXCEPT ![q] = Decided(@, @.policy)]
    /\ UNCHANGED <<row, until, second>>

\* Before anything else a page, an API call and a WebSocket handshake have
\* their network looked at, with the same copy.
NetworkAllowed(q) == UseCopy(q) \/ BeginLoad(q) \/ ReadRow(q) \/ StorePolicy(q)

\* login_submit and oidc_callback load the settings row into their session
\* first, and then wait for whoever knows the password.
LoadSettings(q) ==
    /\ visit[q].pc = "served"
    /\ visit' = [visit EXCEPT ![q].pc = "signing", ![q].at = second, ![q].policy = row]
    /\ UNCHANGED <<row, cached, until, second>>

\* create_session and _register_failed_attempt ask load_policy in that session:
\* the date is now, the row the one loaded before; nothing is awaited between.
SignsIn(q) ==
    LET p == visit[q].process IN
    /\ visit[q].pc = "signing"
    /\ cached' = IF Fresh(p) THEN cached
                 ELSE [cached EXCEPT ![p] = [at |-> second, held |-> second - visit[q].at,
                                            policy |-> visit[q].policy]]
    /\ visit' = [visit EXCEPT ![q] = Over(@)]
    /\ UNCHANGED <<row, until, second>>

\* A page that changes nothing has been served; a sign-in gets no further.
Leave(q) ==
    /\ visit[q].pc \in {"served", "signing"}
    /\ visit' = [visit EXCEPT ![q] = Over(@)]
    /\ UNCHANGED <<row, cached, until, second>>

\* update_sign_in_policy: a list that would leave out the address saving it is
\* refused; the row is committed ...
SavePolicy(q, networks) ==
    /\ visit[q].pc = "served" /\ row.version < MaxSaves
    /\ Admits(networks, visit[q].from)
    /\ row' = [version |-> row.version + 1, networks |-> networks]
    /\ until' = [v \in 0 .. row.version |-> IF v = row.version THEN second ELSE until[v]]
    /\ visit' = [visit EXCEPT ![q].pc = "telling"]
    /\ UNCHANGED <<cached, second>>

\* ... and this process forgets its copy.
Invalidate(q) ==
    /\ visit[q].pc = "telling"
    /\ cached' = [cached EXCEPT ![visit[q].process] = NoCopy]
    /\ visit' = [visit EXCEPT ![q] = Over(@)]
    /\ UNCHANGED <<row, until, second>>

\* A process is restarted: its copy and its requests are gone.
Restart(p) ==
    /\ cached' = [cached EXCEPT ![p] = NoCopy]
    /\ visit' = [q \in Visits |->
                   IF visit[q].process = p THEN Over(visit[q]) ELSE visit[q]]
    /\ UNCHANGED <<row, until, second>>

SecondPasses ==
    /\ second < MaxSeconds
    /\ second' = second + 1
    /\ UNCHANGED <<row, cached, visit, until>>

PolicyNext ==
    \/ \E q \in Visits :
          \/ NetworkAllowed(q) \/ LoadSettings(q) \/ SignsIn(q) \/ Leave(q)
          \/ \E networks \in SUBSET Networks : SavePolicy(q, networks)
          \/ Invalidate(q)
    \/ \E p \in Processes : Restart(p)
    \/ SecondPasses

PolicySpec == PolicyInit /\ [][PolicyNext]_policyVars

-----------------------------------------------------------------------------
OutdatedFor(p) == second - until[cached[p].policy.version]
Outdated(p) == Fresh(p) /\ cached[p].policy.version \in DOMAIN until

\* A copy that is still used (fresh) was in force less than TTL ago, and what
\* the sign-in that stored it had held its row for: however long a read took
\* and whichever process saved (load_policy dates the copy before it reads the
\* row). At once a change does not always hold, not even in the process that
\* saved: a read on its way during the save stores the old policy after
\* invalidate().
PolicyTakesHold == \A p \in Processes : Outdated(p) => OutdatedFor(p) < TTL + cached[p].held

=============================================================================
