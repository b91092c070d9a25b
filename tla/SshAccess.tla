------------------------------ MODULE SshAccess ------------------------------
(***************************************************************************)
(* How the application gets into its honeypots: the one SSH key it shares   *)
(* with all of them and the replacement that is rolled out before it is     *)
(* activated (ssh/identity.py, the /settings/ssh-key routes), and the       *)
(* onboarding that moves a honeypot to that key, with the stored or with a  *)
(* one-time credential (tasks/jobs.py, web/routes/honeypots_detail.py).     *)
(* Every honeypot has a pinned host key. Switching a honeypot's credential  *)
(* by hand in the edit form is left out: who does it installs the key.      *)
(***************************************************************************)
EXTENDS Naturals, FiniteSets

CONSTANTS
    Honeypots,
    Keys,      \* bounds the key pairs ever generated
    NoKey,
    Attempts,  \* onboarding requests under way at once
    MaxSteps,  \* bounds what administrators ask for
    MaxDeaths  \* bounds the web processes that die

SshConstants ==
    /\ Honeypots # {} /\ NoKey \notin Keys
    /\ MaxSteps \in Nat /\ MaxDeaths \in Nat

VARIABLES
    identity,    \* the ssh_identity row
    auth,        \* auth[h]: how the row says to log in
    authorized,  \* authorized[h][u]: the keys account u of h lets in
    push,        \* the request that rolls the pending key out
    pushing,     \* pushing[h]: its task for h
    attempt,     \* attempt[q]: an onboarding request
    setup,       \* setup[q]: the task it started
    sshSeen      \* what happened, for the bounds and the properties

sshVars == <<identity, auth, authorized, push, pushing, attempt, setup, sshSeen>>

Key == Keys \cup {NoKey}
Accounts == {"honeypotshelf", "root"}
Auth == [method : {"key", "password"}, user : Accounts,
         secret : {"none", "stored", "once"}]
AppLogin == [method |-> "key", user |-> "honeypotshelf", secret |-> "none"]
OneTime == [method |-> "password", user |-> "root", secret |-> "once"]
Push == [pc : {"idle", "waiting"}, key : Key, sent : SUBSET Honeypots,
         ok : SUBSET Honeypots, failed : SUBSET Honeypots]
NoPush == [pc |-> "idle", key |-> NoKey, sent |-> {}, ok |-> {}, failed |-> {}]
Pushing == [pc : {"idle", "queued", "running"}, key : Key, login : Key, user : Accounts]
NoTask == [pc |-> "idle", key |-> NoKey, login |-> NoKey, user |-> "root"]
Attempt == [pc : {"idle", "waiting"}, honeypot : Honeypots, once : BOOLEAN, before : Auth]
NoAttempt == [pc |-> "idle", honeypot |-> CHOOSE h \in Honeypots : TRUE,
              once |-> FALSE, before |-> AppLogin]
Setup == [pc : {"idle", "queued", "running", "ok", "failed"}, honeypot : Honeypots,
          key : Key, copy : Auth]
NoSetup == [pc |-> "idle", honeypot |-> CHOOSE h \in Honeypots : TRUE,
            key |-> NoKey, copy |-> AppLogin]

\* Honeypots are added with a password, or with the shared key in place.
SshInit ==
    /\ identity = [active |-> NoKey, pending |-> NoKey]
    /\ auth \in [Honeypots -> {[method |-> "password", user |-> "root", secret |-> "stored"]}]
    /\ authorized = [h \in Honeypots |-> [u \in Accounts |-> {}]]
    /\ push = NoPush
    /\ pushing = [h \in Honeypots |-> NoTask]
    /\ attempt = [q \in Attempts |-> NoAttempt]
    /\ setup = [q \in Attempts |-> NoSetup]
    /\ sshSeen = [steps |-> 0, deaths |-> 0, used |-> {}, regenerated |-> FALSE,
                  onboarded |-> FALSE, careless |-> FALSE,
                  report |-> [key |-> NoKey, ok |-> {}]]

Count == sshSeen.steps < MaxSteps
OnKey == {h \in Honeypots : auth[h].method = "key"}
OnboardingUnderWay ==
    \E q \in Attempts : attempt[q].pc # "idle" \/ setup[q].pc \in {"queued", "running"}

-----------------------------------------------------------------------------
(* The key pair and its replacement. *)

\* Whoever needs the identity first creates it; a second creator uses the first's.
GetOrCreateIdentity(k) ==
    /\ identity.active = NoKey
    /\ identity' = [identity EXCEPT !.active = k]
    /\ sshSeen' = [sshSeen EXCEPT !.used = {k}]
    /\ UNCHANGED <<auth, authorized, push, pushing, attempt, setup>>

\* A pending key that was not activated is discarded.
GeneratePending(k) ==
    /\ Count
    /\ identity.active # NoKey
    /\ k \notin sshSeen.used
    /\ identity' = [identity EXCEPT !.pending = k]
    /\ sshSeen' = [sshSeen EXCEPT !.steps = @ + 1, !.used = @ \cup {k},
                                  !.regenerated = @ \/ push.pc # "idle"]
    /\ UNCHANGED <<auth, authorized, push, pushing, attempt, setup>>

\* Nothing is checked: it is the operator who knows the key is everywhere.
ActivatePending ==
    /\ Count
    /\ identity.pending # NoKey
    /\ identity' = [active |-> identity.pending, pending |-> NoKey]
    /\ sshSeen' = [sshSeen EXCEPT !.steps = @ + 1,
           !.careless = \/ @
                        \/ sshSeen.report.key # identity.pending
                        \/ ~(OnKey \subseteq sshSeen.report.ok)
                        \/ sshSeen.onboarded]
    /\ UNCHANGED <<auth, authorized, push, pushing, attempt, setup>>

DiscardPending ==
    /\ Count
    /\ identity.pending # NoKey
    /\ identity' = [identity EXCEPT !.pending = NoKey]
    /\ sshSeen' = [sshSeen EXCEPT !.steps = @ + 1]
    /\ UNCHANGED <<auth, authorized, push, pushing, attempt, setup>>

-----------------------------------------------------------------------------
(* Rolling the pending key out: a task for every honeypot on the shared key. *)

PushKey ==
    /\ Count
    /\ push.pc = "idle"
    /\ \A h \in Honeypots : pushing[h].pc = "idle"
    /\ identity.pending # NoKey /\ OnKey # {}
    /\ push' = [NoPush EXCEPT !.pc = "waiting", !.key = identity.pending, !.sent = OnKey]
    /\ pushing' = [h \in Honeypots |->
           IF h \in OnKey THEN [NoTask EXCEPT !.pc = "queued"] ELSE NoTask]
    /\ sshSeen' = [sshSeen EXCEPT !.steps = @ + 1, !.onboarded = OnboardingUnderWay,
                                  !.regenerated = FALSE]
    /\ UNCHANGED <<identity, auth, authorized, attempt, setup>>

\* The answer is of use only while the request still waits for it.
Answer(h, outcome) ==
    /\ pushing' = [pushing EXCEPT ![h] = NoTask]
    /\ push' = IF h \notin push.sent \ (push.ok \cup push.failed) THEN push
               ELSE IF outcome THEN [push EXCEPT !.ok = @ \cup {h}]
               ELSE [push EXCEPT !.failed = @ \cup {h}]

\* The task reads the row and the identity for itself.
PushTaskReads(h) ==
    /\ pushing[h].pc = "queued"
    /\ \/ /\ auth[h].method = "key" /\ identity.pending # NoKey
          /\ pushing' = [pushing EXCEPT ![h] =
                 [pc |-> "running", key |-> identity.pending, login |-> identity.active,
                  user |-> auth[h].user]]
          /\ UNCHANGED push
       \/ /\ ~(auth[h].method = "key" /\ identity.pending # NoKey)
          /\ Answer(h, FALSE)
    /\ UNCHANGED <<identity, auth, authorized, attempt, setup, sshSeen>>

LetsIn(h, key, user) == key \in authorized[h][user]

\* The line is appended unless it is there: nothing is ever removed.
PushTaskAppends(h) ==
    LET task == pushing[h] IN
    /\ task.pc = "running"
    /\ LetsIn(h, task.login, task.user)
    /\ authorized' = [authorized EXCEPT ![h][task.user] = @ \cup {task.key}]
    /\ Answer(h, TRUE)
    /\ UNCHANGED <<identity, auth, attempt, setup, sshSeen>>

PushTaskFails(h) ==
    /\ pushing[h].pc = "running"
    /\ Answer(h, FALSE)
    /\ UNCHANGED <<identity, auth, authorized, attempt, setup, sshSeen>>

\* The request waits a minute; the task goes on.
PushTimesOut(h) ==
    /\ push.pc = "waiting"
    /\ h \in push.sent \ (push.ok \cup push.failed)
    /\ push' = [push EXCEPT !.failed = @ \cup {h}]
    /\ UNCHANGED <<identity, auth, authorized, pushing, attempt, setup, sshSeen>>

\* Mutant of Succeeded: whoever was sent the key counts.
SentTo(p) == p.sent

Succeeded(p) == p.ok

\* With the fingerprint as the request had read it.
PushReports ==
    /\ push.pc = "waiting"
    /\ push.sent = push.ok \cup push.failed
    /\ push' = NoPush
    /\ sshSeen' = [sshSeen EXCEPT !.report =
           IF sshSeen.regenerated THEN [key |-> NoKey, ok |-> {}]
           ELSE [key |-> push.key, ok |-> Succeeded(push)]]
    /\ UNCHANGED <<identity, auth, authorized, pushing, attempt, setup>>

\* "Push to every honeypot" of the personal keys takes the shared key along.
PushSuperadminKeys(h) ==
    /\ Count
    /\ identity.active # NoKey
    /\ auth[h].method = "key" => LetsIn(h, identity.active, auth[h].user)
    /\ authorized' = [authorized EXCEPT ![h][auth[h].user] = @ \cup {identity.active}]
    /\ sshSeen' = [sshSeen EXCEPT !.steps = @ + 1]
    /\ UNCHANGED <<identity, auth, push, pushing, attempt, setup>>

-----------------------------------------------------------------------------
(* Onboarding. *)

Start(q, h, once) ==
    /\ Count
    /\ attempt[q].pc = "idle" /\ setup[q].pc = "idle"
    /\ identity.active # NoKey
    /\ attempt' = [attempt EXCEPT ![q] =
           [pc |-> "waiting", honeypot |-> h, once |-> once, before |-> auth[h]]]
    /\ setup' = [setup EXCEPT ![q] = [NoSetup EXCEPT !.pc = "queued", !.honeypot = h]]
    /\ sshSeen' = [sshSeen EXCEPT !.steps = @ + 1, !.onboarded = TRUE]
    /\ UNCHANGED <<identity, authorized, push, pushing>>

RunOnboarding(q, h) == Start(q, h, FALSE) /\ UNCHANGED auth

RunOnboardingApi(q, h) == Start(q, h, FALSE) /\ UNCHANGED auth

\* The credential that was typed in is stored, for the task to find.
RunOnboardingWithCredential(q, h) ==
    /\ Start(q, h, TRUE)
    /\ auth' = [auth EXCEPT ![h] = OneTime]

SetupReads(q) ==
    /\ setup[q].pc = "queued"
    /\ setup' = [setup EXCEPT ![q].pc = "running", ![q].key = identity.active,
                              ![q].copy = auth[setup[q].honeypot]]
    /\ UNCHANGED <<identity, auth, authorized, push, pushing, attempt, sshSeen>>

\* Whether the credential read opens the honeypot.
MayLogIn(q) ==
    LET copy == setup[q].copy IN
    IF copy.method = "password" THEN copy.secret # "none"
    ELSE LetsIn(setup[q].honeypot, setup[q].key, copy.user)

Installed(q) == [authorized EXCEPT ![setup[q].honeypot]["honeypotshelf"] = @ \cup {setup[q].key}]

Written(copied, wanted, current) == IF wanted = copied THEN current ELSE wanted

\* The script ran to its end: the account and the key are there, and the row
\* changes over to them; a flush writes what differs from the copy.
SetupSucceeds(q) ==
    LET copy == setup[q].copy IN
    /\ setup[q].pc = "running"
    /\ MayLogIn(q)
    /\ authorized' = Installed(q)
    /\ auth' = [auth EXCEPT ![setup[q].honeypot] =
           [method |-> Written(copy.method, "key", @.method),
            user |-> Written(copy.user, "honeypotshelf", @.user),
            secret |-> Written(copy.secret, "none", @.secret)]]
    /\ setup' = [setup EXCEPT ![q].pc = IF attempt[q].pc = "idle" THEN "idle" ELSE "ok"]
    /\ UNCHANGED <<identity, push, pushing, attempt, sshSeen>>

\* No login, or the script stopped after it had installed the key or before.
SetupFails(q) ==
    /\ setup[q].pc = "running"
    /\ \/ UNCHANGED authorized
       \/ MayLogIn(q) /\ authorized' = Installed(q)
    /\ setup' = [setup EXCEPT ![q].pc = IF attempt[q].pc = "idle" THEN "idle" ELSE "failed"]
    /\ UNCHANGED <<identity, auth, push, pushing, attempt, sshSeen>>

\* Back to the account and method there were before, without any password.
Restored(current, before) ==
    [method |-> Written("password", before.method, current.method),
     user |-> Written("root", before.user, current.user), secret |-> "none"]

\* The request is answered, or has waited long enough for its task.
AttemptEnds(q) ==
    LET a == attempt[q] IN
    /\ a.pc = "waiting"
    /\ auth' = IF a.once /\ setup[q].pc # "ok"
               THEN [auth EXCEPT ![a.honeypot] = Restored(@, a.before)] ELSE auth
    /\ attempt' = [attempt EXCEPT ![q] = NoAttempt]
    /\ setup' = IF setup[q].pc \in {"ok", "failed"}
                THEN [setup EXCEPT ![q] = NoSetup] ELSE setup
    /\ UNCHANGED <<identity, authorized, push, pushing, sshSeen>>

\* The web process dies while it waits: nobody restores anything.
WebDies(q) ==
    /\ attempt[q].pc = "waiting"
    /\ sshSeen.deaths < MaxDeaths
    /\ attempt' = [attempt EXCEPT ![q] = NoAttempt]
    /\ setup' = IF setup[q].pc \in {"ok", "failed"}
                THEN [setup EXCEPT ![q] = NoSetup] ELSE setup
    /\ sshSeen' = [sshSeen EXCEPT !.deaths = @ + 1]
    /\ UNCHANGED <<identity, auth, authorized, push, pushing>>

-----------------------------------------------------------------------------
SshNext ==
    \/ \E k \in Keys : GetOrCreateIdentity(k) \/ GeneratePending(k)
    \/ ActivatePending
    \/ DiscardPending
    \/ PushKey
    \/ PushReports
    \/ \E h \in Honeypots :
          \/ PushTaskReads(h) \/ PushTaskAppends(h) \/ PushTaskFails(h) \/ PushTimesOut(h)
          \/ PushSuperadminKeys(h)
    \/ \E q \in Attempts, h \in Honeypots :
          \/ RunOnboarding(q, h) \/ RunOnboardingApi(q, h)
          \/ RunOnboardingWithCredential(q, h)
    \/ \E q \in Attempts :
          SetupReads(q) \/ SetupSucceeds(q) \/ SetupFails(q) \/ AttemptEnds(q) \/ WebDies(q)

SshSpec == SshInit /\ [][SshNext]_sshVars

-----------------------------------------------------------------------------
(* Properties *)

SshTypeOK ==
    /\ identity \in [active : Key, pending : Key]
    /\ auth \in [Honeypots -> Auth]
    /\ authorized \in [Honeypots -> [Accounts -> SUBSET Keys]]
    /\ push \in Push
    /\ pushing \in [Honeypots -> Pushing]
    /\ attempt \in [Attempts -> Attempt]
    /\ setup \in [Attempts -> Setup]
    /\ sshSeen \in [steps : 0..MaxSteps, deaths : 0..MaxDeaths, used : SUBSET Keys,
                    regenerated : BOOLEAN, onboarded : BOOLEAN, careless : BOOLEAN,
                    report : [key : Key, ok : SUBSET Honeypots]]

\* Somebody who activates a key only after a roll-out of that very key reported
\* success for every honeypot on the shared key, with no onboarding since that
\* roll-out began, is never locked out: every honeypot on the shared key lets
\* the active one in, through time-outs, failed scripts and late answers.
SharedKeyLogsIn ==
    ~sshSeen.careless =>
        \A h \in OnKey : identity.active \in authorized[h][auth[h].user]

=============================================================================
