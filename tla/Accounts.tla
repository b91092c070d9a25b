------------------------------ MODULE Accounts ------------------------------
(***************************************************************************)
(* Accounts, their sessions and their API tokens: signing in and out,       *)
(* impersonation, and what a superadmin does to other accounts through the  *)
(* web (web/routes/users.py) or the API (web/routes/api_v1_users.py).       *)
(*                                                                         *)
(* A request is a record in request. It reads rows, decides, and writes in  *)
(* later commits: a step is what lies between two commits, and other        *)
(* requests run in between. The ORM writes only the columns that differ     *)
(* from the copy a request read.                                           *)
(***************************************************************************)
EXTENDS Integers, FiniteSets

CONSTANTS
    Users,         \* user ids
    NoUser,
    Sessions,      \* user_sessions ids: bounds the sessions ever started
    NoSession,     \* a request without one: it carries a bearer token
    Requests,      \* bounds the requests under way at once
    Founders,      \* the superadmins at the start
    Payloads,      \* what an edit form may ask for
    MaxArrivals,   \* bounds the requests that ever arrive
    MaxDeaths      \* bounds the processes that die in the middle of a request

Payload == [active : BOOLEAN, super : BOOLEAN, local : BOOLEAN,
            api : BOOLEAN, password : BOOLEAN]

AccountsConstants ==
    /\ NoUser \notin Users /\ NoSession \notin Sessions
    /\ Founders \subseteq Users /\ Founders # {}
    /\ Payloads \subseteq Payload
    /\ MaxArrivals \in Nat /\ MaxDeaths \in Nat

VARIABLES
    user,         \* user[u]: the users row
    token,        \* token[u]: the account's API token
    session,      \* session[s]: the user_sessions row
    request,      \* request[q]: the request in slot q
    overlapped,   \* two superadmin changes were under way at the same time
    spent         \* how many arrivals and deaths there were

accountVars == <<user, token, session, request, overlapped, spent>>

UserRow == [state : {"new", "here", "gone"}, active : BOOLEAN, super : BOOLEAN,
            local : BOOLEAN, forced : BOOLEAN, api : BOOLEAN]
\* due: the account was deactivated or its password reset while the session
\* existed, and nobody died between that commit and the revocation.
SessionRow == [user : Users \cup {NoUser}, by : Users \cup {NoUser},
               revoked : BOOLEAN, lapsed : BOOLEAN, old : BOOLEAN,
               due : BOOLEAN]
Ops == {"none", "edit", "api_edit", "deactivate", "reset", "delete", "bulk"}
Pcs == {"idle", "login", "arrived", "forced", "serving", "own", "impersonating",
        "bulk", "commit", "revoking"}
Request == [pc : Pcs, session : Sessions \cup {NoSession}, actor : Users \cup {NoUser},
            op : Ops, target : Users \cup {NoUser}, todo : SUBSET Users,
            copy : UserRow, new : Payload]

Blank == [state |-> "new", active |-> FALSE, super |-> FALSE, local |-> FALSE,
          forced |-> FALSE, api |-> FALSE]
NoPayload == [active |-> FALSE, super |-> FALSE, local |-> FALSE, api |-> FALSE,
              password |-> FALSE]
Idle == [pc |-> "idle", session |-> NoSession, actor |-> NoUser, op |-> "none",
         target |-> NoUser, todo |-> {}, copy |-> Blank, new |-> NoPayload]
NoRow == [user |-> NoUser, by |-> NoUser, revoked |-> FALSE, lapsed |-> FALSE,
          old |-> FALSE, due |-> FALSE]

AccountsInit ==
    /\ user = [u \in Users |-> IF u \in Founders
                 THEN [Blank EXCEPT !.state = "here", !.active = TRUE, !.super = TRUE,
                                    !.local = TRUE, !.api = TRUE]
                 ELSE Blank]
    /\ token = [u \in Users |-> "none"]
    /\ session = [s \in Sessions |-> NoRow]
    /\ request = [q \in Requests |-> Idle]
    /\ overlapped = FALSE
    /\ spent = [arrivals |-> 0, deaths |-> 0]

IsActive(u) == user[u].state = "here" /\ user[u].active
IsUsed(s) == session[s].user # NoUser
ActiveSuperadmins == {u \in Users : IsActive(u) /\ user[u].super}

\* get_valid_session: not revoked, neither idle nor in all too old, and the
\* account is active.
IsValid(s) ==
    /\ IsUsed(s)
    /\ ~session[s].revoked /\ ~session[s].lapsed /\ ~session[s].old
    /\ IsActive(session[s].user)

-----------------------------------------------------------------------------
(* Signing in and out. *)

NewSession(s, u, admin) == [NoRow EXCEPT !.user = u, !.by = admin]

CountArrival ==
    /\ spent.arrivals < MaxArrivals
    /\ spent' = [spent EXCEPT !.arrivals = @ + 1]

\* The password, the second factor or the provider's answer was right: the
\* request holds a copy of the account's row, and signs it in later.
CheckPassword(q, u) ==
    /\ request[q].pc = "idle"
    /\ IsActive(u)
    /\ request' = [request EXCEPT ![q] =
           [Idle EXCEPT !.pc = "login", !.actor = u, !.copy = user[u]]]
    /\ CountArrival
    /\ UNCHANGED <<user, token, session, overlapped>>

\* Nothing is asked of the account again; a deleted one has no row to update.
FinishLogin(q) ==
    LET u == request[q].actor IN
    /\ request[q].pc = "login"
    /\ \/ /\ user[u].state = "here"
          /\ \E s \in Sessions :
                /\ ~IsUsed(s)
                /\ session' = [session EXCEPT ![s] = NewSession(s, u, NoUser)]
       \/ /\ user[u].state = "gone"
          /\ UNCHANGED session
    /\ request' = [request EXCEPT ![q] = Idle]
    /\ UNCHANGED <<user, token, overlapped, spent>>

\* The middleware looks the session up ...
Arrive(q, s) ==
    LET u == session[s].user IN
    /\ request[q].pc = "idle"
    /\ IsValid(s)
    /\ request' = [request EXCEPT ![q] =
           [Idle EXCEPT !.pc = "arrived", !.session = s, !.actor = u, !.copy = user[u]]]
    /\ CountArrival
    /\ UNCHANGED <<user, token, session, overlapped>>

\* Mutant of Slid: the whole row is written back as it was read.
SlidWhole(row) == [row EXCEPT !.lapsed = row.old, !.revoked = FALSE]

\* The columns a served session's row gets: expires_at, never past the cutoff.
Slid(row) == [row EXCEPT !.lapsed = row.old]

MustChangePasswordFirst(q) ==
    /\ request[q].copy.forced /\ request[q].copy.local
    /\ session[request[q].session].by = NoUser

\* ... and slides its expiry, in a commit of its own; then the route runs,
\* for an account whose password an administrator set only the one that
\* changes it (and logout).
Serve(q) ==
    LET s == request[q].session IN
    /\ request[q].pc = "arrived"
    /\ \/ /\ IsUsed(s)
          /\ session' = [session EXCEPT ![s] = Slid(@)]
          /\ request' = [request EXCEPT ![q].pc =
                 IF MustChangePasswordFirst(q) THEN "forced" ELSE "serving"]
       \/ /\ ~IsUsed(s)
          /\ request' = [request EXCEPT ![q] = Idle]
          /\ UNCHANGED session
    /\ UNCHANGED <<user, token, overlapped, spent>>

\* A request under /api/ carries a token instead.
Bearer(q, u) ==
    /\ request[q].pc = "idle"
    /\ token[u] = "valid" /\ IsActive(u) /\ user[u].api
    /\ request' = [request EXCEPT ![q] =
           [Idle EXCEPT !.pc = "serving", !.actor = u, !.copy = user[u]]]
    /\ CountArrival
    /\ UNCHANGED <<user, token, session, overlapped>>

IsWeb(q) == request[q].session # NoSession
Signed(q) == IsWeb(q) /\ request[q].pc \in {"forced", "serving"}
Done(q) == request' = [request EXCEPT ![q] = Idle]

\* Logging out ends the session, an impersonation too: the administrator's own
\* session, which the browser goes back to, was never touched.
Logout(q) ==
    LET s == request[q].session IN
    /\ Signed(q)
    /\ session' = [session EXCEPT ![s].revoked = IF IsValid(s) THEN TRUE ELSE @]
    /\ Done(q)
    /\ UNCHANGED <<user, token, overlapped, spent>>

\* "Log out everywhere else".
RevokeOthers(q) ==
    /\ IsWeb(q) /\ request[q].pc = "serving"
    /\ session' = [s \in Sessions |->
           IF session[s].user = request[q].actor /\ s # request[q].session
           THEN [session[s] EXCEPT !.revoked = TRUE] ELSE session[s]]
    /\ Done(q)
    /\ UNCHANGED <<user, token, overlapped, spent>>

\* The current password is right: the new one is hashed ...
ChangeOwnPassword(q) ==
    LET u == request[q].actor IN
    /\ Signed(q)
    /\ user[u].state = "here" /\ user[u].local
    /\ request' = [request EXCEPT ![q].pc = "own", ![q].copy = user[u]]
    /\ UNCHANGED <<user, token, session, overlapped, spent>>

\* What a flush leaves in a column: the new value only where it differs from
\* the copy that was read.
Written(copied, wanted, current) == IF wanted = copied THEN current ELSE wanted

\* ... and written; the account's sessions stay.
SetOwnPassword(q) ==
    LET u == request[q].actor IN
    /\ request[q].pc = "own"
    /\ user' = [user EXCEPT ![u].forced =
           IF user[u].state = "here" THEN Written(request[q].copy.forced, FALSE, @) ELSE @]
    /\ Done(q)
    /\ UNCHANGED <<token, session, overlapped, spent>>

CreateOwnToken(q) ==
    LET u == request[q].actor IN
    /\ IsWeb(q) /\ request[q].pc = "serving"
    /\ user[u].state = "here" /\ user[u].api
    /\ token[u] = "none"
    /\ token' = [token EXCEPT ![u] = "valid"]
    /\ Done(q)
    /\ UNCHANGED <<user, session, overlapped, spent>>

RevokeOwnToken(q) ==
    LET u == request[q].actor IN
    /\ IsWeb(q) /\ request[q].pc = "serving"
    /\ token[u] = "valid"
    /\ token' = [token EXCEPT ![u] = "revoked"]
    /\ Done(q)
    /\ UNCHANGED <<user, session, overlapped, spent>>

-----------------------------------------------------------------------------
(* What superadmins do. require_superadmin looks at the row as the request  *)
(* read it on arrival.                                                     *)

IsAdmin(q) == request[q].pc = "serving" /\ request[q].copy.super

\* Never from an impersonated session, never of a superadmin.
Impersonate(q, t) ==
    /\ IsAdmin(q) /\ IsWeb(q)
    /\ session[request[q].session].by = NoUser
    /\ t # request[q].actor
    /\ IsActive(t) /\ ~user[t].super
    /\ request' = [request EXCEPT ![q].pc = "impersonating", ![q].target = t]
    /\ UNCHANGED <<user, token, session, overlapped, spent>>

\* A session of its own; both accounts still have to be there.
StartImpersonation(q) ==
    LET t == request[q].target
        admin == request[q].actor
    IN
    /\ request[q].pc = "impersonating"
    /\ \/ /\ user[t].state = "here" /\ user[admin].state = "here"
          /\ \E s \in Sessions :
                /\ ~IsUsed(s)
                /\ session' = [session EXCEPT ![s] = NewSession(s, t, admin)]
       \/ /\ ~(user[t].state = "here" /\ user[admin].state = "here")
          /\ UNCHANGED session
    /\ Done(q)
    /\ UNCHANGED <<user, token, overlapped, spent>>

\* A new local account starts with a password it has to replace.
CreateUser(q, u, new) ==
    /\ IsAdmin(q)
    /\ user[u].state = "new"
    /\ new.active /\ new.password = new.local
    /\ user' = [user EXCEPT ![u] =
           [state |-> "here", active |-> TRUE, super |-> new.super, local |-> new.local,
            forced |-> new.local, api |-> new.api]]
    /\ Done(q)
    /\ UNCHANGED <<token, session, overlapped, spent>>

\* Mutant of WouldRemoveLast: deactivated superadmins are counted too.
WouldRemoveLastKnown(t) ==
    user[t].super /\ {u \in Users : user[u].state = "here" /\ user[u].super} \ {t} = {}

WouldRemoveLast(t) == user[t].super /\ ActiveSuperadmins \ {t} = {}

\* Another request has decided on a change it has not committed.
SomebodyDeciding(q) == \E p \in Requests \ {q} : request[p].pc = "commit"

\* The target's row is read and the guards passed; nothing is written yet.
Decide(q, op, t, new) ==
    /\ user[t].state = "here"
    /\ request' = [request EXCEPT ![q].pc = "commit", ![q].op = op, ![q].target = t,
                                  ![q].copy = user[t], ![q].new = new]
    /\ overlapped' = (overlapped \/ SomebodyDeciding(q))
    /\ UNCHANGED <<user, token, session, spent>>

\* The edit form and its API twin: not one's own scope, not the last superadmin.
EditUser(q, op, t, new) ==
    /\ IsAdmin(q)
    /\ op = IF IsWeb(q) THEN "edit" ELSE "api_edit"
    /\ t = request[q].actor => new.active /\ new.super = user[t].super
    /\ new.local /\ ~user[t].local => new.password
    /\ user[t].super /\ ~(new.active /\ new.super) => ~WouldRemoveLast(t)
    /\ Decide(q, op, t, new)

\* Only the API has a route of its own for it.
DeactivateUser(q, t) ==
    /\ IsAdmin(q) /\ ~IsWeb(q)
    /\ t # request[q].actor
    /\ ~WouldRemoveLast(t)
    /\ Decide(q, "deactivate", t, NoPayload)

ResetPassword(q, t) ==
    /\ IsAdmin(q)
    /\ user[t].local
    /\ Decide(q, "reset", t, NoPayload)

DeleteUser(q, t) ==
    /\ IsAdmin(q)
    /\ t # request[q].actor
    /\ ~WouldRemoveLast(t)
    /\ Decide(q, "delete", t, NoPayload)

Revoking(t) == [Idle EXCEPT !.pc = "revoking", !.target = t]

RevokeUserSessions(q, t) ==
    /\ IsAdmin(q)
    /\ user[t].state = "here"
    /\ request' = [request EXCEPT ![q] = Revoking(t)]
    /\ UNCHANGED <<user, token, session, overlapped, spent>>

BulkDelete(q, T) ==
    /\ IsAdmin(q) /\ IsWeb(q)
    /\ T # {}
    /\ request' = [request EXCEPT ![q].pc = "bulk", ![q].op = "bulk", ![q].todo = T]
    /\ UNCHANGED <<user, token, session, overlapped, spent>>

\* One selected account after the other; a protected one is skipped.
BulkNext(q) ==
    /\ request[q].pc = "bulk"
    /\ \/ /\ request[q].todo = {}
          /\ Done(q)
          /\ UNCHANGED overlapped
       \/ \E t \in request[q].todo :
             IF user[t].state # "here" \/ t = request[q].actor \/ WouldRemoveLast(t)
             THEN /\ request' = [request EXCEPT ![q].todo = @ \ {t}]
                  /\ UNCHANGED overlapped
             ELSE /\ request' = [request EXCEPT ![q].pc = "commit", ![q].target = t,
                                                ![q].todo = @ \ {t}]
                  /\ overlapped' = (overlapped \/ SomebodyDeciding(q))
    /\ UNCHANGED <<user, token, session, spent>>

-----------------------------------------------------------------------------
(* The commits. *)

\* The API sets the password of any local account, the form only of one that
\* becomes local.
SetsPassword(r) ==
    r.new.password /\ r.new.local /\ (r.op = "api_edit" \/ ~r.copy.local)

Edited(r, row) ==
    LET forced == IF SetsPassword(r) THEN TRUE
                  ELSE IF r.copy.local /\ ~r.new.local THEN FALSE ELSE r.copy.forced
    IN  [row EXCEPT !.active = Written(r.copy.active, r.new.active, @),
                    !.super = Written(r.copy.super, r.new.super, @),
                    !.local = Written(r.copy.local, r.new.local, @),
                    !.api = Written(r.copy.api, r.new.api, @),
                    !.forced = Written(r.copy.forced, forced, @)]

Changed(r, row) ==
    CASE r.op \in {"edit", "api_edit"} -> Edited(r, row)
      [] r.op = "deactivate" -> [row EXCEPT !.active = Written(r.copy.active, FALSE, @)]
      [] r.op = "reset" -> [row EXCEPT !.forced = Written(r.copy.forced, TRUE, @)]
      [] OTHER -> row

\* Mutant of CutsOff: the edit form forgets to revoke.
CutsOffByRoute(r) == r.op \in {"reset", "deactivate"}

\* The account's sessions are revoked in a second commit.
CutsOff(r) ==
    \/ r.op \in {"reset", "deactivate"}
    \/ r.op \in {"edit", "api_edit"} /\ ~r.new.active

\* What has to end with it, whatever the route does.
HasToEnd(r) ==
    r.op \in {"reset", "deactivate"} \/ (r.op \in {"edit", "api_edit"} /\ ~r.new.active)

CommitChange(q) ==
    LET r == request[q]
        t == r.target
    IN
    /\ r.pc = "commit" /\ r.op \notin {"delete", "bulk"}
    /\ user[t].state = "here"
    /\ user' = [user EXCEPT ![t] = Changed(r, @)]
    /\ session' = [s \in Sessions |->
           IF session[s].user = t /\ IsUsed(s)
           THEN [session[s] EXCEPT !.due = @ \/ HasToEnd(r)] ELSE session[s]]
    /\ request' = [request EXCEPT ![q] =
           IF CutsOff(r) THEN Revoking(t) ELSE Idle]
    /\ UNCHANGED <<token, overlapped, spent>>

\* Deleting an account takes its sessions and tokens along; a session it was
\* impersonating with only forgets who did.
CommitDelete(q) ==
    LET r == request[q]
        t == r.target
    IN
    /\ r.pc = "commit" /\ r.op \in {"delete", "bulk"}
    /\ user[t].state = "here"
    /\ user' = [user EXCEPT ![t] = [Blank EXCEPT !.state = "gone"]]
    /\ token' = [token EXCEPT ![t] = "none"]
    /\ session' = [s \in Sessions |->
           IF session[s].user = t THEN NoRow
           ELSE IF session[s].by = t THEN [session[s] EXCEPT !.by = NoUser]
           ELSE session[s]]
    /\ request' = [request EXCEPT ![q] =
           IF r.op = "bulk" THEN [@ EXCEPT !.pc = "bulk", !.target = NoUser] ELSE Idle]
    /\ UNCHANGED <<overlapped, spent>>

\* Somebody deleted the row since it was read: the flush raises.
CommitRaises(q) ==
    /\ request[q].pc = "commit"
    /\ user[request[q].target].state # "here"
    /\ Done(q)
    /\ UNCHANGED <<user, token, session, overlapped, spent>>

\* revoke_all_sessions_for_user: one UPDATE of every session not yet revoked.
RevokeAll(q) ==
    /\ request[q].pc = "revoking"
    /\ session' = [s \in Sessions |->
           IF session[s].user = request[q].target /\ IsUsed(s)
           THEN [session[s] EXCEPT !.revoked = TRUE] ELSE session[s]]
    /\ Done(q)
    /\ UNCHANGED <<user, token, overlapped, spent>>

-----------------------------------------------------------------------------
\* The process dies in the middle of a request: sessions it had still to
\* revoke are left as they are. Nothing obliges the other requests to go on.
Die(q) ==
    LET lost == request[q].pc = "revoking" IN
    /\ request[q].pc \in {"revoking", "bulk"}
    /\ spent.deaths < MaxDeaths
    /\ spent' = [spent EXCEPT !.deaths = @ + 1]
    /\ session' = [s \in Sessions |->
           IF lost /\ session[s].user = request[q].target
           THEN [session[s] EXCEPT !.due = FALSE] ELSE session[s]]
    /\ Done(q)
    /\ UNCHANGED <<user, token, overlapped>>

\* Time passes: the idle timeout, the absolute one.
Lapse(s) ==
    /\ IsUsed(s) /\ ~session[s].lapsed
    /\ \E old \in BOOLEAN :
          session' = [session EXCEPT ![s].lapsed = TRUE, ![s].old = old]
    /\ UNCHANGED <<user, token, request, overlapped, spent>>

Signing(q) ==
    \/ \E u \in Users : CheckPassword(q, u) \/ Bearer(q, u)
    \/ FinishLogin(q)
    \/ \E s \in Sessions : Arrive(q, s)
    \/ Serve(q)
    \/ Logout(q)
    \/ RevokeOthers(q)
    \/ ChangeOwnPassword(q)
    \/ SetOwnPassword(q)
    \/ CreateOwnToken(q)
    \/ RevokeOwnToken(q)

Administration(q) ==
    \/ \E t \in Users :
          \/ Impersonate(q, t)
          \/ \E new \in Payloads :
                \/ CreateUser(q, t, new)
                \/ \E op \in {"edit", "api_edit"} : EditUser(q, op, t, new)
          \/ DeactivateUser(q, t)
          \/ ResetPassword(q, t)
          \/ DeleteUser(q, t)
          \/ RevokeUserSessions(q, t)
    \/ StartImpersonation(q)
    \/ \E T \in SUBSET Users : BulkDelete(q, T)
    \/ BulkNext(q)
    \/ CommitChange(q)
    \/ CommitDelete(q)
    \/ CommitRaises(q)
    \/ RevokeAll(q)

AccountsNext ==
    \/ \E q \in Requests : Signing(q) \/ Administration(q) \/ Die(q)
    \/ \E s \in Sessions : Lapse(s)

AccountsSpec == AccountsInit /\ [][AccountsNext]_accountVars

-----------------------------------------------------------------------------
(* Properties *)

AccountsTypeOK ==
    /\ user \in [Users -> UserRow]
    /\ token \in [Users -> {"none", "valid", "revoked"}]
    /\ session \in [Sessions -> SessionRow]
    /\ request \in [Requests -> Request]
    /\ overlapped \in BOOLEAN
    /\ spent \in [arrivals : 0..MaxArrivals, deaths : 0..MaxDeaths]

\* As long as no two superadmins' changes cross between decision and commit,
\* somebody can still administer the application: no sequence of edits,
\* deactivations, deletions and bulk deletions takes the last one away.
SuperadminRemains == ~overlapped => ActiveSuperadmins # {}

\* A revoked session stays revoked, although requests that were let in
\* before go on sliding its expiry.
RevokedStaysRevoked ==
    [][\A s \in Sessions : session[s].revoked => session'[s].revoked \/ session'[s] = NoRow]_accountVars

\* A session that existed when its account was deactivated or got a new
\* password by a reset serves nobody once that request is through, whatever
\* slid it meanwhile and even if the account is activated again.
CutOffIsFinal ==
    \A s \in Sessions :
        session[s].due /\ IsValid(s) =>
            \E q \in Requests : request[q].pc = "revoking" /\ request[q].target = session[s].user

=============================================================================
