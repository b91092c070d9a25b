--------------------------- MODULE AccountsProofs ---------------------------
(* Who may sign in and who may administer, for any number of accounts,       *)
(* sessions, requests and processes that die. A request decides on what it    *)
(* read and writes later, so the invariants speak of both: what a decided     *)
(* change still leaves (Keeps), who is about to revoke a session (Revokes),   *)
(* whose name a signed request carries (Named).                               *)
(*                                                                           *)
(* Signing in, and the policy that says from where and how long. A saved     *)
(* policy is in force everywhere TTL later, for any number of web processes, *)
(* requests, networks and saves and however long a read takes; there the     *)
(* inductive part says what a date promises: the version it is stored with   *)
(* was still in force then (InForceAt). And wrong answers lock an account,   *)
(* and a recovery code is good for one sign-in, for any number of browsers,  *)
(* codes and answers; there it says that an answer verified alone is judged  *)
(* by a copy of the row as it still is (Alone).                              *)
EXTENDS Accounts, SignInPolicy, Logins, FiniteSetTheorems, TLAPS

-----------------------------------------------------------------------------
\* A session nobody started is blank.
Unused ==
    \A s \in Sessions : ~IsUsed(s) =>
        session[s].by = NoUser /\ ~session[s].revoked /\ ~session[s].due

\* A request that is served is that of an account, one that changes or signs
\* in another one has it.
SlotNamed(r) ==
    /\ r.pc \in {"login", "arrived", "forced", "serving"} => r.actor \in Users
    /\ r.pc \in {"commit", "revoking", "impersonating"} => r.target \in Users

Named == \A q \in Requests : SlotNamed(request[q])

\* While a session has to end, the request that ends it is under way.
Revokes ==
    \A s \in Sessions : session[s].due /\ IsUsed(s) /\ ~session[s].revoked =>
        \E q \in Requests : request[q].pc = "revoking" /\ request[q].target = session[s].user

CutInv == Unused /\ Named /\ Revokes

\* The change r has decided on leaves a superadmin: its target is not one and
\* does not matter, or stays one, or another one remains.
Keeps(r) ==
    LET t == r.target IN
    \/ ActiveSuperadmins \ {t} # {}
    \/ r.op = "reset"
    \/ /\ r.op \in {"edit", "api_edit"}
       /\ r.new.active /\ r.new.super
       /\ user[t].state = "here"
       /\ r.copy.active = user[t].active /\ r.copy.super = user[t].super

\* Of two changes decided on and not yet committed, the later one is known to
\* overlap; without one, a superadmin is there and the decided change keeps one.
AdminInv ==
    ~overlapped =>
        /\ ActiveSuperadmins # {}
        /\ \A q \in Requests : request[q].pc = "commit" =>
              /\ Keeps(request[q])
              /\ \A p \in Requests \ {q} : request[p].pc # "commit"

-----------------------------------------------------------------------------
(* Type correctness *)

Tokens == [Users -> {"none", "valid", "revoked"}]
Bounds == [arrivals : 0..MaxArrivals, deaths : 0..MaxDeaths]

LEMMA Constructors ==
    ASSUME AccountsConstants
    PROVE  /\ Blank \in UserRow /\ NoRow \in SessionRow
           /\ Idle \in Request
           /\ \A t \in Users \cup {NoUser} : Revoking(t) \in Request
<1>1. Blank \in UserRow /\ NoPayload \in Payload
  BY DEF Blank, UserRow, Payload, NoPayload
<1>2. NoRow \in SessionRow
  BY DEF NoRow, SessionRow
<1>3. Idle \in Request
  BY <1>1 DEF Idle, Request, Pcs, Ops
<1> QED
  BY <1>1, <1>2, <1>3 DEF Revoking, Request, Pcs

LEMMA NewSessionType ==
    ASSUME NEW s, NEW u \in Users \cup {NoUser}, NEW admin \in Users \cup {NoUser}
    PROVE  /\ NewSession(s, u, admin) \in SessionRow
           /\ NewSession(s, u, admin).user = u
           /\ ~NewSession(s, u, admin).revoked /\ ~NewSession(s, u, admin).due
  BY DEF NewSession, NoRow, SessionRow

\* A row an edit leaves is a row.
LEMMA EditedType ==
    ASSUME NEW r \in Request, NEW entry \in UserRow
    PROVE  Edited(r, entry) \in UserRow
<1> DEFINE forced == IF SetsPassword(r) THEN TRUE
                     ELSE IF r.copy.local /\ ~r.new.local THEN FALSE ELSE r.copy.forced
           a == Written(r.copy.active, r.new.active, entry.active)
           b == Written(r.copy.super, r.new.super, entry.super)
           c == Written(r.copy.local, r.new.local, entry.local)
           d == Written(r.copy.api, r.new.api, entry.api)
           e == Written(r.copy.forced, forced, entry.forced)
<1>1. forced \in BOOLEAN
  BY DEF Request, UserRow
<1>2. a \in BOOLEAN /\ b \in BOOLEAN /\ c \in BOOLEAN /\ d \in BOOLEAN
  BY DEF Written, Request, UserRow, Payload
<1>3. e \in BOOLEAN
  <2> HIDE DEF forced
  <2> QED
    BY <1>1 DEF Written, Request, UserRow, Payload
<1>4. Edited(r, entry) =
        [entry EXCEPT !.active = a, !.super = b, !.local = c, !.api = d, !.forced = e]
  BY DEF Edited
<1> HIDE DEF a, b, c, d, e
<1> QED
  BY <1>2, <1>3, <1>4 DEF UserRow

LEMMA ChangedType ==
    ASSUME NEW r \in Request, NEW entry \in UserRow
    PROVE  Changed(r, entry) \in UserRow
<1>1. /\ Written(r.copy.forced, TRUE, entry.forced) \in BOOLEAN
      /\ Written(r.copy.active, FALSE, entry.active) \in BOOLEAN
  BY DEF Written, Request, UserRow
<1>2. /\ [entry EXCEPT !.active = Written(r.copy.active, FALSE, @)] \in UserRow
      /\ [entry EXCEPT !.forced = Written(r.copy.forced, TRUE, @)] \in UserRow
  BY <1>1 DEF UserRow
<1> QED
  BY <1>2, EditedType DEF Changed

\* Signing in and out.
LEMMA SigningType ==
    ASSUME AccountsConstants, AccountsTypeOK, Named, NEW q \in Requests, Signing(q)
    PROVE  AccountsTypeOK'
<1> USE DEF AccountsTypeOK
<1> USE Constructors
<1>0. /\ \A r \in Request : [request EXCEPT ![q] = r] \in [Requests -> Request]
      /\ \A p \in Pcs : [request EXCEPT ![q].pc = p] \in [Requests -> Request]
  BY DEF Request
<1>1. ASSUME CountArrival PROVE spent' \in [arrivals : 0..MaxArrivals, deaths : 0..MaxDeaths]
  BY <1>1 DEF CountArrival, AccountsConstants
<1>2. ASSUME NEW u \in Users, CheckPassword(q, u) PROVE AccountsTypeOK'
  <2>1. [Idle EXCEPT !.pc = "login", !.actor = u, !.copy = user[u]] \in Request
    BY DEF Request, Pcs
  <2> QED
    BY <1>0, <1>1, <1>2, <2>1 DEF CheckPassword
<1>3. ASSUME NEW u \in Users, Bearer(q, u) PROVE AccountsTypeOK'
  <2>1. [Idle EXCEPT !.pc = "serving", !.actor = u, !.copy = user[u]] \in Request
    BY DEF Request, Pcs
  <2> QED
    BY <1>0, <1>1, <1>3, <2>1 DEF Bearer
<1>4. CASE FinishLogin(q)
  <2>1. request[q].actor \in Users \cup {NoUser}
    BY DEF Request
  <2>2. \A s \in Sessions : [session EXCEPT ![s] = NewSession(s, request[q].actor, NoUser)]
                               \in [Sessions -> SessionRow]
    BY <2>1, NewSessionType
  <2>3. session' \in [Sessions -> SessionRow]
    BY <1>4, <2>2 DEF FinishLogin
  <2>4. request' \in [Requests -> Request] /\ UNCHANGED <<user, token, overlapped, spent>>
    BY <1>0, <1>4 DEF FinishLogin
  <2> QED
    BY <2>3, <2>4
<1>5. ASSUME NEW s \in Sessions, Arrive(q, s) PROVE AccountsTypeOK'
  <2>1. session[s].user \in Users
    BY <1>5 DEF Arrive, IsValid, IsUsed, SessionRow
  <2>2. [Idle EXCEPT !.pc = "arrived", !.session = s, !.actor = session[s].user,
                     !.copy = user[session[s].user]] \in Request
    BY <2>1 DEF Request, Pcs
  <2> QED
    BY <1>0, <1>1, <1>5, <2>2 DEF Arrive
<1>6. CASE Serve(q)
  <2>1. \A s \in Sessions : Slid(session[s]) \in SessionRow
    BY DEF Slid, SessionRow
  <2>2. session' \in [Sessions -> SessionRow]
    BY <1>6, <2>1 DEF Serve
  <2>3. request' \in [Requests -> Request]
    BY <1>0, <1>6 DEF Serve, Pcs
  <2> QED
    BY <1>6, <2>2, <2>3 DEF Serve
<1>7. CASE Logout(q)
  <2>1. \A s : [session EXCEPT ![s].revoked = IF IsValid(s) THEN TRUE ELSE @]
                               \in [Sessions -> SessionRow]
    BY DEF SessionRow
  <2> QED
    BY <1>0, <1>7, <2>1 DEF Logout, Done
<1>8. CASE RevokeOthers(q)
  <2>1. session' \in [Sessions -> SessionRow]
    BY <1>8 DEF RevokeOthers, SessionRow
  <2> QED
    BY <1>0, <1>8, <2>1 DEF RevokeOthers, Done
<1>9. CASE ChangeOwnPassword(q)
  <2>1. request[q].pc \in {"forced", "serving"}
    BY <1>9 DEF ChangeOwnPassword, Signed
  <2>2. user[request[q].actor] \in UserRow
    BY <2>1 DEF Named, SlotNamed
  <2> DEFINE r == [request[q] EXCEPT !.pc = "own", !.copy = user[request[q].actor]]
  <2>3. r \in Request
    BY <2>2 DEF Request, Pcs
  <2>4. request' = [request EXCEPT ![q] = r]
    BY <1>9 DEF ChangeOwnPassword
  <2> HIDE DEF r
  <2>5. request' \in [Requests -> Request]
    BY <2>3, <2>4
  <2> QED
    BY <1>9, <2>5 DEF ChangeOwnPassword
<1>10. CASE SetOwnPassword(q)
  <2> DEFINE u == request[q].actor
             b == IF user[u].state = "here"
                  THEN Written(request[q].copy.forced, FALSE, user[u].forced) ELSE user[u].forced
  <2>1. u \in Users => b \in BOOLEAN
    BY DEF Written, Request, UserRow
  <2>2. user' = [user EXCEPT ![u].forced = b]
    BY <1>10 DEF SetOwnPassword
  <2> HIDE DEF b
  <2>3. user' \in [Users -> UserRow]
    BY <2>1, <2>2 DEF UserRow
  <2> QED
    BY <1>0, <1>10, <2>3 DEF SetOwnPassword, Done
<1>11. CASE CreateOwnToken(q) \/ RevokeOwnToken(q)
  BY <1>0, <1>11 DEF CreateOwnToken, RevokeOwnToken, Done
<1> QED
  BY <1>2, <1>3, <1>4, <1>5, <1>6, <1>7, <1>8, <1>9, <1>10, <1>11 DEF Signing

LEMMA DecideType ==
    ASSUME AccountsConstants, AccountsTypeOK, NEW q \in Requests, NEW op \in Ops, NEW t \in Users,
           NEW new \in Payload, Decide(q, op, t, new)
    PROVE  AccountsTypeOK'
<1> USE DEF AccountsTypeOK
<1> DEFINE r == [request[q] EXCEPT !.pc = "commit", !.op = op, !.target = t,
                                   !.copy = user[t], !.new = new]
<1>1. r \in Request
  BY DEF Request, Pcs
<1>2. request' = [request EXCEPT ![q] = r]
  BY DEF Decide
<1> HIDE DEF r
<1>3. request' \in [Requests -> Request]
  BY <1>1, <1>2
<1>4. overlapped' \in BOOLEAN
  BY DEF Decide
<1> QED
  BY <1>3, <1>4 DEF Decide

\* What superadmins do.
LEMMA AdministrationType ==
    ASSUME AccountsConstants, AccountsTypeOK, Named, NEW q \in Requests, Administration(q)
    PROVE  AccountsTypeOK'
<1> USE Constructors
<1>0. ASSUME AccountsTypeOK
      PROVE  /\ \A r \in Request : [request EXCEPT ![q] = r] \in [Requests -> Request]
             /\ \A p \in Pcs : [request EXCEPT ![q].pc = p] \in [Requests -> Request]
             /\ request[q].actor \in Users \cup {NoUser}
             /\ request[q].target \in Users \cup {NoUser}
             /\ Payloads \subseteq Payload /\ NoPayload \in Payload
  BY <1>0 DEF Request, AccountsConstants, AccountsTypeOK, NoPayload, Payload
<1>1. ASSUME NEW t \in Users, Impersonate(q, t) PROVE AccountsTypeOK'
  <2>1. [request[q] EXCEPT !.pc = "impersonating", !.target = t] \in Request
    BY DEF Request, Pcs, AccountsTypeOK
  <2>2. request' = [request EXCEPT ![q] = [request[q] EXCEPT !.pc = "impersonating", !.target = t]]
    BY <1>1 DEF Impersonate, AccountsTypeOK
  <2> QED
    BY <1>0, <1>1, <2>1, <2>2 DEF Impersonate, AccountsTypeOK
<1>2. ASSUME NEW t \in Users, NEW new \in Payloads, CreateUser(q, t, new) PROVE AccountsTypeOK'
  <2>1. [state |-> "here", active |-> TRUE, super |-> new.super, local |-> new.local,
         forced |-> new.local, api |-> new.api] \in UserRow
    BY <1>0 DEF UserRow, Payload
  <2> QED
    BY <1>0, <1>2, <2>1 DEF CreateUser, Done, AccountsTypeOK
<1>3. ASSUME NEW t \in Users, NEW new \in Payloads, NEW op \in {"edit", "api_edit"},
             EditUser(q, op, t, new)
      PROVE  AccountsTypeOK'
  BY <1>0, <1>3, DecideType DEF EditUser, Ops
<1>4. ASSUME NEW t \in Users, DeactivateUser(q, t) \/ ResetPassword(q, t) \/ DeleteUser(q, t)
      PROVE  AccountsTypeOK'
  BY <1>0, <1>4, DecideType DEF DeactivateUser, ResetPassword, DeleteUser, Ops
<1>5. ASSUME NEW t \in Users, RevokeUserSessions(q, t) PROVE AccountsTypeOK'
  BY <1>0, <1>5 DEF RevokeUserSessions, AccountsTypeOK
<1>6. CASE StartImpersonation(q)
  <2>1. \A s \in Sessions :
           [session EXCEPT ![s] = NewSession(s, request[q].target, request[q].actor)]
              \in [Sessions -> SessionRow]
    BY <1>0, NewSessionType DEF AccountsTypeOK
  <2>2. session' \in [Sessions -> SessionRow]
    BY <1>6, <2>1 DEF StartImpersonation, AccountsTypeOK
  <2> QED
    BY <1>0, <1>6, <2>2 DEF StartImpersonation, Done, AccountsTypeOK
<1>7. ASSUME NEW T \in SUBSET Users, BulkDelete(q, T) PROVE AccountsTypeOK'
  <2> DEFINE r == [request[q] EXCEPT !.pc = "bulk", !.op = "bulk", !.todo = T]
  <2>1. r \in Request
    BY DEF Request, Pcs, Ops, AccountsTypeOK
  <2>2. request' = [request EXCEPT ![q] = r]
    BY <1>7 DEF BulkDelete, AccountsTypeOK
  <2> QED
    BY <1>0, <1>7, <2>1, <2>2 DEF BulkDelete, AccountsTypeOK
<1>8. CASE BulkNext(q)
  <2>1. request[q].todo \subseteq Users
    BY DEF Request, AccountsTypeOK
  <2>2. ASSUME NEW t \in request[q].todo
        PROVE  /\ [request EXCEPT ![q].todo = @ \ {t}] \in [Requests -> Request]
               /\ [request EXCEPT ![q].pc = "commit", ![q].target = t, ![q].todo = @ \ {t}]
                     \in [Requests -> Request]
    <3> DEFINE r == [request[q] EXCEPT !.pc = "commit", !.target = t, !.todo = @ \ {t}]
    <3>1. r \in Request /\ [request[q] EXCEPT !.todo = @ \ {t}] \in Request
      BY <2>1 DEF Request, Pcs, AccountsTypeOK
    <3>2. [request EXCEPT ![q].pc = "commit", ![q].target = t, ![q].todo = @ \ {t}]
              = [request EXCEPT ![q] = r]
      BY DEF AccountsTypeOK
    <3> QED
      BY <1>0, <3>1, <3>2
  <2>3. request' \in [Requests -> Request]
    BY <1>0, <1>8, <2>2 DEF BulkNext, Done
  <2>4. overlapped' \in BOOLEAN
    BY <1>8 DEF BulkNext, AccountsTypeOK
  <2> QED
    BY <1>8, <2>3, <2>4 DEF BulkNext, AccountsTypeOK
<1>9. CASE CommitChange(q)
  <2>1. request[q].target \in Users /\ request[q] \in Request
    BY <1>9 DEF CommitChange, Named, SlotNamed, AccountsTypeOK
  <2>2. user' \in [Users -> UserRow]
    BY <1>9, <2>1, ChangedType DEF CommitChange, AccountsTypeOK
  <2>3. \A s \in Sessions : [session[s] EXCEPT !.due = @ \/ HasToEnd(request[q])] \in SessionRow
    BY DEF SessionRow, AccountsTypeOK
  <2>4. session' \in [Sessions -> SessionRow]
    BY <1>9, <2>3 DEF CommitChange, AccountsTypeOK
  <2>5. request' \in [Requests -> Request]
    BY <1>0, <1>9, <2>1 DEF CommitChange
  <2> QED
    BY <1>9, <2>2, <2>4, <2>5 DEF CommitChange, AccountsTypeOK
<1>10. CASE CommitDelete(q)
  <2>1. [Blank EXCEPT !.state = "gone"] \in UserRow
    BY DEF UserRow
  <2>2. user' \in [Users -> UserRow]
    BY <1>10, <2>1 DEF CommitDelete, AccountsTypeOK
  <2>3. \A s \in Sessions : [session[s] EXCEPT !.by = NoUser] \in SessionRow
    BY DEF SessionRow, AccountsTypeOK
  <2>4. session' \in [Sessions -> SessionRow]
    BY <1>10, <2>3 DEF CommitDelete, AccountsTypeOK
  <2>5. [request[q] EXCEPT !.pc = "bulk", !.target = NoUser] \in Request
    BY DEF Request, Pcs, AccountsTypeOK
  <2>6. request' \in [Requests -> Request]
    BY <1>0, <1>10, <2>5 DEF CommitDelete
  <2> QED
    BY <1>10, <2>2, <2>4, <2>6 DEF CommitDelete, AccountsTypeOK
<1>11. CASE CommitRaises(q)
  BY <1>0, <1>11 DEF CommitRaises, Done, AccountsTypeOK
<1>12. CASE RevokeAll(q)
  <2>1. session' \in [Sessions -> SessionRow]
    BY <1>12 DEF RevokeAll, SessionRow, AccountsTypeOK
  <2> QED
    BY <1>0, <1>12, <2>1 DEF RevokeAll, Done, AccountsTypeOK
<1> QED
  BY <1>1, <1>2, <1>3, <1>4, <1>5, <1>6, <1>7, <1>8, <1>9, <1>10, <1>11, <1>12
     DEF Administration

LEMMA AccountsTypeStep ==
    ASSUME AccountsConstants, AccountsTypeOK, Named, [AccountsNext]_accountVars
    PROVE  AccountsTypeOK'
<1>1. ASSUME NEW q \in Requests, Die(q) PROVE AccountsTypeOK'
  <2>1. session' \in [Sessions -> SessionRow]
    BY <1>1 DEF Die, SessionRow, AccountsTypeOK
  <2>2. spent' \in [arrivals : 0..MaxArrivals, deaths : 0..MaxDeaths]
    BY <1>1 DEF Die, AccountsConstants, AccountsTypeOK
  <2> QED
    BY <1>1, <2>1, <2>2, Constructors DEF Die, Done, AccountsTypeOK
<1>2. ASSUME NEW s \in Sessions, Lapse(s) PROVE AccountsTypeOK'
  <2>1. PICK old \in BOOLEAN : session' = [session EXCEPT ![s].lapsed = TRUE, ![s].old = old]
    BY <1>2 DEF Lapse
  <2>2. [session[s] EXCEPT !.lapsed = TRUE, !.old = old] \in SessionRow
    BY DEF SessionRow, AccountsTypeOK
  <2>3. session' = [session EXCEPT ![s] = [session[s] EXCEPT !.lapsed = TRUE, !.old = old]]
    BY <2>1 DEF AccountsTypeOK
  <2>4. session' \in [Sessions -> SessionRow]
    BY <2>2, <2>3 DEF AccountsTypeOK
  <2> QED
    BY <1>2, <2>4 DEF Lapse, AccountsTypeOK
<1>3. CASE UNCHANGED accountVars
  BY <1>3 DEF accountVars, AccountsTypeOK
<1> QED
  BY <1>1, <1>2, <1>3, SigningType, AdministrationType DEF AccountsNext

-----------------------------------------------------------------------------
(* Cutting an account off *)

\* What one step makes of a session: it goes, it is started, or it stays what it
\* was and, once revoked, revoked; it has to end only when a request is about
\* to end it.
SessionStays(s) ==
    /\ session'[s].user = session[s].user
    /\ session[s].user = NoUser => session'[s].by = session[s].by /\ ~session'[s].revoked
    /\ session[s].revoked => session'[s].revoked
    /\ session'[s].due =>
          \/ session[s].due
          \/ session[s].user # NoUser /\ \E q \in Requests :
                request'[q].pc = "revoking" /\ request'[q].target = session[s].user

Evolves(s) ==
    \/ session'[s] = NoRow
    \/ /\ ~IsUsed(s) /\ session'[s].user # NoUser
       /\ ~session'[s].revoked /\ ~session'[s].due
    \/ SessionStays(s)

LEMMA SigningSessions ==
    ASSUME AccountsConstants, AccountsTypeOK, CutInv, NEW q \in Requests, Signing(q),
           NEW s \in Sessions
    PROVE  Evolves(s)
<1> USE DEF AccountsTypeOK
<1>0. session[s] \in SessionRow
  OBVIOUS
<1>s. session'[s] = session[s] => Evolves(s)
  BY DEF Evolves, SessionStays, CutInv, Unused, IsUsed
<1>1. CASE UNCHANGED session
  BY <1>s, <1>1
<1>2. CASE FinishLogin(q)
  <2>1. request[q].actor \in Users /\ NoUser \notin Users
    BY <1>2 DEF FinishLogin, CutInv, Named, SlotNamed, AccountsConstants
  <2>2. CASE \E z \in Sessions : ~IsUsed(z) /\ session' =
                [session EXCEPT ![z] = NewSession(z, request[q].actor, NoUser)]
    <3>1. PICK z \in Sessions : ~IsUsed(z) /\ session' =
                [session EXCEPT ![z] = NewSession(z, request[q].actor, NoUser)]
      BY <2>2
    <3>2. CASE s = z
      <4>1. session'[s] = NewSession(s, request[q].actor, NoUser)
        BY <3>1, <3>2
      <4> QED
        BY <2>1, <3>1, <3>2, <4>1, NewSessionType DEF Evolves, Request
    <3> QED
      BY <1>s, <3>1, <3>2
  <2> QED
    BY <1>1, <1>2, <2>2 DEF FinishLogin
<1>3. CASE Serve(q)
  <2>1. \/ session'[s] = session[s]
        \/ IsUsed(s) /\ session'[s] = [session[s] EXCEPT !.lapsed = session[s].old]
    BY <1>3 DEF Serve, Slid
  <2> QED
    BY <1>0, <1>s, <2>1 DEF Evolves, SessionStays, IsUsed, SessionRow
<1>4. CASE Logout(q)
  <2> DEFINE z == request[q].session
             b == IF IsValid(z) THEN TRUE ELSE session[z].revoked
  <2>1. session' = [session EXCEPT ![z].revoked = b]
    BY <1>4 DEF Logout
  <2>2. CASE s = z
    <3>1. session'[s] = [session[s] EXCEPT !.revoked = b]
      BY <2>1, <2>2
    <3>2. ~IsUsed(s) => ~IsValid(s)
      BY DEF IsValid
    <3> QED
      BY <1>0, <2>2, <3>1, <3>2 DEF Evolves, SessionStays, SessionRow, IsUsed, CutInv, Unused
  <2>3. CASE s # z
    BY <1>s, <2>1, <2>3
  <2> QED
    BY <2>2, <2>3
<1>5. CASE RevokeOthers(q)
  <2>1. request[q].actor # NoUser
    BY <1>5 DEF RevokeOthers, CutInv, Named, SlotNamed, AccountsConstants
  <2>2. \/ session'[s] = session[s]
        \/ session'[s] = [session[s] EXCEPT !.revoked = TRUE] /\ IsUsed(s)
    BY <1>5, <2>1 DEF RevokeOthers, IsUsed
  <2> QED
    BY <1>0, <1>s, <2>2 DEF Evolves, SessionStays, SessionRow, IsUsed
<1> QED
  BY <1>1, <1>2, <1>3, <1>4, <1>5 DEF Signing, CheckPassword, Bearer, Arrive, ChangeOwnPassword,
     SetOwnPassword, CreateOwnToken, RevokeOwnToken

LEMMA AdministrationSessions ==
    ASSUME AccountsConstants, AccountsTypeOK, CutInv, NEW q \in Requests, Administration(q),
           NEW s \in Sessions
    PROVE  Evolves(s)
<1> USE DEF AccountsTypeOK
<1>0. session[s] \in SessionRow
  OBVIOUS
<1>s. session'[s] = session[s] => Evolves(s)
  BY DEF Evolves, SessionStays, CutInv, Unused, IsUsed
<1>1. CASE UNCHANGED session
  BY <1>s, <1>1
<1>2. CASE StartImpersonation(q)
  <2>1. request[q].target \in Users /\ NoUser \notin Users
    BY <1>2 DEF StartImpersonation, CutInv, Named, SlotNamed, AccountsConstants
  <2>2. CASE \E z \in Sessions : ~IsUsed(z) /\ session' =
                [session EXCEPT ![z] = NewSession(z, request[q].target, request[q].actor)]
    <3>1. PICK z \in Sessions : ~IsUsed(z) /\ session' =
                [session EXCEPT ![z] = NewSession(z, request[q].target, request[q].actor)]
      BY <2>2
    <3>2. CASE s = z
      <4>1. session'[s] = NewSession(s, request[q].target, request[q].actor)
        BY <3>1, <3>2
      <4> QED
        BY <2>1, <3>1, <3>2, <4>1, NewSessionType DEF Evolves, Request
    <3> QED
      BY <1>s, <3>1, <3>2
  <2> QED
    BY <1>1, <1>2, <2>2 DEF StartImpersonation
<1>3. CASE CommitChange(q)
  <2>1. HasToEnd(request[q]) => /\ request'[q].pc = "revoking"
                                /\ request'[q].target = request[q].target
    BY <1>3 DEF CommitChange, HasToEnd, CutsOff, Revoking, Idle
  <2>2. \/ session'[s] = session[s]
        \/ /\ session[s].user = request[q].target /\ IsUsed(s)
           /\ session'[s] = [session[s] EXCEPT !.due = @ \/ HasToEnd(request[q])]
    BY <1>3 DEF CommitChange
  <2> QED
    BY <1>0, <1>s, <2>1, <2>2 DEF Evolves, SessionStays, SessionRow, IsUsed
<1>4. CASE CommitDelete(q)
  <2>1. \/ session'[s] = session[s] \/ session'[s] = NoRow
        \/ session'[s] = [session[s] EXCEPT !.by = NoUser]
    BY <1>4 DEF CommitDelete
  <2>2. session'[s] = [session[s] EXCEPT !.by = NoUser] => SessionStays(s)
    BY <1>0 DEF CutInv, Unused, IsUsed, SessionRow, SessionStays
  <2> QED
    BY <1>s, <2>1, <2>2 DEF Evolves
<1>5. CASE RevokeAll(q)
  <2>1. \/ session'[s] = session[s]
        \/ session'[s] = [session[s] EXCEPT !.revoked = TRUE] /\ IsUsed(s)
    BY <1>5 DEF RevokeAll
  <2> QED
    BY <1>0, <1>s, <2>1 DEF Evolves, SessionStays, SessionRow, IsUsed
<1>6. ASSUME NEW t \in Users, NEW new \in Payloads,
             \/ Impersonate(q, t) \/ CreateUser(q, t, new) \/ DeactivateUser(q, t)
             \/ ResetPassword(q, t) \/ DeleteUser(q, t) \/ RevokeUserSessions(q, t)
             \/ \E op \in {"edit", "api_edit"} : EditUser(q, op, t, new)
      PROVE  UNCHANGED session
  BY <1>6 DEF Impersonate, CreateUser, EditUser, DeactivateUser, ResetPassword, DeleteUser,
     RevokeUserSessions, Decide
<1>7. ASSUME NEW t \in Users,
             \/ Impersonate(q, t) \/ DeactivateUser(q, t) \/ ResetPassword(q, t)
             \/ DeleteUser(q, t) \/ RevokeUserSessions(q, t)
      PROVE  UNCHANGED session
  BY <1>7 DEF Impersonate, DeactivateUser, ResetPassword, DeleteUser, RevokeUserSessions, Decide
<1>8. ASSUME NEW T \in SUBSET Users, BulkDelete(q, T) PROVE UNCHANGED session
  BY <1>8 DEF BulkDelete
<1>9. CASE BulkNext(q) \/ CommitRaises(q)
  BY <1>1, <1>9 DEF BulkNext, CommitRaises
<1> QED
  BY <1>1, <1>2, <1>3, <1>4, <1>5, <1>6, <1>7, <1>8, <1>9 DEF Administration

LEMMA SessionStep ==
    ASSUME AccountsConstants, AccountsTypeOK, CutInv, [AccountsNext]_accountVars, NEW s \in Sessions
    PROVE  Evolves(s)
<1> USE DEF AccountsTypeOK
<1>0. session[s] \in SessionRow
  OBVIOUS
<1>s. session'[s] = session[s] => Evolves(s)
  BY DEF Evolves, SessionStays, CutInv, Unused, IsUsed
<1>1. ASSUME NEW q \in Requests, Die(q) PROVE Evolves(s)
  <2>1. \/ session'[s] = session[s]
        \/ session'[s] = [session[s] EXCEPT !.due = FALSE]
    BY <1>1 DEF Die
  <2> QED
    BY <1>0, <1>s, <2>1 DEF Evolves, SessionStays, SessionRow, CutInv, Unused, IsUsed
<1>2. ASSUME NEW z \in Sessions, Lapse(z) PROVE Evolves(s)
  <2>1. PICK old \in BOOLEAN : session' = [session EXCEPT ![z].lapsed = TRUE, ![z].old = old]
    BY <1>2 DEF Lapse
  <2>2. \/ session'[s] = session[s]
        \/ session'[s] = [session[s] EXCEPT !.lapsed = TRUE, !.old = old] /\ IsUsed(s)
    BY <1>2, <2>1 DEF Lapse
  <2> QED
    BY <1>0, <1>s, <2>2 DEF Evolves, SessionStays, SessionRow, IsUsed
<1>3. CASE UNCHANGED accountVars
  BY <1>s, <1>3 DEF accountVars
<1> QED
  BY <1>1, <1>2, <1>3, SigningSessions, AdministrationSessions DEF AccountsNext

\* A step writes the slot of one request, and leaves that of one about to
\* revoke alone unless it revokes or dies.
LEMMA OneSlot ==
    ASSUME AccountsTypeOK, NEW q \in Requests, Signing(q) \/ Administration(q) \/ Die(q)
    PROVE  /\ \E r : request' = [request EXCEPT ![q] = r]
           /\ request[q].pc = "revoking" => RevokeAll(q) \/ Die(q)
<1>1. CASE Die(q)
  BY <1>1 DEF Die, Done
<1>2. CASE Signing(q)
  BY <1>2 DEF Signing, CheckPassword, Bearer, FinishLogin, Arrive, Serve, Logout, RevokeOthers,
     ChangeOwnPassword, SetOwnPassword, CreateOwnToken, RevokeOwnToken, Done, Signed, AccountsTypeOK
<1>3. CASE Administration(q)
  <2>1. ASSUME NEW t \in Users, NEW new, NEW op,
               \/ Impersonate(q, t) \/ CreateUser(q, t, new) \/ DeactivateUser(q, t)
               \/ ResetPassword(q, t) \/ DeleteUser(q, t) \/ RevokeUserSessions(q, t)
               \/ EditUser(q, op, t, new)
        PROVE  request[q].pc # "revoking" /\ \E r : request' = [request EXCEPT ![q] = r]
    BY <2>1 DEF Impersonate, CreateUser, EditUser, DeactivateUser, ResetPassword, DeleteUser,
       RevokeUserSessions, Decide, IsAdmin, Done, AccountsTypeOK
  <2>2. ASSUME NEW T \in SUBSET Users, BulkDelete(q, T)
        PROVE  request[q].pc # "revoking" /\ \E r : request' = [request EXCEPT ![q] = r]
    BY <2>2 DEF BulkDelete, IsAdmin, AccountsTypeOK
  <2>3. CASE BulkNext(q)
    BY <2>3 DEF BulkNext, Done, AccountsTypeOK
  <2>4. CASE StartImpersonation(q) \/ CommitChange(q) \/ CommitDelete(q) \/ CommitRaises(q)
    BY <2>4 DEF StartImpersonation, CommitChange, CommitDelete, CommitRaises, Done
  <2>5. CASE RevokeAll(q)
    BY <2>5 DEF RevokeAll, Done
  <2> QED
    BY <1>3, <2>1, <2>2, <2>3, <2>4, <2>5 DEF Administration
<1> QED
  BY <1>1, <1>2, <1>3

\* What is put in a request's slot still names an account.
LEMMA NamedStep ==
    ASSUME AccountsConstants, AccountsTypeOK, CutInv, [AccountsNext]_accountVars
    PROVE  Named'
<1> USE DEF CutInv
<1>1. ASSUME NEW q \in Requests, NEW r, request' = [request EXCEPT ![q] = r], SlotNamed(r)
      PROVE  Named'
  BY <1>1 DEF Named, SlotNamed, AccountsTypeOK
<1>2. SlotNamed(Idle) /\ \A t \in Users : SlotNamed(Revoking(t))
  BY DEF SlotNamed, Idle, Revoking
<1>3. ASSUME NEW q \in Requests, Signing(q) PROVE Named'
  <2>1. ASSUME NEW u \in Users, CheckPassword(q, u) \/ Bearer(q, u) PROVE Named'
    BY <1>1, <2>1 DEF CheckPassword, Bearer, SlotNamed, Idle
  <2>2. ASSUME NEW s \in Sessions, Arrive(q, s) PROVE Named'
    <3>1. session[s].user \in Users
      BY <2>2 DEF Arrive, IsValid, IsUsed, SessionRow, AccountsTypeOK
    <3> QED
      BY <1>1, <2>2, <3>1 DEF Arrive, SlotNamed, Idle
  <2>3. CASE Serve(q)
    <3>1. SlotNamed(request[q]) /\ request[q].pc = "arrived"
      BY <2>3 DEF Serve, Named
    <3>2. \A p \in {"forced", "serving"} : SlotNamed([request[q] EXCEPT !.pc = p])
      BY <3>1 DEF SlotNamed, AccountsTypeOK, Request
    <3> QED
      BY <1>1, <1>2, <2>3, <3>2 DEF Serve, AccountsTypeOK
  <2>4. CASE ChangeOwnPassword(q)
    <3>1. SlotNamed([request[q] EXCEPT !.pc = "own", !.copy = user[request[q].actor]])
      BY DEF SlotNamed, AccountsTypeOK, Request
    <3> QED
      BY <1>1, <2>4, <3>1 DEF ChangeOwnPassword, AccountsTypeOK
  <2>5. CASE FinishLogin(q) \/ Logout(q) \/ RevokeOthers(q) \/ SetOwnPassword(q)
             \/ CreateOwnToken(q) \/ RevokeOwnToken(q)
    BY <1>1, <1>2, <2>5 DEF FinishLogin, Logout, RevokeOthers, SetOwnPassword, CreateOwnToken,
       RevokeOwnToken, Done
  <2> QED
    BY <1>3, <2>1, <2>2, <2>3, <2>4, <2>5 DEF Signing
<1>4. ASSUME NEW q \in Requests, NEW op, NEW t \in Users, NEW new, Decide(q, op, t, new)
      PROVE  Named'
  <2>1. SlotNamed([request[q] EXCEPT !.pc = "commit", !.op = op, !.target = t,
                                     !.copy = user[t], !.new = new])
    BY DEF SlotNamed, AccountsTypeOK, Request
  <2> QED
    BY <1>1, <1>4, <2>1 DEF Decide, AccountsTypeOK
<1>5. ASSUME NEW q \in Requests, Administration(q) PROVE Named'
  <2>1. ASSUME NEW t \in Users, Impersonate(q, t) PROVE Named'
    <3>1. SlotNamed([request[q] EXCEPT !.pc = "impersonating", !.target = t])
      BY DEF SlotNamed, AccountsTypeOK, Request
    <3> QED
      BY <1>1, <2>1, <3>1 DEF Impersonate, AccountsTypeOK
  <2>2. ASSUME NEW t \in Users, NEW new \in Payloads, CreateUser(q, t, new) PROVE Named'
    BY <1>1, <1>2, <2>2 DEF CreateUser, Done
  <2>3. ASSUME NEW t \in Users, NEW new \in Payloads, NEW op \in {"edit", "api_edit"},
               EditUser(q, op, t, new)
        PROVE  Named'
    BY <1>4, <2>3 DEF EditUser
  <2>4. ASSUME NEW t \in Users, DeactivateUser(q, t) \/ ResetPassword(q, t) \/ DeleteUser(q, t)
        PROVE  Named'
    BY <1>4, <2>4 DEF DeactivateUser, ResetPassword, DeleteUser
  <2>5. ASSUME NEW t \in Users, RevokeUserSessions(q, t) PROVE Named'
    BY <1>1, <1>2, <2>5 DEF RevokeUserSessions
  <2>6. ASSUME NEW T \in SUBSET Users, BulkDelete(q, T) PROVE Named'
    <3>1. SlotNamed([request[q] EXCEPT !.pc = "bulk", !.op = "bulk", !.todo = T])
      BY DEF SlotNamed, AccountsTypeOK, Request
    <3> QED
      BY <1>1, <2>6, <3>1 DEF BulkDelete, AccountsTypeOK
  <2>7. CASE BulkNext(q)
    <3>1. request[q].todo \subseteq Users /\ request[q].pc = "bulk"
      BY <2>7 DEF BulkNext, Request, AccountsTypeOK
    <3>2. \A t \in request[q].todo :
             /\ SlotNamed([request[q] EXCEPT !.todo = @ \ {t}])
             /\ SlotNamed([request[q] EXCEPT !.pc = "commit", !.target = t, !.todo = @ \ {t}])
      BY <3>1 DEF SlotNamed, AccountsTypeOK, Request
    <3>3. \/ request' = [request EXCEPT ![q] = Idle]
          \/ \E t \in request[q].todo :
             \/ request' = [request EXCEPT ![q] = [request[q] EXCEPT !.todo = @ \ {t}]]
             \/ request' = [request EXCEPT ![q] = [request[q] EXCEPT !.pc = "commit",
                                                      !.target = t, !.todo = @ \ {t}]]
      BY <2>7 DEF BulkNext, Done, AccountsTypeOK
    <3> QED
      BY <1>1, <1>2, <3>2, <3>3
  <2>8. CASE CommitChange(q)
    <3>1. request[q].target \in Users
      BY <2>8 DEF CommitChange, Named, SlotNamed
    <3> QED
      BY <1>1, <1>2, <2>8, <3>1 DEF CommitChange
  <2>9. CASE CommitDelete(q)
    <3>1. SlotNamed([request[q] EXCEPT !.pc = "bulk", !.target = NoUser])
      BY DEF SlotNamed, AccountsTypeOK, Request
    <3> QED
      BY <1>1, <1>2, <2>9, <3>1 DEF CommitDelete
  <2>10. CASE StartImpersonation(q) \/ CommitRaises(q) \/ RevokeAll(q)
    BY <1>1, <1>2, <2>10 DEF StartImpersonation, CommitRaises, RevokeAll, Done
  <2> QED
    BY <1>5, <2>1, <2>2, <2>3, <2>4, <2>5, <2>6, <2>7, <2>8, <2>9, <2>10 DEF Administration
<1>6. ASSUME NEW q \in Requests, Die(q) PROVE Named'
  BY <1>1, <1>2, <1>6 DEF Die, Done
<1>7. CASE UNCHANGED request
  BY <1>7 DEF Named
<1> QED
  BY <1>3, <1>5, <1>6, <1>7 DEF AccountsNext, Lapse, accountVars

LEMMA CutStep ==
    ASSUME AccountsConstants, AccountsTypeOK, CutInv, [AccountsNext]_accountVars
    PROVE  CutInv'
<1>1. Named'
  BY NamedStep
<1>2. ASSUME NEW s \in Sessions PROVE Evolves(s)
  BY SessionStep
<1>3. Unused'
  <2> SUFFICES ASSUME NEW s \in Sessions, session'[s].user = NoUser
               PROVE  session'[s].by = NoUser /\ ~session'[s].revoked /\ ~session'[s].due
    BY DEF Unused, IsUsed
  <2>1. CASE session'[s] = NoRow
    BY <2>1 DEF NoRow
  <2>2. CASE SessionStays(s)
    BY <2>2 DEF SessionStays, CutInv, Unused, IsUsed
  <2> QED
    BY <1>2, <2>1, <2>2 DEF Evolves
<1>4. Revokes'
  <2> SUFFICES ASSUME NEW s \in Sessions,
                      session'[s].due, session'[s].user # NoUser, ~session'[s].revoked
               PROVE  \E q \in Requests : request'[q].pc = "revoking"
                                          /\ request'[q].target = session'[s].user
    BY DEF Revokes, IsUsed
  <2>1. SessionStays(s)
    BY <1>2 DEF Evolves, NoRow
  <2>2. CASE session[s].due
    <3>1. PICK p \in Requests : request[p].pc = "revoking" /\ request[p].target = session[s].user
      BY <2>1, <2>2 DEF SessionStays, CutInv, Revokes, IsUsed
    <3>2. request'[p] = request[p] \/ RevokeAll(p) \/ Die(p)
      <4>1. ASSUME NEW q \in Requests, Signing(q) \/ Administration(q) \/ Die(q)
            PROVE  request'[p] = request[p] \/ RevokeAll(p) \/ Die(p)
        BY <3>1, <4>1, OneSlot DEF AccountsTypeOK
      <4> QED
        BY <4>1 DEF AccountsNext, Lapse, accountVars
    <3>3. ~RevokeAll(p)
      <4>1. RevokeAll(p) => session'[s] = [session[s] EXCEPT !.revoked = TRUE]
        BY <2>1, <3>1 DEF RevokeAll, SessionStays, IsUsed
      <4> QED
        BY <4>1 DEF AccountsTypeOK, SessionRow
    <3>4. ~Die(p)
      <4>1. Die(p) => session'[s] = [session[s] EXCEPT !.due = FALSE]
        BY <3>1 DEF Die
      <4> QED
        BY <4>1 DEF AccountsTypeOK, SessionRow
    <3> QED
      BY <2>1, <3>1, <3>2, <3>3, <3>4 DEF SessionStays
  <2> QED
    BY <2>1, <2>2 DEF SessionStays
<1> QED
  BY <1>1, <1>3, <1>4 DEF CutInv

LEMMA CutInit == ASSUME AccountsConstants, AccountsInit PROVE AccountsTypeOK /\ CutInv
<1>1. \A s \in Sessions : session[s] = NoRow
  BY DEF AccountsInit
<1>2. \A q \in Requests : request[q] = Idle
  BY DEF AccountsInit
<1>3. CutInv
  BY <1>1, <1>2 DEF CutInv, Unused, Named, SlotNamed, Revokes, NoRow, Idle, IsUsed
<1>4. [Blank EXCEPT !.state = "here", !.active = TRUE, !.super = TRUE, !.local = TRUE,
                    !.api = TRUE] \in UserRow
  BY DEF Blank, UserRow
<1>5. spent \in [arrivals : 0..MaxArrivals, deaths : 0..MaxDeaths]
  BY DEF AccountsInit, AccountsConstants
<1>6. user \in [Users -> UserRow]
  BY <1>4, Constructors DEF AccountsInit
<1> QED
  BY <1>3, <1>5, <1>6, Constructors DEF AccountsTypeOK, AccountsInit

-----------------------------------------------------------------------------
(* A superadmin remains *)

\* What is an active superadmin now still is after the step, and the rows a
\* decision was made on still say the same.
Undisturbed ==
    \A u \in Users : user[u].state = "here" =>
        /\ user'[u].state = "here"
        /\ user'[u].active = user[u].active /\ user'[u].super = user[u].super

\* A step that decides on nothing and takes nothing from a superadmin.
LEMMA AdminQuiet ==
    ASSUME AccountsTypeOK, Named, AdminInv, Undisturbed, UNCHANGED overlapped,
           NEW q \in Requests, NEW r, request' = [request EXCEPT ![q] = r], r.pc # "commit"
    PROVE  AdminInv'
<1> SUFFICES ASSUME ~overlapped
             PROVE  /\ ActiveSuperadmins' # {}
                    /\ \A p \in Requests : request'[p].pc = "commit" =>
                          /\ Keeps(request[p])'
                          /\ \A z \in Requests \ {p} : request'[z].pc # "commit"
  BY DEF AdminInv
<1>1. ActiveSuperadmins \subseteq ActiveSuperadmins'
  BY DEF ActiveSuperadmins, IsActive, Undisturbed
<1>2. \A p \in Requests : request'[p].pc = "commit" => p # q /\ request'[p] = request[p]
  BY DEF AccountsTypeOK
<1>3. ASSUME NEW p \in Requests, request'[p].pc = "commit"
      PROVE  Keeps(request[p])' /\ \A z \in Requests \ {p} : request'[z].pc # "commit"
  <2>1. request'[p] = request[p] /\ Keeps(request[p])
    BY <1>2, <1>3 DEF AdminInv
  <2>2. Keeps(request[p])'
    <3>1. CASE ActiveSuperadmins \ {request[p].target} # {}
      BY <1>1, <2>1, <3>1 DEF Keeps
    <3>2. CASE user[request[p].target].state = "here" /\ request[p].target \in Users
      BY <2>1, <1>1, <3>2 DEF Keeps, Undisturbed
    <3>3. request[p].target \in Users
      BY <1>2, <1>3 DEF Named, SlotNamed
    <3> QED
      BY <1>1, <2>1, <3>1, <3>2, <3>3 DEF Keeps
  <2>3. \A z \in Requests \ {p} : request'[z].pc # "commit"
    BY <1>2, <1>3, <2>1 DEF AdminInv, AccountsTypeOK
  <2> QED
    BY <2>1, <2>2, <2>3
<1> QED
  BY <1>1, <1>3 DEF AdminInv

\* A step that decides: whoever decides next to somebody else is overlapped.
LEMMA AdminDecides ==
    ASSUME AccountsTypeOK, AdminInv, UNCHANGED user, NEW q \in Requests, NEW r,
           request' = [request EXCEPT ![q] = r],
           overlapped' = (overlapped \/ SomebodyDeciding(q)),
           ActiveSuperadmins # {} => Keeps(r)
    PROVE  AdminInv'
<1> SUFFICES ASSUME ~overlapped'
             PROVE  /\ ActiveSuperadmins' # {}
                    /\ \A p \in Requests : request'[p].pc = "commit" =>
                          /\ Keeps(request[p])'
                          /\ \A z \in Requests \ {p} : request'[z].pc # "commit"
  BY DEF AdminInv
<1>1. ~overlapped /\ \A z \in Requests \ {q} : request[z].pc # "commit"
  BY DEF SomebodyDeciding, AccountsTypeOK
<1>2. ActiveSuperadmins # {} /\ ActiveSuperadmins' = ActiveSuperadmins
  BY <1>1 DEF AdminInv, ActiveSuperadmins, IsActive
<1>3. \A p \in Requests : request'[p].pc = "commit" => p = q
  BY <1>1 DEF AccountsTypeOK
<1>4. Keeps(request[q])'
  BY <1>2 DEF AccountsTypeOK, Keeps
<1> QED
  BY <1>1, <1>2, <1>3, <1>4 DEF AccountsTypeOK

\* The guard of every route that may take the role away.
LEMMA GuardKeeps ==
    ASSUME NEW t \in Users, NEW r, r.target = t, ~WouldRemoveLast(t), ActiveSuperadmins # {}
    PROVE  Keeps(r)
<1>1. CASE user[t].super
  BY <1>1 DEF WouldRemoveLast, Keeps
<1>2. CASE ~user[t].super
  BY <1>2 DEF ActiveSuperadmins, Keeps
<1> QED
  BY <1>1, <1>2

\* Deciding through one of the four routes.
LEMMA AdminDecideStep ==
    ASSUME AccountsTypeOK, AdminInv, NEW q \in Requests, NEW op \in Ops, NEW t \in Users, NEW new,
           Decide(q, op, t, new),
           \/ ~WouldRemoveLast(t)
           \/ op = "reset"
           \/ op \in {"edit", "api_edit"} /\ new.active /\ new.super
    PROVE  AdminInv'
<1> DEFINE r == [request[q] EXCEPT !.pc = "commit", !.op = op, !.target = t,
                                   !.copy = user[t], !.new = new]
<1>1. /\ r.pc = "commit" /\ r.op = op /\ r.target = t /\ r.copy = user[t] /\ r.new = new
  BY DEF AccountsTypeOK, Request
<1>2. request' = [request EXCEPT ![q] = r]
  BY DEF Decide, AccountsTypeOK
<1> HIDE DEF r
<1>3. ActiveSuperadmins # {} => Keeps(r)
  <2>1. CASE ~WouldRemoveLast(t)
    BY <1>1, <2>1, GuardKeeps
  <2>2. CASE op = "reset"
    BY <1>1, <2>2 DEF Keeps
  <2>3. CASE op \in {"edit", "api_edit"} /\ new.active /\ new.super
    BY <1>1, <2>3 DEF Keeps, Decide
  <2> QED
    BY <2>1, <2>2, <2>3
<1> QED
  BY <1>2, <1>3, AdminDecides DEF Decide

\* A commit takes at most its target, and then another superadmin is there.
LEMMA AdminCommits ==
    ASSUME AccountsTypeOK, Named, AdminInv, UNCHANGED overlapped, NEW q \in Requests,
           request[q].pc = "commit", NEW r, request' = [request EXCEPT ![q] = r],
           r.pc # "commit",
           NEW entry, user' = [user EXCEPT ![request[q].target] = entry],
           Keeps(request[q]) => \/ ActiveSuperadmins \ {request[q].target} # {}
                                \/ request[q].target \in ActiveSuperadmins =>
                                       entry.state = "here" /\ entry.active /\ entry.super
    PROVE  AdminInv'
<1> DEFINE t == request[q].target
<1> SUFFICES ASSUME ~overlapped
             PROVE  /\ ActiveSuperadmins' # {}
                    /\ \A p \in Requests : request'[p].pc # "commit"
  BY DEF AdminInv
<1>1. Keeps(request[q]) /\ \A p \in Requests \ {q} : request[p].pc # "commit"
  BY DEF AdminInv
<1>2. \A p \in Requests : request'[p].pc # "commit"
  BY <1>1 DEF AccountsTypeOK
<1>3. ActiveSuperadmins # {} /\ t \in Users
  BY DEF AdminInv, Named, SlotNamed
<1>4. \A u \in Users \ {t} : user'[u] = user[u]
  BY DEF AccountsTypeOK
<1>5. user'[t] = entry
  BY <1>3 DEF AccountsTypeOK
<1>6. CASE ActiveSuperadmins \ {t} # {}
  <2>1. PICK u \in Users \ {t} : IsActive(u) /\ user[u].super
    BY <1>6 DEF ActiveSuperadmins
  <2>2. IsActive(u)' /\ user'[u].super
    BY <1>4, <2>1 DEF IsActive
  <2>3. u \in ActiveSuperadmins'
    BY <2>2 DEF ActiveSuperadmins
  <2> QED
    BY <1>2, <2>3
<1>7. CASE ActiveSuperadmins \ {t} = {}
  <2>1. t \in ActiveSuperadmins
    BY <1>3, <1>7
  <2>2. t \in ActiveSuperadmins'
    BY <1>1, <1>3, <1>5, <1>7, <2>1 DEF ActiveSuperadmins, IsActive
  <2> QED
    BY <1>2, <2>2
<1> QED
  BY <1>2, <1>6, <1>7

\* What a change its decision keeps a superadmin with makes of the row.
LEMMA ChangedKeeps ==
    ASSUME NEW r \in Request, Keeps(r), user[r.target] \in UserRow,
           r.target \in ActiveSuperadmins, ActiveSuperadmins \ {r.target} = {}
    PROVE  LET entry == Changed(r, user[r.target])
           IN  entry.state = "here" /\ entry.active /\ entry.super
<1> DEFINE old == user[r.target]
<1>1. old.state = "here" /\ old.active /\ old.super
  BY DEF ActiveSuperadmins, IsActive
<1>2. CASE r.op = "reset"
  <2>1. Changed(r, old) = [old EXCEPT !.forced = Written(r.copy.forced, TRUE, @)]
    BY <1>2 DEF Changed
  <2> QED
    BY <1>1, <2>1 DEF UserRow
<1>3. CASE r.op \in {"edit", "api_edit"} /\ r.new.active /\ r.new.super
              /\ r.copy.active = old.active /\ r.copy.super = old.super
  <2> DEFINE forced == IF SetsPassword(r) THEN TRUE
                       ELSE IF r.copy.local /\ ~r.new.local THEN FALSE ELSE r.copy.forced
             a == Written(r.copy.active, r.new.active, old.active)
             b == Written(r.copy.super, r.new.super, old.super)
             c == Written(r.copy.local, r.new.local, old.local)
             d == Written(r.copy.api, r.new.api, old.api)
             e == Written(r.copy.forced, forced, old.forced)
  <2>1. Changed(r, old) =
          [old EXCEPT !.active = a, !.super = b, !.local = c, !.api = d, !.forced = e]
    BY <1>3 DEF Changed, Edited
  <2>2. a /\ b
    BY <1>1, <1>3 DEF Written, Request, Payload, UserRow
  <2> HIDE DEF a, b, c, d, e
  <2> QED
    BY <1>1, <2>1, <2>2 DEF UserRow
<1> QED
  BY <1>2, <1>3 DEF Keeps

LEMMA AdminStep ==
    ASSUME AccountsConstants, AccountsTypeOK, Named, AdminInv, [AccountsNext]_accountVars
    PROVE  AdminInv'
<1>u. UNCHANGED user => Undisturbed
  BY DEF Undisturbed
<1>i. Idle.pc # "commit" /\ \A t : Revoking(t).pc # "commit"
  BY DEF Idle, Revoking
<1>1. ASSUME NEW q \in Requests, Signing(q) PROVE AdminInv'
  <2>1. ASSUME UNCHANGED <<user, overlapped>>,
               \E r : request' = [request EXCEPT ![q] = r] /\ r.pc # "commit"
        PROVE  AdminInv'
    BY <1>u, <2>1, AdminQuiet
  <2>2. ASSUME NEW u \in Users, CheckPassword(q, u) \/ Bearer(q, u) PROVE AdminInv'
    <3>1. \A p \in {"login", "serving"} :
             [Idle EXCEPT !.pc = p, !.actor = u, !.copy = user[u]].pc # "commit"
      BY DEF Idle
    <3> QED
      BY <2>1, <2>2, <3>1 DEF CheckPassword, Bearer
  <2>3. ASSUME NEW s \in Sessions, Arrive(q, s) PROVE AdminInv'
    <3>1. [Idle EXCEPT !.pc = "arrived", !.session = s, !.actor = session[s].user,
                       !.copy = user[session[s].user]].pc # "commit"
      BY DEF Idle
    <3> QED
      BY <2>1, <2>3, <3>1 DEF Arrive
  <2>4. CASE Serve(q)
    <3>1. \A p \in {"forced", "serving"} : [request[q] EXCEPT !.pc = p].pc # "commit"
      BY DEF AccountsTypeOK, Request
    <3> QED
      BY <1>i, <2>1, <2>4, <3>1 DEF Serve, AccountsTypeOK
  <2>5. CASE ChangeOwnPassword(q)
    <3>1. [request[q] EXCEPT !.pc = "own", !.copy = user[request[q].actor]].pc # "commit"
      BY DEF AccountsTypeOK, Request
    <3> QED
      BY <2>1, <2>5, <3>1 DEF ChangeOwnPassword, AccountsTypeOK
  <2>6. CASE SetOwnPassword(q)
    <3>1. PICK b : user' = [user EXCEPT ![request[q].actor].forced = b]
      BY <2>6 DEF SetOwnPassword
    <3>2. Undisturbed
      BY <3>1 DEF Undisturbed, AccountsTypeOK, UserRow
    <3> QED
      BY <1>i, <2>6, <3>2, AdminQuiet DEF SetOwnPassword, Done
  <2>7. CASE \/ FinishLogin(q) \/ Logout(q) \/ RevokeOthers(q)
             \/ CreateOwnToken(q) \/ RevokeOwnToken(q)
    BY <1>i, <2>1, <2>7 DEF FinishLogin, Logout, RevokeOthers, CreateOwnToken, RevokeOwnToken, Done
  <2> QED
    BY <1>1, <2>2, <2>3, <2>4, <2>5, <2>6, <2>7 DEF Signing
<1>2. ASSUME NEW q \in Requests, Administration(q) PROVE AdminInv'
  <2>0. ASSUME UNCHANGED <<user, overlapped>>,
               \E r : request' = [request EXCEPT ![q] = r] /\ r.pc # "commit"
        PROVE  AdminInv'
    BY <1>u, <2>0, AdminQuiet
  <2>1. ASSUME NEW t \in Users, Impersonate(q, t) PROVE AdminInv'
    <3>1. [request[q] EXCEPT !.pc = "impersonating", !.target = t].pc # "commit"
      BY DEF AccountsTypeOK, Request
    <3> QED
      BY <2>0, <2>1, <3>1 DEF Impersonate, AccountsTypeOK
  <2>2. ASSUME NEW t \in Users, NEW new \in Payloads, CreateUser(q, t, new) PROVE AdminInv'
    <3>1. Undisturbed
      BY <2>2 DEF CreateUser, Undisturbed, AccountsTypeOK
    <3> QED
      BY <1>i, <2>2, <3>1, AdminQuiet DEF CreateUser, Done
  <2>3. ASSUME NEW t \in Users, NEW new \in Payloads, NEW op \in {"edit", "api_edit"},
               EditUser(q, op, t, new)
        PROVE  AdminInv'
    <3>1. op \in Ops
      BY DEF Ops
    <3>2. ~WouldRemoveLast(t) \/ (new.active /\ new.super)
      <4>1. /\ user[t].super /\ ~(new.active /\ new.super) => ~WouldRemoveLast(t)
            /\ ~user[t].super => ~WouldRemoveLast(t)
        BY <2>3 DEF EditUser, WouldRemoveLast
      <4> QED
        BY <4>1
    <3> QED
      BY <2>3, <3>1, <3>2, AdminDecideStep DEF EditUser
  <2>4. ASSUME NEW t \in Users, DeactivateUser(q, t) \/ ResetPassword(q, t) \/ DeleteUser(q, t)
        PROVE  AdminInv'
    BY <2>4, AdminDecideStep DEF DeactivateUser, ResetPassword, DeleteUser, Ops
  <2>5. ASSUME NEW t \in Users, RevokeUserSessions(q, t) PROVE AdminInv'
    BY <1>i, <2>0, <2>5 DEF RevokeUserSessions
  <2>6. ASSUME NEW T \in SUBSET Users, BulkDelete(q, T) PROVE AdminInv'
    <3>1. [request[q] EXCEPT !.pc = "bulk", !.op = "bulk", !.todo = T].pc # "commit"
      BY DEF AccountsTypeOK, Request
    <3> QED
      BY <2>0, <2>6, <3>1 DEF BulkDelete, AccountsTypeOK
  <2>7. CASE BulkNext(q)
    <3>1. CASE Done(q) /\ UNCHANGED overlapped
      BY <1>i, <2>0, <2>7, <3>1 DEF BulkNext, Done
    <3>2. ASSUME NEW t \in request[q].todo, request' = [request EXCEPT ![q].todo = @ \ {t}],
                 UNCHANGED overlapped
          PROVE  AdminInv'
      <4>1. [request[q] EXCEPT !.todo = @ \ {t}].pc # "commit"
        BY <2>7 DEF AccountsTypeOK, Request, BulkNext
      <4> QED
        BY <2>0, <2>7, <3>2, <4>1 DEF BulkNext, AccountsTypeOK
    <3>3. ASSUME NEW t \in request[q].todo, ~WouldRemoveLast(t),
                 request' = [request EXCEPT ![q].pc = "commit", ![q].target = t,
                                            ![q].todo = @ \ {t}],
                 overlapped' = (overlapped \/ SomebodyDeciding(q))
          PROVE  AdminInv'
      <4> DEFINE r == [request[q] EXCEPT !.pc = "commit", !.target = t, !.todo = @ \ {t}]
      <4>1. r.target = t /\ t \in Users
        BY DEF AccountsTypeOK, Request
      <4>2. request' = [request EXCEPT ![q] = r]
        BY <3>3 DEF AccountsTypeOK
      <4> HIDE DEF r
      <4>3. ActiveSuperadmins # {} => Keeps(r)
        BY <3>3, <4>1, GuardKeeps
      <4> QED
        BY <2>7, <3>3, <4>2, <4>3, AdminDecides DEF BulkNext
    <3> QED
      BY <2>7, <3>1, <3>2, <3>3 DEF BulkNext
  <2>8. CASE CommitChange(q)
    <3>1. request[q].target \in Users /\ request[q] \in Request
      BY <2>8 DEF CommitChange, Named, SlotNamed, AccountsTypeOK
    <3>2. Keeps(request[q]) =>
             \/ ActiveSuperadmins \ {request[q].target} # {}
             \/ request[q].target \in ActiveSuperadmins =>
                   LET entry == Changed(request[q], user[request[q].target])
                   IN  entry.state = "here" /\ entry.active /\ entry.super
      BY <3>1, ChangedKeeps DEF AccountsTypeOK
    <3>3. user' = [user EXCEPT ![request[q].target] =
                      Changed(request[q], user[request[q].target])]
      BY <2>8 DEF CommitChange
    <3>4. request[q].pc = "commit" /\ UNCHANGED overlapped
          /\ \E r : r.pc # "commit" /\ request' = [request EXCEPT ![q] = r]
      BY <1>i, <2>8 DEF CommitChange
    <3> QED
      BY <3>2, <3>3, <3>4, AdminCommits
  <2>9. CASE CommitDelete(q)
    <3>1. Keeps(request[q]) => ActiveSuperadmins \ {request[q].target} # {}
      BY <2>9 DEF CommitDelete, Keeps
    <3>2. [request[q] EXCEPT !.pc = "bulk", !.target = NoUser].pc # "commit"
      BY DEF AccountsTypeOK, Request
    <3>3. user' = [user EXCEPT ![request[q].target] = [Blank EXCEPT !.state = "gone"]]
      BY <2>9 DEF CommitDelete
    <3>4. request[q].pc = "commit" /\ UNCHANGED overlapped
          /\ \E r : r.pc # "commit" /\ request' = [request EXCEPT ![q] = r]
      BY <1>i, <2>9, <3>2 DEF CommitDelete
    <3> QED
      BY <3>1, <3>3, <3>4, AdminCommits
  <2>10. CASE StartImpersonation(q) \/ CommitRaises(q) \/ RevokeAll(q)
    BY <1>i, <2>0, <2>10 DEF StartImpersonation, CommitRaises, RevokeAll, Done
  <2> QED
    BY <1>2, <2>1, <2>2, <2>3, <2>4, <2>5, <2>6, <2>7, <2>8, <2>9, <2>10 DEF Administration
<1>3. ASSUME NEW q \in Requests, Die(q) PROVE AdminInv'
  BY <1>i, <1>u, <1>3, AdminQuiet DEF Die, Done
<1>4. CASE UNCHANGED <<user, request, overlapped>>
  BY <1>4 DEF AdminInv, Keeps, ActiveSuperadmins, IsActive
<1> QED
  BY <1>1, <1>2, <1>3, <1>4 DEF AccountsNext, Lapse, accountVars

LEMMA AdminInit == ASSUME AccountsConstants, AccountsInit PROVE AdminInv
<1>1. PICK u \in Founders : u \in Users
  BY DEF AccountsConstants
<1>2. u \in ActiveSuperadmins
  BY <1>1 DEF AccountsInit, ActiveSuperadmins, IsActive, Blank
<1> QED
  BY <1>2 DEF AdminInv, AccountsInit, Idle

-----------------------------------------------------------------------------
\* Accounts, sessions, tokens and requests have their types
\* (db/models/user.py, user_session.py, api_token.py).
THEOREM AccountsTyped ==
    ASSUME AccountsConstants
    PROVE  AccountsSpec => []AccountsTypeOK
<1>1. AccountsTypeOK /\ CutInv /\ [AccountsNext]_accountVars => (AccountsTypeOK /\ CutInv)'
  BY AccountsTypeStep, CutStep DEF CutInv
<1> QED
  BY <1>1, CutInit, PTL DEF AccountsSpec

\* Whoever was cut off is not signed in again by a late write: no slide of the
\* expiry, no new activation, no interleaving with other superadmins' changes
\* makes a session that had to end valid once nobody is about to revoke it
\* (users.py and api_v1_users.py commit the change first and revoke afterwards).
THEOREM CutOffIsFinalAlways ==
    ASSUME AccountsConstants
    PROVE  AccountsSpec => []CutOffIsFinal
<1>1. AccountsTypeOK /\ CutInv /\ [AccountsNext]_accountVars => (AccountsTypeOK /\ CutInv)'
  BY AccountsTypeStep, CutStep DEF CutInv
<1>2. CutInv => CutOffIsFinal
  BY DEF CutInv, Revokes, CutOffIsFinal, IsValid
<1> QED
  BY <1>1, <1>2, CutInit, PTL DEF AccountsSpec

\* A revoked session is never un-revoked: the requests that were let in before
\* slide its expiry without writing revoked_at back (sessions.py, the middleware
\* writes the columns it changed).
THEOREM RevokedStaysRevokedAlways ==
    ASSUME AccountsConstants
    PROVE  AccountsSpec => RevokedStaysRevoked
<1>1. AccountsTypeOK /\ CutInv /\ [AccountsNext]_accountVars => (AccountsTypeOK /\ CutInv)'
  BY AccountsTypeStep, CutStep DEF CutInv
<1>2. ASSUME AccountsTypeOK, CutInv, [AccountsNext]_accountVars
      PROVE  [\A s \in Sessions :
                 session[s].revoked => session'[s].revoked \/ session'[s] = NoRow]_accountVars
  <2>1. ASSUME NEW s \in Sessions, session[s].revoked
        PROVE  session'[s].revoked \/ session'[s] = NoRow
    BY <1>2, <2>1, SessionStep DEF Evolves, SessionStays, CutInv, Unused
  <2> QED
    BY <2>1
<1> QED
  BY <1>1, <1>2, CutInit, PTL DEF AccountsSpec, RevokedStaysRevoked

\* Somebody can always administer the application as long as no two
\* superadmins' changes cross: the guard each route takes before it commits
\* (users.py and api_v1_users.py count the other active superadmins first) is
\* still true when it commits.
THEOREM SuperadminRemainsAlways ==
    ASSUME AccountsConstants
    PROVE  AccountsSpec => []SuperadminRemains
<1>1. AccountsTypeOK /\ CutInv /\ AdminInv /\ [AccountsNext]_accountVars
         => (AccountsTypeOK /\ CutInv /\ AdminInv)'
  BY AccountsTypeStep, CutStep, AdminStep DEF CutInv
<1>2. AdminInv => SuperadminRemains
  BY DEF AdminInv, SuperadminRemains
<1> QED
  BY <1>1, <1>2, CutInit, AdminInit, PTL DEF AccountsSpec

-----------------------------------------------------------------------------
(* The policy *)

\* Version v had not been replaced before time t.
InForceAt(v, t) == v \in 0 .. row.version /\ (v < row.version => until[v] >= t)

\* Exactly the versions before the present one were replaced, by now.
History ==
    /\ row.version \in Nat
    /\ until \in [0 .. (row.version - 1) -> 0 .. second]

\* What a request has read, or is about to read, was in force at its date.
Reads ==
    \A q \in Visits :
        /\ visit[q].process \in Processes
        /\ visit[q].pc \in {"reading", "storing", "signing"} => visit[q].at <= second
        /\ visit[q].pc \in {"storing", "signing"} =>
              /\ visit[q].policy \in Policies
              /\ InForceAt(visit[q].policy.version, visit[q].at)

\* What a process keeps was in force when its row was loaded.
CachedInForce ==
    \A p \in Processes :
        cached[p].policy # NoPolicy =>
            /\ cached[p].at <= second /\ cached[p].held <= cached[p].at
            /\ InForceAt(cached[p].policy.version, cached[p].at - cached[p].held)

\* The same, one step later.
StillInForce(v, t) == v \in 0 .. row'.version /\ (v < row'.version => until'[v] >= t)

PolicyInv == PolicyTypeOK /\ History /\ Reads /\ CachedInForce


-----------------------------------------------------------------------------
(* Type correctness *)

Slot == [pc : {"idle", "reading", "storing", "served", "signing", "telling"},
         process : Processes, from : Networks, at : 0 .. MaxSeconds,
         policy : Policies \cup {NoPolicy}]

\* What the middleware leaves in a request's slot.
LEMMA DecidedSlot ==
    ASSUME PolicyConstants, NEW r \in Slot, NEW policy \in Policies
    PROVE  /\ Over(r) \in Slot /\ Over(r).pc = "idle" /\ Over(r).process = r.process
           /\ Decided(r, policy) \in Slot /\ Decided(r, policy).pc \in {"idle", "served"}
           /\ Decided(r, policy).process = r.process
<1>0. 0 \in 0 .. MaxSeconds /\ NoPolicy \in Policies \cup {NoPolicy}
  BY DEF PolicyConstants
<1>1. /\ Over(r) \in Slot /\ Over(r).pc = "idle" /\ Over(r).process = r.process
  BY <1>0 DEF Over, Slot
<1> DEFINE pc == IF Admits(policy.networks, r.from) THEN "served" ELSE "idle"
<1>2. Decided(r, policy) = [Over(r) EXCEPT !.pc = pc] /\ pc \in {"idle", "served"}
  BY DEF Decided
<1> HIDE DEF pc
<1> QED
  BY <1>1, <1>2 DEF Slot

LEMMA PolicyTypeStep ==
    ASSUME PolicyConstants, PolicyInv, PolicyNext
    PROVE  PolicyTypeOK'
<1> USE DEF PolicyTypeOK, PolicyInv
<1>0. visit \in [Visits -> Slot]
  BY DEF Slot
<1>p. row \in Policies
  OBVIOUS
<1>r. (PolicyTypeOK' <=> /\ row' \in Policies
                         /\ cached' \in [Processes -> Copies]
                         /\ visit' \in [Visits -> Slot]
                         /\ second' \in 0 .. MaxSeconds
                         /\ \E r \in SUBSET Versions : until' \in [r -> 0 .. MaxSeconds])
  BY DEF Slot, Policies, Versions, Copies
<1>1. ASSUME NEW q \in Visits, UseCopy(q) PROVE PolicyTypeOK'
  <2>1. cached[visit[q].process].policy \in Policies
    BY <1>0, <1>1 DEF UseCopy, Fresh, Copies, NoCopy, Slot
  <2>2. visit' \in [Visits -> Slot]
    BY <1>0, <1>1, <2>1, DecidedSlot DEF UseCopy
  <2> QED
    BY <1>r, <1>1, <2>2 DEF UseCopy
<1>2. ASSUME NEW q \in Visits, BeginLoad(q) PROVE PolicyTypeOK'
  <2>1. visit' \in [Visits -> Slot]
    BY <1>0, <1>2 DEF BeginLoad, Slot
  <2> QED
    BY <1>r, <1>2, <2>1 DEF BeginLoad
<1>3. ASSUME NEW q \in Visits, ReadRow(q) PROVE PolicyTypeOK'
  <2>1. visit' \in [Visits -> Slot]
    BY <1>0, <1>3 DEF ReadRow, Slot
  <2> QED
    BY <1>r, <1>3, <2>1 DEF ReadRow
<1>4. ASSUME NEW q \in Visits, StorePolicy(q) PROVE PolicyTypeOK'
  <2>1. visit[q].policy \in Policies /\ visit[q].at \in 0 .. MaxSeconds
    BY <1>0, <1>4 DEF Slot, StorePolicy, Reads
  <2>2. visit' \in [Visits -> Slot]
    BY <1>0, <1>4, <2>1, DecidedSlot DEF StorePolicy
  <2>3. cached' \in [Processes -> Copies]
    BY <1>4, <2>1 DEF StorePolicy, CopyOf, Copies, PolicyConstants
  <2> QED
    BY <1>r, <1>4, <2>2, <2>3 DEF StorePolicy
<1>5. ASSUME NEW q \in Visits, Leave(q) PROVE PolicyTypeOK'
  <2>1. visit' \in [Visits -> Slot]
    BY <1>0, <1>5, <1>p, DecidedSlot DEF Leave
  <2> QED
    BY <1>r, <1>5, <2>1 DEF Leave
<1>6. ASSUME NEW q \in Visits, NEW networks \in SUBSET Networks, SavePolicy(q, networks)
      PROVE  PolicyTypeOK'
  <2>1. visit' \in [Visits -> Slot]
    BY <1>0, <1>6 DEF SavePolicy, Slot
  <2>2. row.version + 1 \in Versions /\ 0 .. row.version \in SUBSET Versions
    BY <1>6 DEF SavePolicy, Policies, Versions, PolicyConstants
  <2>3. row' \in Policies
    BY <1>6, <2>2 DEF SavePolicy, Policies
  <2>4. \A v \in 0 .. row.version : v # row.version => until[v] \in 0 .. MaxSeconds
    BY DEF History, PolicyConstants
  <2>5. until' \in [0 .. row.version -> 0 .. MaxSeconds]
    BY <1>6, <2>4 DEF SavePolicy
  <2> QED
    BY <1>r, <1>6, <2>1, <2>2, <2>3, <2>5 DEF SavePolicy
<1>7. ASSUME NEW q \in Visits, Invalidate(q) PROVE PolicyTypeOK'
  <2>1. visit' \in [Visits -> Slot]
    BY <1>0, <1>7, <1>p, DecidedSlot DEF Invalidate
  <2>2. cached' \in [Processes -> Copies]
    BY <1>7 DEF Invalidate, Copies
  <2> QED
    BY <1>r, <1>7, <2>1, <2>2 DEF Invalidate
<1>8. ASSUME NEW p \in Processes, Restart(p) PROVE PolicyTypeOK'
  <2>1. visit' \in [Visits -> Slot]
    BY <1>0, <1>8, <1>p, DecidedSlot DEF Restart
  <2>2. cached' \in [Processes -> Copies]
    BY <1>8 DEF Restart, Copies
  <2> QED
    BY <1>r, <1>8, <2>1, <2>2 DEF Restart
<1>9. CASE SecondPasses
  <2>1. second' \in 0 .. MaxSeconds
    BY <1>9 DEF SecondPasses, PolicyConstants
  <2> QED
    BY <1>r, <1>9, <2>1 DEF SecondPasses
<1>10. ASSUME NEW q \in Visits, LoadSettings(q) PROVE PolicyTypeOK'
  <2>1. visit' \in [Visits -> Slot]
    BY <1>0, <1>10 DEF LoadSettings, Slot
  <2> QED
    BY <1>r, <1>10, <2>1 DEF LoadSettings
<1>11. ASSUME NEW q \in Visits, SignsIn(q) PROVE PolicyTypeOK'
  <2>1. /\ visit[q].policy \in Policies /\ visit[q].at <= second
        /\ visit[q].at \in Nat /\ second \in 0 .. MaxSeconds /\ MaxSeconds \in Nat
    BY <1>0, <1>11 DEF Slot, SignsIn, Reads, PolicyConstants
  <2>2. visit' \in [Visits -> Slot]
    BY <1>0, <1>11, <1>p, DecidedSlot DEF SignsIn
  <2>3. second - visit[q].at \in 0 .. MaxSeconds
    BY <2>1
  <2>4. [at |-> second, held |-> second - visit[q].at, policy |-> visit[q].policy] \in Copies
    BY <2>1, <2>3 DEF Copies
  <2>5. cached' \in [Processes -> Copies]
    BY <1>11, <2>4 DEF SignsIn
  <2> QED
    BY <1>r, <1>11, <2>2, <2>5 DEF SignsIn
<1> QED
  BY <1>1, <1>2, <1>3, <1>4, <1>5, <1>6, <1>7, <1>8, <1>9, <1>10, <1>11 DEF PolicyNext, NetworkAllowed

-----------------------------------------------------------------------------
(* A date keeps its promise *)

\* Only a save replaces a version, and only the one in force now.
LEMMA StepOfHistory ==
    ASSUME PolicyConstants, PolicyInv, PolicyNext
    PROVE  /\ History'
           /\ second' >= second /\ second' \in Nat
           /\ \A v, t : t <= second /\ InForceAt(v, t) => StillInForce(v, t)
<1> USE DEF PolicyInv
<1>0. second \in Nat /\ second \in 0 .. MaxSeconds
  BY DEF PolicyTypeOK, PolicyConstants
<1>1. ASSUME NEW q \in Visits, NEW networks \in SUBSET Networks, SavePolicy(q, networks)
      PROVE  /\ History' /\ second' = second
             /\ \A v, t : t <= second /\ InForceAt(v, t) => StillInForce(v, t)
  <2>1. /\ row'.version = row.version + 1
        /\ until' = [v \in 0 .. row.version |-> IF v = row.version THEN second ELSE until[v]]
        /\ second' = second
    BY <1>1 DEF SavePolicy
  <2>2. row.version \in Nat
    BY DEF History
  <2>3. \A v \in 0 .. row.version : until'[v] = IF v = row.version THEN second ELSE until[v]
    BY <2>1
  <2>4. \A v \in 0 .. row.version : until'[v] \in 0 .. second
    BY <1>0, <2>2, <2>3 DEF History
  <2>5. History'
    BY <2>1, <2>2, <2>4 DEF History
  <2>6. ASSUME NEW v, NEW t, t <= second, InForceAt(v, t) PROVE StillInForce(v, t)
    BY <2>1, <2>2, <2>3, <2>6 DEF InForceAt, StillInForce
  <2> QED
    BY <2>1, <2>5, <2>6
<1>2. ASSUME UNCHANGED <<row, until>>, second' >= second, second' \in Nat
      PROVE  /\ History'
             /\ \A v, t : t <= second /\ InForceAt(v, t) => StillInForce(v, t)
  <2>1. History'
    BY <1>0, <1>2 DEF History
  <2> QED
    BY <1>2, <2>1 DEF InForceAt, StillInForce
<1>3. CASE SecondPasses
  BY <1>0, <1>2, <1>3 DEF SecondPasses
<1>4. ASSUME NEW q \in Visits,
             NetworkAllowed(q) \/ LoadSettings(q) \/ SignsIn(q) \/ Leave(q) \/ Invalidate(q)
      PROVE  UNCHANGED <<row, until, second>>
  BY <1>4 DEF NetworkAllowed, UseCopy, BeginLoad, ReadRow, StorePolicy, LoadSettings, SignsIn,
              Leave, Invalidate
<1>5. ASSUME NEW p \in Processes, Restart(p) PROVE UNCHANGED <<row, until, second>>
  BY <1>5 DEF Restart
<1> QED
  BY <1>0, <1>1, <1>2, <1>3, <1>4, <1>5 DEF PolicyNext

\* What happens to a slot: what it is about to do, and on what grounds.
LEMMA StepOfSlot ==
    ASSUME PolicyConstants, PolicyInv, PolicyNext, NEW q \in Visits
    PROVE  /\ visit'[q].process = visit[q].process
           /\ \/ visit'[q].pc \notin {"reading", "storing", "signing"}
              \/ visit'[q].pc = "reading" /\ visit'[q].at = second
              \/ /\ visit'[q].pc = "signing" /\ visit'[q].at = second
                 /\ visit'[q].policy = row
              \/ /\ visit'[q].pc = "storing" /\ visit[q].pc = "reading"
                 /\ visit'[q].at = visit[q].at
                 /\ visit'[q].policy = row
              \/ visit'[q] = visit[q]
<1> USE DEF PolicyInv
<1>0. visit \in [Visits -> Slot] /\ row \in Policies
  BY DEF PolicyTypeOK, Slot
<1>1. ASSUME NEW r \in Visits, UseCopy(r) PROVE visit' = [visit EXCEPT ![r] = visit'[r]]
        /\ visit'[r].pc \in {"idle", "served"} /\ visit'[r].process = visit[r].process
  <2>1. cached[visit[r].process].policy \in Policies
    BY <1>0, <1>1 DEF UseCopy, Fresh, Copies, NoCopy, Slot, PolicyTypeOK
  <2> QED
    BY <1>0, <1>1, <2>1, DecidedSlot DEF UseCopy
<1>2. ASSUME NEW r \in Visits, StorePolicy(r)
      PROVE  visit' = [visit EXCEPT ![r] = visit'[r]]
        /\ visit'[r].pc \in {"idle", "served"} /\ visit'[r].process = visit[r].process
  <2>1. visit[r].policy \in Policies
    BY <1>2 DEF StorePolicy, Reads
  <2> QED
    BY <1>0, <1>2, <2>1, DecidedSlot DEF StorePolicy
<1>3. ASSUME NEW r \in Visits, SignsIn(r) \/ Leave(r) \/ Invalidate(r)
      PROVE  visit' = [visit EXCEPT ![r] = visit'[r]]
        /\ visit'[r].pc \in {"idle", "served"} /\ visit'[r].process = visit[r].process
  BY <1>0, <1>3, DecidedSlot DEF SignsIn, Leave, Invalidate
<1>4. ASSUME NEW r \in Visits, BeginLoad(r) \/ ReadRow(r) \/ LoadSettings(r)
             \/ \E networks \in SUBSET Networks : SavePolicy(r, networks)
      PROVE  r # q => visit'[q] = visit[q]
  BY <1>0, <1>4 DEF BeginLoad, ReadRow, LoadSettings, SavePolicy
<1>5. ASSUME BeginLoad(q)
      PROVE  /\ visit'[q].pc = "reading" /\ visit'[q].at = second
             /\ visit'[q].process = visit[q].process
  BY <1>0, <1>5 DEF BeginLoad, Slot
<1>6. ASSUME ReadRow(q)
      PROVE  /\ visit'[q].pc = "storing" /\ visit[q].pc = "reading"
             /\ visit'[q].at = visit[q].at /\ visit'[q].policy = row
             /\ visit'[q].process = visit[q].process
  BY <1>0, <1>6 DEF ReadRow, Slot
<1>7. ASSUME NEW networks \in SUBSET Networks, SavePolicy(q, networks)
      PROVE  visit'[q].pc = "telling" /\ visit'[q].process = visit[q].process
  BY <1>0, <1>7 DEF SavePolicy, Slot
<1>8. ASSUME NEW p \in Processes, Restart(p)
      PROVE  /\ visit'[q].process = visit[q].process
             /\ visit'[q].pc = "idle" \/ visit'[q] = visit[q]
  BY <1>0, <1>8, DecidedSlot DEF Restart
<1>9. ASSUME SecondPasses PROVE visit'[q] = visit[q]
  BY <1>9 DEF SecondPasses
<1>10. ASSUME LoadSettings(q)
       PROVE  /\ visit'[q].pc = "signing" /\ visit'[q].at = second /\ visit'[q].policy = row
              /\ visit'[q].process = visit[q].process
  BY <1>0, <1>10 DEF LoadSettings, Slot
<1> QED
  BY <1>0, <1>1, <1>2, <1>3, <1>4, <1>5, <1>6, <1>7, <1>8, <1>9, <1>10 DEF PolicyNext, NetworkAllowed

LEMMA ReadsStep ==
    ASSUME PolicyConstants, PolicyInv, PolicyNext
    PROVE  Reads'
<1> SUFFICES ASSUME NEW q \in Visits
             PROVE  /\ visit'[q].process \in Processes
                    /\ visit'[q].pc \in {"reading", "storing", "signing"} => visit'[q].at <= second'
                    /\ visit'[q].pc \in {"storing", "signing"} =>
                          /\ visit'[q].policy \in Policies'
                          /\ StillInForce(visit'[q].policy.version, visit'[q].at)
  BY DEF Reads, InForceAt, StillInForce
<1> USE DEF PolicyInv
<1>1. /\ second \in Nat /\ row \in Policies /\ Policies' = Policies
      /\ visit[q].process \in Processes
      /\ visit[q].pc \in {"reading", "storing", "signing"} =>
            visit[q].at <= second /\ visit[q].at \in Nat
  BY DEF Reads, PolicyTypeOK, PolicyConstants, Policies, Versions
<1>2. /\ second' >= second /\ second' \in Nat
      /\ \A v, t : t <= second /\ InForceAt(v, t) => StillInForce(v, t)
  BY StepOfHistory
<1>3. \A at : InForceAt(row.version, at)
  BY DEF InForceAt, History
<1>4. visit[q].pc \in {"storing", "signing"} =>
          visit[q].policy \in Policies /\ InForceAt(visit[q].policy.version, visit[q].at)
  BY DEF Reads
<1> QED
  BY <1>1, <1>2, <1>3, <1>4, StepOfSlot

\* A copy changes only when it is forgotten or replaced, by one just read or by
\* the row of a sign-in.
LEMMA CachedStep ==
    ASSUME PolicyConstants, PolicyInv, PolicyNext
    PROVE  CachedInForce'
<1> DEFINE Sound(copy) == /\ copy.at <= second' /\ copy.held <= copy.at
                          /\ StillInForce(copy.policy.version, copy.at - copy.held)
<1> SUFFICES ASSUME NEW p \in Processes, cached'[p].policy # NoPolicy PROVE Sound(cached'[p])
  BY DEF CachedInForce, InForceAt, StillInForce
<1> USE DEF PolicyInv
<1>1. /\ second \in Nat /\ second' >= second /\ second' \in Nat
      /\ \A v, t : t <= second /\ InForceAt(v, t) => StillInForce(v, t)
  BY StepOfHistory DEF PolicyTypeOK, PolicyConstants
<1>2. cached \in [Processes -> Copies] /\ \A c \in Copies : c.at \in Nat /\ c.held \in Nat
  BY DEF PolicyTypeOK, Copies, NoCopy, PolicyConstants
<1>3. CASE cached'[p] = cached[p]
  <2>1. /\ cached[p].at <= second /\ cached[p].held <= cached[p].at
        /\ InForceAt(cached[p].policy.version, cached[p].at - cached[p].held)
    BY <1>3 DEF CachedInForce
  <2>2. cached[p].at \in Nat /\ cached[p].held \in Nat
    BY <1>2
  <2>3. cached[p].at - cached[p].held <= second /\ cached[p].at <= second'
    BY <1>1, <2>1, <2>2
  <2> QED
    BY <1>1, <1>3, <2>1, <2>3
<1>4. CASE cached'[p] = NoCopy
  BY <1>4 DEF NoCopy
<1>5. ASSUME NEW q \in Visits, StorePolicy(q), cached'[p] = CopyOf(q) PROVE Sound(cached'[p])
  <2>1. visit[q].at \in Nat /\ visit[q].at <= second
        /\ InForceAt(visit[q].policy.version, visit[q].at)
    BY <1>5 DEF StorePolicy, Reads, PolicyTypeOK, PolicyConstants
  <2>2. cached'[p].at = visit[q].at /\ cached'[p].held = 0 /\ cached'[p].policy = visit[q].policy
    BY <1>5 DEF CopyOf
  <2>3. visit[q].at - 0 = visit[q].at
    BY <2>1
  <2> QED
    BY <1>1, <2>1, <2>2, <2>3
<1>6. ASSUME NEW q \in Visits, SignsIn(q),
             cached'[p] = [at |-> second, held |-> second - visit[q].at, policy |-> visit[q].policy]
      PROVE  Sound(cached'[p])
  <2>1. visit[q].at \in Nat /\ visit[q].at <= second
        /\ InForceAt(visit[q].policy.version, visit[q].at)
    BY <1>6 DEF SignsIn, Reads, PolicyTypeOK, PolicyConstants
  <2>2. /\ second - (second - visit[q].at) = visit[q].at
        /\ second - visit[q].at <= second
    BY <1>1, <2>1
  <2> QED
    BY <1>1, <1>6, <2>1, <2>2
<1>7. \/ cached'[p] = cached[p] \/ cached'[p] = NoCopy
      \/ \E q \in Visits : StorePolicy(q) /\ cached'[p] = CopyOf(q)
      \/ \E q \in Visits : SignsIn(q) /\ cached'[p] =
             [at |-> second, held |-> second - visit[q].at, policy |-> visit[q].policy]
  BY <1>2 DEF PolicyNext, NetworkAllowed, UseCopy, BeginLoad, ReadRow, StorePolicy, LoadSettings,
              SignsIn, Leave, SavePolicy, Invalidate, Restart, SecondPasses
<1> QED
  BY <1>3, <1>4, <1>5, <1>6, <1>7

LEMMA InvInit ==
    ASSUME PolicyConstants, PolicyInit
    PROVE  PolicyInv
<1>1. 0 \in 0 .. MaxSeconds /\ 0 \in Versions
  BY DEF PolicyConstants, Versions
<1>2. /\ row \in Policies /\ row.version = 0
      /\ \A p \in Processes : cached[p] = NoCopy
      /\ cached \in [Processes -> Copies] /\ second \in 0 .. MaxSeconds
  BY <1>1 DEF PolicyInit, Policies, Copies
<1>3. /\ visit \in [Visits -> Slot]
      /\ \A q \in Visits : visit[q].pc = "idle"
  BY <1>1 DEF PolicyInit, Slot
<1>4. until \in [{} -> 0 .. MaxSeconds] /\ {} \in SUBSET Versions
  BY DEF PolicyInit
<1>5. PolicyTypeOK
  BY <1>2, <1>3, <1>4 DEF PolicyTypeOK, Slot
<1>6. 0 .. (row.version - 1) = {} /\ row.version \in Nat
  BY <1>2
<1>7. History
  BY <1>4, <1>6 DEF History, PolicyInit
<1>8. Reads /\ CachedInForce
  BY <1>2, <1>3 DEF Reads, CachedInForce, NoCopy, Slot
<1> QED
  BY <1>5, <1>7, <1>8 DEF PolicyInv

LEMMA InvStep ==
    ASSUME PolicyConstants, PolicyInv, [PolicyNext]_policyVars
    PROVE  PolicyInv'
<1>1. CASE PolicyNext
  BY <1>1, PolicyTypeStep, StepOfHistory, ReadsStep, CachedStep DEF PolicyInv
<1>2. CASE UNCHANGED policyVars
  BY <1>2 DEF policyVars, PolicyInv, PolicyTypeOK, History, Reads, CachedInForce, InForceAt,
              Policies, Versions, Copies
<1> QED
  BY <1>1, <1>2

-----------------------------------------------------------------------------
\* The rows, copies, requests and dates have their types
\* (session_policy.py:_CachedPolicy, load_policy).
THEOREM PolicyTyped ==
    ASSUME PolicyConstants
    PROVE  PolicySpec => []PolicyTypeOK
<1>1. PolicyInv => PolicyTypeOK
  BY DEF PolicyInv
<1> QED
  BY <1>1, InvInit, InvStep, PTL DEF PolicySpec

\* A copy that is still used was in force less than TTL, and what the sign-in
\* that stored it had held its row for, ago: for any number of processes, requests,
\* sign-ins and saves (load_policy dates a copy before it reads the row, so a slow
\* read can only make it look older than it is; login_submit and oidc_callback hand
\* it a row they have loaded before).
THEOREM PolicyTakesHoldAlways ==
    ASSUME PolicyConstants
    PROVE  PolicySpec => []PolicyTakesHold
<1>1. ASSUME PolicyInv PROVE PolicyTakesHold
  <2> SUFFICES ASSUME NEW p \in Processes, Outdated(p)
               PROVE  OutdatedFor(p) < TTL + cached[p].held
    BY DEF PolicyTakesHold
  <2> DEFINE v == cached[p].policy.version
  <2>1. /\ cached[p].policy # NoPolicy /\ second - cached[p].at < TTL
        /\ v \in DOMAIN until
    BY DEF Outdated, Fresh
  <2>2. /\ cached[p].at \in Nat /\ cached[p].held \in Nat
        /\ second \in Nat /\ TTL \in Nat
    BY <1>1 DEF PolicyInv, PolicyTypeOK, Copies, NoCopy, PolicyConstants
  <2>3. v \in 0 .. (row.version - 1) /\ row.version \in Nat /\ until[v] \in Nat
    BY <1>1, <2>1, <2>2 DEF PolicyInv, History
  <2>4. until[v] >= cached[p].at - cached[p].held
    BY <1>1, <2>1, <2>3 DEF PolicyInv, CachedInForce, InForceAt
  <2> QED
    BY <2>1, <2>2, <2>3, <2>4 DEF OutdatedFor
<1> QED
  BY <1>1, InvInit, InvStep, PTL DEF PolicySpec

-----------------------------------------------------------------------------
(* Sign-ins: what is typed *)

\* As LoginsTypeOK, without the bounds of the counters and of the clock.
Attempted == [pc : Stages, copy : [failed : Nat, lockedUntil : Nat, totp : BOOLEAN],
              code : Codes \cup {NoCode}]
Counted == [steps : Nat, wrong : Nat, wrongAt : Nat, overlapped : BOOLEAN,
            uses : [Codes -> Nat]]
LoginsTyped ==
    /\ account \in [failed : Nat, lockedUntil : Nat, totp : BOOLEAN, passkeys : BOOLEAN]
    /\ code \in [Codes -> {"none", "unused", "used", "gone"}]
    /\ attempt \in [Attempts -> Attempted]
    /\ now \in Nat
    /\ answered \in Counted

(* Sign-ins: answers verified one at a time *)

\* The counter is that of the wrong answers, and an answer under verification
\* is the only one and was read from the row as it is.
Alone ==
    /\ account.failed = answered.wrong
    /\ \A a \in Attempts, b \in Attempts :
          attempt[a].pc \in Verifying /\ attempt[b].pc \in Verifying => a = b
    /\ \A a \in Attempts : attempt[a].pc \in Verifying =>
          /\ attempt[a].copy.failed = account.failed
          /\ attempt[a].copy.lockedUntil = account.lockedUntil

\* The last wrong answer locked, when there were enough of them.
LockHolds ==
    answered.wrong >= MaxFailed => account.lockedUntil = answered.wrongAt + LockFor

\* A code was used at most once, one that may still be used not at all; so
\* also one that was matched.
CodesInv ==
    \A c \in Codes :
        /\ answered.uses[c] <= 1
        /\ code[c] \in {"none", "unused"} => answered.uses[c] = 0
        /\ \A a \in Attempts :
              attempt[a].pc = "code" /\ attempt[a].code = c => code[c] \in {"unused", "gone"}

Matched == \A a \in Attempts : attempt[a].pc = "code" => attempt[a].code \in Codes

LoginsInv ==
    /\ LoginsTyped /\ Matched
    /\ ~answered.overlapped => Alone /\ LockHolds /\ CodesInv

-----------------------------------------------------------------------------
\* Where a sign-in may be left, as a value.
LEMMA AttemptValues ==
    ASSUME LoginsConstants
    PROVE  /\ NoAttempt \in Attempted /\ NoAttempt.pc = "idle"
           /\ Ticket \in Attempted /\ Ticket.pc = "ticket"
BY DEF NoAttempt, Ticket, NothingRead, Attempted, Stages

\* An answer is given: the row is read into the attempt's copy.
LEMMA ReadType ==
    ASSUME LoginsConstants, LoginsTyped, NEW a \in Attempts, NEW pc \in {"password", "totp"},
           ReadAccount(a, pc)
    PROVE  /\ attempt' \in [Attempts -> Attempted] /\ answered' \in Counted
           /\ attempt'[a].pc = pc
           /\ attempt'[a].copy.failed = account.failed
           /\ attempt'[a].copy.lockedUntil = account.lockedUntil
           /\ \A b \in Attempts \ {a} : attempt'[b] = attempt[b]
           /\ answered'.wrong = answered.wrong /\ answered'.wrongAt = answered.wrongAt
           /\ answered'.uses = answered.uses
           /\ answered'.overlapped = (answered.overlapped \/ Overlaps(a))
<1> USE DEF LoginsTyped
<1> DEFINE copy == [failed |-> account.failed, lockedUntil |-> account.lockedUntil,
                    totp |-> account.totp]
<1> DEFINE t == [NoAttempt EXCEPT !.pc = pc, !.copy = copy]
<1>1. copy \in [failed : Nat, lockedUntil : Nat, totp : BOOLEAN]
  OBVIOUS
<1>2. t \in Attempted /\ t.pc = pc /\ t.copy.failed = account.failed
      /\ t.copy.lockedUntil = account.lockedUntil
  BY <1>1, AttemptValues DEF Attempted, Stages
<1>3. attempt' = [attempt EXCEPT ![a] = t]
  BY DEF ReadAccount
<1> DEFINE crossed == answered.overlapped \/ Overlaps(a)
<1> DEFINE steps == answered.steps + 1
<1>4. /\ answered' = [answered EXCEPT !.steps = steps, !.overlapped = crossed]
      /\ steps \in Nat /\ crossed \in BOOLEAN
  BY DEF ReadAccount, Overlaps, Counted
<1> HIDE DEF t, crossed, steps
<1>5. /\ answered' \in Counted
      /\ answered'.wrong = answered.wrong /\ answered'.wrongAt = answered.wrongAt
      /\ answered'.uses = answered.uses
      /\ answered'.overlapped = crossed
  BY <1>4 DEF Counted
<1>6. /\ attempt' \in [Attempts -> Attempted] /\ attempt'[a] = t
      /\ \A b \in Attempts \ {a} : attempt'[b] = attempt[b]
  BY <1>2, <1>3
<1> QED
  BY <1>2, <1>5, <1>6 DEF crossed

\* A wrong answer counts on from the copy.
LEMMA WrongType ==
    ASSUME LoginsConstants, LoginsTyped, NEW a \in Attempts, NEW next \in Attempted,
           RegisterFailedAttempt(a, next)
    PROVE  /\ account' \in [failed : Nat, lockedUntil : Nat, totp : BOOLEAN, passkeys : BOOLEAN]
           /\ attempt' = [attempt EXCEPT ![a] = next] /\ answered' \in Counted
           /\ account'.failed = attempt[a].copy.failed + 1
           /\ Locks(account'.failed) => account'.lockedUntil = now + LockFor
           /\ answered'.wrong = answered.wrong + 1 /\ answered'.wrongAt = now
           /\ answered'.uses = answered.uses /\ answered'.overlapped = answered.overlapped
<1> USE DEF LoginsTyped
<1> DEFINE failed == attempt[a].copy.failed + 1
<1> DEFINE locked == IF Locks(failed) THEN now + LockFor ELSE account.lockedUntil
<1>1. failed \in Nat /\ now + LockFor \in Nat
  BY DEF Attempted, LoginsConstants
<1>2. account' = [account EXCEPT !.failed = failed, !.lockedUntil = locked]
  BY DEF RegisterFailedAttempt
<1>3. locked \in Nat
  BY <1>1
<1> DEFINE wrong == answered.wrong + 1
<1>4. answered' = [answered EXCEPT !.wrong = wrong, !.wrongAt = now] /\ wrong \in Nat
  BY DEF RegisterFailedAttempt, Counted
<1>5. account'.failed = failed /\ account'.lockedUntil = locked
  BY <1>2
<1>6. account' \in [failed : Nat, lockedUntil : Nat, totp : BOOLEAN, passkeys : BOOLEAN]
  BY <1>1, <1>2, <1>3
<1> HIDE DEF wrong
<1>7. /\ answered' \in Counted
      /\ answered'.wrong = wrong /\ answered'.wrongAt = now
      /\ answered'.uses = answered.uses /\ answered'.overlapped = answered.overlapped
  BY <1>4 DEF Counted
<1>8. attempt' = [attempt EXCEPT ![a] = next]
  BY DEF RegisterFailedAttempt
<1> QED
  BY <1>5, <1>6, <1>7, <1>8 DEF wrong

\* A right answer resets what there was to reset.
LEMMA ResetType ==
    ASSUME LoginsTyped, NEW a \in Attempts, ResetFailedAttempts(a)
    PROVE  /\ account' \in [failed : Nat, lockedUntil : Nat, totp : BOOLEAN, passkeys : BOOLEAN]
           /\ account'.failed = IF attempt[a].copy.failed = 0 THEN account.failed ELSE 0
<1> DEFINE failed == IF attempt[a].copy.failed = 0 THEN account.failed ELSE 0
<1> DEFINE locked == IF attempt[a].copy.lockedUntil = 0 THEN account.lockedUntil ELSE 0
<1>1. failed \in Nat /\ locked \in Nat
  BY DEF LoginsTyped
<1>2. account' = [account EXCEPT !.failed = failed, !.lockedUntil = locked]
  BY DEF ResetFailedAttempts
<1> HIDE DEF failed, locked
<1>3. account'.failed = failed
       /\ account' \in [failed : Nat, lockedUntil : Nat, totp : BOOLEAN, passkeys : BOOLEAN]
  BY <1>1, <1>2 DEF LoginsTyped
<1> QED
  BY <1>3 DEF failed

LEMMA AnswerStep ==
    ASSUME LoginsConstants, LoginsInv, NEW a \in Attempts, NEW pc \in {"password", "totp"},
           ReadAccount(a, pc), UNCHANGED <<account, code, now>>
    PROVE  LoginsInv'
<1> USE DEF LoginsInv
<1>1. /\ attempt' \in [Attempts -> Attempted] /\ answered' \in Counted
      /\ attempt'[a].pc = pc
      /\ attempt'[a].copy.failed = account.failed
      /\ attempt'[a].copy.lockedUntil = account.lockedUntil
      /\ \A b \in Attempts \ {a} : attempt'[b] = attempt[b]
      /\ answered'.wrong = answered.wrong /\ answered'.wrongAt = answered.wrongAt
      /\ answered'.uses = answered.uses
      /\ answered'.overlapped = (answered.overlapped \/ Overlaps(a))
  BY ReadType
<1>2. LoginsTyped' /\ Matched'
  BY <1>1 DEF LoginsTyped, Matched
<1>3. ASSUME ~answered'.overlapped PROVE Alone' /\ LockHolds' /\ CodesInv'
  <2>1. ~answered.overlapped /\ \A b \in Attempts \ {a} : attempt[b].pc \notin Verifying
    BY <1>1, <1>3 DEF Overlaps
  <2>2. Alone'
    BY <1>1, <2>1 DEF Alone
  <2>3. LockHolds' /\ CodesInv'
    BY <1>1, <2>1 DEF LockHolds, CodesInv
  <2> QED
    BY <2>2, <2>3
<1> QED
  BY <1>2, <1>3

LEMMA WrongStep ==
    ASSUME LoginsConstants, LoginsInv, NEW a \in Attempts, NEW next \in {NoAttempt, Ticket},
           attempt[a].pc \in Verifying, RegisterFailedAttempt(a, next), UNCHANGED <<code, now>>
    PROVE  LoginsInv'
<1> USE DEF LoginsInv
<1>0. next \in Attempted /\ next.pc \notin Verifying
  BY AttemptValues DEF Verifying
<1>1. /\ account' \in [failed : Nat, lockedUntil : Nat, totp : BOOLEAN, passkeys : BOOLEAN]
      /\ attempt' = [attempt EXCEPT ![a] = next] /\ answered' \in Counted
      /\ account'.failed = attempt[a].copy.failed + 1
      /\ Locks(account'.failed) => account'.lockedUntil = now + LockFor
      /\ answered'.wrong = answered.wrong + 1 /\ answered'.wrongAt = now
      /\ answered'.uses = answered.uses /\ answered'.overlapped = answered.overlapped
  BY <1>0, WrongType
<1>2. /\ attempt'[a] = next
      /\ \A b \in Attempts \ {a} : attempt'[b] = attempt[b]
  BY <1>1 DEF LoginsTyped
<1>3. LoginsTyped' /\ Matched'
  BY <1>0, <1>1, <1>2 DEF LoginsTyped, Matched, Verifying
<1>4. ASSUME ~answered'.overlapped PROVE Alone' /\ LockHolds' /\ CodesInv'
  <2>1. ~answered.overlapped
    BY <1>1, <1>4
  <2>2. account'.failed = answered'.wrong
    BY <1>1, <2>1 DEF Alone
  <2>3. Alone'
    BY <1>0, <1>2, <2>1, <2>2 DEF Alone
  <2>4. LockHolds'
    BY <1>1, <2>2 DEF LockHolds, Locks
  <2>5. CodesInv'
    BY <1>0, <1>1, <1>2, <2>1 DEF CodesInv, Verifying
  <2> QED
    BY <2>3, <2>4, <2>5
<1> QED
  BY <1>3, <1>4

\* A right answer, whichever it was; a recovery code is used as well.
LEMMA RightStep ==
    ASSUME LoginsConstants, LoginsInv, NEW a \in Attempts, NEW next \in {NoAttempt, Ticket},
           attempt[a].pc \in Verifying, ResetFailedAttempts(a), UNCHANGED now,
           attempt' = [attempt EXCEPT ![a] = next],
           answered'.wrong = 0, answered'.overlapped = answered.overlapped,
           answered' \in Counted, code' \in [Codes -> {"none", "unused", "used", "gone"}],
           ~answered.overlapped => CodesInv'
    PROVE  LoginsInv'
<1> USE DEF LoginsInv
<1>0. next \in Attempted /\ next.pc \notin Verifying
  BY AttemptValues DEF Verifying
<1>1. /\ account' \in [failed : Nat, lockedUntil : Nat, totp : BOOLEAN, passkeys : BOOLEAN]
      /\ account'.failed = IF attempt[a].copy.failed = 0 THEN account.failed ELSE 0
  BY ResetType
<1>2. /\ attempt'[a] = next
      /\ \A b \in Attempts \ {a} : attempt'[b] = attempt[b]
  BY DEF LoginsTyped
<1>3. LoginsTyped' /\ Matched'
  BY <1>0, <1>1, <1>2 DEF LoginsTyped, Matched, Verifying
<1>4. ASSUME ~answered'.overlapped PROVE Alone' /\ LockHolds'
  <2>1. ~answered.overlapped
    BY <1>4
  <2>2. account'.failed = 0
    BY <1>1, <2>1 DEF Alone
  <2>3. Alone'
    BY <1>0, <1>2, <2>1, <2>2 DEF Alone
  <2>4. LockHolds'
    BY DEF LockHolds, LoginsConstants
  <2> QED
    BY <2>3, <2>4
<1> QED
  BY <1>3, <1>4

\* Nothing was judged: a provider is down, a ticket or a code is gone, or a
\* passkey did it.
LEMMA LeaveStep ==
    ASSUME LoginsConstants, LoginsInv, NEW a \in Attempts, NEW next \in {NoAttempt, Ticket},
           UNCHANGED <<account, code, now>>, attempt' = [attempt EXCEPT ![a] = next],
           \/ UNCHANGED answered
           \/ answered' = [answered EXCEPT !.steps = @ + 1]
    PROVE  LoginsInv'
<1> USE DEF LoginsInv
<1>0. next \in Attempted /\ next.pc \notin Verifying
  BY AttemptValues DEF Verifying
<1>1. /\ answered' \in Counted
      /\ answered'.wrong = answered.wrong /\ answered'.wrongAt = answered.wrongAt
      /\ answered'.uses = answered.uses /\ answered'.overlapped = answered.overlapped
  BY DEF LoginsTyped, Counted
<1>2. /\ attempt'[a] = next
      /\ \A b \in Attempts \ {a} : attempt'[b] = attempt[b]
  BY DEF LoginsTyped
<1>3. LoginsTyped' /\ Matched'
  BY <1>0, <1>1, <1>2 DEF LoginsTyped, Matched, Verifying
<1>4. ASSUME ~answered'.overlapped PROVE Alone' /\ LockHolds' /\ CodesInv'
  <2>1. Alone'
    BY <1>0, <1>1, <1>2, <1>4 DEF Alone
  <2>2. LockHolds' /\ CodesInv'
    BY <1>0, <1>1, <1>2, <1>4 DEF LockHolds, CodesInv, Verifying
  <2> QED
    BY <2>1, <2>2
<1> QED
  BY <1>3, <1>4

LEMMA MatchStep ==
    ASSUME LoginsConstants, LoginsInv, NEW a \in Attempts, NEW c \in Codes,
           MatchRecoveryCode(a, c)
    PROVE  LoginsInv'
<1> USE DEF LoginsInv
<1> DEFINE next == [attempt[a] EXCEPT !.pc = "code", !.code = c]
<1>0. next \in Attempted /\ next.pc = "code" /\ next.code = c /\ next.copy = attempt[a].copy
  BY DEF LoginsTyped, Attempted, Stages
<1>1. attempt' = [attempt EXCEPT ![a] = next]
  BY DEF MatchRecoveryCode, LoginsTyped
<1> HIDE DEF next
<1>2. /\ attempt'[a] = next
      /\ \A b \in Attempts \ {a} : attempt'[b] = attempt[b]
  BY <1>1 DEF LoginsTyped
<1>3. LoginsTyped' /\ Matched'
  BY <1>0, <1>1, <1>2 DEF LoginsTyped, Matched, MatchRecoveryCode
<1>4. ASSUME ~answered'.overlapped PROVE Alone' /\ LockHolds' /\ CodesInv'
  <2>1. /\ attempt[a].pc \in Verifying /\ ~answered.overlapped
        /\ code[c] = "unused" /\ UNCHANGED <<account, code, answered>>
    BY <1>4 DEF MatchRecoveryCode, Verifying, IsOffered
  <2>2. Alone'
    BY <1>0, <1>2, <2>1 DEF Alone, Verifying
  <2>3. LockHolds' /\ CodesInv'
    BY <1>0, <1>2, <2>1 DEF LockHolds, CodesInv
  <2> QED
    BY <2>2, <2>3
<1> QED
  BY <1>3, <1>4

LEMMA UseStep ==
    ASSUME LoginsConstants, LoginsInv, NEW a \in Attempts, UseRecoveryCode(a)
    PROVE  LoginsInv'
<1> USE DEF LoginsInv
<1> DEFINE c == attempt[a].code
<1> DEFINE uses == [answered.uses EXCEPT ![c] = @ + 1]
<1>1. c \in Codes /\ attempt[a].pc = "code" /\ code[c] # "gone"
  BY DEF UseRecoveryCode, Matched
<1>2. answered' = [answered EXCEPT !.wrong = 0, !.uses = uses]
  BY DEF UseRecoveryCode
<1>3. uses \in [Codes -> Nat] /\ uses[c] = answered.uses[c] + 1
      /\ \A d \in Codes \ {c} : uses[d] = answered.uses[d]
  BY <1>1 DEF LoginsTyped, Counted
<1> HIDE DEF uses
<1>4. /\ answered' \in Counted /\ answered'.wrong = 0 /\ answered'.uses = uses
      /\ answered'.overlapped = answered.overlapped
  BY <1>2, <1>3 DEF LoginsTyped, Counted
<1>5. /\ code' \in [Codes -> {"none", "unused", "used", "gone"}] /\ code'[c] = "used"
      /\ \A d \in Codes \ {c} : code'[d] = code[d]
  BY <1>1 DEF UseRecoveryCode, LoginsTyped
<1>6. ASSUME ~answered.overlapped PROVE CodesInv'
  <2>1. answered.uses[c] = 0
    BY <1>1, <1>6 DEF CodesInv
  <2>2. attempt' = [attempt EXCEPT ![a] = NoAttempt] /\ NoAttempt.pc = "idle"
    BY AttemptValues DEF UseRecoveryCode
  <2>3. \A b \in Attempts : attempt'[b].pc = "code" => b # a /\ attempt'[b] = attempt[b]
    BY <2>2 DEF LoginsTyped
  <2>4. \A b \in Attempts : attempt'[b].pc # "code"
    BY <1>1, <1>6, <2>3 DEF Alone, Verifying
  <2> QED
    BY <1>3, <1>4, <1>5, <1>6, <2>1, <2>4 DEF CodesInv
<1> QED
  BY <1>1, <1>4, <1>5, <1>6, RightStep DEF UseRecoveryCode, Verifying

\* What somebody signed in changes: the second factors, never the counter.
LEMMA PageStep ==
    ASSUME LoginsConstants, LoginsInv, AccountPage
    PROVE  LoginsInv'
<1> USE DEF LoginsInv
<1>1. /\ UNCHANGED <<attempt, now, answered>>
      /\ account'.failed = account.failed /\ account'.lockedUntil = account.lockedUntil
      /\ account' \in [failed : Nat, lockedUntil : Nat, totp : BOOLEAN, passkeys : BOOLEAN]
  BY DEF AccountPage, EnrollTotp, RegenerateRecoveryCodes, DisableTotp, RegisterPasskey,
         DeletePasskey, LoginsTyped
<1>2. \A C \in SUBSET Codes : Replaced(C) \in [Codes -> {"none", "unused", "used", "gone"}]
  BY DEF Replaced
<1>3. \/ UNCHANGED code
      \/ \E C \in SUBSET Codes : C \subseteq Ungenerated /\ code' = Replaced(C)
  BY DEF AccountPage, EnrollTotp, RegenerateRecoveryCodes, DisableTotp, RegisterPasskey,
         DeletePasskey, Ungenerated
<1>4. LoginsTyped' /\ Matched'
  BY <1>1, <1>2, <1>3 DEF LoginsTyped, Matched
<1>5. \A c \in Codes : /\ code'[c] \in {"none", "unused"} => code[c] \in {"none", "unused"}
                       /\ code[c] \in {"unused", "gone"} => code'[c] \in {"unused", "gone"}
  <2>1. ASSUME NEW C \in SUBSET Codes, C \subseteq Ungenerated, code' = Replaced(C),
               NEW c \in Codes
        PROVE  /\ code'[c] \in {"none", "unused"} => code[c] \in {"none", "unused"}
               /\ code[c] \in {"unused", "gone"} => code'[c] \in {"unused", "gone"}
    <3>1. code'[c] = IF c \in C THEN "unused" ELSE IF code[c] = "none" THEN "none" ELSE "gone"
      BY <2>1 DEF Replaced
    <3>2. c \in C => code[c] = "none"
      BY <2>1 DEF Ungenerated
    <3> QED
      BY <3>1, <3>2
  <2> QED
    BY <1>3, <2>1
<1>6. ASSUME ~answered'.overlapped PROVE Alone' /\ LockHolds' /\ CodesInv'
  <2>1. Alone' /\ LockHolds'
    BY <1>1, <1>6 DEF Alone, LockHolds
  <2>2. CodesInv'
    BY <1>1, <1>5, <1>6 DEF CodesInv
  <2> QED
    BY <2>1, <2>2
<1> QED
  BY <1>4, <1>6

LEMMA LoginsStep ==
    ASSUME LoginsConstants, LoginsInv, [LoginsNext]_loginVars
    PROVE  LoginsInv'
<1>1. ASSUME NEW a \in Attempts, SignInStep(a) PROVE LoginsInv'
  <2>1. CASE SubmitPassword(a)
    BY <2>1, AnswerStep DEF SubmitPassword
  <2>2. CASE SubmitCode(a)
    BY <2>2, AnswerStep DEF SubmitCode
  <2>3. CASE WrongPassword(a)
    BY <2>3, WrongStep DEF WrongPassword, Verifying
  <2>4. CASE WrongCode(a)
    BY <2>4, WrongStep DEF WrongCode, Verifying
  <2>5. ASSUME NEW next \in {NoAttempt, Ticket}, attempt[a].pc \in Verifying,
               ResetFailedAttempts(a), UNCHANGED <<code, now>>,
               attempt' = [attempt EXCEPT ![a] = next],
               answered' = [answered EXCEPT !.wrong = 0]
        PROVE  LoginsInv'
    <3>1. /\ answered' \in Counted /\ answered'.wrong = 0
          /\ answered'.overlapped = answered.overlapped /\ answered'.uses = answered.uses
      BY <2>5 DEF LoginsInv, LoginsTyped, Counted
    <3>2. ~answered.overlapped => CodesInv'
      <4>1. \A b \in Attempts : attempt'[b].pc = "code" => attempt'[b] = attempt[b]
        BY <2>5, AttemptValues DEF LoginsInv, LoginsTyped
      <4> QED
        BY <2>5, <3>1, <4>1 DEF LoginsInv, CodesInv
    <3> QED
      BY <2>5, <3>1, <3>2, RightStep DEF LoginsInv, LoginsTyped
  <2>6. CASE RightPassword(a)
    BY <2>5, <2>6 DEF RightPassword, Verifying
  <2>7. CASE RightCode(a)
    BY <2>5, <2>7 DEF RightCode, Verifying
  <2>8. CASE ProviderUnavailable(a) \/ LoseTicket(a) \/ RecoveryCodeVanished(a)
             \/ LoginWithPasskey(a)
    BY <2>8, LeaveStep DEF ProviderUnavailable, LoseTicket, RecoveryCodeVanished,
                           LoginWithPasskey
  <2>9. ASSUME NEW c \in Codes, MatchRecoveryCode(a, c) PROVE LoginsInv'
    BY <2>9, MatchStep
  <2>10. CASE UseRecoveryCode(a)
    BY <2>10, UseStep
  <2> QED
    BY <1>1, <2>1, <2>2, <2>3, <2>4, <2>6, <2>7, <2>8, <2>9, <2>10 DEF SignInStep
<1>2. CASE AccountPage
  BY <1>2, PageStep
<1>3. CASE MinutePasses
  <2>1. UNCHANGED <<account, code, attempt, answered>> /\ now' \in Nat
    BY <1>3 DEF MinutePasses, LoginsInv, LoginsTyped
  <2> QED
    BY <2>1 DEF LoginsInv, LoginsTyped, Matched, Alone, LockHolds, CodesInv
<1>4. CASE UNCHANGED loginVars
  BY <1>4 DEF loginVars, LoginsInv, LoginsTyped, Matched, Alone, LockHolds, CodesInv
<1> QED
  BY <1>1, <1>2, <1>3, <1>4 DEF LoginsNext

LEMMA LoginsBegin == ASSUME LoginsConstants, LoginsInit PROVE LoginsInv
<1>1. \A a \in Attempts : attempt[a] = NoAttempt /\ attempt[a].pc = "idle"
  BY AttemptValues DEF LoginsInit
<1>2. answered \in Counted /\ answered.wrong = 0 /\ \A c \in Codes : answered.uses[c] = 0
  BY DEF LoginsInit, Counted
<1>3. account.failed = 0
      /\ account \in [failed : Nat, lockedUntil : Nat, totp : BOOLEAN, passkeys : BOOLEAN]
  BY DEF LoginsInit
<1>4. LoginsTyped /\ Matched
  BY <1>1, <1>2, <1>3, AttemptValues DEF LoginsInit, LoginsTyped, Matched
<1>5. Alone /\ LockHolds /\ CodesInv
  BY <1>1, <1>2, <1>3 DEF Alone, LockHolds, CodesInv, Verifying, LoginsConstants
<1> QED
  BY <1>4, <1>5 DEF LoginsInv

LEMMA LoginsInvAlways == ASSUME LoginsConstants PROVE LoginsSpec => []LoginsInv
<1>1. LoginsInit => LoginsInv
  BY LoginsBegin
<1>2. LoginsInv /\ [LoginsNext]_loginVars => LoginsInv'
  BY LoginsStep
<1> QED
  BY <1>1, <1>2, PTL DEF LoginsSpec

\* Whatever sign-ins and account pages interleave, wrong answers that are not
\* verified at the same time as others lock the account in the end, each from
\* the MaxFailed-th on for the whole time (auth/login.py:44-61).
THEOREM LocksOutAlways == ASSUME LoginsConstants PROVE LoginsSpec => []LocksOut
<1>1. LoginsInv => LocksOut
  BY DEF LoginsInv, LockHolds, LocksOut
<1> QED
  BY <1>1, LoginsInvAlways, PTL

\* A recovery code opens one sign-in, as long as no two answers are verified at
\* the same time, however often the codes are replaced meanwhile
\* (auth/login.py:101-118).
THEOREM RecoveryCodesAreSpentAlways ==
    ASSUME LoginsConstants PROVE LoginsSpec => []RecoveryCodesAreSpent
<1>1. LoginsInv => RecoveryCodesAreSpent
  BY DEF LoginsInv, CodesInv, RecoveryCodesAreSpent
<1> QED
  BY <1>1, LoginsInvAlways, PTL

-----------------------------------------------------------------------------
(* Sign-ins: the counters stay within the answers given *)

\* Answers that are being verified, each after a step of its own.
Answering == {a \in Attempts : attempt[a].pc \in Verifying}

\* Wrong answers, used codes and those being verified are no more than were
\* given, and the counter of the row and of each copy no more either.
WithinSteps ==
    /\ answered.steps <= MaxAnswers
    /\ IsFiniteSet(Answering)
    /\ answered.wrong + Cardinality(Answering) <= answered.steps
    /\ \A c \in Codes : answered.uses[c] + Cardinality(Answering) <= answered.steps
    /\ account.failed <= answered.steps
    /\ \A a \in Attempts : attempt[a].copy.failed <= MaxAnswers
    /\ \A a \in Answering : attempt[a].copy.failed < answered.steps

\* Nothing is dated later than the clock allows.
WithinTime ==
    /\ now \in 1..MaxMinutes /\ answered.wrongAt <= MaxMinutes
    /\ account.lockedUntil \in Lock
    /\ \A a \in Attempts : attempt[a].copy.lockedUntil \in Lock

\* One more is being verified, or one fewer, or as many.
LEMMA AnsweringChanges ==
    ASSUME IsFiniteSet(Answering), NEW a \in Attempts,
           \A b \in Attempts \ {a} : attempt'[b] = attempt[b]
    PROVE  /\ IsFiniteSet(Answering') /\ Cardinality(Answering) \in Nat
           /\ Cardinality(Answering') \in Nat
           /\ attempt[a].pc \in Verifying /\ attempt'[a].pc \notin Verifying =>
                 Cardinality(Answering') = Cardinality(Answering) - 1
           /\ attempt[a].pc \notin Verifying /\ attempt'[a].pc \in Verifying =>
                 Cardinality(Answering') = Cardinality(Answering) + 1
           /\ (attempt[a].pc \in Verifying <=> attempt'[a].pc \in Verifying) =>
                 Answering' = Answering
<1>1. Cardinality(Answering) \in Nat
  BY FS_CardinalityType
<1>2. ASSUME attempt[a].pc \in Verifying, attempt'[a].pc \notin Verifying
      PROVE  Answering' = Answering \ {a} /\ a \in Answering
  BY <1>2 DEF Answering
<1>3. ASSUME attempt[a].pc \notin Verifying, attempt'[a].pc \in Verifying
      PROVE  Answering' = Answering \cup {a} /\ a \notin Answering
  BY <1>3 DEF Answering
<1>4. ASSUME attempt[a].pc \in Verifying <=> attempt'[a].pc \in Verifying
      PROVE  Answering' = Answering
  BY <1>4 DEF Answering
<1>5. /\ IsFiniteSet(Answering \ {a})
      /\ a \in Answering => Cardinality(Answering \ {a}) = Cardinality(Answering) - 1
  BY FS_RemoveElement
<1>6. /\ IsFiniteSet(Answering \cup {a})
      /\ a \notin Answering => Cardinality(Answering \cup {a}) = Cardinality(Answering) + 1
  BY FS_AddElement
<1>7. IsFiniteSet(Answering')
  BY <1>2, <1>3, <1>4, <1>5, <1>6
<1>8. Cardinality(Answering') \in Nat
  BY <1>7, FS_CardinalityType
<1> QED
  BY <1>1, <1>2, <1>3, <1>4, <1>5, <1>6, <1>7, <1>8

\* The numbers there are.
LEMMA LoginNumbers ==
    ASSUME LoginsConstants, LoginsTyped
    PROVE  /\ account.failed \in Nat /\ account.lockedUntil \in Nat /\ now \in Nat
           /\ answered.steps \in Nat /\ answered.wrong \in Nat /\ answered.wrongAt \in Nat
           /\ \A c \in Codes : answered.uses[c] \in Nat
           /\ \A a \in Attempts : attempt[a].copy.failed \in Nat
           /\ MaxAnswers \in Nat /\ MaxMinutes \in Nat /\ LockFor \in Nat
BY DEF LoginsConstants, LoginsTyped, Attempted, Counted

\* An answer is given: one step more, and one more to verify.
LEMMA AnswerWithin ==
    ASSUME LoginsConstants, LoginsTyped, WithinSteps, WithinTime, NEW a \in Attempts,
           NEW pc \in {"password", "totp"}, attempt[a].pc \notin Verifying,
           ReadAccount(a, pc), UNCHANGED <<account, code, now>>
    PROVE  WithinSteps' /\ WithinTime'
<1>1. /\ attempt'[a].pc = pc
      /\ attempt'[a].copy.failed = account.failed
      /\ attempt'[a].copy.lockedUntil = account.lockedUntil
      /\ \A b \in Attempts \ {a} : attempt'[b] = attempt[b]
      /\ answered'.wrong = answered.wrong /\ answered'.wrongAt = answered.wrongAt
      /\ answered'.uses = answered.uses
  BY ReadType
<1>2. answered.steps < MaxAnswers /\ answered'.steps = answered.steps + 1
  BY DEF ReadAccount, LoginsTyped, Counted
<1>3. attempt'[a].pc \in Verifying
  BY <1>1 DEF Verifying
<1>4. /\ IsFiniteSet(Answering') /\ Cardinality(Answering) \in Nat
      /\ Cardinality(Answering') = Cardinality(Answering) + 1
  <2>1. IsFiniteSet(Answering)
    BY DEF WithinSteps
  <2>2. \A b \in Attempts \ {a} : attempt'[b] = attempt[b]
    BY <1>1
  <2> QED
    BY <1>3, <2>1, <2>2, AnsweringChanges
<1>5. \A b \in Answering' : b = a \/ (b \in Answering /\ attempt'[b] = attempt[b])
  BY <1>1 DEF Answering
<1>6. WithinTime'
  BY <1>1 DEF WithinTime
<1>7. \A b \in Attempts : attempt'[b].copy.failed <= MaxAnswers
  BY <1>1, <1>2, LoginNumbers DEF WithinSteps
<1>8. \A b \in Answering' : attempt'[b].copy.failed < answered'.steps
  <2>1. TAKE b \in Answering'
  <2>2. b \in Attempts
    BY <2>1 DEF Answering
  <2> QED
    BY <1>1, <1>2, <1>5, <2>2, LoginNumbers DEF WithinSteps
<1>9. answered'.steps <= MaxAnswers /\ account'.failed <= answered'.steps
  BY <1>2, LoginNumbers DEF WithinSteps
<1>10. answered'.wrong + Cardinality(Answering') <= answered'.steps
  BY <1>1, <1>2, <1>4, LoginNumbers DEF WithinSteps
<1>11. \A c \in Codes : answered'.uses[c] + Cardinality(Answering') <= answered'.steps
  BY <1>1, <1>2, <1>4, LoginNumbers DEF WithinSteps
<1> QED
  BY <1>4, <1>6, <1>7, <1>8, <1>9, <1>10, <1>11 DEF WithinSteps

\* What judging an answer, or giving it up, does to the counters.
Verdict(a, next) ==
    /\ attempt' = [attempt EXCEPT ![a] = next]
    /\ now' = now
    /\ \/ answered'.steps = answered.steps
       \/ answered'.steps = answered.steps + 1 /\ answered.steps < MaxAnswers
    /\ \/ account'.failed \in {0, account.failed}
       \/ attempt[a].pc \in Verifying /\ account'.failed = attempt[a].copy.failed + 1
    /\ account'.lockedUntil \in {0, account.lockedUntil, now + LockFor}
    /\ answered'.wrongAt \in {answered.wrongAt, now}
    /\ \/ answered'.wrong \in {0, answered.wrong}
       \/ attempt[a].pc \in Verifying /\ answered'.wrong = answered.wrong + 1
    /\ \A c \in Codes :
          \/ answered'.uses[c] = answered.uses[c]
          \/ attempt[a].pc \in Verifying /\ answered'.uses[c] = answered.uses[c] + 1

\* What is counted was given.
LEMMA VerdictWithin ==
    ASSUME LoginsConstants, LoginsTyped, WithinSteps, WithinTime,
           NEW a \in Attempts, NEW next \in {NoAttempt, Ticket}, Verdict(a, next)
    PROVE  WithinSteps' /\ WithinTime'
<1>1. /\ next \in Attempted /\ next.pc \notin Verifying
      /\ next.copy.failed = 0 /\ next.copy.lockedUntil = 0
  <2>1. /\ NoAttempt \in Attempted /\ NoAttempt.pc = "idle"
        /\ NoAttempt.copy.failed = 0 /\ NoAttempt.copy.lockedUntil = 0
    BY AttemptValues DEF NoAttempt, NothingRead
  <2>2. Ticket.pc = "ticket" /\ Ticket.copy = NoAttempt.copy /\ Ticket \in Attempted
    BY <2>1, AttemptValues DEF Ticket, Attempted
  <2>3. next = NoAttempt \/ next = Ticket
    OBVIOUS
  <2> QED
    BY <2>1, <2>2, <2>3 DEF Verifying
<1>2. /\ attempt'[a] = next
      /\ \A b \in Attempts \ {a} : attempt'[b] = attempt[b]
  BY DEF LoginsTyped, Verdict
<1>3. /\ IsFiniteSet(Answering') /\ Cardinality(Answering) \in Nat
      /\ Cardinality(Answering') \in Nat
      /\ attempt[a].pc \in Verifying => Cardinality(Answering') = Cardinality(Answering) - 1
      /\ Cardinality(Answering') <= Cardinality(Answering)
  <2>1. /\ IsFiniteSet(Answering') /\ Cardinality(Answering) \in Nat
        /\ Cardinality(Answering') \in Nat
        /\ attempt[a].pc \in Verifying => Cardinality(Answering') = Cardinality(Answering) - 1
        /\ attempt[a].pc \notin Verifying => Answering' = Answering
    <3>1. IsFiniteSet(Answering) /\ attempt'[a].pc \notin Verifying
      BY <1>1, <1>2 DEF WithinSteps
    <3> QED
      BY <1>2, <3>1, AnsweringChanges
  <2> QED
    BY <2>1
<1>4. Answering' \subseteq Answering \ {a}
  BY <1>1, <1>2 DEF Answering
<1>5. /\ answered.steps \in Nat /\ answered.wrong \in Nat /\ account.failed \in Nat
      /\ attempt[a].copy.failed \in Nat /\ MaxAnswers \in Nat
      /\ \A c \in Codes : answered.uses[c] \in Nat
      /\ MaxMinutes \in Nat /\ LockFor \in Nat
  BY LoginNumbers
<1>6. answered'.wrong + Cardinality(Answering') <= answered'.steps
  BY <1>3, <1>5 DEF WithinSteps, Verdict
<1>7. \A c \in Codes : answered'.uses[c] + Cardinality(Answering') <= answered'.steps
  BY <1>3, <1>5 DEF WithinSteps, Verdict
<1>8. account'.failed <= answered'.steps /\ answered'.steps <= MaxAnswers
  BY <1>5 DEF WithinSteps, Answering, Verdict
<1>9. \A b \in Attempts : attempt'[b].copy.failed <= MaxAnswers
  BY <1>1, <1>2, <1>5 DEF WithinSteps
<1>10. \A b \in Answering' : attempt'[b].copy.failed < answered'.steps
  <2>1. TAKE b \in Answering'
  <2>2. b \in Answering /\ b \in Attempts /\ attempt'[b] = attempt[b]
    BY <1>2, <1>4, <2>1 DEF Answering
  <2>3. attempt[b].copy.failed \in Nat /\ attempt[b].copy.failed < answered.steps
    BY <2>2, LoginNumbers DEF WithinSteps
  <2> QED
    BY <1>5, <2>2, <2>3 DEF Verdict
<1>11. 0 \in Lock /\ now + LockFor \in Lock
  BY <1>5 DEF Lock, WithinTime
<1>12. WithinTime'
  <2>1. account'.lockedUntil \in Lock
    BY <1>11 DEF WithinTime, Verdict
  <2>2. answered'.wrongAt <= MaxMinutes /\ now' \in 1..MaxMinutes
    BY <1>5 DEF WithinTime, Verdict
  <2>3. \A b \in Attempts : attempt'[b].copy.lockedUntil \in Lock
    BY <1>1, <1>2, <1>11 DEF WithinTime
  <2> QED
    BY <2>1, <2>2, <2>3 DEF WithinTime
<1> QED
  BY <1>3, <1>6, <1>7, <1>8, <1>9, <1>10, <1>12 DEF WithinSteps

\* A right answer sets the counter and the lock back, or leaves them.
LEMMA ResetValues ==
    ASSUME LoginsTyped, NEW a \in Attempts, ResetFailedAttempts(a)
    PROVE  account'.failed \in {0, account.failed}
           /\ account'.lockedUntil \in {0, account.lockedUntil}
<1> DEFINE failed == IF attempt[a].copy.failed = 0 THEN account.failed ELSE 0
<1> DEFINE locked == IF attempt[a].copy.lockedUntil = 0 THEN account.lockedUntil ELSE 0
<1>1. account' = [account EXCEPT !.failed = failed, !.lockedUntil = locked]
  BY DEF ResetFailedAttempts
<1>2. failed \in {0, account.failed} /\ locked \in {0, account.lockedUntil}
  OBVIOUS
<1> HIDE DEF failed, locked
<1>3. account'.failed = failed /\ account'.lockedUntil = locked
  BY <1>1 DEF LoginsTyped
<1> QED
  BY <1>2, <1>3

\* A step of a sign-in stays within the answers given.
LEMMA SignInWithin ==
    ASSUME LoginsConstants, LoginsInv, WithinSteps, WithinTime,
           NEW a \in Attempts, SignInStep(a)
    PROVE  WithinSteps' /\ WithinTime'
<1>1. LoginsTyped /\ Matched
  BY DEF LoginsInv
<1>2. /\ answered \in Counted /\ account.failed \in Nat
      /\ answered.steps \in Nat /\ MaxAnswers \in Nat
  BY <1>1, LoginNumbers DEF LoginsTyped
<1>3. CASE SubmitPassword(a) \/ SubmitCode(a)
  BY <1>1, <1>3, AnswerWithin DEF SubmitPassword, SubmitCode, Verifying
<1>4. ASSUME NEW next \in {NoAttempt, Ticket}, attempt[a].pc \in Verifying,
             RegisterFailedAttempt(a, next), UNCHANGED <<code, now>>
      PROVE  WithinSteps' /\ WithinTime'
  <2>1. next \in Attempted
    BY AttemptValues
  <2>2. /\ attempt' = [attempt EXCEPT ![a] = next]
        /\ account'.failed = attempt[a].copy.failed + 1
        /\ answered'.wrong = answered.wrong + 1 /\ answered'.wrongAt = now
        /\ answered'.uses = answered.uses
    BY <1>1, <1>4, <2>1, WrongType
  <2>3. answered'.steps = answered.steps
    BY <1>2, <1>4 DEF RegisterFailedAttempt, Counted
  <2> DEFINE locked == IF Locks(attempt[a].copy.failed + 1) THEN now + LockFor
                       ELSE account.lockedUntil
  <2>4. account' = [account EXCEPT !.failed = attempt[a].copy.failed + 1,
                                   !.lockedUntil = locked]
    BY <1>4 DEF RegisterFailedAttempt
  <2>5. account'.lockedUntil = locked
    BY <1>1, <2>4 DEF LoginsTyped
  <2>6. account'.lockedUntil \in {0, account.lockedUntil, now + LockFor}
    BY <2>5
  <2>7. Verdict(a, next)
    BY <1>4, <2>2, <2>3, <2>6 DEF Verdict
  <2> QED
    BY <1>1, <1>4, <2>7, VerdictWithin
<1>5. CASE WrongPassword(a) \/ WrongCode(a)
  BY <1>4, <1>5 DEF WrongPassword, WrongCode, Verifying
<1>6. CASE RightPassword(a) \/ RightCode(a)
  <2>1. PICK next \in {NoAttempt, Ticket} : attempt' = [attempt EXCEPT ![a] = next]
    BY <1>6 DEF RightPassword, RightCode
  <2>2. /\ ResetFailedAttempts(a) /\ UNCHANGED now
        /\ answered' = [answered EXCEPT !.wrong = 0]
    BY <1>6 DEF RightPassword, RightCode
  <2>3. /\ answered'.steps = answered.steps /\ answered'.wrong = 0
        /\ answered'.wrongAt = answered.wrongAt /\ answered'.uses = answered.uses
    BY <1>2, <2>2 DEF Counted
  <2>4. account'.failed \in {0, account.failed}
        /\ account'.lockedUntil \in {0, account.lockedUntil}
    BY <1>1, <2>2, ResetValues
  <2>5. Verdict(a, next)
    BY <2>1, <2>2, <2>3, <2>4 DEF Verdict
  <2> QED
    BY <1>1, <2>5, VerdictWithin
<1>7. CASE ProviderUnavailable(a) \/ LoseTicket(a) \/ RecoveryCodeVanished(a)
  <2>1. PICK next \in {NoAttempt, Ticket} : attempt' = [attempt EXCEPT ![a] = next]
    BY <1>7 DEF ProviderUnavailable, LoseTicket, RecoveryCodeVanished
  <2>2. UNCHANGED <<account, now, answered>>
    BY <1>7 DEF ProviderUnavailable, LoseTicket, RecoveryCodeVanished
  <2>3. Verdict(a, next)
    BY <2>1, <2>2 DEF Verdict
  <2> QED
    BY <1>1, <2>3, VerdictWithin
<1>8. CASE LoginWithPasskey(a)
  <2>1. /\ attempt' = [attempt EXCEPT ![a] = NoAttempt] /\ UNCHANGED <<account, now>>
        /\ answered' = [answered EXCEPT !.steps = answered.steps + 1]
        /\ answered.steps < MaxAnswers
    BY <1>8 DEF LoginWithPasskey
  <2>2. /\ answered'.steps = answered.steps + 1 /\ answered'.wrong = answered.wrong
        /\ answered'.wrongAt = answered.wrongAt /\ answered'.uses = answered.uses
    BY <1>2, <2>1 DEF Counted
  <2>3. Verdict(a, NoAttempt)
    BY <2>1, <2>2 DEF Verdict
  <2> QED
    BY <1>1, <2>3, VerdictWithin
<1>9. ASSUME NEW c \in Codes, MatchRecoveryCode(a, c) PROVE WithinSteps' /\ WithinTime'
  <2> DEFINE next == [attempt[a] EXCEPT !.pc = "code", !.code = c]
  <2>1. attempt[a] \in Attempted /\ attempt[a].pc = "totp"
    BY <1>1, <1>9 DEF MatchRecoveryCode, LoginsTyped
  <2>2. next.pc = "code" /\ next.copy = attempt[a].copy
    BY <2>1 DEF Attempted
  <2>3. attempt' = [attempt EXCEPT ![a] = next] /\ UNCHANGED <<account, now, answered>>
    BY <1>1, <1>9 DEF MatchRecoveryCode, LoginsTyped
  <2> HIDE DEF next
  <2>4. /\ attempt'[a] = next
        /\ \A b \in Attempts \ {a} : attempt'[b] = attempt[b]
    BY <1>1, <2>3 DEF LoginsTyped
  <2>5. \A b \in Attempts : attempt'[b].copy = attempt[b].copy
    BY <2>2, <2>4
  <2>6. Answering' = Answering
    BY <2>1, <2>2, <2>4 DEF Answering, Verifying
  <2>7. \A b \in Answering : b \in Attempts
    BY DEF Answering
  <2> QED
    BY <2>3, <2>5, <2>6, <2>7 DEF WithinSteps, WithinTime
<1>10. CASE UseRecoveryCode(a)
  <2> DEFINE c == attempt[a].code
             uses == [answered.uses EXCEPT ![c] = @ + 1]
  <2>1. c \in Codes /\ attempt[a].pc = "code"
    BY <1>1, <1>10 DEF UseRecoveryCode, Matched
  <2>2. /\ answered' = [answered EXCEPT !.wrong = 0, !.uses = uses]
        /\ attempt' = [attempt EXCEPT ![a] = NoAttempt] /\ UNCHANGED now
        /\ ResetFailedAttempts(a)
    BY <1>10 DEF UseRecoveryCode
  <2>3. \A d \in Codes : uses[d] = answered.uses[d] \/ uses[d] = answered.uses[d] + 1
    BY <1>2, <2>1 DEF Counted
  <2> HIDE DEF uses
  <2>4. /\ answered'.steps = answered.steps /\ answered'.wrong = 0
        /\ answered'.wrongAt = answered.wrongAt /\ answered'.uses = uses
    BY <1>2, <2>2 DEF Counted
  <2>5. attempt[a].pc \in Verifying
    BY <2>1 DEF Verifying
  <2>6. account'.failed \in {0, account.failed}
        /\ account'.lockedUntil \in {0, account.lockedUntil}
    BY <1>1, <2>2, ResetValues
  <2>7. Verdict(a, NoAttempt)
    BY <2>2, <2>3, <2>4, <2>5, <2>6 DEF Verdict
  <2> QED
    BY <1>1, <2>7, VerdictWithin
<1> QED
  BY <1>3, <1>5, <1>6, <1>7, <1>8, <1>9, <1>10 DEF SignInStep

\* The account page and the clock give no answers.
LEMMA ApartWithin ==
    ASSUME LoginsConstants, LoginsInv, WithinSteps, WithinTime,
           AccountPage \/ MinutePasses \/ UNCHANGED loginVars
    PROVE  WithinSteps' /\ WithinTime'
<1>1. LoginsTyped
  BY DEF LoginsInv
<1>2. /\ UNCHANGED <<attempt, answered>>
      /\ account'.failed = account.failed /\ account'.lockedUntil = account.lockedUntil
  BY <1>1 DEF AccountPage, EnrollTotp, RegenerateRecoveryCodes, DisableTotp, RegisterPasskey,
              DeletePasskey, MinutePasses, loginVars, LoginsTyped
<1>3. now' \in 1..MaxMinutes
  <2>1. CASE MinutePasses
    BY <2>1 DEF MinutePasses, WithinTime, LoginsConstants
  <2>2. CASE AccountPage \/ UNCHANGED loginVars
    BY <2>2 DEF AccountPage, EnrollTotp, RegenerateRecoveryCodes, DisableTotp,
                RegisterPasskey, DeletePasskey, loginVars, WithinTime
  <2> QED
    BY <2>1, <2>2
<1>4. Answering' = Answering
  BY <1>2 DEF Answering
<1> QED
  BY <1>2, <1>3, <1>4 DEF WithinSteps, WithinTime

\* Nobody has answered anything yet.
LEMMA WithinBegin ==
    ASSUME LoginsConstants, LoginsInit PROVE WithinSteps /\ WithinTime
<1>1. \A a \in Attempts : /\ attempt[a].pc = "idle" /\ attempt[a].copy.failed = 0
                          /\ attempt[a].copy.lockedUntil = 0
  BY DEF LoginsInit, NoAttempt, NothingRead
<1>2. Answering = {}
  BY <1>1 DEF Answering, Verifying
<1>3. IsFiniteSet(Answering) /\ Cardinality(Answering) = 0
  BY <1>2, FS_EmptySet
<1>4. 0 \in Lock /\ 1 \in 1..MaxMinutes
  BY DEF Lock, LoginsConstants
<1> QED
  BY <1>1, <1>2, <1>3, <1>4 DEF LoginsInit, WithinSteps, WithinTime, LoginsConstants

\* Within the answers given, every value is of its type.
LEMMA WithinTyped ==
    ASSUME LoginsConstants, LoginsInv, WithinSteps, WithinTime PROVE LoginsTypeOK
<1>1. LoginsTyped /\ answered \in Counted
  BY DEF LoginsInv, LoginsTyped
<1>2. account.failed \in 0..MaxAnswers /\ answered.steps \in 0..MaxAnswers
  BY <1>1, LoginNumbers DEF WithinSteps
<1>3. Cardinality(Answering) \in Nat
  BY FS_CardinalityType DEF WithinSteps
<1>4. answered.wrong \in 0..MaxAnswers /\ \A c \in Codes : answered.uses[c] \in 0..MaxAnswers
  BY <1>1, <1>3, LoginNumbers DEF WithinSteps
<1>5. answered.uses \in [Codes -> 0..MaxAnswers] /\ answered.wrongAt \in 0..MaxMinutes
  BY <1>1, <1>4, LoginNumbers DEF Counted, WithinTime
<1>6. answered \in [steps : 0..MaxAnswers, wrong : 0..MaxAnswers, wrongAt : 0..MaxMinutes,
                    overlapped : BOOLEAN, uses : [Codes -> 0..MaxAnswers]]
  BY <1>1, <1>2, <1>4, <1>5 DEF Counted
<1>7. account \in AccountRow
  BY <1>1, <1>2 DEF LoginsTyped, AccountRow, WithinTime
<1>8. ASSUME NEW a \in Attempts PROVE attempt[a] \in Attempt
  <2>1. attempt[a] \in Attempted
    BY <1>1 DEF LoginsTyped
  <2>2. attempt[a].copy.failed \in 0..MaxAnswers /\ attempt[a].copy.lockedUntil \in Lock
    BY <1>1, LoginNumbers DEF WithinSteps, WithinTime
  <2>3. attempt[a].copy \in Copy
    BY <2>1, <2>2 DEF Attempted, Copy
  <2> QED
    BY <2>1, <2>3 DEF Attempted, Attempt
<1>9. attempt \in [Attempts -> Attempt]
  BY <1>1, <1>8 DEF LoginsTyped
<1> QED
  BY <1>1, <1>6, <1>7, <1>9 DEF LoginsTyped, LoginsTypeOK, WithinTime

\* Accounts, codes and sign-ins are of their types, and no counter passes the
\* number of answers given, however many are verified side by side.
THEOREM LoginsTypeCorrect == ASSUME LoginsConstants PROVE LoginsSpec => []LoginsTypeOK
<1>1. LoginsInit => WithinSteps /\ WithinTime
  BY WithinBegin
<1>2. LoginsInv /\ WithinSteps /\ WithinTime /\ [LoginsNext]_loginVars
      => WithinSteps' /\ WithinTime'
  BY SignInWithin, ApartWithin DEF LoginsNext
<1>3. LoginsInv /\ WithinSteps /\ WithinTime => LoginsTypeOK
  BY WithinTyped
<1> QED
  BY <1>1, <1>2, <1>3, LoginsInvAlways, PTL DEF LoginsSpec

=============================================================================
