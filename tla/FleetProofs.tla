----------------------------- MODULE FleetProofs -----------------------------
(***************************************************************************)
(* Proofs about the modules about honeypots, each from an inductive          *)
(* invariant of its own: the shared SSH key (SshAccess), the OpenCanary      *)
(* configuration (CanaryConfig), the watched files (WatchedFiles), the facts *)
(* of the row (HoneypotRecord), the tunnel (Vpn), the purges (Retention),    *)
(* the terminals (Terminals), the tags (HoneypotTags), the packages and      *)
(* their rollbacks (Packages), new devices (Initialize) and the data that is *)
(* downloaded (ReferenceData). At the end: the parts MCFleet puts together   *)
(* each behave there as they do alone (FleetAreItsParts), so it all holds of *)
(* the instance, too.                                                        *)
(***************************************************************************)
EXTENDS MCFleet, FiniteSetTheorems, WellFoundedInduction, TLAPS

-----------------------------------------------------------------------------
\* SshAccess: whoever activates a key with care is never locked out.

\* A row, and every copy of it that somebody will write back, is the shared key
\* with the application's own account, or a password with root.
Pure(login) == login.method = "key" <=> login.user = "honeypotshelf"
Shared(h) == authorized[h]["honeypotshelf"]

LoginsArePure ==
    /\ \A h \in Honeypots : Pure(auth[h])
    /\ \A q \in Attempts : Pure(attempt[q].before) /\ Pure(setup[q].copy)

\* Tasks and requests that are under way have a key in hand.
InHandKeys ==
    /\ identity.active = NoKey =>
          (\A h \in Honeypots : auth[h].method = "password") /\ ~OnboardingUnderWay
    /\ \A h \in Honeypots :
          pushing[h].pc = "running" =>
              /\ pushing[h].key \in Keys
              /\ pushing[h].user = "honeypotshelf"
    /\ \A q \in Attempts : setup[q].pc = "running" => setup[q].key \in Keys
    /\ push.pc = "waiting" => push.key \in Keys
    /\ ~sshSeen.onboarded => ~OnboardingUnderWay

\* What a roll-out has heard of, and what it has reported, is installed.
RollOut ==
    /\ push.pc = "idle" => push.ok = {} /\ push.sent = {}
    /\ push.pc = "waiting" /\ ~sshSeen.regenerated =>
          /\ identity.pending \in {push.key, NoKey}
          /\ \A h \in Honeypots : pushing[h].pc = "running" => pushing[h].key = push.key
          /\ \A h \in push.ok : push.key \in Shared(h)
    /\ sshSeen.report.key \in Keys =>
          \A h \in sshSeen.report.ok : sshSeen.report.key \in Shared(h)

\* What onboarding will leave on the shared key lets the active key in.
LetIn ==
    ~sshSeen.careless =>
        /\ \A h \in OnKey : identity.active \in Shared(h)
        /\ \A q \in Attempts :
              /\ attempt[q].pc = "waiting" /\ attempt[q].before.method = "key" =>
                    identity.active \in Shared(attempt[q].honeypot)
              /\ setup[q].pc = "running" => setup[q].key = identity.active

SshInv == SshTypeOK /\ LoginsArePure /\ InHandKeys /\ RollOut /\ LetIn

LEMMA SshRecords ==
    ASSUME SshConstants
    PROVE  /\ NoPush \in Push /\ NoPush.pc = "idle" /\ NoPush.ok = {} /\ NoPush.sent = {}
           /\ NoTask \in Pushing /\ NoTask.pc = "idle"
           /\ NoAttempt \in Attempt /\ NoAttempt.pc = "idle" /\ Pure(NoAttempt.before)
           /\ NoSetup \in Setup /\ NoSetup.pc = "idle" /\ Pure(NoSetup.copy)
           /\ AppLogin \in Auth /\ OneTime \in Auth /\ Pure(OneTime)
<1>1. PICK h \in Honeypots : h = CHOOSE x \in Honeypots : TRUE
  BY DEF SshConstants
<1>2. NoPush \in Push /\ NoPush.pc = "idle" /\ NoPush.ok = {} /\ NoPush.sent = {}
  BY DEF NoPush, Push, Key
<1>3. NoTask \in Pushing /\ NoTask.pc = "idle"
  BY DEF NoTask, Pushing, Key, Accounts
<1>4. AppLogin \in Auth /\ OneTime \in Auth /\ Pure(AppLogin) /\ Pure(OneTime)
  BY DEF AppLogin, OneTime, Auth, Accounts, Pure
<1>5. /\ NoAttempt = [pc |-> "idle", honeypot |-> h, once |-> FALSE, before |-> AppLogin]
      /\ NoSetup = [pc |-> "idle", honeypot |-> h, key |-> NoKey, copy |-> AppLogin]
  BY <1>1, Zenon DEF NoAttempt, NoSetup
<1>6. NoAttempt \in Attempt /\ NoAttempt.pc = "idle" /\ NoAttempt.before = AppLogin
  BY <1>4, <1>5 DEF Attempt
<1>7. NoSetup \in Setup /\ NoSetup.pc = "idle" /\ NoSetup.copy = AppLogin
  BY <1>4, <1>5 DEF Setup, Key
<1> QED
  BY <1>2, <1>3, <1>4, <1>6, <1>7

\* An operation counted among those of the administrators.
LEMMA Counted ==
    ASSUME SshConstants, SshTypeOK, Count, NEW n, n = sshSeen.steps + 1
    PROVE  n \in 0..MaxSteps
<1>1. sshSeen.steps \in 0..MaxSteps /\ MaxSteps \in Nat
  BY DEF SshTypeOK, SshConstants
<1> QED
  BY <1>1 DEF Count

Seen == [steps : 0..MaxSteps, deaths : 0..MaxDeaths, used : SUBSET Keys,
         regenerated : BOOLEAN, onboarded : BOOLEAN, careless : BOOLEAN,
         report : [key : Key, ok : SUBSET Honeypots]]

\* The key pair: only the identity and the history change.
LEMMA KeyChanges ==
    ASSUME SshConstants, SshInv,
           \/ \E k \in Keys : GetOrCreateIdentity(k) \/ GeneratePending(k)
           \/ DiscardPending
    PROVE  SshInv'
<1>1. identity \in [active : Key, pending : Key] /\ sshSeen \in Seen
  BY DEF SshInv, SshTypeOK, Seen
<1>2. UNCHANGED <<auth, authorized, push, pushing, attempt, setup>>
  BY DEF GetOrCreateIdentity, GeneratePending, DiscardPending
<1>3. ASSUME NEW k \in Keys, GetOrCreateIdentity(k) PROVE SshInv'
  <2>1. /\ identity' \in [active : Key, pending : Key]
        /\ identity'.active = k /\ identity'.pending = identity.pending
    BY <1>1, <1>3 DEF GetOrCreateIdentity, Key
  <2>2. /\ sshSeen' \in Seen
        /\ sshSeen'.regenerated = sshSeen.regenerated /\ sshSeen'.onboarded = sshSeen.onboarded
        /\ sshSeen'.careless = sshSeen.careless /\ sshSeen'.report = sshSeen.report
    BY <1>1, <1>3 DEF GetOrCreateIdentity, Seen
  <2>3. identity.active = NoKey /\ identity'.active # NoKey
    BY <1>3, <2>1 DEF GetOrCreateIdentity, SshConstants
  <2>4. SshTypeOK'
    BY <1>2, <2>1, <2>2 DEF SshInv, SshTypeOK, Seen
  <2>5. LoginsArePure' /\ InHandKeys'
    BY <1>2, <2>2, <2>3 DEF SshInv, LoginsArePure, Pure, InHandKeys, OnboardingUnderWay
  <2>6. RollOut'
    BY <1>2, <2>1, <2>2 DEF SshInv, RollOut, Shared
  <2>7. LetIn'
    <3>1. OnKey' = {} /\ \A q \in Attempts : attempt'[q].pc = "idle" /\ setup'[q].pc # "running"
      BY <1>2, <2>3 DEF SshInv, InHandKeys, OnKey, OnboardingUnderWay
    <3> QED
      BY <3>1 DEF LetIn
  <2> QED
    BY <2>4, <2>5, <2>6, <2>7 DEF SshInv
<1>4. ASSUME NEW k \in Keys, GeneratePending(k) PROVE SshInv'
  <2>1. /\ identity' \in [active : Key, pending : Key] /\ identity'.active = identity.active
    BY <1>1, <1>4 DEF GeneratePending, Key
  <2>2. PICK b \in BOOLEAN : b = (sshSeen.regenerated \/ push.pc # "idle")
    BY <1>1 DEF Seen
  <2>3. sshSeen' = [sshSeen EXCEPT !.steps = sshSeen.steps + 1,
                        !.used = sshSeen.used \cup {k}, !.regenerated = b]
    BY <1>4, <2>2, Zenon DEF GeneratePending
  <2>4. sshSeen.steps + 1 \in 0..MaxSteps
    BY <1>4, Counted DEF GeneratePending, SshInv
  <2>5. /\ sshSeen' \in Seen /\ sshSeen'.regenerated = b
        /\ sshSeen'.onboarded = sshSeen.onboarded
        /\ sshSeen'.careless = sshSeen.careless /\ sshSeen'.report = sshSeen.report
    BY <1>1, <2>3, <2>4 DEF Seen
  <2>6. SshTypeOK'
    BY <1>2, <2>1, <2>5 DEF SshInv, SshTypeOK, Seen
  <2>7. LoginsArePure' /\ InHandKeys' /\ LetIn'
    BY <1>2, <2>1, <2>5 DEF SshInv, LoginsArePure, Pure, InHandKeys, OnboardingUnderWay,
       LetIn, Shared, OnKey
  <2>8. RollOut'
    BY <1>2, <2>2, <2>5 DEF SshInv, RollOut, Shared
  <2> QED
    BY <2>6, <2>7, <2>8 DEF SshInv
<1>5. CASE DiscardPending
  <2>1. /\ identity' \in [active : Key, pending : Key]
        /\ identity'.active = identity.active /\ identity'.pending = NoKey
    BY <1>1, <1>5 DEF DiscardPending, Key
  <2>2. sshSeen.steps + 1 \in 0..MaxSteps
    BY <1>5, Counted DEF DiscardPending, SshInv
  <2>3. /\ sshSeen' \in Seen /\ sshSeen'.regenerated = sshSeen.regenerated
        /\ sshSeen'.onboarded = sshSeen.onboarded
        /\ sshSeen'.careless = sshSeen.careless /\ sshSeen'.report = sshSeen.report
    BY <1>1, <1>5, <2>2 DEF DiscardPending, Seen
  <2>4. SshTypeOK'
    BY <1>2, <2>1, <2>3 DEF SshInv, SshTypeOK, Seen
  <2>5. LoginsArePure' /\ InHandKeys' /\ LetIn'
    BY <1>2, <2>1, <2>3 DEF SshInv, LoginsArePure, Pure, InHandKeys, OnboardingUnderWay,
       LetIn, Shared, OnKey
  <2>6. RollOut'
    BY <1>2, <2>1, <2>3 DEF SshInv, RollOut, Shared
  <2> QED
    BY <2>4, <2>5, <2>6 DEF SshInv
<1> QED
  BY <1>3, <1>4, <1>5

\* The one step that changes what everybody has to let in.
LEMMA ActivateKeeps ==
    ASSUME SshConstants, SshInv, ActivatePending
    PROVE  SshInv'
<1>1. identity \in [active : Key, pending : Key] /\ sshSeen \in Seen
  BY DEF SshInv, SshTypeOK, Seen
<1>2. UNCHANGED <<auth, authorized, push, pushing, attempt, setup>>
  BY DEF ActivatePending
<1>3. /\ identity' \in [active : Key, pending : Key] /\ identity.pending \in Keys
      /\ identity'.active = identity.pending /\ identity'.pending = NoKey
  BY <1>1 DEF ActivatePending, Key
<1> DEFINE c == \/ sshSeen.careless
                \/ sshSeen.report.key # identity.pending
                \/ ~(OnKey \subseteq sshSeen.report.ok)
                \/ sshSeen.onboarded
<1>4. c \in BOOLEAN
  BY Zenon
<1>5. sshSeen' = [sshSeen EXCEPT !.steps = sshSeen.steps + 1, !.careless = c]
  BY Zenon DEF ActivatePending
<1> HIDE DEF c
<1>6. sshSeen.steps + 1 \in 0..MaxSteps
  BY Counted DEF ActivatePending, SshInv
<1>7. /\ sshSeen' \in Seen /\ sshSeen'.careless = c
      /\ sshSeen'.regenerated = sshSeen.regenerated /\ sshSeen'.onboarded = sshSeen.onboarded
      /\ sshSeen'.report = sshSeen.report
  BY <1>1, <1>4, <1>5, <1>6 DEF Seen
<1>8. SshTypeOK'
  BY <1>2, <1>3, <1>7 DEF SshInv, SshTypeOK, Seen
<1>9. LoginsArePure' /\ InHandKeys'
  BY <1>2, <1>3, <1>7 DEF SshInv, LoginsArePure, Pure, InHandKeys, OnboardingUnderWay,
     SshConstants
<1>10. RollOut'
  BY <1>2, <1>3, <1>7 DEF SshInv, RollOut, Shared
<1>11. ASSUME ~sshSeen'.careless PROVE LetIn'
  <2>1. /\ sshSeen.report.key = identity.pending /\ OnKey \subseteq sshSeen.report.ok
        /\ ~sshSeen.onboarded
    BY <1>7, <1>11 DEF c
  <2>2. ~OnboardingUnderWay
    BY <2>1 DEF SshInv, InHandKeys
  <2>3. \A h \in OnKey : identity'.active \in Shared(h)
    BY <1>3, <2>1 DEF SshInv, RollOut
  <2>4. \A q \in Attempts : attempt[q].pc = "idle" /\ setup[q].pc # "running"
    BY <2>2 DEF OnboardingUnderWay
  <2> QED
    BY <1>2, <2>3, <2>4 DEF LetIn, OnKey, Shared
<1> QED
  BY <1>8, <1>9, <1>10, <1>11 DEF SshInv, LetIn

LEMMA PushKeyKeeps ==
    ASSUME SshConstants, SshInv, PushKey
    PROVE  SshInv'
<1>1. sshSeen \in Seen /\ OnKey \in SUBSET Honeypots /\ identity.pending \in Keys
  BY DEF SshInv, SshTypeOK, Seen, OnKey, PushKey, Key
<1>2. UNCHANGED <<identity, auth, authorized, attempt, setup>>
  BY DEF PushKey
<1>3. /\ push' \in Push /\ push'.pc = "waiting" /\ push'.key = identity.pending
      /\ push'.ok = {}
  <2> DEFINE p == [NoPush EXCEPT !.pc = "waiting", !.key = identity.pending, !.sent = OnKey]
  <2>1. p \in Push /\ p.pc = "waiting" /\ p.key = identity.pending /\ p.ok = NoPush.ok
    BY <1>1, SshRecords DEF Push, Key
  <2> QED
    BY <2>1, SshRecords DEF PushKey
<1>4. pushing' \in [Honeypots -> Pushing] /\ \A h \in Honeypots : pushing'[h].pc # "running"
  <2> DEFINE g == [NoTask EXCEPT !.pc = "queued"]
  <2>1. g \in Pushing /\ g.pc = "queued"
    BY SshRecords DEF Pushing
  <2> HIDE DEF g
  <2>2. pushing' = [h \in Honeypots |-> IF h \in OnKey THEN g ELSE NoTask]
    BY DEF PushKey, g
  <2> QED
    BY <2>1, <2>2, SshRecords
<1>5. PICK b \in BOOLEAN : b = OnboardingUnderWay
  BY Zenon DEF OnboardingUnderWay
<1>6. sshSeen.steps + 1 \in 0..MaxSteps
  BY Counted DEF PushKey, SshInv
<1>7. sshSeen' = [sshSeen EXCEPT !.steps = sshSeen.steps + 1, !.onboarded = b,
                                 !.regenerated = FALSE]
  BY <1>5, Zenon DEF PushKey
<1>8. /\ sshSeen' \in Seen /\ sshSeen'.careless = sshSeen.careless
      /\ sshSeen'.onboarded = b /\ sshSeen'.report = sshSeen.report
  BY <1>1, <1>6, <1>7 DEF Seen
<1>9. SshTypeOK'
  BY <1>2, <1>3, <1>4, <1>8 DEF SshInv, SshTypeOK, Seen
<1>10. LoginsArePure' /\ LetIn'
  BY <1>2, <1>8 DEF SshInv, LoginsArePure, Pure, LetIn, OnKey, Shared
<1>11. InHandKeys'
  BY <1>1, <1>2, <1>3, <1>4, <1>5, <1>8 DEF SshInv, InHandKeys, OnboardingUnderWay
<1>12. RollOut'
  BY <1>2, <1>3, <1>4, <1>8 DEF SshInv, RollOut, Shared
<1> QED
  BY <1>9, <1>10, <1>11, <1>12 DEF SshInv

\* What an answer does to the request: a honeypot it counts is one that was ok.
LEMMA AnswerCounts ==
    ASSUME SshConstants, SshInv, NEW h \in Honeypots, NEW taken \in BOOLEAN,
           Answer(h, taken)
    PROVE  /\ push' \in Push /\ push'.pc = push.pc /\ push'.key = push.key
           /\ push'.ok \subseteq push.ok \cup {h} /\ (~taken => push'.ok = push.ok)
           /\ push.pc = "idle" => push'.ok = {}
           /\ pushing' \in [Honeypots -> Pushing] /\ pushing'[h].pc = "idle"
           /\ \A x \in Honeypots \ {h} : pushing'[x] = pushing[x]
<1>1. push \in Push /\ pushing \in [Honeypots -> Pushing]
  BY DEF SshInv, SshTypeOK
<1>2. /\ pushing' \in [Honeypots -> Pushing] /\ pushing'[h].pc = "idle"
      /\ \A x \in Honeypots \ {h} : pushing'[x] = pushing[x]
  BY <1>1, SshRecords DEF Answer
<1>3. CASE push' = push
  BY <1>1, <1>2, <1>3 DEF SshInv, RollOut
<1>4. CASE /\ h \in push.sent \ (push.ok \cup push.failed)
           /\ taken /\ push' = [push EXCEPT !.ok = push.ok \cup {h}]
  <2>1. push.pc # "idle"
    BY <1>4 DEF SshInv, RollOut
  <2>2. push' \in Push /\ push'.pc = push.pc /\ push'.key = push.key /\ push'.ok = push.ok \cup {h}
    BY <1>1, <1>4 DEF Push
  <2> QED
    BY <1>2, <1>4, <2>1, <2>2
<1>5. CASE ~taken /\ push' = [push EXCEPT !.failed = push.failed \cup {h}]
  BY <1>1, <1>2, <1>5 DEF Push, SshInv, RollOut
<1> QED
  BY <1>3, <1>4, <1>5 DEF Answer

\* The steps of a roll-out that install nothing.
LEMMA PushStepsKeep ==
    ASSUME SshConstants, SshInv, NEW h \in Honeypots,
           PushTaskReads(h) \/ PushTaskFails(h) \/ PushTimesOut(h)
    PROVE  SshInv'
<1>1. UNCHANGED <<identity, auth, authorized, attempt, setup, sshSeen>>
  BY DEF PushTaskReads, PushTaskFails, PushTimesOut
<1>2. push \in Push /\ pushing \in [Honeypots -> Pushing]
  BY DEF SshInv, SshTypeOK
<1>3. LoginsArePure' /\ LetIn'
  BY <1>1 DEF SshInv, LoginsArePure, Pure, LetIn, OnKey, Shared
<1>4. ASSUME push' \in Push, push'.pc = push.pc, push'.key = push.key, push'.ok = push.ok,
             push.pc = "idle" => push'.sent = {},
             pushing' \in [Honeypots -> Pushing],
             \A x \in Honeypots \ {h} : pushing'[x] = pushing[x],
             pushing'[h].pc = "running" =>
                \/ pushing'[h] = pushing[h]
                \/ /\ pushing'[h].key = identity.pending /\ identity.pending \in Keys
                   /\ pushing'[h].user = "honeypotshelf"
      PROVE  SshInv'
  <2>1. SshTypeOK'
    BY <1>1, <1>4 DEF SshInv, SshTypeOK
  <2>2. InHandKeys'
    BY <1>1, <1>4 DEF SshInv, InHandKeys, OnboardingUnderWay
  <2>3. RollOut'
    BY <1>1, <1>4 DEF SshInv, RollOut, Shared, SshConstants
  <2> QED
    BY <1>3, <2>1, <2>2, <2>3 DEF SshInv
<1>5. ASSUME Answer(h, FALSE) PROVE SshInv'
  <2>1. /\ push' \in Push /\ push'.pc = push.pc /\ push'.key = push.key /\ push'.ok = push.ok
        /\ pushing' \in [Honeypots -> Pushing] /\ pushing'[h].pc = "idle"
        /\ \A x \in Honeypots \ {h} : pushing'[x] = pushing[x]
    BY <1>5, AnswerCounts
  <2>2. push'.sent = push.sent
    BY <1>2, <1>5 DEF Answer, Push
  <2>3. push.pc = "idle" => push'.sent = {}
    BY <2>2 DEF SshInv, RollOut
  <2> QED
    BY <1>4, <2>1, <2>3
<1>6. CASE PushTaskReads(h)
  <2>1. CASE /\ auth[h].method = "key" /\ identity.pending # NoKey
             /\ pushing' = [pushing EXCEPT ![h] =
                    [pc |-> "running", key |-> identity.pending, login |-> identity.active,
                     user |-> auth[h].user]]
             /\ UNCHANGED push
    <3>1. /\ identity.pending \in Keys /\ identity.active \in Key
          /\ auth[h].user \in Accounts /\ auth[h].user = "honeypotshelf"
      BY <2>1 DEF SshInv, SshTypeOK, Key, Auth, LoginsArePure, Pure
    <3> DEFINE t == [pc |-> "running", key |-> identity.pending, login |-> identity.active,
                     user |-> auth[h].user]
    <3>2. t \in Pushing /\ t.key = identity.pending /\ t.user = "honeypotshelf"
      BY <3>1 DEF Pushing, Key
    <3> HIDE DEF t
    <3>3. pushing' = [pushing EXCEPT ![h] = t]
      BY <2>1 DEF t
    <3>4. push.pc = "idle" => push'.sent = {}
      BY <2>1 DEF SshInv, RollOut
    <3> QED
      BY <1>2, <1>4, <2>1, <3>1, <3>2, <3>3, <3>4
  <2> QED
    BY <1>5, <1>6, <2>1 DEF PushTaskReads
<1>7. CASE PushTaskFails(h)
  BY <1>5, <1>7 DEF PushTaskFails
<1>8. CASE PushTimesOut(h)
  <2>1. /\ push' \in Push /\ push'.pc = push.pc /\ push'.key = push.key /\ push'.ok = push.ok
        /\ push.pc = "waiting" /\ UNCHANGED pushing
    BY <1>2, <1>8 DEF PushTimesOut, Push
  <2> QED
    BY <1>2, <1>4, <2>1
<1> QED
  BY <1>6, <1>7, <1>8

\* A key more that some account lets in disturbs nothing.
LEMMA MoreKeys ==
    ASSUME SshTypeOK, NEW h \in Honeypots, NEW u \in Accounts, NEW k \in Keys,
           authorized' = [authorized EXCEPT ![h][u] = @ \cup {k}]
    PROVE  /\ authorized' \in [Honeypots -> [Accounts -> SUBSET Keys]]
           /\ \A x \in Honeypots : Shared(x) \subseteq Shared(x)'
           /\ u = "honeypotshelf" => k \in Shared(h)'
<1>1. authorized \in [Honeypots -> [Accounts -> SUBSET Keys]] /\ "honeypotshelf" \in Accounts
  BY DEF SshTypeOK, Accounts
<1> DEFINE e == [authorized[h] EXCEPT ![u] = authorized[h][u] \cup {k}]
<1>2. e \in [Accounts -> SUBSET Keys] /\ authorized[h]["honeypotshelf"] \subseteq e["honeypotshelf"]
  BY <1>1
<1>3. u = "honeypotshelf" => k \in e["honeypotshelf"]
  BY <1>1
<1>4. authorized' = [authorized EXCEPT ![h] = e]
  BY <1>1
<1> HIDE DEF e
<1> QED
  BY <1>1, <1>2, <1>3, <1>4 DEF Shared

LEMMA PushTaskAppendsKeeps ==
    ASSUME SshConstants, SshInv, NEW h \in Honeypots, PushTaskAppends(h)
    PROVE  SshInv'
<1>1. UNCHANGED <<identity, auth, attempt, setup, sshSeen>> /\ Answer(h, TRUE)
  BY DEF PushTaskAppends
<1>2. /\ pushing[h].pc = "running" /\ pushing[h].key \in Keys
      /\ pushing[h].user = "honeypotshelf" /\ pushing[h].user \in Accounts
  BY DEF PushTaskAppends, SshInv, InHandKeys, Accounts
<1>3. /\ authorized' \in [Honeypots -> [Accounts -> SUBSET Keys]]
      /\ \A x \in Honeypots : Shared(x) \subseteq Shared(x)'
      /\ pushing[h].key \in Shared(h)'
  BY <1>2, MoreKeys DEF PushTaskAppends, SshInv
<1>4. /\ push' \in Push /\ push'.pc = push.pc /\ push'.key = push.key
      /\ push'.ok \subseteq push.ok \cup {h} /\ (push.pc = "idle" => push'.ok = {})
      /\ pushing' \in [Honeypots -> Pushing] /\ pushing'[h].pc = "idle"
      /\ \A x \in Honeypots \ {h} : pushing'[x] = pushing[x]
  BY <1>1, AnswerCounts
<1>5. push.pc = "idle" => push'.sent = {}
  <2>1. push'.sent = push.sent
    BY <1>1 DEF Answer, SshInv, SshTypeOK, Push
  <2> QED
    BY <2>1 DEF SshInv, RollOut
<1>6. SshTypeOK'
  BY <1>1, <1>3, <1>4 DEF SshInv, SshTypeOK
<1>7. LoginsArePure' /\ InHandKeys'
  BY <1>1, <1>4 DEF SshInv, LoginsArePure, Pure, InHandKeys, OnboardingUnderWay
<1>8. LetIn'
  BY <1>1, <1>3 DEF SshInv, LetIn, OnKey, SshTypeOK, Attempt
<1>9. RollOut'
  <2>1. push.pc = "waiting" /\ ~sshSeen.regenerated =>
            \A x \in push'.ok : push.key \in Shared(x)'
    BY <1>2, <1>3, <1>4 DEF SshInv, RollOut, SshTypeOK, Push
  <2>2. sshSeen.report.key \in Keys =>
            \A x \in sshSeen.report.ok : sshSeen.report.key \in Shared(x)'
    BY <1>3 DEF SshInv, RollOut, SshTypeOK
  <2> QED
    BY <1>1, <1>4, <1>5, <2>1, <2>2 DEF SshInv, RollOut, Shared
<1> QED
  BY <1>6, <1>7, <1>8, <1>9 DEF SshInv

LEMMA PushReportsKeeps ==
    ASSUME SshConstants, SshInv, PushReports
    PROVE  SshInv'
<1>1. UNCHANGED <<identity, auth, authorized, pushing, attempt, setup>> /\ push' = NoPush
  BY DEF PushReports
<1>2. push \in Push /\ sshSeen \in Seen /\ push.pc = "waiting"
  BY DEF SshInv, SshTypeOK, Seen, PushReports
<1> DEFINE r == IF sshSeen.regenerated THEN [key |-> NoKey, ok |-> {}]
                ELSE [key |-> push.key, ok |-> push.ok]
<1>3. /\ r \in [key : Key, ok : SUBSET Honeypots]
      /\ r.key \in Keys => \A h \in r.ok : r.key \in Shared(h)
  <2>1. CASE sshSeen.regenerated
    BY <2>1 DEF Key, SshConstants
  <2>2. CASE ~sshSeen.regenerated
    BY <1>2, <2>2 DEF Push, SshInv, RollOut
  <2> QED
    BY <2>1, <2>2
<1>4. sshSeen' = [sshSeen EXCEPT !.report = r]
  BY DEF PushReports, Succeeded
<1> HIDE DEF r
<1>5. /\ sshSeen' \in Seen /\ sshSeen'.regenerated = sshSeen.regenerated
      /\ sshSeen'.onboarded = sshSeen.onboarded /\ sshSeen'.careless = sshSeen.careless
      /\ sshSeen'.report = r
  BY <1>2, <1>3, <1>4 DEF Seen
<1>6. SshTypeOK'
  BY <1>1, <1>5, SshRecords DEF SshInv, SshTypeOK, Seen
<1>7. LoginsArePure' /\ InHandKeys' /\ LetIn'
  BY <1>1, <1>5, SshRecords DEF SshInv, LoginsArePure, Pure, InHandKeys, OnboardingUnderWay,
     LetIn, OnKey, Shared
<1>8. RollOut'
  BY <1>1, <1>3, <1>5, SshRecords DEF SshInv, RollOut, Shared
<1> QED
  BY <1>6, <1>7, <1>8 DEF SshInv

LEMMA PersonalKeysKeep ==
    ASSUME SshConstants, SshInv, NEW h \in Honeypots, PushSuperadminKeys(h)
    PROVE  SshInv'
<1>1. UNCHANGED <<identity, auth, push, pushing, attempt, setup>>
  BY DEF PushSuperadminKeys
<1>2. identity.active \in Keys /\ auth[h].user \in Accounts
  BY DEF PushSuperadminKeys, SshInv, SshTypeOK, Key, Auth
<1>3. /\ authorized' \in [Honeypots -> [Accounts -> SUBSET Keys]]
      /\ \A x \in Honeypots : Shared(x) \subseteq Shared(x)'
  BY <1>2, MoreKeys DEF PushSuperadminKeys, SshInv
<1>4. sshSeen.steps + 1 \in 0..MaxSteps
  BY Counted DEF PushSuperadminKeys, SshInv
<1>5. /\ sshSeen' \in Seen /\ sshSeen'.regenerated = sshSeen.regenerated
      /\ sshSeen'.onboarded = sshSeen.onboarded /\ sshSeen'.careless = sshSeen.careless
      /\ sshSeen'.report = sshSeen.report
  BY <1>4 DEF PushSuperadminKeys, SshInv, SshTypeOK, Seen
<1>6. SshTypeOK'
  BY <1>1, <1>3, <1>5 DEF SshInv, SshTypeOK, Seen
<1>7. LoginsArePure' /\ InHandKeys'
  BY <1>1, <1>5 DEF SshInv, LoginsArePure, Pure, InHandKeys, OnboardingUnderWay
<1>8. LetIn'
  BY <1>1, <1>3, <1>5 DEF SshInv, LetIn, OnKey, SshTypeOK, Attempt
<1>9. RollOut'
  <2>1. push.pc = "waiting" /\ ~sshSeen.regenerated =>
            \A x \in push.ok : push.key \in Shared(x)'
    BY <1>3 DEF SshInv, RollOut, SshTypeOK, Push
  <2>2. sshSeen.report.key \in Keys =>
            \A x \in sshSeen.report.ok : sshSeen.report.key \in Shared(x)'
    BY <1>3 DEF SshInv, RollOut, SshTypeOK
  <2> QED
    BY <1>1, <1>5, <2>1, <2>2 DEF SshInv, RollOut, Shared
<1> QED
  BY <1>6, <1>7, <1>8, <1>9 DEF SshInv

LEMMA StartKeeps ==
    ASSUME SshConstants, SshInv, NEW q \in Attempts, NEW h \in Honeypots,
           NEW once \in BOOLEAN, Start(q, h, once),
           UNCHANGED auth \/ auth' = [auth EXCEPT ![h] = OneTime]
    PROVE  SshInv'
<1>1. UNCHANGED <<identity, authorized, push, pushing>>
  BY DEF Start
<1>2. /\ attempt \in [Attempts -> Attempt] /\ setup \in [Attempts -> Setup]
      /\ auth \in [Honeypots -> Auth] /\ identity.active # NoKey
  BY DEF SshInv, SshTypeOK, Start
<1>3. auth' \in [Honeypots -> Auth] /\ \A x \in Honeypots : Pure(auth'[x])
  BY <1>2, SshRecords DEF SshInv, LoginsArePure
<1>4. OnKey' \subseteq OnKey
  BY <1>2 DEF OnKey, OneTime
<1> DEFINE a == [pc |-> "waiting", honeypot |-> h, once |-> once, before |-> auth[h]]
           s == [NoSetup EXCEPT !.pc = "queued", !.honeypot = h]
<1>5. /\ a \in Attempt /\ a.pc = "waiting" /\ a.honeypot = h /\ a.before = auth[h]
      /\ s \in Setup /\ s.pc = "queued" /\ s.copy = NoSetup.copy
  BY <1>2, SshRecords DEF Attempt, Setup
<1>6. attempt' = [attempt EXCEPT ![q] = a] /\ setup' = [setup EXCEPT ![q] = s]
  BY DEF Start
<1> HIDE DEF a, s
<1>7. /\ attempt' \in [Attempts -> Attempt] /\ attempt'[q] = a
      /\ \A x \in Attempts \ {q} : attempt'[x] = attempt[x]
  BY <1>2, <1>5, <1>6
<1>8. /\ setup' \in [Attempts -> Setup] /\ setup'[q] = s
      /\ \A x \in Attempts \ {q} : setup'[x] = setup[x]
  BY <1>2, <1>5, <1>6
<1>9. sshSeen.steps + 1 \in 0..MaxSteps
  BY Counted DEF Start, SshInv
<1>10. /\ sshSeen' \in Seen /\ sshSeen'.regenerated = sshSeen.regenerated
       /\ sshSeen'.onboarded /\ sshSeen'.careless = sshSeen.careless
       /\ sshSeen'.report = sshSeen.report
  BY <1>9 DEF Start, SshInv, SshTypeOK, Seen
<1>11. SshTypeOK'
  BY <1>1, <1>3, <1>7, <1>8, <1>10 DEF SshInv, SshTypeOK, Seen
<1>12. LoginsArePure'
  BY <1>3, <1>5, <1>7, <1>8, SshRecords DEF SshInv, LoginsArePure, Pure
<1>13. InHandKeys'
  BY <1>1, <1>2, <1>5, <1>8, <1>10 DEF SshInv, InHandKeys
<1>14. RollOut'
  BY <1>1, <1>10 DEF SshInv, RollOut, Shared
<1>15. ASSUME ~sshSeen'.careless PROVE LetIn'
  <2>1. \A x \in OnKey' : identity.active \in Shared(x)
    BY <1>4, <1>10, <1>15 DEF SshInv, LetIn
  <2>2. attempt'[q].before.method = "key" => identity.active \in Shared(h)
    BY <1>5, <1>7, <1>10, <1>15 DEF SshInv, LetIn, OnKey
  <2>3. \A x \in Attempts \ {q} :
            /\ attempt'[x].pc = "waiting" /\ attempt'[x].before.method = "key" =>
                  identity.active \in Shared(attempt'[x].honeypot)
            /\ setup'[x].pc = "running" => setup'[x].key = identity.active
    BY <1>7, <1>8, <1>10, <1>15 DEF SshInv, LetIn
  <2> QED
    BY <1>1, <1>5, <1>7, <1>8, <2>1, <2>2, <2>3 DEF LetIn, Shared
<1> QED
  BY <1>11, <1>12, <1>13, <1>14, <1>15 DEF SshInv, LetIn

LEMMA SetupReadsKeeps ==
    ASSUME SshConstants, SshInv, NEW q \in Attempts, SetupReads(q)
    PROVE  SshInv'
<1>1. UNCHANGED <<identity, auth, authorized, push, pushing, attempt, sshSeen>>
  BY DEF SetupReads
<1>2. /\ setup \in [Attempts -> Setup] /\ setup[q].pc = "queued" /\ setup[q].honeypot \in Honeypots
      /\ auth[setup[q].honeypot] \in Auth /\ identity.active \in Key
  BY DEF SshInv, SshTypeOK, SetupReads, Setup
<1>3. identity.active \in Keys /\ sshSeen.onboarded
  BY <1>2 DEF SshInv, InHandKeys, OnboardingUnderWay, Key
<1> DEFINE s == [setup[q] EXCEPT !.pc = "running", !.key = identity.active,
                                 !.copy = auth[setup[q].honeypot]]
<1>4. s \in Setup /\ s.pc = "running" /\ s.key = identity.active /\ s.copy = auth[setup[q].honeypot]
  BY <1>2 DEF Setup
<1>5. setup' = [setup EXCEPT ![q] = s]
  BY <1>2 DEF SetupReads
<1> HIDE DEF s
<1>6. /\ setup' \in [Attempts -> Setup] /\ setup'[q] = s
      /\ \A x \in Attempts \ {q} : setup'[x] = setup[x]
  BY <1>2, <1>4, <1>5
<1>7. SshTypeOK'
  BY <1>1, <1>6 DEF SshInv, SshTypeOK
<1>8. LoginsArePure'
  BY <1>1, <1>2, <1>4, <1>6 DEF SshInv, LoginsArePure, Pure
<1>9. InHandKeys'
  BY <1>1, <1>2, <1>3, <1>4, <1>6 DEF SshInv, InHandKeys, SshConstants
<1>10. RollOut' /\ LetIn'
  BY <1>1, <1>4, <1>6 DEF SshInv, RollOut, LetIn, OnKey, Shared
<1> QED
  BY <1>7, <1>8, <1>9, <1>10 DEF SshInv

\* The script installed the key, or nothing; the row may have come onto it.
LEMMA SetupEndsKeeps ==
    ASSUME SshConstants, SshInv, NEW q \in Attempts, setup[q].pc = "running",
           UNCHANGED <<identity, push, pushing, attempt, sshSeen>>,
           setup' \in [Attempts -> Setup],
           setup'[q].pc = IF attempt[q].pc = "idle" THEN "idle" ELSE setup'[q].pc,
           setup'[q].pc \in {"idle", "ok", "failed"}, setup'[q].copy = setup[q].copy,
           \A x \in Attempts \ {q} : setup'[x] = setup[x],
           \/ UNCHANGED <<auth, authorized>>
           \/ /\ authorized' = Installed(q)
              /\ auth' \in [Honeypots -> Auth]
              /\ \A x \in Honeypots : Pure(auth'[x])
              /\ \A x \in Honeypots \ {setup[q].honeypot} : auth'[x] = auth[x]
    PROVE  SshInv'
<1>1. PICK h \in Honeypots, k \in Keys : h = setup[q].honeypot /\ k = setup[q].key
  BY DEF SshInv, SshTypeOK, Setup, InHandKeys
<1>2. /\ authorized' \in [Honeypots -> [Accounts -> SUBSET Keys]]
      /\ \A x \in Honeypots : Shared(x) \subseteq Shared(x)'
      /\ auth' = auth \/ k \in Shared(h)'
  <2>1. CASE UNCHANGED <<auth, authorized>>
    BY <2>1 DEF SshInv, SshTypeOK, Shared
  <2>2. CASE authorized' = Installed(q)
    <3>1. "honeypotshelf" \in Accounts
      BY DEF Accounts
    <3>2. authorized' = [authorized EXCEPT ![h]["honeypotshelf"] = @ \cup {k}]
      BY <1>1, <2>2 DEF Installed
    <3> QED
      BY <3>1, <3>2, MoreKeys DEF SshInv
  <2> QED
    BY <2>1, <2>2
<1>3. /\ auth' \in [Honeypots -> Auth]
      /\ \A x \in Honeypots : Pure(auth'[x])
      /\ \A x \in Honeypots \ {h} : auth'[x] = auth[x]
  BY <1>1 DEF SshInv, SshTypeOK, LoginsArePure
<1>4. SshTypeOK'
  BY <1>2, <1>3 DEF SshInv, SshTypeOK
<1>5. LoginsArePure'
  BY <1>3 DEF SshInv, LoginsArePure, Pure
<1>6. identity.active # NoKey /\ sshSeen.onboarded
  BY DEF SshInv, InHandKeys, OnboardingUnderWay
<1>7. InHandKeys'
  BY <1>6 DEF SshInv, InHandKeys
<1>8. RollOut'
  <2>1. push.pc = "waiting" /\ ~sshSeen.regenerated =>
            \A x \in push.ok : push.key \in Shared(x)'
    BY <1>2 DEF SshInv, RollOut, SshTypeOK, Push
  <2>2. sshSeen.report.key \in Keys =>
            \A x \in sshSeen.report.ok : sshSeen.report.key \in Shared(x)'
    BY <1>2 DEF SshInv, RollOut, SshTypeOK
  <2> QED
    BY <2>1, <2>2 DEF SshInv, RollOut, Shared
<1>9. ASSUME ~sshSeen.careless PROVE LetIn'
  <2>1. k = identity.active
    BY <1>1, <1>9 DEF SshInv, LetIn
  <2>2. ASSUME NEW x \in Honeypots, auth'[x].method = "key"
        PROVE  identity.active \in Shared(x)'
    <3>1. CASE auth'[x] = auth[x]
      BY <1>2, <1>9, <2>2, <3>1 DEF SshInv, LetIn, OnKey
    <3>2. CASE auth'[x] # auth[x]
      BY <1>2, <1>3, <2>1, <3>2
    <3> QED
      BY <3>1, <3>2
  <2>3. ASSUME NEW x \in Attempts
        PROVE  /\ attempt[x].pc = "waiting" /\ attempt[x].before.method = "key" =>
                     identity.active \in Shared(attempt[x].honeypot)'
               /\ setup'[x].pc = "running" => setup'[x].key = identity.active
    <3>1. attempt[x].honeypot \in Honeypots
      BY DEF SshInv, SshTypeOK, Attempt
    <3> QED
      BY <1>2, <1>9, <3>1 DEF SshInv, LetIn
  <2> QED
    BY <2>2, <2>3 DEF LetIn, OnKey, Shared
<1> QED
  BY <1>4, <1>5, <1>7, <1>8, <1>9 DEF SshInv, LetIn

LEMMA SetupSucceedsKeeps ==
    ASSUME SshConstants, SshInv, NEW q \in Attempts, SetupSucceeds(q)
    PROVE  SshInv'
<1> DEFINE h == setup[q].honeypot
           copy == setup[q].copy
           r == [method |-> Written(copy.method, "key", auth[h].method),
                 user |-> Written(copy.user, "honeypotshelf", auth[h].user),
                 secret |-> Written(copy.secret, "none", auth[h].secret)]
<1>1. /\ setup \in [Attempts -> Setup] /\ setup[q].pc = "running" /\ setup[q] \in Setup
      /\ h \in Honeypots /\ copy \in Auth /\ auth \in [Honeypots -> Auth] /\ auth[h] \in Auth
      /\ Pure(copy) /\ Pure(auth[h])
  BY DEF SshInv, SshTypeOK, SetupSucceeds, Setup, LoginsArePure
<1>2. r \in Auth /\ Pure(r)
  BY <1>1 DEF Auth, Accounts, Written, Pure
<1>3. auth' = [auth EXCEPT ![h] = r]
  BY <1>1 DEF SetupSucceeds
<1> HIDE DEF r
<1>4. /\ auth' \in [Honeypots -> Auth] /\ \A x \in Honeypots : Pure(auth'[x])
      /\ \A x \in Honeypots \ {h} : auth'[x] = auth[x]
  BY <1>1, <1>2, <1>3 DEF SshInv, LoginsArePure
<1>5. /\ setup' \in [Attempts -> Setup] /\ setup'[q].pc \in {"idle", "ok"}
      /\ (attempt[q].pc = "idle" => setup'[q].pc = "idle")
      /\ setup'[q].copy = setup[q].copy
      /\ \A x \in Attempts \ {q} : setup'[x] = setup[x]
  BY <1>1 DEF SetupSucceeds, Setup
<1> QED
  BY <1>1, <1>4, <1>5, SetupEndsKeeps DEF SetupSucceeds

LEMMA SetupFailsKeeps ==
    ASSUME SshConstants, SshInv, NEW q \in Attempts, SetupFails(q)
    PROVE  SshInv'
<1>1. /\ setup \in [Attempts -> Setup] /\ setup[q].pc = "running" /\ setup[q] \in Setup
  BY DEF SshInv, SshTypeOK, SetupFails
<1>2. /\ setup' \in [Attempts -> Setup] /\ setup'[q].pc \in {"idle", "failed"}
      /\ (attempt[q].pc = "idle" => setup'[q].pc = "idle")
      /\ setup'[q].copy = setup[q].copy
      /\ \A x \in Attempts \ {q} : setup'[x] = setup[x]
  BY <1>1 DEF SetupFails, Setup
<1>3. \/ UNCHANGED <<auth, authorized>>
      \/ /\ authorized' = Installed(q)
         /\ auth' \in [Honeypots -> Auth] /\ \A x \in Honeypots : Pure(auth'[x])
         /\ \A x \in Honeypots \ {setup[q].honeypot} : auth'[x] = auth[x]
  BY DEF SetupFails, SshInv, SshTypeOK, LoginsArePure
<1> QED
  BY <1>1, <1>2, <1>3, SetupEndsKeeps DEF SetupFails

\* The request is over; what it restores was let in when it began.
LEMMA RequestOver ==
    ASSUME SshConstants, SshInv, NEW q \in Attempts, attempt[q].pc = "waiting",
           UNCHANGED <<identity, authorized, push, pushing>>,
           attempt' = [attempt EXCEPT ![q] = NoAttempt],
           setup' = setup \/ setup' = [setup EXCEPT ![q] = NoSetup],
           sshSeen' \in Seen, sshSeen'.regenerated = sshSeen.regenerated,
           sshSeen'.onboarded = sshSeen.onboarded, sshSeen'.careless = sshSeen.careless,
           sshSeen'.report = sshSeen.report,
           \/ UNCHANGED auth
           \/ auth' = [auth EXCEPT ![attempt[q].honeypot] =
                           Restored(auth[attempt[q].honeypot], attempt[q].before)]
    PROVE  SshInv'
<1> DEFINE h == attempt[q].honeypot
           r == Restored(auth[h], attempt[q].before)
<1>1. /\ attempt \in [Attempts -> Attempt] /\ setup \in [Attempts -> Setup]
      /\ auth \in [Honeypots -> Auth] /\ h \in Honeypots /\ auth[h] \in Auth
      /\ attempt[q].before \in Auth /\ Pure(auth[h]) /\ Pure(attempt[q].before)
  BY DEF SshInv, SshTypeOK, Attempt, LoginsArePure
<1>2. /\ r \in Auth /\ Pure(r)
      /\ r.method = "key" => auth[h].method = "key" \/ attempt[q].before.method = "key"
  BY <1>1 DEF Auth, Accounts, Restored, Written, Pure
<1>3. UNCHANGED auth \/ auth' = [auth EXCEPT ![h] = r]
  OBVIOUS
<1> HIDE DEF r
<1>4. /\ auth' \in [Honeypots -> Auth] /\ \A x \in Honeypots : Pure(auth'[x])
      /\ \A x \in Honeypots \ {h} : auth'[x] = auth[x]
      /\ auth'[h].method = "key" => auth[h].method = "key" \/ attempt[q].before.method = "key"
  BY <1>1, <1>2, <1>3 DEF SshInv, LoginsArePure
<1>5. /\ attempt' \in [Attempts -> Attempt] /\ attempt'[q] = NoAttempt
      /\ \A x \in Attempts \ {q} : attempt'[x] = attempt[x]
      /\ setup' \in [Attempts -> Setup] /\ (setup'[q] = setup[q] \/ setup'[q] = NoSetup)
      /\ \A x \in Attempts \ {q} : setup'[x] = setup[x]
  BY <1>1, SshRecords
<1>6. SshTypeOK'
  BY <1>4, <1>5 DEF SshInv, SshTypeOK, Seen
<1>7. LoginsArePure'
  BY <1>4, <1>5, SshRecords DEF SshInv, LoginsArePure, Pure
<1>8. identity.active # NoKey /\ sshSeen.onboarded
  BY DEF SshInv, InHandKeys, OnboardingUnderWay
<1>9. InHandKeys'
  BY <1>5, <1>8, SshRecords DEF SshInv, InHandKeys
<1>10. RollOut'
  BY DEF SshInv, RollOut, Shared
<1>11. ASSUME ~sshSeen.careless PROVE LetIn'
  <2>1. \A x \in OnKey' : identity.active \in Shared(x)
    BY <1>1, <1>4, <1>11 DEF SshInv, LetIn, OnKey
  <2>2. \A x \in Attempts :
            /\ attempt'[x].pc = "waiting" /\ attempt'[x].before.method = "key" =>
                  identity.active \in Shared(attempt'[x].honeypot)
            /\ setup'[x].pc = "running" => setup'[x].key = identity.active
    BY <1>5, <1>11, SshRecords DEF SshInv, LetIn
  <2> QED
    BY <2>1, <2>2 DEF LetIn, Shared
<1> QED
  BY <1>6, <1>7, <1>9, <1>10, <1>11 DEF SshInv, LetIn

LEMMA RequestEndsKeep ==
    ASSUME SshConstants, SshInv, NEW q \in Attempts, AttemptEnds(q) \/ WebDies(q)
    PROVE  SshInv'
<1>1. CASE AttemptEnds(q)
  <2>1. sshSeen' \in Seen /\ sshSeen' = sshSeen
    BY <1>1 DEF AttemptEnds, SshInv, SshTypeOK, Seen
  <2>2. \/ UNCHANGED auth
        \/ auth' = [auth EXCEPT ![attempt[q].honeypot] =
                        Restored(auth[attempt[q].honeypot], attempt[q].before)]
    BY <1>1 DEF AttemptEnds, SshInv, SshTypeOK
  <2>3. setup' = setup \/ setup' = [setup EXCEPT ![q] = NoSetup]
    BY <1>1 DEF AttemptEnds
  <2> QED
    BY <1>1, <2>1, <2>2, <2>3, RequestOver DEF AttemptEnds
<1>2. CASE WebDies(q)
  <2>1. sshSeen.deaths + 1 \in 0..MaxDeaths
    BY <1>2 DEF WebDies, SshInv, SshTypeOK, SshConstants
  <2>2. /\ sshSeen' \in Seen /\ sshSeen'.regenerated = sshSeen.regenerated
        /\ sshSeen'.onboarded = sshSeen.onboarded /\ sshSeen'.careless = sshSeen.careless
        /\ sshSeen'.report = sshSeen.report
    BY <1>2, <2>1 DEF WebDies, SshInv, SshTypeOK, Seen
  <2>3. setup' = setup \/ setup' = [setup EXCEPT ![q] = NoSetup]
    BY <1>2 DEF WebDies
  <2> QED
    BY <1>2, <2>2, <2>3, RequestOver DEF WebDies
<1> QED
  BY <1>1, <1>2

LEMMA SshStarts == ASSUME SshConstants PROVE SshInit => SshInv
<1> SUFFICES ASSUME SshConstants, SshInit PROVE SshInv
  OBVIOUS
<1>1. /\ auth \in [Honeypots -> Auth]
      /\ \A h \in Honeypots : auth[h].method = "password" /\ Pure(auth[h])
  BY DEF SshInit, Auth, Accounts, Pure
<1>2. /\ attempt \in [Attempts -> Attempt] /\ setup \in [Attempts -> Setup]
      /\ \A q \in Attempts : attempt[q] = NoAttempt /\ setup[q] = NoSetup
  BY SshRecords DEF SshInit
<1>3. /\ pushing \in [Honeypots -> Pushing] /\ \A h \in Honeypots : pushing[h].pc = "idle"
      /\ push = NoPush
  BY SshRecords DEF SshInit
<1>4. sshSeen \in Seen /\ sshSeen.report.ok = {}
  BY DEF SshInit, Seen, Key, SshConstants
<1>5. SshTypeOK
  BY <1>1, <1>2, <1>3, <1>4, SshRecords DEF SshInit, SshTypeOK, Seen, Key
<1>6. LoginsArePure /\ ~OnboardingUnderWay
  BY <1>1, <1>2, SshRecords DEF LoginsArePure, OnboardingUnderWay
<1>7. InHandKeys
  BY <1>1, <1>2, <1>3, <1>6, SshRecords DEF InHandKeys
<1>8. RollOut /\ LetIn
  BY <1>1, <1>2, <1>3, <1>4, SshRecords DEF RollOut, LetIn, OnKey
<1> QED
  BY <1>5, <1>6, <1>7, <1>8 DEF SshInv

LEMMA SshStep == ASSUME SshConstants PROVE SshInv /\ [SshNext]_sshVars => SshInv'
<1> SUFFICES ASSUME SshConstants, SshInv, [SshNext]_sshVars PROVE SshInv'
  OBVIOUS
<1>1. CASE UNCHANGED sshVars
  BY <1>1 DEF sshVars, SshInv, SshTypeOK, LoginsArePure, Pure, InHandKeys, OnboardingUnderWay,
     RollOut, LetIn, OnKey, Shared
<1>2. ASSUME NEW q \in Attempts, NEW h \in Honeypots,
             RunOnboarding(q, h) \/ RunOnboardingApi(q, h) \/ RunOnboardingWithCredential(q, h)
      PROVE  SshInv'
  BY <1>2, StartKeeps DEF RunOnboarding, RunOnboardingApi, RunOnboardingWithCredential
<1> QED
  BY <1>1, <1>2, KeyChanges, ActivateKeeps, PushKeyKeeps, PushStepsKeep, PushTaskAppendsKeeps,
     PushReportsKeeps, PersonalKeysKeep, SetupReadsKeeps, SetupSucceedsKeeps, SetupFailsKeeps,
     RequestEndsKeep DEF SshNext

\* The identity, the rows, the tasks and the requests are of their types.
THEOREM SshTyped == ASSUME SshConstants PROVE SshSpec => []SshTypeOK
<1>1. SshInv => SshTypeOK
  BY DEF SshInv
<1> QED
  BY <1>1, SshStarts, SshStep, PTL DEF SshSpec

\* Whoever activates a key only after a complete roll-out of it is never locked
\* out of a honeypot, for any honeypots, keys, onboarding requests, time-outs and
\* deaths of the web process (ssh/identity.py, routes/honeypots_detail.py).
THEOREM SharedKeyLogsInAlways == ASSUME SshConstants PROVE SshSpec => []SharedKeyLogsIn
<1>1. SshInv => SharedKeyLogsIn
  BY DEF SshInv, LetIn, LoginsArePure, Pure, OnKey, Shared, SharedKeyLogsIn
<1> QED
  BY <1>1, SshStarts, SshStep, PTL DEF SshSpec

-----------------------------------------------------------------------------
\* CanaryConfig: one save that meets no other puts everything right.

\* Only a save that has moved a file, and not ended since, gets anywhere; what is
\* in between is mixed until then.
SaveOrder(q) ==
    /\ SaveAt(q, "idle") => ~save[q].ok /\ ~save[q].alone
    /\ save[q].ok => save[q].pc \in {"clean", "report"} /\ mixed
    /\ save[q].pc \in {"restart", "services"} => mixed

\* What a save that is alone has left where.
AloneSave(q) ==
    save[q].alone =>
        /\ \A x \in Saves \ {q} : SaveAt(x, "idle")
        /\ save[q].pc \in {"script", "run"} => tmp = {save[q].new}
        /\ SaveAt(q, "run") => \A b \in applyScript : b <=> Samba \in save[q].new
        /\ save[q].pc \in {"restart", "services"} =>
              live.conf = save[q].new /\ (save[q].does <=> Samba \in save[q].new)
        /\ save[q].ok =>
              live.conf = save[q].new /\ (live.samba <=> Samba \in save[q].new)

Settled == moduleTags = live.conf /\ (live.samba <=> Samba \in live.conf)

ConfigInv ==
    /\ ConfigTypeOK
    /\ \A q \in Saves : SaveOrder(q) /\ AloneSave(q)
    /\ ~mixed => Settled

LEMMA NoSaveTyped ==
    /\ NoSave \in Save /\ NoSave.pc = "idle" /\ ~NoSave.ok /\ ~NoSave.alone
BY DEF NoSave, Save, SaveSteps, ModuleChange, Conf

\* Whoever acts is busy: nobody else is alone.
LEMMA OthersKeep ==
    ASSUME ConfigInv, NEW q \in Saves, save[q].pc # "idle",
           \A x \in Saves \ {q} : save'[x] = save[x],
           mixed' \/ mixed' = mixed \/ save[q].alone,
           NEW x \in Saves \ {q}
    PROVE  SaveOrder(x)' /\ AloneSave(x)'
<1>1. ~save[x].alone
  BY DEF ConfigInv, AloneSave, SaveAt
<1>2. AloneSave(x)'
  BY <1>1 DEF AloneSave
<1>3. SaveOrder(x)'
  <2>1. CASE mixed' \/ mixed' = mixed
    BY <2>1 DEF ConfigInv, SaveOrder, SaveAt
  <2>2. CASE save[q].alone
    <3>1. save[x].pc = "idle" /\ ~save[x].ok
      BY <2>2 DEF ConfigInv, AloneSave, SaveOrder, SaveAt
    <3> QED
      BY <1>1, <3>1 DEF SaveOrder, SaveAt
  <2> QED
    BY <2>1, <2>2
<1> QED
  BY <1>2, <1>3

LEMMA SubmitKeeps ==
    ASSUME ConfigConstants, ConfigInv, NEW q \in Saves, NEW named \in SUBSET Modules,
           NEW on \in SUBSET Modules, Submit(q, named, on)
    PROVE  ConfigInv'
<1>1. PICK b \in BOOLEAN : b = (SavesBusy = {})
  OBVIOUS
<1> DEFINE change == [asked |-> named, on |-> on]
           r == [NoSave EXCEPT !.pc = "read", !.change = change, !.awaited = TRUE, !.alone = b]
<1>2. change \in ModuleChange
  BY DEF ModuleChange
<1> HIDE DEF change
<1>3. r \in Save /\ r.pc = "read" /\ r.alone = b /\ r.ok = NoSave.ok
  BY <1>2, NoSaveTyped DEF Save, SaveSteps
<1>4. save' = [x \in Saves |-> IF x = q THEN r ELSE [save[x] EXCEPT !.alone = FALSE]]
  BY <1>1, Zenon DEF Submit, change
<1> HIDE DEF r
<1>5. \A x \in Saves : /\ [save[x] EXCEPT !.alone = FALSE] \in Save
                      /\ ~[save[x] EXCEPT !.alone = FALSE].alone
                      /\ [save[x] EXCEPT !.alone = FALSE].pc = save[x].pc
                      /\ [save[x] EXCEPT !.alone = FALSE].ok = save[x].ok
  BY DEF ConfigInv, ConfigTypeOK, Save
<1>6. /\ save' \in [Saves -> Save] /\ save'[q] = r
      /\ \A x \in Saves \ {q} : save'[x] = [save[x] EXCEPT !.alone = FALSE]
  <2> DEFINE g(x) == IF x = q THEN r ELSE [save[x] EXCEPT !.alone = FALSE]
  <2>1. \A x \in Saves : g(x) \in Save
    BY <1>3, <1>5
  <2>2. g(q) = r /\ \A x \in Saves \ {q} : g(x) = [save[x] EXCEPT !.alone = FALSE]
    OBVIOUS
  <2>3. save' = [x \in Saves |-> g(x)]
    BY <1>4
  <2> HIDE DEF g
  <2>4. save' \in [Saves -> Save] /\ \A x \in Saves : save'[x] = g(x)
    BY <2>1, <2>3
  <2>5. save'[q] = r
    BY <2>2, <2>4
  <2>6. ASSUME NEW x \in Saves \ {q} PROVE save'[x] = [save[x] EXCEPT !.alone = FALSE]
    <3>1. save'[x] = g(x)
      BY <2>4
    <3>2. g(x) = [save[x] EXCEPT !.alone = FALSE]
      BY <2>2
    <3> QED
      BY <3>1, <3>2, Zenon
  <2> QED
    BY <2>4, <2>5, <2>6
<1>7. UNCHANGED <<machine, moduleTags, events, mixed>> /\ saves' \in 0..MaxSaves
  <2>1. saves \in 0..MaxSaves /\ MaxSaves \in Nat
    BY DEF ConfigInv, ConfigTypeOK, ConfigConstants
  <2>2. saves < MaxSaves /\ saves' = saves + 1
    BY DEF Submit
  <2>3. saves' \in 0..MaxSaves
    BY <2>1, <2>2
  <2> QED
    BY <2>3 DEF Submit
<1>8. ConfigTypeOK'
  BY <1>6, <1>7 DEF ConfigInv, ConfigTypeOK, machine
<1>9. ASSUME NEW x \in Saves \ {q} PROVE SaveOrder(x)' /\ AloneSave(x)'
  BY <1>5, <1>6, <1>7 DEF ConfigInv, SaveOrder, AloneSave, SaveAt
<1>10. SaveOrder(q)' /\ AloneSave(q)'
  <2>1. ASSUME b, NEW x \in Saves \ {q} PROVE SaveAt(x, "idle")'
    BY <1>1, <1>5, <1>6, <2>1 DEF SavesBusy, SaveAt
  <2> QED
    BY <1>3, <1>6, <2>1, NoSaveTyped DEF SaveOrder, AloneSave, SaveAt
<1> QED
  BY <1>7, <1>8, <1>9, <1>10 DEF ConfigInv, Settled, machine

\* A step of a save that leaves the machine's file, smbd and the tags alone.
LEMMA StepKeeps ==
    ASSUME ConfigInv, NEW q \in Saves, save[q].pc # "idle",
           UNCHANGED <<live, disk, overlay, moduleTags, events, saves, mixed>>,
           tmp' \subseteq Conf, applyScript' \subseteq BOOLEAN,
           save' \in [Saves -> Save], \A x \in Saves \ {q} : save'[x] = save[x],
           SaveOrder(q)', save'[q].alone => save[q].alone,
           save'[q].alone =>
              /\ save'[q].pc \in {"script", "run"} => tmp' = {save'[q].new}
              /\ save'[q].pc = "run" => \A b \in applyScript' : b <=> Samba \in save'[q].new
              /\ save'[q].pc \in {"restart", "services"} =>
                    live.conf = save'[q].new /\ (save'[q].does <=> Samba \in save'[q].new)
              /\ save'[q].ok =>
                    live.conf = save'[q].new /\ (live.samba <=> Samba \in save'[q].new)
    PROVE  ConfigInv'
<1>1. ConfigTypeOK'
  BY DEF ConfigInv, ConfigTypeOK
<1>2. \A x \in Saves \ {q} : SaveOrder(x)' /\ AloneSave(x)'
  BY OthersKeep
<1>3. AloneSave(q)'
  BY DEF ConfigInv, AloneSave, SaveAt
<1> QED
  BY <1>1, <1>2, <1>3 DEF ConfigInv, Settled

LEMMA EarlyStepsKeep ==
    ASSUME ConfigInv, NEW q \in Saves, ReadConfig(q) \/ WriteConf(q) \/ WriteScript(q)
    PROVE  ConfigInv'
<1>1. save[q] \in Save /\ live.conf \in Conf
  BY DEF ConfigInv, ConfigTypeOK, System
<1>2. CASE ReadConfig(q)
  <2>1. Merged(live.conf, save[q].change) \in Conf
    BY <1>1 DEF Merged, Conf, Save, ModuleChange
  <2>2. /\ save' \in [Saves -> Save] /\ \A x \in Saves \ {q} : save'[x] = save[x]
        /\ save'[q].pc = "conf" /\ save'[q].ok = save[q].ok /\ save'[q].alone = save[q].alone
    BY <1>1, <1>2, <2>1 DEF ReadConfig, ConfigInv, ConfigTypeOK, Save, SaveSteps
  <2>3. ~save[q].ok
    BY <1>2 DEF ReadConfig, ConfigInv, SaveOrder, SaveAt
  <2>4. SaveOrder(q)'
    BY <2>2, <2>3 DEF SaveOrder, SaveAt
  <2> QED
    BY <1>2, <2>2, <2>3, <2>4, StepKeeps DEF ReadConfig, SaveAt, machine, ConfigInv, ConfigTypeOK
<1>3. CASE WriteConf(q)
  <2>1. /\ save' \in [Saves -> Save] /\ \A x \in Saves \ {q} : save'[x] = save[x]
        /\ save'[q].pc = "script" /\ save'[q].ok = save[q].ok /\ save'[q].alone = save[q].alone
        /\ save'[q].new = save[q].new
    BY <1>1, <1>3 DEF WriteConf, ConfigInv, ConfigTypeOK, Save, SaveSteps
  <2>2. ~save[q].ok /\ save[q].new \in Conf
    BY <1>1, <1>3 DEF WriteConf, ConfigInv, SaveOrder, SaveAt, Save
  <2>3. SaveOrder(q)'
    BY <2>1, <2>2 DEF SaveOrder, SaveAt
  <2> QED
    BY <1>3, <2>1, <2>2, <2>3, StepKeeps DEF WriteConf, SaveAt, ConfigInv, ConfigTypeOK
<1>4. CASE WriteScript(q)
  <2>1. /\ save' \in [Saves -> Save] /\ \A x \in Saves \ {q} : save'[x] = save[x]
        /\ save'[q].pc = "run" /\ save'[q].ok = save[q].ok /\ save'[q].alone = save[q].alone
        /\ save'[q].new = save[q].new
    BY <1>1, <1>4 DEF WriteScript, ConfigInv, ConfigTypeOK, Save, SaveSteps
  <2>2. ~save[q].ok
    BY <1>1, <1>4 DEF WriteScript, ConfigInv, SaveOrder, SaveAt, Save
  <2>3. SaveOrder(q)'
    BY <2>1, <2>2 DEF SaveOrder, SaveAt
  <2>4. applyScript' \subseteq BOOLEAN /\ \A b \in applyScript' : b <=> Samba \in save[q].new
    <3>1. applyScript' = {(Samba \in save[q].new)}
      BY <1>4, Zenon DEF WriteScript, SambaWanted
    <3>2. CASE Samba \in save[q].new
      <4>1. applyScript' = {TRUE}
        BY <3>1, <3>2, Zenon
      <4> QED
        BY <3>2, <4>1
    <3>3. CASE ~(Samba \in save[q].new)
      <4>1. (Samba \in save[q].new) = FALSE
        BY <3>3
      <4>2. applyScript' = {FALSE}
        BY <3>1, <4>1, Zenon
      <4> QED
        BY <3>3, <4>2
    <3> QED
      BY <3>2, <3>3
  <2>5. save[q].alone => tmp' = {save[q].new}
    BY <1>4 DEF WriteScript, ConfigInv, AloneSave, SaveAt
  <2> QED
    BY <1>4, <2>1, <2>2, <2>3, <2>4, <2>5, StepKeeps
       DEF WriteScript, SaveAt, ConfigInv, ConfigTypeOK
<1> QED
  BY <1>2, <1>3, <1>4

LEMMA RunKeeps ==
    ASSUME ConfigInv, NEW q \in Saves, RunScript(q)
    PROVE  ConfigInv'
<1>1. save[q] \in Save /\ live \in System /\ disk \in System /\ SaveAt(q, "run")
  BY DEF ConfigInv, ConfigTypeOK, RunScript
<1>2. ~save[q].ok
  BY <1>1 DEF ConfigInv, SaveOrder, SaveAt
<1>3. CASE save' = [save EXCEPT ![q].pc = "clean"] /\ UNCHANGED <<live, disk, tmp, mixed>>
  <2>1. /\ save' \in [Saves -> Save] /\ \A x \in Saves \ {q} : save'[x] = save[x]
        /\ save'[q].pc = "clean" /\ save'[q].ok = save[q].ok /\ save'[q].alone = save[q].alone
    BY <1>1, <1>3 DEF ConfigInv, ConfigTypeOK, Save, SaveSteps
  <2>2. SaveOrder(q)'
    BY <1>2, <2>1 DEF SaveOrder, SaveAt
  <2> QED
    BY <1>1, <1>2, <1>3, <2>1, <2>2, StepKeeps DEF RunScript, SaveAt, ConfigInv, ConfigTypeOK
<1>4. ASSUME NEW conf \in tmp, NEW samba \in applyScript,
             Persists([live EXCEPT !.conf = conf]), tmp' = {}, mixed' = TRUE,
             save' = [save EXCEPT ![q].pc = "restart", ![q].does = samba]
      PROVE  ConfigInv'
  <2>1. conf \in Conf /\ samba \in BOOLEAN
    BY DEF ConfigInv, ConfigTypeOK
  <2>2. /\ save' \in [Saves -> Save] /\ \A x \in Saves \ {q} : save'[x] = save[x]
        /\ save'[q].pc = "restart" /\ save'[q].ok = save[q].ok /\ save'[q].alone = save[q].alone
        /\ save'[q].does = samba /\ save'[q].new = save[q].new
    BY <1>1, <1>4, <2>1 DEF ConfigInv, ConfigTypeOK, Save, SaveSteps
  <2>3. live' \in System /\ disk' \in System /\ live'.conf = conf
    BY <1>1, <1>4, <2>1 DEF Persists, System
  <2>4. mixed'
    BY <1>4
  <2>5. ConfigTypeOK'
    BY <1>4, <2>2, <2>3 DEF RunScript, ConfigInv, ConfigTypeOK
  <2>6. \A x \in Saves \ {q} : SaveOrder(x)' /\ AloneSave(x)'
    BY <1>1, <2>2, <2>4, OthersKeep DEF SaveAt
  <2>7. SaveOrder(q)'
    BY <1>2, <2>2, <2>4 DEF SaveOrder, SaveAt
  <2>8. save[q].alone => conf = save[q].new /\ (samba <=> Samba \in save[q].new)
    BY <1>1, <1>4 DEF ConfigInv, AloneSave, SaveAt
  <2>9. AloneSave(q)'
    <3>1. save[q].alone => \A x \in Saves \ {q} : SaveAt(x, "idle")'
      BY <2>2 DEF ConfigInv, AloneSave, SaveAt
    <3>2. save[q].alone => live'.conf = save'[q].new /\ (save'[q].does <=> Samba \in save'[q].new)
      BY <2>2, <2>3, <2>8
    <3>3. ~save'[q].ok /\ save'[q].pc = "restart"
      BY <1>2, <2>2
    <3> QED
      BY <2>2, <3>1, <3>2, <3>3 DEF AloneSave, SaveAt
  <2> QED
    BY <2>4, <2>5, <2>6, <2>7, <2>9 DEF ConfigInv
<1> QED
  BY <1>3, <1>4 DEF RunScript

LEMMA RestartKeeps ==
    ASSUME ConfigInv, NEW q \in Saves, NEW ok \in BOOLEAN, RestartCanary(q, ok)
    PROVE  ConfigInv'
<1>1. save[q] \in Save /\ SaveAt(q, "restart")
  BY DEF ConfigInv, ConfigTypeOK, RestartCanary
<1>2. ~save[q].ok /\ mixed
  BY <1>1 DEF ConfigInv, SaveOrder, SaveAt
<1>3. /\ save' \in [Saves -> Save] /\ \A x \in Saves \ {q} : save'[x] = save[x]
      /\ save'[q].pc \in {"services", "clean"}
      /\ save'[q].ok = save[q].ok /\ save'[q].alone = save[q].alone
      /\ save'[q].does = save[q].does /\ save'[q].new = save[q].new
  BY <1>1 DEF RestartCanary, ConfigInv, ConfigTypeOK, Save, SaveSteps
<1>4. UNCHANGED <<live, disk, overlay, tmp, applyScript, moduleTags, events, saves, mixed>>
  BY DEF RestartCanary, machine
<1>5. SaveOrder(q)'
  BY <1>2, <1>3, <1>4 DEF SaveOrder, SaveAt
<1>6. save[q].alone => live.conf = save[q].new /\ (save[q].does <=> Samba \in save[q].new)
  BY <1>1 DEF ConfigInv, AloneSave, SaveAt
<1> QED
  BY <1>1, <1>2, <1>3, <1>4, <1>5, <1>6, StepKeeps DEF SaveAt, ConfigInv, ConfigTypeOK

LEMMA ToggleKeeps ==
    ASSUME ConfigInv, NEW q \in Saves, NEW ok \in BOOLEAN, ToggleServices(q, ok)
    PROVE  ConfigInv'
<1>1. save[q] \in Save /\ live \in System /\ disk \in System /\ SaveAt(q, "services")
  BY DEF ConfigInv, ConfigTypeOK, ToggleServices
<1>2. ~save[q].ok /\ mixed
  BY <1>1 DEF ConfigInv, SaveOrder, SaveAt
<1>3. PICK samba \in BOOLEAN : samba = IF ok THEN save[q].does ELSE live.samba
  BY <1>1 DEF Save, System
<1>4. PICK alone \in BOOLEAN : alone = (save[q].alone /\ ok)
  OBVIOUS
<1>5. Persists([live EXCEPT !.samba = samba])
  BY <1>3, Zenon DEF ToggleServices
<1>6. save' = [save EXCEPT ![q] = [save[q] EXCEPT !.pc = "clean", !.ok = TRUE, !.alone = alone]]
  BY <1>1, <1>4 DEF ToggleServices, ConfigInv, ConfigTypeOK, Save
<1> DEFINE r == [save[q] EXCEPT !.pc = "clean", !.ok = TRUE, !.alone = alone]
<1>7. /\ r \in Save /\ r.pc = "clean" /\ r.alone = alone /\ r.new = save[q].new
  BY <1>1 DEF Save, SaveSteps
<1> HIDE DEF r
<1>8. save' \in [Saves -> Save] /\ save'[q] = r /\ \A x \in Saves \ {q} : save'[x] = save[x]
  BY <1>6, <1>7 DEF ConfigInv, ConfigTypeOK, r
<1>9. /\ live' \in System /\ disk' \in System /\ live'.conf = live.conf
      /\ live'.samba = samba
  BY <1>1, <1>5 DEF Persists, System
<1>10. UNCHANGED <<overlay, tmp, applyScript, moduleTags, events, saves, mixed>>
  BY DEF ToggleServices
<1>11. ConfigTypeOK'
  BY <1>8, <1>9, <1>10 DEF ConfigInv, ConfigTypeOK
<1>12. \A x \in Saves \ {q} : SaveOrder(x)' /\ AloneSave(x)'
  BY <1>1, <1>8, <1>10, OthersKeep DEF SaveAt
<1>13. SaveOrder(q)'
  BY <1>2, <1>7, <1>8, <1>10 DEF SaveOrder, SaveAt
<1>14. AloneSave(q)'
  <2> SUFFICES ASSUME alone PROVE AloneSave(q)'
    BY <1>7, <1>8 DEF AloneSave
  <2>1. /\ \A x \in Saves \ {q} : SaveAt(x, "idle")
        /\ live.conf = save[q].new /\ (samba <=> Samba \in save[q].new)
    BY <1>1, <1>3, <1>4 DEF ConfigInv, AloneSave, SaveAt
  <2> QED
    BY <1>7, <1>8, <1>9, <2>1 DEF AloneSave, SaveAt
<1> QED
  BY <1>2, <1>10, <1>11, <1>12, <1>13, <1>14 DEF ConfigInv

LEMMA LateStepsKeep ==
    ASSUME ConfigInv, NEW q \in Saves, Clean(q) \/ GiveUp(q)
    PROVE  ConfigInv'
<1>1. save[q] \in Save /\ SaveOrder(q) /\ AloneSave(q)
  BY DEF ConfigInv, ConfigTypeOK
<1>2. CASE Clean(q)
  <2>1. /\ save' \in [Saves -> Save] /\ \A x \in Saves \ {q} : save'[x] = save[x]
        /\ save'[q].pc = "report" /\ save'[q].ok = save[q].ok
        /\ save'[q].alone = save[q].alone /\ save'[q].new = save[q].new
    BY <1>1, <1>2 DEF Clean, ConfigInv, ConfigTypeOK, Save, SaveSteps
  <2>2. SaveOrder(q)'
    BY <1>1, <1>2, <2>1 DEF Clean, SaveOrder, SaveAt
  <2> QED
    BY <1>1, <1>2, <2>1, <2>2, StepKeeps DEF Clean, SaveAt, AloneSave, ConfigInv, ConfigTypeOK
<1>3. CASE GiveUp(q)
  <2>1. /\ save' \in [Saves -> Save] /\ \A x \in Saves \ {q} : save'[x] = save[x]
        /\ save'[q].pc = save[q].pc /\ save'[q].ok = save[q].ok
        /\ save'[q].alone = save[q].alone /\ save'[q].new = save[q].new
        /\ save'[q].does = save[q].does
    BY <1>1, <1>3 DEF GiveUp, ConfigInv, ConfigTypeOK, Save, SaveSteps
  <2>2. save[q].pc # "idle" /\ UNCHANGED <<machine, moduleTags, events, saves, mixed>>
    BY <1>3 DEF GiveUp
  <2>3. SaveOrder(q)'
    BY <1>1, <2>1, <2>2 DEF SaveOrder, SaveAt
  <2> QED
    BY <1>1, <2>1, <2>2, <2>3, StepKeeps DEF machine, SaveAt, AloneSave, ConfigInv, ConfigTypeOK
<1> QED
  BY <1>2, <1>3

LEMMA EndsKeep ==
    ASSUME ConfigInv, NEW q \in Saves, SaveEnds(q) \/ SaveFails(q)
    PROVE  ConfigInv'
<1>1. save[q] \in Save /\ save[q].pc # "idle"
  BY DEF ConfigInv, ConfigTypeOK, SaveEnds, SaveFails, SaveAt
<1>2. /\ save' \in [Saves -> Save] /\ save'[q] = NoSave
      /\ \A x \in Saves \ {q} : save'[x] = save[x]
  BY NoSaveTyped DEF SaveEnds, SaveFails, ConfigInv, ConfigTypeOK
<1>3. SaveOrder(q)' /\ AloneSave(q)'
  BY <1>2, NoSaveTyped DEF SaveOrder, AloneSave, SaveAt
<1>4. UNCHANGED <<machine, events, saves>>
  BY DEF SaveEnds, SaveFails
<1>5. CASE save[q].ok /\ moduleTags' = save[q].new /\ mixed' = (mixed /\ ~save[q].alone)
  <2>1. mixed' \in BOOLEAN /\ moduleTags' \in SUBSET Modules
    <3>1. mixed' \in BOOLEAN
      BY <1>5, Zenon
    <3> QED
      BY <1>1, <1>5, <3>1 DEF Save, Conf
  <2>2. ConfigTypeOK'
    BY <1>2, <1>4, <2>1 DEF ConfigInv, ConfigTypeOK, machine
  <2>3. mixed' = mixed \/ save[q].alone
    BY <1>5 DEF ConfigInv, ConfigTypeOK
  <2>4. \A x \in Saves \ {q} : SaveOrder(x)' /\ AloneSave(x)'
    BY <1>1, <1>2, <2>3, OthersKeep
  <2>5. mixed /\ (~mixed' => save[q].alone)
    BY <1>5 DEF ConfigInv, SaveOrder
  <2>6. ~mixed' => Settled'
    BY <1>4, <1>5, <2>5 DEF ConfigInv, AloneSave, Settled, machine
  <2> QED
    BY <1>3, <2>2, <2>4, <2>6 DEF ConfigInv
<1>6. CASE UNCHANGED <<moduleTags, mixed>>
  <2>1. ConfigTypeOK'
    BY <1>2, <1>4, <1>6 DEF ConfigInv, ConfigTypeOK, machine
  <2>2. \A x \in Saves \ {q} : SaveOrder(x)' /\ AloneSave(x)'
    BY <1>1, <1>2, <1>6, OthersKeep
  <2> QED
    BY <1>3, <1>4, <1>6, <2>1, <2>2 DEF ConfigInv, Settled, machine
<1> QED
  BY <1>5, <1>6 DEF SaveEnds, SaveFails

LEMMA NotAlone ==
    ASSUME ConfigTypeOK, NEW q \in Saves
    PROVE  /\ [save[q] EXCEPT !.alone = FALSE] \in Save
           /\ ~[save[q] EXCEPT !.alone = FALSE].alone
           /\ [save[q] EXCEPT !.alone = FALSE].pc = save[q].pc
           /\ [save[q] EXCEPT !.alone = FALSE].ok = save[q].ok
BY DEF ConfigTypeOK, Save

LEMMA AroundKeep ==
    ASSUME ConfigConstants, ConfigInv,
           \/ \E on \in SUBSET Modules : EditByHand(on)
           \/ \E enable \in BOOLEAN : SetReadonly(enable)
           \/ Reboot
    PROVE  ConfigInv'
<1>1. live \in System /\ disk \in System /\ overlay \in [booted : BOOLEAN, next : BOOLEAN]
  BY DEF ConfigInv, ConfigTypeOK
<1>2. events' \in 0..MaxEvents
  <2>1. Event
    BY DEF EditByHand, SetReadonly, Reboot
  <2>2. events \in 0..MaxEvents /\ MaxEvents \in Nat
    BY DEF ConfigInv, ConfigTypeOK, ConfigConstants
  <2> QED
    BY <2>1, <2>2 DEF Event
<1>3. ASSUME NEW on \in SUBSET Modules, EditByHand(on) PROVE ConfigInv'
  <2>1. live' \in System /\ disk' \in System
    BY <1>1, <1>3 DEF EditByHand, Persists, System, Conf
  <2>2. /\ save' \in [Saves -> Save] /\ mixed'
        /\ \A q \in Saves : save'[q] = [save[q] EXCEPT !.alone = FALSE]
    BY <1>3, NotAlone DEF EditByHand, ConfigInv
  <2>3. ConfigTypeOK'
    <3>1. mixed' = TRUE /\ UNCHANGED <<overlay, tmp, applyScript, moduleTags, saves>>
      BY <1>3, Zenon DEF EditByHand
    <3>2. mixed' \in BOOLEAN
      BY <3>1
    <3> QED
      BY <1>2, <2>1, <2>2, <3>1, <3>2 DEF ConfigInv, ConfigTypeOK
  <2>4. ASSUME NEW q \in Saves PROVE SaveOrder(q)' /\ AloneSave(q)'
    BY <2>2, NotAlone DEF ConfigInv, SaveOrder, AloneSave, SaveAt
  <2> QED
    BY <2>2, <2>3, <2>4 DEF ConfigInv
<1>4. ASSUME NEW enable \in BOOLEAN, SetReadonly(enable) PROVE ConfigInv'
  <2>1. overlay' \in [booted : BOOLEAN, next : BOOLEAN]
    BY <1>1, <1>4 DEF SetReadonly
  <2>2. ConfigTypeOK'
    BY <1>2, <1>4, <2>1 DEF SetReadonly, ConfigInv, ConfigTypeOK
  <2> QED
    BY <1>4, <2>2 DEF SetReadonly, ConfigInv, SaveOrder, AloneSave, SaveAt, Settled
<1>5. CASE Reboot
  <2>1. overlay' \in [booted : BOOLEAN, next : BOOLEAN]
    BY <1>1, <1>5 DEF Reboot
  <2>2. /\ save' \in [Saves -> Save]
        /\ \A q \in Saves : save'[q] = IF SaveAt(q, "report") THEN [save[q] EXCEPT !.alone = FALSE]
                                      ELSE NoSave
    BY <1>5, NotAlone, NoSaveTyped DEF Reboot, ConfigInv
  <2>3. mixed' \in BOOLEAN /\ (mixed => mixed') /\ (~mixed' => ~mixed /\ live' = live)
    <3>1. mixed' = (mixed \/ live # disk) /\ live' = disk
      BY <1>5 DEF Reboot
    <3> QED
      BY <3>1, Zenon
  <2>4. ConfigTypeOK'
    BY <1>1, <1>2, <1>5, <2>1, <2>2, <2>3 DEF Reboot, ConfigInv, ConfigTypeOK
  <2>5. ASSUME NEW q \in Saves PROVE SaveOrder(q)' /\ AloneSave(q)'
    BY <2>2, <2>3, NotAlone, NoSaveTyped DEF ConfigInv, SaveOrder, AloneSave, SaveAt
  <2> QED
    BY <1>5, <2>3, <2>4, <2>5 DEF Reboot, ConfigInv, Settled
<1> QED
  BY <1>3, <1>4, <1>5

LEMMA ConfigStarts == ASSUME ConfigConstants PROVE ConfigInit => ConfigInv
<1> SUFFICES ASSUME ConfigConstants, ConfigInit PROVE ConfigInv
  OBVIOUS
<1>1. live \in System /\ disk \in System /\ overlay \in [booted : BOOLEAN, next : BOOLEAN]
  BY DEF ConfigInit, System, Conf
<1>2. save \in [Saves -> Save] /\ \A q \in Saves : save[q] = NoSave
  BY NoSaveTyped DEF ConfigInit
<1>3. mixed \in BOOLEAN /\ mixed
  BY Zenon DEF ConfigInit
<1>4. ConfigTypeOK
  BY <1>1, <1>2, <1>3 DEF ConfigInit, ConfigTypeOK, ConfigConstants
<1> QED
  BY <1>2, <1>3, <1>4, NoSaveTyped DEF ConfigInv, SaveOrder, AloneSave, SaveAt

LEMMA ConfigStep ==
    ASSUME ConfigConstants PROVE ConfigInv /\ [ConfigNext]_configVars => ConfigInv'
<1> SUFFICES ASSUME ConfigConstants, ConfigInv, [ConfigNext]_configVars
             PROVE  ConfigInv'
  OBVIOUS
<1>1. CASE UNCHANGED configVars
  BY <1>1 DEF configVars, ConfigInv, ConfigTypeOK, SaveOrder, AloneSave, SaveAt, Settled
<1>2. ASSUME NEW q \in Saves, NEW on \in SUBSET Modules,
             SaveForm(q, on) \/ \E named \in SUBSET Modules : SaveApi(q, named, on)
      PROVE  ConfigInv'
  BY <1>2, SubmitKeeps DEF SaveForm, SaveApi
<1> QED
  BY <1>1, <1>2, EarlyStepsKeep, RunKeeps, RestartKeeps, ToggleKeeps, LateStepsKeep, EndsKeep,
     AroundKeep DEF ConfigNext

\* The machine, the files in /tmp and the saves are of their types.
THEOREM ConfigTyped == ASSUME ConfigConstants PROVE ConfigSpec => []ConfigTypeOK
<1>1. ConfigInv => ConfigTypeOK
  BY DEF ConfigInv
<1> QED
  BY <1>1, ConfigStarts, ConfigStep, PTL DEF ConfigSpec

\* Once one save has gone through without meeting another, the module tags and
\* smbd agree with the file until the next one moves it, for any modules, saves,
\* switches of the read-only root and reboots (routes/honeypots_config.py).
THEOREM SaveSettlesAlways == ASSUME ConfigConstants PROVE ConfigSpec => []SaveSettles
<1>1. ConfigInv => SaveSettles
  <2> SUFFICES ASSUME ConfigInv, ~mixed
               PROVE  moduleTags = live.conf /\ live.samba = (Samba \in live.conf)
    BY DEF SaveSettles
  <2>1. moduleTags = live.conf /\ (live.samba <=> Samba \in live.conf) /\ live.samba \in BOOLEAN
    BY DEF ConfigInv, Settled, ConfigTypeOK, System
  <2> QED
    BY <2>1
<1> QED
  BY <1>1, ConfigStarts, ConfigStep, PTL DEF ConfigSpec

-----------------------------------------------------------------------------
\* WatchedFiles: the audit log tells of every content that is stored.

ChecksAlone ==
    \A c, d \in Checks : c # d => check[c].pc = "idle" \/ check[d].pc = "idle"

\* What is not watched has no content that anybody was told of.
NothingUnwatched ==
    \A p \in Paths : ~watched[p].here => watched[p] = Absent /\ lastTold[p] = NoContent

\* The one check has its rows as they are stored, unless one was deleted,
RowsAreCurrent ==
    \A c \in Checks : check[c].pc \in {"read", "store"} /\ ~check[c].lost =>
        \A p \in Listed(check[c].rows) : watched[p] = check[c].rows[p]

\* and what it has still to tell is what is stored, or was told.
WillBeTold ==
    \A c \in Checks : \A p \in check[c].todo :
        watched[p].here =>
            check[c].found[p] = watched[p].content \/ watched[p].content = lastTold[p]

Undisturbed ==
    ChecksAlone /\ NothingUnwatched /\ RowsAreCurrent /\ WillBeTold

WatchInv ==
    /\ WatchTypeOK
    /\ \A c \in Checks : check[c].pc # "tell" => check[c].todo = {}
    /\ ~upset => Undisturbed
    /\ StoredIsTold

LEMMA EntriesTyped ==
    /\ Absent \in Entry /\ Pending \in Entry /\ NoCheck \in Check
    /\ Pending.here /\ ~Absent.here
    /\ Pending.content = NoContent /\ Absent.content = NoContent
    /\ NoCheck.pc = "idle" /\ NoCheck.todo = {}
<1>1. Absent \in Entry
  BY DEF Absent, Entry
<1>2. Pending \in Entry /\ Pending.here /\ Pending.content = NoContent
  BY <1>1 DEF Pending, Entry, Absent
<1>3. NoCheck \in Check /\ NoCheck.pc = "idle" /\ NoCheck.todo = {}
  BY <1>1 DEF NoCheck, Check
<1> QED
  BY <1>1, <1>2, <1>3 DEF Absent

\* A list that is set: what stays on it stays as it is, the rest starts anew.
LEMMA ListSet ==
    ASSUME WatchTypeOK, NEW P \in SUBSET Paths, SetPaths(P)
    PROVE  /\ watched' \in [Paths -> Entry]
           /\ lastTold' \in [Paths -> Contents \cup {NoContent}]
           /\ \A p \in Paths :
                 /\ p \notin P => watched'[p] = Absent /\ lastTold'[p] = NoContent
                 /\ p \in P => lastTold'[p] = lastTold[p]
                 /\ p \in P /\ watched[p].here => watched'[p] = watched[p]
                 /\ p \in P /\ ~watched[p].here => watched'[p] = Pending
BY EntriesTyped DEF SetPaths, WatchTypeOK

\* A check that may have lost a row is otherwise as it was.
LEMMA LosingTyped ==
    ASSUME WatchTypeOK, NEW c \in Checks, NEW P \in SUBSET Paths
    PROVE  /\ Losing(c, P) \in Check
           /\ Losing(c, P).pc = check[c].pc /\ Losing(c, P).rows = check[c].rows
           /\ Losing(c, P).found = check[c].found /\ Losing(c, P).todo = check[c].todo
           /\ ~Losing(c, P).lost => ~check[c].lost /\ Listed(check[c].rows) \subseteq P
<1>1. check[c] \in Check
  BY DEF WatchTypeOK
<1>2. PICK b \in BOOLEAN : b = (check[c].lost \/ Listed(check[c].rows) \ P # {})
  OBVIOUS
<1>3. Losing(c, P) = [check[c] EXCEPT !.lost = b]
  BY <1>2, Zenon DEF Losing
<1>4. [check[c] EXCEPT !.lost = b] \in Check /\ [check[c] EXCEPT !.lost = b].lost = b
  BY <1>1 DEF Check
<1>5. /\ [check[c] EXCEPT !.lost = b].pc = check[c].pc
      /\ [check[c] EXCEPT !.lost = b].rows = check[c].rows
      /\ [check[c] EXCEPT !.lost = b].found = check[c].found
      /\ [check[c] EXCEPT !.lost = b].todo = check[c].todo
  BY <1>1 DEF Check
<1> QED
  BY <1>2, <1>3, <1>4, <1>5

LEMMA SaveListKeeps ==
    ASSUME WatchConstants, WatchInv, NEW P \in SUBSET Paths, SaveList(P)
    PROVE  WatchInv'
<1>1. /\ watched' \in [Paths -> Entry]
      /\ lastTold' \in [Paths -> Contents \cup {NoContent}]
      /\ \A p \in Paths :
            /\ p \notin P => watched'[p] = Absent /\ lastTold'[p] = NoContent
            /\ p \in P => lastTold'[p] = lastTold[p]
            /\ p \in P /\ watched[p].here => watched'[p] = watched[p]
            /\ p \in P /\ ~watched[p].here => watched'[p] = Pending
  BY ListSet DEF SaveList, WatchInv
<1>2. /\ check' \in [Checks -> Check]
      /\ \A c \in Checks :
            /\ check'[c].pc = check[c].pc /\ check'[c].rows = check[c].rows
            /\ check'[c].found = check[c].found /\ check'[c].todo = check[c].todo
            /\ ~check'[c].lost => ~check[c].lost /\ Listed(check[c].rows) \subseteq P
  BY LosingTyped DEF SaveList, WatchInv
<1>3. upset' = upset
  BY DEF SaveList
<1>4. WatchTypeOK'
  BY <1>1, <1>2 DEF SaveList, WatchInv, WatchTypeOK, WatchConstants, world
<1>5. ASSUME ~upset PROVE Undisturbed'
  <2>1. ChecksAlone'
    BY <1>2, <1>5 DEF WatchInv, Undisturbed, ChecksAlone
  <2>2. NothingUnwatched'
    BY <1>1, <1>5, EntriesTyped DEF WatchInv, Undisturbed, NothingUnwatched
  <2>3. RowsAreCurrent'
    <3> SUFFICES ASSUME NEW c \in Checks, check'[c].pc \in {"read", "store"}, ~check'[c].lost,
                        NEW p \in Listed(check'[c].rows)
                 PROVE  watched'[p] = check'[c].rows[p]
      BY DEF RowsAreCurrent
    <3>1. p \in Listed(check[c].rows) /\ p \in P /\ p \in Paths /\ check[c].rows[p].here
      BY <1>2 DEF Listed
    <3>2. watched[p] = check[c].rows[p]
      BY <1>2, <1>5, <3>1 DEF WatchInv, Undisturbed, RowsAreCurrent
    <3> QED
      BY <1>1, <1>2, <3>1, <3>2
  <2>4. WillBeTold'
    <3> SUFFICES ASSUME NEW c \in Checks, NEW p \in check'[c].todo, watched'[p].here
                 PROVE  \/ check'[c].found[p] = watched'[p].content
                        \/ watched'[p].content = lastTold'[p]
      BY DEF WillBeTold
    <3>1. p \in check[c].todo /\ check'[c].found = check[c].found
      BY <1>2
    <3>2. check[c] \in Check
      BY DEF WatchInv, WatchTypeOK
    <3>3. p \in Paths
      BY <3>1, <3>2 DEF Check
    <3>4. p \in P
      BY <1>1, <3>3, EntriesTyped
    <3>5. CASE watched[p].here
      BY <1>1, <1>5, <3>1, <3>3, <3>4, <3>5 DEF WatchInv, Undisturbed, WillBeTold
    <3>6. CASE ~watched[p].here
      BY <1>1, <1>5, <3>3, <3>4, <3>6, EntriesTyped DEF WatchInv, Undisturbed, NothingUnwatched
    <3> QED
      BY <3>5, <3>6
  <2> QED
    BY <2>1, <2>2, <2>3, <2>4 DEF Undisturbed
<1>6. StoredIsTold'
  BY <1>1, <1>2, <1>3, <1>5, EntriesTyped
     DEF WatchInv, StoredIsTold, Undisturbed, NothingUnwatched
<1> QED
  BY <1>2, <1>3, <1>4, <1>5, <1>6 DEF WatchInv

\* Checks that stop, begin, read or come to know what the defaults are.
LEMMA StopKeeps ==
    ASSUME WatchConstants, WatchInv, NEW c \in Checks,
           ReadFails(c) \/ StoreRaises(c) \/ CheckDies(c)
    PROVE  WatchInv'
<1>1. check' = [check EXCEPT ![c] = NoCheck] /\ UNCHANGED <<world, list, starts, lastTold>>
  BY DEF ReadFails, StoreRaises, CheckDies, Stop
<1>2. upset' = upset \/ upset' = (upset \/ check[c].todo # {})
  BY DEF ReadFails, StoreRaises, CheckDies
<1>3. upset' \in BOOLEAN
  BY <1>2, Zenon DEF WatchInv, WatchTypeOK
<1>4. WatchTypeOK'
  BY <1>1, <1>3, EntriesTyped DEF WatchInv, WatchTypeOK, world, list
<1>5. \A d \in Checks : check'[d] = IF d = c THEN NoCheck ELSE check[d]
  BY <1>1 DEF WatchInv, WatchTypeOK
<1>6. ~upset' => ~upset /\ check[c].todo = {}
  BY DEF ReadFails, StoreRaises, CheckDies, WatchInv
<1>7. watched' = watched /\ lastTold' = lastTold
  BY <1>1 DEF list
<1>8. ASSUME ~upset' PROVE Undisturbed'
  BY <1>5, <1>6, <1>7, <1>8, EntriesTyped
     DEF WatchInv, Undisturbed, ChecksAlone, NothingUnwatched, RowsAreCurrent, WillBeTold
<1>9. StoredIsTold'
  BY <1>5, <1>6, <1>7, EntriesTyped DEF WatchInv, StoredIsTold
<1> QED
  BY <1>4, <1>5, <1>8, <1>9, EntriesTyped DEF WatchInv

LEMMA BeginCheckKeeps ==
    ASSUME WatchConstants, WatchInv, NEW c \in Checks, BeginCheck(c)
    PROVE  WatchInv'
<1>1. PICK pc \in {"home", "idle", "read"} :
         pc = IF NeedsDefaults(watched) THEN "home"
              ELSE IF Listed(watched) = {} THEN "idle" ELSE "read"
  OBVIOUS
<1> DEFINE begun == [NoCheck EXCEPT !.pc = pc, !.rows = watched]
<1>2. /\ check' = [check EXCEPT ![c] = IF pc = "idle" THEN NoCheck ELSE begun]
      /\ upset' = (upset \/ (pc # "idle" /\ ChecksBusy # {}))
  BY <1>1 DEF BeginCheck
<1>3. begun \in Check /\ begun.pc = pc /\ begun.rows = watched /\ begun.todo = {}
  <2>1. NoCheck \in Check /\ watched \in [Paths -> Entry]
    BY EntriesTyped DEF WatchInv, WatchTypeOK
  <2>2. begun \in Check /\ begun.pc = pc /\ begun.rows = watched /\ begun.todo = NoCheck.todo
    BY <2>1 DEF Check
  <2> QED
    BY <2>2, EntriesTyped
<1> HIDE DEF begun
<1>4. upset' \in BOOLEAN
  BY <1>2, Zenon
<1>5. /\ check' \in [Checks -> Check]
      /\ \A d \in Checks : check'[d] = IF d # c THEN check[d]
                                      ELSE IF pc = "idle" THEN NoCheck ELSE begun
  BY <1>2, <1>3, EntriesTyped DEF WatchInv, WatchTypeOK
<1>6. WatchTypeOK'
  <2>1. starts' \in 0..MaxChecks
    BY DEF BeginCheck, WatchInv, WatchTypeOK, WatchConstants
  <2> QED
    BY <1>4, <1>5, <2>1 DEF BeginCheck, WatchInv, WatchTypeOK, world, list
<1>7. watched' = watched /\ lastTold' = lastTold /\ check[c].pc = "idle"
  BY DEF BeginCheck, list
<1>8. ASSUME ~upset', pc # "idle", NEW d \in Checks PROVE check[d].pc = "idle"
  BY <1>2, <1>8 DEF ChecksBusy
<1>9. check[c].todo = {}
  BY <1>7 DEF WatchInv
<1>10. ASSUME ~upset' PROVE Undisturbed'
  <2>1. ~upset /\ Undisturbed
    BY <1>2, <1>10 DEF WatchInv
  <2>2. ChecksAlone'
    BY <1>3, <1>5, <1>8, <1>10, <2>1, EntriesTyped DEF Undisturbed, ChecksAlone
  <2>3. RowsAreCurrent'
    BY <1>3, <1>5, <1>7, <2>1, EntriesTyped DEF Undisturbed, RowsAreCurrent
  <2>4. WillBeTold' /\ NothingUnwatched'
    BY <1>3, <1>5, <1>7, <2>1, EntriesTyped DEF Undisturbed, WillBeTold, NothingUnwatched
  <2> QED
    BY <2>2, <2>3, <2>4 DEF Undisturbed
<1>11. StoredIsTold'
  BY <1>2, <1>3, <1>5, <1>7, <1>9, EntriesTyped DEF WatchInv, StoredIsTold
<1> QED
  BY <1>3, <1>5, <1>6, <1>10, <1>11, EntriesTyped DEF WatchInv

LEMMA DefaultsKeep ==
    ASSUME WatchConstants, WatchInv, NEW c \in Checks, NEW P \in {Defaults, Paths},
           ApplyDefaults(c, P)
    PROVE  WatchInv'
<1>1. P \in SUBSET Paths
  BY DEF Paths
<1>2. /\ watched' \in [Paths -> Entry]
      /\ lastTold' \in [Paths -> Contents \cup {NoContent}]
      /\ \A p \in Paths :
            /\ p \notin P => watched'[p] = Absent /\ lastTold'[p] = NoContent
            /\ p \in P => lastTold'[p] = lastTold[p]
            /\ p \in P /\ watched[p].here => watched'[p] = watched[p]
            /\ p \in P /\ ~watched[p].here => watched'[p] = Pending
  BY <1>1, ListSet DEF ApplyDefaults, WatchInv
<1> DEFINE begun == [check[c] EXCEPT !.pc = "read", !.rows = watched']
<1>3. /\ begun \in Check /\ begun.pc = "read" /\ begun.rows = watched'
      /\ begun.todo = check[c].todo
  <2>1. check[c] \in Check
    BY DEF WatchInv, WatchTypeOK
  <2> QED
    BY <1>2, <2>1 DEF Check
<1>4. check[c].pc = "home" /\ check[c].todo = {}
  BY DEF ApplyDefaults, WatchInv
<1> HIDE DEF begun
<1>5. /\ check' \in [Checks -> Check]
      /\ check'[c] = begun
      /\ \A d \in Checks \ {c} : check'[d] = Losing(d, P)
  BY <1>1, <1>3, LosingTyped DEF ApplyDefaults, WatchInv, begun
<1>6. \A d \in Checks \ {c} :
         /\ check'[d].pc = check[d].pc /\ check'[d].todo = check[d].todo
         /\ check'[d].found = check[d].found
  BY <1>1, <1>5, LosingTyped DEF WatchInv
<1>7. WatchTypeOK'
  BY <1>2, <1>5 DEF ApplyDefaults, WatchInv, WatchTypeOK, world
<1>8. ASSUME ~upset PROVE Undisturbed'
  <2>1. Undisturbed /\ \A d \in Checks \ {c} : check[d].pc = "idle" /\ check[d].todo = {}
    BY <1>4, <1>8 DEF WatchInv, Undisturbed, ChecksAlone
  <2>2. ChecksAlone'
    BY <1>6, <2>1 DEF ChecksAlone
  <2>3. NothingUnwatched'
    BY <1>2, <2>1, EntriesTyped DEF Undisturbed, NothingUnwatched
  <2>4. RowsAreCurrent'
    BY <1>3, <1>5, <1>6, <2>1 DEF RowsAreCurrent
  <2>5. WillBeTold'
    BY <1>3, <1>4, <1>5, <1>6, <2>1 DEF WillBeTold
  <2> QED
    BY <2>2, <2>3, <2>4, <2>5 DEF Undisturbed
<1>9. ASSUME ~upset' PROVE StoredIsTold'
  <2>1. ~upset /\ Undisturbed /\ StoredIsTold
    BY <1>9 DEF WatchInv, ApplyDefaults
  <2>2. \A d \in Checks : check[d].todo = {} /\ check'[d].todo = {}
    BY <1>3, <1>4, <1>5, <1>6, <2>1 DEF WatchInv, Undisturbed, ChecksAlone
  <2> QED
    BY <1>2, <1>9, <2>1, <2>2, EntriesTyped DEF StoredIsTold, Undisturbed, NothingUnwatched
<1>10. upset' = upset
  BY DEF ApplyDefaults
<1>11. StoredIsTold'
  BY <1>9 DEF StoredIsTold
<1>12. \A d \in Checks : check'[d].pc # "tell" => check'[d].todo = {}
  BY <1>3, <1>4, <1>5, <1>6 DEF WatchInv
<1> QED
  BY <1>7, <1>8, <1>10, <1>11, <1>12 DEF WatchInv

LEMMA ReadKeeps ==
    ASSUME WatchConstants, WatchInv, NEW c \in Checks, NEW P \in SUBSET Paths, Read(c, P)
    PROVE  WatchInv'
<1> DEFINE found == [p \in Paths |->
               IF p \in P \cap Listed(check[c].rows) THEN file[p] ELSE NoContent]
           now == [check[c] EXCEPT !.pc = "store", !.found = found]
<1>1. found \in [Paths -> Unread \cup Contents \cup {NoContent}]
  BY DEF WatchInv, WatchTypeOK
<1> HIDE DEF found
<1>2. check[c] \in Check /\ check[c].pc = "read" /\ check[c].todo = {}
  BY DEF Read, WatchInv, WatchTypeOK
<1>3. /\ now \in Check /\ now.pc = "store" /\ now.rows = check[c].rows
      /\ now.lost = check[c].lost /\ now.todo = check[c].todo
  BY <1>1, <1>2 DEF Check
<1>4. check' = [check EXCEPT ![c] = now]
  BY DEF Read, found, WatchInv, WatchTypeOK
<1> HIDE DEF now
<1>5. /\ check' \in [Checks -> Check]
      /\ \A d \in Checks : check'[d] = IF d = c THEN now ELSE check[d]
  BY <1>3, <1>4 DEF WatchInv, WatchTypeOK
<1>6. UNCHANGED <<file, edits, watched, customized, asked, listSaves, starts, lastTold, upset>>
  BY DEF Read, world, list
<1>7. WatchTypeOK'
  BY <1>5, <1>6 DEF WatchInv, WatchTypeOK
<1>8. ASSUME ~upset PROVE Undisturbed'
  BY <1>2, <1>3, <1>5, <1>6, <1>8
     DEF WatchInv, Undisturbed, ChecksAlone, NothingUnwatched, RowsAreCurrent, WillBeTold
<1>9. StoredIsTold'
  BY <1>2, <1>3, <1>5, <1>6 DEF WatchInv, StoredIsTold
<1> QED
  BY <1>2, <1>3, <1>5, <1>6, <1>7, <1>8, <1>9 DEF WatchInv

-----------------------------------------------------------------------------
\* What a reading makes of a row: the content found, told of later if it differs
\* from one that was stored or from a file that was missing.
LEMMA AppliedRow ==
    ASSUME WatchConstants, NEW entry \in Entry, NEW found \in Unread \cup Contents
    PROVE  /\ Applied(entry, found) \in Entry /\ Applied(entry, found).here = entry.here
           /\ found \in Unread => Applied(entry, found).content = entry.content
           /\ found \in Contents => Applied(entry, found).content = found
BY DEF WatchConstants, Entry, Applied

\* What the store leaves in the row of a path.
StoredRow(entry, read, found) ==
    LET new == Applied(read, found)
    IN  [entry EXCEPT !.state = IF new.state = read.state THEN entry.state ELSE new.state,
                    !.content = IF new.content = read.content THEN entry.content ELSE new.content]

LEMMA StoredRowTyped ==
    ASSUME WatchConstants, NEW entry \in Entry, NEW read \in Entry,
           NEW found \in Unread \cup Contents
    PROVE  /\ StoredRow(entry, read, found) \in Entry
           /\ StoredRow(entry, read, found).here = entry.here
           /\ entry = read => StoredRow(entry, read, found).content = Applied(read, found).content
<1>1. Applied(read, found) \in Entry
  BY AppliedRow
<1> DEFINE new == Applied(read, found)
           state == IF new.state = read.state THEN entry.state ELSE new.state
           content == IF new.content = read.content THEN entry.content ELSE new.content
<1>2. state \in {"pending", "ok"} \cup Unread /\ content \in Contents \cup {NoContent}
  BY <1>1 DEF Entry
<1>3. entry = read => content = new.content
  OBVIOUS
<1>4. StoredRow(entry, read, found) = [entry EXCEPT !.state = state, !.content = content]
  BY DEF StoredRow
<1> HIDE DEF state, content
<1>5. /\ StoredRow(entry, read, found) \in Entry
      /\ StoredRow(entry, read, found).here = entry.here
      /\ StoredRow(entry, read, found).content = content
  BY <1>2, <1>4 DEF Entry
<1> QED
  BY <1>3, <1>5

LEMMA StoreKeeps ==
    ASSUME WatchConstants, WatchInv, NEW c \in Checks, StoreReadings(c)
    PROVE  WatchInv'
<1> DEFINE loaded == check[c].rows
           found == check[c].found
           read == {p \in Listed(loaded) : found[p] # NoContent}
           todo == {p \in read : Differs(loaded[p], found[p])}
           telling == [check[c] EXCEPT !.pc = "tell", !.todo = todo]
<1>1. /\ check[c] \in Check /\ loaded \in [Paths -> Entry]
      /\ found \in [Paths -> Unread \cup Contents \cup {NoContent}]
      /\ check[c].pc = "store" /\ ~check[c].lost /\ check[c].todo = {}
  BY DEF StoreReadings, WatchInv, WatchTypeOK, Check
<1>2. /\ read \subseteq Paths /\ todo \subseteq read
      /\ \A p \in read : loaded[p] \in Entry /\ found[p] \in Unread \cup Contents
  BY <1>1 DEF Listed
<1>3. /\ telling \in Check /\ telling.pc = "tell" /\ telling.todo = todo
      /\ telling.found = found
  BY <1>1, <1>2 DEF Check
<1>4. check' = [check EXCEPT ![c] = IF todo = {} THEN NoCheck ELSE telling]
  BY DEF StoreReadings
<1>5. /\ check' \in [Checks -> Check]
      /\ \A d \in Checks : check'[d] = IF d # c THEN check[d]
                                      ELSE IF todo = {} THEN NoCheck ELSE telling
  BY <1>3, <1>4, EntriesTyped DEF WatchInv, WatchTypeOK
<1>6. watched' = [p \in Paths |-> IF p \notin read THEN watched[p]
                                 ELSE StoredRow(watched[p], loaded[p], found[p])]
  BY DEF StoreReadings, StoredRow
<1>7. /\ watched' \in [Paths -> Entry]
      /\ \A p \in Paths : watched'[p].here = watched[p].here
      /\ \A p \in Paths \ read : watched'[p] = watched[p]
      /\ \A p \in read : watched[p] = loaded[p] =>
            watched'[p].content = Applied(loaded[p], found[p]).content
  <2>1. \A p \in Paths : watched[p] \in Entry
    BY DEF WatchInv, WatchTypeOK
  <2>2. \A p \in read :
           /\ StoredRow(watched[p], loaded[p], found[p]) \in Entry
           /\ StoredRow(watched[p], loaded[p], found[p]).here = watched[p].here
           /\ watched[p] = loaded[p] => StoredRow(watched[p], loaded[p], found[p]).content
                                      = Applied(loaded[p], found[p]).content
    BY <1>2, <2>1, StoredRowTyped
  <2> HIDE DEF read
  <2> QED
    BY <1>2, <1>6, <2>1, <2>2, Zenon
<1>8. lastTold' = [p \in Paths |->
          IF p \in read /\ loaded[p].content = NoContent /\ loaded[p].state # "missing"
                /\ found[p] \in Contents
          THEN found[p] ELSE lastTold[p]]
  BY DEF StoreReadings
<1>9. lastTold' \in [Paths -> Contents \cup {NoContent}]
  BY <1>8 DEF WatchInv, WatchTypeOK
<1>10. UNCHANGED <<file, edits, customized, asked, listSaves, starts, upset>>
  BY DEF StoreReadings, world
<1>11. WatchTypeOK'
  BY <1>5, <1>7, <1>9, <1>10 DEF WatchInv, WatchTypeOK
<1> HIDE DEF telling, read
<1>12. ASSUME ~upset
       PROVE  /\ \A d \in Checks \ {c} : check[d].pc = "idle" /\ check[d].todo = {}
              /\ \A p \in read : watched[p] = loaded[p] /\ watched[p].here
              /\ NothingUnwatched
  BY <1>1, <1>12 DEF WatchInv, Undisturbed, ChecksAlone, RowsAreCurrent, Listed, read
<1>13. ASSUME ~upset, NEW p \in Paths
       PROVE  /\ watched'[p].here => watched'[p].content = lastTold'[p] \/ p \in todo
              /\ p \in todo => \/ found[p] = watched'[p].content
                              \/ watched'[p].content = lastTold'[p]
              /\ ~watched'[p].here => watched'[p] = Absent /\ lastTold'[p] = NoContent
  <2>1. watched[p].here => watched[p].content = lastTold[p]
    BY <1>1, <1>12, <1>13 DEF WatchInv, StoredIsTold
  <2>2. CASE p \notin read
    BY <1>2, <1>7, <1>8, <1>12, <1>13, <2>1, <2>2 DEF NothingUnwatched
  <2>3. CASE p \in read
    <3>1. /\ watched[p] = loaded[p] /\ watched[p].here
          /\ loaded[p] \in Entry /\ found[p] \in Unread \cup Contents
      BY <1>2, <1>12, <1>13, <2>3
    <3>2. watched'[p].here /\ watched'[p].content = Applied(loaded[p], found[p]).content
      BY <1>7, <2>3, <3>1
    <3>3. CASE found[p] \in Unread
      <4>1. watched'[p].content = loaded[p].content
        BY <3>1, <3>2, <3>3, AppliedRow
      <4>2. lastTold'[p] = lastTold[p]
        BY <1>8, <3>3 DEF WatchConstants
      <4> QED
        BY <2>1, <3>1, <3>2, <4>1, <4>2
    <3>4. CASE found[p] \in Contents
      <4>1. watched'[p].content = found[p]
        BY <3>1, <3>2, <3>4, AppliedRow
      <4>2. CASE loaded[p].content = NoContent /\ loaded[p].state # "missing"
        BY <1>8, <2>3, <3>2, <3>4, <4>1, <4>2
      <4>3. CASE found[p] # loaded[p].content
                 /\ ~(loaded[p].content = NoContent /\ loaded[p].state # "missing")
        <5>1. p \in todo
          BY <2>3, <3>4, <4>3 DEF Differs
        <5> QED
          BY <3>2, <4>1, <5>1
      <4>4. CASE found[p] = loaded[p].content
        <5>1. lastTold'[p] = lastTold[p]
          BY <1>8, <3>4, <4>4 DEF WatchConstants
        <5> QED
          BY <2>1, <3>1, <3>2, <4>1, <4>4, <5>1
      <4> QED
        BY <4>2, <4>3, <4>4
    <3> QED
      BY <3>1, <3>3, <3>4
  <2> QED
    BY <2>2, <2>3
<1> HIDE DEF todo
<1>14. ASSUME ~upset PROVE Undisturbed'
  <2>1. ChecksAlone'
    BY <1>5, <1>12, <1>14 DEF ChecksAlone
  <2>2. NothingUnwatched'
    BY <1>13, <1>14 DEF NothingUnwatched
  <2>3. RowsAreCurrent'
    BY <1>3, <1>5, <1>12, <1>14, EntriesTyped DEF RowsAreCurrent
  <2>4. WillBeTold'
    BY <1>2, <1>3, <1>5, <1>12, <1>13, <1>14, EntriesTyped DEF WillBeTold
  <2> QED
    BY <2>1, <2>2, <2>3, <2>4 DEF Undisturbed
<1>15. StoredIsTold'
  BY <1>3, <1>5, <1>10, <1>12, <1>13, EntriesTyped DEF StoredIsTold
<1>16. \A d \in Checks : check'[d].pc # "tell" => check'[d].todo = {}
  BY <1>3, <1>5, EntriesTyped DEF WatchInv
<1> QED
  BY <1>10, <1>11, <1>14, <1>15, <1>16 DEF WatchInv

LEMMA TellKeeps ==
    ASSUME WatchConstants, WatchInv, NEW c \in Checks, NEW p \in Paths, Tell(c, p)
    PROVE  WatchInv'
<1> DEFINE left == [check[c] EXCEPT !.todo = @ \ {p}]
<1>1. check[c] \in Check /\ check[c].pc = "tell" /\ p \in check[c].todo
  BY DEF Tell, WatchInv, WatchTypeOK
<1>2. /\ left \in Check /\ left.pc = "tell" /\ left.found = check[c].found
      /\ left.todo = check[c].todo \ {p}
  BY <1>1 DEF Check
<1>3. check' = [check EXCEPT ![c] = IF check[c].todo = {p} THEN NoCheck ELSE left]
  BY DEF Tell
<1> HIDE DEF left
<1>4. /\ check' \in [Checks -> Check]
      /\ \A d \in Checks : check'[d] = IF d # c THEN check[d]
                                      ELSE IF check[c].todo = {p} THEN NoCheck ELSE left
  BY <1>2, <1>3, EntriesTyped DEF WatchInv, WatchTypeOK
<1>5. /\ lastTold' \in [Paths -> Contents \cup {NoContent}]
      /\ \A o \in Paths \ {p} : lastTold'[o] = lastTold[o]
      /\ lastTold'[p] = IF check[c].found[p] = watched[p].content THEN watched[p].content
                        ELSE lastTold[p]
  BY DEF Tell, WatchInv, WatchTypeOK, Entry
<1>6. UNCHANGED <<file, edits, watched, customized, asked, listSaves, starts, upset>>
  BY DEF Tell, world, list
<1>7. WatchTypeOK'
  BY <1>4, <1>5, <1>6 DEF WatchInv, WatchTypeOK
<1>8. ASSUME ~upset PROVE Undisturbed' /\ StoredIsTold'
  <2>1. /\ \A d \in Checks \ {c} : check[d].pc = "idle" /\ check[d].todo = {}
        /\ NothingUnwatched /\ WillBeTold
    BY <1>1, <1>8 DEF WatchInv, Undisturbed, ChecksAlone
  <2>2. watched[p].here => lastTold'[p] = watched[p].content
    BY <1>1, <1>5, <2>1 DEF WillBeTold
  <2>3. ~watched[p].here => lastTold'[p] = NoContent
    BY <1>5, <2>1, EntriesTyped DEF NothingUnwatched
  <2>4. ChecksAlone' /\ RowsAreCurrent'
    BY <1>2, <1>4, <2>1, EntriesTyped DEF ChecksAlone, RowsAreCurrent
  <2>5. NothingUnwatched'
    BY <1>5, <1>6, <2>1, <2>3 DEF NothingUnwatched
  <2>6. WillBeTold'
    <3> SUFFICES ASSUME NEW d \in Checks, NEW o \in check'[d].todo, watched[o].here
                 PROVE  check'[d].found[o] = watched[o].content \/ watched[o].content = lastTold'[o]
      BY <1>6 DEF WillBeTold
    <3>1. d = c /\ o \in check[c].todo \ {p} /\ check'[d].found = check[c].found
      BY <1>2, <1>4, <2>1, EntriesTyped
    <3>2. o \in Paths \ {p}
      BY <1>1, <3>1 DEF Check
    <3> QED
      BY <1>5, <2>1, <3>1, <3>2 DEF WillBeTold
  <2>7. StoredIsTold'
    <3> SUFFICES ASSUME NEW o \in Paths, watched[o].here, \A d \in Checks : o \notin check'[d].todo
                 PROVE  watched[o].content = lastTold'[o]
      BY <1>6 DEF StoredIsTold
    <3>1. CASE o = p
      BY <2>2, <3>1
    <3>2. CASE o # p
      <4>1. o \notin check[c].todo
        BY <1>2, <1>4, <3>2
      <4> QED
        BY <1>5, <1>8, <2>1, <3>2, <4>1 DEF WatchInv, StoredIsTold
    <3> QED
      BY <3>1, <3>2
  <2> QED
    BY <2>4, <2>5, <2>6, <2>7 DEF Undisturbed
<1>9. upset => StoredIsTold'
  BY <1>6 DEF StoredIsTold
<1>10. \A d \in Checks : check'[d].pc # "tell" => check'[d].todo = {}
  BY <1>2, <1>4, EntriesTyped DEF WatchInv
<1> QED
  BY <1>6, <1>7, <1>8, <1>9, <1>10 DEF WatchInv

LEMMA WatchStarts == ASSUME WatchConstants PROVE WatchInit => WatchInv
<1> SUFFICES ASSUME WatchConstants, WatchInit PROVE WatchInv
  OBVIOUS
<1>1. /\ file \in [Paths -> Unread \cup Contents] /\ watched \in [Paths -> Entry]
      /\ check \in [Checks -> Check] /\ lastTold \in [Paths -> Contents \cup {NoContent}]
  BY EntriesTyped DEF WatchInit, Unread
<1>2. customized \in BOOLEAN /\ upset \in BOOLEAN
  BY Zenon DEF WatchInit
<1>3. WatchTypeOK
  BY <1>1, <1>2 DEF WatchInit, WatchTypeOK, WatchConstants
<1>4. \A c \in Checks : check[c].pc = "idle" /\ check[c].todo = {}
  BY EntriesTyped DEF WatchInit
<1>5. \A p \in Paths : watched[p] = Absent /\ lastTold[p] = NoContent
  BY DEF WatchInit
<1> QED
  BY <1>3, <1>4, <1>5, EntriesTyped
     DEF WatchInv, StoredIsTold, Undisturbed, ChecksAlone, NothingUnwatched, RowsAreCurrent,
         WillBeTold

LEMMA WatchStep ==
    ASSUME WatchConstants PROVE WatchInv /\ [WatchNext]_watchVars => WatchInv'
<1> SUFFICES ASSUME WatchConstants, WatchInv, [WatchNext]_watchVars
             PROVE  WatchInv'
  OBVIOUS
<1>1. CASE UNCHANGED watchVars
  BY <1>1
     DEF watchVars, WatchInv, WatchTypeOK, StoredIsTold, Undisturbed, ChecksAlone,
         NothingUnwatched, RowsAreCurrent, WillBeTold
<1>2. ASSUME NEW p \in Paths, NEW content \in Unread \cup Contents, FileChanges(p, content)
      PROVE  WatchInv'
  BY <1>2
     DEF FileChanges, WatchConstants, list, WatchInv, WatchTypeOK, StoredIsTold, Undisturbed,
         ChecksAlone, NothingUnwatched, RowsAreCurrent, WillBeTold
<1> QED
  BY <1>1, <1>2, SaveListKeeps, StopKeeps, BeginCheckKeeps, DefaultsKeep, ReadKeeps,
     StoreKeeps, TellKeeps DEF WatchNext, SaveListApi

\* Rows, checks and what was told are of their types.
THEOREM WatchedTyped == ASSUME WatchConstants PROVE WatchSpec => []WatchTypeOK
<1>1. WatchInv => WatchTypeOK
  BY DEF WatchInv
<1> QED
  BY <1>1, WatchStarts, WatchStep, PTL DEF WatchSpec

\* No content of a watched file is taken for known without an entry in the audit
\* log, whatever lists are saved meanwhile, unless two checks ran side by side or
\* one died before it told (services/watched_files.py, tasks/jobs.py).
THEOREM StoredIsToldAlways == ASSUME WatchConstants PROVE WatchSpec => []StoredIsTold
<1>1. WatchInv => StoredIsTold
  BY DEF WatchInv
<1> QED
  BY <1>1, WatchStarts, WatchStep, PTL DEF WatchSpec

-----------------------------------------------------------------------------
\* HoneypotRecord: the facts are those of a machine trusted at this address.

\* A task under way carries a key that was confirmed since the honeypot got its
\* address, and visits the machine that has it.
Carries(j) ==
    /\ job[j].pc # "idle" => job[j].copy.pin \in seen.trustedHere
    /\ job[j].pc = "visiting" => job[j].at \in seen.trustedHere

TrustedOnly ==
    /\ OfThisAddress
    /\ row.pin \in seen.trustedHere \cup {Nobody}
    /\ \A j \in Jobs : Carries(j)

\* It goes to the address it has read.
Dialled == \A j \in Jobs : job[j].pc # "idle" => job[j].copy.address \in Addresses

RecordInv ==
    /\ RecordTypeOK
    /\ Dialled
    /\ column \in ResetOnEdit /\ ~seen.crossed => TrustedOnly

LEMMA RecordStarts == ASSUME RecordConstants PROVE RecordInit => RecordInv
<1> SUFFICES ASSUME RecordConstants, RecordInit PROVE RecordInv
  OBVIOUS
<1>1. row \in Row /\ row.data = Nobody /\ row.pin = Nobody
  BY DEF RecordInit, Row, Machine
<1>2. job \in [Jobs -> Job] /\ \A j \in Jobs : job[j].pc = "idle"
  BY DEF RecordInit, Job, Idle, NoCopy, Copy, Kinds, Machine
<1>3. seen \in [starts : 0..MaxStarts, changes : 0..MaxChanges, replaced : BOOLEAN,
                crossed : BOOLEAN, trustedHere : SUBSET Machines]
  BY DEF RecordInit, RecordConstants
<1> QED
  BY <1>1, <1>2, <1>3
     DEF RecordInit, RecordConstants, RecordInv, RecordTypeOK, Dialled, TrustedOnly, OfThisAddress,
         Carries

\* What an edit leaves of the row.
LEMMA EditedRow ==
    ASSUME RecordTypeOK, NEW a \in Addresses, NEW active \in BOOLEAN,
           NEW new \in {Moved(row, a), MovedAlarm(row, a)},
           row' = [IF a # row.address THEN new ELSE row EXCEPT !.active = active]
    PROVE  /\ row' \in Row
           /\ a = row.address => row'.data = row.data /\ row'.pin = row.pin
           /\ a # row.address => row'.pin = Nobody
           /\ a # row.address /\ column \in ResetOnEdit => row'.data = Nobody
<1>1. row \in Row /\ Nobody \in Machine
  BY DEF RecordTypeOK, Machine
<1>2. /\ Moved(row, a) \in Row /\ Moved(row, a).pin = Nobody
      /\ column \in ResetOnEdit => Moved(row, a).data = Nobody
  BY <1>1 DEF Moved, Row
<1>3. /\ MovedAlarm(row, a) \in Row /\ MovedAlarm(row, a).pin = Nobody
      /\ column \in ResetOnEdit => MovedAlarm(row, a).data = Nobody
  BY <1>1, <1>2 DEF MovedAlarm, Row
<1> DEFINE from == IF a # row.address THEN new ELSE row
<1>4. from \in Row
  BY <1>1, <1>2, <1>3
<1>5. row' = [from EXCEPT !.active = active]
  OBVIOUS
<1> HIDE DEF from
<1>6. row' \in Row /\ row'.data = from.data /\ row'.pin = from.pin
  BY <1>4, <1>5 DEF Row
<1> QED
  BY <1>2, <1>3, <1>6 DEF from

LEMMA EditSeen ==
    ASSUME RecordConstants, RecordTypeOK, CountChange, NEW a \in Addresses, SeeEdit(a)
    PROVE  /\ seen' \in [starts : 0..MaxStarts, changes : 0..MaxChanges, replaced : BOOLEAN,
                          crossed : BOOLEAN, trustedHere : SUBSET Machines]
           /\ a = row.address => seen'.trustedHere = seen.trustedHere
           /\ ~seen'.crossed => ~seen.crossed /\ (a = row.address \/ ~UnderWay)
<1>1. PICK c \in BOOLEAN : c = (seen.crossed \/ (a # row.address /\ UnderWay))
  OBVIOUS
<1>2. seen.changes + 1 \in 0..MaxChanges
  BY DEF RecordTypeOK, CountChange, RecordConstants
<1>3. PICK T \in SUBSET Machines : T = IF a # row.address THEN {} ELSE seen.trustedHere
  BY DEF RecordTypeOK
<1>4. seen' = [seen EXCEPT !.changes = seen.changes + 1, !.crossed = c, !.trustedHere = T]
  BY <1>1, <1>3, Zenon DEF SeeEdit
<1>5. /\ seen' \in [starts : 0..MaxStarts, changes : 0..MaxChanges, replaced : BOOLEAN,
                     crossed : BOOLEAN, trustedHere : SUBSET Machines]
      /\ seen'.trustedHere = T /\ seen'.crossed = c
  BY <1>2, <1>4 DEF RecordTypeOK
<1> QED
  BY <1>1, <1>3, <1>5

LEMMA EditKeeps ==
    ASSUME RecordConstants, RecordInv, NEW a \in Addresses, NEW active \in BOOLEAN,
           EditHoneypot(a, active) \/ UpdateHoneypotApi(a, active)
    PROVE  RecordInv'
<1>1. /\ row' \in Row
      /\ a = row.address => row'.data = row.data /\ row'.pin = row.pin
      /\ a # row.address => row'.pin = Nobody
      /\ a # row.address /\ column \in ResetOnEdit => row'.data = Nobody
  BY EditedRow DEF EditHoneypot, UpdateHoneypotApi, RecordInv
<1>2. /\ seen' \in [starts : 0..MaxStarts, changes : 0..MaxChanges, replaced : BOOLEAN,
                     crossed : BOOLEAN, trustedHere : SUBSET Machines]
      /\ a = row.address => seen'.trustedHere = seen.trustedHere
      /\ ~seen'.crossed => ~seen.crossed /\ (a = row.address \/ ~UnderWay)
  BY EditSeen DEF EditHoneypot, UpdateHoneypotApi, RecordInv
<1>3. UNCHANGED <<column, host, shown, waiting, job>>
  BY DEF EditHoneypot, UpdateHoneypotApi
<1>4. RecordTypeOK'
  BY <1>1, <1>2, <1>3 DEF RecordInv, RecordTypeOK
<1>5. ASSUME column \in ResetOnEdit, ~seen'.crossed PROVE TrustedOnly'
  BY <1>1, <1>2, <1>3, <1>5
     DEF RecordInv, TrustedOnly, OfThisAddress, Carries, UnderWay
<1>6. Dialled'
  BY <1>3 DEF RecordInv, Dialled
<1> QED
  BY <1>3, <1>4, <1>5, <1>6 DEF RecordInv

LEMMA TrustKeeps ==
    ASSUME RecordConstants, RecordInv, NEW m \in Machines, TrustHostKey(m) \/ TrustHostKeyApi(m)
    PROVE  RecordInv'
<1>1. row' \in Row /\ row'.pin = m /\ row'.data = row.data
  BY DEF TrustHostKey, TrustHostKeyApi, Trusted, RecordInv, RecordTypeOK, Row, Machine
<1>2. PICK c \in BOOLEAN : c = (seen.crossed \/ UnderWay)
  OBVIOUS
<1>3. seen.changes + 1 \in 0..MaxChanges /\ seen.trustedHere \cup {m} \in SUBSET Machines
  BY DEF RecordInv, RecordTypeOK, CountChange, TrustHostKey, TrustHostKeyApi,
         RecordConstants
<1>4. seen' = [seen EXCEPT !.changes = seen.changes + 1, !.crossed = c,
                           !.trustedHere = seen.trustedHere \cup {m}]
  BY <1>2, Zenon DEF SeeTrust, TrustHostKey, TrustHostKeyApi
<1>5. /\ seen' \in [starts : 0..MaxStarts, changes : 0..MaxChanges, replaced : BOOLEAN,
                     crossed : BOOLEAN, trustedHere : SUBSET Machines]
      /\ seen'.trustedHere = seen.trustedHere \cup {m} /\ seen'.crossed = c
  BY <1>3, <1>4 DEF RecordInv, RecordTypeOK
<1>6. UNCHANGED <<column, host, shown, job>> /\ waiting' = FollowUps(waiting)
  BY DEF TrustHostKey, TrustHostKeyApi
<1>7. RecordTypeOK'
  BY <1>1, <1>5, <1>6 DEF RecordInv, RecordTypeOK, FollowUps, Kinds
<1>8. ASSUME column \in ResetOnEdit, ~seen'.crossed PROVE TrustedOnly'
  BY <1>1, <1>2, <1>5, <1>6, <1>8
     DEF RecordInv, TrustedOnly, OfThisAddress, Carries
<1>9. Dialled'
  BY <1>6 DEF RecordInv, Dialled
<1> QED
  BY <1>6, <1>7, <1>8, <1>9 DEF RecordInv

\* A step that confirms nothing and follows what is pinned.
LEMMA RestKeeps ==
    ASSUME RecordInv, RecordTypeOK', UNCHANGED column,
           seen'.trustedHere = seen.trustedHere, seen'.crossed = seen.crossed,
           row'.pin = row.pin,
           column \in ResetOnEdit /\ ~seen.crossed =>
              /\ OfThisAddress => OfThisAddress'
              /\ \A j \in Jobs : job'[j] = job[j] \/ (TrustedOnly => Carries(j)'),
           \A j \in Jobs : \/ job'[j].pc = "idle"
                           \/ job'[j].copy = job[j].copy /\ job[j].pc # "idle"
                           \/ job'[j].copy.address \in Addresses
    PROVE  RecordInv'
<1>1. Dialled'
  BY DEF RecordInv, Dialled
<1> QED
  BY <1>1 DEF RecordInv, TrustedOnly, Carries

LEMMA BeginKeeps ==
    ASSUME RecordConstants, RecordInv, NEW j \in Jobs, NEW kind \in Kinds, Begin(j, kind)
    PROVE  RecordInv'
<1> DEFINE copy == [address |-> row.address, pin |-> row.pin, changed |-> row.changed]
           begun == [pc |-> "connecting", kind |-> kind, at |-> Nobody, copy |-> copy]
<1>1. copy \in Copy /\ copy.pin = row.pin /\ copy.address \in Addresses
  BY DEF RecordInv, RecordTypeOK, Row, Copy, Machine
<1> HIDE DEF copy
<1>2. /\ begun \in Job /\ begun.copy.pin = row.pin /\ begun.pc = "connecting"
      /\ begun.copy.address \in Addresses
  BY <1>1 DEF Job, Machine
<1> HIDE DEF begun
<1>3. Idle \in Job /\ Idle.pc = "idle"
  BY DEF Idle, Job, NoCopy, Copy, Kinds, Machine
<1>4. job' = [job EXCEPT ![j] = IF row.here /\ row.pin # Nobody THEN begun ELSE Idle]
  BY DEF Begin, begun, copy
<1>5. job' \in [Jobs -> Job]
  BY <1>2, <1>3, <1>4 DEF RecordInv, RecordTypeOK
<1>6. /\ seen' \in [starts : 0..MaxStarts, changes : 0..MaxChanges, replaced : BOOLEAN,
                     crossed : BOOLEAN, trustedHere : SUBSET Machines]
      /\ seen'.trustedHere = seen.trustedHere /\ seen'.crossed = seen.crossed
  BY DEF Begin, RecordInv, RecordTypeOK, RecordConstants
<1>7. RecordTypeOK'
  BY <1>5, <1>6 DEF Begin, RecordInv, RecordTypeOK
<1>8. ASSUME TrustedOnly, NEW k \in Jobs PROVE job'[k] = job[k] \/ Carries(k)'
  BY <1>2, <1>3, <1>4, <1>6, <1>8 DEF TrustedOnly, Carries, RecordInv, RecordTypeOK
<1>9. ASSUME NEW k \in Jobs
      PROVE  \/ job'[k].pc = "idle" \/ (job'[k].copy = job[k].copy /\ job[k].pc # "idle")
             \/ job'[k].copy.address \in Addresses
  BY <1>2, <1>3, <1>4, <1>9 DEF RecordInv, RecordTypeOK, Dialled
<1> QED
  BY <1>6, <1>7, <1>8, <1>9, RestKeeps DEF Begin, OfThisAddress

LEMMA ConnectKeeps ==
    ASSUME RecordInv, NEW j \in Jobs, Connect(j)
    PROVE  RecordInv'
<1>1. /\ job[j] \in Job /\ Answering(j) \in Machine
      /\ Answering(j) = job[j].copy.pin /\ job[j].pc = "connecting"
  BY DEF Connect, Accepts, RecordInv, RecordTypeOK, Job, Copy
<1>2. job' = [job EXCEPT ![j] = [job[j] EXCEPT !.pc = "visiting", !.at = Answering(j)]]
  BY DEF Connect, RecordInv, RecordTypeOK
<1>3. /\ [job[j] EXCEPT !.pc = "visiting", !.at = Answering(j)] \in Job
      /\ [job[j] EXCEPT !.pc = "visiting", !.at = Answering(j)].at = job[j].copy.pin
      /\ [job[j] EXCEPT !.pc = "visiting", !.at = Answering(j)].copy = job[j].copy
  BY <1>1 DEF Job
<1>4. job' \in [Jobs -> Job]
  BY <1>2, <1>3 DEF RecordInv, RecordTypeOK
<1>5. RecordTypeOK'
  BY <1>4 DEF Connect, RecordInv, RecordTypeOK
<1>6. ASSUME TrustedOnly, NEW k \in Jobs PROVE job'[k] = job[k] \/ Carries(k)'
  BY <1>1, <1>2, <1>3, <1>6 DEF TrustedOnly, Carries, RecordInv, RecordTypeOK, Connect
<1>7. ASSUME NEW k \in Jobs
      PROVE  job'[k].pc = "idle" \/ (job'[k].copy = job[k].copy /\ job[k].pc # "idle")
  BY <1>1, <1>2, <1>3, <1>7 DEF RecordInv, RecordTypeOK
<1> QED
  BY <1>5, <1>6, <1>7, RestKeeps DEF Connect, OfThisAddress

LEMMA LeaveTyped ==
    ASSUME RecordInv, NEW j \in Jobs, Leave(j)
    PROVE  /\ job' \in [Jobs -> Job]
           /\ \A k \in Jobs : job'[k] = job[k] \/ job'[k].pc = "idle"
<1>1. Idle \in Job /\ Idle.pc = "idle"
  BY DEF Idle, Job, NoCopy, Copy, Kinds, Machine
<1> QED
  BY <1>1 DEF Leave, RecordInv, RecordTypeOK

\* The rest of a task: it notes another key, stores what it read, or nothing.
Ends(j) ==
    /\ job[j].pc \in {"connecting", "visiting"} /\ Leave(j)
    /\ UNCHANGED <<column, host, shown, waiting, seen>>
    /\ \/ UNCHANGED row
       \/ \E m \in Machine : row' = [row EXCEPT !.changed = m]
       \/ job[j].pc = "visiting" /\ row' = [row EXCEPT !.data = job[j].at]
       \/ \E m, n \in Machine : column = "log" /\ row' = [row EXCEPT !.changed = m, !.data = n]

LEMMA EndsKeeps == ASSUME RecordInv, NEW j \in Jobs, Ends(j) PROVE RecordInv'
<1>1. row \in Row /\ job[j] \in Job
  BY DEF RecordInv, RecordTypeOK
<1>2. /\ row' \in Row /\ row'.pin = row.pin
      /\ \/ row'.data = row.data \/ column = "log"
         \/ job[j].pc = "visiting" /\ row'.data = job[j].at
  BY <1>1 DEF Ends, Row, Job
<1>3. RecordTypeOK'
  BY <1>2, LeaveTyped DEF Ends, RecordInv, RecordTypeOK
<1>4. ASSUME NEW k \in Jobs PROVE job'[k] = job[k] \/ Carries(k)'
  BY LeaveTyped DEF Ends, Carries
<1>5. ASSUME column \in ResetOnEdit, ~seen.crossed PROVE OfThisAddress'
  BY <1>2, <1>5 DEF RecordInv, OfThisAddress, TrustedOnly, Carries, Ends, ResetOnEdit
<1>6. ASSUME NEW k \in Jobs
      PROVE  job'[k].pc = "idle" \/ (job'[k].copy = job[k].copy /\ job[k].pc # "idle")
  BY LeaveTyped DEF Ends
<1> QED
  BY <1>2, <1>3, <1>4, <1>5, <1>6, RestKeeps DEF Ends

LEMMA TasksEnd ==
    ASSUME RecordInv, NEW j \in Jobs,
           \/ ConnectionFails(j) \/ NoteHostKeyChange(j) \/ KeepHardware(j) \/ StorePoll(j)
           \/ \E group \in SUBSET AllColumns : Store(j, group)
           \/ Report(j)
    PROVE  Ends(j)
<1>1. ASSUME ConnectionFails(j) \/ KeepHardware(j) \/ Report(j) PROVE Ends(j)
  BY <1>1 DEF ConnectionFails, KeepHardware, Report, Ends
<1>2. ASSUME NoteHostKeyChange(j) PROVE Ends(j)
  <2>1. Answering(j) \in Machine
    BY <1>2 DEF NoteHostKeyChange, Answering, RecordInv, RecordTypeOK, Dialled, Job, Copy, Machine
  <2> QED
    BY <1>2, <2>1 DEF NoteHostKeyChange, Ends
<1>3. ASSUME StorePoll(j) PROVE Ends(j)
  BY <1>3 DEF StorePoll, Ends, RecordInv, RecordTypeOK, Row, Job, Machine
<1>4. ASSUME NEW group \in SUBSET AllColumns, Store(j, group) PROVE Ends(j)
  BY <1>4 DEF Store, Ends
<1> QED
  BY <1>1, <1>2, <1>3, <1>4

\* Nobody's key and nobody's facts: deletions, questions, what is enqueued and
\* another machine at an address.
LEMMA AroundKeeps ==
    ASSUME RecordConstants, RecordInv,
           \/ DiscoverHostKey \/ DeleteHoneypot \/ Asking \/ Sweeping
           \/ \E a \in Addresses, m \in Machines : Replace(a, m)
    PROVE  RecordInv'
<1>1. CASE DiscoverHostKey
  <2>1. host[row.address] \in Machines
    BY DEF RecordInv, RecordTypeOK, Row
  <2>2. RecordTypeOK'
    BY <1>1, <2>1 DEF DiscoverHostKey, RecordInv, RecordTypeOK
  <2> QED
    BY <1>1, <2>2 DEF DiscoverHostKey, RecordInv, Dialled, TrustedOnly, OfThisAddress, Carries
<1>2. CASE DeleteHoneypot
  <2>1. row' \in Row /\ row'.pin = row.pin /\ row'.data = row.data
    BY <1>2 DEF DeleteHoneypot, RecordInv, RecordTypeOK, Row
  <2>2. RecordTypeOK'
    BY <1>2, <2>1 DEF DeleteHoneypot, RecordInv, RecordTypeOK
  <2> QED
    BY <1>2, <2>1, <2>2 DEF DeleteHoneypot, RecordInv, Dialled, TrustedOnly, OfThisAddress, Carries
<1>3. CASE Asking \/ Sweeping
  <2>1. PICK kind \in Kinds : Ask(kind)
    BY <1>3
       DEF Asking, Sweeping, Kinds, AskFor, Sweep, RefreshFactsEndpoint, RefreshFactsApi,
           RefreshPackagesEndpoint, RefreshPackagesApi, RefreshServicesApi,
           RefreshMonitoringEndpoint, RecheckReadinessEndpoint, RecheckReadinessApi,
           CheckUpdatesEndpoint, SetMacAddressEndpoint, FixReadinessDirectly,
           FixReadinessDirectlyApi, PollNowEndpoint, TestConnectionEndpoint,
           TestConnectionApi, RefreshAllFacts, RefreshAllPackages, RefreshAllServices,
           MonitorAll, CheckAllReadiness, CheckAllUpdates, PollAll
  <2> QED
    BY <2>1
       DEF Ask, RecordInv, RecordTypeOK, Dialled, TrustedOnly, OfThisAddress, Carries
<1>4. ASSUME NEW a \in Addresses, NEW m \in Machines, Replace(a, m) PROVE RecordInv'
  <2>1. /\ seen' \in [starts : 0..MaxStarts, changes : 0..MaxChanges, replaced : BOOLEAN,
                       crossed : BOOLEAN, trustedHere : SUBSET Machines]
        /\ seen'.trustedHere = seen.trustedHere /\ seen'.crossed = seen.crossed
    BY <1>4 DEF Replace, RecordInv, RecordTypeOK
  <2>2. RecordTypeOK'
    BY <1>4, <2>1 DEF Replace, RecordInv, RecordTypeOK
  <2> QED
    BY <1>4, <2>1, <2>2 DEF Replace, RecordInv, Dialled, TrustedOnly, OfThisAddress, Carries
<1> QED
  BY <1>1, <1>2, <1>3, <1>4

\* What was installed is checked again: the task begins anew with the row as
\* it is.
LEMMA FixKeeps ==
    ASSUME RecordConstants, RecordInv, NEW j \in Jobs, FixRootReadiness(j)
    PROVE  RecordInv'
<1> DEFINE copy == [address |-> row.address, pin |-> row.pin, changed |-> row.changed]
           begun == [pc |-> "connecting", kind |-> "refresh", at |-> Nobody, copy |-> copy]
<1>1. copy \in Copy /\ copy.pin = row.pin /\ copy.address \in Addresses
  BY DEF RecordInv, RecordTypeOK, Row, Copy, Machine
<1> HIDE DEF copy
<1>2. /\ begun \in Job /\ begun.copy.pin = row.pin /\ begun.pc = "connecting"
      /\ begun.copy.address \in Addresses
  BY <1>1 DEF Job, Machine, Kinds
<1> HIDE DEF begun
<1>3. Idle \in Job /\ Idle.pc = "idle"
  BY DEF Idle, Job, NoCopy, Copy, Kinds, Machine
<1>4. job' = [job EXCEPT ![j] = IF row.here /\ row.pin # Nobody THEN begun ELSE Idle]
  BY DEF FixRootReadiness, begun, copy
<1>5. job' \in [Jobs -> Job]
  BY <1>2, <1>3, <1>4 DEF RecordInv, RecordTypeOK
<1>6. RecordTypeOK'
  BY <1>5 DEF FixRootReadiness, RecordInv, RecordTypeOK
<1>7. ASSUME TrustedOnly, NEW k \in Jobs PROVE job'[k] = job[k] \/ Carries(k)'
  BY <1>2, <1>3, <1>4, <1>7
     DEF FixRootReadiness, TrustedOnly, Carries, RecordInv, RecordTypeOK
<1>8. ASSUME NEW k \in Jobs
      PROVE  \/ job'[k].pc = "idle" \/ (job'[k].copy = job[k].copy /\ job[k].pc # "idle")
             \/ job'[k].copy.address \in Addresses
  BY <1>2, <1>3, <1>4, <1>8 DEF RecordInv, RecordTypeOK, Dialled
<1> QED
  BY <1>6, <1>7, <1>8, RestKeeps DEF FixRootReadiness, OfThisAddress

LEMMA RecordStep ==
    ASSUME RecordConstants PROVE RecordInv /\ [RecordNext]_recordVars => RecordInv'
<1> SUFFICES ASSUME RecordConstants, RecordInv, [RecordNext]_recordVars
             PROVE  RecordInv'
  OBVIOUS
<1>1. CASE UNCHANGED recordVars
  BY <1>1
     DEF recordVars, RecordInv, RecordTypeOK, Dialled, TrustedOnly, OfThisAddress, Carries
<1>2. CASE Administration
  BY <1>2, EditKeeps, TrustKeeps, AroundKeeps DEF Administration
<1>3. ASSUME NEW j \in Jobs, Task(j) PROVE RecordInv'
  <2>1. \/ \E kind \in Kinds : Begin(j, kind)
        \/ Connect(j) \/ FixRootReadiness(j) \/ Ends(j)
    BY <1>3, TasksEnd
       DEF Task, StoreFacts, StorePackages, StoreServices, StoreSample, StoreReadiness,
           StoreUpdates, StoreMacAddress, TestConnection, RunRemoteCommand, ReadJournal,
           ReadLogFile, ListLogDirectory, CheckReadonlyStatus, FetchChangelog,
           PreviewUpdate, RunPowerAction, AllColumns
  <2> QED
    BY <2>1, BeginKeeps, ConnectKeeps, FixKeeps, EndsKeeps
<1> QED
  BY <1>1, <1>2, <1>3, AroundKeeps DEF RecordNext

\* The row, the keys shown and the tasks are of their types.
THEOREM RecordTyped == ASSUME RecordConstants PROVE RecordSpec => []RecordTypeOK
<1>1. RecordInv => RecordTypeOK
  BY DEF RecordInv
<1> QED
  BY <1>1, RecordStarts, RecordStep, PTL DEF RecordSpec

\* The facts shown are those of a machine whose key was confirmed since the
\* honeypot got its address, unless a task was under way when it was edited,
\* for any honeypots' addresses, machines and tasks (edit_honeypot,
\* trust_host_key, store_facts).
THEOREM FactsOfThisAddressAlways ==
    ASSUME RecordConstants PROVE RecordSpec => []FactsOfThisAddress
<1>1. RecordInv => FactsOfThisAddress
  BY DEF RecordInv, FactsOfThisAddress, TrustedOnly
<1> QED
  BY <1>1, RecordStarts, RecordStep, PTL DEF RecordSpec

-----------------------------------------------------------------------------
\* Vpn: the tunnel that is up is the one the settings name.

\* What the interface runs belongs to the settings: its provider is the active
\* one, and it is the stored configuration unless an old one once stayed.
OnRecord == provider = "wireguard" /\ (odd = {} => wg = saved)

Named ==
    /\ netbird.up => provider = "netbird"
    /\ wg # NoConfig => OnRecord

\* The interface runs, or ran, the configuration the handler brought.
Brought(w) ==
    web[w].op = "wg_connect" /\ (server[w] = "ok" \/ web[w].step \in {"deactivate", "save"})

\* How far a handler has come, and what is up then.
Progress(w) ==
    /\ web[w].op \notin {"nb_restart", "wg_restart"}
    /\ web[w].step # "call_again"
    /\ web[w].step = "deactivate" => web[w].op \in {"nb_connect", "wg_connect"}
    /\ web[w].op = "wg_connect" => web[w].config \in Configs
    /\ web[w].op = "startup_wg" => web[w].config = saved /\ provider = "wireguard"
    /\ web[w].op = "startup_nb" => provider = "netbird"
    /\ server[w] # "none" <=> IsWg(web[w].op) /\ web[w].step = "call"
    /\ server[w] \in {"down", "write", "up"} => web[w].op # "wg_disconnect"
    /\ server[w] = "only_down" => web[w].op = "wg_disconnect"

InHand(w) ==
    /\ web[w].copy = provider
    /\ Progress(w)
    /\ netbird.up => \/ provider = "netbird"
                     \/ web[w].op = "nb_connect" /\ web[w].step \in {"deactivate", "save"}
    /\ web[w].step = "save" /\ web[w].op \in {"wg_connect", "nb_disconnect"} => ~netbird.up
    /\ wg # NoConfig =>
          IF Brought(w) THEN wg = web[w].config ELSE OnRecord
    /\ \/ server[w] \in {"write", "up"} /\ odd = {}
       \/ server[w] = "failed" /\ web[w].op = "wg_connect" /\ odd = {}
       \/ web[w].op = "nb_connect" /\ web[w].step = "save"
       \/ web[w].op = "wg_disconnect" /\ server[w] \notin {"only_down", "failed"}
       => wg = NoConfig
    /\ server[w] = "up" => wgFile = web[w].config

\* At most one handler is in progress.
InOrder ==
    \/ VpnBusy = {} /\ Named
    \/ \E w \in Webs : VpnBusy = {w} /\ web[w] # NoHandler /\ InHand(w)

VpnInv == VpnTypeOK /\ (odd \subseteq {"stays"} => InOrder /\ lateCommand = "none")

LEMMA VpnTypeStep ==
    ASSUME VpnConstants, VpnTypeOK, VpnNext
    PROVE  VpnTypeOK'
<1> USE DEF VpnConstants
<1>1. ASSUME NEW w \in Webs, NEW op \in Ops, NEW config \in Configs \cup {NoConfig},
             Starts(w, op, config)
      PROVE  VpnTypeOK'
  <2> DEFINE h == [op |-> op, config |-> config, copy |-> provider, step |-> "call"]
  <2>1. h \in HandlerRow
    BY DEF HandlerRow, VpnTypeOK
  <2>2. web' = [web EXCEPT ![w] = h]
    BY <1>1 DEF Starts
  <2> HIDE DEF h
  <2>3. web' \in [Webs -> HandlerRow \cup {NoHandler}]
    BY <2>1, <2>2 DEF VpnTypeOK
  <2>4. server' \in [Webs -> SidecarSession]
    BY <1>1 DEF Starts, FirstCall, VpnTypeOK, SidecarSession
  <2>5. vpnArrivals' \in 0..MaxArrivals /\ odd' \subseteq Oddities
    BY <1>1 DEF Starts, VpnTypeOK, Oddities
  <2> QED
    BY <1>1, <2>3, <2>4, <2>5 DEF Starts, VpnTypeOK, settings, sidecar
<1>2. ASSUME NEW w \in Webs, NetbirdUp(w) \/ NetbirdDown(w) PROVE VpnTypeOK'
  <2>1. web' \in [Webs -> HandlerRow \cup {NoHandler}]
    BY <1>2 DEF NetbirdUp, NetbirdDown, Handles, AfterConnecting, VpnTypeOK, HandlerRow
  <2>2. netbird' = [up |-> TRUE, registered |-> TRUE] \/ netbird' = [netbird EXCEPT !.up = FALSE]
    BY <1>2 DEF NetbirdUp, NetbirdDown
  <2>3. netbird' \in [up : BOOLEAN, registered : BOOLEAN]
    <3>1. [up |-> TRUE, registered |-> TRUE] \in [up : BOOLEAN, registered : BOOLEAN]
      OBVIOUS
    <3>2. [netbird EXCEPT !.up = FALSE] \in [up : BOOLEAN, registered : BOOLEAN]
      BY DEF VpnTypeOK
    <3> QED
      BY <2>2, <3>1, <3>2, Zenon
  <2> QED
    BY <1>2, <2>1, <2>3 DEF NetbirdUp, NetbirdDown, VpnTypeOK, settings
<1>3. ASSUME NEW w \in Webs, web[w] # NoHandler, CommitsPosted(w)
      PROVE  setupKey' \in BOOLEAN /\ saved' \in Configs \cup {NoConfig}
  <2>1. web[w] \in HandlerRow
    BY <1>3 DEF VpnTypeOK
  <2> QED
    BY <1>3, <2>1 DEF CommitsPosted, VpnTypeOK, HandlerRow
<1>4. ASSUME NEW w \in Webs, NetbirdFails(w) \/ NetbirdTimesOut(w) PROVE VpnTypeOK'
  <2>0. NetbirdGivesUp(w)
    BY <1>4 DEF NetbirdFails, NetbirdTimesOut
  <2>1. netbird' \in [up : BOOLEAN, registered : BOOLEAN]
    BY <2>0 DEF NetbirdGivesUp, VpnTypeOK
  <2>2. web' \in [Webs -> HandlerRow \cup {NoHandler}]
    BY <2>0 DEF NetbirdGivesUp, GivesUp, VpnTypeOK
  <2>3. lateCommand' \in {"none", "up", "down"} /\ odd' \subseteq Oddities
    BY <1>4 DEF NetbirdFails, NetbirdTimesOut, VpnTypeOK, Oddities
  <2> QED
    BY <1>3, <2>0, <2>1, <2>2, <2>3 DEF NetbirdGivesUp, GivesUp, VpnTypeOK
<1>5. ASSUME NEW w \in Webs, Dropped(w) \/ \E ok \in BOOLEAN : ServerDowns(w, ok)
      PROVE  VpnTypeOK'
  <2>1. server' \in [Webs -> SidecarSession]
    BY <1>5 DEF ServerDowns, Dropped, VpnTypeOK, SidecarSession
  <2>2. odd' \subseteq Oddities
    BY <1>5 DEF ServerDowns, Dropped, VpnTypeOK, Oddities
  <2> QED
    BY <1>5, <2>1, <2>2 DEF ServerDowns, Dropped, VpnTypeOK, settings, sidecar
<1>6. ASSUME NEW w \in Webs, NEW config \in Configs, ServerWrites(w, config) PROVE VpnTypeOK'
  <2>1. server' \in [Webs -> SidecarSession]
    BY <1>6 DEF ServerWrites, VpnTypeOK, SidecarSession
  <2> QED
    BY <1>6, <2>1 DEF ServerWrites, VpnTypeOK, settings
<1>7. ASSUME NEW w \in Webs, NEW ok \in BOOLEAN, ServerUps(w, ok) PROVE VpnTypeOK'
  <2>1. server' \in [Webs -> SidecarSession]
    BY <1>7 DEF ServerUps, VpnTypeOK, SidecarSession
  <2> QED
    BY <1>7, <2>1 DEF ServerUps, VpnTypeOK, settings
<1>8. ASSUME NEW w \in Webs, Answers(w) PROVE VpnTypeOK'
  <2>1. server' \in [Webs -> SidecarSession]
    BY <1>8 DEF Answers, VpnTypeOK, SidecarSession
  <2>2. web' \in [Webs -> HandlerRow \cup {NoHandler}]
    BY <1>8 DEF Answers, GivesUp, AfterConnecting, VpnTypeOK, HandlerRow
  <2>3. /\ setupKey' \in BOOLEAN /\ saved' \in Configs \cup {NoConfig}
        /\ provider' \in Providers
    BY <1>3, <1>8 DEF Answers, GivesUp, VpnTypeOK, settings
  <2> QED
    BY <1>8, <2>1, <2>2, <2>3 DEF Answers, VpnTypeOK, sidecar
<1>9. ASSUME NEW w \in Webs, TimesOut(w) PROVE VpnTypeOK'
  <2>1. web' \in [Webs -> HandlerRow \cup {NoHandler}]
    BY <1>9 DEF TimesOut, GivesUp, VpnTypeOK, HandlerRow
  <2>2. server' \in [Webs -> SidecarSession] /\ odd' \subseteq Oddities
    BY <1>9 DEF TimesOut, VpnTypeOK, SidecarSession, Oddities
  <2>3. /\ setupKey' \in BOOLEAN /\ saved' \in Configs \cup {NoConfig}
        /\ provider' \in Providers
    BY <1>3, <1>9 DEF TimesOut, GivesUp, VpnTypeOK, settings
  <2> QED
    BY <1>9, <2>1, <2>2, <2>3 DEF TimesOut, VpnTypeOK, sidecar
<1>10. ASSUME NEW w \in Webs, NEW reached \in BOOLEAN, Deactivates(w, reached)
       PROVE  VpnTypeOK'
  <2>1. web' \in [Webs -> HandlerRow \cup {NoHandler}]
    BY <1>10 DEF Deactivates, VpnTypeOK, HandlerRow
  <2>2. netbird' \in [up : BOOLEAN, registered : BOOLEAN]
    BY <1>10 DEF Deactivates, VpnTypeOK
  <2>3. /\ server' \in [Webs -> SidecarSession] /\ odd' \subseteq Oddities
        /\ lateCommand' \in {"none", "up", "down"} /\ wg' \in Configs \cup {NoConfig}
    BY <1>10 DEF Deactivates, VpnTypeOK, SidecarSession, Oddities
  <2> QED
    BY <1>10, <2>1, <2>2, <2>3 DEF Deactivates, VpnTypeOK, settings
<1>11. ASSUME NEW w \in Webs, SavesProvider(w) PROVE VpnTypeOK'
  <2>1. web' \in [Webs -> HandlerRow \cup {NoHandler}]
    BY <1>11 DEF SavesProvider, VpnTypeOK
  <2>2. provider' \in Providers
    BY <1>11 DEF SavesProvider, Stored, VpnTypeOK, Providers
  <2> QED
    BY <1>3, <1>11, <2>1, <2>2 DEF SavesProvider, VpnTypeOK, sidecar
<1>12. CASE SidecarRestarts
  BY <1>12 DEF SidecarRestarts, VpnTypeOK, settings
<1>13. CASE DaemonCatchesUp
  <2>1. netbird' \in [up : BOOLEAN, registered : BOOLEAN]
    BY <1>13 DEF DaemonCatchesUp, VpnTypeOK
  <2> QED
    BY <1>13, <2>1 DEF DaemonCatchesUp, VpnTypeOK, settings
<1> QED
  BY <1>1, <1>2, <1>4, <1>5, <1>6, <1>7, <1>8, <1>9, <1>10, <1>11, <1>12, <1>13
     DEF VpnNext, ConnectNetbird, ConnectWireguard, DisconnectNetbird, DisconnectWireguard,
         RestartNetbird, RestartWireguard, Startup, Ops, VpnTypeOK

\* Whoever does something then is the one in progress.
LEMMA TheOne ==
    ASSUME InOrder, NEW w \in Webs, web[w] # NoHandler \/ server[w] # "none"
    PROVE  VpnBusy = {w} /\ web[w] # NoHandler /\ InHand(w)
BY DEF InOrder, VpnBusy

\* It goes on, or it has gone.
LEMMA TheOneMoves ==
    ASSUME NEW w \in Webs, VpnTypeOK, VpnBusy = {w},
           \A o \in Webs \ {w} : web'[o] = web[o] /\ server'[o] = server[o],
           \/ web'[w] # NoHandler /\ InHand(w)'
           \/ web'[w] = NoHandler /\ server'[w] = "none" /\ Named'
    PROVE  InOrder'
<1>1. \A o \in Webs \ {w} : web[o] = NoHandler /\ server[o] = "none"
  BY DEF VpnBusy
<1>2. CASE web'[w] # NoHandler /\ InHand(w)'
  <2>1. VpnBusy' = {w}
    BY <1>1, <1>2 DEF VpnBusy
  <2> QED
    BY <1>2, <2>1 DEF InOrder
<1>3. CASE web'[w] = NoHandler /\ server'[w] = "none" /\ Named'
  <2>1. VpnBusy' = {}
    BY <1>1, <1>3 DEF VpnBusy
  <2> QED
    BY <1>3, <2>1 DEF InOrder
<1> QED
  BY <1>2, <1>3

LEMMA StartsInOrder ==
    ASSUME VpnConstants, VpnTypeOK, InOrder, NEW w \in Webs, NEW op \in Ops,
           NEW config \in Configs \cup {NoConfig}, Starts(w, op, config), odd \subseteq {"stays"}, odd' \subseteq {"stays"},
           op = "wg_connect" => config \in Configs,
           op = "startup_wg" => config = saved /\ provider = "wireguard",
           op = "startup_nb" => provider = "netbird"
    PROVE  InOrder'
<1> DEFINE h == [op |-> op, config |-> config, copy |-> provider, step |-> "call"]
<1>1. VpnBusy = {} /\ op \notin {"nb_restart", "wg_restart"}
  BY DEF Starts
<1>2. Named
  BY <1>1 DEF InOrder
<1>3. web'[w] = h /\ server'[w] = FirstCall(op) /\ web'[w] # NoHandler
  <2>1. web'[w] = h /\ server'[w] = FirstCall(op)
    BY DEF Starts, VpnTypeOK
  <2>2. h \in HandlerRow
    BY DEF HandlerRow, VpnTypeOK
  <2> QED
    BY <2>1, <2>2 DEF VpnConstants
<1>4. VpnBusy' = {w}
  BY <1>1, <1>3 DEF VpnBusy, Starts, VpnTypeOK
<1>5. /\ web'[w].op = op /\ web'[w].config = config /\ web'[w].copy = provider
      /\ web'[w].step = "call"
  BY <1>3
<1>6. UNCHANGED <<provider, saved, netbird, wg>> /\ odd \subseteq odd'
  BY DEF Starts, settings, sidecar
<1>7. /\ server'[w] # "none" <=> IsWg(op)
      /\ server'[w] \in {"none", "down", "only_down"}
      /\ server'[w] = "down" => op # "wg_disconnect"
      /\ server'[w] = "only_down" => op \in {"wg_disconnect", "wg_restart"}
      /\ op = "wg_disconnect" => server'[w] = "only_down"
  BY <1>3 DEF FirstCall, IsWg, Ops
<1> HIDE DEF h
<1>8. Progress(w)'
  BY <1>1, <1>5, <1>6, <1>7 DEF Progress, IsWg
<1>9. InHand(w)'
  BY <1>2, <1>5, <1>6, <1>7, <1>8 DEF InHand, Named, Brought, OnRecord
<1> QED
  BY <1>3, <1>4, <1>9 DEF InOrder

LEMMA VpnInOrder ==
    ASSUME VpnConstants, VpnTypeOK, InOrder, VpnNext, odd \subseteq {"stays"},
           odd' \subseteq {"stays"}, odd \subseteq odd',
           lateCommand = "none"
    PROVE  InOrder'
<1> USE DEF VpnConstants, OnRecord
<1>0. \A w \in Webs : web[w] # NoHandler => web[w] \in HandlerRow
  BY DEF VpnTypeOK
<1>1. ASSUME NEW w \in Webs, NetbirdUp(w) PROVE InOrder'
  <2>1. VpnBusy = {w} /\ web[w] # NoHandler /\ InHand(w)
    BY <1>1, TheOne DEF NetbirdUp
  <2>2. /\ web'[w] = [web[w] EXCEPT !.step = AfterConnecting(web[w].op)]
        /\ \A o \in Webs \ {w} : web'[o] = web[o] /\ server'[o] = server[o]
        /\ server'[w] = server[w]
    BY <1>1 DEF NetbirdUp, VpnTypeOK
  <2>3. /\ web'[w].op = web[w].op /\ web'[w].config = web[w].config
        /\ web'[w].copy = web[w].copy /\ web'[w].step = AfterConnecting(web[w].op)
        /\ web'[w] \in HandlerRow
    BY <1>0, <2>1, <2>2 DEF HandlerRow, AfterConnecting
  <2>4. InHand(w)'
    BY <1>1, <2>1, <2>2, <2>3
       DEF NetbirdUp, InHand, Progress, Brought, IsWg, AfterConnecting, settings
  <2> QED
    BY <2>1, <2>2, <2>3, <2>4, TheOneMoves
<1>2. ASSUME NEW w \in Webs, NetbirdDown(w) PROVE InOrder'
  <2>1. VpnBusy = {w} /\ web[w] # NoHandler /\ InHand(w)
    BY <1>2, TheOne DEF NetbirdDown, Handles
  <2>2. /\ web'[w] = [web[w] EXCEPT !.step = "save"]
        /\ \A o \in Webs \ {w} : web'[o] = web[o] /\ server'[o] = server[o]
        /\ server'[w] = server[w]
    BY <1>2 DEF NetbirdDown, VpnTypeOK
  <2>3. /\ web'[w].op = web[w].op /\ web'[w].config = web[w].config
        /\ web'[w].copy = web[w].copy /\ web'[w].step = "save"
        /\ web'[w] \in HandlerRow
    BY <1>0, <2>1, <2>2 DEF HandlerRow
  <2>4. ~netbird'.up
    BY <1>2 DEF NetbirdDown, VpnTypeOK
  <2>5. InHand(w)'
    BY <1>2, <2>1, <2>2, <2>3, <2>4
       DEF NetbirdDown, Handles, InHand, Progress, Brought, IsWg, settings
  <2> QED
    BY <2>1, <2>2, <2>3, <2>5, TheOneMoves
<1>3. ASSUME NEW w \in Webs, NetbirdFails(w) PROVE InOrder'
  <2>1. VpnBusy = {w} /\ web[w] # NoHandler /\ InHand(w)
    BY <1>3, TheOne DEF NetbirdFails, NetbirdGivesUp
  <2>2. /\ web'[w] = NoHandler /\ server'[w] = "none"
        /\ \A o \in Webs \ {w} : web'[o] = web[o] /\ server'[o] = server[o]
    BY <1>3, <2>1 DEF NetbirdFails, NetbirdGivesUp, GivesUp, VpnTypeOK, InHand, Progress
  <2>3. UNCHANGED <<provider, netbird, wg, saved>>
    BY <1>3, <2>1 DEF NetbirdFails, NetbirdGivesUp, GivesUp, CommitsPosted, IsWg, InHand, Progress
  <2>4. Named'
    BY <1>3, <2>1, <2>2, <2>3
       DEF NetbirdFails, NetbirdGivesUp, InHand, Progress, Brought, Named, IsWg
  <2> QED
    BY <2>1, <2>2, <2>4, TheOneMoves
<1>4. ASSUME NEW w \in Webs, NEW ok \in BOOLEAN, ServerDowns(w, ok) PROVE InOrder'
  <2>1. VpnBusy = {w} /\ web[w] # NoHandler /\ InHand(w)
    BY <1>4, TheOne DEF ServerDowns
  <2>2. /\ web'[w] = web[w]
        /\ server'[w] = IF server[w] = "down" THEN "write" ELSE IF ok THEN "ok" ELSE "failed"
        /\ \A o \in Webs \ {w} : web'[o] = web[o] /\ server'[o] = server[o]
    BY <1>4 DEF ServerDowns, VpnTypeOK
  <2>3. /\ wg' = NoConfig \/ (wg' = wg /\ odd' # {})
        /\ ok => wg' = NoConfig
    <3>1. wg' # NoConfig => wg' = wg /\ odd' = odd \cup {"stays"}
      BY <1>4 DEF ServerDowns
    <3>2. wg' # NoConfig => odd' # {}
      BY <3>1
    <3>3. ok => wg' = NoConfig
      BY <1>4 DEF ServerDowns
    <3> QED
      BY <3>1, <3>2, <3>3, Zenon
  <2>4. UNCHANGED <<provider, saved, netbird>>
    BY <1>4 DEF ServerDowns, settings
  <2>6. server[w] \in {"down", "only_down"} /\ ~Brought(w)
    BY <1>4, <2>1 DEF ServerDowns, Brought, InHand, Progress
  <2>5. InHand(w)'
    BY <2>1, <2>2, <2>3, <2>4, <2>6 DEF InHand, Progress, Brought, IsWg
  <2> QED
    BY <2>1, <2>2, <2>5, TheOneMoves
<1>5. ASSUME NEW w \in Webs, NEW config \in Configs, ServerWrites(w, config) PROVE InOrder'
  <2>1. VpnBusy = {w} /\ web[w] # NoHandler /\ InHand(w)
    BY <1>5, TheOne DEF ServerWrites
  <2>2. /\ web'[w] = web[w] /\ server'[w] = "up"
        /\ \A o \in Webs \ {w} : web'[o] = web[o] /\ server'[o] = server[o]
    BY <1>5 DEF ServerWrites, VpnTypeOK
  <2>3. InHand(w)'
    BY <1>5, <2>1, <2>2 DEF ServerWrites, InHand, Progress, Brought, IsWg, settings
  <2> QED
    BY <2>1, <2>2, <2>3, TheOneMoves
<1>6. ASSUME NEW w \in Webs, NEW ok \in BOOLEAN, ServerUps(w, ok) PROVE InOrder'
  <2>1. VpnBusy = {w} /\ web[w] # NoHandler /\ InHand(w)
    BY <1>6, TheOne DEF ServerUps
  <2>2. /\ web'[w] = web[w] /\ server'[w] = IF ok THEN "ok" ELSE "failed"
        /\ \A o \in Webs \ {w} : web'[o] = web[o] /\ server'[o] = server[o]
    BY <1>6 DEF ServerUps, VpnTypeOK
  <2>3. web[w].op = "wg_connect" \/ web[w].op = "startup_wg"
    BY <1>6, <2>1 DEF ServerUps, InHand, Progress, IsWg
  <2>4. InHand(w)'
    BY <1>6, <2>1, <2>2, <2>3 DEF ServerUps, InHand, Progress, Brought, IsWg, settings
  <2> QED
    BY <2>1, <2>2, <2>4, TheOneMoves
<1>7. ASSUME NEW w \in Webs, Dropped(w) PROVE InOrder'
  BY <1>7, TheOne DEF Dropped
<1>8. ASSUME NEW w \in Webs, Answers(w) PROVE InOrder'
  <2>1. VpnBusy = {w} /\ web[w] # NoHandler /\ InHand(w)
    BY <1>8, TheOne DEF Answers
  <2>2. CASE server[w] = "ok"
    <3>1. /\ web'[w] = [web[w] EXCEPT !.step = AfterConnecting(web[w].op)]
          /\ server'[w] = "none"
          /\ \A o \in Webs \ {w} : web'[o] = web[o] /\ server'[o] = server[o]
          /\ UNCHANGED <<settings, sidecar>>
      BY <1>8, <2>1, <2>2 DEF Answers, VpnTypeOK, InHand, Progress
    <3>2. /\ web'[w].op = web[w].op /\ web'[w].config = web[w].config
          /\ web'[w].copy = web[w].copy /\ web'[w].step = AfterConnecting(web[w].op)
          /\ web'[w] \in HandlerRow
      BY <1>0, <2>1, <3>1 DEF HandlerRow, AfterConnecting
    <3>3. InHand(w)'
      BY <1>8, <2>1, <2>2, <3>1, <3>2
         DEF Answers, InHand, Progress, Brought, IsWg, AfterConnecting, settings, sidecar
    <3> QED
      BY <2>1, <3>1, <3>2, <3>3, TheOneMoves
  <2>3. CASE server[w] = "failed"
    <3>1. /\ web'[w] = NoHandler /\ server'[w] = "none"
          /\ \A o \in Webs \ {w} : web'[o] = web[o] /\ server'[o] = server[o]
          /\ UNCHANGED <<provider, sidecar>>
      BY <1>8, <2>1, <2>3 DEF Answers, GivesUp, VpnTypeOK, InHand, Progress
    <3>2. /\ UNCHANGED <<wg, netbird, odd>>
          /\ web[w].op # "wg_connect" => saved' = saved
      BY <1>8, <2>1, <2>3 DEF Answers, GivesUp, CommitsPosted, InHand, Progress, sidecar
    <3>3. ~Brought(w) /\ web[w].step = "call" /\ web[w].op # "nb_connect"
      BY <2>1, <2>3 DEF Brought, InHand, Progress, IsWg
    <3>4. Named'
      BY <2>1, <2>3, <3>1, <3>2, <3>3 DEF InHand, Named
    <3> QED
      BY <2>1, <3>1, <3>4, TheOneMoves
  <2> QED
    BY <1>8, <2>2, <2>3 DEF Answers
<1>9. ASSUME NEW w \in Webs, TimesOut(w) \/ NetbirdTimesOut(w) PROVE FALSE
  BY <1>9 DEF TimesOut, NetbirdTimesOut
<1>10. ASSUME NEW w \in Webs, NEW reached \in BOOLEAN, Deactivates(w, reached)
       PROVE  InOrder'
  <2>1. VpnBusy = {w} /\ web[w] # NoHandler /\ InHand(w)
    BY <1>10, TheOne DEF Deactivates
  <2>2. /\ web'[w] = [web[w] EXCEPT !.step = "save"] /\ server'[w] = server[w]
        /\ \A o \in Webs \ {w} : web'[o] = web[o] /\ server'[o] = server[o]
    BY <1>10 DEF Deactivates, VpnTypeOK
  <2>3. /\ web'[w].op = web[w].op /\ web'[w].config = web[w].config
        /\ web'[w].copy = web[w].copy /\ web'[w].step = "save"
        /\ web'[w] \in HandlerRow
    BY <1>0, <2>1, <2>2 DEF HandlerRow
  <2>4. /\ reached /\ odd' = odd
        /\ netbird' = IF Other(w) = "netbird" THEN [netbird EXCEPT !.up = FALSE] ELSE netbird
        /\ wg' = IF Other(w) = "wireguard" THEN NoConfig ELSE wg
        /\ UNCHANGED settings
    BY <1>10 DEF Deactivates
  <2>5. CASE web[w].op = "nb_connect"
    <3>1. netbird' = netbird /\ wg' = NoConfig
      BY <1>10, <2>1, <2>4, <2>5 DEF Other, InHand, Brought
    <3> QED
      BY <1>10, <2>1, <2>2, <2>3, <2>4, <2>5, <3>1, TheOneMoves
         DEF Deactivates, InHand, Progress, Brought, IsWg, settings
  <2>6. CASE web[w].op = "wg_connect"
    <3>1. ~netbird'.up /\ wg' = wg
      BY <2>1, <2>4, <2>6 DEF Other, InHand, VpnTypeOK
    <3>2. InHand(w)'
      BY <1>10, <2>1, <2>2, <2>3, <2>4, <2>6, <3>1
         DEF Deactivates, InHand, Progress, Brought, IsWg, settings
    <3> QED
      BY <2>1, <2>2, <2>3, <3>2, TheOneMoves
  <2> QED
    BY <1>10, <2>1, <2>5, <2>6 DEF Deactivates, InHand, Progress
<1>11. ASSUME NEW w \in Webs, SavesProvider(w) PROVE InOrder'
  <2>1. VpnBusy = {w} /\ web[w] # NoHandler /\ InHand(w)
    BY <1>11, TheOne DEF SavesProvider
  <2>2. /\ web'[w] = NoHandler /\ server'[w] = server[w] /\ server[w] = "none"
        /\ \A o \in Webs \ {w} : web'[o] = web[o] /\ server'[o] = server[o]
        /\ UNCHANGED sidecar
    BY <1>11, <2>1 DEF SavesProvider, VpnTypeOK, InHand, Progress
  <2>3. saved' = IF web[w].op = "wg_connect" THEN web[w].config ELSE saved
    BY <1>11 DEF SavesProvider, CommitsPosted
  <2>4. web[w].op \in Ops /\ provider \in Providers
    BY <1>0, <2>1 DEF HandlerRow, VpnTypeOK
  <2>5. provider' = CASE web[w].op = "nb_connect" -> "netbird"
                      [] web[w].op = "wg_connect" -> "wireguard"
                      [] web[w].op = "nb_disconnect" /\ provider = "netbird" -> "none"
                      [] web[w].op = "wg_disconnect" /\ provider = "wireguard" -> "none"
                      [] OTHER -> provider
    BY <1>11, <2>1, <2>4 DEF SavesProvider, Stored, InHand, Progress, Ops
  <2>6. Named'
    BY <1>11, <2>1, <2>2, <2>3, <2>4, <2>5
       DEF SavesProvider, InHand, Progress, Brought, Named, sidecar, Ops
  <2> QED
    BY <2>1, <2>2, <2>6, TheOneMoves
<1>12. CASE SidecarRestarts
  <2>1. ~netbird'.up /\ wg' = NoConfig /\ UNCHANGED <<provider, saved, web, server, wgFile>>
    BY <1>12 DEF SidecarRestarts, VpnTypeOK, settings
  <2>2. VpnBusy' = VpnBusy
    BY <2>1 DEF VpnBusy
  <2>3. Named'
    BY <2>1 DEF Named
  <2>4. ASSUME NEW w \in Webs, InHand(w) PROVE InHand(w)'
    BY <2>1, <2>4 DEF InHand, Progress, Brought
  <2> QED
    BY <2>1, <2>2, <2>3, <2>4 DEF InOrder
<1>13. ASSUME NEW w \in Webs,
              \/ ConnectNetbird(w) \/ DisconnectNetbird(w) \/ RestartNetbird(w)
              \/ DisconnectWireguard(w) \/ RestartWireguard(w) \/ Startup(w)
              \/ \E config \in Configs : ConnectWireguard(w, config)
       PROVE  InOrder'
  BY <1>13, StartsInOrder
     DEF ConnectNetbird, ConnectWireguard, DisconnectNetbird, DisconnectWireguard,
         RestartNetbird, RestartWireguard, Startup, Ops, VpnTypeOK
<1>14. CASE DaemonCatchesUp
  BY <1>14 DEF DaemonCatchesUp
<1> QED
  BY <1>1, <1>2, <1>3, <1>4, <1>5, <1>6, <1>7, <1>8, <1>9, <1>10, <1>11, <1>12, <1>13, <1>14
     DEF VpnNext

\* Nor is a NetBird command left behind.
LEMMA NoneIsLate ==
    ASSUME VpnTypeOK, InOrder, VpnNext, odd' \subseteq {"stays"}, lateCommand = "none"
    PROVE  lateCommand' = "none"
<1>1. ASSUME NEW w \in Webs, NetbirdUp(w) PROVE lateCommand' = "none"
  <2>1. web[w].op # "nb_restart"
    BY <1>1, TheOne DEF NetbirdUp, InHand, Progress
  <2> QED
    BY <1>1, <2>1 DEF NetbirdUp
<1>2. ASSUME NEW w \in Webs, NEW reached \in BOOLEAN, Deactivates(w, reached)
      PROVE  lateCommand' = "none"
  BY <1>2 DEF Deactivates
<1> QED
  BY <1>1, <1>2
     DEF VpnNext, ConnectNetbird, ConnectWireguard, DisconnectNetbird, DisconnectWireguard,
         RestartNetbird, RestartWireguard, Startup, Starts, NetbirdFails, NetbirdTimesOut,
         NetbirdDown, ServerDowns, ServerWrites, ServerUps, Dropped, Answers, TimesOut,
         SavesProvider, SidecarRestarts, DaemonCatchesUp, sidecar

LEMMA OddStays ==
    ASSUME VpnNext PROVE odd \subseteq odd'
BY DEF VpnNext, ConnectNetbird, ConnectWireguard, DisconnectNetbird, DisconnectWireguard,
       RestartNetbird, RestartWireguard, Startup, Starts, NetbirdUp, NetbirdFails,
       NetbirdTimesOut, DaemonCatchesUp, NetbirdDown, ServerDowns, ServerWrites, ServerUps, Dropped, Answers, TimesOut,
       Deactivates, SavesProvider, SidecarRestarts

LEMMA VpnStarts == ASSUME VpnConstants PROVE VpnInit => VpnInv
<1> SUFFICES ASSUME VpnConstants, VpnInit PROVE VpnInv
  OBVIOUS
<1>1. VpnTypeOK
  <2>1. netbird \in [up : BOOLEAN, registered : BOOLEAN]
    BY DEF VpnInit
  <2>2. server \in [Webs -> SidecarSession] /\ web \in [Webs -> HandlerRow \cup {NoHandler}]
    BY DEF VpnInit, SidecarSession
  <2>3. setupKey \in BOOLEAN
    BY Zenon DEF VpnInit
  <2>4. vpnArrivals \in 0..MaxArrivals
    BY DEF VpnConstants, VpnInit
  <2> QED
    BY <2>1, <2>2, <2>3, <2>4 DEF VpnInit, VpnTypeOK, Providers
<1>2. VpnBusy = {} /\ Named /\ lateCommand = "none"
  BY DEF VpnInit, VpnBusy, Named
<1> QED
  BY <1>1, <1>2 DEF VpnInv, InOrder

LEMMA VpnStep == ASSUME VpnConstants PROVE VpnInv /\ [VpnNext]_vpnVars => VpnInv'
<1> SUFFICES ASSUME VpnConstants, VpnInv, [VpnNext]_vpnVars PROVE VpnInv'
  OBVIOUS
<1>1. CASE VpnNext
  BY <1>1, VpnTypeStep, VpnInOrder, NoneIsLate, OddStays DEF VpnInv
<1>2. CASE UNCHANGED vpnVars
  BY <1>2
     DEF vpnVars, VpnInv, VpnTypeOK, InOrder, VpnBusy, Named, OnRecord, InHand, Progress, Brought
<1> QED
  BY <1>1, <1>2

\* The settings, the tunnels, the handlers and their sessions are of their types.
THEOREM VpnTyped == ASSUME VpnConstants PROVE VpnSpec => []VpnTypeOK
<1>1. VpnInv => VpnTypeOK
  BY DEF VpnInv
<1> QED
  BY <1>1, VpnStarts, VpnStep, PTL DEF VpnSpec

\* After requests made one after the other whose calls all answer, the tunnel
\* that is up is the one the settings name; and it runs the stored configuration
\* as long as no wg-quick down has left an old interface there (Settings -> VPN
\* in routes/settings.py, vpn_control_server.py).
THEOREM TunnelIsTheOneNamedAlways ==
    ASSUME VpnConstants PROVE VpnSpec => []TunnelIsTheOneNamed
<1>1. VpnInv => TunnelIsTheOneNamed
  BY DEF VpnInv, InOrder, TunnelIsTheOneNamed, NamesTheTunnel, RunsTheStored, Named, OnRecord
<1> QED
  BY <1>1, VpnStarts, VpnStep, PTL DEF VpnSpec

-----------------------------------------------------------------------------
\* Retention: what a purge deletes was past the retention it read.

\* A purge of anything but samples has a retention of its own, only the tables
\* made of chunks are dropped by the day, and a sample is a honeypot's.
PurgeInv ==
    /\ table \in Logs \cup Hypertables /\ clock \in Nat /\ steps \in Nat
    /\ rows \subseteq [honeypot : Sensors \cup {None}, at : Nat]
    /\ keep \in Retentions /\ override \in [Sensors -> Retentions]
    /\ purge.now \in Nat /\ purge.keep \in Retentions
    /\ purge.override \in [Sensors -> Retentions]
    /\ purge.pc \in {"idle", "chunks", "rows"}
    /\ purge.pc # "idle" /\ table # "samples" => purge.keep > 0
    /\ purge.pc = "chunks" => table \in Hypertables
    /\ \A r \in rows : r.honeypot = None <=> table # "samples"

\* A day is over a day after it began.
LEMMA DayEnds ==
    ASSUME RetentionConstants, NEW t \in Nat
    PROVE  DayOf(t) \in Nat /\ (DayOf(t) + 1) * Day > t
BY DEF RetentionConstants, DayOf

\* A set of retentions has a longest one.
LEMMA LongestOf ==
    ASSUME Longest \in Nat, NEW S \in SUBSET Retentions, S # {}
    PROVE  Max(S) \in S /\ \A x \in S : Max(S) >= x
<1> DEFINE T == {Longest - x : x \in S}
           R == OpToRel(<, Nat)
<1>1. T \subseteq Nat /\ T # {}
  <2>1. \A x \in S : x \in Retentions /\ Longest - x \in Nat
    BY DEF Retentions
  <2>2. PICK x \in S : TRUE
    OBVIOUS
  <2>3. Longest - x \in T
    OBVIOUS
  <2> QED
    BY <2>1, <2>3
<1>2. IsWellFoundedOn(R, Nat)
  BY NatLessThanWellFounded
<1> HIDE DEF R, T
<1>3. PICK l \in T : \A y \in T : ~(<<y, l>> \in R)
  BY <1>1, <1>2, WFMin
<1>4. PICK m \in S : l = Longest - m
  BY <1>3 DEF T
<1>5. ASSUME NEW x \in S PROVE m >= x
  <2>1. Longest - x \in T /\ Longest - x \in Nat /\ l \in Nat
    BY <1>1 DEF T
  <2>2. ~(Longest - x < l)
    BY <1>3, <2>1 DEF R, OpToRel
  <2> QED
    BY <1>4, <2>2 DEF Retentions
<1>6. \E y \in S : \A x \in S : y >= x
  BY <1>5
<1> QED
  BY <1>6 DEF Max

LEMMA RetentionOfTyped ==
    ASSUME PurgeInv, RetentionConstants, NEW h \in Sensors \cup {None}
    PROVE  RetentionOf(h) \in Retentions
BY DEF PurgeInv, RetentionConstants, RetentionOf

\* Beyond the horizon every retention has passed, and there is one.
LEMMA HorizonCovers ==
    ASSUME PurgeInv, RetentionConstants, purge.pc = "chunks", Horizon # 0, NEW r \in rows
    PROVE  RetentionOf(r.honeypot) > 0 /\ Horizon >= RetentionOf(r.honeypot) /\ Horizon \in Nat
<1>1. CASE table = "events"
  <2>1. r.honeypot = None
    BY <1>1 DEF PurgeInv
  <2> QED
    BY <1>1, <2>1 DEF Horizon, RetentionOf, PurgeInv, Retentions, RetentionConstants
<1>2. CASE table # "events"
  <2> DEFINE S == {RetentionOf(h) : h \in Sensors}
  <2>1. table = "samples"
    BY <1>2 DEF PurgeInv, Hypertables
  <2>2. r.honeypot \in Sensors
    BY <2>1 DEF PurgeInv
  <2>3. Horizon = Max(S) /\ RetentionOf(r.honeypot) # 0
    BY <1>2, <2>2 DEF Horizon
  <2>4. S \in SUBSET Retentions /\ RetentionOf(r.honeypot) \in S
    BY <2>2, RetentionOfTyped
  <2>5. Max(S) \in S /\ Max(S) >= RetentionOf(r.honeypot)
    BY <2>4, LongestOf DEF RetentionConstants
  <2> QED
    BY <2>3, <2>4, <2>5 DEF Retentions, RetentionConstants
<1> QED
  BY <1>1, <1>2

LEMMA ChunksArePast ==
    ASSUME PurgeInv, RetentionConstants, DropOldChunks, NEW r \in rows \ rows'
    PROVE  Past(r)
<1>1. purge.pc = "chunks" /\ Horizon # 0
  BY DEF DropOldChunks
<1> DEFINE d == (DayOf(r.at) + 1) * Day
<1>2. ~(d + Horizon > purge.now)
  BY <1>1 DEF DropOldChunks
<1>3. r.at \in Nat /\ purge.now \in Nat /\ table # "snapshots"
  BY <1>1 DEF PurgeInv, Hypertables
<1>4. DayOf(r.at) \in Nat /\ d > r.at
  BY <1>3, DayEnds
<1>5. d \in Nat
  BY <1>4 DEF RetentionConstants
<1> HIDE DEF d
<1>6. r.at + RetentionOf(r.honeypot) < purge.now
  <2>1. RetentionOf(r.honeypot) \in Nat
    BY RetentionOfTyped DEF PurgeInv, Retentions
  <2> QED
    BY <1>1, <1>2, <1>3, <1>4, <1>5, <2>1, HorizonCovers
<1> QED
  BY <1>1, <1>3, <1>6, HorizonCovers DEF Past

\* Only the purge deletes without an order.
LEMMA PurgedIsPast ==
    ASSUME RetentionConstants
    PROVE  PurgeInv /\ [RetentionNext]_retentionVars
           => [purge.pc # "idle" /\ UNCHANGED steps
                  => \A r \in rows \ rows' : Past(r)]_retentionVars
<1> SUFFICES ASSUME RetentionConstants, PurgeInv, [RetentionNext]_retentionVars,
                    UNCHANGED steps, NEW r \in rows \ rows'
             PROVE  Past(r)
  OBVIOUS
<1>1. ~Order
  BY DEF Order, PurgeInv
<1>2. CASE UNCHANGED retentionVars
  BY <1>2 DEF retentionVars
<1>3. CASE DropOldChunks
  BY <1>3, ChunksArePast
<1>4. ASSUME NEW h \in Sensors \cup {None}, DeleteBatch(h) PROVE Past(r)
  BY <1>4 DEF DeleteBatch, Oldest
<1>5. ASSUME NEW h \in Sensors \cup {None}, Record(h) PROVE FALSE
  BY <1>5 DEF Record
<1>6. CASE TimePasses \/ EndPurge \/ RecordCompanySnapshots
  BY <1>6 DEF TimePasses, EndPurge, RecordCompanySnapshots
<1> QED
  BY <1>1, <1>2, <1>3, <1>4, <1>5, <1>6
     DEF RetentionNext, SaveRetention, ApiSaveRetention, SaveOverride, DropSensor, PurgeKilled,
         BeginPurge, PurgeOldEvents, PurgeOldMonitoringSamples, PurgeOldCompanySnapshots,
         PurgeOldHoneypotUpdateRuns, PurgeOldTerminalRecordings, PurgeOldNotificationLogs

LEMMA PurgeStarts ==
    ASSUME RetentionConstants PROVE RetentionInit => PurgeInv
BY DEF RetentionConstants, RetentionInit, PurgeInv, NoPurge, Retentions

LEMMA PurgeBegins ==
    ASSUME RetentionConstants, PurgeInv,
           NEW of \in {"events", "samples", "snapshots", "runs", "recordings", "notifications"},
           BeginPurge(of)
    PROVE  PurgeInv'
<1>1. /\ purge'.now \in Nat /\ purge'.keep \in Retentions
      /\ purge'.override \in [Sensors -> Retentions]
      /\ purge'.pc \in {"chunks", "rows"}
  BY DEF BeginPurge, PurgeInv
<1>2. table # "samples" => purge'.keep > 0
  BY DEF BeginPurge
<1>3. purge'.pc = "chunks" => table \in Hypertables
  BY DEF BeginPurge, Chunked
<1> QED
  BY <1>1, <1>2, <1>3 DEF BeginPurge, PurgeInv, Order

LEMMA RecordKeeps ==
    ASSUME RetentionConstants, PurgeInv, NEW h \in Sensors \cup {None}, Record(h)
    PROVE  PurgeInv'
<1> DEFINE at == IF table = "snapshots" THEN DayOf(clock) * Day ELSE clock
           new == [honeypot |-> h, at |-> at]
<1>1. DayOf(clock) \in Nat /\ clock \in Nat
  BY DayEnds DEF PurgeInv
<1>2. at \in Nat
  BY <1>1 DEF RetentionConstants
<1>3. rows' = rows \cup {new} /\ UNCHANGED <<table, clock, keep, override, purge, steps>>
  BY DEF Record
<1>4. h = None <=> table # "samples"
  BY DEF Record
<1> HIDE DEF at
<1> QED
  BY <1>2, <1>3, <1>4 DEF PurgeInv

LEMMA PurgeStep ==
    ASSUME RetentionConstants PROVE PurgeInv /\ [RetentionNext]_retentionVars => PurgeInv'
<1> SUFFICES ASSUME RetentionConstants, PurgeInv, [RetentionNext]_retentionVars
             PROVE  PurgeInv'
  OBVIOUS
<1>1. CASE UNCHANGED retentionVars
  BY <1>1 DEF retentionVars, PurgeInv
<1>2. CASE TimePasses \/ RecordCompanySnapshots
  BY <1>2 DEF TimePasses, RecordCompanySnapshots, PurgeInv
<1>3. ASSUME NEW days \in Retentions, SaveRetention(days) PROVE PurgeInv'
  BY <1>3 DEF SaveRetention, Order, PurgeInv
<1>4. ASSUME NEW h \in Sensors, NEW days \in Retentions, SaveOverride(h, days) PROVE PurgeInv'
  BY <1>4 DEF SaveOverride, Order, PurgeInv
<1>5. ASSUME NEW h \in Sensors, DropSensor(h) PROVE PurgeInv'
  BY <1>5 DEF DropSensor, Order, PurgeInv
<1>6. ASSUME NEW h \in Sensors \cup {None}, DeleteBatch(h) PROVE PurgeInv'
  BY <1>6 DEF DeleteBatch, PurgeInv
<1>7. CASE DropOldChunks
  <2>1. rows' \subseteq rows
    BY <1>7 DEF DropOldChunks
  <2>2. /\ purge'.now = purge.now /\ purge'.keep = purge.keep
        /\ purge'.override = purge.override /\ purge'.pc = "rows"
    BY <1>7 DEF DropOldChunks
  <2> QED
    BY <1>7, <2>1, <2>2 DEF DropOldChunks, PurgeInv
<1>8. CASE EndPurge \/ PurgeKilled
  BY <1>8 DEF EndPurge, PurgeKilled, Order, NoPurge, PurgeInv, Retentions, RetentionConstants
<1> QED
  BY <1>1, <1>2, <1>3, <1>4, <1>5, <1>6, <1>7, <1>8, PurgeBegins, RecordKeeps
     DEF RetentionNext, ApiSaveRetention, PurgeOldEvents, PurgeOldMonitoringSamples,
         PurgeOldCompanySnapshots, PurgeOldHoneypotUpdateRuns, PurgeOldTerminalRecordings,
         PurgeOldNotificationLogs

\* What a purge deletes was past the retention it read, whether a day is dropped
\* or a batch deleted, for any honeypots, retentions and lengths of a day, and
\* whatever is recorded or set meanwhile (services/retention.py).
THEOREM OnlyPastIsPurgedAlways ==
    ASSUME RetentionConstants PROVE RetentionSpec => OnlyPastIsPurged
<1> QED
  BY PurgeStarts, PurgeStep, PurgedIsPast, PTL DEF RetentionSpec, OnlyPastIsPurged

-----------------------------------------------------------------------------
\* Terminals: however a session ends, it leaves no connection open.

\* What a session holds at each stage of its handler.
Holds(s) ==
    /\ Reached(s, "idle") \/ Reached(s, "accepted") \/ Reached(s, "shell") =>
          /\ entries[s] = {} /\ recording[s] = "none"
          /\ session[s].events = 0
    /\ Reached(s, "idle") \/ Reached(s, "accepted") => connection[s] = "none"
    /\ Reached(s, "relaying") \/ Reached(s, "closing") => recording[s] = "none"
    /\ Reached(s, "saving") \/ Reached(s, "logging") => connection[s] = "closed"

\* What the log has of a session no failure met, and what it recorded.
Told(s) ==
    /\ session[s].pc \notin {"idle", "done"} /\ s \notin spoilt => honeypot
    /\ session[s].pc \in {"relaying", "closing", "saving", "logging"} =>
          /\ "close" \notin entries[s]
          /\ s \notin spoilt => "open" \in entries[s]
    /\ session[s].events > 0 => session[s].recorder
    /\ Reached(s, "logging") /\ s \notin spoilt /\ session[s].events > 0 =>
          recording[s] # "none"

TerminalInv ==
    /\ TerminalTypeOK
    /\ \A s \in Sessions : Holds(s) /\ Told(s)
    /\ NothingLeftOpen

USE DEF Stages, Handler, TerminalConstants

LEMMA TerminalStarts == ASSUME TerminalConstants PROVE TerminalInit => TerminalInv
<1> SUFFICES ASSUME TerminalConstants, TerminalInit
             PROVE  TerminalInv
  OBVIOUS
<1>1. TerminalTypeOK
  BY DEF TerminalInit, TerminalTypeOK, NoSession
<1>2. \A s \in Sessions : Holds(s) /\ Told(s)
  BY DEF TerminalInit, Holds, Told, Reached, NoSession
<1>3. NothingLeftOpen
  BY DEF TerminalInit, NothingLeftOpen, NoSession
<1> QED
  BY <1>1, <1>2, <1>3 DEF TerminalInv

\* An entry is written about the session itself, or the database fails and the
\* session is spoilt.
LEMMA LogEventTyped ==
    ASSUME TerminalTypeOK, TerminalConstants, NEW s \in Sessions,
           NEW entry \in {"open", "close", "view"}, LogEvent(s, entry)
    PROVE  /\ entries' \in [Sessions -> SUBSET {"open", "close", "view"}]
           /\ failures' \in 0..MaxFailures
           /\ spoilt' \in SUBSET Sessions
<1>1. CASE entries' = [entries EXCEPT ![s] = @ \cup {entry}] /\ UNCHANGED <<failures, spoilt>>
  BY <1>1 DEF TerminalTypeOK
<1>2. CASE Failing /\ spoilt' = spoilt \cup {s} /\ UNCHANGED entries
  <2>1. failures' \in 0..MaxFailures
    BY <1>2 DEF Failing, TerminalTypeOK
  <2> QED
    BY <1>2, <2>1 DEF TerminalTypeOK
<1> QED
  BY <1>1, <1>2 DEF LogEvent

LEMMA GoTyped ==
    ASSUME TerminalTypeOK, NEW s \in Sessions, NEW pc \in Stages, Go(s, pc)
    PROVE  session' \in [Sessions -> Handler]
BY DEF TerminalTypeOK, Go

LEMMA TerminalTypeStep ==
    ASSUME TerminalConstants, TerminalTypeOK, TerminalNext
    PROVE  TerminalTypeOK'
<1>1. ASSUME NEW s \in Sessions, NEW kind \in {"terminal", "logs"}, Accept(s, kind)
      PROVE  TerminalTypeOK'
  <2>1. PICK b \in BOOLEAN : b = (recordingOn /\ kind = "terminal")
    OBVIOUS
  <2> DEFINE h == [NoSession EXCEPT !.pc = "accepted", !.kind = kind, !.recorder = b]
  <2>2. h \in Handler
    <3>1. NoSession \in Handler
      BY DEF NoSession
    <3> QED
      BY <3>1
  <2>3. session' = [session EXCEPT ![s] = h]
    BY <1>1, <2>1, Zenon DEF Accept
  <2> HIDE DEF h
  <2>4. session' \in [Sessions -> Handler]
    BY <2>2, <2>3 DEF TerminalTypeOK
  <2> QED
    BY <1>1, <2>4 DEF Accept, TerminalTypeOK
<1>2. ASSUME NEW s \in Sessions, OpenConnection(s) PROVE TerminalTypeOK'
  <2>1. session' \in [Sessions -> Handler]
    <3>1. \E pc \in Stages : Go(s, pc)
      BY <1>2 DEF OpenConnection
    <3> QED
      BY <3>1, GoTyped
  <2>2. connection' \in [Sessions -> {"none", "up", "closed"}]
    <3>1. connection' = [connection EXCEPT ![s] = "up"] \/ connection' = connection
      BY <1>2, Zenon DEF OpenConnection
    <3> QED
      BY <3>1 DEF TerminalTypeOK
  <2>3. /\ entries' \in [Sessions -> SUBSET {"open", "close", "view"}]
        /\ failures' \in 0..MaxFailures
        /\ spoilt' \in SUBSET Sessions
    <3>1. LogEvent(s, "open") \/ UNCHANGED <<entries, failures, spoilt>>
      BY <1>2, Zenon DEF OpenConnection
    <3> QED
      BY <3>1, LogEventTyped DEF TerminalTypeOK
  <2>4. UNCHANGED <<honeypot, recordingOn, recording>>
    BY <1>2 DEF OpenConnection
  <2> QED
    BY <2>1, <2>2, <2>3, <2>4 DEF TerminalTypeOK
<1>3. ASSUME NEW s \in Sessions, StartShell(s) PROVE TerminalTypeOK'
  <2>1. session' \in [Sessions -> Handler]
    BY <1>3, GoTyped DEF StartShell
  <2>2. connection' \in [Sessions -> {"none", "up", "closed"}]
    <3>1. connection' = [connection EXCEPT ![s] = "closed"] \/ connection' = connection
      BY <1>3, Zenon DEF StartShell
    <3> QED
      BY <3>1 DEF TerminalTypeOK
  <2>3. /\ entries' \in [Sessions -> SUBSET {"open", "close", "view"}]
        /\ failures' \in 0..MaxFailures
        /\ spoilt' \in SUBSET Sessions
    BY <1>3, LogEventTyped DEF StartShell, TerminalTypeOK
  <2> QED
    BY <1>3, <2>1, <2>2, <2>3 DEF StartShell, TerminalTypeOK
<1>4. ASSUME NEW s \in Sessions, Relay(s) \/ End(s) \/ CloseConnection(s)
      PROVE  TerminalTypeOK'
  <2>1. session' \in [Sessions -> Handler]
    BY <1>4 DEF Relay, End, CloseConnection, Go, TerminalTypeOK
  <2>2. connection' \in [Sessions -> {"none", "up", "closed"}]
    BY <1>4 DEF Relay, End, CloseConnection, TerminalTypeOK
  <2> QED
    BY <1>4, <2>1, <2>2 DEF Relay, End, CloseConnection, TerminalTypeOK
<1>5. ASSUME NEW s \in Sessions, SaveRecording(s) PROVE TerminalTypeOK'
  <2>1. session' \in [Sessions -> Handler]
    BY <1>5 DEF SaveRecording, Go, TerminalTypeOK
  <2>2. recording' \in [Sessions -> {"none", "kept", "orphan"}]
    BY <1>5 DEF SaveRecording, TerminalTypeOK
  <2>3. failures' \in 0..MaxFailures /\ spoilt' \in SUBSET Sessions
    BY <1>5 DEF SaveRecording, Failing, TerminalTypeOK
  <2> QED
    BY <1>5, <2>1, <2>2, <2>3 DEF SaveRecording, TerminalTypeOK
<1>6. ASSUME NEW s \in Sessions, LogClose(s) PROVE TerminalTypeOK'
  <2>1. session' \in [Sessions -> Handler]
    BY <1>6 DEF LogClose, Go, TerminalTypeOK
  <2> QED
    BY <1>6, <2>1, LogEventTyped DEF LogClose, TerminalTypeOK
<1>7. ASSUME NEW s \in Sessions, Watch(s) PROVE TerminalTypeOK'
  BY <1>7, LogEventTyped DEF Watch, TerminalTypeOK
<1>8. CASE SetRecording \/ HoneypotGoes
  BY <1>8 DEF SetRecording, HoneypotGoes, TerminalTypeOK
<1>9. CASE WebRestarts
  <2>1. session' \in [Sessions -> Handler]
    <3>1. \A s \in Sessions : [session[s] EXCEPT !.pc = "done"] \in Handler
      BY DEF TerminalTypeOK
    <3> QED
      BY <1>9, <3>1 DEF WebRestarts, TerminalTypeOK
  <2>2. connection' \in [Sessions -> {"none", "up", "closed"}]
    BY <1>9 DEF WebRestarts, TerminalTypeOK
  <2>3. failures' \in 0..MaxFailures /\ spoilt' \in SUBSET Sessions
    BY <1>9 DEF WebRestarts, Failing, TerminalTypeOK
  <2> QED
    BY <1>9, <2>1, <2>2, <2>3 DEF WebRestarts, TerminalTypeOK
<1> QED
  BY <1>1, <1>2, <1>3, <1>4, <1>5, <1>6, <1>7, <1>8, <1>9 DEF TerminalNext, WatchApi

\* A session's step leaves the others as they are, and what it is not about.
Left(s) ==
    /\ session'[s] = session[s] /\ connection'[s] = connection[s]
    /\ entries'[s] = entries[s] /\ recording'[s] = recording[s]
    /\ s \in spoilt' <=> s \in spoilt

About(s) ==
    \/ \E kind \in {"terminal", "logs"} : Accept(s, kind)
    \/ OpenConnection(s) \/ StartShell(s) \/ Relay(s) \/ End(s)
    \/ CloseConnection(s) \/ SaveRecording(s) \/ LogClose(s) \/ Watch(s)

LEMMA OthersLeft ==
    ASSUME TerminalTypeOK, NEW s \in Sessions, About(s), NEW o \in Sessions \ {s}
    PROVE  Left(o) /\ honeypot' = honeypot
<1>1. session'[o] = session[o] /\ honeypot' = honeypot
  BY DEF About, TerminalTypeOK, Accept, OpenConnection, StartShell, Relay, End,
         CloseConnection, SaveRecording, LogClose, Watch, Go
<1>2. connection'[o] = connection[o] /\ recording'[o] = recording[o]
  BY DEF About, TerminalTypeOK, Accept, OpenConnection, StartShell, Relay, End,
         CloseConnection, SaveRecording, LogClose, Watch
<1>3. entries'[o] = entries[o] /\ (o \in spoilt' <=> o \in spoilt)
  BY DEF About, TerminalTypeOK, Accept, OpenConnection, StartShell, Relay, End,
         CloseConnection, SaveRecording, LogClose, Watch, LogEvent
<1> QED
  BY <1>1, <1>2, <1>3 DEF Left

\* What NothingLeftOpen says of one session.
LeftNothing(s) ==
    Reached(s, "done") =>
        /\ connection[s] # "up"
        /\ s \notin spoilt =>
              /\ "open" \in entries[s] <=> "close" \in entries[s]
              /\ session[s].events > 0 => recording[s] # "none"

Fine(s) == Holds(s) /\ Told(s) /\ LeftNothing(s)

LEMMA StaysFine ==
    ASSUME NEW s \in Sessions, Fine(s), Left(s), honeypot' = honeypot
    PROVE  Fine(s)'
BY DEF Fine, Holds, Told, LeftNothing, Left, Reached

LEMMA FineStep ==
    ASSUME TerminalConstants, TerminalTypeOK, TerminalNext, NEW s \in Sessions, Fine(s)
    PROVE  Fine(s)'
<1>1. CASE \E o \in Sessions \ {s} : About(o)
  BY <1>1, OthersLeft, StaysFine
<1>2. ASSUME NEW kind \in {"terminal", "logs"}, Accept(s, kind) PROVE Fine(s)'
  BY <1>2 DEF Accept, Fine, Holds, Told, LeftNothing, Reached, NoSession, TerminalTypeOK
<1>3. CASE OpenConnection(s)
  BY <1>3 DEF OpenConnection, Go, LogEvent, Fine, Holds, Told, LeftNothing, Reached, TerminalTypeOK
<1>4. CASE StartShell(s)
  BY <1>4 DEF StartShell, Go, LogEvent, Fine, Holds, Told, LeftNothing, Reached, TerminalTypeOK
<1>5. CASE Relay(s) \/ End(s) \/ CloseConnection(s)
  BY <1>5 DEF Relay, End, CloseConnection, Go, Fine, Holds, Told, LeftNothing, Reached,
     TerminalTypeOK
<1>6. CASE SaveRecording(s)
  BY <1>6 DEF SaveRecording, Go, Fine, Holds, Told, LeftNothing, Reached, TerminalTypeOK
<1>7. CASE LogClose(s)
  BY <1>7 DEF LogClose, LogEvent, Go, Fine, Holds, Told, LeftNothing, Reached, TerminalTypeOK
<1>8. CASE Watch(s)
  BY <1>8 DEF Watch, LogEvent, Fine, Holds, Told, LeftNothing, Reached, TerminalTypeOK
<1>9. CASE SetRecording
  BY <1>9 DEF SetRecording, Fine, Holds, Told, LeftNothing, Reached
<1>10. CASE HoneypotGoes
  BY <1>10 DEF HoneypotGoes, Fine, Holds, Told, LeftNothing, Reached, TerminalTypeOK
<1>11. CASE WebRestarts
  BY <1>11 DEF WebRestarts, Fine, Holds, Told, LeftNothing, Reached, TerminalTypeOK
<1> QED
  BY <1>1, <1>2, <1>3, <1>4, <1>5, <1>6, <1>7, <1>8, <1>9, <1>10, <1>11
     DEF TerminalNext, WatchApi, About

LEMMA FineAlways ==
    TerminalInv <=> TerminalTypeOK /\ \A s \in Sessions : Fine(s)
BY DEF TerminalInv, Fine, LeftNothing, NothingLeftOpen, Reached

LEMMA TerminalStep ==
    ASSUME TerminalConstants PROVE TerminalInv /\ [TerminalNext]_terminalVars => TerminalInv'
<1> SUFFICES ASSUME TerminalConstants, TerminalInv, [TerminalNext]_terminalVars
             PROVE  TerminalInv'
  OBVIOUS
<1>1. CASE TerminalNext
  <2>1. TerminalTypeOK'
    BY <1>1, TerminalTypeStep DEF TerminalInv
  <2>2. ASSUME NEW s \in Sessions PROVE Holds(s)' /\ Told(s)' /\ LeftNothing(s)'
    BY <1>1, FineAlways, FineStep DEF Fine
  <2>3. NothingLeftOpen'
    BY <2>2 DEF NothingLeftOpen, LeftNothing, Reached
  <2> QED
    BY <2>1, <2>2, <2>3 DEF TerminalInv
<1>2. CASE UNCHANGED terminalVars
  BY <1>2 DEF terminalVars, TerminalInv, TerminalTypeOK, Holds, Told, NothingLeftOpen, Reached
<1> QED
  BY <1>1, <1>2

\* The sessions, their connections, entries and recordings are of their types.
THEOREM TerminalsTyped ==
    ASSUME TerminalConstants PROVE TerminalSpec => []TerminalTypeOK
<1>1. TerminalInv => TerminalTypeOK
  BY DEF TerminalInv
<1> QED
  BY <1>1, TerminalStarts, TerminalStep, PTL DEF TerminalSpec

\* However a terminal or a followed log ends, whatever is switched, deleted or
\* restarted meanwhile, it leaves no SSH connection open, the log has its end if
\* it has its beginning, and the recording is there (routes/terminal.py).
THEOREM NothingLeftOpenAlways ==
    ASSUME TerminalConstants PROVE TerminalSpec => []NothingLeftOpen
<1>1. TerminalInv => NothingLeftOpen
  BY DEF TerminalInv
<1> QED
  BY <1>1, TerminalStarts, TerminalStep, PTL DEF TerminalSpec

-----------------------------------------------------------------------------
\* HoneypotTags: tags set by hand stay, and a change takes off only its own.

\* What a transaction has in hand: links of honeypots that exist, and off only
\* those of the honeypots it is about.
LinksInHand ==
    \A q \in Open :
        /\ tagRequest[q].on \subseteq exists \X Tags
        /\ \A p \in tagRequest[q].off : p[1] \in tagRequest[q].of

\* What follows a saved configuration leaves the tags set by hand alone.
SparesByHand(q) ==
    tagRequest[q].op = "sync" =>
        /\ tagRequest[q].step = "asked" =>
              \A p \in tagged : p[1] \in tagRequest[q].of =>
                                p[2] \in OwnedTags \cup tagRequest[q].names
        /\ \A p \in tagRequest[q].off : p[2] \in OwnedTags

\* Nobody has a tag that was counted as unused.
StillUnused(q) ==
    tagRequest[q].step = "counted" =>
        \A t \in tagRequest[q].orphans :
            \A p \in (tagged \ tagRequest[q].off) \cup tagRequest[q].on : p[2] # t

\* As long as no two changes overlapped, what was read still holds.
ReadsHold ==
    /\ \A q1, q2 \in Open : q1 = q2
    /\ \A q \in Open : SparesByHand(q) /\ StillUnused(q)

TagsInv == TagsTypeOK /\ LinksInHand /\ (overlapped \/ ReadsHold)

\* There is no tag and no request to begin with.
LEMMA TagsStart == ASSUME TagsConstants PROVE TagsInit => TagsInv
<1> SUFFICES ASSUME TagsInit PROVE TagsInv
  OBVIOUS
<1>1. \A q \in TagRequests : tagRequest[q] = NoRequest
  BY DEF TagsInit
<1>2. Open = {}
  BY <1>1 DEF Open
<1>3. TagsTypeOK
  <2>1. tagRequest \in [TagRequests -> RequestRow \cup {NoRequest}]
    BY DEF TagsInit
  <2>2. tagArrivals \in 0..MaxTagArrivals
    BY DEF TagsInit, TagsConstants
  <2> QED
    BY <2>1, <2>2 DEF TagsInit, TagsTypeOK
<1> QED
  BY <1>2, <1>3 DEF TagsInv, LinksInHand, ReadsHold

\* A transaction that ends leaves what the others hold.
LEMMA TransactionEnds ==
    ASSUME TagsInv, NEW q \in TagRequests, tagRequest' = [tagRequest EXCEPT ![q] = NoRequest],
           exists' = exists, overlapped' = overlapped, tagged' \in SUBSET (exists \X Tags),
           tagRequest[q] # NoRequest
    PROVE  LinksInHand' /\ (overlapped \/ ReadsHold)'
<1>1. Open' = Open \ {q}
  BY DEF TagsInv, TagsTypeOK, Open
<1>2. \A o \in Open' : tagRequest'[o] = tagRequest[o]
  BY DEF TagsInv, TagsTypeOK, Open
<1>3. LinksInHand'
  BY <1>1, <1>2 DEF TagsInv, LinksInHand
<1>4. CASE ~overlapped
  <2>1. Open' = {}
    BY <1>1, <1>4 DEF TagsInv, ReadsHold, Open
  <2> QED
    BY <1>3, <2>1 DEF ReadsHold
<1> QED
  BY <1>3, <1>4

\* A request that comes in while another is under way marks the overlap.
LEMMA ArrivalKeeps ==
    ASSUME TagsConstants, TagsInv, NEW q \in TagRequests,
           NEW op \in {"set", "sync", "add", "remove"},
           NEW hs \in SUBSET TagHoneypots, NEW names \in SUBSET Tags, Arrives(q, op, hs, names),
           op = "sync" => \A p \in tagged : p[1] \in hs => p[2] \in OwnedTags \cup names
    PROVE  TagsInv'
<1> DEFINE R == [op |-> op, step |-> "asked", of |-> hs, names |-> names,
                 on |-> {}, off |-> {}, orphans |-> {}]
<1>1. R \in RequestRow /\ R # NoRequest
  BY DEF RequestRow, TagsConstants
<1>2. /\ tagRequest' = [tagRequest EXCEPT ![q] = R]
      /\ UNCHANGED <<exists, tag, tagged>>
      /\ overlapped' = (overlapped \/ Open # {})
      /\ tagArrivals' = tagArrivals + 1 /\ tagArrivals < MaxTagArrivals
      /\ tagRequest[q] = NoRequest
  BY DEF Arrives
<1>3. /\ R.on = {} /\ R.off = {} /\ R.op = op /\ R.step = "asked" /\ R.of = hs /\ R.names = names
  OBVIOUS
<1> HIDE DEF R
<1>4. TagsTypeOK'
  <2>1. tagArrivals' \in 0..MaxTagArrivals
    BY <1>2 DEF TagsConstants, TagsInv, TagsTypeOK
  <2>2. tagRequest' \in [TagRequests -> RequestRow \cup {NoRequest}]
    BY <1>1, <1>2 DEF TagsInv, TagsTypeOK
  <2>3. overlapped' \in BOOLEAN
    BY <1>2 DEF TagsInv, TagsTypeOK
  <2> QED
    BY <1>2, <2>1, <2>2, <2>3 DEF TagsInv, TagsTypeOK
<1>5. /\ Open' = Open \cup {q}
      /\ tagRequest'[q] = R
      /\ \A o \in Open : o # q /\ tagRequest'[o] = tagRequest[o]
  BY <1>1, <1>2 DEF TagsInv, TagsTypeOK, Open
<1>6. LinksInHand'
  <2>1. SUFFICES ASSUME NEW o \in Open'
                 PROVE  /\ tagRequest'[o].on \subseteq exists' \X Tags
                        /\ \A p \in tagRequest'[o].off : p[1] \in tagRequest'[o].of
    BY DEF LinksInHand
  <2>2. CASE o = q
    BY <2>2, <1>3, <1>5
  <2>3. CASE o \in Open
    BY <2>3, <1>2, <1>5 DEF TagsInv, LinksInHand
  <2> QED
    BY <2>2, <2>3, <1>5
<1>7. ASSUME ~overlapped'
      PROVE  ReadsHold'
  <2>1. Open' = {q}
    BY <1>2, <1>5, <1>7 DEF TagsInv, TagsTypeOK
  <2>2. SparesByHand(q)'
    BY <1>2, <1>3, <1>5 DEF SparesByHand
  <2>3. StillUnused(q)'
    BY <1>3, <1>5 DEF StillUnused
  <2> QED
    BY <2>1, <2>2, <2>3 DEF ReadsHold
<1> QED
  BY <1>4, <1>6, <1>7 DEF TagsInv

\* A saved configuration replaces the honeypot's module tags and keeps the others.
LEMMA SyncKeeps ==
    ASSUME TagsConstants, TagsInv, NEW q \in TagRequests, NEW h \in TagHoneypots,
           NEW on \in SUBSET OwnedTags, SyncModuleTags(q, h, on)
    PROVE  TagsInv'
<1>1. SyncedNames(h, on) \in SUBSET Tags
  BY DEF SyncedNames, TagsOf, TagsConstants
<1>2. ASSUME NEW p \in tagged, p[1] \in {h}
      PROVE  p[2] \in OwnedTags \cup SyncedNames(h, on)
  <2>1. p = <<h, p[2]>> /\ p[2] \in Tags
    BY <1>2 DEF TagsInv, TagsTypeOK
  <2> QED
    BY <2>1 DEF SyncedNames, TagsOf
<1>3. Arrives(q, "sync", {h}, SyncedNames(h, on))
  BY DEF SyncModuleTags
<1> QED
  BY <1>1, <1>2, <1>3, ArrivalKeeps

\* Nothing but the request of q changes, and it stays open.
LEMMA RequestGoesOn ==
    ASSUME TagsConstants, TagsInv, NEW q \in TagRequests, tagRequest[q] # NoRequest,
           NEW R \in RequestRow, tagRequest' = [tagRequest EXCEPT ![q] = R],
           UNCHANGED <<exists, tag, tagged, tagArrivals, overlapped>>,
           R.on \subseteq exists \X Tags, \A p \in R.off : p[1] \in R.of,
           overlapped \/ (SparesByHand(q) /\ StillUnused(q))'
    PROVE  TagsInv'
<1>1. TagsTypeOK'
  BY DEF TagsInv, TagsTypeOK
<1>2. /\ Open' = Open
      /\ tagRequest'[q] = R
      /\ \A o \in Open \ {q} : tagRequest'[o] = tagRequest[o]
      /\ q \in Open
  BY DEF TagsInv, TagsTypeOK, Open, TagsConstants
<1>3. LinksInHand'
  BY <1>2 DEF TagsInv, LinksInHand
<1>4. ASSUME ~overlapped
      PROVE  ReadsHold'
  <2>1. \A o \in Open : o = q
    BY <1>2, <1>4 DEF TagsInv, ReadsHold
  <2> QED
    BY <1>2, <1>4, <2>1 DEF ReadsHold
<1> QED
  BY <1>1, <1>3, <1>4 DEF TagsInv

\* What a request links and unlinks is worked out from the links it finds.
LEMMA WritesKeeps ==
    ASSUME TagsConstants, TagsInv, NEW q \in TagRequests, Writes(q)
    PROVE  TagsInv'
<1> DEFINE r == tagRequest[q]
           named == r.of \X r.names
           mine == {p \in tagged : p[1] \in r.of}
           on == IF r.op = "remove" THEN {} ELSE named \ mine
           off == CASE r.op = "add" -> {}
                    [] r.op = "remove" -> named \cap mine
                    [] OTHER -> mine \ named
           R == [r EXCEPT !.step = "written", !.on = on, !.off = off]
<1>1. /\ r # NoRequest /\ r.step = "asked" /\ r.of \subseteq exists
      /\ tagRequest' = [tagRequest EXCEPT ![q] = R]
      /\ UNCHANGED <<exists, tag, tagged, tagArrivals, overlapped>>
  BY DEF Writes, RequestAt, TagsInv, TagsTypeOK
<1>2. r \in RequestRow
  BY <1>1 DEF TagsInv, TagsTypeOK
<1>3. /\ r.of \subseteq exists /\ r.names \subseteq Tags
      /\ r.op \in {"set", "sync", "add", "remove"} /\ r.of \subseteq TagHoneypots
  BY <1>1, <1>2 DEF RequestRow
<1>4. named \subseteq exists \X Tags /\ \A p \in named : p[1] \in r.of /\ p[2] \in r.names
  BY <1>3
<1>5. mine \subseteq Pairs /\ named \subseteq Pairs
  BY <1>3, <1>4 DEF TagsInv, TagsTypeOK, Pairs
<1>6. on \subseteq named /\ off \subseteq named \cup mine
  BY <1>3
<1>7. R \in RequestRow
  BY <1>2, <1>5, <1>6 DEF RequestRow
<1>8. /\ R.on = on /\ R.off = off /\ R.of = r.of /\ R.op = r.op /\ R.step = "written"
      /\ R.names = r.names
  BY <1>2 DEF RequestRow
<1>9. ASSUME ~overlapped, r.op = "sync"
      PROVE  \A p \in off : p[2] \in OwnedTags
  <2>1. SUFFICES ASSUME NEW p \in off
                 PROVE  p[2] \in OwnedTags
    OBVIOUS
  <2>2. p \in tagged /\ p[1] \in r.of /\ p \notin named
    BY <1>9, <2>1
  <2>3. p = <<p[1], p[2]>>
    BY <2>2 DEF TagsInv, TagsTypeOK
  <2>4. p[2] \notin r.names
    BY <2>2, <2>3
  <2>5. SparesByHand(q)
    BY <1>1, <1>9 DEF TagsInv, ReadsHold, Open
  <2> QED
    BY <1>1, <1>9, <2>2, <2>4, <2>5 DEF SparesByHand
<1>10. \A p \in off : p[1] \in r.of
  BY <1>4, <1>6
<1>11. on \subseteq exists \X Tags
  BY <1>4, <1>6
<1> HIDE DEF R, on, off
<1>12. tagRequest'[q] = R
  BY <1>1 DEF TagsInv, TagsTypeOK
<1>13. overlapped \/ (SparesByHand(q) /\ StillUnused(q))'
  BY <1>8, <1>9, <1>12 DEF SparesByHand, StillUnused
<1> QED
  BY <1>1, <1>7, <1>8, <1>10, <1>11, <1>13, RequestGoesOn

\* What is unused is counted before the commit.
LEMMA CountsKeeps ==
    ASSUME TagsConstants, TagsInv, NEW q \in TagRequests, Counts(q)
    PROVE  TagsInv'
<1> DEFINE r == tagRequest[q]
           orphans == IF r.op = "add" THEN {} ELSE Unused(q)
           R == [r EXCEPT !.step = "counted", !.orphans = orphans]
<1>1. /\ r # NoRequest /\ r.step = "written"
      /\ tagRequest' = [tagRequest EXCEPT ![q] = R]
      /\ UNCHANGED <<exists, tag, tagged, tagArrivals, overlapped>>
  BY DEF Counts, RequestAt, TagsInv, TagsTypeOK
<1>2. r \in RequestRow
  BY <1>1 DEF TagsInv, TagsTypeOK
<1>3. orphans \subseteq Tags
  BY <1>2 DEF Unused, RequestRow, Pairs
<1>4. \A t \in orphans : \A p \in (tagged \ r.off) \cup r.on : p[2] # t
  BY DEF Unused
<1> HIDE DEF orphans
<1>5. R \in RequestRow
  BY <1>2, <1>3 DEF RequestRow
<1>6. /\ R.on = r.on /\ R.off = r.off /\ R.of = r.of /\ R.op = r.op /\ R.step = "counted"
      /\ R.names = r.names /\ R.orphans = orphans
  BY <1>2 DEF RequestRow
<1> HIDE DEF R
<1>7. tagRequest'[q] = R
  BY <1>1 DEF TagsInv, TagsTypeOK
<1>8. q \in Open
  BY <1>1 DEF Open
<1>9. StillUnused(q)'
  BY <1>1, <1>4, <1>6, <1>7 DEF StillUnused
<1>10. ASSUME ~overlapped
       PROVE  SparesByHand(q)'
  <2>1. SparesByHand(q)
    BY <1>8, <1>10 DEF TagsInv, ReadsHold
  <2> QED
    BY <1>6, <1>7, <2>1 DEF SparesByHand
<1>11. R.on \subseteq exists \X Tags /\ \A p \in R.off : p[1] \in R.of
  BY <1>6, <1>8 DEF TagsInv, LinksInHand
<1> QED
  BY <1>1, <1>5, <1>9, <1>10, <1>11, RequestGoesOn

\* A commit puts in what was decided; without an overlap that is what holds.
LEMMA CommitsKeeps ==
    ASSUME TagsConstants, TagsInv, NEW q \in TagRequests, Commits(q)
    PROVE  TagsInv'
<1> DEFINE r == tagRequest[q]
<1>1. /\ r # NoRequest /\ r \in RequestRow
      /\ tagRequest' = [tagRequest EXCEPT ![q] = NoRequest]
      /\ tag' = (tag \cup {p[2] : p \in r.on}) \ r.orphans
      /\ tagged' = {p \in (tagged \ r.off) \cup r.on : p[2] \notin r.orphans}
      /\ UNCHANGED <<exists, tagArrivals, overlapped>>
  BY DEF Commits, RequestAt, TagsInv, TagsTypeOK
<1>2. r.on \subseteq exists \X Tags
  BY <1>1 DEF TagsInv, LinksInHand, Open
<1>3. tagged \subseteq exists \X tag /\ tag \subseteq Tags
  BY DEF TagsInv, TagsTypeOK
<1>4. tagged' \subseteq exists \X tag'
  <2>1. SUFFICES ASSUME NEW p \in tagged'
                 PROVE  p \in exists \X tag'
    OBVIOUS
  <2>2. p \in tagged \/ p \in r.on
    BY <1>1, <2>1
  <2>3. p[2] \notin r.orphans
    BY <1>1, <2>1
  <2>4. p[2] \in tag \cup {x[2] : x \in r.on}
    BY <1>3, <2>2
  <2>5. p[2] \in tag'
    BY <1>1, <2>3, <2>4
  <2>6. p = <<p[1], p[2]>> /\ p[1] \in exists
    BY <1>2, <1>3, <2>2
  <2> QED
    BY <2>5, <2>6
<1>5. tag' \subseteq Tags
  BY <1>1, <1>2, <1>3
<1>6. TagsTypeOK'
  BY <1>1, <1>4, <1>5 DEF TagsInv, TagsTypeOK
<1>7. tagged' \in SUBSET (exists \X Tags)
  BY <1>4, <1>5
<1> QED
  BY <1>1, <1>6, <1>7, TransactionEnds DEF TagsInv

\* A request that fails leaves the tables alone.
LEMMA RollsBackKeeps ==
    ASSUME TagsInv, NEW q \in TagRequests, RollsBack(q)
    PROVE  TagsInv'
<1>1. TagsTypeOK'
  BY DEF RollsBack, TagsInv, TagsTypeOK
<1>2. tagged' \in SUBSET (exists \X Tags)
  BY DEF RollsBack, TagsInv, TagsTypeOK
<1> QED
  BY <1>1, <1>2, TransactionEnds DEF RollsBack, TagsInv

\* A deleted honeypot takes its links along, those in hand included.
LEMMA DeletionKeeps ==
    ASSUME TagsInv, NEW h \in TagHoneypots, DeleteWithTags(h)
    PROVE  TagsInv'
<1>1. /\ exists' = exists \ {h}
      /\ tagged' = {p \in tagged : p[1] # h}
      /\ UNCHANGED <<tag, tagRequest, tagArrivals, overlapped>>
      /\ \A q \in Open : \A p \in tagRequest[q].on : p[1] # h
      /\ Open' = Open
  BY DEF DeleteWithTags, Uncommitted, Open
<1>2. TagsTypeOK'
  BY <1>1 DEF TagsInv, TagsTypeOK
<1>3. LinksInHand'
  <2>1. SUFFICES ASSUME NEW q \in Open
                 PROVE  tagRequest[q].on \subseteq exists' \X Tags
    BY <1>1 DEF TagsInv, LinksInHand
  <2>2. tagRequest[q].on \subseteq exists \X Tags
    BY DEF TagsInv, LinksInHand
  <2> QED
    BY <1>1, <2>2
<1>4. \A q \in Open : SparesByHand(q) /\ StillUnused(q) => (SparesByHand(q) /\ StillUnused(q))'
  BY <1>1 DEF SparesByHand, StillUnused
<1>5. (overlapped \/ ReadsHold)'
  BY <1>1, <1>4 DEF TagsInv, ReadsHold
<1> QED
  BY <1>2, <1>3, <1>5 DEF TagsInv

\* Every step of the tags keeps the invariant.
LEMMA TagsStep == ASSUME TagsConstants, TagsInv, [TagsNext]_tagVars PROVE TagsInv'
<1>1. ASSUME NEW q \in TagRequests, NEW h \in TagHoneypots, NEW names \in SUBSET Tags,
             SetTags(q, h, names)
      PROVE  TagsInv'
  BY <1>1, ArrivalKeeps DEF SetTags
<1>2. ASSUME NEW q \in TagRequests, NEW hs \in SUBSET TagHoneypots, NEW names \in SUBSET Tags,
             AddTags(q, hs, names) \/ RemoveTags(q, hs, names) \/ RemoveTagsApi(q, hs, names)
      PROVE  TagsInv'
  BY <1>2, ArrivalKeeps DEF AddTags, RemoveTags, RemoveTagsApi
<1>3. CASE UNCHANGED tagVars
  BY <1>3 DEF tagVars, TagsInv, TagsTypeOK, LinksInHand, ReadsHold, Open, SparesByHand, StillUnused
<1> QED
  BY <1>1, <1>2, <1>3, SyncKeeps, WritesKeeps, CountsKeeps, CommitsKeeps, RollsBackKeeps,
     DeletionKeeps DEF TagsNext

\* Tags, links and requests keep their types.
THEOREM TagsTypeCorrect == ASSUME TagsConstants PROVE TagsSpec => []TagsTypeOK
<1>1. TagsInit => TagsInv
  BY TagsStart
<1>2. TagsInv /\ [TagsNext]_tagVars => TagsInv'
  BY TagsStep
<1>3. TagsInv => TagsTypeOK
  BY DEF TagsInv
<1> QED
  BY <1>1, <1>2, <1>3, PTL DEF TagsSpec

\* A commit that meets no other takes off its own honeypots' links, and a sync only
\* module tags.
LEMMA OffTakesItsOwn ==
    ASSUME TagsInv, NEW q \in TagRequests, Commits(q), ~overlapped, NEW p \in tagged \ tagged'
    PROVE  /\ q \in Open /\ tagRequest'[q] = NoRequest
           /\ p[1] \in tagRequest[q].of
           /\ tagRequest[q].op = "sync" => p[2] \in OwnedTags
<1>1. /\ tagRequest[q] # NoRequest /\ tagRequest[q].step = "counted"
      /\ tagged' = {x \in (tagged \ tagRequest[q].off) \cup tagRequest[q].on :
                      x[2] \notin tagRequest[q].orphans}
      /\ tagRequest'[q] = NoRequest /\ q \in Open
  BY DEF Commits, RequestAt, Open, TagsInv, TagsTypeOK
<1>2. SparesByHand(q) /\ StillUnused(q)
  BY <1>1 DEF TagsInv, ReadsHold
<1>3. p \in tagRequest[q].off
  BY <1>1, <1>2 DEF StillUnused
<1> QED
  BY <1>1, <1>2, <1>3 DEF SparesByHand, TagsInv, LinksInHand

\* Tags stick: unless changes overlapped, a link goes only with a request about its
\* honeypot, and saving a configuration takes no tag set by hand (honeypot_tags.py).
THEOREM TagsStickAlways == ASSUME TagsConstants PROVE TagsSpec => TagsStick
<1>1. TagsInit => TagsInv
  BY TagsStart
<1>2. TagsInv /\ [TagsNext]_tagVars => TagsInv'
  BY TagsStep
<1>3. ASSUME TagsInv, [TagsNext]_tagVars
      PROVE  \A p \in tagged \ tagged' :
                \/ overlapped
                \/ p[1] \notin exists'
                \/ \E q \in Open :
                      /\ tagRequest'[q] = NoRequest
                      /\ p[1] \in tagRequest[q].of
                      /\ tagRequest[q].op = "sync" => p[2] \in OwnedTags
  <2>1. CASE \E q \in TagRequests : Commits(q)
    BY <1>3, <2>1, OffTakesItsOwn
  <2>2. CASE \E h \in TagHoneypots : DeleteWithTags(h)
    BY <1>3, <2>2 DEF DeleteWithTags
  <2>3. CASE tagged' = tagged
    BY <2>3
  <2> QED
    BY <1>3, <2>1, <2>2, <2>3 DEF TagsNext, tagVars, SetTags, SyncModuleTags, AddTags, RemoveTags,
       RemoveTagsApi, Arrives, Writes, Counts, RollsBack
<1>4. TagsInv /\ [TagsNext]_tagVars =>
      [\A p \in tagged \ tagged' :
          \/ overlapped
          \/ p[1] \notin exists'
          \/ \E q \in Open :
                /\ tagRequest'[q] = NoRequest
                /\ p[1] \in tagRequest[q].of
                /\ tagRequest[q].op = "sync" => p[2] \in OwnedTags]_tagVars
  BY <1>3
<1> QED
  BY <1>1, <1>2, <1>4, PTL DEF TagsSpec, TagsStick

-----------------------------------------------------------------------------
\* Packages: a rollback leaves the versions of its snapshot.

\* A rollback that runs holds the snapshot it goes back to: it has loaded it before,
\* and nothing that happens to the source takes it away.
TargetLoaded ==
    \A r \in Updates : updateRun[r].status = "running" /\ IsRollback(r) =>
        updateRun[r].target # NoSnapshot

\* What a rollback compared is what is installed, unless another run came between.
ComparedHolds ==
    \A r \in Updates \ overtaken :
        UpdateAt(r, "apt") /\ IsRollback(r) => updateRun[r].current = version

PackagesInv == PackagesTypeOK /\ TargetLoaded /\ ComparedHolds

\* No run has been started, and every package is in its first version.
LEMMA PackagesStart == ASSUME PackagesConstants PROVE PackagesInit => PackagesInv
<1> SUFFICES ASSUME PackagesInit PROVE PackagesInv
  OBVIOUS
<1>1. Blank \in UpdateRow /\ Blank.of = NoUpdate /\ Blank.status = "none"
  BY DEF Blank, UpdateRow, Snapshots
<1>2. NoHold \in HoldTask
  BY DEF NoHold, HoldTask
<1>3. 1 \in Versions /\ 0 \in 0..MaxHolds
  BY DEF Versions, PackagesConstants
<1>4. \A r \in Updates : updateRun[r] = Blank
  BY DEF PackagesInit
<1>5. PackagesTypeOK
  BY <1>1, <1>2, <1>3 DEF PackagesInit, PackagesTypeOK
<1>6. TargetLoaded /\ ComparedHolds
  BY <1>1, <1>4 DEF TargetLoaded, ComparedHolds, UpdateAt
<1> QED
  BY <1>5, <1>6 DEF PackagesInv

\* The row of one run changes: where it is a rollback that runs, it holds its target.
LEMMA RowMovesOn ==
    ASSUME PackagesInv, NEW r \in Updates, NEW R \in UpdateRow,
           updateRun' = [updateRun EXCEPT ![r] = R],
           R.status = "running" /\ R.of # NoUpdate => R.target # NoSnapshot
    PROVE  /\ TargetLoaded'
           /\ updateRun' \in [Updates -> UpdateRow]
           /\ updateRun'[r] = R
           /\ \A x \in Updates \ {r} : updateRun'[x] = updateRun[x]
BY DEF PackagesInv, PackagesTypeOK, TargetLoaded, IsRollback

\* A run that is asked for waits.
LEMMA TriggerKeeps ==
    ASSUME PackagesConstants, PackagesInv, NEW r \in Updates, NEW of \in Updates \cup {NoUpdate},
           Trigger(r, of)
    PROVE  PackagesInv'
<1> DEFINE R == [updateRun[r] EXCEPT !.status = "pending", !.of = of]
<1>1. /\ updateRun[r] \in UpdateRow /\ updateRun[r].status = "none"
      /\ updateRun' = [updateRun EXCEPT ![r] = R]
      /\ UNCHANGED <<latest, version, held, noted, hold, holds, touched, overtaken>>
  BY DEF PackagesInv, PackagesTypeOK, Trigger, aptState
<1>2. R \in UpdateRow /\ R.status = "pending" /\ R.of = of
  BY <1>1 DEF UpdateRow
<1> HIDE DEF R
<1>3. /\ TargetLoaded' /\ updateRun' \in [Updates -> UpdateRow]
      /\ updateRun'[r] = R
      /\ \A x \in Updates \ {r} : updateRun'[x] = updateRun[x]
  BY <1>1, <1>2, RowMovesOn
<1>4. PackagesTypeOK'
  BY <1>1, <1>3 DEF PackagesInv, PackagesTypeOK
<1>5. ComparedHolds'
  BY <1>1, <1>2, <1>3 DEF PackagesInv, ComparedHolds, UpdateAt, IsRollback
<1> QED
  BY <1>3, <1>4, <1>5 DEF PackagesInv

\* The snapshot a task finds is one.
LEMMA SourceIsSnapshot ==
    ASSUME PackagesInv, NEW r \in Updates
    PROVE  SourceSnapshot(r) \in Snapshots
<1>1. NoSnapshot \in Snapshots
  BY DEF Snapshots
<1>2. ASSUME IsRollback(r)
      PROVE  updateRun[updateRun[r].of].snapshot \in Snapshots
  BY <1>2 DEF PackagesInv, PackagesTypeOK, UpdateRow, IsRollback
<1> QED
  BY <1>1, <1>2 DEF SourceSnapshot

\* A run begins by looking at what is installed, a rollback with its source in hand.
LEMMA BeginsKeeps ==
    ASSUME PackagesInv, NEW r \in Updates, UpdateBegins(r)
    PROVE  PackagesInv'
<1> DEFINE R == [updateRun[r] EXCEPT !.status = "running", !.stage = "capture",
                                     !.target = SourceSnapshot(r)]
<1>1. /\ updateRun[r] \in UpdateRow /\ updateRun[r].status = "pending"
      /\ IsRollback(r) => SourceSnapshot(r) # NoSnapshot
      /\ updateRun' = [updateRun EXCEPT ![r] = R]
      /\ UNCHANGED <<latest, version, held, noted, hold, holds, touched, overtaken>>
  BY DEF PackagesInv, PackagesTypeOK, UpdateBegins, aptState
<1>2. /\ R \in UpdateRow /\ R.stage = "capture" /\ R.of = updateRun[r].of
      /\ R.target = SourceSnapshot(r)
  BY <1>1, SourceIsSnapshot DEF UpdateRow
<1> HIDE DEF R
<1>3. /\ TargetLoaded' /\ updateRun' \in [Updates -> UpdateRow]
      /\ updateRun'[r] = R
      /\ \A x \in Updates \ {r} : updateRun'[x] = updateRun[x]
  BY <1>1, <1>2, RowMovesOn DEF IsRollback
<1>4. ComparedHolds'
  BY <1>1, <1>2, <1>3 DEF PackagesInv, ComparedHolds, UpdateAt, IsRollback
<1> QED
  BY <1>1, <1>3, <1>4 DEF PackagesInv, PackagesTypeOK

\* A rollback whose source is gone fails.
LEMMA LosesSourceKeeps ==
    ASSUME PackagesInv, NEW r \in Updates, RollbackLosesSource(r)
    PROVE  PackagesInv'
<1> DEFINE R == [updateRun[r] EXCEPT !.status = "failed"]
<1>1. /\ updateRun[r] \in UpdateRow
      /\ updateRun' = [updateRun EXCEPT ![r] = R]
      /\ UNCHANGED <<latest, version, held, noted, hold, holds, touched, overtaken>>
  BY DEF PackagesInv, PackagesTypeOK, RollbackLosesSource, aptState
<1>2. R \in UpdateRow /\ R.status = "failed"
  BY <1>1 DEF UpdateRow
<1> HIDE DEF R
<1>3. /\ TargetLoaded' /\ updateRun' \in [Updates -> UpdateRow]
      /\ updateRun'[r] = R
      /\ \A x \in Updates \ {r} : updateRun'[x] = updateRun[x]
  BY <1>1, <1>2, RowMovesOn
<1>4. ComparedHolds'
  BY <1>1, <1>2, <1>3 DEF PackagesInv, ComparedHolds, UpdateAt, IsRollback
<1> QED
  BY <1>1, <1>3, <1>4 DEF PackagesInv, PackagesTypeOK

\* What a rollback compares is what it has just read.
LEMMA CapturesKeeps ==
    ASSUME PackagesInv, NEW r \in Updates, Captures(r) \/ CaptureFails(r)
    PROVE  PackagesInv'
<1> DEFINE old == updateRun[r]
           C == [old EXCEPT !.stage = "apt",
                            !.snapshot = IF IsRollback(r) THEN old.snapshot ELSE version,
                            !.current = IF IsRollback(r) THEN version ELSE old.current]
           F == [old EXCEPT !.stage = IF IsRollback(r) THEN "" ELSE "apt",
                            !.status = IF IsRollback(r) THEN "failed" ELSE old.status]
<1>1. /\ old \in UpdateRow /\ old.status = "running"
      /\ \/ updateRun' = [updateRun EXCEPT ![r] = C]
         \/ updateRun' = [updateRun EXCEPT ![r] = F]
      /\ UNCHANGED <<latest, version, held, noted, hold, holds, touched, overtaken>>
  BY DEF PackagesInv, PackagesTypeOK, Captures, CaptureFails, UpdateAt, aptState
<1>2. version \in Snapshots
  BY DEF PackagesInv, PackagesTypeOK, Snapshots
<1>3. PICK R \in {C, F} : updateRun' = [updateRun EXCEPT ![r] = R]
  BY <1>1
<1>4. /\ C \in UpdateRow /\ C.of = old.of /\ C.target = old.target
      /\ IsRollback(r) => C.current = version
  BY <1>1, <1>2 DEF UpdateRow
<1>5. /\ F \in UpdateRow /\ F.of = old.of /\ F.target = old.target
      /\ IsRollback(r) => F.status = "failed"
  BY <1>1 DEF UpdateRow
<1>6. /\ R \in UpdateRow /\ R.of = old.of /\ R.target = old.target
      /\ IsRollback(r) => R.current = version \/ R.status = "failed"
  BY <1>3, <1>4, <1>5
<1> HIDE DEF C, F
<1>7. /\ TargetLoaded' /\ updateRun' \in [Updates -> UpdateRow]
      /\ updateRun'[r] = R
      /\ \A x \in Updates \ {r} : updateRun'[x] = updateRun[x]
  BY <1>1, <1>3, <1>6, RowMovesOn DEF PackagesInv, TargetLoaded, IsRollback
<1>8. ComparedHolds'
  <2>1. SUFFICES ASSUME NEW x \in Updates \ overtaken, UpdateAt(x, "apt")', IsRollback(x)'
                 PROVE  updateRun'[x].current = version
    BY <1>1 DEF ComparedHolds
  <2>2. CASE x = r
    BY <1>6, <1>7, <2>1, <2>2 DEF UpdateAt, IsRollback
  <2>3. CASE x # r
    BY <1>7, <2>1, <2>3 DEF PackagesInv, ComparedHolds, UpdateAt, IsRollback
  <2> QED
    BY <2>2, <2>3
<1> QED
  BY <1>1, <1>7, <1>8 DEF PackagesInv, PackagesTypeOK

\* apt changes versions: rollbacks that have compared are overtaken.
LEMMA InstallsKeeps ==
    ASSUME PackagesInv, NEW r \in Updates, NEW new \in [Names -> Versions], NEW ok \in BOOLEAN,
           UpdateAt(r, "apt"), Installs(r, new, ok)
    PROVE  PackagesInv'
<1> DEFINE R == [updateRun[r] EXCEPT !.stage = "", !.status = IF ok THEN "succeeded" ELSE "failed"]
<1>1. /\ updateRun[r] \in UpdateRow /\ updateRun[r].status = "running"
      /\ updateRun' = [updateRun EXCEPT ![r] = R]
      /\ version' = new
      /\ touched' = [touched EXCEPT ![r] = {n \in Names : new[n] # version[n]}]
      /\ overtaken' = IF new = version THEN overtaken
                      ELSE overtaken
                           \cup {x \in Updates \ {r} : UpdateAt(x, "apt") /\ IsRollback(x)}
      /\ UNCHANGED <<latest, held, noted, hold, holds>>
  BY DEF PackagesInv, PackagesTypeOK, Installs, UpdateAt
<1>2. R \in UpdateRow /\ R.stage = "" /\ R.status # "running"
  BY <1>1 DEF UpdateRow
<1> HIDE DEF R
<1>3. /\ TargetLoaded' /\ updateRun' \in [Updates -> UpdateRow]
      /\ updateRun'[r] = R
      /\ \A x \in Updates \ {r} : updateRun'[x] = updateRun[x]
  BY <1>1, <1>2, RowMovesOn
<1>4. overtaken \subseteq overtaken' /\ overtaken' \subseteq Updates
  BY <1>1 DEF PackagesInv, PackagesTypeOK
<1>5. touched' \in [Updates -> SUBSET Names]
  <2>1. {n \in Names : new[n] # version[n]} \in SUBSET Names
    OBVIOUS
  <2> QED
    BY <1>1, <2>1 DEF PackagesInv, PackagesTypeOK
<1>6. ComparedHolds'
  <2>1. SUFFICES ASSUME NEW x \in Updates \ overtaken', UpdateAt(x, "apt")', IsRollback(x)'
                 PROVE  updateRun'[x].current = version'
    BY DEF ComparedHolds
  <2>2. x # r
    BY <1>2, <1>3, <2>1 DEF UpdateAt
  <2>3. UpdateAt(x, "apt") /\ IsRollback(x) /\ updateRun'[x] = updateRun[x]
    BY <1>3, <2>1, <2>2 DEF UpdateAt, IsRollback
  <2>4. new = version
    BY <1>1, <2>1, <2>2, <2>3
  <2>5. updateRun[x].current = version
    BY <1>4, <2>1, <2>3 DEF PackagesInv, ComparedHolds
  <2> QED
    BY <1>1, <2>3, <2>4, <2>5
<1>7. PackagesTypeOK'
  BY <1>1, <1>3, <1>4, <1>5 DEF PackagesInv, PackagesTypeOK
<1> QED
  BY <1>3, <1>6, <1>7 DEF PackagesInv

\* An update installs what is published.
LEMMA UpgradesKeeps ==
    ASSUME PackagesInv, NEW r \in Updates, NEW U, NEW gone, NEW ok \in BOOLEAN,
           Upgrades(r, U, gone, ok), PackagesConstants
    PROVE  PackagesInv'
<1> DEFINE new == [n \in Names |-> IF n \in U THEN latest[n]
                                   ELSE IF n \in gone THEN 0 ELSE version[n]]
<1>1. new \in [Names -> Versions]
  <2>1. 0 \in Versions
    BY DEF PackagesConstants, Versions
  <2> QED
    BY <2>1 DEF PackagesInv, PackagesTypeOK
<1>2. UpdateAt(r, "apt") /\ Installs(r, new, ok)
  BY DEF Upgrades
<1> QED
  BY <1>1, <1>2, InstallsKeeps

\* The snapshot a rollback goes back to names every package.
LEMMA TargetIsSnapshot ==
    ASSUME PackagesInv, NEW r \in Updates, IsRollback(r), UpdateAt(r, "apt")
    PROVE  Target(r) \in [Names -> Versions]
BY DEF PackagesInv, PackagesTypeOK, UpdateRow, TargetLoaded, UpdateAt, Target, Snapshots

\* A rollback installs what its snapshot names.
LEMMA ReinstallsKeeps ==
    ASSUME PackagesInv, NEW r \in Updates, NEW D, NEW ok \in BOOLEAN, Reinstalls(r, D, ok)
    PROVE  PackagesInv'
<1> DEFINE new == [n \in Names |-> IF n \in D THEN Target(r)[n] ELSE version[n]]
<1>1. IsRollback(r) /\ UpdateAt(r, "apt") /\ Installs(r, new, ok)
  BY DEF Reinstalls
<1>2. new \in [Names -> Versions]
  BY <1>1, TargetIsSnapshot DEF PackagesInv, PackagesTypeOK
<1> QED
  BY <1>1, <1>2, InstallsKeeps

\* A finished run is purged; the rollbacks that have loaded it go on.
LEMMA PurgeKeeps ==
    ASSUME PackagesConstants, PackagesInv, NEW s \in Updates, Purge(s)
    PROVE  PackagesInv'
<1> DEFINE Gone == [Blank EXCEPT !.status = "purged"]
<1>1. /\ UNCHANGED <<latest, version, held, noted, hold, holds, touched, overtaken>>
      /\ updateRun' = [updateRun EXCEPT ![s] = Gone]
  BY DEF Purge, aptState
<1>2. Gone \in UpdateRow /\ Gone.status = "purged"
  BY DEF Blank, UpdateRow, Snapshots
<1> HIDE DEF Gone
<1>3. /\ TargetLoaded' /\ updateRun' \in [Updates -> UpdateRow]
      /\ updateRun'[s] = Gone
      /\ \A x \in Updates \ {s} : updateRun'[x] = updateRun[x]
  BY <1>1, <1>2, RowMovesOn
<1>4. ComparedHolds'
  BY <1>1, <1>2, <1>3 DEF PackagesInv, ComparedHolds, UpdateAt, IsRollback
<1> QED
  BY <1>1, <1>3, <1>4 DEF PackagesInv, PackagesTypeOK

\* Holds, releases and checks touch no run and no version.
LEMMA HoldsAreApart ==
    ASSUME PackagesInv, PackagesTypeOK', UNCHANGED <<version, updateRun, overtaken>>
    PROVE  PackagesInv'
BY DEF PackagesInv, TargetLoaded, ComparedHolds, UpdateAt, IsRollback

\* A new version is published.
LEMMA PublishKeeps ==
    ASSUME PackagesConstants, PackagesInv, NEW n \in Names, Publish(n)
    PROVE  PackagesInv'
<1>1. latest[n] + 1 \in Versions
  BY DEF PackagesInv, PackagesTypeOK, Publish, Versions, PackagesConstants
<1>2. PackagesTypeOK'
  BY <1>1 DEF PackagesInv, PackagesTypeOK, Publish
<1> QED
  BY <1>2, HoldsAreApart DEF Publish

\* A hold, a release or a check begins with the row.
LEMMA HoldBeginsKeeps ==
    ASSUME PackagesConstants, PackagesInv, NEW t \in HoldTasks,
           NEW kind \in {"hold", "unhold", "check"}, NEW name \in SUBSET Names,
           HoldBegins(t, kind, name)
    PROVE  PackagesInv'
<1> DEFINE T == [NoHold EXCEPT !.kind = kind, !.name = name, !.copy = noted]
<1>1. T \in HoldTask
  BY DEF NoHold, HoldTask, PackagesInv, PackagesTypeOK
<1>2. /\ hold' = [hold EXCEPT ![t] = T] /\ holds' = holds + 1 /\ holds < MaxHolds
      /\ UNCHANGED <<latest, version, held, noted, updateRun, touched, overtaken>>
  BY DEF HoldBegins, aptState
<1> HIDE DEF T
<1>3. hold' \in [HoldTasks -> HoldTask] /\ holds' \in 0..MaxHolds
  BY <1>1, <1>2 DEF PackagesInv, PackagesTypeOK, PackagesConstants
<1>4. PackagesTypeOK'
  BY <1>2, <1>3 DEF PackagesInv, PackagesTypeOK
<1> QED
  BY <1>2, <1>4, HoldsAreApart

\* apt-mark runs, the task ends, or it fails.
LEMMA HoldGoesOn ==
    ASSUME PackagesInv, NEW t \in HoldTasks,
           MarksOnMachine(t) \/ HoldFails(t) \/ HoldEnds(t)
    PROVE  PackagesInv'
<1>1. hold[t] \in HoldTask /\ held \subseteq Names /\ noted \subseteq Names
  BY DEF PackagesInv, PackagesTypeOK
<1>2. Marked(t) \subseteq Names /\ Known(t) \subseteq Names
  BY <1>1 DEF Marked, Known, HoldTask
<1>3. NoHold \in HoldTask
  BY DEF NoHold, HoldTask
<1>4. [hold[t] EXCEPT !.done = TRUE, !.read = held] \in HoldTask
  BY <1>1 DEF HoldTask
<1>5. CASE MarksOnMachine(t)
  <2>1. hold' \in [HoldTasks -> HoldTask]
    BY <1>4, <1>5 DEF MarksOnMachine, PackagesInv, PackagesTypeOK
  <2>2. PackagesTypeOK'
    BY <1>2, <1>5, <2>1 DEF MarksOnMachine, PackagesInv, PackagesTypeOK
  <2> QED
    BY <1>5, <2>2, HoldsAreApart DEF MarksOnMachine
<1>6. CASE HoldFails(t)
  <2>1. PackagesTypeOK'
    BY <1>3, <1>6 DEF HoldFails, PackagesInv, PackagesTypeOK, aptState
  <2> QED
    BY <1>6, <2>1, HoldsAreApart DEF HoldFails, aptState
<1>7. CASE HoldEnds(t)
  <2>1. PackagesTypeOK'
    BY <1>2, <1>3, <1>7 DEF HoldEnds, PackagesInv, PackagesTypeOK, aptState
  <2> QED
    BY <1>7, <2>1, HoldsAreApart DEF HoldEnds, aptState
<1> QED
  BY <1>5, <1>6, <1>7

\* Every step of the packages keeps the invariant.
LEMMA PackagesStep ==
    ASSUME PackagesConstants, PackagesInv, [PackagesNext]_packageVars
    PROVE  PackagesInv'
<1>1. ASSUME NEW r \in Updates, TriggerUpdate(r) \/ TriggerUpdateApi(r)
      PROVE  PackagesInv'
  BY <1>1, TriggerKeeps DEF TriggerUpdate, TriggerUpdateApi
<1>2. ASSUME NEW r \in Updates, NEW s \in Updates, TriggerRollback(r, s)
      PROVE  PackagesInv'
  BY <1>2, TriggerKeeps DEF TriggerRollback
<1>3. ASSUME NEW t \in HoldTasks, NEW n \in Names,
             SetPackageHold(t, n) \/ SetPackageHoldApi(t, n)
      PROVE  PackagesInv'
  BY <1>3, HoldBeginsKeeps DEF SetPackageHold, SetPackageHoldApi
<1>4. ASSUME NEW t \in HoldTasks, CheckUpdates(t) \/ CheckUpdatesApi(t)
      PROVE  PackagesInv'
  BY <1>4, HoldBeginsKeeps DEF CheckUpdates, CheckUpdatesApi
<1>5. CASE UNCHANGED packageVars
  BY <1>5 DEF packageVars, PackagesInv, PackagesTypeOK, TargetLoaded, ComparedHolds,
     UpdateAt, IsRollback
<1> QED
  BY <1>1, <1>2, <1>3, <1>4, <1>5, PublishKeeps, BeginsKeeps, LosesSourceKeeps, CapturesKeeps,
     UpgradesKeeps, ReinstallsKeeps, PurgeKeeps, HoldGoesOn DEF PackagesNext

\* Runs, versions and holds keep their types.
THEOREM PackagesTypeCorrect == ASSUME PackagesConstants PROVE PackagesSpec => []PackagesTypeOK
<1>1. PackagesInit => PackagesInv
  BY PackagesStart
<1>2. PackagesInv /\ [PackagesNext]_packageVars => PackagesInv'
  BY PackagesStep
<1>3. PackagesInv => PackagesTypeOK
  BY DEF PackagesInv
<1> QED
  BY <1>1, <1>2, <1>3, PTL DEF PackagesSpec

\* Only apt ends a rollback well.
LEMMA OnlyReinstallsEndsWell ==
    ASSUME PackagesInv, PackagesNext, NEW r \in Updates, EndsWell(r)
    PROVE  Reinstalls(r, Differing(r), TRUE)
<1>1. updateRun[r] \in UpdateRow /\ updateRun[r].status = "running" /\ IsRollback(r)
      /\ updateRun'[r].status = "succeeded"
  BY DEF EndsWell, PackagesInv, PackagesTypeOK
<1>2. updateRun'[r] # updateRun[r]
  BY <1>1
<1>3. ASSUME NEW x \in Updates, NEW new, NEW ok \in BOOLEAN, UpdateAt(x, "apt"),
             Installs(x, new, ok)
      PROVE  x = r /\ ok
  <2>1. x = r
    BY <1>2, <1>3 DEF Installs, PackagesInv, PackagesTypeOK
  <2>2. updateRun'[r].status = IF ok THEN "succeeded" ELSE "failed"
    BY <1>1, <1>3, <2>1 DEF Installs, PackagesInv, PackagesTypeOK, UpdateRow
  <2> QED
    BY <1>1, <2>1, <2>2
<1>4. ASSUME NEW x \in Updates, NEW D, NEW ok \in BOOLEAN, Reinstalls(x, D, ok)
      PROVE  Reinstalls(r, Differing(r), TRUE)
  <2>1. x = r /\ ok
    BY <1>3, <1>4 DEF Reinstalls
  <2>2. ok = TRUE /\ D = Differing(r)
    BY <1>4, <2>1 DEF Reinstalls
  <2> QED
    BY <1>4, <2>1, <2>2
<1>5. ASSUME NEW x \in Updates, NEW U, NEW gone, NEW ok \in BOOLEAN, Upgrades(x, U, gone, ok)
      PROVE  FALSE
  BY <1>1, <1>3, <1>5 DEF Upgrades
<1>6. ASSUME NEW x \in Updates, NEW of, Trigger(x, of)
      PROVE  FALSE
  <2>1. x = r
    BY <1>2, <1>6 DEF Trigger, PackagesInv, PackagesTypeOK
  <2> QED
    BY <1>1, <1>6, <2>1 DEF Trigger
<1>7. ASSUME NEW x \in Updates, UpdateBegins(x)
      PROVE  FALSE
  <2>1. x = r
    BY <1>2, <1>7 DEF UpdateBegins, PackagesInv, PackagesTypeOK
  <2> QED
    BY <1>1, <1>7, <2>1 DEF UpdateBegins
<1>8. ASSUME NEW x \in Updates, Captures(x) \/ CaptureFails(x)
      PROVE  FALSE
  <2>1. x = r
    BY <1>2, <1>8 DEF Captures, CaptureFails, PackagesInv, PackagesTypeOK
  <2>2. CASE Captures(r)
    <3>1. updateRun'[r].status = updateRun[r].status
      BY <1>1, <2>2 DEF Captures, PackagesInv, PackagesTypeOK, UpdateRow
    <3> QED
      BY <1>1, <3>1
  <2>3. CASE CaptureFails(r)
    <3>1. updateRun'[r].status = IF IsRollback(r) THEN "failed" ELSE updateRun[r].status
      BY <1>1, <2>3 DEF CaptureFails, PackagesInv, PackagesTypeOK, UpdateRow
    <3> QED
      BY <1>1, <3>1
  <2> QED
    BY <1>8, <2>1, <2>2, <2>3
<1>9. ASSUME NEW s \in Updates, Purge(s)
      PROVE  FALSE
  <2>1. s = r
    BY <1>2, <1>9 DEF Purge, PackagesInv, PackagesTypeOK
  <2> QED
    BY <1>1, <1>9, <2>1 DEF Purge
<1>11. ASSUME NEW x \in Updates, RollbackLosesSource(x)
      PROVE  FALSE
  <2>1. x = r
    BY <1>2, <1>11 DEF RollbackLosesSource, PackagesInv, PackagesTypeOK
  <2> QED
    BY <1>1, <1>11, <2>1 DEF RollbackLosesSource
<1>10. updateRun' # updateRun
  BY <1>2
<1> QED
  BY <1>4, <1>5, <1>6, <1>7, <1>8, <1>9, <1>10, <1>11
     DEF PackagesNext, Publish, TriggerUpdate, TriggerUpdateApi, TriggerRollback, SetPackageHold,
         SetPackageHoldApi, CheckUpdates, CheckUpdatesApi, HoldBegins, MarksOnMachine, HoldFails,
         HoldEnds

\* What differs from the snapshot is installed from it, and the rest did not differ.
LEMMA EndsWellRestores ==
    ASSUME PackagesInv, NEW r \in Updates \ overtaken, Reinstalls(r, Differing(r), TRUE),
           NEW n \in Names, Target(r)[n] # 0, version'[n] # 0
    PROVE  version'[n] = Target(r)[n]
<1>1. /\ UpdateAt(r, "apt") /\ IsRollback(r)
      /\ version' = [m \in Names |-> IF m \in Differing(r) THEN Target(r)[m] ELSE version[m]]
  BY DEF Reinstalls, Installs
<1>2. updateRun[r].current = version
  BY <1>1 DEF PackagesInv, ComparedHolds
<1>3. CASE n \in Differing(r)
  BY <1>1, <1>3
<1>4. CASE n \notin Differing(r)
  <2>1. version'[n] = version[n]
    BY <1>1, <1>4
  <2> QED
    BY <1>2, <1>4, <2>1 DEF Differing
<1> QED
  BY <1>3, <1>4

\* A rollback that succeeds leaves every package that the snapshot it has loaded names and
\* that is still installed in that version, also when its source is purged meanwhile,
\* unless another run came between (_rollback_honeypot_update).
THEOREM RollbackRestoresAlways ==
    ASSUME PackagesConstants
    PROVE  PackagesSpec => RollbackRestores
<1>1. PackagesInit => PackagesInv
  BY PackagesStart
<1>2. PackagesInv /\ [PackagesNext]_packageVars => PackagesInv'
  BY PackagesStep
<1>3. ASSUME PackagesInv, PackagesNext
      PROVE  \A r \in Updates : EndsWell(r) /\ r \notin overtaken =>
                \A n \in Names :
                    LET old == Target(r)[n]
                    IN  old # 0 /\ version'[n] # 0 => version'[n] = old
  BY <1>3, OnlyReinstallsEndsWell, EndsWellRestores
<1>4. PackagesInv /\ [PackagesNext]_packageVars =>
      [\A r \in Updates : EndsWell(r) /\ r \notin overtaken =>
          \A n \in Names :
              LET old == Target(r)[n]
              IN  old # 0 /\ version'[n] # 0 => version'[n] = old]_packageVars
  BY <1>3
<1> QED
  BY <1>1, <1>2, <1>4, PTL DEF PackagesSpec, RollbackRestores

-----------------------------------------------------------------------------
\* Initialize: a success is a machine whose script ran and that is back.

\* A run that has sent its script has one, for the machine whose key it saw and the
\* port it asked for; and it waits only for a machine whose script came to its end.
RunMatches(r) ==
    /\ InitAt(r, "detect") \/ InitAt(r, "open") => initRun[r].key \in Devices
    /\ InitAt(r, "running") \/ InitAt(r, "waiting") =>
          /\ script[r] # NoDevice
          /\ script[r].machine = initRun[r].key
          /\ script[r].asked = initRun[r].asked
    /\ InitAt(r, "waiting") => r \in ran

InitializeInv == InitializeTypeOK /\ \A r \in InitRuns : RunMatches(r)

\* A script stays where it is and asks for what it asks: its place changes.
SameScript(r) ==
    script[r] # NoDevice =>
        /\ script'[r] # NoDevice
        /\ script'[r].machine = script[r].machine
        /\ script'[r].asked = script[r].asked

\* Initialize starts with no run and every machine on.
LEMMA InitializeStart == ASSUME InitializeConstants PROVE InitializeInit => InitializeInv
<1> SUFFICES ASSUME InitializeInit PROVE InitializeInv
  OBVIOUS
<1>1. InitializeTypeOK
  BY DEF InitializeInit, InitializeTypeOK, InitializeConstants
<1>2. \A r \in InitRuns : RunMatches(r)
  BY DEF InitializeInit, RunMatches, InitAt
<1> QED
  BY <1>1, <1>2 DEF InitializeInv

\* A run that is not the step's keeps what it relies on.
LEMMA OtherRunKeeps ==
    ASSUME NEW r \in InitRuns, RunMatches(r), initRun'[r] = initRun[r], SameScript(r),
           ran \subseteq ran'
    PROVE  RunMatches(r)'
BY DEF RunMatches, InitAt, SameScript

\* A run moves to another stage, or ends.
LEMMA RunMoves ==
    ASSUME InitializeInv, NEW r \in InitRuns, NEW R \in RunRow \cup {NoDevice},
           initRun' = [initRun EXCEPT ![r] = R], UNCHANGED <<script, ran>>,
           R # NoDevice =>
               /\ R.stage \in {"detect", "open"} => R.key \in Devices
               /\ R.stage \in {"running", "waiting"} =>
                     /\ script[r] # NoDevice
                     /\ script[r].machine = R.key
                     /\ script[r].asked = R.asked
               /\ R.stage = "waiting" => r \in ran
    PROVE  /\ initRun' \in [InitRuns -> RunRow \cup {NoDevice}]
           /\ \A x \in InitRuns : RunMatches(x)'
<1>1. /\ initRun' \in [InitRuns -> RunRow \cup {NoDevice}]
      /\ initRun'[r] = R
      /\ \A x \in InitRuns \ {r} : initRun'[x] = initRun[x]
  BY DEF InitializeInv, InitializeTypeOK
<1>2. RunMatches(r)'
  BY <1>1 DEF RunMatches, InitAt
<1>3. ASSUME NEW x \in InitRuns \ {r} PROVE RunMatches(x)'
  BY <1>1, OtherRunKeeps DEF InitializeInv, SameScript
<1> QED
  BY <1>1, <1>2, <1>3

\* A run begins with no key.
LEMMA InitBeginsKeeps ==
    ASSUME InitializeConstants, InitializeInv, NEW r \in InitRuns, NEW wanted \in Ports,
           InitBegins(r, wanted)
    PROVE  InitializeInv'
<1> DEFINE R == [stage |-> "discover", key |-> NoDevice, asked |-> wanted]
<1>1. R \in RunRow /\ R.stage = "discover"
  BY DEF RunRow, InitStages
<1>2. initRun' = [initRun EXCEPT ![r] = R]
      /\ UNCHANGED <<script, history, port, power, answering, moves, ran, rebooted, early>>
      /\ form' = [form EXCEPT ![r] = "taken"]
  BY DEF InitBegins, device
<1> HIDE DEF R
<1>3. /\ initRun' \in [InitRuns -> RunRow \cup {NoDevice}]
      /\ \A x \in InitRuns : RunMatches(x)'
  BY <1>1, <1>2, RunMoves
<1> QED
  BY <1>2, <1>3 DEF InitializeInv, InitializeTypeOK

\* A form comes, ages or goes.
LEMMA FormKeeps ==
    ASSUME InitializeInv, NEW r \in InitRuns, SubmitForm(r) \/ Ages(r) \/ OpenPage
    PROVE  InitializeInv'
<1>1. Purged \in [InitRuns -> {"none", "fresh", "stale", "taken"}]
  BY DEF Purged, InitializeInv, InitializeTypeOK
<1>2. form' \in [InitRuns -> {"none", "fresh", "stale", "taken"}]
      /\ UNCHANGED <<initRun, script, history, port, power, answering, moves, ran, rebooted,
                     early>>
  BY <1>1 DEF SubmitForm, Ages, OpenPage, device, InitializeInv, InitializeTypeOK
<1>3. \A x \in InitRuns : RunMatches(x)'
  BY <1>2, OtherRunKeeps DEF InitializeInv, SameScript
<1> QED
  BY <1>2, <1>3 DEF InitializeInv, InitializeTypeOK

\* The first connection shows a machine's key; the next ones keep to it.
LEMMA ConnectionKeeps ==
    ASSUME InitializeConstants, InitializeInv, NEW r \in InitRuns,
           (\E d \in Devices : Discover(r, d)) \/ Detect(r)
    PROVE  InitializeInv'
<1>1. UNCHANGED <<form, script, history, port, power, answering, moves, ran, rebooted, early>>
  BY DEF Discover, Detect, Goes, device
<1>2. initRun[r] \in RunRow
  BY DEF Discover, Detect, InitAt, InitializeInv, InitializeTypeOK
<1>3. PICK R \in RunRow : /\ initRun' = [initRun EXCEPT ![r] = R]
                          /\ R.stage \in {"detect", "open"} /\ R.key \in Devices
  <2>1. CASE \E d \in Devices : Discover(r, d)
    <3>1. PICK d \in Devices : Discover(r, d)
      BY <2>1
    <3> DEFINE R == [initRun[r] EXCEPT !.key = d, !.stage = "detect"]
    <3>2. R \in RunRow /\ R.stage = "detect" /\ R.key \in Devices
      BY <1>2 DEF RunRow, InitStages
    <3>3. initRun' = [initRun EXCEPT ![r] = R]
      BY <3>1 DEF Discover
    <3> QED
      BY <3>2, <3>3
  <2>2. CASE Detect(r)
    <3> DEFINE R == [initRun[r] EXCEPT !.stage = "open"]
    <3>1. R \in RunRow /\ R.stage = "open" /\ R.key = initRun[r].key
      BY <1>2 DEF RunRow, InitStages
    <3>2. initRun' = [initRun EXCEPT ![r] = R]
      BY <2>2 DEF Detect, Goes
    <3>3. initRun[r].key \in Devices
      BY <2>2 DEF Detect, InitializeInv, RunMatches
    <3> QED
      BY <3>1, <3>2, <3>3
  <2> QED
    BY <2>1, <2>2
<1>4. R # NoDevice
  BY DEF InitializeConstants
<1>5. /\ initRun' \in [InitRuns -> RunRow \cup {NoDevice}]
      /\ \A x \in InitRuns : RunMatches(x)'
  BY <1>1, <1>3, <1>4, RunMoves
<1> QED
  BY <1>1, <1>5 DEF InitializeInv, InitializeTypeOK

\* The script starts on the machine whose key the run saw.
LEMMA OpenScriptKeeps ==
    ASSUME InitializeConstants, InitializeInv, NEW r \in InitRuns, OpenScript(r)
    PROVE  InitializeInv'
<1> DEFINE R == [initRun[r] EXCEPT !.stage = "running"]
           S == [at |-> "preparing", machine |-> initRun[r].key, asked |-> initRun[r].asked]
<1>1. initRun[r] \in RunRow /\ initRun[r].key \in Devices
  BY DEF OpenScript, InitAt, RunMatches, InitializeInv, InitializeTypeOK
<1>2. /\ R \in RunRow /\ R.stage = "running" /\ R.key = initRun[r].key
      /\ R.asked = initRun[r].asked
  BY <1>1 DEF RunRow, InitStages
<1>3. S \in ScriptRow /\ S.machine = initRun[r].key /\ S.asked = initRun[r].asked
  BY <1>1 DEF RunRow, ScriptRow
<1>4. /\ initRun' = [initRun EXCEPT ![r] = R] /\ script' = [script EXCEPT ![r] = S]
      /\ UNCHANGED <<form, history, port, power, answering, moves, ran, rebooted, early>>
  BY DEF OpenScript, device
<1> HIDE DEF R, S
<1>5. /\ initRun' \in [InitRuns -> RunRow \cup {NoDevice}] /\ initRun'[r] = R
      /\ script' \in [InitRuns -> ScriptRow \cup {NoDevice}] /\ script'[r] = S
      /\ \A x \in InitRuns \ {r} : initRun'[x] = initRun[x] /\ script'[x] = script[x]
  BY <1>2, <1>3, <1>4 DEF InitializeInv, InitializeTypeOK
<1>6. S # NoDevice
  BY <1>3 DEF InitializeConstants
<1>7. RunMatches(r)'
  BY <1>2, <1>3, <1>5, <1>6 DEF RunMatches, InitAt
<1>8. ASSUME NEW x \in InitRuns \ {r} PROVE RunMatches(x)'
  BY <1>4, <1>5, OtherRunKeeps DEF InitializeInv, SameScript
<1>9. InitializeTypeOK'
  BY <1>4, <1>5 DEF InitializeInv, InitializeTypeOK
<1> QED
  BY <1>7, <1>8, <1>9 DEF InitializeInv

\* The end of a run, whatever is written about it.
LEMMA RecordedKeeps ==
    ASSUME InitializeInv, NEW r \in InitRuns, NEW verdict \in {"success", "failure", "lost"},
           Recorded(r, verdict), early' \subseteq InitRuns
    PROVE  InitializeInv'
<1>1. /\ initRun' = [initRun EXCEPT ![r] = NoDevice]
      /\ history' = [history EXCEPT ![r] = verdict]
      /\ UNCHANGED <<form, script, port, power, answering, moves, ran, rebooted>>
  BY DEF Recorded, device
<1>2. /\ initRun' \in [InitRuns -> RunRow \cup {NoDevice}]
      /\ \A x \in InitRuns : RunMatches(x)'
  BY <1>1, RunMoves
<1> QED
  BY <1>1, <1>2 DEF InitializeInv, InitializeTypeOK

\* A run ends: refused, interrupted, killed, or its machine is back.
LEMMA EndKeeps ==
    ASSUME InitializeInv, NEW r \in InitRuns,
           \/ CannotConnect(r) \/ Interrupted(r) \/ Dies(r)
           \/ \E d \in Devices : ComesBack(r, d)
    PROVE  InitializeInv'
<1>1. early \subseteq InitRuns
  BY DEF InitializeInv, InitializeTypeOK
<1>2. ASSUME Fails(r) PROVE InitializeInv'
  BY <1>1, <1>2, RecordedKeeps DEF Fails
<1>3. CASE Dies(r)
  BY <1>1, <1>3, RecordedKeeps DEF Dies
<1>4. ASSUME NEW d \in Devices, ComesBack(r, d) PROVE InitializeInv'
  <2>1. early' \subseteq InitRuns
    BY <1>1, <1>4 DEF ComesBack
  <2>2. PICK verdict \in {"success", "failure"} : Recorded(r, verdict)
    BY <1>4 DEF ComesBack
  <2> QED
    BY <2>1, <2>2, RecordedKeeps
<1> QED
  BY <1>2, <1>3, <1>4 DEF CannotConnect, Interrupted

\* A run waits only once its script's last line came through.
LEMMA ScriptEndsKeeps ==
    ASSUME InitializeConstants, InitializeInv, NEW r \in InitRuns, ScriptEnds(r)
    PROVE  InitializeInv'
<1>1. CASE ~Finished(r)
  <2>1. Recorded(r, "failure") /\ UNCHANGED early
    BY <1>1 DEF ScriptEnds, Fails
  <2> QED
    BY <2>1, RecordedKeeps DEF InitializeInv, InitializeTypeOK
<1>2. CASE Finished(r)
  <2> DEFINE R == [initRun[r] EXCEPT !.stage = "waiting"]
  <2>1. InitAt(r, "running") /\ Goes(r, "waiting") /\ r \in ran
    BY <1>2 DEF ScriptEnds, Finished
  <2>2. initRun[r] \in RunRow
    BY <2>1 DEF InitAt, InitializeInv, InitializeTypeOK
  <2>3. /\ R \in RunRow /\ R.stage = "waiting" /\ R.key = initRun[r].key
        /\ R.asked = initRun[r].asked
    BY <2>2 DEF RunRow, InitStages
  <2>4. /\ initRun' = [initRun EXCEPT ![r] = R]
        /\ UNCHANGED <<form, script, history, port, power, answering, moves, ran, rebooted,
                       early>>
    BY <2>1 DEF Goes, device
  <2>5. script[r] # NoDevice /\ script[r].machine = R.key /\ script[r].asked = R.asked
    BY <2>1, <2>3 DEF InitializeInv, RunMatches
  <2> HIDE DEF R
  <2>6. /\ initRun' \in [InitRuns -> RunRow \cup {NoDevice}]
        /\ \A x \in InitRuns : RunMatches(x)'
    BY <2>1, <2>3, <2>4, <2>5, RunMoves
  <2> QED
    BY <2>4, <2>6 DEF InitializeInv, InitializeTypeOK
<1> QED
  BY <1>1, <1>2

\* A line of the script moves it on and nothing else of it.
LEMMA StepsMove ==
    ASSUME InitializeConstants, InitializeInv, NEW r \in InitRuns, NEW from,
           NEW to \in {"port", "marker", "reboot", "over", "failed"}, Steps(r, from, to)
    PROVE  /\ script' \in [InitRuns -> ScriptRow \cup {NoDevice}]
           /\ \A x \in InitRuns : SameScript(x)
           /\ script[r].machine \in Devices /\ script[r].asked \in Ports
           /\ UNCHANGED <<form, initRun, history, answering, moves, rebooted, early>>
<1> DEFINE S == [script[r] EXCEPT !.at = to]
<1>1. script[r] \in ScriptRow /\ script' = [script EXCEPT ![r] = S]
  BY DEF Steps, InitializeInv, InitializeTypeOK
<1>2. S \in ScriptRow /\ S.machine = script[r].machine /\ S.asked = script[r].asked
  BY <1>1 DEF ScriptRow
<1>3. S # NoDevice
  BY <1>2 DEF InitializeConstants
<1>4. script[r].machine \in Devices /\ script[r].asked \in Ports
  BY <1>1 DEF ScriptRow
<1> HIDE DEF S
<1>5. /\ script' \in [InitRuns -> ScriptRow \cup {NoDevice}] /\ script'[r] = S
      /\ \A x \in InitRuns \ {r} : script'[x] = script[x]
  BY <1>1, <1>2 DEF InitializeInv, InitializeTypeOK
<1>6. \A x \in InitRuns : SameScript(x)
  BY <1>2, <1>3, <1>5 DEF SameScript
<1> QED
  BY <1>4, <1>5, <1>6 DEF Steps

\* Each line of the script keeps what its run relies on.
LEMMA LinesKeep ==
    ASSUME InitializeConstants, InitializeInv, NEW r \in InitRuns,
           Prepares(r) \/ MovesPort(r) \/ Marks(r) \/ AsksForReboot(r) \/ ScriptFails(r)
    PROVE  InitializeInv'
<1>1. \E from \in {"preparing", "port", "marker", "reboot"} :
          \E to \in {"port", "marker", "reboot", "over", "failed"} : Steps(r, from, to)
  <2>1. CASE ScriptFails(r)
    BY <2>1 DEF ScriptFails
  <2>2. CASE ~ScriptFails(r)
    BY <2>2 DEF Prepares, MovesPort, Marks, AsksForReboot
  <2> QED
    BY <2>1, <2>2
<1>2. /\ script' \in [InitRuns -> ScriptRow \cup {NoDevice}]
      /\ \A x \in InitRuns : SameScript(x)
      /\ script[r].machine \in Devices /\ script[r].asked \in Ports
      /\ UNCHANGED <<form, initRun, history, answering, moves, rebooted, early>>
  BY <1>1, StepsMove
<1>3. ran \subseteq ran' /\ ran' \subseteq InitRuns
  BY DEF Prepares, MovesPort, Marks, AsksForReboot, ScriptFails, InitializeInv, InitializeTypeOK
<1>4. port' \in [Devices -> Ports] /\ power' \in [Devices -> {"on", "rebooting", "booting"}]
  BY <1>2 DEF Prepares, MovesPort, Marks, AsksForReboot, ScriptFails, InitializeInv,
     InitializeTypeOK
<1>5. \A x \in InitRuns : RunMatches(x)'
  BY <1>2, <1>3, OtherRunKeeps DEF InitializeInv
<1> QED
  BY <1>2, <1>3, <1>4, <1>5 DEF InitializeInv, InitializeTypeOK

\* A reboot ends the scripts of its machine, and moves none.
LEMMA RebootsKeeps ==
    ASSUME InitializeConstants, InitializeInv, NEW d \in Devices, Reboots(d)
    PROVE  InitializeInv'
<1> DEFINE Killed(r) == [script[r] EXCEPT !.at = "killed"]
<1>1. /\ power' = [power EXCEPT ![d] = "booting"]
      /\ script' = [r \in InitRuns |->
            IF r \in ScriptsOn(d) /\ script[r].at \notin {"over", "failed"}
            THEN Killed(r) ELSE script[r]]
      /\ rebooted' = rebooted \cup (ScriptsOn(d) \cap ran)
      /\ UNCHANGED <<form, initRun, history, port, answering, moves, ran, early>>
  BY DEF Reboots
<1>2. ASSUME NEW r \in ScriptsOn(d)
      PROVE  /\ Killed(r) \in ScriptRow /\ Killed(r) # NoDevice
             /\ Killed(r).machine = script[r].machine /\ Killed(r).asked = script[r].asked
  <2>1. script[r] \in ScriptRow
    BY DEF ScriptsOn, InitializeInv, InitializeTypeOK
  <2>2. /\ Killed(r) \in ScriptRow
        /\ Killed(r).machine = script[r].machine /\ Killed(r).asked = script[r].asked
    BY <2>1 DEF ScriptRow
  <2> QED
    BY <2>2 DEF InitializeConstants
<1> HIDE DEF Killed
<1>3. script' \in [InitRuns -> ScriptRow \cup {NoDevice}]
  BY <1>1, <1>2 DEF InitializeInv, InitializeTypeOK
<1>4. \A x \in InitRuns : SameScript(x)
  BY <1>1, <1>2 DEF SameScript
<1>5. \A x \in InitRuns : RunMatches(x)'
  BY <1>1, <1>4, OtherRunKeeps DEF InitializeInv
<1> QED
  BY <1>1, <1>3, <1>5 DEF InitializeInv, InitializeTypeOK

\* A machine comes up, or another one takes the address: no run is touched.
LEMMA MachineKeeps ==
    ASSUME InitializeConstants, InitializeInv,
           \/ \E d \in Devices : Boots(d)
           \/ \E d \in Devices \cup {NoDevice} : AddressMoves(d)
    PROVE  InitializeInv'
<1>1. UNCHANGED <<form, initRun, script, history, port, ran, rebooted, early>>
  BY DEF Boots, AddressMoves
<1>2. power' \in [Devices -> {"on", "rebooting", "booting"}] /\ moves' \in 0..MaxMoves
      /\ answering' \in Devices \cup {NoDevice}
  BY DEF Boots, AddressMoves, InitializeInv, InitializeTypeOK, InitializeConstants
<1>3. \A x \in InitRuns : RunMatches(x)'
  BY <1>1, OtherRunKeeps DEF InitializeInv, SameScript
<1> QED
  BY <1>1, <1>2, <1>3 DEF InitializeInv, InitializeTypeOK

\* Every step of Initialize keeps the invariant.
LEMMA InitializeStep ==
    ASSUME InitializeConstants, InitializeInv, [InitializeNext]_initializeVars
    PROVE  InitializeInv'
<1>1. CASE UNCHANGED initializeVars
  <2>1. \A x \in InitRuns : RunMatches(x)'
    BY <1>1, OtherRunKeeps DEF initializeVars, InitializeInv, SameScript
  <2> QED
    BY <1>1, <2>1 DEF initializeVars, InitializeInv, InitializeTypeOK
<1>2. CASE OpenPage
  <2>1. CASE InitRuns = {}
    BY <1>2, <2>1 DEF OpenPage, Purged, device, InitializeInv, InitializeTypeOK
  <2> QED
    BY <1>2, <2>1, FormKeeps
<1>3. ASSUME NEW r \in InitRuns, NEW wanted \in Ports, Claim(r, wanted) \/ StartApi(r, wanted)
      PROVE  InitializeInv'
  BY <1>3, InitBeginsKeeps DEF Claim, StartApi
<1> QED
  BY <1>1, <1>2, <1>3, FormKeeps, ConnectionKeeps, OpenScriptKeeps, EndKeeps, ScriptEndsKeeps,
     LinesKeep, RebootsKeeps, MachineKeeps DEF InitializeNext

\* The state of Initialize keeps its types.
THEOREM InitializeTypeCorrect ==
    ASSUME InitializeConstants PROVE InitializeSpec => []InitializeTypeOK
<1>1. InitializeInit => InitializeInv
  BY InitializeStart
<1>2. InitializeInv /\ [InitializeNext]_initializeVars => InitializeInv'
  BY InitializeStep
<1>3. InitializeInv => InitializeTypeOK
  BY DEF InitializeInv
<1> QED
  BY <1>1, <1>2, <1>3, PTL DEF InitializeSpec

\* Only a machine that is back makes a run a success.
LEMMA OnlyComesBackSucceeds ==
    ASSUME InitializeInv, InitializeNext, NEW r \in InitRuns,
           history[r] = "none", history'[r] = "success"
    PROVE  \E d \in Devices : ComesBack(r, d) /\ SameDevice(r, d)
<1>1. ASSUME NEW x \in InitRuns, NEW verdict, Recorded(x, verdict)
      PROVE  x = r /\ verdict = "success"
  BY <1>1 DEF Recorded, InitializeInv, InitializeTypeOK
<1>2. ASSUME NEW x \in InitRuns, Fails(x) PROVE FALSE
  BY <1>1, <1>2 DEF Fails
<1>3. ASSUME NEW x \in InitRuns, Dies(x) PROVE FALSE
  BY <1>1, <1>3 DEF Dies
<1>4. ASSUME NEW x \in InitRuns, NEW d \in Devices, ComesBack(x, d)
      PROVE  ComesBack(r, d) /\ SameDevice(r, d)
  BY <1>1, <1>4 DEF ComesBack
<1>5. history' # history
  OBVIOUS
<1>6. \A x \in InitRuns : ~CannotConnect(x) /\ ~Interrupted(x)
  BY <1>2 DEF CannotConnect, Interrupted
<1>7. \A x \in InitRuns : ~ScriptEnds(x)
  BY <1>2, <1>5 DEF ScriptEnds, Goes
<1>8. \A x \in InitRuns : ~Prepares(x) /\ ~MovesPort(x) /\ ~Marks(x) /\ ~AsksForReboot(x)
                          /\ ~ScriptFails(x)
  BY <1>5 DEF Prepares, MovesPort, Marks, AsksForReboot, ScriptFails, Steps
<1>9. \A x \in InitRuns : ~SubmitForm(x) /\ ~Ages(x) /\ ~Detect(x) /\ ~OpenScript(x)
  BY <1>5 DEF SubmitForm, Ages, Detect, Goes, OpenScript
<1>10. \A x \in InitRuns : \A wanted \in Ports : ~Claim(x, wanted) /\ ~StartApi(x, wanted)
  BY <1>5 DEF Claim, StartApi, InitBegins
<1>11. ~OpenPage /\ \A d \in Devices : ~Reboots(d) /\ ~Boots(d)
  BY <1>5 DEF OpenPage, Reboots, Boots
<1>12. \A x \in InitRuns : \A d \in Devices : ~Discover(x, d)
  BY <1>5 DEF Discover
<1>13. \A d \in Devices \cup {NoDevice} : ~AddressMoves(d)
  BY <1>5 DEF AddressMoves
<1> QED
  BY <1>3, <1>4, <1>6, <1>7, <1>8, <1>9, <1>10, <1>11, <1>12, <1>13 DEF InitializeNext

\* A run recorded as a success waited for the machine its script came to its end
\* on, and found it on the port it asked for.
THEOREM SuccessIsBackAlways ==
    ASSUME InitializeConstants PROVE InitializeSpec => SuccessIsBack
<1>1. InitializeInit => InitializeInv
  BY InitializeStart
<1>2. InitializeInv /\ [InitializeNext]_initializeVars => InitializeInv'
  BY InitializeStep
<1>3. ASSUME InitializeInv, InitializeNext, NEW r \in InitRuns,
             history[r] = "none", history'[r] = "success"
      PROVE  /\ r \in ran
             /\ AnswersOn(script[r].machine, script[r].asked)
             /\ r \in rebooted \/ r \in early'
  <2>1. PICK d \in Devices : ComesBack(r, d) /\ SameDevice(r, d)
    BY <1>3, OnlyComesBackSucceeds
  <2>2. InitAt(r, "waiting") /\ AnswersOn(d, initRun[r].asked) /\ d = initRun[r].key
    BY <2>1 DEF ComesBack, SameDevice
  <2>3. r \in ran /\ script[r].machine = d /\ script[r].asked = initRun[r].asked
    BY <1>3, <2>2 DEF InitializeInv, RunMatches
  <2>4. r \in rebooted \/ r \in early'
    BY <2>1 DEF ComesBack
  <2> QED
    BY <2>2, <2>3, <2>4
<1>4. InitializeInv /\ [InitializeNext]_initializeVars =>
      [\A r \in InitRuns : history[r] = "none" /\ history'[r] = "success" =>
          /\ r \in ran
          /\ AnswersOn(script[r].machine, script[r].asked)
          /\ r \in rebooted \/ r \in early']_initializeVars
  BY <1>3
<1> QED
  BY <1>1, <1>2, <1>4, PTL DEF InitializeSpec, SuccessIsBack

-----------------------------------------------------------------------------
\* ReferenceData: one edition of the list, and readers that are current.

\* A download of the GeoIP database that is under way.
Pulling(d) == download[d].pc \in {"primary", "backup", "write"}

\* Its number is its own: no other download has it, no row and no reader.
NumbersAreNew ==
    /\ geo.by <= pulls
    /\ \A p \in Processes : reader[p].by <= pulls
    /\ \A d \in Downloads : Pulling(d) =>
          /\ download[d].number > 0 /\ download[d].number <= pulls
          /\ download[d].number # geo.by
          /\ \A p \in Processes : download[d].number # reader[p].by
          /\ \A e \in Downloads \ {d} : Pulling(e) => download[d].number # download[e].number

\* A reader with the number of the row has the file of the row.
NumberTellsFile ==
    \A p \in Processes :
        reader[p].file # Nothing /\ reader[p].by = geo.by => reader[p].file = geo.file

ChecksArePast ==
    \A p \in Processes : reader[p].checked # Nothing => reader[p].checked <= hour

\* A refresh has the list in hand before it begins to write.
Refreshing(d) == download[d].pc \in {"list", "delete", "insert"}
ListInHand == \A d \in Downloads : Refreshing(d) => download[d].from # Nothing

ReferenceInv ==
    /\ ReferenceTypeOK /\ ReferenceDataHolds
    /\ NumbersAreNew /\ NumberTellsFile /\ ChecksArePast /\ ListInHand

\* No download has been made and no reader opened.
LEMMA ReferenceStart == ASSUME ReferenceConstants PROVE ReferenceInit => ReferenceInv
<1> SUFFICES ASSUME ReferenceInit PROVE ReferenceInv
  OBVIOUS
<1>1. 1 \in Editions /\ 0 \in Dates /\ 0 \in 0 .. MaxPulls /\ Nothing \in Files
  BY DEF ReferenceConstants, Editions, Dates, Files
<1>2. NoRow \in Rows
  BY <1>1 DEF NoRow, Rows
<1>3. NoDownload \in DownloadRecord
  BY <1>1, <1>2 DEF NoDownload, DownloadRecord
<1>4. NoReader \in ReaderRecord
  BY <1>1 DEF NoReader, ReaderRecord
<1>5. ReferenceTypeOK
  BY <1>1, <1>2, <1>3, <1>4 DEF ReferenceInit, ReferenceTypeOK
<1>6. ListIsOneDownload
  BY FS_EmptySet DEF ReferenceInit, ListIsOneDownload
<1>7. /\ \A p \in Processes : reader[p] = NoReader
      /\ \A d \in Downloads : download[d] = NoDownload
      /\ geo = NoRow /\ pulls = 0
  BY DEF ReferenceInit
<1>8. ReaderIsCurrent /\ NumberTellsFile /\ ChecksArePast
  BY <1>7 DEF ReaderIsCurrent, ReaderTrusted, NumberTellsFile, ChecksArePast, NoReader
<1>9. NumbersAreNew
  BY <1>7 DEF NumbersAreNew, Pulling, NoReader, NoRow, NoDownload
<1>10. ListInHand
  BY <1>7 DEF ListInHand, Refreshing, NoDownload
<1> QED
  BY <1>5, <1>6, <1>8, <1>9, <1>10 DEF ReferenceInv, ReferenceDataHolds

\* The numbers in use are numbers.
LEMMA ReferenceNumbers ==
    ASSUME ReferenceConstants, ReferenceTypeOK
    PROVE  /\ pulls \in Nat /\ hour \in Nat /\ changedAt \in Nat /\ geo.by \in Nat
           /\ \A d \in Downloads : download[d] \in DownloadRecord /\ download[d].number \in Nat
           /\ \A p \in Processes :
                 /\ reader[p] \in ReaderRecord /\ reader[p].by \in Nat
                 /\ reader[p].checked # Nothing => reader[p].checked \in Nat
BY DEF ReferenceConstants, ReferenceTypeOK, Rows, DownloadRecord, ReaderRecord, Dates

\* A step of a download that leaves the row and the readers alone.
LEMMA DownloadGoesOn ==
    ASSUME ReferenceConstants, ReferenceInv, NEW d \in Downloads, NEW D \in DownloadRecord,
           download' = [download EXCEPT ![d] = D],
           UNCHANGED <<edition, enabled, changedAt, reader, hour>>,
           geo' \in Rows, geo'.file = geo.file, geo'.by = geo.by,
           pulls' \in 0 .. MaxPulls, pulls' >= pulls,
           vendors' \subseteq Editions, ListIsOneDownload',
           attempted' \in Dates \cup {Nothing},
           D.pc \in {"list", "delete", "insert"} => D.from # Nothing,
           D.pc \in {"primary", "backup", "write"} =>
               \/ Pulling(d) /\ D.number = download[d].number
               \/ D.number = pulls + 1 /\ pulls' = pulls + 1
    PROVE  ReferenceInv'
<1>1. /\ download' \in [Downloads -> DownloadRecord] /\ download'[d] = D
      /\ \A e \in Downloads \ {d} : download'[e] = download[e]
  BY DEF ReferenceInv, ReferenceTypeOK
<1>2. ReferenceTypeOK'
  BY <1>1 DEF ReferenceInv, ReferenceTypeOK
<1>3. ReaderIsCurrent' /\ NumberTellsFile' /\ ChecksArePast'
  BY DEF ReferenceInv, ReferenceDataHolds, ReaderIsCurrent, ReaderTrusted, NumberTellsFile,
     ChecksArePast
<1>4. /\ pulls \in Nat /\ pulls' \in Nat /\ geo.by \in Nat
      /\ \A e \in Downloads : download[e].number \in Nat
      /\ \A p \in Processes : reader[p].by \in Nat
  BY ReferenceNumbers DEF ReferenceInv, ReferenceConstants
<1>5. geo'.by <= pulls' /\ \A p \in Processes : reader'[p].by <= pulls'
  BY <1>4 DEF ReferenceInv, NumbersAreNew
<1>6. ASSUME NEW e \in Downloads, Pulling(e)', e # d
      PROVE  /\ Pulling(e) /\ download'[e].number = download[e].number
             /\ download[e].number > 0 /\ download[e].number <= pulls
             /\ download[e].number # geo.by
             /\ \A p \in Processes : download[e].number # reader[p].by
             /\ \A x \in Downloads \ {e} :
                   Pulling(x) => download[e].number # download[x].number
  BY <1>1, <1>6 DEF ReferenceInv, NumbersAreNew, Pulling
<1>7. ASSUME Pulling(d)'
      PROVE  /\ D.number > 0 /\ D.number <= pulls' /\ D.number # geo.by
             /\ \A p \in Processes : D.number # reader[p].by
             /\ \A e \in Downloads \ {d} : Pulling(e) => D.number # download[e].number
  <2>1. D.pc \in {"primary", "backup", "write"}
    BY <1>1, <1>7 DEF Pulling
  <2>2. CASE Pulling(d) /\ D.number = download[d].number
    BY <1>4, <2>2 DEF ReferenceInv, NumbersAreNew
  <2>3. CASE D.number = pulls + 1 /\ pulls' = pulls + 1
    BY <1>4, <2>3 DEF ReferenceInv, NumbersAreNew
  <2> QED
    BY <2>1, <2>2, <2>3
<1>8. NumbersAreNew'
  <2>1. SUFFICES ASSUME NEW e \in Downloads, Pulling(e)'
                 PROVE  /\ download'[e].number > 0 /\ download'[e].number <= pulls'
                        /\ download'[e].number # geo'.by
                        /\ \A p \in Processes : download'[e].number # reader'[p].by
                        /\ \A x \in Downloads \ {e} :
                              Pulling(x)' => download'[e].number # download'[x].number
    BY <1>5, Zenon DEF NumbersAreNew
  <2>2. CASE e = d
    BY <1>1, <1>6, <1>7, <2>1, <2>2
  <2>3. CASE e # d
    <3>1. download'[e].number > 0 /\ download'[e].number <= pulls'
      BY <1>4, <1>6, <2>1, <2>3
    <3>2. ASSUME NEW x \in Downloads \ {e}, Pulling(x)'
          PROVE  download'[e].number # download'[x].number
      BY <1>1, <1>6, <1>7, <2>1, <2>3, <3>2
    <3> QED
      BY <1>6, <2>1, <2>3, <3>1, <3>2
  <2> QED
    BY <2>2, <2>3
<1>9. ListInHand'
  BY <1>1 DEF ReferenceInv, ListInHand, Refreshing
<1> QED
  BY <1>2, <1>3, <1>8, <1>9 DEF ReferenceInv, ReferenceDataHolds

\* The task takes the next number, and fetches from one address or the other.
LEMMA PullKeeps ==
    ASSUME ReferenceConstants, ReferenceInv, NEW d \in Downloads,
           BeginGeoip(d) \/ Fetch(d) \/ FetchFails(d)
    PROVE  ReferenceInv'
<1> USE DEF GeoOnly
<1>1. /\ ReferenceTypeOK /\ ListIsOneDownload /\ download[d] \in DownloadRecord
      /\ pulls \in 0 .. MaxPulls /\ MaxPulls \in Nat
  BY ReferenceNumbers DEF ReferenceInv, ReferenceDataHolds, ReferenceTypeOK, ReferenceConstants
<1>2. NoDownload \in DownloadRecord /\ NoDownload.pc = "idle"
  BY DEF NoDownload, DownloadRecord, NoRow, Rows, Files, Dates, ReferenceConstants
<1>3. ListIsOneDownload' /\ vendors' \subseteq Editions /\ attempted' \in Dates \cup {Nothing}
  BY <1>1 DEF BeginGeoip, Fetch, FetchFails, ListIsOneDownload, ReferenceTypeOK
<1>4. CASE BeginGeoip(d)
  <2> DEFINE D == [NoDownload EXCEPT !.pc = "primary", !.had = geo, !.number = pulls + 1]
  <2>1. pulls + 1 \in 0 .. MaxPulls
    BY <1>1, <1>4 DEF BeginGeoip
  <2>2. D \in DownloadRecord /\ D.number = pulls + 1 /\ D.pc = "primary"
    BY <1>1, <1>2, <2>1 DEF NoDownload, DownloadRecord, ReferenceTypeOK
  <2>3. /\ download' = [download EXCEPT ![d] = D] /\ pulls' = pulls + 1
        /\ UNCHANGED <<edition, enabled, changedAt, reader, hour, geo>>
    BY <1>4 DEF BeginGeoip
  <2>4. geo' \in Rows /\ geo'.file = geo.file /\ geo'.by = geo.by /\ pulls' >= pulls
        /\ pulls' \in 0 .. MaxPulls
    BY <1>1, <2>1, <2>3 DEF ReferenceTypeOK
  <2> HIDE DEF D
  <2> QED
    BY <1>3, <2>2, <2>3, <2>4, DownloadGoesOn
<1>5. CASE Fetch(d)
  <2> DEFINE D == [download[d] EXCEPT !.pc = "write", !.from = edition]
  <2>1. Pulling(d)
    BY <1>5 DEF Fetch, Pulling
  <2>2. D \in DownloadRecord /\ D.number = download[d].number /\ D.pc = "write"
    BY <1>1 DEF DownloadRecord, ReferenceTypeOK, Files
  <2>3. /\ download' = [download EXCEPT ![d] = D] /\ pulls' = pulls
        /\ UNCHANGED <<edition, enabled, changedAt, reader, hour, geo>>
    BY <1>5 DEF Fetch
  <2>4. geo' \in Rows /\ geo'.file = geo.file /\ geo'.by = geo.by /\ pulls' >= pulls
        /\ pulls' \in 0 .. MaxPulls
    BY <1>1, <2>3 DEF ReferenceTypeOK
  <2> HIDE DEF D
  <2> QED
    BY <1>3, <2>1, <2>2, <2>3, <2>4, DownloadGoesOn
<1>6. CASE FetchFails(d)
  <2> DEFINE B == [download[d] EXCEPT !.pc = "backup"]
             D == IF download[d].pc = "primary" THEN B ELSE NoDownload
  <2>1. Pulling(d)
    BY <1>6 DEF FetchFails, Pulling
  <2>2. B \in DownloadRecord /\ B.number = download[d].number /\ B.pc = "backup"
    BY <1>1 DEF DownloadRecord
  <2>3. download' = [download EXCEPT ![d] = D]
        /\ UNCHANGED <<edition, enabled, changedAt, reader, hour>>
    BY <1>6 DEF FetchFails
  <2>4. geo' \in Rows /\ geo'.file = geo.file /\ geo'.by = geo.by
    BY <1>1, <1>6 DEF FetchFails, ReferenceTypeOK, Rows
  <2>5. pulls' = pulls + 1 /\ pulls' >= pulls /\ pulls' \in 0 .. MaxPulls
    BY <1>1, <1>6 DEF FetchFails
  <2> HIDE DEF B
  <2>6. D \in DownloadRecord
        /\ (D.pc \in {"primary", "backup", "write"} => D.number = download[d].number)
        /\ D.pc \in {"idle", "backup"}
    BY <1>2, <2>2
  <2> HIDE DEF D
  <2> QED
    BY <1>3, <2>1, <2>3, <2>4, <2>5, <2>6, DownloadGoesOn
<1> QED
  BY <1>4, <1>5, <1>6

\* A refresh of the list touches neither the row nor a reader.
LEMMA RefreshKeeps ==
    ASSUME ReferenceConstants, ReferenceInv, NEW d \in Downloads,
           \/ FetchList(d) \/ ListFails(d) \/ DeleteList(d) \/ LockRows(d) \/ ReplaceList(d)
    PROVE  ReferenceInv'
<1>1. /\ ReferenceTypeOK /\ ListIsOneDownload /\ download[d] \in DownloadRecord
      /\ pulls \in 0 .. MaxPulls /\ MaxPulls \in Nat /\ geo \in Rows
      /\ vendors \subseteq Editions /\ attempted \in Dates \cup {Nothing}
  BY ReferenceNumbers DEF ReferenceInv, ReferenceDataHolds, ReferenceTypeOK, ReferenceConstants
<1>2. NoDownload \in DownloadRecord /\ NoDownload.pc = "idle"
  BY DEF NoDownload, DownloadRecord, NoRow, Rows, Files, Dates, ReferenceConstants
<1>3. UNCHANGED <<edition, enabled, geo, changedAt, reader, hour>>
  BY DEF FetchList, ListFails, DeleteList, LockRows, ReplaceList, ListOnly
<1>4. pulls' \in 0 .. MaxPulls /\ pulls' >= pulls
  BY <1>1 DEF FetchList, ListFails, DeleteList, LockRows, ReplaceList
<1>5. PICK D \in DownloadRecord :
          /\ download' = [download EXCEPT ![d] = D]
          /\ D.pc \notin {"primary", "backup", "write"}
          /\ D.pc \in {"list", "delete", "insert"} => D.from # Nothing
  <2>1. CASE FetchList(d)
    <3> DEFINE D == [NoDownload EXCEPT !.pc = "list", !.from = edition, !.at = hour]
    <3>1. D \in DownloadRecord /\ D.pc = "list" /\ D.from # Nothing
      BY <1>1, <1>2 DEF NoDownload, DownloadRecord, ReferenceTypeOK, Files, ReferenceConstants
    <3>2. download' = [download EXCEPT ![d] = D]
      BY <2>1 DEF FetchList
    <3> QED
      BY <3>1, <3>2
  <2>2. CASE ListFails(d) \/ ReplaceList(d)
    BY <1>2, <2>2 DEF ListFails, ReplaceList
  <2>3. CASE DeleteList(d)
    <3> DEFINE D == [download[d] EXCEPT !.pc = "delete", !.sees = vendors]
    <3>1. D \in DownloadRecord /\ D.pc = "delete" /\ D.from = download[d].from
      BY <1>1 DEF DownloadRecord
    <3>2. download' = [download EXCEPT ![d] = D]
      BY <2>3 DEF DeleteList
    <3>3. download[d].from # Nothing
      BY <2>3 DEF DeleteList, ReferenceInv, ListInHand, Refreshing
    <3> QED
      BY <3>1, <3>2, <3>3
  <2>4. CASE LockRows(d)
    <3> DEFINE D == [download[d] EXCEPT !.pc = "insert"]
    <3>1. D \in DownloadRecord /\ D.pc = "insert" /\ D.from = download[d].from
      BY <1>1 DEF DownloadRecord
    <3>2. download' = [download EXCEPT ![d] = D]
      BY <2>4 DEF LockRows
    <3>3. download[d].from # Nothing
      BY <2>4 DEF LockRows, ReferenceInv, ListInHand, Refreshing
    <3> QED
      BY <3>1, <3>2, <3>3
  <2> QED
    BY <2>1, <2>2, <2>3, <2>4
<1>6. vendors' \subseteq Editions /\ ListIsOneDownload'
      /\ attempted' \in Dates \cup {Nothing}
  <2>1. CASE ReplaceList(d) /\ ~InTheWay(d)
    <3>1. vendors' = {download[d].from} /\ attempted' = download[d].at
      BY <2>1 DEF ReplaceList, InTheWay
    <3>2. download[d].from \in Editions
      BY <1>1, <2>1 DEF ReplaceList, ReferenceInv, ListInHand, Refreshing, DownloadRecord, Files
    <3>3. Cardinality({download[d].from}) = 1
      BY FS_Singleton
    <3> QED
      BY <1>1, <3>1, <3>2, <3>3 DEF ListIsOneDownload, DownloadRecord
  <2>2. CASE ~ReplaceList(d) \/ InTheWay(d)
    <3>1. vendors' = vendors /\ attempted' \in {attempted, download[d].at}
      BY <2>2 DEF FetchList, ListFails, DeleteList, LockRows, ReplaceList
    <3> QED
      BY <1>1, <3>1 DEF ListIsOneDownload, DownloadRecord
  <2> QED
    BY <2>1, <2>2
<1> QED
  BY <1>1, <1>3, <1>4, <1>5, <1>6, DownloadGoesOn

\* A new file dates the row; whoever was checked before then is checked again.
LEMMA StoreGeoipKeeps ==
    ASSUME ReferenceConstants, ReferenceInv, NEW d \in Downloads, StoreGeoip(d)
    PROVE  ReferenceInv'
<1>1. /\ ReferenceTypeOK /\ ListIsOneDownload /\ download[d] \in DownloadRecord
      /\ geo \in Rows /\ Pulling(d)
  BY ReferenceNumbers DEF ReferenceInv, ReferenceDataHolds, ReferenceTypeOK, StoreGeoip, Pulling
<1>2. /\ RowWritten(d) \in Rows /\ RowWritten(d).by = download[d].number
  BY <1>1 DEF RowWritten, Rows, DownloadRecord
<1>3. NoDownload \in DownloadRecord /\ NoDownload.pc = "idle"
  BY DEF NoDownload, DownloadRecord, NoRow, Rows, Files, Dates, ReferenceConstants
<1>4. /\ geo' = RowWritten(d)
      /\ changedAt' = IF geo'.file # geo.file THEN hour ELSE changedAt
      /\ download' = [download EXCEPT ![d] = NoDownload]
      /\ UNCHANGED <<pulls, edition, enabled, vendors, attempted, reader, hour>>
  BY DEF StoreGeoip, GeoOnly
<1>5. /\ download' \in [Downloads -> DownloadRecord] /\ download'[d] = NoDownload
      /\ \A e \in Downloads \ {d} : download'[e] = download[e]
  BY <1>1, <1>3, <1>4 DEF ReferenceTypeOK
<1>6. ReferenceTypeOK'
  BY <1>1, <1>2, <1>4, <1>5 DEF ReferenceTypeOK
<1>7. /\ pulls \in Nat /\ hour \in Nat /\ changedAt \in Nat
      /\ \A p \in Processes : reader[p].checked # Nothing => reader[p].checked \in Nat
  BY ReferenceNumbers DEF ReferenceInv
<1>8. ListIsOneDownload' /\ ChecksArePast'
  BY <1>1, <1>4 DEF ReferenceInv, ListIsOneDownload, ChecksArePast
<1>9. NumberTellsFile'
  BY <1>1, <1>2, <1>4 DEF ReferenceInv, NumbersAreNew, NumberTellsFile
<1>10. ReaderIsCurrent'
  <2>1. SUFFICES ASSUME NEW p \in Processes, ReaderTrusted(p), ~reader[p].asking,
                        ~reader[p].broken, reader[p].file # geo'.file
                 PROVE  changedAt' >= reader[p].checked
    BY <1>4 DEF ReaderIsCurrent, ReaderTrusted
  <2>2. reader[p].checked \in Nat /\ reader[p].checked <= hour
    BY <1>7, <2>1 DEF ReaderTrusted, ReferenceInv, ChecksArePast
  <2>3. CASE geo'.file = geo.file
    BY <1>4, <2>1, <2>3 DEF ReferenceInv, ReferenceDataHolds, ReaderIsCurrent
  <2>4. CASE geo'.file # geo.file
    BY <1>4, <1>7, <2>2, <2>4
  <2> QED
    BY <2>3, <2>4
<1>11. NumbersAreNew'
  <2>1. \A e \in Downloads : Pulling(e)' => e # d /\ Pulling(e) /\ download'[e] = download[e]
    BY <1>3, <1>5 DEF Pulling
  <2>2. geo'.by = download[d].number
    BY <1>2, <1>4
  <2> QED
    BY <1>1, <1>4, <2>1, <2>2 DEF ReferenceInv, NumbersAreNew
<1>12. ListInHand'
  BY <1>3, <1>5 DEF ReferenceInv, ListInHand, Refreshing
<1> QED
  BY <1>6, <1>8, <1>9, <1>10, <1>11, <1>12 DEF ReferenceInv, ReferenceDataHolds

\* A step of one reader.
LEMMA ReaderGoesOn ==
    ASSUME ReferenceConstants, ReferenceInv, NEW p \in Processes, NEW R \in ReaderRecord,
           reader' = [reader EXCEPT ![p] = R],
           UNCHANGED <<edition, enabled, geo, changedAt, vendors, attempted, download, hour>>,
           pulls' \in 0 .. MaxPulls, pulls' >= pulls,
           R.by \in {0, geo.by, reader[p].by},
           R.file # Nothing /\ R.by = geo.by => R.file = geo.file,
           R.checked # Nothing => R.checked <= hour,
           R.asking = TRUE \/ R.broken = TRUE \/ R.file = geo.file
    PROVE  ReferenceInv'
<1>1. /\ reader' \in [Processes -> ReaderRecord] /\ reader'[p] = R
      /\ \A x \in Processes \ {p} : reader'[x] = reader[x]
  BY DEF ReferenceInv, ReferenceTypeOK
<1>2. ReferenceTypeOK'
  BY <1>1 DEF ReferenceInv, ReferenceTypeOK
<1>3. ListIsOneDownload' /\ NumberTellsFile' /\ ChecksArePast'
  BY <1>1 DEF ReferenceInv, ReferenceDataHolds, ListIsOneDownload, NumberTellsFile,
     ChecksArePast
<1>4. ReaderIsCurrent'
  <2>1. SUFFICES ASSUME NEW x \in Processes, ReaderTrusted(x)', ~reader'[x].asking,
                        ~reader'[x].broken, reader'[x].file # geo.file
                 PROVE  changedAt >= reader'[x].checked
    BY DEF ReaderIsCurrent
  <2>2. x # p /\ reader'[x] = reader[x]
    BY <1>1, <2>1
  <2> QED
    BY <2>1, <2>2 DEF ReferenceInv, ReferenceDataHolds, ReaderIsCurrent, ReaderTrusted
<1>5. /\ pulls \in Nat /\ pulls' \in Nat /\ geo.by \in Nat
      /\ \A e \in Downloads : download[e].number \in Nat
      /\ \A x \in Processes : reader[x].by \in Nat
  BY ReferenceNumbers DEF ReferenceInv, ReferenceConstants
<1>6. geo.by <= pulls' /\ \A x \in Processes : reader'[x].by <= pulls'
  BY <1>1, <1>5 DEF ReferenceInv, NumbersAreNew
<1>7. ASSUME NEW d \in Downloads, Pulling(d)
      PROVE  /\ download[d].number > 0 /\ download[d].number <= pulls'
             /\ download[d].number # geo.by
             /\ \A x \in Processes : download[d].number # reader'[x].by
  BY <1>1, <1>5, <1>7 DEF ReferenceInv, NumbersAreNew
<1>8. NumbersAreNew'
  BY <1>6, <1>7 DEF ReferenceInv, NumbersAreNew, Pulling
<1>9. ListInHand'
  BY DEF ReferenceInv, ListInHand, Refreshing
<1> QED
  BY <1>2, <1>3, <1>4, <1>8, <1>9 DEF ReferenceInv, ReferenceDataHolds

\* A reader asks for the row, gets it or gets no answer.
LEMMA ReaderKeeps ==
    ASSUME ReferenceConstants, ReferenceInv, NEW p \in Processes,
           AskRow(p) \/ GetReader(p) \/ AskFails(p)
    PROVE  ReferenceInv'
<1>1. /\ ReferenceTypeOK /\ reader[p] \in ReaderRecord /\ geo \in Rows
      /\ pulls \in 0 .. MaxPulls /\ MaxPulls \in Nat /\ hour \in Dates /\ hour \in Nat
      /\ hour # Nothing
  BY ReferenceNumbers DEF ReferenceInv, ReferenceTypeOK, ReferenceConstants
<1>2. /\ reader[p].file # Nothing /\ reader[p].by = geo.by => reader[p].file = geo.file
      /\ reader[p].checked # Nothing => reader[p].checked <= hour
  BY DEF ReferenceInv, NumberTellsFile, ChecksArePast
<1>3. UNCHANGED <<edition, enabled, geo, changedAt, vendors, attempted, download, hour>>
  BY DEF AskRow, GetReader, AskFails, ReaderOnly
<1>4. pulls' \in 0 .. MaxPulls /\ pulls' >= pulls
  BY <1>1 DEF AskRow, GetReader, AskFails
<1>5. CASE AskRow(p)
  <2> DEFINE R == [reader[p] EXCEPT !.checked = hour, !.asking = TRUE, !.broken = FALSE]
  <2>1. /\ R \in ReaderRecord /\ R.by = reader[p].by /\ R.file = reader[p].file
        /\ R.checked = hour /\ R.asking = TRUE
    BY <1>1 DEF ReaderRecord
  <2>2. reader' = [reader EXCEPT ![p] = R]
    BY <1>5 DEF AskRow
  <2>3. R.checked <= hour
    BY <1>1, <2>1
  <2>4. R.file # Nothing /\ R.by = geo.by => R.file = geo.file
    BY <1>2, <2>1
  <2> HIDE DEF R
  <2> QED
    BY <1>3, <1>4, <2>1, <2>2, <2>3, <2>4, ReaderGoesOn
<1>6. CASE AskFails(p)
  <2> DEFINE R == [reader[p] EXCEPT !.asking = FALSE, !.broken = TRUE]
  <2>1. /\ R \in ReaderRecord /\ R.by = reader[p].by /\ R.file = reader[p].file
        /\ R.checked = reader[p].checked /\ R.broken = TRUE
    BY <1>1 DEF ReaderRecord
  <2>2. reader' = [reader EXCEPT ![p] = R]
    BY <1>6 DEF AskFails
  <2> HIDE DEF R
  <2> QED
    BY <1>2, <1>3, <1>4, <2>1, <2>2, ReaderGoesOn
<1>7. CASE GetReader(p)
  <2> DEFINE F == ReaderFor(reader[p], geo)
             R == [F EXCEPT !.asking = FALSE]
  <2>1. /\ F \in ReaderRecord /\ F.by \in {0, geo.by, reader[p].by}
        /\ F.checked = reader[p].checked /\ F.file = geo.file
    <3>1. CASE geo.file = Nothing
      <4>1. F = [reader[p] EXCEPT !.file = Nothing, !.by = 0]
        BY <3>1 DEF ReaderFor
      <4>2. Nothing \in Files /\ 0 \in 0 .. MaxPulls
        BY <1>1 DEF Files
      <4> QED
        BY <1>1, <3>1, <4>1, <4>2 DEF ReaderRecord
    <3>2. CASE geo.file # Nothing /\ reader[p].file # Nothing /\ geo.by = reader[p].by
      BY <1>1, <1>2, <3>2 DEF ReaderFor
    <3>3. CASE geo.file # Nothing /\ ~(reader[p].file # Nothing /\ geo.by = reader[p].by)
      <4>1. F = [reader[p] EXCEPT !.file = geo.file, !.by = geo.by]
        BY <3>3 DEF ReaderFor
      <4> QED
        BY <1>1, <4>1 DEF ReaderRecord, Rows
    <3> QED
      BY <3>1, <3>2, <3>3
  <2>2. reader' = [reader EXCEPT ![p] = R]
    BY <1>7 DEF GetReader
  <2> HIDE DEF F
  <2>3. /\ R \in ReaderRecord /\ R.by = F.by /\ R.file = F.file /\ R.checked = F.checked
    BY <2>1 DEF ReaderRecord
  <2> HIDE DEF R
  <2> QED
    BY <1>2, <1>3, <1>4, <2>1, <2>2, <2>3, ReaderGoesOn
<1> QED
  BY <1>5, <1>6, <1>7

\* Time passes, a new edition comes out, the downloads are switched on or off.
LEMMA OutsideKeeps ==
    ASSUME ReferenceConstants, ReferenceInv, SwitchGeoip \/ NewEdition \/ Tick
    PROVE  ReferenceInv'
<1>1. UNCHANGED <<geo, changedAt, vendors, attempted, download, reader, pulls>>
  BY DEF SwitchGeoip, NewEdition, Tick
<1>2. /\ ReferenceTypeOK /\ hour \in Nat
      /\ \A p \in Processes : reader[p].checked # Nothing => reader[p].checked \in Nat
  BY ReferenceNumbers DEF ReferenceInv
<1>3. hour' \in Dates /\ hour' >= hour /\ edition' \in Editions /\ enabled' \in BOOLEAN
  <2>1. CASE SwitchGeoip
    BY <1>2, <2>1 DEF SwitchGeoip, ReferenceTypeOK
  <2>2. CASE NewEdition
    BY <1>2, <2>2 DEF NewEdition, ReferenceTypeOK, ReferenceConstants, Editions
  <2>3. CASE Tick
    BY <1>2, <2>3 DEF Tick, ReferenceTypeOK, ReferenceConstants, Dates
  <2> QED
    BY <2>1, <2>2, <2>3
<1>4. ReferenceTypeOK'
  BY <1>1, <1>2, <1>3 DEF ReferenceTypeOK
<1>5. hour' \in Nat
  BY <1>3 DEF Dates
<1>6. \A p \in Processes : ReaderTrusted(p)' => ReaderTrusted(p)
  BY <1>1, <1>2, <1>3, <1>5 DEF ReaderTrusted, ReferenceConstants
<1>7. ReaderIsCurrent'
  BY <1>1, <1>6 DEF ReferenceInv, ReferenceDataHolds, ReaderIsCurrent
<1>8. ChecksArePast'
  BY <1>1, <1>2, <1>3, <1>5 DEF ReferenceInv, ChecksArePast
<1>9. ListIsOneDownload' /\ NumbersAreNew' /\ NumberTellsFile' /\ ListInHand'
  BY <1>1 DEF ReferenceInv, ReferenceDataHolds, ListIsOneDownload, NumbersAreNew, Pulling,
     NumberTellsFile, ListInHand, Refreshing
<1> QED
  BY <1>4, <1>7, <1>8, <1>9 DEF ReferenceInv, ReferenceDataHolds

\* Every step of the reference data keeps the invariant.
LEMMA ReferenceStep ==
    ASSUME ReferenceConstants, ReferenceInv, [ReferenceNext]_referenceVars
    PROVE  ReferenceInv'
<1>1. CASE UNCHANGED referenceVars
  BY <1>1 DEF referenceVars, ReferenceInv, ReferenceDataHolds, ReferenceTypeOK,
     ListIsOneDownload, ReaderIsCurrent, ReaderTrusted, NumbersAreNew, Pulling,
     NumberTellsFile, ChecksArePast, ListInHand, Refreshing
<1>2. ASSUME NEW d \in Downloads, RefreshIfDue(d) \/ RefreshListNow(d)
      PROVE  ReferenceInv'
  BY <1>2, RefreshKeeps DEF RefreshIfDue, RefreshListNow
<1> QED
  BY <1>1, <1>2, PullKeeps, StoreGeoipKeeps, RefreshKeeps, ReaderKeeps, OutsideKeeps
     DEF ReferenceNext, GeoNext, ListNext

\* The reference data keep their types.
THEOREM ReferenceTypeCorrect ==
    ASSUME ReferenceConstants PROVE ReferenceSpec => []ReferenceTypeOK
<1>1. ReferenceInit => ReferenceInv
  BY ReferenceStart
<1>2. ReferenceInv /\ [ReferenceNext]_referenceVars => ReferenceInv'
  BY ReferenceStep
<1>3. ReferenceInv => ReferenceTypeOK
  BY DEF ReferenceInv
<1> QED
  BY <1>1, <1>2, <1>3, PTL DEF ReferenceSpec

\* The list is one edition however refreshes overlap, and a reader that is
\* trusted holds the stored file or was checked no later than it changed.
THEOREM ReferenceDataAlwaysHolds ==
    ASSUME ReferenceConstants PROVE ReferenceSpec => []ReferenceDataHolds
<1>1. ReferenceInit => ReferenceInv
  BY ReferenceStart
<1>2. ReferenceInv /\ [ReferenceNext]_referenceVars => ReferenceInv'
  BY ReferenceStep
<1>3. ReferenceInv => ReferenceDataHolds
  BY DEF ReferenceInv
<1> QED
  BY <1>1, <1>2, <1>3, PTL DEF ReferenceSpec

-----------------------------------------------------------------------------
(* The honeypots and what is around them, together *)

\* A step moves one part, by a step of that part, and leaves the others.
LEMMA FleetStep ==
    ASSUME [FleetNext]_fleetVars
    PROVE  /\ [RecordNext]_recordVars /\ [SshNext]_sshVars /\ [TagsNext]_tagVars
           /\ [PackagesNext]_packageVars /\ [RolloutNext]_rolloutVars
           /\ [ConfigNext]_configVars /\ [WatchNext]_watchVars
           /\ [InitializeNext]_initializeVars /\ [VpnNext]_vpnVars
           /\ [ReferenceNext]_referenceVars /\ [TerminalNext]_terminalVars
           /\ [RetentionNext]_retentionVars
<1>1. CASE UNCHANGED fleetVars
  BY <1>1 DEF fleetVars
<1>2. CASE Only("record") /\ RecordNext
  BY <1>2 DEF Only
<1>3. CASE Only("ssh") /\ SshNext
  BY <1>3 DEF Only
<1>4. CASE Only("tags") /\ TagsNext
  BY <1>4 DEF Only
<1>5. CASE Only("packages") /\ PackagesNext /\ FirstPlace
  BY <1>5 DEF Only
<1>6. CASE Only("rollout") /\ RolloutNext
  BY <1>6 DEF Only
<1>7. CASE Only("config") /\ ConfigNext
  BY <1>7 DEF Only
<1>8. CASE Only("files") /\ WatchNext
  BY <1>8 DEF Only
<1>9. CASE Only("initialize") /\ InitializeNext
  BY <1>9 DEF Only
<1>10. CASE Only("vpn") /\ VpnNext
  BY <1>10 DEF Only
<1>11. CASE Only("terminals") /\ TerminalNext
  BY <1>11 DEF Only
<1>12. CASE Only("history") /\ RetentionNext
  BY <1>12 DEF Only
<1>13. CASE Only("geoip") /\ (GeoNext \/ NewEdition \/ Tick)
  BY <1>13 DEF Only, ReferenceNext
<1>14. CASE Only("list") /\ (ListNext \/ NewEdition \/ Tick)
  BY <1>14 DEF Only, ReferenceNext
<1> QED
  BY <1>1, <1>2, <1>3, <1>4, <1>5, <1>6, <1>7, <1>8, <1>9, <1>10, <1>11, <1>12, <1>13, <1>14
     DEF FleetNext

\* The parts do not meddle with each other: what they do together is, for each
\* of them, something it does alone, so that all that is proved of a part
\* holds of the instance the parts are checked in.
THEOREM FleetAreItsParts ==
    FleetSpec => /\ RecordSpec /\ SshSpec /\ TagsSpec /\ PackagesSpec /\ RolloutSpec
                 /\ ConfigSpec /\ WatchSpec /\ InitializeSpec /\ VpnSpec
                 /\ ReferenceSpec /\ TerminalSpec /\ RetentionSpec
<1>1. FleetInit => /\ RecordInit /\ SshInit /\ TagsInit /\ PackagesInit /\ RolloutInit
                   /\ ConfigInit /\ WatchInit /\ InitializeInit /\ VpnInit
                   /\ ReferenceInit /\ TerminalInit /\ RetentionInit
  BY DEF FleetInit
<1>2. [FleetNext]_fleetVars =>
           /\ [RecordNext]_recordVars /\ [SshNext]_sshVars /\ [TagsNext]_tagVars
           /\ [PackagesNext]_packageVars /\ [RolloutNext]_rolloutVars
           /\ [ConfigNext]_configVars /\ [WatchNext]_watchVars
           /\ [InitializeNext]_initializeVars /\ [VpnNext]_vpnVars
           /\ [ReferenceNext]_referenceVars /\ [TerminalNext]_terminalVars
           /\ [RetentionNext]_retentionVars
  BY FleetStep
<1> QED
  BY <1>1, <1>2, PTL DEF FleetSpec, RecordSpec, SshSpec, TagsSpec, PackagesSpec, RolloutSpec,
                         ConfigSpec, WatchSpec, InitializeSpec, VpnSpec, ReferenceSpec,
                         TerminalSpec, RetentionSpec

=============================================================================
