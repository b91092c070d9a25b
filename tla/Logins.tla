------------------------------- MODULE Logins -------------------------------
(***************************************************************************)
(* Signing in to one account: the password step, the second factor (a TOTP  *)
(* code, a recovery code or a passkey), and the brute-force lockout that    *)
(* both steps share (auth/login.py, web/routes/auth.py). The attempts run   *)
(* concurrently: each reads the users row, waits for the hash or the        *)
(* directory, and commits what follows from the copy it read.               *)
(***************************************************************************)
EXTENDS Integers, FiniteSets

CONSTANTS
    Attempts,     \* the browsers that sign in
    Codes,        \* the recovery codes ever generated
    MaxFailed,    \* the wrong answers that lock the account
    LockFor,      \* for how long it is locked
    MaxMinutes,   \* bounds the time modelled
    MaxAnswers    \* bounds the answers given

NoCode == "no code"

LoginsConstants ==
    /\ NoCode \notin Codes
    /\ MaxFailed \in Nat \ {0} /\ LockFor \in Nat \ {0}
    /\ MaxMinutes \in Nat \ {0} /\ MaxAnswers \in Nat

VARIABLES
    account,   \* the users row: the counter, the lock, the second factors
    code,      \* code[c]: a recovery code's row
    attempt,   \* attempt[a]: the sign-in in browser a
    now,       \* the clock
    answered   \* what happened, for the properties to speak of

loginVars == <<account, code, attempt, now, answered>>

Lock == 0..(MaxMinutes + LockFor)     \* 0 stands for NULL
AccountRow == [failed : 0..MaxAnswers, lockedUntil : Lock,
               totp : BOOLEAN, passkeys : BOOLEAN]
Copy == [failed : 0..MaxAnswers, lockedUntil : Lock, totp : BOOLEAN]
\* "password" and "totp": the row is read, the answer is being verified;
\* "code": a recovery code matched; "ticket": the first step is passed.
Stages == {"idle", "password", "ticket", "totp", "code"}
Verifying == {"password", "totp", "code"}
Attempt == [pc : Stages, copy : Copy, code : Codes \cup {NoCode}]
NothingRead == [failed |-> 0, lockedUntil |-> 0, totp |-> FALSE]
NoAttempt == [pc |-> "idle", copy |-> NothingRead, code |-> NoCode]
Ticket == [NoAttempt EXCEPT !.pc = "ticket"]

LoginsInit ==
    /\ account = [failed |-> 0, lockedUntil |-> 0, totp |-> FALSE, passkeys |-> FALSE]
    /\ code = [c \in Codes |-> "none"]
    /\ attempt = [a \in Attempts |-> NoAttempt]
    /\ now = 1
    /\ answered = [steps |-> 0, wrong |-> 0, wrongAt |-> 0, overlapped |-> FALSE,
                   uses |-> [c \in Codes |-> 0]]

IsLockedOut == account.lockedUntil > now

\* An answer is being verified while another one still is.
Overlaps(a) == \E b \in Attempts \ {a} : attempt[b].pc \in Verifying

ReadAccount(a, pc) ==
    /\ answered.steps < MaxAnswers
    /\ attempt' = [attempt EXCEPT ![a] =
           [NoAttempt EXCEPT !.pc = pc, !.copy = [failed |-> account.failed,
                                                  lockedUntil |-> account.lockedUntil,
                                                  totp |-> account.totp]]]
    /\ answered' = [answered EXCEPT !.steps = @ + 1, !.overlapped = @ \/ Overlaps(a)]

-----------------------------------------------------------------------------
(* The counter and the lock. *)

\* Mutant of Locks: one wrong answer too many.
LocksLate(failed) == failed > MaxFailed

Locks(failed) == failed >= MaxFailed

\* The new counter is the copy's plus one, whatever is in the row by now.
RegisterFailedAttempt(a, next) ==
    LET failed == attempt[a].copy.failed + 1 IN
    /\ account' = [account EXCEPT !.failed = failed,
                                  !.lockedUntil = IF Locks(failed) THEN now + LockFor ELSE @]
    /\ attempt' = [attempt EXCEPT ![a] = next]
    /\ answered' = [answered EXCEPT !.wrong = @ + 1, !.wrongAt = now]

\* Mutant of ResetFailedAttempts: a right answer makes up for one wrong one.
ForgiveOneAttempt(a) ==
    account' = [account EXCEPT !.failed = @ - 1, !.lockedUntil = 0]

\* A flush writes a column only when the copy had something to reset.
ResetFailedAttempts(a) ==
    LET copy == attempt[a].copy IN
    account' = [account EXCEPT !.failed = IF copy.failed = 0 THEN @ ELSE 0,
                               !.lockedUntil = IF copy.lockedUntil = 0 THEN @ ELSE 0]

-----------------------------------------------------------------------------
(* Step one: POST /login. *)

SubmitPassword(a) ==
    /\ attempt[a].pc = "idle"
    /\ ~IsLockedOut
    /\ ReadAccount(a, "password")
    /\ UNCHANGED <<account, code, now>>

WrongPassword(a) ==
    /\ attempt[a].pc = "password"
    /\ RegisterFailedAttempt(a, NoAttempt)
    /\ UNCHANGED <<code, now>>

\* The directory does not answer: that is nobody's failed attempt.
ProviderUnavailable(a) ==
    /\ attempt[a].pc = "password"
    /\ attempt' = [attempt EXCEPT ![a] = NoAttempt]
    /\ UNCHANGED <<account, code, now, answered>>

\* totp_enabled as it was read with the password, the passkeys as they are.
HasSecondFactor(a) == attempt[a].copy.totp \/ account.passkeys

\* Signed in, or on to the second step with a ticket that names the account.
RightPassword(a) ==
    /\ attempt[a].pc = "password"
    /\ ResetFailedAttempts(a)
    /\ attempt' = [attempt EXCEPT ![a] = IF HasSecondFactor(a) THEN Ticket ELSE NoAttempt]
    /\ answered' = [answered EXCEPT !.wrong = 0]
    /\ UNCHANGED <<code, now>>

-----------------------------------------------------------------------------
(* Step two: POST /login/totp, or a passkey. *)

\* The ticket outlives a wrong answer, and is good for five minutes.
LoseTicket(a) ==
    /\ attempt[a].pc = "ticket"
    /\ attempt' = [attempt EXCEPT ![a] = NoAttempt]
    /\ UNCHANGED <<account, code, now, answered>>

SubmitCode(a) ==
    /\ attempt[a].pc = "ticket"
    /\ account.totp
    /\ ~IsLockedOut
    /\ ReadAccount(a, "totp")
    /\ UNCHANGED <<account, code, now>>

WrongCode(a) ==
    /\ attempt[a].pc = "totp"
    /\ RegisterFailedAttempt(a, Ticket)
    /\ UNCHANGED <<code, now>>

RightCode(a) ==
    /\ attempt[a].pc = "totp"
    /\ ResetFailedAttempts(a)
    /\ attempt' = [attempt EXCEPT ![a] = NoAttempt]
    /\ answered' = [answered EXCEPT !.wrong = 0]
    /\ UNCHANGED <<code, now>>

\* Mutant of IsOffered: used codes are looked at as well.
IsKept(c) == code[c] \in {"unused", "used"}

IsOffered(c) == code[c] = "unused"

\* Not the current TOTP code, but one of the unused recovery codes ...
MatchRecoveryCode(a, c) ==
    /\ attempt[a].pc = "totp"
    /\ IsOffered(c)
    /\ attempt' = [attempt EXCEPT ![a].pc = "code", ![a].code = c]
    /\ UNCHANGED <<account, code, now, answered>>

\* ... which is marked used, whoever else has used it since, and resets the
\* counter like any right answer.
UseRecoveryCode(a) ==
    LET c == attempt[a].code IN
    /\ attempt[a].pc = "code"
    /\ code[c] # "gone"
    /\ code' = [code EXCEPT ![c] = "used"]
    /\ ResetFailedAttempts(a)
    /\ attempt' = [attempt EXCEPT ![a] = NoAttempt]
    /\ answered' = [answered EXCEPT !.wrong = 0, !.uses[c] = @ + 1]
    /\ UNCHANGED now

\* The codes were replaced meanwhile: the flush raises, the ticket remains.
RecoveryCodeVanished(a) ==
    /\ attempt[a].pc = "code"
    /\ code[attempt[a].code] = "gone"
    /\ attempt' = [attempt EXCEPT ![a] = Ticket]
    /\ UNCHANGED <<account, code, now, answered>>

\* A passkey, as the second factor or instead of a password: a failure does
\* not count, a success does not reset the counter.
LoginWithPasskey(a) ==
    /\ attempt[a].pc \in {"idle", "ticket"}
    /\ account.passkeys
    /\ ~IsLockedOut
    /\ answered.steps < MaxAnswers
    /\ attempt' = [attempt EXCEPT ![a] = NoAttempt]
    /\ answered' = [answered EXCEPT !.steps = @ + 1]
    /\ UNCHANGED <<account, code, now>>

-----------------------------------------------------------------------------
(* The account page of somebody signed in. *)

Ungenerated == {c \in Codes : code[c] = "none"}

\* The old codes are deleted, those in C are generated.
Replaced(C) ==
    [c \in Codes |-> IF c \in C THEN "unused"
                     ELSE IF code[c] = "none" THEN "none" ELSE "gone"]

EnrollTotp(C) ==
    /\ ~account.totp
    /\ C # {} /\ C \subseteq Ungenerated
    /\ account' = [account EXCEPT !.totp = TRUE]
    /\ code' = Replaced(C)
    /\ UNCHANGED <<attempt, now, answered>>

\* Confirmed with a TOTP code or a recovery code; the codes go either way.
DisableTotp ==
    /\ account.totp
    /\ account' = [account EXCEPT !.totp = FALSE]
    /\ code' = Replaced({})
    /\ UNCHANGED <<attempt, now, answered>>

RegenerateRecoveryCodes(C) ==
    /\ account.totp
    /\ C # {} /\ C \subseteq Ungenerated
    /\ code' = Replaced(C)
    /\ UNCHANGED <<account, attempt, now, answered>>

RegisterPasskey ==
    /\ ~account.passkeys
    /\ account' = [account EXCEPT !.passkeys = TRUE]
    /\ UNCHANGED <<code, attempt, now, answered>>

DeletePasskey ==
    /\ account.passkeys
    /\ account' = [account EXCEPT !.passkeys = FALSE]
    /\ UNCHANGED <<code, attempt, now, answered>>

MinutePasses ==
    /\ now < MaxMinutes
    /\ now' = now + 1
    /\ UNCHANGED <<account, code, attempt, answered>>

-----------------------------------------------------------------------------
SignInStep(a) ==
    \/ SubmitPassword(a)
    \/ WrongPassword(a)
    \/ ProviderUnavailable(a)
    \/ RightPassword(a)
    \/ LoseTicket(a)
    \/ SubmitCode(a)
    \/ WrongCode(a)
    \/ RightCode(a)
    \/ \E c \in Codes : MatchRecoveryCode(a, c)
    \/ UseRecoveryCode(a)
    \/ RecoveryCodeVanished(a)
    \/ LoginWithPasskey(a)

AccountPage ==
    \/ \E C \in SUBSET Codes : EnrollTotp(C) \/ RegenerateRecoveryCodes(C)
    \/ DisableTotp
    \/ RegisterPasskey
    \/ DeletePasskey

LoginsNext ==
    \/ \E a \in Attempts : SignInStep(a)
    \/ AccountPage
    \/ MinutePasses

LoginsSpec == LoginsInit /\ [][LoginsNext]_loginVars

-----------------------------------------------------------------------------
(* Properties *)

LoginsTypeOK ==
    /\ account \in AccountRow
    /\ code \in [Codes -> {"none", "unused", "used", "gone"}]
    /\ attempt \in [Attempts -> Attempt]
    /\ now \in 1..MaxMinutes
    /\ answered \in [steps : 0..MaxAnswers, wrong : 0..MaxAnswers, wrongAt : 0..MaxMinutes,
                     overlapped : BOOLEAN, uses : [Codes -> 0..MaxAnswers]]

\* Answers verified one at a time are all counted, whichever step they
\* belong to: from the MaxFailed-th wrong one in a row on, each locks the
\* account for the whole time, also after an earlier lock ran out.
LocksOut ==
    ~answered.overlapped /\ answered.wrong >= MaxFailed =>
        account.lockedUntil = answered.wrongAt + LockFor

\* A recovery code gets somebody in once, unless two attempts with it were
\* verified at the same time.
RecoveryCodesAreSpent ==
    ~answered.overlapped => \A c \in Codes : answered.uses[c] <= 1

=============================================================================
