------------------------------ MODULE MCPeople ------------------------------
(***************************************************************************)
(* Small instances, for TLC, of the modules about accounts and what they     *)
(* leave behind: the audit log, the accounts and their sessions, the         *)
(* sign-ins and the policy they follow, the access to honeypots, the         *)
(* settings and the backups. What Logins changes in a users row (the         *)
(* counter, the lock, the second factors) Accounts never reads, and the      *)
(* other way round; Estate reads the access levels only; the policy and the  *)
(* settings are columns of one row that no form has in common. A behaviour   *)
(* moves one of the parts.                                                   *)
(***************************************************************************)
EXTENDS MCAuditChain, Accounts, Logins, Estate, Backup, SignInPolicy, Settings

VARIABLE part    \* the one that moves

peopleVars == <<vars, focus, accountVars, loginVars, estateVars,
                backupVars, policyVars, settingsVars, part>>

-----------------------------------------------------------------------------
Ask(active, super, local, password) ==
    [active |-> active, super |-> super, local |-> local, api |-> TRUE, password |-> password]
\* Promote or keep, demote, deactivate, hand over to LDAP, set a password.
SomePayloads ==
    {Ask(TRUE, TRUE, TRUE, FALSE), Ask(TRUE, FALSE, TRUE, TRUE),
     Ask(FALSE, TRUE, TRUE, FALSE), Ask(TRUE, FALSE, FALSE, FALSE)}

ASSUME ConstantsAreSound ==
    /\ AccountsConstants /\ LoginsConstants /\ PolicyConstants
    /\ EstateConstants /\ SettingsConstants /\ BackupConstants

-----------------------------------------------------------------------------
PeopleInit ==
    /\ MCInit /\ AccountsInit /\ LoginsInit /\ EstateInit /\ BackupInit
    /\ PolicyInit /\ SettingsInit
    /\ part \in {"audit", "accounts", "logins", "estate", "backup", "policy", "settings"}
    \* The names of the keys do not matter, and of the parts that stay where
    \* they begin one beginning stands for all.
    /\ key = "k1"
    /\ part # "audit" => focus = "writing"
    /\ part # "estate" => \A m \in DOMAIN level : \A c \in DOMAIN level[m] : level[m][c] = "none"
    \* Nor do the names of the processes and networks.
    /\ visit["a"].process = "a" /\ visit["a"].from = "n"
    /\ part # "policy" => visit["b"].process = "a" /\ visit["b"].from = "n"
    /\ part # "settings" => service = "smtp"

\* All the parts but p stay as they are.
Only(p) ==
    /\ part = p /\ UNCHANGED part
    /\ IF p = "audit" THEN TRUE ELSE UNCHANGED <<vars, focus>>
    /\ IF p = "accounts" THEN TRUE ELSE UNCHANGED accountVars
    /\ IF p = "logins" THEN TRUE ELSE UNCHANGED loginVars
    /\ IF p = "estate" THEN TRUE ELSE UNCHANGED estateVars
    /\ IF p = "backup" THEN TRUE ELSE UNCHANGED backupVars
    /\ IF p = "policy" THEN TRUE ELSE UNCHANGED policyVars
    /\ IF p = "settings" THEN TRUE ELSE UNCHANGED settingsVars

\* Places for requests, and sessions, differ by their names only: of those
\* that are free the first is taken.
FirstPlace ==
    /\ request["b"] = Idle /\ request'["b"] # Idle => request["a"] # Idle
    /\ session["b"] = NoRow /\ session'["b"] # NoRow => session["a"] # NoRow

PeopleNext ==
    \/ Only("audit") /\ MCNext
    \/ Only("accounts") /\ AccountsNext /\ FirstPlace
    \/ Only("logins") /\ LoginsNext
    \/ Only("estate") /\ EstateNext
    \/ Only("backup") /\ BackupNext
    \/ Only("policy") /\ PolicyNext
    \/ Only("settings") /\ SettingsNext

PeopleSpec == PeopleInit /\ [][PeopleNext]_peopleVars

-----------------------------------------------------------------------------
\* Every row, session, request, sign-in, link, purge and backup is of its type
\* (all seven modules).
PeopleTypeOK ==
    /\ TypeOK /\ AccountsTypeOK /\ LoginsTypeOK /\ EstateTypeOK /\ BackupTypeOK
    /\ PolicyTypeOK /\ SettingsTypeOK

=============================================================================
