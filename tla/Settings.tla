------------------------------ MODULE Settings ------------------------------
(***************************************************************************)
(* The settings row and the forms that save into it (app/web/routes/         *)
(* settings.py, api_v1_settings.py): the services the application uses       *)
(* outside (LDAP, OpenID Connect, syslog, SMTP, GeoIP) and the intervals of  *)
(* the background checks. A save reads the row, checks the whole form and    *)
(* commits; SQLAlchemy writes only the columns that differ from what that    *)
(* save had read, so two saves that cross leave a row neither of them        *)
(* checked. The forms of two services share no column: a behaviour is about  *)
(* one service, and about the intervals.                                     *)
(*                                                                           *)
(* Of a field the model keeps whether it is filled. Beat reads the intervals *)
(* when it starts and at no other time.                                      *)
(***************************************************************************)
EXTENDS Integers, FiniteSets

CONSTANTS
    Handlers,   \* saves under way at one time
    MaxForms    \* bound: how many saves

SettingsConstants == MaxForms \in Nat

VARIABLES
    service,   \* the service whose form is saved
    columns,   \* its columns: switched on, and the fields that are filled
    checks,    \* interval or timeout -> its value
    beat,      \* the intervals Beat runs with; "none" while it is stopped
    handler,   \* request -> what it has read
    forms,     \* how many saves have begun
    crossed    \* a save was committed between the read and the commit of another

settingsVars == <<service, columns, checks, beat, handler, forms, crossed>>

-----------------------------------------------------------------------------
\* What a service must have to be switched on.
Needed ==
    [ldap |-> {"server_uri", "bind_dn", "search_base"},
     oidc |-> {"issuer_url", "client_id"},
     syslog |-> {"host"},
     smtp |-> {"host", "from_address"},
     geoip |-> {"primary_url"}]

\* The fields that keep their stored value when the form leaves them blank.
Kept ==
    [ldap |-> {"bind_password"}, oidc |-> {"client_secret"}, syslog |-> {},
     smtp |-> {"password"}, geoip |-> {"primary_url", "backup_url"}]

Services == DOMAIN Needed
FieldsOf(s) == Needed[s] \cup Kept[s]
Forms(s) == [on : BOOLEAN, filled : SUBSET FieldsOf(s)]

\* One timeout, read by whoever uses it, and one interval, read by Beat.
Checks == {"ssh_connect_timeout", "monitoring_interval_seconds"}
Intervals == {"monitoring_interval_seconds"}
Values == {"default", "other"}
CheckValues == [Checks -> Values]
IntervalsOf(c) == [i \in Intervals |-> c[i]]
BuiltIn == [i \in Intervals |-> "default"]
Stopped == [i \in Intervals |-> "none"]

NoHandler == [pc |-> "idle", stored |-> [on |-> FALSE, filled |-> {}],
              checks |-> [c \in Checks |-> "default"]]

SettingsTypeOK ==
    /\ service \in Services
    /\ columns \in Forms(service)
    /\ checks \in CheckValues
    /\ beat \in [Intervals -> Values \cup {"none"}]
    /\ handler \in [Handlers -> [pc : {"idle", "read"}, stored : Forms(service),
                                 checks : CheckValues]]
    /\ forms \in 0 .. MaxForms
    /\ crossed \in BOOLEAN

\* The row is made with every default on its first use.
SettingsInit ==
    /\ service \in Services
    /\ columns = [on |-> FALSE, filled |-> {}]
    /\ checks = [c \in Checks |-> "default"]
    /\ beat = Stopped
    /\ handler = [q \in Handlers |-> NoHandler]
    /\ forms = 0
    /\ crossed = FALSE

-----------------------------------------------------------------------------
\* get_or_create_app_settings: the columns as this request sees them.
ReadSettings(q) ==
    /\ handler[q].pc = "idle" /\ forms < MaxForms
    /\ handler' = [handler EXCEPT ![q] = [pc |-> "read", stored |-> columns, checks |-> checks]]
    /\ forms' = forms + 1
    /\ UNCHANGED <<service, columns, checks, beat, crossed>>

\* The request is over, and whether the row moved under it.
SaveEnds(q) ==
    /\ handler' = [handler EXCEPT ![q] = NoHandler]
    /\ crossed' = (crossed \/ <<columns, checks>> # <<handler[q].stored, handler[q].checks>>)

Refuse(q) ==
    /\ handler[q].pc = "read"
    /\ handler' = [handler EXCEPT ![q] = NoHandler]
    /\ UNCHANGED <<service, columns, checks, beat, forms, crossed>>

\* Mutant of Filled: a blank field is kept only while the service is on.
FilledWhileOn(q, s, form) ==
    form.filled \cup (IF form.on THEN handler[q].stored.filled \cap Kept[s] ELSE {})

\* The fields filled by a save: those of the form, and those it may leave blank.
Filled(q, s, form) == form.filled \cup (handler[q].stored.filled \cap Kept[s])

\* A service's columns after the save of a form that is complete.
SaveForm(q, s, form) ==
    LET had == handler[q].stored
        has == Filled(q, s, form)
    IN  /\ service = s /\ handler[q].pc = "read"
        /\ form.on => Needed[s] \subseteq has
        /\ columns' = [on |-> IF form.on # had.on THEN form.on ELSE columns.on,
                       filled |-> (columns.filled \ (had.filled \ has)) \cup (has \ had.filled)]
        /\ SaveEnds(q)
        /\ UNCHANGED <<service, checks, beat, forms>>

SaveLdap(q) == \E form \in Forms("ldap") : SaveForm(q, "ldap", form)
SaveOidc(q) == \E form \in Forms("oidc") : SaveForm(q, "oidc", form)
SaveSyslog(q) == \E form \in Forms("syslog") : SaveForm(q, "syslog", form)
SaveSmtp(q) == \E form \in Forms("smtp") : SaveForm(q, "smtp", form)

\* The addresses embed a licence key and are kept like a password: the one
\* stored counts as much as one in the form.
SaveGeoip(q) == \E form \in Forms("geoip") : SaveForm(q, "geoip", form)
SaveGeoipApi(q) == SaveGeoip(q)

\* The form names every check; of the values only those that differ from what
\* was read are written.
SaveChecks(q, values) ==
    /\ handler[q].pc = "read"
    /\ checks' = [c \in Checks |->
                    IF values[c] # handler[q].checks[c] THEN values[c] ELSE checks[c]]
    /\ SaveEnds(q)
    /\ UNCHANGED <<service, columns, beat, forms>>

\* The API changes the fields it is sent.
SaveChecksApi(q, fields, values) ==
    SaveChecks(q, [c \in Checks |-> IF c \in fields THEN values[c] ELSE handler[q].checks[c]])

\* Beat starts with the intervals of the row, or with the built-in ones when
\* the database does not answer yet.
StartBeat ==
    /\ beat = Stopped
    /\ beat' \in {IntervalsOf(checks), BuiltIn}
    /\ UNCHANGED <<service, columns, checks, handler, forms, crossed>>

StopBeat ==
    /\ beat # Stopped
    /\ beat' = Stopped
    /\ UNCHANGED <<service, columns, checks, handler, forms, crossed>>

SettingsNext ==
    \/ \E q \in Handlers :
          \/ ReadSettings(q) \/ Refuse(q)
          \/ SaveLdap(q) \/ SaveOidc(q) \/ SaveSyslog(q) \/ SaveSmtp(q)
          \/ SaveGeoip(q) \/ SaveGeoipApi(q)
          \/ \E values \in CheckValues : SaveChecks(q, values)
          \/ \E fields \in SUBSET Checks, values \in CheckValues : SaveChecksApi(q, fields, values)
    \/ StartBeat \/ StopBeat

SettingsSpec == SettingsInit /\ [][SettingsNext]_settingsVars

-----------------------------------------------------------------------------
\* A service that is switched on has what it needs, unless two saves crossed
\* (each checks its own form against the row it read). GeoIP has it whatever
\* crosses: no save empties its address.
EnabledIsComplete ==
    columns.on /\ (crossed => service = "geoip") => Needed[service] \subseteq columns.filled

=============================================================================
