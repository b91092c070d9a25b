---------------------------- MODULE EstateProofs ----------------------------
(* What is kept about the honeypots' surroundings: the companies and who may *)
(* write them (Estate), the settings of the application (Settings) and the   *)
(* copies of it all (Backup); and, at the end, that the parts MCPeople puts  *)
(* together each behave there as they do alone (PeopleAreTheirParts).        *)
(*                                                                           *)
(* An edit of a honeypot stays in its editor's scope: its set of companies   *)
(* is the one resolved at its submission (Resolves). A service that is         *)
(* switched on is complete: a save that nothing crossed commits exactly what *)
(* it checked, and the one address no save empties is never lost             *)
(* (AddressStays). Secrets open: whatever holds a database holds it together *)
(* with the key its secrets are sealed under (SealedUnder).                  *)
EXTENDS MCPeople, AccountsProofs, AuditChainProofs, SequenceTheorems

-----------------------------------------------------------------------------
(* Estate *)

\* The companies an edit is to have differ from those it read only where its
\* account could write.
Resolves ==
    \A q \in Edits :
        edit[q] # NoEdit /\ edit[q].op = "edit" =>
            /\ edit[q].keeps \ edit[q].held \subseteq edit[q].writes
            /\ edit[q].held \ edit[q].keeps \subseteq edit[q].writes

EstateInv == EstateTypeOK /\ Resolves

\* A request that has arrived.
LEMMA ArrivesStep ==
    ASSUME EstateConstants, EstateInv, NEW q \in Edits, NEW r \in RequestRow, Arrives(q, r),
           r.op = "edit" => /\ r.keeps \ r.held \subseteq r.writes
                            /\ r.held \ r.keeps \subseteq r.writes
    PROVE  EstateInv'
<1>1. edit' = [edit EXCEPT ![q] = r] /\ UNCHANGED <<company, level, honeypot, link>>
  BY DEF Arrives
<1>2. edits' \in 0 .. MaxEdits
  BY DEF Arrives, EstateInv, EstateTypeOK, EstateConstants
<1>3. EstateTypeOK'
  BY <1>1, <1>2 DEF EstateInv, EstateTypeOK
<1>4. Resolves'
  BY <1>1 DEF EstateInv, EstateTypeOK, Resolves
<1> QED
  BY <1>3, <1>4 DEF EstateInv

LEMMA WritableType ==
    ASSUME EstateInv, NEW a \in Editors
    PROVE  Writable(a) \in SUBSET Companies /\ Writable(a) \subseteq company
BY DEF Writable, EstateInv, EstateTypeOK

\* An edit is resolved against what its account may write.
LEMMA ReadingType ==
    ASSUME EstateInv, NEW a \in Editors, NEW h \in Honeypots,
           NEW offered \in SUBSET Companies, NEW asked \in SUBSET Companies
    PROVE  LET r == Reading(a, h, offered, asked)
           IN  /\ r \in RequestRow
               /\ r.keeps \ r.held \subseteq r.writes /\ r.held \ r.keeps \subseteq r.writes
<1> DEFINE writes == Writable(a)
<1> DEFINE held == CompaniesOf(h)
<1> DEFINE keeps == Resolved(asked, writes, held)
<1>1. writes \in SUBSET Companies /\ held \in SUBSET Companies
  BY WritableType DEF CompaniesOf
<1>2. /\ keeps \in SUBSET Companies
      /\ keeps \ held \subseteq writes /\ held \ keeps \subseteq writes
  BY <1>1 DEF Resolved
<1>3. Reading(a, h, offered, asked) =
        [op |-> "edit", by |-> a, step |-> "read", honeypot |-> {h}, offered |-> offered,
         writes |-> writes, held |-> held, keeps |-> keeps]
  BY DEF Reading
<1> HIDE DEF writes, held, keeps
<1> QED
  BY <1>1, <1>2, <1>3 DEF RequestRow

\* A request arrives.
LEMMA ArrivalStep ==
    ASSUME EstateConstants, EstateInv, NEW q \in Edits, NEW a \in Editors,
           \/ \E h \in Honeypots : EditHoneypotForm(q, a, h)
           \/ \E h \in Honeypots, asked \in SUBSET company : UpdateHoneypotApi(q, a, h, asked)
           \/ \E hs \in SUBSET Honeypots : DeleteArrives(q, a, hs)
           \/ \E asked \in SUBSET company : CreateArrives(q, a, asked)
    PROVE  EstateInv'
<1>1. ASSUME NEW h \in Honeypots, NEW asked \in SUBSET company, UpdateHoneypotApi(q, a, h, asked)
      PROVE  EstateInv'
  <2> DEFINE r == Reading(a, h, Companies, asked)
  <2>1. /\ r \in RequestRow
        /\ r.keeps \ r.held \subseteq r.writes /\ r.held \ r.keeps \subseteq r.writes
    BY ReadingType DEF EstateInv, EstateTypeOK
  <2>2. Arrives(q, r)
    BY <1>1 DEF UpdateHoneypotApi
  <2> HIDE DEF r
  <2> QED
    BY <2>1, <2>2, ArrivesStep
<1>4. ASSUME NEW h \in Honeypots, EditHoneypotForm(q, a, h)
      PROVE  EstateInv'
  <2> DEFINE r == [op |-> "edit", by |-> a, step |-> "open", honeypot |-> {h},
                   offered |-> Writable(a), writes |-> {}, held |-> {}, keeps |-> {}]
  <2>1. r \in RequestRow /\ r.keeps = {} /\ r.held = {}
    BY WritableType DEF RequestRow
  <2>2. Arrives(q, r)
    BY <1>4 DEF EditHoneypotForm
  <2> HIDE DEF r
  <2> QED
    BY <2>1, <2>2, ArrivesStep
<1>2. ASSUME NEW hs \in SUBSET Honeypots, DeleteArrives(q, a, hs)
      PROVE  EstateInv'
  <2> DEFINE r == [op |-> "delete", by |-> a, step |-> "read", honeypot |-> hs,
                   offered |-> {}, writes |-> Writable(a), held |-> {}, keeps |-> {}]
  <2>1. r \in RequestRow /\ r.op # "edit"
    BY WritableType DEF RequestRow
  <2>2. Arrives(q, r)
    BY <1>2 DEF DeleteArrives
  <2> HIDE DEF r
  <2> QED
    BY <2>1, <2>2, ArrivesStep
<1>3. ASSUME NEW asked \in SUBSET company, CreateArrives(q, a, asked)
      PROVE  EstateInv'
  <2> DEFINE r == [op |-> "create", by |-> a, step |-> "read", honeypot |-> {},
                   offered |-> {}, writes |-> Writable(a), held |-> {},
                   keeps |-> asked \cap Writable(a)]
  <2>1. r \in RequestRow /\ r.op # "edit"
    BY WritableType DEF RequestRow
  <2>2. Arrives(q, r)
    BY <1>3 DEF CreateArrives
  <2> HIDE DEF r
  <2> QED
    BY <2>1, <2>2, ArrivesStep
<1> QED
  BY <1>1, <1>2, <1>3, <1>4

\* A form that is open is submitted.
LEMMA SubmissionStep ==
    ASSUME EstateInv, NEW q \in Edits, NEW h \in Honeypots, NEW asked \in SUBSET Companies,
           UpdateHoneypot(q, h, asked)
    PROVE  EstateInv'
<1> DEFINE r == Reading(edit[q].by, h, edit[q].offered, asked)
<1>1. edit[q] \in RequestRow
  BY DEF UpdateHoneypot, EstateInv, EstateTypeOK
<1>2. edit[q].by \in Editors /\ edit[q].offered \in SUBSET Companies
  BY <1>1 DEF RequestRow
<1>3. /\ r \in RequestRow
      /\ r.keeps \ r.held \subseteq r.writes /\ r.held \ r.keeps \subseteq r.writes
  BY <1>2, ReadingType
<1>4. edit' = [edit EXCEPT ![q] = r] /\ UNCHANGED <<company, level, honeypot, link, edits>>
  BY DEF UpdateHoneypot
<1> HIDE DEF r
<1>5. EstateTypeOK'
  BY <1>3, <1>4 DEF EstateInv, EstateTypeOK
<1>6. Resolves'
  BY <1>3, <1>4 DEF EstateInv, EstateTypeOK, Resolves
<1> QED
  BY <1>5, <1>6 DEF EstateInv

\* A request that has arrived saves, fails or answers; its sets stay.
LEMMA SavingStep ==
    ASSUME EstateInv, NEW q \in Edits,
           \/ \E h \in Honeypots : EditSaves(q, h) \/ CreateSaves(q, h)
           \/ DeleteSaves(q) \/ SaveFails(q) \/ Answers(q) \/ CloseForm(q)
    PROVE  EstateInv'
<1> USE DEF EstateInv
<1>1. CASE SaveFails(q) \/ Answers(q) \/ CloseForm(q)
  <2>1. edit' = [edit EXCEPT ![q] = NoEdit] /\ UNCHANGED <<company, level, honeypot, link, edits>>
    BY <1>1 DEF SaveFails, Answers, CloseForm, Answered
  <2> QED
    BY <2>1 DEF EstateTypeOK, Resolves
<1>2. ASSUME NEW e, e \in RequestRow, edit' = [edit EXCEPT ![q] = e],
             edit[q] # NoEdit, edit[q] \in RequestRow,
             e.op = edit[q].op, e.keeps = edit[q].keeps, e.held = edit[q].held,
             e.writes = edit[q].writes
      PROVE  Resolves' /\ edit' \in [Edits -> RequestRow \cup {NoEdit}]
  BY <1>2 DEF EstateTypeOK, Resolves
<1>3. ASSUME edit[q] # NoEdit, Saved(q)
      PROVE  Resolves' /\ edit' \in [Edits -> RequestRow \cup {NoEdit}]
  <2> DEFINE e == [edit[q] EXCEPT !.step = "saved"]
  <2>1. edit[q] \in RequestRow /\ edit' = [edit EXCEPT ![q] = e]
    BY <1>3 DEF Saved, EstateTypeOK
  <2>2. /\ e \in RequestRow /\ e.op = edit[q].op /\ e.keeps = edit[q].keeps
        /\ e.held = edit[q].held /\ e.writes = edit[q].writes
    BY <2>1 DEF RequestRow
  <2> HIDE DEF e
  <2> QED
    BY <1>2, <1>3, <2>1, <2>2
<1>4. ASSUME NEW h \in Honeypots, EditSaves(q, h) PROVE EstateInv'
  <2>1. edit[q] \in RequestRow /\ Resolves' /\ edit' \in [Edits -> RequestRow \cup {NoEdit}]
    BY <1>3, <1>4 DEF EditSaves, EstateTypeOK
  <2>2. Relinked(q, h) \subseteq honeypot \X company
    BY <1>4, <2>1 DEF EditSaves, Relinked, EstateTypeOK
  <2> QED
    BY <1>4, <2>1, <2>2 DEF EditSaves, EstateTypeOK
<1>5. CASE DeleteSaves(q)
  <2>1. edit[q] \in RequestRow /\ Resolves' /\ edit' \in [Edits -> RequestRow \cup {NoEdit}]
    BY <1>3, <1>5 DEF DeleteSaves, EstateTypeOK
  <2>2. link' \subseteq honeypot' \X company
    BY <1>5 DEF DeleteSaves, EstateTypeOK
  <2> QED
    BY <1>5, <2>1, <2>2 DEF DeleteSaves, EstateTypeOK
<1>6. ASSUME NEW h \in Honeypots, CreateSaves(q, h) PROVE EstateInv'
  <2> DEFINE e == [edit[q] EXCEPT !.step = "saved", !.honeypot = {h}]
  <2>1. edit[q] \in RequestRow /\ edit[q] # NoEdit /\ edit' = [edit EXCEPT ![q] = e]
    BY <1>6 DEF CreateSaves, EstateTypeOK
  <2>2. /\ e \in RequestRow /\ e.op = edit[q].op /\ e.keeps = edit[q].keeps
        /\ e.held = edit[q].held /\ e.writes = edit[q].writes
    BY <2>1 DEF RequestRow
  <2> HIDE DEF e
  <2>3. Resolves' /\ edit' \in [Edits -> RequestRow \cup {NoEdit}]
    BY <1>2, <2>1, <2>2
  <2>4. link' \subseteq honeypot' \X company
    BY <1>6 DEF CreateSaves, EstateTypeOK
  <2> QED
    BY <1>6, <2>3, <2>4 DEF CreateSaves, EstateTypeOK
<1> QED
  BY <1>1, <1>4, <1>5, <1>6

\* What changes around the requests.
LEMMA AroundStep ==
    ASSUME EstateInv, UNCHANGED <<edit, edits>>, company' \subseteq Companies,
           level' \in [Members -> [Companies -> Levels]], honeypot' \subseteq Honeypots,
           link' \subseteq honeypot' \X company'
    PROVE  EstateInv'
BY DEF EstateInv, EstateTypeOK, Resolves

LEMMA EstateStep ==
    ASSUME EstateConstants, EstateInv, [EstateNext]_estateVars
    PROVE  EstateInv'
<1> USE DEF EstateInv
<1>1. ASSUME NEW c \in Companies, CreateCompany(c) \/ CreateCompanyApi(c) PROVE EstateInv'
  BY <1>1, AroundStep DEF CreateCompany, CreateCompanyApi, EstateTypeOK
<1>2. ASSUME NEW c \in Companies, DeleteCompany(c) \/ DeleteCompanyApi(c) PROVE EstateInv'
  <2>1. level' \in [Members -> [Companies -> Levels]]
    BY <1>2 DEF DeleteCompany, DeleteCompanyApi, EstateTypeOK, Levels
  <2> QED
    BY <1>2, <2>1, AroundStep DEF DeleteCompany, DeleteCompanyApi, EstateTypeOK
<1>3. ASSUME NEW M \in SUBSET Members, NEW c \in Companies, NEW l \in Levels, SetLevel(M, c, l)
      PROVE  EstateInv'
  <2>1. level' \in [Members -> [Companies -> Levels]]
    BY <1>3 DEF SetLevel, EstateTypeOK
  <2> QED
    BY <1>3, <2>1, AroundStep DEF SetLevel, EstateTypeOK
<1>4. ASSUME NEW m \in Members, NEW c \in Companies,
             \/ DetachUser(m, c) \/ RevokeCompanyAccess(m, c)
             \/ \E l \in Levels : AttachUser(m, c, l) \/ GrantCompanyAccess(m, c, l)
      PROVE  EstateInv'
  <2>1. {m} \in SUBSET Members /\ "none" \in Levels
    BY DEF Levels
  <2> QED
    BY <1>3, <1>4, <2>1 DEF DetachUser, RevokeCompanyAccess, AttachUser, GrantCompanyAccess
<1>5. ASSUME NEW h \in Honeypots, NEW c \in Companies,
             \/ AttachHoneypot(h, c) \/ AttachHoneypotApi(h, c)
             \/ DetachHoneypot(h, c) \/ DetachHoneypotApi(h, c)
      PROVE  EstateInv'
  BY <1>5, AroundStep DEF AttachHoneypot, AttachHoneypotApi, DetachHoneypot, DetachHoneypotApi,
                          EstateTypeOK
<1>6. ASSUME NEW h \in Honeypots, NEW cs \in SUBSET Companies, ImportConfig(h, cs)
      PROVE  EstateInv'
  BY <1>6, AroundStep DEF ImportConfig, EstateTypeOK
<1>7. ASSUME NEW q \in Edits, NEW a \in Editors,
             \/ \E h \in Honeypots : EditHoneypotForm(q, a, h)
             \/ \E h \in Honeypots, asked \in SUBSET company : UpdateHoneypotApi(q, a, h, asked)
             \/ \E h \in Honeypots : DeleteHoneypot(q, a, h) \/ DeleteHoneypotApi(q, a, h)
             \/ \E hs \in SUBSET Honeypots : BulkDeleteHoneypots(q, a, hs)
             \/ \E asked \in SUBSET company :
                   CreateHoneypot(q, a, asked) \/ CreateHoneypotApi(q, a, asked)
      PROVE  EstateInv'
  <2>1. \A h \in Honeypots : {h} \in SUBSET Honeypots
    OBVIOUS
  <2> QED
    BY <1>7, <2>1, ArrivalStep
       DEF DeleteHoneypot, DeleteHoneypotApi, BulkDeleteHoneypots, CreateHoneypot,
           CreateHoneypotApi
<1>8. CASE UNCHANGED estateVars
  BY <1>8 DEF estateVars, EstateTypeOK, Resolves
<1> QED
  BY <1>1, <1>2, <1>3, <1>4, <1>5, <1>6, <1>7, <1>8, SubmissionStep, SavingStep
     DEF EstateNext, BulkAssignCompany

LEMMA EstateBegin == ASSUME EstateConstants, EstateInit PROVE EstateInv
<1>1. \A q \in Edits : edit[q] = NoEdit
  BY DEF EstateInit
<1> QED
  BY <1>1 DEF EstateConstants, EstateInit, EstateInv, EstateTypeOK, Resolves

LEMMA EstateInvAlways == ASSUME EstateConstants PROVE EstateSpec => []EstateInv
<1>1. EstateInit => EstateInv
  BY EstateBegin
<1>2. EstateInv /\ [EstateNext]_estateVars => EstateInv'
  BY EstateStep
<1> QED
  BY <1>1, <1>2, PTL DEF EstateSpec

\* Companies, memberships, links and requests stay of their types: no link is
\* left of a honeypot or a company that is gone, whatever requests cross.
THEOREM EstateTyped == ASSUME EstateConstants PROVE EstateSpec => []EstateTypeOK
<1>1. EstateInv => EstateTypeOK
  BY DEF EstateInv
<1> QED
  BY <1>1, EstateInvAlways, PTL

\* An edit touches only links its account could write when it was submitted,
\* and removes only those the honeypot had then, whoever else links and grants
\* while it runs (honeypots_detail.py:590-598, api_v1.py:737-743).
THEOREM EditsStayInScopeAlways ==
    ASSUME EstateConstants PROVE EstateSpec => EditsStayInScope
<1>1. ASSUME EstateInv, NEW q \in Edits, NEW h \in Honeypots, EditSaves(q, h)
      PROVE  /\ \A l \in (link' \ link) \cup (link \ link') :
                   l[1] = h /\ l[2] \in edit[q].writes
             /\ link \ link' \subseteq {h} \X edit[q].held
  <2>1. /\ edit[q].keeps \ edit[q].held \subseteq edit[q].writes
        /\ edit[q].held \ edit[q].keeps \subseteq edit[q].writes
    BY <1>1 DEF EstateInv, Resolves, EditSaves
  <2>2. link' \ link \subseteq {h} \X (edit[q].keeps \ edit[q].held)
    BY <1>1 DEF EditSaves, Relinked
  <2>3. link \ link' \subseteq {h} \X (edit[q].held \ edit[q].keeps)
    BY <1>1 DEF EditSaves, Relinked
  <2> QED
    BY <2>1, <2>2, <2>3
<1>2. EstateInv /\ [EstateNext]_estateVars
      => [\A q \in Edits, h \in Honeypots :
            EditSaves(q, h) =>
                /\ \A l \in (link' \ link) \cup (link \ link') :
                      l[1] = h /\ l[2] \in edit[q].writes
                /\ link \ link' \subseteq {h} \X edit[q].held]_estateVars
  BY <1>1
<1> QED
  BY <1>2, EstateInvAlways, PTL DEF EstateSpec, EditsStayInScope

-----------------------------------------------------------------------------
(* Settings *)

\* What is switched on is complete, as long as no saves crossed.
Complete == ~crossed /\ columns.on => Needed[service] \subseteq columns.filled

\* What GeoIP needs, its address, is there while it is switched on, and once
\* there it stays: whoever read it finds it in the row.
AddressStays ==
    service = "geoip" =>
        /\ columns.on => Needed[service] \subseteq columns.filled
        /\ \A q \in Handlers :
              handler[q].stored.filled \cap Needed[service] \subseteq columns.filled

SettingsInv == SettingsTypeOK /\ Complete /\ AddressStays

\* No save takes GeoIP's address away.
LEMMA AddressIsKept == Needed["geoip"] \subseteq Kept["geoip"]
BY DEF Needed, Kept

LEMMA SaveFormStep ==
    ASSUME SettingsInv, NEW q \in Handlers, NEW s \in Services, NEW form \in Forms(s),
           SaveForm(q, s, form)
    PROVE  SettingsInv'
<1> USE DEF SettingsInv
<1> DEFINE had == handler[q].stored
<1> DEFINE has == Filled(q, s, form)
<1> DEFINE on == IF form.on # had.on THEN form.on ELSE columns.on
<1> DEFINE filled == (columns.filled \ (had.filled \ has)) \cup (has \ had.filled)
<1>1. /\ service = s /\ UNCHANGED <<service, checks, beat, forms>>
      /\ form.on => Needed[s] \subseteq has
      /\ columns' = [on |-> on, filled |-> filled]
      /\ handler' = [handler EXCEPT ![q] = NoHandler]
      /\ crossed' = (crossed \/ <<columns, checks>> # <<handler[q].stored, handler[q].checks>>)
  BY DEF SaveForm, SaveEnds
<1>2. /\ had \in Forms(s) /\ columns \in Forms(s) /\ has \subseteq FieldsOf(s)
      /\ had.filled \cap Kept[s] \subseteq has
  BY <1>1 DEF SettingsTypeOK, Filled, Forms, FieldsOf
<1>3. on \in BOOLEAN /\ filled \subseteq FieldsOf(s)
  BY <1>2 DEF Forms
<1> HIDE DEF on, filled
<1>4. columns'.on = on /\ columns'.filled = filled /\ columns' \in Forms(s)
  BY <1>1, <1>3 DEF Forms
<1>5. NoHandler \in [pc : {"idle", "read"}, stored : Forms(s), checks : CheckValues]
      /\ NoHandler.stored.filled = {}
  BY DEF NoHandler, Forms, CheckValues, Values
<1>6. SettingsTypeOK'
  BY <1>1, <1>4, <1>5 DEF SettingsTypeOK
<1>7. Complete'
  <2> SUFFICES ASSUME ~crossed', on
               PROVE  Needed[s] \subseteq filled
    BY <1>1, <1>4 DEF Complete
  <2>1. columns = had
    BY <1>1
  <2>2. on = form.on /\ filled = has
    BY <1>2, <2>1 DEF on, filled, Forms
  <2> QED
    BY <1>1, <2>2
<1>8. AddressStays'
  <2> SUFFICES ASSUME s = "geoip"
               PROVE  /\ on => Needed[s] \subseteq filled
                      /\ \A p \in Handlers :
                            handler'[p].stored.filled \cap Needed[s] \subseteq filled
    BY <1>1, <1>4 DEF AddressStays
  <2>1. Needed[s] \cap had.filled \subseteq has /\ Needed[s] \cap had.filled \subseteq columns.filled
    BY <1>1, <1>2, AddressIsKept DEF AddressStays
  <2>2. columns.filled \cap Needed[s] \subseteq filled
    BY <2>1 DEF filled
  <2>3. has \cap Needed[s] \subseteq filled
    BY <2>1 DEF filled
  <2>4. on => form.on \/ columns.on
    BY <1>2 DEF on, Forms
  <2>5. on => Needed[s] \subseteq filled
    BY <1>1, <2>2, <2>3, <2>4 DEF AddressStays
  <2>6. ASSUME NEW p \in Handlers
        PROVE  handler'[p].stored.filled \cap Needed[s] \subseteq filled
    <3>1. CASE p = q
      BY <1>1, <1>5, <3>1 DEF SettingsTypeOK
    <3>2. CASE p # q
      BY <1>1, <2>2, <3>2 DEF SettingsTypeOK, AddressStays
    <3> QED
      BY <3>1, <3>2
  <2> QED
    BY <2>5, <2>6
<1> QED
  BY <1>6, <1>7, <1>8

\* The forms of the checks leave the service's columns alone.
LEMMA SaveChecksStep ==
    ASSUME SettingsInv, NEW q \in Handlers, NEW values \in [Checks -> Values],
           SaveChecks(q, values)
    PROVE  SettingsInv'
<1> USE DEF SettingsInv
<1>1. /\ UNCHANGED <<service, columns, beat, forms>>
      /\ handler' = [handler EXCEPT ![q] = NoHandler]
      /\ crossed' = (crossed \/ <<columns, checks>> # <<handler[q].stored, handler[q].checks>>)
  BY DEF SaveChecks, SaveEnds
<1>2. checks' \in CheckValues
  BY DEF SaveChecks, CheckValues, SettingsTypeOK
<1>3. NoHandler \in [pc : {"idle", "read"}, stored : Forms(service), checks : CheckValues]
      /\ NoHandler.stored.filled = {}
  BY DEF NoHandler, Forms, CheckValues, Values
<1>4. SettingsTypeOK'
  BY <1>1, <1>2, <1>3 DEF SettingsTypeOK
<1>5. Complete'
  BY <1>1 DEF Complete
<1>6. AddressStays'
  BY <1>1, <1>3 DEF AddressStays, SettingsTypeOK
<1> QED
  BY <1>4, <1>5, <1>6

LEMMA SettingsStep ==
    ASSUME SettingsConstants, SettingsInv, [SettingsNext]_settingsVars
    PROVE  SettingsInv'
<1> USE DEF SettingsInv
<1>s. {"ldap", "oidc", "syslog", "smtp", "geoip"} \subseteq Services
  BY DEF Services, Needed
<1>n. NoHandler \in [pc : {"idle", "read"}, stored : Forms(service), checks : CheckValues]
      /\ NoHandler.stored.filled = {}
  BY DEF NoHandler, Forms, CheckValues, Values
<1>1. ASSUME NEW q \in Handlers, ReadSettings(q) PROVE SettingsInv'
  <2> DEFINE h == [pc |-> "read", stored |-> columns, checks |-> checks]
  <2>1. handler' = [handler EXCEPT ![q] = h] /\ UNCHANGED <<service, columns, checks, beat, crossed>>
        /\ forms' \in 0 .. MaxForms
    BY <1>1 DEF ReadSettings, SettingsTypeOK, SettingsConstants
  <2>2. h \in [pc : {"idle", "read"}, stored : Forms(service), checks : CheckValues]
        /\ h.stored = columns
    BY DEF SettingsTypeOK
  <2> HIDE DEF h
  <2>3. SettingsTypeOK'
    BY <2>1, <2>2 DEF SettingsTypeOK
  <2>4. Complete' /\ AddressStays'
    BY <2>1, <2>2 DEF SettingsTypeOK, Complete, AddressStays
  <2> QED
    BY <2>3, <2>4
<1>2. ASSUME NEW q \in Handlers, Refuse(q) PROVE SettingsInv'
  <2>1. SettingsTypeOK'
    BY <1>2, <1>n DEF Refuse, SettingsTypeOK
  <2>2. Complete' /\ AddressStays'
    BY <1>2, <1>n DEF Refuse, SettingsTypeOK, Complete, AddressStays
  <2> QED
    BY <2>1, <2>2
<1>3. ASSUME NEW q \in Handlers,
             \/ SaveLdap(q) \/ SaveOidc(q) \/ SaveSyslog(q) \/ SaveSmtp(q)
             \/ SaveGeoip(q) \/ SaveGeoipApi(q)
      PROVE  SettingsInv'
  BY <1>3, <1>s, SaveFormStep
     DEF SaveLdap, SaveOidc, SaveSyslog, SaveSmtp, SaveGeoip, SaveGeoipApi
<1>4. ASSUME NEW q \in Handlers, NEW values \in CheckValues, SaveChecks(q, values)
      PROVE  SettingsInv'
  BY <1>4, SaveChecksStep DEF CheckValues
<1>5. ASSUME NEW q \in Handlers, NEW fields \in SUBSET Checks, NEW values \in CheckValues,
             SaveChecksApi(q, fields, values)
      PROVE  SettingsInv'
  <2> DEFINE v == [c \in Checks |-> IF c \in fields THEN values[c] ELSE handler[q].checks[c]]
  <2>1. v \in [Checks -> Values] /\ SaveChecks(q, v)
    BY <1>5 DEF SaveChecksApi, SettingsTypeOK, CheckValues
  <2> HIDE DEF v
  <2> QED
    BY <2>1, SaveChecksStep
<1>6. CASE StartBeat \/ StopBeat
  <2>1. beat' \in [Intervals -> Values \cup {"none"}]
    BY <1>6 DEF StartBeat, StopBeat, IntervalsOf, BuiltIn, Stopped, Intervals, Checks, Values,
                SettingsTypeOK, CheckValues
  <2> QED
    BY <1>6, <2>1 DEF StartBeat, StopBeat, SettingsTypeOK, Complete, AddressStays
<1>7. CASE UNCHANGED settingsVars
  BY <1>7 DEF settingsVars, SettingsTypeOK, Complete, AddressStays
<1> QED
  BY <1>1, <1>2, <1>3, <1>4, <1>5, <1>6, <1>7 DEF SettingsNext

LEMMA SettingsBegin == ASSUME SettingsConstants, SettingsInit PROVE SettingsInv
<1>1. columns \in Forms(service) /\ ~columns.on /\ columns.filled = {}
  BY DEF SettingsInit, Forms
<1>2. NoHandler \in [pc : {"idle", "read"}, stored : Forms(service), checks : CheckValues]
      /\ NoHandler.stored.filled = {}
  BY DEF NoHandler, Forms, CheckValues, Values
<1>3. checks \in CheckValues /\ beat \in [Intervals -> Values \cup {"none"}]
  BY DEF SettingsInit, CheckValues, Values, Stopped
<1>4. SettingsTypeOK
  <2>1. handler \in [Handlers -> [pc : {"idle", "read"}, stored : Forms(service),
                                 checks : CheckValues]]
    BY <1>2 DEF SettingsInit
  <2>2. service \in Services /\ forms = 0 /\ crossed \in BOOLEAN
    BY DEF SettingsInit
  <2>3. 0 \in 0 .. MaxForms
    BY DEF SettingsConstants
  <2> QED
    BY <1>1, <1>3, <2>1, <2>2, <2>3 DEF SettingsTypeOK
<1>5. Complete /\ AddressStays
  BY <1>1, <1>2 DEF SettingsInit, Complete, AddressStays
<1> QED
  BY <1>4, <1>5 DEF SettingsInv

\* Every form, every check and every read copy is one the code can hold.
THEOREM SettingsTyped ==
    ASSUME SettingsConstants PROVE SettingsSpec => []SettingsTypeOK
<1>1. SettingsInit => SettingsInv
  BY SettingsBegin
<1>2. SettingsInv /\ [SettingsNext]_settingsVars => SettingsInv'
  BY SettingsStep
<1>3. SettingsInv => SettingsTypeOK
  BY DEF SettingsInv
<1> QED
  BY <1>1, <1>2, <1>3, PTL DEF SettingsSpec

\* A service that is switched on has what it needs unless two saves crossed,
\* and GeoIP has its address whatever crosses, for any number of saves
\* (app/web/routes/settings.py: every form keeps a blank secret, GeoIP's form
\* its addresses).
THEOREM EnabledIsCompleteAlways ==
    ASSUME SettingsConstants PROVE SettingsSpec => []EnabledIsComplete
<1>1. SettingsInit => SettingsInv
  BY SettingsBegin
<1>2. SettingsInv /\ [SettingsNext]_settingsVars => SettingsInv'
  BY SettingsStep
<1>3. SettingsInv => EnabledIsComplete
  BY DEF SettingsInv, Complete, AddressStays, EnabledIsComplete
<1> QED
  BY <1>1, <1>2, <1>3, PTL DEF SettingsSpec

-----------------------------------------------------------------------------
(* Backup *)

WritingTask == [pc : {"idle", "companies", "honeypots", "writing"},
                kind : {"auto", "download"}, rows : Rows \cup {Nothing}]

\* The application stands still while a dump is loaded, and no backup is being
\* written then.
BackupShape ==
    /\ rows \in Rows /\ key \in Keys /\ mixed \in BOOLEAN
    /\ up = (loading = Nothing)
    /\ task \in [BackupTasks -> WritingTask]
    /\ \A t \in BackupTasks : task[t].pc # "idle" => up /\ task[t].rows \in Rows
    /\ stored \in Seq(Archives) /\ Len(stored) <= Keep
    /\ copy \in Archives \cup {Nothing} /\ dump \in Archives \cup {Nothing}
    /\ loading \in Archives \cup {Nothing}
    /\ acts \in 0 .. MaxActs

\* A copy whose key opens its secrets.
Whole == {b \in Archives : b.rows.sealed \subseteq {b.key}}

\* Whatever holds a database holds the key its secrets are sealed under: the
\* installation, the backups being written, the files, and between the two
\* steps of restore.sh the loaded dump.
SealedUnder ==
    ~mixed =>
        /\ rows.sealed \subseteq IF up THEN {key} ELSE {loading.key}
        /\ \A t \in BackupTasks : task[t].pc # "idle" => task[t].rows.sealed \subseteq {key}
        /\ stored \in Seq(Whole)
        /\ copy \in Whole \cup {Nothing} /\ dump \in Whole \cup {Nothing}
        /\ loading \in Whole \cup {Nothing}

BackupInv == BackupShape /\ SealedUnder

\* One act more is within the bound.
LEMMA ActsStep == ASSUME BackupConstants, acts \in 0 .. MaxActs, Acts PROVE acts' \in 0 .. MaxActs
  BY DEF BackupConstants, Acts

\* The database changes under its own key, and the rest stays.
LEMMA RowsStep ==
    ASSUME BackupConstants, BackupInv, rows' \in Rows, up,
           ~mixed => rows'.sealed \subseteq {key},
           acts' \in 0 .. MaxActs, UNCHANGED <<task, stored, copy, host>>
    PROVE  BackupInv'
<1>1. BackupShape'
  BY DEF BackupInv, BackupShape, host
<1>2. SealedUnder'
  BY DEF BackupInv, BackupShape, SealedUnder, host
<1> QED
  BY <1>1, <1>2 DEF BackupInv

LEMMA WriteRowsStep ==
    ASSUME BackupConstants, BackupInv, NEW new \in Rows, new.sealed = rows.sealed, WriteRows(new)
    PROVE  BackupInv'
<1>1. rows' \in Rows /\ rows'.sealed = rows.sealed \cup {key}
  BY DEF WriteRows, Rows, BackupInv, BackupShape
<1>2. ~mixed => rows.sealed \subseteq {key}
  BY DEF WriteRows, BackupInv, SealedUnder
<1>3. acts' \in 0 .. MaxActs
  BY ActsStep DEF WriteRows, BackupInv, BackupShape
<1> QED
  BY <1>1, <1>2, <1>3, RowsStep DEF WriteRows

\* A backup that begins, reads or ends leaves the database as it is, but for
\* the time of the last backup.
LEMMA TaskStep ==
    ASSUME BackupConstants, BackupInv, NEW t \in BackupTasks, NEW r \in WritingTask,
           task' = [task EXCEPT ![t] = r],
           r.pc # "idle" => /\ up /\ r.rows \in Rows
                            /\ ~mixed => r.rows.sealed \subseteq {key},
           rows' = rows \/ rows' = [rows EXCEPT !.auto.recent = TRUE],
           acts' \in 0 .. MaxActs, UNCHANGED <<stored, copy, host>>
    PROVE  BackupInv'
<1>1. rows' \in Rows /\ rows'.sealed = rows.sealed
  <2>1. rows \in Rows
    BY DEF BackupInv, BackupShape
  <2>2. CASE rows' = [rows EXCEPT !.auto.recent = TRUE]
    BY <2>1, <2>2 DEF Rows, AutoBackup
  <2> QED
    BY <2>1, <2>2
<1>2. task' \in [BackupTasks -> WritingTask]
  BY DEF BackupInv, BackupShape
<1>3. BackupShape'
  BY <1>1, <1>2 DEF BackupInv, BackupShape, host
<1>4. \A s \in BackupTasks : ~mixed /\ task'[s].pc # "idle" => task'[s].rows.sealed \subseteq {key}
  BY DEF BackupInv, BackupShape, SealedUnder
<1>5. SealedUnder'
  BY <1>1, <1>4 DEF BackupInv, BackupShape, SealedUnder, host
<1> QED
  BY <1>3, <1>5 DEF BackupInv

LEMMA NotWritingType == NotWriting \in WritingTask /\ NotWriting.pc = "idle"
  BY DEF NotWriting, WritingTask

LEMMA BeginStep ==
    ASSUME BackupConstants, BackupInv, NEW t \in BackupTasks,
           NEW kind \in {"auto", "download"}, BeginBackup(t, kind), acts' \in 0 .. MaxActs
    PROVE  BackupInv'
<1> DEFINE r == [pc |-> "companies", kind |-> kind, rows |-> rows]
<1>1. r \in WritingTask /\ r.pc # "idle" /\ r.rows = rows /\ rows \in Rows
  BY DEF WritingTask, BackupInv, BackupShape
<1>2. ~mixed => rows.sealed \subseteq {key}
  BY DEF BeginBackup, BackupInv, SealedUnder
<1>3. task' = [task EXCEPT ![t] = r] /\ up /\ UNCHANGED <<rows, stored, copy, host>>
  BY DEF BeginBackup
<1> HIDE DEF r
<1> QED
  BY <1>1, <1>2, <1>3, TaskStep

\* What is read is this installation's.
LEMMA ReadRowsStep ==
    ASSUME BackupConstants, BackupInv, NEW t \in BackupTasks,
           ReadCompanies(t) \/ ReadHoneypots(t)
    PROVE  BackupInv'
<1> USE DEF BackupInv, BackupShape
<1>1. task[t] \in WritingTask /\ task[t].pc # "idle" /\ task[t].rows \in Rows /\ up /\ rows \in Rows
  BY DEF ReadCompanies, ReadHoneypots
<1>2. ~mixed => rows.sealed \subseteq {key} /\ task[t].rows.sealed \subseteq {key}
  BY <1>1 DEF SealedUnder
<1>3. CASE ReadCompanies(t)
  <2> DEFINE r == [task[t] EXCEPT !.pc = "honeypots", !.rows = rows]
  <2>1. r \in WritingTask /\ r.rows = rows
    BY <1>1 DEF WritingTask
  <2>2. task' = [task EXCEPT ![t] = r]
    BY <1>3 DEF ReadCompanies
  <2>3. UNCHANGED <<rows, stored, copy, host, acts>>
    BY <1>3 DEF ReadCompanies
  <2> HIDE DEF r
  <2> QED
    BY <1>1, <1>2, <2>1, <2>2, <2>3, TaskStep
<1>4. CASE ReadHoneypots(t)
  <2> DEFINE read == [task[t].rows EXCEPT !.honeypots = rows.honeypots]
             r == [task[t] EXCEPT !.pc = "writing", !.rows = read]
  <2>1. read \in Rows /\ read.sealed = task[t].rows.sealed
    BY <1>1 DEF Rows
  <2>2. task' = [task EXCEPT ![t] = r]
    BY <1>4 DEF ReadHoneypots
  <2> HIDE DEF read
  <2>3. r \in WritingTask /\ r.rows = read
    BY <1>1, <2>1 DEF WritingTask
  <2>4. UNCHANGED <<rows, stored, copy, host, acts>>
    BY <1>4 DEF ReadHoneypots
  <2> HIDE DEF r
  <2> QED
    BY <1>1, <1>2, <2>1, <2>2, <2>3, <2>4, TaskStep
<1> QED
  BY <1>3, <1>4

\* The newest files are files.
LEMMA PruneSeq ==
    ASSUME BackupConstants, NEW S, NEW files \in Seq(S), Len(files) > Keep
    PROVE  Prune(files) \in Seq(S) /\ Len(Prune(files)) <= Keep
<1> DEFINE m == Len(files) - Keep + 1
           n == Len(files)
<1>1. m \in Int /\ n \in Int /\ m >= 1 /\ n - m + 1 = Keep
  BY DEF BackupConstants
<1>2. \A i \in m .. n : files[i] \in S
  BY <1>1
<1>3. Prune(files) = SubSeq(files, m, n)
  BY DEF Prune
<1> HIDE DEF m, n
<1>4. Prune(files) \in Seq(S) /\ Len(Prune(files)) = IF m <= n THEN n - m + 1 ELSE 0
  BY <1>1, <1>2, <1>3, SubSeqProperties
<1> QED
  BY <1>1, <1>4 DEF BackupConstants

LEMMA RemoveAtSeq ==
    ASSUME NEW S, NEW files \in Seq(S), NEW i \in 1 .. Len(files)
    PROVE  RemoveAt(files, i) \in Seq(S) /\ Len(RemoveAt(files, i)) <= Len(files)
<1>1. SubSeq(files, 1, i - 1) \in Seq(S) /\ Len(SubSeq(files, 1, i - 1)) = i - 1
  <2>1. 1 \in Int /\ i - 1 \in Int /\ \A j \in 1 .. i - 1 : files[j] \in S
    OBVIOUS
  <2> QED
    BY <2>1, SubSeqProperties
<1>2. /\ SubSeq(files, i + 1, Len(files)) \in Seq(S)
      /\ Len(SubSeq(files, i + 1, Len(files))) = Len(files) - i
  <2>1. i + 1 \in Int /\ Len(files) \in Int /\ \A j \in i + 1 .. Len(files) : files[j] \in S
    OBVIOUS
  <2>2. /\ SubSeq(files, i + 1, Len(files)) \in Seq(S)
        /\ Len(SubSeq(files, i + 1, Len(files))) =
              IF i + 1 <= Len(files) THEN Len(files) - (i + 1) + 1 ELSE 0
    BY <2>1, SubSeqProperties
  <2> QED
    BY <2>2
<1> DEFINE s1 == SubSeq(files, 1, i - 1)
           s2 == SubSeq(files, i + 1, Len(files))
<1>3. RemoveAt(files, i) = s1 \o s2
  BY DEF RemoveAt
<1>4. s1 \in Seq(S) /\ s2 \in Seq(S) /\ Len(s1) = i - 1 /\ Len(s2) = Len(files) - i
  BY <1>1, <1>2
<1> HIDE DEF s1, s2
<1>5. s1 \o s2 \in Seq(S) /\ Len(s1 \o s2) = Len(s1) + Len(s2)
  BY <1>4, ConcatProperties
<1>6. Len(files) \in Nat
  OBVIOUS
<1> QED
  BY <1>3, <1>4, <1>5, <1>6

\* A file is kept with the key its backup was read under.
LEMMA WriteStep ==
    ASSUME BackupConstants, BackupInv, NEW t \in BackupTasks, WriteBackup(t)
    PROVE  BackupInv'
<1> DEFINE file == [rows |-> task[t].rows, key |-> key]
<1>1. /\ task[t].pc # "idle" /\ task[t].rows \in Rows /\ key \in Keys /\ up
      /\ ~mixed => task[t].rows.sealed \subseteq {key}
  BY DEF WriteBackup, BackupInv, BackupShape, SealedUnder
<1>2. file \in Archives /\ (~mixed => file \in Whole)
  BY <1>1 DEF Archives, Whole
<1>3. task' = [task EXCEPT ![t] = NotWriting]
  BY DEF WriteBackup
<1>4. task' \in [BackupTasks -> WritingTask]
      /\ \A s \in BackupTasks : task'[s].pc # "idle" => task'[s] = task[s]
  BY <1>3, NotWritingType DEF BackupInv, BackupShape
<1>5. UNCHANGED <<host, acts>>
  BY DEF WriteBackup
<1>6. CASE task[t].kind = "download"
  <2>1. copy' = file /\ UNCHANGED <<rows, stored>>
    BY <1>6 DEF WriteBackup
  <2> HIDE DEF file
  <2>2. BackupShape'
    BY <1>2, <1>4, <1>5, <2>1 DEF BackupInv, BackupShape, host
  <2>3. SealedUnder'
    BY <1>2, <1>4, <1>5, <2>1 DEF BackupInv, BackupShape, SealedUnder, host
  <2> QED
    BY <2>2, <2>3 DEF BackupInv
<1>7. CASE task[t].kind # "download"
  <2>1. /\ stored' = IF Len(stored) < Keep THEN Append(stored, file)
                     ELSE Prune(Append(stored, file))
        /\ rows' = [rows EXCEPT !.auto.recent = TRUE]
        /\ UNCHANGED copy
    BY <1>7 DEF WriteBackup
  <2> HIDE DEF file
  <2>2. ASSUME NEW S, stored \in Seq(S), file \in S, Len(stored) <= Keep
        PROVE  stored' \in Seq(S) /\ Len(stored') <= Keep
    <3>1. Append(stored, file) \in Seq(S) /\ Len(Append(stored, file)) = Len(stored) + 1
      BY <2>2
    <3>2. CASE Len(stored) < Keep
      BY <2>1, <2>2, <3>1, <3>2 DEF BackupConstants
    <3>3. CASE ~(Len(stored) < Keep)
      <4>1. Len(Append(stored, file)) > Keep
        BY <2>2, <3>1, <3>3 DEF BackupConstants
      <4> QED
        BY <2>1, <3>1, <3>3, <4>1, PruneSeq
    <3> QED
      BY <3>2, <3>3
  <2>3. rows' \in Rows /\ rows'.sealed = rows.sealed
    BY <2>1 DEF Rows, AutoBackup, BackupInv, BackupShape
  <2>4. stored' \in Seq(Archives) /\ Len(stored') <= Keep
    BY <1>2, <2>2 DEF BackupInv, BackupShape
  <2>5. ~mixed => stored' \in Seq(Whole)
    BY <1>2, <2>2 DEF BackupInv, BackupShape, SealedUnder
  <2>6. BackupShape'
    BY <1>4, <1>5, <2>1, <2>3, <2>4 DEF BackupInv, BackupShape, host
  <2>7. SealedUnder'
    BY <1>4, <1>5, <2>1, <2>3, <2>5 DEF BackupInv, BackupShape, SealedUnder, host
  <2> QED
    BY <2>6, <2>7 DEF BackupInv
<1> QED
  BY <1>6, <1>7

\* A backup that fails, or whose worker dies.
LEMMA StopStep ==
    ASSUME BackupConstants, BackupInv, NEW t \in BackupTasks, BackupFails(t) \/ WorkerDies(t)
    PROVE  BackupInv'
<1>1. acts' \in 0 .. MaxActs
  <2>1. acts \in 0 .. MaxActs
    BY DEF BackupInv, BackupShape
  <2> QED
    BY <2>1, ActsStep DEF BackupFails, WorkerDies
<1>2. /\ task' = [task EXCEPT ![t] = NotWriting]
      /\ rows' = rows \/ rows' = [rows EXCEPT !.auto.recent = TRUE]
      /\ UNCHANGED <<stored, copy, host>>
  BY DEF BackupFails, WorkerDies
<1> QED
  BY <1>1, <1>2, NotWritingType, TaskStep

\* A file is taken away or deleted.
LEMMA FileStep ==
    ASSUME BackupConstants, BackupInv, NEW i \in DOMAIN stored, DownloadStored(i) \/ DeleteStored(i)
    PROVE  BackupInv'
<1> USE DEF BackupInv, BackupShape
<1>1. i \in 1 .. Len(stored) /\ stored[i] \in Archives /\ (~mixed => stored[i] \in Whole)
  BY DEF SealedUnder
<1>2. CASE DownloadStored(i)
  <2>1. copy' = stored[i] /\ UNCHANGED <<rows, task, stored, host, acts>>
    BY <1>2 DEF DownloadStored
  <2>2. BackupShape'
    BY <1>1, <2>1 DEF host
  <2>3. SealedUnder'
    BY <1>1, <2>1 DEF SealedUnder, host
  <2> QED
    BY <2>2, <2>3
<1>3. CASE DeleteStored(i)
  <2>1. stored' = RemoveAt(stored, i) /\ UNCHANGED <<rows, task, copy, host>>
    BY <1>3 DEF DeleteStored
  <2>2. stored' \in Seq(Archives) /\ Len(stored') <= Len(stored)
    BY <1>1, <2>1, RemoveAtSeq
  <2>3. ~mixed => stored' \in Seq(Whole)
    BY <1>1, <2>1, RemoveAtSeq DEF SealedUnder
  <2>4. acts' \in 0 .. MaxActs
    BY <1>3, ActsStep DEF DeleteStored
  <2>5. Len(stored') <= Keep
    BY <2>2 DEF BackupConstants
  <2>6. BackupShape'
    BY <2>1, <2>2, <2>4, <2>5 DEF host
  <2>7. SealedUnder'
    BY <2>1, <2>3 DEF SealedUnder, host
  <2> QED
    BY <2>6, <2>7
<1> QED
  BY <1>2, <1>3

\* What is restored is sealed again under this installation's key.
LEMMA RestoreStep ==
    ASSUME BackupConstants, BackupInv, RestoreFullBackup(copy)
    PROVE  BackupInv'
<1> USE DEF BackupInv, BackupShape
<1>1. copy \in Archives /\ (~mixed => copy \in Whole) /\ key \in Keys
  BY DEF RestoreFullBackup, SealedUnder
<1>2. copy.rows \in Rows /\ rows' = Restored(copy) /\ up
  BY <1>1 DEF RestoreFullBackup, Archives
<1>3. /\ rows' \in Rows
      /\ rows'.sealed = IF copy.key # key /\ copy.rows.sealed # {} THEN {key}
                        ELSE copy.rows.sealed
  BY <1>1, <1>2 DEF Restored, Rows
<1>4. ~mixed => rows'.sealed \subseteq {key}
  BY <1>1, <1>3 DEF Whole
<1>5. acts' \in 0 .. MaxActs
  BY ActsStep DEF RestoreFullBackup
<1>6. UNCHANGED <<task, stored, copy, host>>
  BY DEF RestoreFullBackup
<1> QED
  BY <1>2, <1>3, <1>4, <1>5, <1>6, RowsStep

LEMMA InstalledRows == \A k \in Keys : Installed(k) \in Rows /\ Installed(k).sealed = {k}
  BY DEF Installed, Rows, AutoBackup, NoAuto

LEMMA ScriptsStep ==
    ASSUME BackupConstants, BackupInv, Scripts
    PROVE  BackupInv'
<1> DEFINE idle == [t \in BackupTasks |-> NotWriting]
<1>1. /\ idle \in [BackupTasks -> WritingTask]
      /\ \A t \in BackupTasks : idle[t].pc = "idle"
  BY NotWritingType
<1> USE DEF BackupInv, BackupShape
<1>2. CASE BackupScript
  <2>1. dump' = [rows |-> rows, key |-> key] /\ up
        /\ UNCHANGED <<rows, task, stored, copy, key, up, loading, mixed>>
    BY <1>2 DEF BackupScript
  <2>2. acts' \in 0 .. MaxActs
    BY <1>2, ActsStep DEF BackupScript
  <2>3. dump' \in Archives /\ (~mixed => dump' \in Whole)
    BY <2>1 DEF Archives, Whole, SealedUnder
  <2>4. BackupShape'
    BY <2>1, <2>2, <2>3
  <2>5. SealedUnder'
    BY <2>1, <2>3 DEF SealedUnder
  <2> QED
    BY <2>4, <2>5
<1>3. CASE \E k \in Keys : Reinstall(k)
  <2>1. PICK k \in Keys : Reinstall(k)
    BY <1>3
  <2>2. /\ key' = k /\ rows' = Installed(k) /\ up' = TRUE /\ task' = idle /\ stored' = <<>>
        /\ loading' = Nothing /\ UNCHANGED <<copy, dump, mixed>>
    BY <2>1 DEF Reinstall
  <2>3. acts' \in 0 .. MaxActs
    BY <2>1, ActsStep DEF Reinstall
  <2>4. stored' \in Seq(Archives) /\ stored' \in Seq(Whole) /\ Len(stored') <= Keep
    BY <2>2, EmptySeq DEF BackupConstants
  <2> HIDE DEF idle
  <2>5. BackupShape'
    BY <1>1, <2>2, <2>3, <2>4, InstalledRows
  <2>6. SealedUnder'
    BY <1>1, <2>2, <2>4, InstalledRows DEF SealedUnder
  <2> QED
    BY <2>5, <2>6
<1>4. CASE RestoreScript
  <2>1. /\ dump # Nothing /\ up' = FALSE /\ rows' = dump.rows /\ loading' = dump /\ task' = idle
        /\ UNCHANGED <<stored, copy, key, dump, mixed>>
    BY <1>4 DEF RestoreScript
  <2>2. acts' \in 0 .. MaxActs
    BY <1>4, ActsStep DEF RestoreScript
  <2>3. dump \in Archives /\ dump.rows \in Rows
    BY <2>1 DEF Archives
  <2>4. ~mixed => dump.rows.sealed \subseteq {dump.key}
    BY <2>1 DEF SealedUnder, Whole
  <2> HIDE DEF idle
  <2>5. BackupShape'
    BY <1>1, <2>1, <2>2, <2>3
  <2>6. SealedUnder'
    BY <1>1, <2>1, <2>4 DEF SealedUnder
  <2> QED
    BY <2>5, <2>6
<1>5. CASE ReplaceEnv
  <2>1. /\ loading # Nothing /\ key' = loading.key /\ up' = TRUE /\ loading' = Nothing
        /\ UNCHANGED <<rows, task, stored, copy, dump, mixed, acts>>
    BY <1>5 DEF ReplaceEnv
  <2>2. key' \in Keys /\ \A t \in BackupTasks : task[t].pc = "idle"
    BY <2>1 DEF Archives
  <2>3. BackupShape'
    BY <2>1, <2>2
  <2>4. SealedUnder'
    BY <2>1, <2>2 DEF SealedUnder
  <2> QED
    BY <2>3, <2>4
<1>6. CASE RestoreScriptDies
  <2>1. /\ loading # Nothing /\ up' = TRUE /\ loading' = Nothing
        /\ mixed' = (mixed \/ loading.key # key)
        /\ UNCHANGED <<rows, task, stored, copy, key, dump, acts>>
    BY <1>6 DEF RestoreScriptDies
  <2>2. \A t \in BackupTasks : task[t].pc = "idle"
    BY <2>1
  <2>3. mixed' \in BOOLEAN
    BY <2>1
  <2>4. BackupShape'
    BY <2>1, <2>2, <2>3
  <2>5. SealedUnder'
    <3>1. SUFFICES ASSUME ~mixed' PROVE SealedUnder'
      BY DEF SealedUnder
    <3>2. ~mixed /\ loading.key = key
      BY <2>1, <3>1
    <3> QED
      BY <2>1, <2>2, <3>2 DEF SealedUnder
  <2> QED
    BY <2>4, <2>5
<1> QED
  BY <1>2, <1>3, <1>4, <1>5, <1>6 DEF Scripts

LEMMA AtWorkStep ==
    ASSUME BackupConstants, BackupInv, AtWork
    PROVE  BackupInv'
<1>1. rows \in Rows
  BY DEF BackupInv, BackupShape
<1>2. ASSUME NEW c \in StoredCompanies, AddCompany(c) \/ DropCompany(c) PROVE BackupInv'
  <2>1. /\ [rows EXCEPT !.companies = @ \cup {c}] \in Rows
        /\ [rows EXCEPT !.companies = @ \cup {c}].sealed = rows.sealed
    BY <1>1 DEF Rows
  <2> DEFINE less == [rows EXCEPT !.companies = @ \ {c},
                                  !.honeypots = {h \in @ : h.company # c}]
  <2>2. less \in Rows /\ less.sealed = rows.sealed
    BY <1>1 DEF Rows
  <2>3. DropCompany(c) => WriteRows(less)
    BY DEF DropCompany
  <2> HIDE DEF less
  <2> QED
    BY <1>2, <2>1, <2>2, <2>3, WriteRowsStep DEF AddCompany
<1>3. ASSUME NEW h \in Honeypot, AddHoneypot(h) PROVE BackupInv'
  <2>1. /\ [rows EXCEPT !.honeypots = @ \cup {h}] \in Rows
        /\ [rows EXCEPT !.honeypots = @ \cup {h}].sealed = rows.sealed
    BY <1>1 DEF Rows
  <2> QED
    BY <1>3, <2>1, WriteRowsStep DEF AddHoneypot
<1>4. ASSUME NEW on \in BOOLEAN, NEW given \in BOOLEAN, SaveAutoBackup(on, given) PROVE BackupInv'
  <2> DEFINE auto == [rows.auto EXCEPT !.on = on, !.passphrase = @ \/ given]
             new == [rows EXCEPT !.auto.on = on, !.auto.passphrase = @ \/ given]
  <2>1. auto \in AutoBackup
    <3>1. rows.auto \in AutoBackup
      BY <1>1 DEF Rows
    <3>2. (rows.auto.passphrase \/ given) \in BOOLEAN
      OBVIOUS
    <3> QED
      BY <3>1, <3>2 DEF AutoBackup
  <2>2. new = [rows EXCEPT !.auto = auto]
    BY <1>1 DEF Rows, AutoBackup
  <2>3. WriteRows(new)
    BY <1>4 DEF SaveAutoBackup
  <2> HIDE DEF auto, new
  <2>4. new \in Rows /\ new.sealed = rows.sealed
    BY <1>1, <2>1, <2>2 DEF Rows
  <2> QED
    BY <2>3, <2>4, WriteRowsStep
<1>5. ASSUME NEW i \in DOMAIN stored,
             DownloadStored(i) \/ DeleteStored(i) \/ DownloadStoredApi(i) \/ DeleteStoredApi(i)
      PROVE  BackupInv'
  BY <1>5, FileStep DEF DownloadStoredApi, DeleteStoredApi
<1>6. CASE RestoreFullBackup(copy)
  BY <1>6, RestoreStep
<1> QED
  BY <1>2, <1>3, <1>4, <1>5, <1>6 DEF AtWork, UpdateAutoBackupApi

LEMMA BackingUpStep ==
    ASSUME BackupConstants, BackupInv, NEW t \in BackupTasks, BackingUp(t)
    PROVE  BackupInv'
<1>1. acts \in 0 .. MaxActs
  BY DEF BackupInv, BackupShape
<1>2. CASE RunDueAppBackup(t)
  BY <1>1, <1>2, BeginStep DEF RunDueAppBackup
<1>3. CASE RunBackupNow(t) \/ RunAutoBackupApi(t)
  BY <1>1, <1>3, BeginStep, ActsStep DEF RunAutoBackupApi, RunBackupNow
<1>4. CASE DownloadFullBackup(t) \/ FullBackupApi(t)
  BY <1>1, <1>4, BeginStep, ActsStep DEF FullBackupApi, DownloadFullBackup
<1> QED
  BY <1>2, <1>3, <1>4, ReadRowsStep, WriteStep, StopStep DEF BackingUp

LEMMA BackupStep ==
    ASSUME BackupConstants, BackupInv, [BackupNext]_backupVars
    PROVE  BackupInv'
<1>1. CASE IntervalPasses
  <2>1. rows' \in Rows /\ rows'.sealed = rows.sealed
    BY <1>1 DEF IntervalPasses, Rows, AutoBackup, BackupInv, BackupShape
  <2>2. UNCHANGED <<task, stored, copy, host, acts>>
    BY <1>1 DEF IntervalPasses
  <2>3. BackupShape'
    BY <2>1, <2>2 DEF BackupInv, BackupShape, host
  <2>4. SealedUnder'
    BY <2>1, <2>2 DEF BackupInv, BackupShape, SealedUnder, host
  <2> QED
    BY <2>3, <2>4 DEF BackupInv
<1>2. CASE UNCHANGED backupVars
  BY <1>2 DEF backupVars, BackupInv, BackupShape, SealedUnder
<1> QED
  BY <1>1, <1>2, AtWorkStep, BackingUpStep, ScriptsStep DEF BackupNext

LEMMA BackupBegin == ASSUME BackupConstants, BackupInit PROVE BackupInv
<1>1. rows \in Rows /\ rows.sealed = {key} /\ key \in Keys
  BY InstalledRows DEF BackupInit
<1>2. /\ task \in [BackupTasks -> WritingTask]
      /\ \A t \in BackupTasks : task[t].pc = "idle"
  BY NotWritingType DEF BackupInit
<1>3. stored \in Seq(Archives) /\ stored \in Seq(Whole) /\ Len(stored) <= Keep
  BY EmptySeq DEF BackupInit, BackupConstants
<1>4. up = (loading = Nothing) /\ mixed \in BOOLEAN
  BY DEF BackupInit
<1>5. acts \in 0 .. MaxActs
  BY DEF BackupInit, BackupConstants
<1>6. copy = Nothing /\ dump = Nothing /\ loading = Nothing
  BY DEF BackupInit
<1>7. BackupShape
  BY <1>1, <1>2, <1>3, <1>4, <1>5, <1>6 DEF BackupShape
<1>8. SealedUnder
  BY <1>1, <1>2, <1>3, <1>6 DEF BackupInit, SealedUnder
<1> QED
  BY <1>7, <1>8 DEF BackupInv

\* Every stored backup is one that some installation wrote, and no more of
\* them stay than are to be kept.
THEOREM BackupTyped == ASSUME BackupConstants PROVE BackupSpec => []BackupTypeOK
<1>1. BackupInit => BackupInv
  BY BackupBegin
<1>2. BackupInv /\ [BackupNext]_backupVars => BackupInv'
  BY BackupStep
<1>3. ASSUME BackupInv PROVE BackupTypeOK
  <2>1. ToSet(stored) \subseteq Archives
    BY <1>3 DEF BackupInv, BackupShape, ToSet
  <2>2. \A t \in BackupTasks : task[t].rows \in Rows \cup {Nothing}
    BY <1>3 DEF BackupInv, BackupShape, WritingTask
  <2>3. up \in BOOLEAN
    BY <1>3 DEF BackupInv, BackupShape
  <2> QED
    BY <1>3, <2>1, <2>2, <2>3 DEF BackupInv, BackupShape, BackupTypeOK
<1> QED
  BY <1>1, <1>2, <1>3, PTL DEF BackupSpec

\* Whatever is backed up, restored or reinstalled, in any order and from any
\* instance, the key in .env opens every secret of the running application,
\* unless restore.sh was once cut short between the two
\* (services/full_backup.py: _reencrypt; scripts/restore.sh).
THEOREM SecretsOpenAlways ==
    ASSUME BackupConstants PROVE BackupSpec => []SecretsOpen
<1>1. BackupInit => BackupInv
  BY BackupBegin
<1>2. BackupInv /\ [BackupNext]_backupVars => BackupInv'
  BY BackupStep
<1>3. BackupInv => SecretsOpen
  BY DEF BackupInv, SealedUnder, SecretsOpen
<1> QED
  BY <1>1, <1>2, <1>3, PTL DEF BackupSpec

-----------------------------------------------------------------------------
(* The people and what they leave behind, together *)

\* A step of the small instance of the audit log is one of the log.
LEMMA AuditPart == MCNext => Next
BY DEF MCNext, Writing, Purging, Next

\* A step moves one part, by a step of that part, and leaves the others.
LEMMA PeopleStep ==
    ASSUME [PeopleNext]_peopleVars
    PROVE  /\ [Next]_vars /\ [AccountsNext]_accountVars /\ [LoginsNext]_loginVars
           /\ [EstateNext]_estateVars /\ [BackupNext]_backupVars
           /\ [PolicyNext]_policyVars /\ [SettingsNext]_settingsVars
<1>1. CASE UNCHANGED peopleVars
  BY <1>1 DEF peopleVars
<1>2. CASE Only("audit") /\ MCNext
  BY <1>2, AuditPart DEF Only
<1>3. CASE Only("accounts") /\ AccountsNext /\ FirstPlace
  BY <1>3 DEF Only
<1>4. CASE Only("logins") /\ LoginsNext
  BY <1>4 DEF Only
<1>5. CASE Only("estate") /\ EstateNext
  BY <1>5 DEF Only
<1>6. CASE Only("backup") /\ BackupNext
  BY <1>6 DEF Only
<1>7. CASE Only("policy") /\ PolicyNext
  BY <1>7 DEF Only
<1>8. CASE Only("settings") /\ SettingsNext
  BY <1>8 DEF Only
<1> QED
  BY <1>1, <1>2, <1>3, <1>4, <1>5, <1>6, <1>7, <1>8 DEF PeopleNext

\* The parts do not meddle with each other: what they do together is, for each
\* of them, something it does alone, so that all that is proved of a part
\* holds of the instance the parts are checked in.
THEOREM PeopleAreTheirParts ==
    PeopleSpec => /\ Spec /\ AccountsSpec /\ LoginsSpec /\ EstateSpec /\ BackupSpec
                  /\ PolicySpec /\ SettingsSpec
<1>1. PeopleInit => /\ Init /\ AccountsInit /\ LoginsInit /\ EstateInit /\ BackupInit
                    /\ PolicyInit /\ SettingsInit
  BY DEF PeopleInit, MCInit
<1>2. [PeopleNext]_peopleVars =>
        /\ [Next]_vars /\ [AccountsNext]_accountVars /\ [LoginsNext]_loginVars
        /\ [EstateNext]_estateVars /\ [BackupNext]_backupVars
        /\ [PolicyNext]_policyVars /\ [SettingsNext]_settingsVars
  BY PeopleStep
<1> QED
  BY <1>1, <1>2, PTL DEF PeopleSpec, Spec, AccountsSpec, LoginsSpec, EstateSpec, BackupSpec,
                         PolicySpec, SettingsSpec

\* Every row, session, request, sign-in, link, purge and backup is of its type,
\* whatever the writers, the requests and the tasks do side by side.
THEOREM PeopleTyped == PeopleSpec => []PeopleTypeOK
<1>1. /\ AccountsConstants /\ LoginsConstants /\ PolicyConstants
      /\ EstateConstants /\ SettingsConstants /\ BackupConstants
  BY ConstantsAreSound
<1>2. Spec => []TypeOK
  BY TypeCorrect
<1>3. AccountsSpec => []AccountsTypeOK
  BY <1>1, AccountsTyped
<1>4. LoginsSpec => []LoginsTypeOK
  BY <1>1, LoginsTypeCorrect
<1>5. EstateSpec => []EstateTypeOK
  BY <1>1, EstateTyped
<1>6. BackupSpec => []BackupTypeOK
  BY <1>1, BackupTyped
<1>7. PolicySpec => []PolicyTypeOK
  BY <1>1, PolicyTyped
<1>8. SettingsSpec => []SettingsTypeOK
  BY <1>1, SettingsTyped
<1>9. TypeOK /\ AccountsTypeOK /\ LoginsTypeOK /\ EstateTypeOK /\ BackupTypeOK
      /\ PolicyTypeOK /\ SettingsTypeOK => PeopleTypeOK
  BY DEF PeopleTypeOK
<1> QED
  BY <1>2, <1>3, <1>4, <1>5, <1>6, <1>7, <1>8, <1>9, PeopleAreTheirParts, PTL

=============================================================================
