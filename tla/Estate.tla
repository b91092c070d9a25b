------------------------------- MODULE Estate -------------------------------
(***************************************************************************)
(* Companies, who may see and write which, and the honeypots filed under    *)
(* them (app/auth/scope.py, routes/companies.py, api_v1_company_links.py,   *)
(* the create, edit and delete handlers of a honeypot).                      *)
(*                                                                         *)
(* A request works with two copies that age while it runs: what its account  *)
(* may write, read when it arrived, and the links of the honeypot it edits.  *)
(* The form it comes from is older still: it offered the companies the       *)
(* account could write when the page was drawn.                              *)
(* The superadmin's one-link routes read and write the same row: a conflict  *)
(* on it fails the request whole, so each is one step here.                  *)
(*                                                                         *)
(* "Root" is a superadmin without a company-limited API token; a member      *)
(* stands for anybody else, a superadmin's limited token included.           *)
(***************************************************************************)
EXTENDS FiniteSets, Naturals

CONSTANTS Companies, Honeypots, Members, Root, Edits, NoEdit,
          MaxEdits   \* bound: requests that arrive in a behaviour

EstateConstants == MaxEdits \in Nat

VARIABLES
    company,    \* companies that exist
    level,      \* company_memberships: account -> company -> its access level
    honeypot,   \* honeypots that exist
    link,       \* rows of honeypot_companies
    edit,       \* handlers in progress, and open edit forms
    edits       \* requests so far

estateVars == <<company, level, honeypot, link, edit, edits>>

Editors == Members \cup {Root}
Levels == {"none", "read", "write"}

RequestRow ==
    [op : {"edit", "delete", "create"}, by : Editors, step : {"open", "read", "saved"},
     honeypot : SUBSET Honeypots,
     offered : SUBSET Companies,    \* the companies its form showed
     writes : SUBSET Companies,     \* what the account could write on arrival
     held : SUBSET Companies,       \* the honeypot's companies as read
     keeps : SUBSET Companies]      \* the companies it is to have

EstateTypeOK ==
    /\ company \subseteq Companies
    /\ level \in [Members -> [Companies -> Levels]]
    /\ honeypot \subseteq Honeypots
    /\ link \subseteq honeypot \X company
    /\ edit \in [Edits -> RequestRow \cup {NoEdit}]
    /\ edits \in 0..MaxEdits

EstateInit ==
    /\ company = Companies
    /\ level \in [Members -> [Companies -> Levels]]
    /\ honeypot = {} /\ link = {}
    /\ edit = [q \in Edits |-> NoEdit]
    /\ edits = 0

-----------------------------------------------------------------------------
\* What an account may see and write

Writable(a) == IF a = Root THEN company ELSE {c \in company : level[a][c] = "write"}
CompaniesOf(h) == {c \in Companies : <<h, c>> \in link}
CanWrite(a, h) == a = Root \/ CompaniesOf(h) \cap Writable(a) # {}

-----------------------------------------------------------------------------
\* Companies and links, by the superadmin

CreateCompany(c) ==
    /\ c \notin company
    /\ company' = company \cup {c}
    /\ UNCHANGED <<level, honeypot, link, edit, edits>>

\* The links and the memberships go with it, honeypots and accounts stay.
DeleteCompany(c) ==
    /\ c \in company
    /\ company' = company \ {c}
    /\ link' = {l \in link : l[2] # c}
    /\ level' = [m \in Members |-> [level[m] EXCEPT ![c] = "none"]]
    /\ UNCHANGED <<honeypot, edit, edits>>

\* The REST API's.
CreateCompanyApi(c) == CreateCompany(c)
DeleteCompanyApi(c) == DeleteCompany(c)

\* Grants, changes and (with "none") takes away the memberships of M in c.
SetLevel(M, c, l) ==
    /\ c \in company
    /\ level' = [m \in Members |-> IF m \in M THEN [level[m] EXCEPT ![c] = l] ELSE level[m]]
    /\ UNCHANGED <<company, honeypot, link, edit, edits>>

AttachUser(m, c, l) == l # "none" /\ SetLevel({m}, c, l)
GrantCompanyAccess(m, c, l) == l # "none" /\ SetLevel({m}, c, l)
DetachUser(m, c) == level[m][c] # "none" /\ SetLevel({m}, c, "none")
RevokeCompanyAccess(m, c) == level[m][c] # "none" /\ SetLevel({m}, c, "none")
BulkAssignCompany(M, c, l) == l # "none" /\ SetLevel(M, c, l)

AttachHoneypot(h, c) ==
    /\ h \in honeypot /\ c \in company
    /\ <<h, c>> \notin link
    /\ link' = link \cup {<<h, c>>}
    /\ UNCHANGED <<company, level, honeypot, edit, edits>>

DetachHoneypot(h, c) ==
    /\ <<h, c>> \in link
    /\ link' = link \ {<<h, c>>}
    /\ UNCHANGED <<company, level, honeypot, edit, edits>>

\* The REST API's; repeating them changes nothing.
AttachHoneypotApi(h, c) == AttachHoneypot(h, c)
DetachHoneypotApi(h, c) == DetachHoneypot(h, c)

\* An imported configuration: companies by name, made when missing, and a new
\* honeypot filed under them, in one transaction.
ImportConfig(h, cs) ==
    /\ h \notin honeypot
    /\ company' = company \cup cs
    /\ honeypot' = honeypot \cup {h}
    /\ link' = link \cup {h} \X cs
    /\ UNCHANGED <<level, edit, edits>>

-----------------------------------------------------------------------------
\* Honeypots: a request arrives, reads, and saves later

Arrives(q, r) ==
    /\ edit[q] = NoEdit
    /\ edits < MaxEdits
    /\ edits' = edits + 1
    /\ edit' = [edit EXCEPT ![q] = r]
    /\ UNCHANGED <<company, level, honeypot, link>>

\* Mutant of Resolved: the submitted set replaces everything.
ResolvedReplaces(asked, writes, held) == asked \cap writes

\* The form and the body name companies; what the account cannot write and
\* the honeypot already has is kept.
Resolved(asked, writes, held) == (asked \cap writes) \cup (held \ writes)

\* What a request of account a to edit h works with, from here on.
Reading(a, h, offered, asked) ==
    [op |-> "edit", by |-> a, step |-> "read", honeypot |-> {h}, offered |-> offered,
     writes |-> Writable(a), held |-> CompaniesOf(h),
     keeps |-> Resolved(asked, Writable(a), CompaniesOf(h))]

\* The edit page is drawn; the account submits it later, or never.
EditHoneypotForm(q, a, h) ==
    /\ h \in honeypot
    /\ CanWrite(a, h)
    /\ Arrives(q, [op |-> "edit", by |-> a, step |-> "open", honeypot |-> {h},
                   offered |-> Writable(a), writes |-> {}, held |-> {}, keeps |-> {}])

\* The form is submitted: the scope and the links are read now, and what the
\* account may not write by now is dropped. The REST API has no form and
\* refuses what it may not write.
UpdateHoneypot(q, h, asked) ==
    /\ edit[q] # NoEdit /\ edit[q].step = "open" /\ edit[q].honeypot = {h}
    /\ h \in honeypot
    /\ CanWrite(edit[q].by, h)
    /\ asked \subseteq edit[q].offered
    /\ edit' = [edit EXCEPT ![q] = Reading(@.by, h, @.offered, asked)]
    /\ UNCHANGED <<company, level, honeypot, link, edits>>

UpdateHoneypotApi(q, a, h, asked) ==
    /\ h \in honeypot
    /\ CanWrite(a, h)
    /\ asked \subseteq Writable(a)
    /\ Arrives(q, Reading(a, h, Companies, asked))

DeleteArrives(q, a, hs) ==
    /\ hs # {}
    /\ \A h \in hs : h \in honeypot /\ CanWrite(a, h)
    /\ Arrives(q, [op |-> "delete", by |-> a, step |-> "read", honeypot |-> hs,
                   offered |-> {}, writes |-> Writable(a), held |-> {}, keeps |-> {}])

DeleteHoneypot(q, a, h) == DeleteArrives(q, a, {h})
DeleteHoneypotApi(q, a, h) == DeleteArrives(q, a, {h})
BulkDeleteHoneypots(q, a, hs) == DeleteArrives(q, a, hs)

CreateArrives(q, a, asked) ==
    /\ a = Root \/ Writable(a) # {}
    /\ Arrives(q, [op |-> "create", by |-> a, step |-> "read", honeypot |-> {},
                   offered |-> {}, writes |-> Writable(a), held |-> {},
                   keeps |-> asked \cap Writable(a)])

CreateHoneypot(q, a, asked) == CreateArrives(q, a, asked)
CreateHoneypotApi(q, a, asked) ==
    asked \subseteq Writable(a) /\ CreateArrives(q, a, asked)

\* The session writes the difference to what it has read, not the set.
Relinked(q, h) ==
    LET r == edit[q]
    IN  (link \ ({h} \X (r.held \ r.keeps))) \cup {h} \X ((r.keeps \ r.held) \cap company)

Saved(q) == edit' = [edit EXCEPT ![q].step = "saved"]
Answered(q) == edit' = [edit EXCEPT ![q] = NoEdit]

\* The form is closed, or refused: the account has lost the honeypot.
CloseForm(q) ==
    /\ edit[q] # NoEdit /\ edit[q].step = "open"
    /\ Answered(q)
    /\ UNCHANGED <<company, level, honeypot, link, edits>>

EditSaves(q, h) ==
    /\ edit[q] # NoEdit /\ edit[q].op = "edit" /\ edit[q].step = "read"
    /\ edit[q].honeypot = {h}
    /\ h \in honeypot
    /\ CompaniesOf(h) \cap (edit[q].keeps \ edit[q].held) = {}
    /\ link' = Relinked(q, h)
    /\ Saved(q)
    /\ UNCHANGED <<company, level, honeypot, edits>>

DeleteSaves(q) ==
    /\ edit[q] # NoEdit /\ edit[q].op = "delete" /\ edit[q].step = "read"
    /\ honeypot' = honeypot \ edit[q].honeypot
    /\ link' = {l \in link : l[1] \notin edit[q].honeypot}
    /\ Saved(q)
    /\ UNCHANGED <<company, level, edits>>

CreateSaves(q, h) ==
    /\ edit[q] # NoEdit /\ edit[q].op = "create" /\ edit[q].step = "read"
    /\ h \notin honeypot
    /\ honeypot' = honeypot \cup {h}
    /\ link' = link \cup {h} \X (edit[q].keeps \cap company)
    /\ edit' = [edit EXCEPT ![q].step = "saved", ![q].honeypot = {h}]
    /\ UNCHANGED <<company, level, edits>>

\* Something it wrote against has moved: the transaction fails whole.
SaveFails(q) ==
    /\ edit[q] # NoEdit /\ edit[q].step = "read"
    /\ edit[q].op # "delete"
    /\ LET r == edit[q]
           now == {l[2] : l \in {k \in link : k[1] \in r.honeypot}}
       IN  \/ r.op = "edit" /\ ~(r.honeypot \subseteq honeypot)
           \/ r.held # now
           \/ ~(r.keeps \subseteq company)
    /\ Answered(q)
    /\ UNCHANGED <<company, level, honeypot, link, edits>>

\* The audit entry, and the answer. The REST API reads the honeypot once more in
\* between: when the account has lost it by then the answer is a 404 and the
\* entry is never written.
Answers(q) ==
    /\ edit[q] # NoEdit /\ edit[q].step = "saved"
    /\ Answered(q)
    /\ UNCHANGED <<company, level, honeypot, link, edits>>

-----------------------------------------------------------------------------
EstateNext ==
    \/ \E c \in Companies :
          \/ CreateCompany(c) \/ CreateCompanyApi(c)
          \/ DeleteCompany(c) \/ DeleteCompanyApi(c)
    \/ \E m \in Members, c \in Companies :
          \/ DetachUser(m, c) \/ RevokeCompanyAccess(m, c)
          \/ \E l \in Levels : AttachUser(m, c, l) \/ GrantCompanyAccess(m, c, l)
    \/ \E M \in SUBSET Members, c \in Companies, l \in Levels : BulkAssignCompany(M, c, l)
    \/ \E h \in Honeypots, c \in Companies :
          \/ AttachHoneypot(h, c) \/ AttachHoneypotApi(h, c)
          \/ DetachHoneypot(h, c) \/ DetachHoneypotApi(h, c)
    \/ \E h \in Honeypots, cs \in SUBSET Companies : ImportConfig(h, cs)
    \/ \E q \in Edits, a \in Editors :
          \/ \E h \in Honeypots : EditHoneypotForm(q, a, h)
          \/ \E h \in Honeypots, asked \in SUBSET company : UpdateHoneypotApi(q, a, h, asked)
          \/ \E h \in Honeypots : DeleteHoneypot(q, a, h) \/ DeleteHoneypotApi(q, a, h)
          \/ \E hs \in SUBSET Honeypots : BulkDeleteHoneypots(q, a, hs)
          \/ \E asked \in SUBSET company :
                CreateHoneypot(q, a, asked) \/ CreateHoneypotApi(q, a, asked)
    \/ \E q \in Edits, h \in Honeypots :
          \/ \E asked \in SUBSET Companies : UpdateHoneypot(q, h, asked)
          \/ EditSaves(q, h) \/ CreateSaves(q, h)
    \/ \E q \in Edits : CloseForm(q) \/ DeleteSaves(q) \/ SaveFails(q) \/ Answers(q)

EstateSpec == EstateInit /\ [][EstateNext]_estateVars

-----------------------------------------------------------------------------
\* An edit changes only links its account could write when it was submitted,
\* and takes away only links the honeypot had then: a company outside its
\* editor's scope keeps the honeypot, and so does one attached while the
\* request ran (honeypots_detail.py:590-598, api_v1.py:737-743). One attached
\* inside the scope while the form lay open is read by the request, not asked
\* for, and taken away.
EditsStayInScope ==
    [][\A q \in Edits, h \in Honeypots :
          EditSaves(q, h) =>
              /\ \A l \in (link' \ link) \cup (link \ link') :
                    l[1] = h /\ l[2] \in edit[q].writes
              /\ link \ link' \subseteq {h} \X edit[q].held]_estateVars

=============================================================================
