------------------------- MODULE NotificationRules -------------------------
(***************************************************************************)
(* One notification rule: what its owner saves (app/web/routes/              *)
(* notifications.py and api_v1_notifications.py) and what is sent by it      *)
(* (_dispatch_rule and _deliver in app/services/notifications.py,            *)
(* app/services/push_channels.py). When a rule is told something, and how    *)
(* often, is in Reachability, AlertThrottle and HealthNotices; here is       *)
(* whether what is sent can be delivered, and about which honeypots.         *)
(*                                                                           *)
(* An edit reads the rule, checks the whole form, looks the honeypots and    *)
(* companies up again and commits the columns that differ from those it      *)
(* read. Of an address and a token the model keeps whether there is one; a   *)
(* token that is typed is always written (its ciphertext is new).            *)
(***************************************************************************)
EXTENDS Integers, FiniteSets

CONSTANTS
    Honeypots, Companies,
    MemberOf,  \* honeypot -> its companies
    Channels,  \* the channels rules use here
    Edits,     \* edits under way at one time
    NoRule,    \* no rule yet, nothing read
    Gone,      \* the rule was deleted
    MaxEdits   \* bound: how many edits begin

RulesConstants == MaxEdits \in Nat

VARIABLES
    savedRule,  \* the row with its links, NoRule or Gone
    access,     \* the companies its owner may see
    there,      \* the honeypots that exist
    edit,       \* edit -> the rule it read and the one it is about to store
    sending,    \* the rule a dispatch has read, or NoRule
    outcome,    \* what became of the last dispatch
    edits, mixed

rulesVars == <<savedRule, access, there, edit, sending, outcome, edits, mixed>>

-----------------------------------------------------------------------------
\* Which channel needs what.
UrlChannels == {"webhook", "ntfy", "gotify", "discord", "mattermost", "slack", "teams"}
TokenChannels == {"gotify", "telegram", "pushover"}
OptionalTokenChannels == {"ntfy"}
RecipientChannels == {"telegram", "pushover"}

There == savedRule \notin {NoRule, Gone}
StoredRules == [scope : {"company", "honeypot"}, companies : SUBSET Companies,
          honeypots : SUBSET Honeypots, channel : Channels,
          url : BOOLEAN, token : BOOLEAN, recipient : BOOLEAN]
Idle == [pc |-> "idle", had |-> NoRule, has |-> NoRule]

RulesTypeOK ==
    /\ savedRule \in StoredRules \cup {NoRule, Gone}
    /\ access \subseteq Companies /\ there \subseteq Honeypots
    /\ edit \in [Edits -> [pc : {"idle", "read", "checked"}, had : StoredRules \cup {NoRule},
                           has : StoredRules \cup {NoRule}]]
    /\ sending \in StoredRules \cup {NoRule}
    /\ outcome \in {"none", "sent", "failed", "incomplete", "no address"}
    /\ edits \in 0 .. MaxEdits /\ mixed \in BOOLEAN

RulesInit ==
    /\ savedRule = NoRule
    /\ access = Companies /\ there = Honeypots
    /\ edit = [e \in Edits |-> Idle]
    /\ sending = NoRule /\ outcome = "none"
    /\ edits = 0 /\ mixed = FALSE

-----------------------------------------------------------------------------
\* Saving

OnlyEdits == UNCHANGED <<access, there, sending, outcome>>

\* A new rule starts from nothing, an edit from the owner's own rule.
ReadRule(e) ==
    /\ edit[e].pc = "idle" /\ edits < MaxEdits /\ savedRule # Gone
    /\ edit' = [edit EXCEPT ![e] = [Idle EXCEPT !.pc = "read", !.had = savedRule]]
    /\ edits' = edits + 1
    /\ UNCHANGED <<savedRule, mixed>> /\ OnlyEdits

\* The form is refused, a link that is to be stored is there already, the rule
\* or a honeypot is gone: the transaction leaves nothing behind.
Refuse(e) ==
    /\ edit[e].pc # "idle"
    /\ edit' = [edit EXCEPT ![e] = Idle]
    /\ UNCHANGED <<savedRule, edits, mixed>> /\ OnlyEdits

\* _parse_delivery: what the channel uses is there, the rest is cleared; a
\* token left blank stays when one is stored, whichever channel it was for.
UsesToken(ch) == ch \in TokenChannels \cup OptionalTokenChannels

\* _parse_rule_form: the rule a form asks for, and what it must have: one kind
\* of target, at least one of it, and a token where the channel needs one.
Asked(had, cs, hs, ch, typed) ==
    [scope |-> IF cs # {} THEN "company" ELSE "honeypot",
     companies |-> cs, honeypots |-> hs, channel |-> ch,
     url |-> ch \in UrlChannels, recipient |-> ch \in RecipientChannels,
     token |-> UsesToken(ch) /\ (typed \/ (had # NoRule /\ had.token))]

\* Mutant of IsWhole: a token for another channel is not missed.
HasTarget(r) == (r.companies = {}) # (r.honeypots = {})

IsWhole(r) ==
    /\ (r.companies = {}) # (r.honeypots = {})
    /\ r.channel \in TokenChannels => r.token

\* _authorize_scope: what the owner may see, and what exists.
Visible == {h \in there : MemberOf[h] \cap access # {}}
Authorized(r) == r.companies \subseteq access /\ r.honeypots \subseteq Visible

CheckForm(e, r) ==
    /\ edit[e].pc = "read"
    /\ IsWhole(r) /\ Authorized(r)
    /\ edit' = [edit EXCEPT ![e].pc = "checked", ![e].has = r]
    /\ UNCHANGED <<savedRule, edits, mixed>> /\ OnlyEdits

CheckSomeForm(e) ==
    \E cs \in SUBSET Companies, hs \in SUBSET Honeypots, ch \in Channels, typed \in BOOLEAN :
        CheckForm(e, Asked(edit[e].had, cs, hs, ch, typed))

\* A column is written when it differs from the one read.
Column(had, has, now) == IF has # had THEN has ELSE now
Links(had, has, now) == (now \ (had \ has)) \cup (has \ had)

Merged(had, has, now) ==
    [scope |-> Column(had.scope, has.scope, now.scope),
     companies |-> Links(had.companies, has.companies, now.companies),
     honeypots |-> Links(had.honeypots, has.honeypots, now.honeypots),
     channel |-> Column(had.channel, has.channel, now.channel),
     url |-> Column(had.url, has.url, now.url),
     token |-> Column(had.token, has.token, now.token),
     recipient |-> Column(had.recipient, has.recipient, now.recipient)]

CreateRule(e) ==
    /\ edit[e].pc = "checked" /\ edit[e].had = NoRule
    /\ savedRule = NoRule /\ edit[e].has.honeypots \subseteq there
    /\ savedRule' = edit[e].has
    /\ edit' = [edit EXCEPT ![e] = Idle]
    /\ UNCHANGED <<edits, mixed>> /\ OnlyEdits

UpdateRule(e) ==
    LET had == edit[e].had
        has == edit[e].has
    IN  /\ edit[e].pc = "checked" /\ had # NoRule /\ There
        /\ has.honeypots \ had.honeypots \subseteq there \ savedRule.honeypots
        /\ (has.companies \ had.companies) \cap savedRule.companies = {}
        /\ savedRule' = Merged(had, has, savedRule)
        /\ edit' = [edit EXCEPT ![e] = Idle]
        /\ mixed' = (mixed \/ had # savedRule)
        /\ UNCHANGED edits /\ OnlyEdits

\* Under a company-limited token a rule that reaches outside it does not exist.
WithinTokenScope ==
    There => savedRule.companies \subseteq access /\ savedRule.honeypots \subseteq Visible
ReadRuleApi(e) == WithinTokenScope /\ ReadRule(e)
CreateRuleApi(e) == CreateRule(e)
UpdateRuleApi(e) == UpdateRule(e)

DeleteRule ==
    /\ There
    /\ savedRule' = Gone
    /\ UNCHANGED <<edit, edits, mixed>> /\ OnlyEdits
DeleteRuleApi == WithinTokenScope /\ DeleteRule

-----------------------------------------------------------------------------
\* Around it: honeypots are deleted with their links, access comes and goes.

DeleteHoneypot(h) ==
    /\ h \in there
    /\ there' = there \ {h}
    /\ savedRule' = IF There THEN [savedRule EXCEPT !.honeypots = @ \ {h}] ELSE savedRule
    /\ UNCHANGED <<access, edit, sending, outcome, edits, mixed>>

ChangeAccess(c) ==
    /\ access' = (IF c \in access THEN access \ {c} ELSE access \cup {c})
    /\ UNCHANGED <<savedRule, there, edit, sending, outcome, edits, mixed>>

-----------------------------------------------------------------------------
\* Sending

OnlySends == UNCHANGED <<savedRule, access, there, edit, edits, mixed>>

\* The rules of a honeypot: by a link of its own or by one of its companies.
Matches(r, h) ==
    IF r.scope = "honeypot" THEN h \in r.honeypots ELSE r.companies \cap MemberOf[h] # {}

\* A poll or sweep reads the rules that match; the rule may change before it
\* is used.
Match(h) ==
    /\ sending = NoRule /\ There /\ h \in there /\ Matches(savedRule, h)
    /\ sending' = savedRule
    /\ UNCHANGED outcome /\ OnlySends

\* A test is sent about one of the honeypots the rule covers.
SendTest == \E h \in Honeypots : Match(h)
SendTestApi == WithinTokenScope /\ SendTest

\* resolve_target: without one nothing is tried. A mail goes to the rule's
\* address or the account's, and the account may have none.
Target(r, mail) ==
    CASE r.channel \in UrlChannels -> r.url
      [] r.channel \in RecipientChannels -> r.recipient
      [] OTHER -> mail

\* build_request: a push that lacks its token is not sent; a rule whose push
\* has nowhere to go is passed over.
Complete(r) == Target(r, TRUE) /\ (r.channel \in TokenChannels => r.token)

\* What the other side answers decides between sent and failed.
Deliver(mail) ==
    /\ sending # NoRule
    /\ outcome' \in IF ~Complete(sending) THEN {"incomplete"}
                    ELSE IF ~Target(sending, mail) THEN {"no address"}
                    ELSE {"sent", "failed"}
    /\ sending' = NoRule
    /\ OnlySends

-----------------------------------------------------------------------------
RulesNext ==
    \/ \E e \in Edits :
          \/ ReadRule(e) \/ ReadRuleApi(e) \/ Refuse(e)
          \/ CheckSomeForm(e)
          \/ CreateRule(e) \/ UpdateRule(e) \/ CreateRuleApi(e) \/ UpdateRuleApi(e)
    \/ DeleteRule \/ DeleteRuleApi
    \/ \E h \in Honeypots : DeleteHoneypot(h) \/ Match(h)
    \/ \E c \in Companies : ChangeAccess(c)
    \/ SendTest \/ SendTestApi
    \/ \E mail \in BOOLEAN : Deliver(mail)

RulesSpec == RulesInit /\ [][RulesNext]_rulesVars

-----------------------------------------------------------------------------
\* No push fails for want of what its owner was asked for, whatever channel the
\* rule was moved from and to: only when two edits crossed can a rule be stored
\* that neither of them checked.
PushesAreComplete == outcome = "incomplete" => mixed

=============================================================================
