---------------------------- MODULE HoneypotTags ----------------------------
(***************************************************************************)
(* Tags of honeypots (app/services/honeypot_tags.py): a tags row is made the *)
(* first time its name is used and deleted when the last honeypot lets go of *)
(* it, which takes every link to it along (ON DELETE CASCADE).               *)
(*                                                                         *)
(* A change is one transaction of several statements under READ COMMITTED:   *)
(* it reads what it works from, writes links and rows, counts who still uses *)
(* the tags it took off, and deletes those nobody uses as it commits. Others *)
(* see a link only once it is committed, but a row with an uncommitted link  *)
(* to it is locked: deleting the tag waits for that transaction to end.      *)
(***************************************************************************)
EXTENDS FiniteSets, Naturals

CONSTANTS TagHoneypots, Tags,
          OwnedTags,      \* the tags an OpenCanary module owns
          TagRequests, NoRequest,
          MaxTagArrivals  \* bound: requests that arrive in a behaviour

VARIABLES
    exists,      \* honeypots that exist
    tag,         \* committed rows of tags
    tagged,      \* committed rows of honeypot_tags
    tagRequest,  \* transactions in progress
    tagArrivals,
    overlapped   \* history: two of them were open at once

tagVars == <<exists, tag, tagged, tagRequest, tagArrivals, overlapped>>

Pairs == TagHoneypots \X Tags
RequestRow ==
    [op : {"set", "sync", "add", "remove"}, step : {"asked", "written", "counted"},
     of : SUBSET TagHoneypots, names : SUBSET Tags,
     on : SUBSET Pairs, off : SUBSET Pairs,    \* links it has written and deleted
     orphans : SUBSET Tags]                    \* tags it counted nobody on

TagsConstants ==
    /\ OwnedTags \subseteq Tags
    /\ NoRequest \notin RequestRow
    /\ MaxTagArrivals \in Nat

TagsTypeOK ==
    /\ exists \subseteq TagHoneypots
    /\ tag \subseteq Tags
    /\ tagged \subseteq exists \X tag
    /\ tagRequest \in [TagRequests -> RequestRow \cup {NoRequest}]
    /\ tagArrivals \in 0..MaxTagArrivals
    /\ overlapped \in BOOLEAN

TagsInit ==
    /\ exists = TagHoneypots
    /\ tag = {} /\ tagged = {}
    /\ tagRequest = [q \in TagRequests |-> NoRequest]
    /\ tagArrivals = 0
    /\ overlapped = FALSE

TagsOf(h) == {t \in Tags : <<h, t>> \in tagged}
Open == {q \in TagRequests : tagRequest[q] # NoRequest}
RequestAt(q, step) == tagRequest[q] # NoRequest /\ tagRequest[q].step = step
Uncommitted == UNION {tagRequest[q].on : q \in Open}

-----------------------------------------------------------------------------
Arrives(q, op, hs, names) ==
    /\ tagRequest[q] = NoRequest
    /\ tagArrivals < MaxTagArrivals
    /\ hs # {} /\ hs \subseteq exists
    /\ tagArrivals' = tagArrivals + 1
    /\ overlapped' = (overlapped \/ Open # {})
    /\ tagRequest' = [tagRequest EXCEPT ![q] =
          [op |-> op, step |-> "asked", of |-> hs, names |-> names,
           on |-> {}, off |-> {}, orphans |-> {}]]
    /\ UNCHANGED <<exists, tag, tagged>>

\* The tag field of the create and edit forms, an import, the REST body.
SetTags(q, h, names) == Arrives(q, "set", {h}, names)

\* What stays by hand, as read now, and the modules now enabled.
SyncedNames(h, wanted) == (TagsOf(h) \ OwnedTags) \cup wanted

\* A saved OpenCanary configuration: nothing is opened when nothing changes.
SyncModuleTags(q, h, wanted) ==
    /\ SyncedNames(h, wanted) # TagsOf(h)
    /\ Arrives(q, "sync", {h}, SyncedNames(h, wanted))

AddTags(q, hs, names) == names # {} /\ Arrives(q, "add", hs, names)
RemoveTags(q, hs, names) == names # {} /\ Arrives(q, "remove", hs, names)
RemoveTagsApi(q, hs, names) == RemoveTags(q, hs, names)

\* The links of its honeypots are read again here: what is there and not named
\* goes, what is named and not there comes.
Writes(q) ==
    LET r == tagRequest[q]
        named == r.of \X r.names
        mine == {p \in tagged : p[1] \in r.of}
        on == IF r.op = "remove" THEN {} ELSE named \ mine
        off == CASE r.op = "add" -> {}
                 [] r.op = "remove" -> named \cap mine
                 [] OTHER -> mine \ named
    IN  /\ RequestAt(q, "asked")
        /\ r.of \subseteq exists
        /\ on \cap Uncommitted = {}
        \* A name nobody has yet is made by one transaction at a time.
        /\ ({p[2] : p \in on} \ tag) \cap {p[2] : p \in Uncommitted} = {}
        /\ tagRequest' = [tagRequest EXCEPT ![q].step = "written", ![q].on = on, ![q].off = off]
        /\ UNCHANGED <<exists, tag, tagged, tagArrivals, overlapped>>

\* Mutant of Unused: no count, every tag taken off is deleted.
UnusedUncounted(q) == {t \in tag : \E p \in tagRequest[q].off : p[2] = t}

\* The tags it took off that no committed link and none of its own names.
\* (Bulk removal asks for every tag it was given.)
Unused(q) ==
    LET r == tagRequest[q]
        asked == IF r.op = "remove" THEN r.names \cap tag ELSE {p[2] : p \in r.off}
    IN  {t \in asked : \A p \in (tagged \ r.off) \cup r.on : p[2] # t}

Counts(q) ==
    /\ RequestAt(q, "written")
    /\ tagRequest' = [tagRequest EXCEPT ![q].step = "counted",
                        ![q].orphans = IF tagRequest[q].op = "add" THEN {} ELSE Unused(q)]
    /\ UNCHANGED <<exists, tag, tagged, tagArrivals, overlapped>>

\* The orphans are deleted with whatever has been linked to them meanwhile.
Commits(q) ==
    LET r == tagRequest[q]
        after == (tagged \ r.off) \cup r.on
    IN  /\ RequestAt(q, "counted")
        /\ \A o \in Open \ {q} : \A p \in tagRequest[o].on : p[2] \notin r.orphans
        /\ tag' = (tag \cup {p[2] : p \in r.on}) \ r.orphans
        /\ tagged' = {p \in after : p[2] \notin r.orphans}
        /\ tagRequest' = [tagRequest EXCEPT ![q] = NoRequest]
        /\ UNCHANGED <<exists, tagArrivals, overlapped>>

\* A constraint, a deadlock or the end of the process rolls it back.
RollsBack(q) ==
    /\ tagRequest[q] # NoRequest
    /\ tagRequest' = [tagRequest EXCEPT ![q] = NoRequest]
    /\ UNCHANGED <<exists, tag, tagged, tagArrivals, overlapped>>

\* Its links go with it; tags nobody uses any more stay. An uncommitted link
\* to it holds the row.
DeleteWithTags(h) ==
    /\ h \in exists
    /\ \A p \in Uncommitted : p[1] # h
    /\ exists' = exists \ {h}
    /\ tagged' = {p \in tagged : p[1] # h}
    /\ UNCHANGED <<tag, tagRequest, tagArrivals, overlapped>>

-----------------------------------------------------------------------------
TagsNext ==
    \/ \E q \in TagRequests, h \in TagHoneypots, names \in SUBSET Tags : SetTags(q, h, names)
    \/ \E q \in TagRequests, h \in TagHoneypots, on \in SUBSET OwnedTags : SyncModuleTags(q, h, on)
    \/ \E q \in TagRequests, hs \in SUBSET TagHoneypots, names \in SUBSET Tags :
          AddTags(q, hs, names) \/ RemoveTags(q, hs, names) \/ RemoveTagsApi(q, hs, names)
    \/ \E q \in TagRequests : Writes(q) \/ Counts(q) \/ Commits(q) \/ RollsBack(q)
    \/ \E h \in TagHoneypots : DeleteWithTags(h)

TagsSpec == TagsInit /\ [][TagsNext]_tagVars

-----------------------------------------------------------------------------
\* A honeypot loses a tag only to a request about that honeypot, and one that
\* follows a saved module configuration takes off module tags only - as long
\* as no two changes of tags overlap (honeypot_tags.py:50-62, 161-182, 185-215).
TagsStick ==
    [][\A p \in tagged \ tagged' :
          \/ overlapped
          \/ p[1] \notin exists'
          \/ \E q \in Open :
                /\ tagRequest'[q] = NoRequest
                /\ p[1] \in tagRequest[q].of
                /\ tagRequest[q].op = "sync" => p[2] \in OwnedTags]_tagVars

=============================================================================
