------------------------------ MODULE LiveUpdates ------------------------------
(***************************************************************************)
(* How an open page follows what the jobs and requests store: each commit is *)
(* followed by a doorbell on a Redis channel, a WebSocket passes it on, and  *)
(* the page fetches what it shows anew. A panel also polls; the honeypot     *)
(* list does not. One page and its channel; every loss is bounded.           *)
(***************************************************************************)
EXTENDS Naturals, FiniteSets, FiniteSetsExt

CONSTANTS
    Nothing, Sent, \* no request under way; one that is not answered yet
    MaxVersion,   \* bounds the changes
    MaxLosses     \* bounds the doorbells, sockets and requests lost

VARIABLES
    kind,         \* "panel" (htmx) or "list" (live-list.js)
    version,      \* how many changes are committed
    owed,         \* those whose doorbell is still to be published
    socket,       \* the page's WebSocket
    wire,         \* the doorbells on their way to the page
    shown,        \* the version the page shows
    request,      \* its request: Sent, or the version the answer carries
    again,        \* panel: another request waits for this one
    timer,        \* list: a refresh is scheduled
    unseen,       \* list: pendingWhileHidden
    visible, focus,
    losses

vars == <<kind, version, owed, socket, wire, shown, request, again, timer, unseen,
          visible, focus, losses>>
serverVars == <<version, owed>>
pageVars == <<shown, request, again, timer, unseen>>
viewerVars == <<visible, focus>>

Versions == 0..MaxVersion

TypeOK ==
    /\ kind \in {"panel", "list"} /\ version \in Versions
    /\ owed \subseteq Versions /\ wire \subseteq Versions
    /\ socket \in {"closed", "open", "subscribed"}
    /\ shown \in Versions /\ request \in Versions \cup {Nothing, Sent}
    /\ \A b \in {again, timer, unseen, visible, focus} : b \in BOOLEAN
    /\ losses \in 0..MaxLosses

Init ==
    /\ kind \in {"panel", "list"}
    /\ version = 0 /\ owed = {} /\ socket = "closed" /\ wire = {}
    /\ shown = 0 /\ request = Nothing
    /\ again = FALSE /\ timer = FALSE /\ unseen = FALSE
    /\ visible = TRUE /\ focus = FALSE /\ losses = 0

Loss == losses < MaxLosses /\ losses' = losses + 1

-----------------------------------------------------------------------------
(* The jobs and requests *)

Commit ==
    /\ version < MaxVersion
    /\ version' = version + 1 /\ owed' = owed \cup {version + 1}
    /\ UNCHANGED <<kind, socket, wire, pageVars, viewerVars, losses>>

\* Redis passes a message on to who subscribes now.
Publish(v) ==
    /\ owed' = owed \ {v}
    /\ wire' = IF socket = "subscribed" THEN wire \cup {v} ELSE wire
    /\ UNCHANGED <<kind, version, socket, pageVars, viewerVars, losses>>

\* Redis cannot be reached, or the job is killed after its commit.
PublishFails(v) ==
    /\ Loss /\ owed' = owed \ {v}
    /\ UNCHANGED <<kind, version, socket, wire, pageVars, viewerVars>>

-----------------------------------------------------------------------------
(* The socket *)

\* The browser has its socket before _serve has subscribed.
Connect ==
    /\ socket = "closed" /\ socket' = "open"
    /\ UNCHANGED <<kind, serverVars, wire, pageVars, viewerVars, losses>>
Subscribe ==
    /\ socket = "open" /\ socket' = "subscribed"
    /\ UNCHANGED <<kind, serverVars, wire, pageVars, viewerVars, losses>>

\* The session's limit, the network or the web process; then a reconnect.
Close ==
    /\ socket # "closed" /\ Loss /\ socket' = "closed"
    /\ wire' = {}
    /\ UNCHANGED <<kind, serverVars, pageVars, viewerVars>>

-----------------------------------------------------------------------------
(* The page *)
\* htmx fetches, or once more when the request under way is done.
Trigger ==
    /\ IF request = Nothing THEN request' = Sent /\ UNCHANGED again
       ELSE again' = TRUE /\ UNCHANGED request
    /\ UNCHANGED <<shown, timer, unseen>>

\* The list waits for the end of a burst, or until the tab is shown.
OnChange ==
    /\ IF visible THEN timer' = TRUE /\ UNCHANGED unseen
       ELSE unseen' = TRUE /\ UNCHANGED timer
    /\ UNCHANGED <<shown, request, again>>

Deliver(v) ==
    /\ wire' = wire \ {v}
    /\ IF kind = "panel" THEN Trigger ELSE OnChange
    /\ UNCHANGED <<kind, serverVars, socket, viewerVars, losses>>

\* Mutant of Poll: the panel polls only while it has no socket.
PollWhenClosed ==
    /\ kind = "panel" /\ socket = "closed" /\ Trigger
    /\ UNCHANGED <<kind, serverVars, socket, wire, viewerVars, losses>>
Poll ==
    /\ kind = "panel" /\ Trigger
    /\ UNCHANGED <<kind, serverVars, socket, wire, viewerVars, losses>>

\* While a request is under way the refresh is given up; while the viewer is
\* in the list it is put off.
Refresh ==
    /\ timer /\ timer' = (request = Nothing /\ focus)
    /\ request' = IF request = Nothing /\ ~focus THEN Sent ELSE request
    /\ UNCHANGED <<kind, serverVars, socket, wire, shown, again, unseen, viewerVars,
                   losses>>

\* The route reads the database.
Read ==
    /\ request = Sent /\ request' = version
    /\ UNCHANGED <<kind, serverVars, socket, wire, shown, again, timer, unseen, viewerVars,
                   losses>>

Done == request' = (IF again THEN Sent ELSE Nothing) /\ again' = FALSE

Answer ==
    /\ request \in Versions /\ shown' = request /\ Done
    /\ UNCHANGED <<kind, serverVars, socket, wire, timer, unseen, viewerVars, losses>>

RequestFails ==
    /\ request # Nothing /\ Loss /\ Done
    /\ UNCHANGED <<kind, serverVars, socket, wire, shown, timer, unseen, viewerVars>>

ShowOrHide ==
    /\ kind = "list" /\ visible' = ~visible
    /\ IF ~visible /\ unseen THEN unseen' = FALSE /\ timer' = TRUE
       ELSE UNCHANGED <<unseen, timer>>
    /\ UNCHANGED <<kind, serverVars, socket, wire, shown, request, again, focus, losses>>

FocusOrBlur ==
    /\ kind = "list" /\ focus' = ~focus
    /\ UNCHANGED <<kind, serverVars, socket, wire, pageVars, visible, losses>>

-----------------------------------------------------------------------------
Next ==
    \/ Commit \/ \E v \in owed : Publish(v) \/ PublishFails(v)
    \/ Connect \/ Subscribe \/ Close \/ \E v \in wire : Deliver(v)
    \/ Poll \/ Refresh \/ Read \/ Answer \/ RequestFails
    \/ ShowOrHide \/ FocusOrBlur

\* The interval of hx-trigger comes round, a request is answered.
Fairness == WF_vars(Poll) /\ WF_vars(Read) /\ WF_vars(Answer)
Spec == Init /\ [][Next]_vars
FairSpec == Spec /\ Fairness

-----------------------------------------------------------------------------
\* "The interval stays as a fallback for a missed push": a panel shows every
\* change in the end, whatever was lost.
PanelCatchesUp ==
    \A v \in Versions \ {0} : (kind = "panel" /\ version >= v) ~> (shown >= v)

=============================================================================
