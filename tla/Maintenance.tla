---------------------------- MODULE Maintenance ----------------------------
(***************************************************************************)
(* One maintenance window (app/web/routes/maintenance.py,                    *)
(* api_v1_maintenance.py, app/services/maintenance_windows.py): while it is  *)
(* in effect it mutes what is told about the honeypots it covers and pauses  *)
(* their scheduled tasks. It is edited as a whole, and it can be ended at    *)
(* once. A request reads the row and commits the columns that differ from    *)
(* those it read; an edit form may have been opened long before.             *)
(***************************************************************************)
EXTENDS Integers

CONSTANTS
    Targets, Owners,
    Forms,                          \* the windows asked for
    Requests,                       \* requests under way at one time
    NoWindow,                       \* no window yet, nothing read
    Deleted,                        \* the window was deleted
    MaxDays, MaxRequests, MaxMoves  \* bounds: time, requests, changes of membership

Dates == 0 .. MaxDays + 1
Windows == [owner : Owners, starts : Dates, ends : Dates, all : BOOLEAN,
            listed : SUBSET Targets, pauses : BOOLEAN, mutesAlerts : BOOLEAN]

MaintenanceConstants ==
    /\ {NoWindow, Deleted} \cap Windows = {} /\ NoWindow # Deleted
    /\ MaxDays \in Nat /\ MaxRequests \in Nat /\ MaxMoves \in Nat
    /\ Forms \subseteq [owner : Owners, starts : Nat, ends : 0 .. MaxDays + 1, all : BOOLEAN,
                       listed : SUBSET Targets, pauses : BOOLEAN, mutesAlerts : BOOLEAN]

VARIABLES
    planned,    \* the row with its honeypots, NoWindow or Deleted
    member,     \* honeypot -> its companies
    request,    \* request -> what it is for, the row it read, the row it asks for
    cancelled,  \* the window was ended by hand, and not saved again since
    withheld,   \* what was told or run last was muted or paused by the window
    today, requests, moves

windowVars == <<planned, member, request, cancelled, withheld, today, requests, moves>>

IsThere == planned \notin {NoWindow, Deleted}
NoRequest == [pc |-> "idle", had |-> NoWindow, has |-> NoWindow]

WindowTypeOK ==
    /\ planned \in Windows \cup {NoWindow, Deleted}
    /\ member \in [Targets -> SUBSET Owners]
    /\ request \in [Requests -> [pc : {"idle", "create", "update", "end"},
                                 had : Windows \cup {NoWindow}, has : Windows \cup {NoWindow}]]
    /\ cancelled \in BOOLEAN /\ withheld \in BOOLEAN
    /\ today \in 0 .. MaxDays /\ requests \in 0 .. MaxRequests /\ moves \in 0 .. MaxMoves

WindowInit ==
    /\ planned = NoWindow
    /\ member \in [Targets -> {{c} : c \in Owners}]
    /\ request = [q \in Requests |-> NoRequest]
    /\ cancelled = FALSE /\ withheld = FALSE
    /\ today = 0 /\ requests = 0 /\ moves = 0

-----------------------------------------------------------------------------
\* What a window means at a moment.
Phase(w) == IF w.ends <= today THEN "ended" ELSE IF w.starts > today THEN "upcoming" ELSE "active"

\* All the honeypots of its own company, or those it lists.
Covers(w, h) == IF w.all THEN w.owner \in member[h] ELSE h \in w.listed

Active == IsThere /\ Phase(planned) = "active"

-----------------------------------------------------------------------------
\* Saving

OnlyRequests == UNCHANGED <<member, withheld, today, moves>>

\* apply_window_data: listed honeypots outside the company are dropped.
Applied(w) ==
    [w EXCEPT !.listed = IF w.all THEN {} ELSE {h \in w.listed : w.owner \in member[h]}]

\* The form: it ends after it starts, and names honeypots or all of them.
IsSound(w) == w.starts < w.ends /\ (w.all \/ w.listed # {})

BeginRequest(q, pc, has) ==
    /\ request[q].pc = "idle" /\ requests < MaxRequests
    /\ request' = [request EXCEPT ![q] =
                     [pc |-> pc, had |-> IF IsThere THEN planned ELSE NoWindow, has |-> has]]
    /\ requests' = requests + 1
    /\ UNCHANGED <<planned, cancelled>> /\ OnlyRequests

BeginCreate(q, w) == planned = NoWindow /\ IsSound(w) /\ BeginRequest(q, "create", Applied(w))
BeginUpdate(q, w) == IsThere /\ IsSound(w) /\ BeginRequest(q, "update", Applied(w))

\* Mutant of EndedNow: an upcoming window keeps its beginning and its end.
EndedIfRunning(w) == IF Phase(w) = "upcoming" THEN w ELSE [w EXCEPT !.ends = today]

\* end_window_now: an upcoming window begins and ends now; one that has ended
\* stays as it is.
EndedNow(w) ==
    [w EXCEPT !.starts = IF Phase(w) = "upcoming" THEN today ELSE @, !.ends = today]
BeginEnd(q) ==
    IsThere /\ Phase(planned) # "ended" /\ BeginRequest(q, "end", EndedNow(planned))

CreateWindow(q) ==
    /\ request[q].pc = "create" /\ planned = NoWindow
    /\ planned' = request[q].has
    /\ request' = [request EXCEPT ![q] = NoRequest]
    /\ UNCHANGED <<cancelled, requests>> /\ OnlyRequests

\* The columns and links that differ from those read.
MergedWindow(had, has, w) ==
    [f \in DOMAIN w |->
       IF f = "listed" THEN (w.listed \ (had.listed \ has.listed)) \cup (has.listed \ had.listed)
       ELSE IF has[f] # had[f] THEN has[f] ELSE w[f]]

Save(q, pc) ==
    /\ request[q].pc = pc /\ IsThere
    /\ planned' = MergedWindow(request[q].had, request[q].has, planned)
    /\ cancelled' = (pc = "end")
    /\ request' = [request EXCEPT ![q] = NoRequest]
    /\ UNCHANGED requests /\ OnlyRequests

UpdateWindow(q) == Save(q, "update")
EndWindowNow(q) == Save(q, "end")

DeleteWindow ==
    /\ IsThere
    /\ planned' = Deleted
    /\ UNCHANGED <<request, cancelled, requests>> /\ OnlyRequests

\* The API's handlers do the same.
CreateWindowApi(q) == CreateWindow(q)
UpdateWindowApi(q) == UpdateWindow(q)
EndWindowApi(q) == EndWindowNow(q)
DeleteWindowApi == DeleteWindow

\* The window was deleted under the request.
Fails(q) ==
    /\ request[q].pc # "idle" /\ planned \notin {request[q].had, NoWindow}
    /\ request' = [request EXCEPT ![q] = NoRequest]
    /\ UNCHANGED <<planned, cancelled, requests>> /\ OnlyRequests

-----------------------------------------------------------------------------
\* Using

\* muting_window: alerts and changed files only when the window says so.
Mutes(h, security) == Active /\ Covers(planned, h) /\ (security => planned.mutesAlerts)

Tell(h, security) ==
    /\ withheld' = Mutes(h, security)
    /\ UNCHANGED <<planned, member, request, cancelled, today, requests, moves>>

\* honeypots_paused_for_scheduling: what a scheduled run leaves out.
RunTask(h) ==
    /\ withheld' = (Active /\ planned.pauses /\ Covers(planned, h))
    /\ UNCHANGED <<planned, member, request, cancelled, today, requests, moves>>

\* A honeypot is moved to other companies; the list of the window stays.
MoveHoneypot(h, c) ==
    /\ moves < MaxMoves
    /\ member' = [member EXCEPT ![h] = {c}]
    /\ moves' = moves + 1
    /\ UNCHANGED <<planned, request, cancelled, withheld, today, requests>>

DayPasses ==
    /\ today < MaxDays
    /\ today' = today + 1
    /\ withheld' = FALSE
    /\ UNCHANGED <<planned, member, request, cancelled, requests, moves>>

WindowNext ==
    \/ \E q \in Requests :
          \/ \E w \in Forms : BeginCreate(q, w) \/ BeginUpdate(q, w)
          \/ BeginEnd(q) \/ CreateWindow(q) \/ UpdateWindow(q) \/ EndWindowNow(q)
          \/ CreateWindowApi(q) \/ UpdateWindowApi(q) \/ EndWindowApi(q) \/ Fails(q)
    \/ DeleteWindow \/ DeleteWindowApi \/ DayPasses
    \/ \E h \in Targets : \/ \E security \in BOOLEAN : Tell(h, security)
                          \/ RunTask(h)
                          \/ \E c \in Owners : MoveHoneypot(h, c)

WindowSpec == WindowInit /\ [][WindowNext]_windowVars

-----------------------------------------------------------------------------
\* A window that was ended by hand mutes nothing and pauses nothing, whatever
\* edits cross the request, until somebody saves it again.
EndedIsOver == cancelled /\ IsThere => Phase(planned) = "ended"

=============================================================================
