---------------------------- MODULE NoticesProofs ----------------------------
(* What a notification rule is told beside the mails of Reachability: the    *)
(* throttled alerts of one honeypot, the announced health of its machine,    *)
(* what a rule needs to deliver, and the maintenance window that mutes it.   *)
(*                                                                           *)
(* Each is a row that concurrent requests or tasks read, work on and store,  *)
(* and each invariant says what the copies a task holds have to do with the  *)
(* row: the one poll under way has the row as it is (InStep), an entry that  *)
(* no other kind disturbed is the one its task has read (Undisturbed), a     *)
(* form that was accepted stays complete when it is merged with the rule it  *)
(* was checked against (FormsAreComplete), and a request that ends a window  *)
(* always writes the end (EndIsWritten). At the end: the parts MCReachability *)
(* puts together behave there as they do alone (TellersAreApart).            *)
EXTENDS MCReachability, TLAPS

-----------------------------------------------------------------------------
(* Maintenance *)

\* A request that is to end the window changes its end, and to a time that is
\* over when the request commits.
EndIsWritten ==
    \A q \in Requests :
        /\ request[q].pc \in {"update", "end"} => request[q].had \in Windows
        /\ request[q].pc # "idle" => request[q].has \in Windows
        /\ request[q].pc = "end" => /\ request[q].has.ends # request[q].had.ends
                                    /\ request[q].has.ends <= today

EndedStays ==
    cancelled => planned # NoWindow /\ (IsThere => planned.ends <= today)

WindowInv == WindowTypeOK /\ EndIsWritten /\ EndedStays

LEMMA AppliedType ==
    ASSUME MaintenanceConstants, WindowTypeOK, NEW w \in Forms, IsSound(w)
    PROVE  Applied(w) \in Windows
<1>1. w \in [owner : Owners, starts : Nat, ends : Dates, all : BOOLEAN, listed : SUBSET Targets,
             pauses : BOOLEAN, mutesAlerts : BOOLEAN]
  BY DEF MaintenanceConstants, Dates
<1>2. w.starts \in Dates
  BY <1>1 DEF IsSound, Dates, MaintenanceConstants
<1> DEFINE l == IF w.all THEN {} ELSE {h \in w.listed : w.owner \in member[h]}
<1>3. l \in SUBSET Targets /\ Applied(w) = [w EXCEPT !.listed = l]
  BY <1>1 DEF Applied
<1> HIDE DEF l
<1> QED
  BY <1>1, <1>2, <1>3 DEF Windows

LEMMA BeginRequestStep ==
    ASSUME MaintenanceConstants, WindowInv, NEW q \in Requests,
           NEW pc \in {"create", "update", "end"}, NEW has \in Windows,
           BeginRequest(q, pc, has), pc # "create" => IsThere,
           pc = "end" => planned.ends # has.ends /\ has.ends <= today
    PROVE  WindowInv'
<1> USE DEF WindowInv, WindowTypeOK
<1> DEFINE had == IF IsThere THEN planned ELSE NoWindow
           r == [pc |-> pc, had |-> had, has |-> has]
<1>1. request' = [request EXCEPT ![q] = r]
  BY DEF BeginRequest
<1>2. had \in Windows \cup {NoWindow} /\ (pc # "create" => had \in Windows /\ had = planned)
  BY DEF IsThere
<1> HIDE DEF had
<1>3. r \in [pc : {"idle", "create", "update", "end"}, had : Windows \cup {NoWindow},
             has : Windows \cup {NoWindow}]
      /\ r.pc = pc /\ r.had = had /\ r.has = has
  BY <1>2
<1> HIDE DEF r
<1>4. UNCHANGED <<planned, cancelled, member, withheld, today, moves>>
      /\ requests' \in 0 .. MaxRequests
  BY DEF BeginRequest, OnlyRequests, MaintenanceConstants
<1>5. WindowTypeOK'
  BY <1>1, <1>3, <1>4
<1>6. EndIsWritten'
  BY <1>1, <1>2, <1>3, <1>4 DEF EndIsWritten
<1>7. EndedStays'
  BY <1>4 DEF EndedStays, IsThere
<1> QED
  BY <1>5, <1>6, <1>7

\* A request that is over.
LEMMA RequestEnds ==
    ASSUME WindowInv, NEW q \in Requests, request' = [request EXCEPT ![q] = NoRequest],
           today' = today
    PROVE  /\ request' \in [Requests -> [pc : {"idle", "create", "update", "end"},
                                         had : Windows \cup {NoWindow},
                                         has : Windows \cup {NoWindow}]]
           /\ EndIsWritten'
<1>1. NoRequest.pc = "idle"
      /\ NoRequest \in [pc : {"idle", "create", "update", "end"},
                        had : Windows \cup {NoWindow}, has : Windows \cup {NoWindow}]
  BY DEF NoRequest
<1>2. \A x \in Requests : request'[x] = IF x = q THEN NoRequest ELSE request[x]
  BY DEF WindowInv, WindowTypeOK
<1> QED
  BY <1>1, <1>2 DEF WindowInv, WindowTypeOK, EndIsWritten

LEMMA MergedWindowType ==
    ASSUME NEW had \in Windows, NEW has \in Windows, NEW w \in Windows
    PROVE  /\ MergedWindow(had, has, w) \in Windows
           /\ MergedWindow(had, has, w).ends = IF has.ends # had.ends THEN has.ends ELSE w.ends
<1>1. DOMAIN w = {"owner", "starts", "ends", "all", "listed", "pauses", "mutesAlerts"}
  BY DEF Windows
<1> DEFINE m == MergedWindow(had, has, w)
<1>2. m = [owner |-> m.owner, starts |-> m.starts, ends |-> m.ends, all |-> m.all,
           listed |-> m.listed, pauses |-> m.pauses, mutesAlerts |-> m.mutesAlerts]
  <2>1. m = [f \in DOMAIN w |-> m[f]]
    BY DEF MergedWindow
  <2> HIDE DEF m
  <2> QED
    BY <1>1, <2>1
<1>3. /\ m.owner \in Owners /\ m.starts \in Dates /\ m.ends \in Dates
      /\ m.ends = IF has.ends # had.ends THEN has.ends ELSE w.ends
  BY <1>1 DEF MergedWindow, Windows
<1>4. m.all \in BOOLEAN
  BY <1>1 DEF MergedWindow, Windows
<1>5. m.pauses \in BOOLEAN
  BY <1>1 DEF MergedWindow, Windows
<1>6. m.mutesAlerts \in BOOLEAN
  BY <1>1 DEF MergedWindow, Windows
<1>7. m.listed \in SUBSET Targets
  BY <1>1 DEF MergedWindow, Windows
<1> HIDE DEF m
<1> QED
  BY <1>2, <1>3, <1>4, <1>5, <1>6, <1>7 DEF Windows, m

LEMMA SaveStep ==
    ASSUME MaintenanceConstants, WindowInv, NEW q \in Requests, NEW pc \in {"update", "end"},
           Save(q, pc)
    PROVE  WindowInv'
<1>1. /\ planned' = MergedWindow(request[q].had, request[q].has, planned)
      /\ cancelled' = (pc = "end")
      /\ request' = [request EXCEPT ![q] = NoRequest]
      /\ UNCHANGED <<requests, member, withheld, today, moves>>
  BY DEF Save, OnlyRequests
<1>2. planned \in Windows /\ request[q].had \in Windows /\ request[q].has \in Windows
      /\ request[q].pc = pc
  BY DEF Save, IsThere, WindowInv, WindowTypeOK, EndIsWritten
<1>3. /\ planned' \in Windows
      /\ pc = "end" => planned'.ends <= today
  BY <1>1, <1>2, MergedWindowType DEF WindowInv, EndIsWritten
<1>4. WindowTypeOK'
  BY <1>1, <1>3, RequestEnds DEF WindowInv, WindowTypeOK
<1>5. EndedStays'
  BY <1>1, <1>3 DEF EndedStays, MaintenanceConstants
<1> QED
  BY <1>1, <1>4, <1>5, RequestEnds DEF WindowInv

LEMMA WindowStep ==
    ASSUME MaintenanceConstants, WindowInv, [WindowNext]_windowVars
    PROVE  WindowInv'
<1>1. ASSUME NEW q \in Requests, NEW w \in Forms, BeginCreate(q, w) \/ BeginUpdate(q, w)
      PROVE  WindowInv'
  <2>1. IsSound(w) /\ Applied(w) \in Windows
    BY <1>1, AppliedType DEF BeginCreate, BeginUpdate, WindowInv
  <2> QED
    BY <1>1, <2>1, BeginRequestStep DEF BeginCreate, BeginUpdate
<1>2. ASSUME NEW q \in Requests, BeginEnd(q) PROVE WindowInv'
  <2>1. planned \in Windows /\ planned.ends > today /\ today \in Dates /\ today \in Nat
    BY <1>2 DEF BeginEnd, IsThere, Phase, WindowInv, WindowTypeOK, Windows, Dates,
                MaintenanceConstants
  <2>2. EndedNow(planned) \in Windows /\ EndedNow(planned).ends = today
    BY <2>1 DEF EndedNow, Windows
  <2> QED
    BY <1>2, <2>1, <2>2, BeginRequestStep DEF BeginEnd
<1>3. ASSUME NEW q \in Requests, CreateWindow(q) \/ CreateWindowApi(q) PROVE WindowInv'
  <2>1. /\ planned' = request[q].has /\ request[q].pc = "create"
        /\ request' = [request EXCEPT ![q] = NoRequest]
        /\ UNCHANGED <<cancelled, requests, member, withheld, today, moves>>
    BY <1>3 DEF CreateWindow, CreateWindowApi, OnlyRequests
  <2>2. planned' \in Windows
    BY <2>1 DEF WindowInv, EndIsWritten
  <2>3. WindowTypeOK'
    BY <2>1, <2>2, RequestEnds DEF WindowInv, WindowTypeOK
  <2> QED
    BY <1>3, <2>1, <2>3, RequestEnds DEF CreateWindow, CreateWindowApi, WindowInv, EndedStays
<1>4. ASSUME NEW q \in Requests,
             UpdateWindow(q) \/ EndWindowNow(q) \/ UpdateWindowApi(q) \/ EndWindowApi(q)
      PROVE  WindowInv'
  BY <1>4, SaveStep DEF UpdateWindow, EndWindowNow, UpdateWindowApi, EndWindowApi
<1>5. ASSUME NEW q \in Requests, Fails(q) PROVE WindowInv'
  <2>1. /\ request' = [request EXCEPT ![q] = NoRequest]
        /\ UNCHANGED <<planned, cancelled, requests, member, withheld, today, moves>>
    BY <1>5 DEF Fails, OnlyRequests
  <2> QED
    BY <2>1, RequestEnds DEF WindowInv, WindowTypeOK, EndedStays, IsThere
<1>6. CASE DeleteWindow \/ DeleteWindowApi
  BY <1>6 DEF DeleteWindow, DeleteWindowApi, OnlyRequests, WindowInv, WindowTypeOK, EndIsWritten,
              EndedStays, IsThere, MaintenanceConstants
<1>7. CASE DayPasses
  <2>1. /\ today' = today + 1 /\ today' \in 0 .. MaxDays /\ withheld' = FALSE
        /\ UNCHANGED <<planned, member, request, cancelled, requests, moves>>
    BY <1>7 DEF DayPasses, MaintenanceConstants, WindowInv, WindowTypeOK
  <2>2. WindowTypeOK'
    BY <2>1 DEF WindowInv, WindowTypeOK
  <2>3. EndIsWritten'
    BY <2>1 DEF WindowInv, WindowTypeOK, EndIsWritten, Windows, Dates, MaintenanceConstants
  <2>4. EndedStays'
    BY <2>1 DEF WindowInv, WindowTypeOK, EndedStays, IsThere, Windows, Dates, MaintenanceConstants
  <2> QED
    BY <2>2, <2>3, <2>4 DEF WindowInv
<1>8. ASSUME NEW h \in Targets,
             \/ \E security \in BOOLEAN : Tell(h, security)
             \/ RunTask(h)
             \/ \E c \in Owners : MoveHoneypot(h, c)
      PROVE  WindowInv'
  <2>1. UNCHANGED <<planned, request, cancelled, today, requests>>
    BY <1>8 DEF Tell, RunTask, MoveHoneypot
  <2>2. withheld' \in BOOLEAN
    BY <1>8 DEF Tell, RunTask, MoveHoneypot, Mutes, WindowInv, WindowTypeOK
  <2>3. member' \in [Targets -> SUBSET Owners] /\ moves' \in 0 .. MaxMoves
    BY <1>8 DEF Tell, RunTask, MoveHoneypot, WindowInv, WindowTypeOK, MaintenanceConstants
  <2> QED
    BY <2>1, <2>2, <2>3 DEF WindowInv, WindowTypeOK, EndIsWritten, EndedStays, IsThere
<1>9. CASE UNCHANGED windowVars
  BY <1>9 DEF windowVars, WindowInv, WindowTypeOK, EndIsWritten, EndedStays, IsThere
<1> QED
  BY <1>1, <1>2, <1>3, <1>4, <1>5, <1>6, <1>7, <1>8, <1>9 DEF WindowNext

LEMMA WindowBegin == ASSUME MaintenanceConstants, WindowInit PROVE WindowInv
<1>1. NoRequest.pc = "idle"
      /\ NoRequest \in [pc : {"idle", "create", "update", "end"},
                        had : Windows \cup {NoWindow}, has : Windows \cup {NoWindow}]
  BY DEF NoRequest
<1>2. today \in 0 .. MaxDays /\ requests \in 0 .. MaxRequests /\ moves \in 0 .. MaxMoves
  BY DEF WindowInit, MaintenanceConstants
<1>3. member \in [Targets -> SUBSET Owners]
  BY DEF WindowInit
<1>4. cancelled = FALSE /\ withheld \in BOOLEAN /\ planned = NoWindow
  BY DEF WindowInit
<1>5. request = [q \in Requests |-> NoRequest]
  BY DEF WindowInit
<1>6. WindowTypeOK
  BY <1>1, <1>2, <1>3, <1>4, <1>5 DEF WindowTypeOK
<1>7. EndIsWritten /\ EndedStays
  BY <1>1, <1>4, <1>5 DEF EndIsWritten, EndedStays
<1> QED
  BY <1>6, <1>7 DEF WindowInv

LEMMA WindowInvAlways == ASSUME MaintenanceConstants PROVE WindowSpec => []WindowInv
<1>1. WindowInit => WindowInv
  BY WindowBegin
<1>2. WindowInv /\ [WindowNext]_windowVars => WindowInv'
  BY WindowStep
<1> QED
  BY <1>1, <1>2, PTL DEF WindowSpec

\* The variables of Maintenance keep their types: a window that was merged from
\* two edits is a window, and its dates stay within what its form allows.
THEOREM WindowTyped == ASSUME MaintenanceConstants PROVE WindowSpec => []WindowTypeOK
<1>1. WindowInv => WindowTypeOK
  BY DEF WindowInv
<1> QED
  BY <1>1, WindowInvAlways, PTL

\* A window ended by hand is over, for any number of requests that cross and
\* however old the form is that one of them commits
\* (app/services/maintenance_windows.py: end_window_now).
THEOREM EndedIsOverAlways == ASSUME MaintenanceConstants PROVE WindowSpec => []EndedIsOver
<1>1. WindowInv => EndedIsOver
  BY DEF WindowInv, EndedStays, EndedIsOver, Phase
<1> QED
  BY <1>1, WindowInvAlways, PTL

-----------------------------------------------------------------------------
(* AlertThrottle *)

PollRows == [pc : {"idle", "event", "send", "store", "failed"}, row : SUBSET [at : Nat, held : Nat],
             mine : [at : Nat, held : Nat], at : Nat]

\* Numbers of any size: the bounds are those of the instance that is checked.
ThrottleShape ==
    /\ alertRow \subseteq [at : Nat, held : Nat]
    /\ poll \in [Polls -> PollRows]
    /\ minute \in Nat /\ waiting \in Nat /\ sentAt \in Nat
    /\ honest \in BOOLEAN /\ crossed \in BOOLEAN

\* What the history says the row should hold.
Truth == [at |-> sentAt, held |-> waiting]

\* The row is what was told and counted, unless a notice is on its way to it.
RowIsTrue ==
    (\A p \in Polls : poll[p].pc # "store") =>
        alertRow = {Truth} \/ (alertRow = {} /\ Truth = NothingHeld)

\* The poll has the row as it is, and after a send the time of what was told.
HasRow(p) ==
    /\ poll[p].pc # "failed"
    /\ poll[p].pc \in {"event", "send"} => poll[p].mine = Truth /\ poll[p].row = alertRow
    /\ poll[p].pc = "send" => ~Within(poll[p].mine.at, poll[p].at)
    /\ poll[p].pc = "store" => alertRow = {poll[p].mine} /\ waiting = 0 /\ sentAt = poll[p].at

\* As long as no polls have crossed there is one at a time, in step with the row.
InStep ==
    ~crossed =>
        /\ honest /\ RowIsTrue
        /\ \A p \in Polls : HasRow(p)
        /\ \A p, x \in Polls : p # x => poll[p].pc = "idle" \/ poll[x].pc = "idle"

ThrottleInv == ThrottleShape /\ InStep

\* What a commit leaves of the one row there is.
LEMMA CommitOne ==
    ASSUME NEW p \in Polls, NEW new, NEW s, alertRow = {s}, Commit(p, new)
    PROVE  alertRow' = {[at |-> IF poll[p].mine.at = new.at THEN s.at ELSE new.at,
                         held |-> IF poll[p].mine.held = new.held THEN s.held ELSE new.held]}
  BY DEF Commit

LEMMA CommitType ==
    ASSUME ThrottleShape, NEW p \in Polls, NEW new \in [at : Nat, held : Nat], Commit(p, new)
    PROVE  alertRow' \subseteq [at : Nat, held : Nat]
  BY DEF ThrottleShape, Commit, PollRows

\* A poll moves alone: the others are idle.
LEMMA OneMoves ==
    ASSUME ThrottleInv, ~crossed, NEW p \in Polls, NEW r \in PollRows,
           poll' = [poll EXCEPT ![p] = r], poll[p].pc # "idle"
    PROVE  /\ \A x \in Polls : x # p => poll[x].pc = "idle" /\ poll'[x].pc = "idle"
           /\ poll'[p] = r
           /\ \A x, y \in Polls : x # y => poll'[x].pc = "idle" \/ poll'[y].pc = "idle"
  BY DEF ThrottleInv, ThrottleShape, InStep

\* An idle poll has nothing to be in step with.
LEMMA IdleHasRow ==
    ASSUME NEW p \in Polls, \A x \in Polls : x # p => poll'[x].pc = "idle", HasRow(p)'
    PROVE  \A x \in Polls : HasRow(x)'
<1>1. ASSUME NEW x \in Polls, x # p PROVE HasRow(x)'
  BY <1>1 DEF HasRow
<1> QED
  BY <1>1

LEMMA StartsStep ==
    ASSUME ThrottleConstants, ThrottleInv, NEW p \in Polls, Starts(p)
    PROVE  ThrottleInv'
<1> DEFINE mine == IF alertRow = {} THEN NothingHeld ELSE CHOOSE s \in alertRow : TRUE
           r == [NoPoll EXCEPT !.pc = "event", !.row = alertRow, !.mine = mine]
<1>1. mine \in [at : Nat, held : Nat]
  BY DEF NothingHeld, ThrottleInv, ThrottleShape
<1>2. poll' = [poll EXCEPT ![p] = r]
  BY DEF Starts
<1> HIDE DEF mine
<1>3. r \in PollRows /\ r.pc = "event" /\ r.mine = mine /\ r.row = alertRow
  BY <1>1 DEF NoPoll, PollRows, ThrottleInv, ThrottleShape
<1> HIDE DEF r
<1>4. /\ crossed' = (crossed \/ OtherPolls(p) # {})
      /\ UNCHANGED <<alertRow, minute, events, waiting, sentAt, honest>> /\ poll[p].pc = "idle"
  BY DEF Starts
<1>5. crossed' \in BOOLEAN
  BY <1>4 DEF ThrottleInv, ThrottleShape
<1>6. ThrottleShape'
  BY <1>2, <1>3, <1>4, <1>5 DEF ThrottleInv, ThrottleShape
<1>7. ASSUME ~crossed' PROVE /\ honest' /\ RowIsTrue'
                             /\ \A x \in Polls : HasRow(x)'
                             /\ \A x, y \in Polls :
                                  x # y => poll'[x].pc = "idle" \/ poll'[y].pc = "idle"
  <2>1. ~crossed /\ OtherPolls(p) = {}
    BY <1>4, <1>7 DEF ThrottleInv, ThrottleShape
  <2>2. \A x \in Polls : poll[x].pc = "idle"
    BY <1>4, <2>1 DEF OtherPolls
  <2>3. alertRow = {Truth} \/ (alertRow = {} /\ Truth = NothingHeld)
    BY <2>1, <2>2 DEF ThrottleInv, InStep, RowIsTrue
  <2>4. mine = Truth
    BY <2>3 DEF mine
  <2>5. \A x \in Polls : poll'[x] = IF x = p THEN r ELSE poll[x]
    BY <1>2 DEF ThrottleInv, ThrottleShape
  <2>6. honest' /\ Truth' = Truth /\ alertRow' = alertRow
    BY <1>4, <2>1 DEF ThrottleInv, InStep, Truth
  <2>7. RowIsTrue'
    BY <2>3, <2>6 DEF RowIsTrue
  <2>8. \A x \in Polls : HasRow(x)'
    BY <1>3, <2>2, <2>4, <2>5, <2>6 DEF HasRow
  <2> QED
    BY <1>3, <2>2, <2>5, <2>6, <2>7, <2>8
<1> QED
  BY <1>6, <1>7 DEF ThrottleInv, InStep

LEMMA HoldBackStep ==
    ASSUME ThrottleConstants, ThrottleInv, NEW p \in Polls, HoldBack(p)
    PROVE  ThrottleInv'
<1> DEFINE new == [poll[p].mine EXCEPT !.held = @ + 1]
           r == [poll[p] EXCEPT !.mine = new, !.row = {new}]
<1>1. poll[p] \in PollRows /\ poll[p].mine \in [at : Nat, held : Nat]
  BY DEF ThrottleInv, ThrottleShape, PollRows
<1>2. /\ new \in [at : Nat, held : Nat]
      /\ new = [at |-> poll[p].mine.at, held |-> poll[p].mine.held + 1]
  BY <1>1
<1>3. /\ poll[p].pc = "event" /\ Within(poll[p].mine.at, minute)
      /\ waiting' = waiting + 1 /\ Commit(p, new)
      /\ poll' = [poll EXCEPT ![p] = r]
      /\ UNCHANGED <<minute, sentAt, honest, crossed>>
  BY <1>1 DEF HoldBack, PollRows
<1> HIDE DEF new
<1>4. r \in PollRows /\ r.pc = "event" /\ r.mine = new /\ r.row = {new}
  BY <1>1, <1>2, <1>3 DEF PollRows
<1> HIDE DEF r
<1>5. alertRow' \subseteq [at : Nat, held : Nat]
  BY <1>2, <1>3, CommitType DEF ThrottleInv
<1>6. ThrottleShape'
  BY <1>3, <1>4, <1>5 DEF ThrottleInv, ThrottleShape
<1>7. ASSUME ~crossed' PROVE InStep'
  <2>1. ~crossed /\ honest'
    BY <1>3, <1>7 DEF ThrottleInv, InStep
  <2>2. poll[p].mine = Truth /\ poll[p].row = alertRow /\ honest /\ RowIsTrue
    BY <1>3, <2>1 DEF ThrottleInv, InStep, HasRow
  <2>3. \A x \in Polls : poll[x].pc # "store"
    BY <1>3, <1>4, <2>1, OneMoves
  <2>4. alertRow = {Truth}
    BY <1>3, <2>2, <2>3 DEF RowIsTrue, Within, NothingHeld
  <2>5. Truth = [at |-> sentAt, held |-> waiting] /\ sentAt \in Nat /\ waiting \in Nat
    BY DEF Truth, ThrottleInv, ThrottleShape
  <2>6. new = [at |-> sentAt, held |-> waiting + 1]
    BY <1>2, <2>2, <2>5
  <2>7. alertRow' = {[at |-> IF poll[p].mine.at = new.at THEN Truth.at ELSE new.at,
                      held |-> IF poll[p].mine.held = new.held THEN Truth.held ELSE new.held]}
    BY <1>3, <2>4, CommitOne
  <2>8. alertRow' = {new}
    BY <2>2, <2>5, <2>6, <2>7
  <2>9. Truth' = new
    BY <1>3, <2>6 DEF Truth
  <2>10. RowIsTrue'
    BY <2>8, <2>9 DEF RowIsTrue
  <2>11. \A x \in Polls : HasRow(x)'
    BY <1>3, <1>4, <2>1, <2>8, <2>9, OneMoves DEF HasRow
  <2> QED
    BY <1>3, <1>4, <2>1, <2>10, <2>11, OneMoves DEF InStep
<1> QED
  BY <1>6, <1>7 DEF ThrottleInv, InStep

LEMMA NotifyStep ==
    ASSUME ThrottleConstants, ThrottleInv, NEW p \in Polls, Notify(p)
    PROVE  ThrottleInv'
<1> DEFINE r == [poll[p] EXCEPT !.pc = "send", !.at = minute]
<1>1. poll[p] \in PollRows /\ minute \in Nat
  BY DEF ThrottleInv, ThrottleShape
<1>2. /\ poll[p].pc = "event" /\ ~Within(poll[p].mine.at, minute)
      /\ poll' = [poll EXCEPT ![p] = r]
      /\ UNCHANGED <<alertRow, minute, waiting, sentAt, honest, crossed>>
  BY <1>1 DEF Notify, PollRows
<1>3. /\ r \in PollRows /\ r.pc = "send" /\ r.at = minute
      /\ r.mine = poll[p].mine /\ r.row = poll[p].row
  BY <1>1 DEF PollRows
<1> HIDE DEF r
<1>4. ThrottleShape'
  BY <1>2, <1>3 DEF ThrottleInv, ThrottleShape
<1>5. ASSUME ~crossed' PROVE InStep'
  <2>1. ~crossed /\ honest' /\ Truth' = Truth
    BY <1>2, <1>5 DEF ThrottleInv, InStep, Truth
  <2>2. poll[p].mine = Truth /\ poll[p].row = alertRow /\ honest /\ RowIsTrue
    BY <1>2, <2>1 DEF ThrottleInv, InStep, HasRow
  <2>3. \A x \in Polls : poll[x].pc # "store"
    BY <1>2, <1>3, <2>1, OneMoves
  <2>4. RowIsTrue'
    BY <1>2, <2>1, <2>2, <2>3 DEF RowIsTrue
  <2>5. \A x \in Polls : HasRow(x)'
    BY <1>2, <1>3, <2>1, <2>2, OneMoves DEF HasRow, Within
  <2> QED
    BY <1>2, <1>3, <2>1, <2>4, <2>5, OneMoves DEF InStep
<1> QED
  BY <1>4, <1>5 DEF ThrottleInv, InStep

LEMMA SendAlertStep ==
    ASSUME ThrottleConstants, ThrottleInv, NEW p \in Polls, NEW sent \in BOOLEAN,
           SendAlert(p, sent)
    PROVE  ThrottleInv'
<1> DEFINE pc == IF Clashes(p) THEN "failed" ELSE IF sent THEN "store" ELSE "event"
           kept == IF Clashes(p) THEN {} ELSE {poll[p].mine}
           r == [poll[p] EXCEPT !.pc = pc, !.row = kept]
<1>1. poll[p] \in PollRows /\ poll[p].mine \in [at : Nat, held : Nat] /\ poll[p].at \in Nat
  BY DEF ThrottleInv, ThrottleShape, PollRows
<1>2. /\ poll[p].pc = "send" /\ poll' = [poll EXCEPT ![p] = r]
      /\ alertRow' = IF alertRow = {} THEN {poll[p].mine} ELSE alertRow
      /\ UNCHANGED <<minute, events, crossed>>
  BY <1>1 DEF SendAlert, PollRows
<1>3. pc \in {"failed", "store", "event"} /\ kept \in SUBSET [at : Nat, held : Nat]
  BY <1>1
<1>4. CASE sent
  <2>1. /\ honest' = (/\ honest
                      /\ poll[p].mine.held = waiting
                      /\ sentAt = 0 \/ sentAt + Window <= poll[p].at)
        /\ waiting' = 0 /\ sentAt' = poll[p].at
    BY <1>4 DEF SendAlert
  <2>2. ~Clashes(p) => pc = "store" /\ kept = {poll[p].mine}
    BY <1>4
  <2> HIDE DEF pc, kept
  <2>3. r \in PollRows /\ r.pc = pc /\ r.mine = poll[p].mine /\ r.row = kept /\ r.at = poll[p].at
    BY <1>1, <1>3 DEF PollRows
  <2> HIDE DEF r
  <2>4. honest' \in BOOLEAN
    BY <2>1
  <2>5. ThrottleShape'
    BY <1>1, <1>2, <2>1, <2>3, <2>4 DEF ThrottleInv, ThrottleShape
  <2>6. ASSUME ~crossed' PROVE InStep'
    <3>1. ~crossed
      BY <1>2, <2>6
    <3>2. /\ poll[p].mine = Truth /\ poll[p].row = alertRow /\ honest /\ RowIsTrue
          /\ ~Within(poll[p].mine.at, poll[p].at)
      BY <1>2, <3>1 DEF ThrottleInv, InStep, HasRow
    <3>3. \A x \in Polls : poll[x].pc # "store"
      BY <1>2, <2>3, <3>1, OneMoves
    <3>4. alertRow = {Truth} \/ alertRow = {}
      BY <3>2, <3>3 DEF RowIsTrue
    <3>5. alertRow' = {poll[p].mine} /\ ~Clashes(p)
      BY <1>2, <3>2, <3>4 DEF Clashes
    <3>6. poll[p].mine.held = waiting /\ poll[p].mine.at = sentAt
      BY <3>2 DEF Truth
    <3>7. sentAt = 0 \/ sentAt + Window <= poll[p].at
      BY <1>1, <3>2, <3>6 DEF Within, ThrottleInv, ThrottleShape, ThrottleConstants
    <3>8. honest'
      BY <2>1, <3>2, <3>6, <3>7
    <3>9. poll'[p].pc = "store"
      BY <1>2, <2>2, <2>3, <3>1, <3>5, OneMoves
    <3>10. RowIsTrue'
      BY <3>9 DEF RowIsTrue
    <3>11. poll'[p].mine = poll[p].mine /\ poll'[p].at = poll[p].at
      BY <1>2, <2>3, <3>1, OneMoves
    <3>12. HasRow(p)'
      BY <2>1, <3>5, <3>9, <3>11 DEF HasRow
    <3>13. \A x \in Polls : x # p => poll'[x].pc = "idle"
      BY <1>2, <2>3, <3>1, OneMoves
    <3> QED
      BY <1>2, <2>3, <3>1, <3>8, <3>10, <3>12, <3>13, IdleHasRow, OneMoves DEF InStep
  <2> QED
    BY <2>5, <2>6 DEF ThrottleInv, InStep
<1>5. CASE ~sent
  <2>1. UNCHANGED <<honest, waiting, sentAt>>
    BY <1>5 DEF SendAlert
  <2>2. ~Clashes(p) => pc = "event" /\ kept = {poll[p].mine}
    BY <1>5
  <2> HIDE DEF pc, kept
  <2>3. r \in PollRows /\ r.pc = pc /\ r.mine = poll[p].mine /\ r.row = kept /\ r.at = poll[p].at
    BY <1>1, <1>3 DEF PollRows
  <2> HIDE DEF r
  <2>4. ThrottleShape'
    BY <1>1, <1>2, <2>1, <2>3 DEF ThrottleInv, ThrottleShape
  <2>5. ASSUME ~crossed' PROVE InStep'
    <3>1. ~crossed /\ Truth' = Truth
      BY <1>2, <2>1, <2>5 DEF Truth
    <3>2. poll[p].mine = Truth /\ poll[p].row = alertRow /\ honest /\ RowIsTrue
      BY <1>2, <3>1 DEF ThrottleInv, InStep, HasRow
    <3>3. \A x \in Polls : poll[x].pc # "store"
      BY <1>2, <2>3, <3>1, OneMoves
    <3>4. alertRow = {Truth} \/ alertRow = {}
      BY <3>2, <3>3 DEF RowIsTrue
    <3>5. alertRow' = {Truth} /\ ~Clashes(p)
      BY <1>2, <3>2, <3>4 DEF Clashes
    <3>6. RowIsTrue'
      BY <3>1, <3>5 DEF RowIsTrue
    <3>7. poll'[p].pc = "event" /\ poll'[p].mine = Truth /\ poll'[p].row = {Truth}
      BY <1>2, <2>2, <2>3, <3>1, <3>2, <3>5, OneMoves
    <3>8. HasRow(p)'
      BY <3>1, <3>5, <3>7 DEF HasRow
    <3>9. \A x \in Polls : x # p => poll'[x].pc = "idle"
      BY <1>2, <2>3, <3>1, OneMoves
    <3> QED
      BY <1>2, <2>1, <2>3, <3>1, <3>2, <3>6, <3>8, <3>9, IdleHasRow, OneMoves DEF InStep
  <2> QED
    BY <2>4, <2>5 DEF ThrottleInv, InStep
<1> QED
  BY <1>4, <1>5

LEMMA StoreAlertStep ==
    ASSUME ThrottleConstants, ThrottleInv, NEW p \in Polls, StoreAlert(p)
    PROVE  ThrottleInv'
<1> DEFINE r == [poll[p] EXCEPT !.pc = "event", !.mine = Reset(p), !.row = {Reset(p)}]
<1>1. poll[p] \in PollRows /\ poll[p].mine \in [at : Nat, held : Nat] /\ poll[p].at \in Nat
  BY DEF ThrottleInv, ThrottleShape, PollRows
<1>2. Reset(p) = [at |-> poll[p].at, held |-> 0]
  BY DEF Reset
<1>3. Reset(p) \in [at : Nat, held : Nat]
  BY <1>1, <1>2
<1>4. /\ poll[p].pc = "store" /\ Commit(p, Reset(p))
      /\ poll' = [poll EXCEPT ![p] = r]
      /\ UNCHANGED <<minute, events, waiting, sentAt, honest, crossed>>
  BY <1>1 DEF StoreAlert, PollRows
<1>5. r \in PollRows /\ r.pc = "event" /\ r.mine = Reset(p) /\ r.row = {Reset(p)}
  BY <1>1, <1>3 DEF PollRows
<1> HIDE DEF r
<1>6. alertRow' \subseteq [at : Nat, held : Nat]
  BY <1>3, <1>4, CommitType DEF ThrottleInv
<1>7. ThrottleShape'
  BY <1>4, <1>5, <1>6 DEF ThrottleInv, ThrottleShape
<1>8. ASSUME ~crossed' PROVE InStep'
  <2>1. ~crossed /\ Truth' = Truth
    BY <1>4, <1>8 DEF Truth
  <2>2. alertRow = {poll[p].mine} /\ waiting = 0 /\ sentAt = poll[p].at /\ honest
    BY <1>4, <2>1 DEF ThrottleInv, InStep, HasRow
  <2>3. Truth = Reset(p)
    BY <1>2, <2>2 DEF Truth
  <2>4. alertRow' = {[at |-> IF poll[p].mine.at = Reset(p).at THEN poll[p].mine.at
                             ELSE Reset(p).at,
                      held |-> IF poll[p].mine.held = Reset(p).held THEN poll[p].mine.held
                               ELSE Reset(p).held]}
    BY <1>4, <2>2, CommitOne
  <2>5. alertRow' = {Reset(p)}
    BY <1>2, <2>4
  <2>6. RowIsTrue'
    BY <2>1, <2>3, <2>5 DEF RowIsTrue
  <2>7. \A x \in Polls : HasRow(x)'
    BY <1>4, <1>5, <2>1, <2>3, <2>5, OneMoves DEF HasRow
  <2> QED
    BY <1>4, <1>5, <2>1, <2>2, <2>6, <2>7, OneMoves DEF InStep
<1> QED
  BY <1>7, <1>8 DEF ThrottleInv, InStep

LEMMA PollEndsStep ==
    ASSUME ThrottleConstants, ThrottleInv, NEW p \in Polls, PollEnds(p)
    PROVE  ThrottleInv'
<1>1. NoPoll \in PollRows /\ NoPoll.pc = "idle"
  BY DEF NoPoll, PollRows, NothingHeld
<1>2. /\ poll[p].pc # "idle" /\ poll' = [poll EXCEPT ![p] = NoPoll]
      /\ crossed' = (crossed \/ poll[p].pc = "store")
      /\ UNCHANGED <<alertRow, minute, events, waiting, sentAt, honest>>
  BY DEF PollEnds
<1>3. crossed' \in BOOLEAN
  BY <1>2 DEF ThrottleInv, ThrottleShape
<1>4. ThrottleShape'
  BY <1>1, <1>2, <1>3 DEF ThrottleInv, ThrottleShape
<1>5. ASSUME ~crossed' PROVE InStep'
  <2>1. ~crossed /\ poll[p].pc # "store" /\ Truth' = Truth
    BY <1>2, <1>5 DEF Truth, ThrottleInv, ThrottleShape
  <2>2. \A x \in Polls : poll[x].pc # "store"
    BY <1>1, <1>2, <2>1, OneMoves
  <2>3. RowIsTrue'
    BY <1>2, <2>1, <2>2 DEF RowIsTrue, ThrottleInv, InStep
  <2>4. \A x \in Polls : poll'[x].pc = "idle"
    BY <1>1, <1>2, <2>1, OneMoves
  <2>5. HasRow(p)'
    BY <2>4 DEF HasRow
  <2>6. honest'
    BY <1>2, <2>1 DEF InStep, ThrottleInv
  <2> QED
    BY <2>3, <2>4, <2>5, <2>6, IdleHasRow DEF InStep
<1> QED
  BY <1>4, <1>5 DEF ThrottleInv, InStep

LEMMA ThrottleStep ==
    ASSUME ThrottleConstants, ThrottleInv, [ThrottleNext]_throttleVars
    PROVE  ThrottleInv'
<1>1. CASE MinutePasses
  <2>1. /\ minute' = minute + 1
        /\ UNCHANGED <<alertRow, poll, events, waiting, sentAt, honest, crossed>>
    BY <1>1 DEF MinutePasses
  <2>2. ThrottleShape'
    BY <2>1 DEF ThrottleInv, ThrottleShape
  <2>3. InStep'
    BY <2>1 DEF ThrottleInv, InStep, RowIsTrue, HasRow, Truth, Within
  <2> QED
    BY <2>2, <2>3 DEF ThrottleInv
<1>2. CASE UNCHANGED throttleVars
  BY <1>2 DEF throttleVars, ThrottleInv, ThrottleShape, InStep, RowIsTrue, HasRow, Truth, Within
<1> QED
  BY <1>1, <1>2, StartsStep, HoldBackStep, NotifyStep, SendAlertStep, StoreAlertStep, PollEndsStep
     DEF ThrottleNext

LEMMA ThrottleBegin == ASSUME ThrottleInit PROVE ThrottleInv
<1>1. NoPoll \in PollRows /\ NoPoll.pc = "idle"
  BY DEF NoPoll, PollRows, NothingHeld
<1>2. ThrottleShape
  BY <1>1 DEF ThrottleInit, ThrottleShape
<1>3. Truth = NothingHeld /\ alertRow = {} /\ honest
  BY DEF ThrottleInit, Truth, NothingHeld
<1>4. \A p \in Polls : poll[p].pc = "idle"
  BY <1>1 DEF ThrottleInit
<1>5. InStep
  BY <1>3, <1>4 DEF InStep, RowIsTrue, HasRow
<1> QED
  BY <1>2, <1>5 DEF ThrottleInv

\* The count in a notice is right and notices are a window apart, for any
\* window, any number of events and any number of polls that do not cross
\* (app/services/notifications.py: notify_alert).
THEOREM CountsAreHonestAlways ==
    ASSUME ThrottleConstants PROVE ThrottleSpec => []CountsAreHonest
<1>1. ThrottleInit => ThrottleInv
  BY ThrottleBegin
<1>2. ThrottleInv /\ [ThrottleNext]_throttleVars => ThrottleInv'
  BY ThrottleStep
<1>3. ThrottleInv => CountsAreHonest
  BY DEF ThrottleInv, InStep, CountsAreHonest
<1> QED
  BY <1>1, <1>2, <1>3, PTL DEF ThrottleSpec

-----------------------------------------------------------------------------
(* NotificationRules *)

\* A form that was accepted, a rule that is stored or about to be used has all
\* its channel needs, unless two edits have crossed.
FormsAreComplete ==
    /\ \A e \in Edits : edit[e].pc = "checked" => edit[e].has \in StoredRules
                                                  /\ Complete(edit[e].has)
    /\ \A e \in Edits : edit[e].had # NoRule => edit[e].had \in StoredRules
    /\ ~mixed => /\ There => Complete(savedRule)
                 /\ sending # NoRule => sending \in StoredRules /\ Complete(sending)
                 /\ outcome # "incomplete"

RulesInv == RulesTypeOK /\ FormsAreComplete

EditRows == [pc : {"idle", "read", "checked"}, had : StoredRules \cup {NoRule},
             has : StoredRules \cup {NoRule}]

\* What a form asks for is complete once it is whole, whatever was stored.
LEMMA AskedIsComplete ==
    ASSUME NEW had, NEW cs \in SUBSET Companies, NEW hs \in SUBSET Honeypots,
           NEW ch \in Channels, NEW typed \in BOOLEAN
    PROVE  /\ Asked(had, cs, hs, ch, typed) \in StoredRules
           /\ IsWhole(Asked(had, cs, hs, ch, typed)) => Complete(Asked(had, cs, hs, ch, typed))
<1> DEFINE token == UsesToken(ch) /\ (typed \/ (had # NoRule /\ had.token))
           url == ch \in UrlChannels
           recipient == ch \in RecipientChannels
           scope == IF cs # {} THEN "company" ELSE "honeypot"
           r == [scope |-> scope, companies |-> cs, honeypots |-> hs, channel |-> ch, url |-> url,
                 recipient |-> recipient, token |-> token]
<1>1. Asked(had, cs, hs, ch, typed) = r
  BY DEF Asked
<1>2. token \in BOOLEAN /\ url \in BOOLEAN /\ recipient \in BOOLEAN
      /\ scope \in {"company", "honeypot"}
  OBVIOUS
<1>3. (url = (ch \in UrlChannels)) /\ (recipient = (ch \in RecipientChannels))
  OBVIOUS
<1> HIDE DEF token, url, recipient, scope
<1>4. r \in StoredRules
  BY <1>2 DEF StoredRules
<1>5. r.channel = ch /\ r.url = url /\ r.recipient = recipient
  OBVIOUS
<1> HIDE DEF r
<1>6. Target(r, TRUE)
  BY <1>3, <1>5 DEF Target
<1>7. IsWhole(r) => Complete(r)
  BY <1>6 DEF IsWhole, Complete
<1> QED
  BY <1>1, <1>4, <1>7

\* Completeness is of the channel, not of the honeypots.
LEMMA CompleteSame ==
    ASSUME NEW r, NEW s, r.channel = s.channel, r.url = s.url, r.recipient = s.recipient,
           r.token = s.token, Complete(r)
    PROVE  Complete(s)
  BY DEF Complete, Target

LEMMA MergedType ==
    ASSUME NEW had \in StoredRules, NEW has \in StoredRules, NEW now \in StoredRules
    PROVE  /\ Merged(had, has, now) \in StoredRules
           /\ had = now /\ Complete(has) => Complete(Merged(had, has, now))
<1> DEFINE m == Merged(had, has, now)
<1>1. /\ m.scope \in {"company", "honeypot"} /\ m.channel \in Channels
      /\ m.companies \in SUBSET Companies /\ m.honeypots \in SUBSET Honeypots
  BY DEF Merged, Column, Links, StoredRules
<1>2. m.url \in BOOLEAN
  BY DEF Merged, Column, StoredRules
<1>3. m.token \in BOOLEAN
  BY DEF Merged, Column, StoredRules
<1>4. m.recipient \in BOOLEAN
  BY DEF Merged, Column, StoredRules
<1>5. m = [scope |-> m.scope, companies |-> m.companies, honeypots |-> m.honeypots,
           channel |-> m.channel, url |-> m.url, token |-> m.token, recipient |-> m.recipient]
  BY DEF Merged
<1>6. had = now => /\ m.channel = has.channel /\ m.url = has.url /\ m.token = has.token
                   /\ m.recipient = has.recipient
  BY DEF Merged, Column
<1> HIDE DEF m
<1>7. m \in StoredRules
  BY <1>1, <1>2, <1>3, <1>4, <1>5 DEF StoredRules
<1>8. had = now /\ Complete(has) => Complete(m)
  BY <1>6, CompleteSame
<1> QED
  BY <1>7, <1>8 DEF m

\* An edit goes on and the rule stays.
LEMMA EditStep ==
    ASSUME RulesInv, NEW e \in Edits, NEW r \in EditRows, edit' = [edit EXCEPT ![e] = r],
           r.pc = "checked" => r.has \in StoredRules /\ Complete(r.has),
           edits' \in 0 .. MaxEdits, UNCHANGED <<savedRule, mixed>>, OnlyEdits
    PROVE  RulesInv'
<1>1. edit' \in [Edits -> EditRows]
  BY DEF RulesInv, RulesTypeOK, EditRows
<1>2. RulesTypeOK'
  BY <1>1 DEF RulesInv, RulesTypeOK, OnlyEdits, EditRows
<1>3. \A x \in Edits : edit'[x] = IF x = e THEN r ELSE edit[x]
  BY DEF RulesInv, RulesTypeOK
<1>4. FormsAreComplete'
  BY <1>3 DEF RulesInv, FormsAreComplete, OnlyEdits, EditRows, There
<1> QED
  BY <1>2, <1>4 DEF RulesInv

LEMMA IdleRow == Idle \in EditRows /\ Idle.pc = "idle" /\ Idle.had = NoRule
  BY DEF Idle, EditRows

\* A rule is stored and the edit is over.
LEMMA StoreRuleStep ==
    ASSUME RulesInv, NEW e \in Edits, edit' = [edit EXCEPT ![e] = Idle],
           savedRule' \in StoredRules, mixed' \in BOOLEAN, mixed => mixed',
           ~mixed' => Complete(savedRule'), UNCHANGED edits, OnlyEdits
    PROVE  RulesInv'
<1>1. edit' \in [Edits -> EditRows]
  BY IdleRow DEF RulesInv, RulesTypeOK, EditRows
<1>2. RulesTypeOK'
  BY <1>1 DEF RulesInv, RulesTypeOK, OnlyEdits, EditRows
<1>3. \A x \in Edits : edit'[x] = IF x = e THEN Idle ELSE edit[x]
  BY DEF RulesInv, RulesTypeOK
<1>4. FormsAreComplete'
  BY <1>3, IdleRow DEF RulesInv, FormsAreComplete, OnlyEdits
<1> QED
  BY <1>2, <1>4 DEF RulesInv

LEMMA ReadRuleStep ==
    ASSUME RulesConstants, RulesInv, NEW e \in Edits, ReadRule(e)
    PROVE  RulesInv'
<1> DEFINE r == [Idle EXCEPT !.pc = "read", !.had = savedRule]
<1>1. savedRule \in StoredRules \cup {NoRule}
  BY DEF ReadRule, RulesInv, RulesTypeOK
<1>2. r \in EditRows /\ r.pc = "read" /\ r.had = savedRule
  BY <1>1 DEF Idle, EditRows
<1>3. edit' = [edit EXCEPT ![e] = r] /\ UNCHANGED <<savedRule, mixed>> /\ OnlyEdits
  BY DEF ReadRule
<1> HIDE DEF r
<1>4. edits' \in 0 .. MaxEdits
  <2>1. edits \in 0 .. MaxEdits /\ edits < MaxEdits /\ edits' = edits + 1
    BY DEF ReadRule, RulesInv, RulesTypeOK
  <2> QED
    BY <2>1 DEF RulesConstants
<1> QED
  BY <1>2, <1>3, <1>4, EditStep

LEMMA CheckStep ==
    ASSUME RulesInv, NEW e \in Edits, CheckSomeForm(e)
    PROVE  RulesInv'
<1>1. PICK cs \in SUBSET Companies, hs \in SUBSET Honeypots, ch \in Channels, typed \in BOOLEAN :
          CheckForm(e, Asked(edit[e].had, cs, hs, ch, typed))
  BY DEF CheckSomeForm
<1> DEFINE a == Asked(edit[e].had, cs, hs, ch, typed)
           r == [edit[e] EXCEPT !.pc = "checked", !.has = a]
<1>2. CheckForm(e, a)
  BY <1>1
<1>3. a \in StoredRules /\ (IsWhole(a) => Complete(a))
  BY AskedIsComplete
<1> HIDE DEF a
<1>4. edit[e] \in EditRows
  BY DEF RulesInv, RulesTypeOK, EditRows
<1>5. r \in EditRows /\ r.has = a
  BY <1>3, <1>4 DEF EditRows
<1>6. edit' = [edit EXCEPT ![e] = r]
  BY <1>2, <1>4 DEF CheckForm, EditRows
<1> HIDE DEF r
<1>7. UNCHANGED <<savedRule, mixed, edits>> /\ OnlyEdits /\ Complete(a)
  BY <1>2, <1>3 DEF CheckForm
<1>8. edits' \in 0 .. MaxEdits
  BY <1>7 DEF RulesInv, RulesTypeOK
<1> QED
  BY <1>3, <1>5, <1>6, <1>7, <1>8, EditStep

LEMMA CreateStep ==
    ASSUME RulesInv, NEW e \in Edits, CreateRule(e)
    PROVE  RulesInv'
<1>1. /\ savedRule' = edit[e].has /\ edit[e].pc = "checked"
      /\ edit' = [edit EXCEPT ![e] = Idle]
      /\ UNCHANGED <<edits, mixed>> /\ OnlyEdits
  BY DEF CreateRule
<1>2. savedRule' \in StoredRules /\ Complete(edit[e].has)
  BY <1>1 DEF RulesInv, FormsAreComplete
<1>3. mixed' \in BOOLEAN
  BY <1>1 DEF RulesInv, RulesTypeOK
<1> QED
  BY <1>1, <1>2, <1>3, StoreRuleStep

LEMMA UpdateStep ==
    ASSUME RulesInv, NEW e \in Edits, UpdateRule(e)
    PROVE  RulesInv'
<1> DEFINE m == Merged(edit[e].had, edit[e].has, savedRule)
<1>1. /\ savedRule' = m /\ edit[e].pc = "checked" /\ edit[e].had # NoRule /\ There
      /\ edit' = [edit EXCEPT ![e] = Idle]
      /\ mixed' = (mixed \/ edit[e].had # savedRule)
      /\ UNCHANGED edits /\ OnlyEdits
  BY DEF UpdateRule
<1>2. /\ edit[e].had \in StoredRules /\ edit[e].has \in StoredRules /\ savedRule \in StoredRules
      /\ Complete(edit[e].has)
  BY <1>1 DEF RulesInv, RulesTypeOK, FormsAreComplete, There
<1>3. m \in StoredRules /\ (edit[e].had = savedRule => Complete(m))
  BY <1>2, MergedType
<1> HIDE DEF m
<1>4. mixed' \in BOOLEAN /\ (mixed => mixed') /\ (~mixed' => edit[e].had = savedRule)
  BY <1>1
<1> QED
  BY <1>1, <1>3, <1>4, StoreRuleStep

LEMMA DeleteHoneypotStep ==
    ASSUME RulesInv, NEW h \in Honeypots, DeleteHoneypot(h)
    PROVE  RulesInv'
<1> DEFINE less == [savedRule EXCEPT !.honeypots = @ \ {h}]
<1>1. /\ there' = there \ {h}
      /\ savedRule' = IF There THEN less ELSE savedRule
      /\ UNCHANGED <<access, edit, sending, outcome, edits, mixed>>
  BY DEF DeleteHoneypot
<1>2. There => savedRule \in StoredRules
  BY DEF There, RulesInv, RulesTypeOK
<1>3. There => /\ less \in StoredRules /\ less.channel = savedRule.channel
               /\ less.url = savedRule.url /\ less.recipient = savedRule.recipient
               /\ less.token = savedRule.token
  BY <1>2 DEF StoredRules
<1> HIDE DEF less
<1>4. RulesTypeOK'
  BY <1>1, <1>3 DEF RulesInv, RulesTypeOK
<1>5. There' /\ ~There => FALSE
  BY <1>1 DEF There
<1>6. There' /\ ~mixed => Complete(savedRule')
  <2>1. SUFFICES ASSUME There, ~mixed PROVE Complete(less)
    BY <1>1, <1>5
  <2>2. Complete(savedRule)
    BY <2>1 DEF RulesInv, FormsAreComplete
  <2> QED
    BY <1>3, <2>1, <2>2, CompleteSame
<1>7. FormsAreComplete'
  BY <1>1, <1>6 DEF RulesInv, FormsAreComplete
<1> QED
  BY <1>4, <1>7 DEF RulesInv

\* A dispatch reads the rule as it is stored.
LEMMA DispatchStep ==
    ASSUME RulesInv, NEW h \in Honeypots, Match(h)
    PROVE  RulesInv'
<1>1. There /\ sending' = savedRule /\ UNCHANGED outcome /\ OnlySends
  BY DEF Match
<1>2. savedRule \in StoredRules
  BY <1>1 DEF There, RulesInv, RulesTypeOK
<1>3. RulesTypeOK'
  BY <1>1, <1>2 DEF RulesInv, RulesTypeOK, OnlySends
<1>4. FormsAreComplete'
  BY <1>1, <1>2 DEF RulesInv, FormsAreComplete, OnlySends, There
<1> QED
  BY <1>3, <1>4 DEF RulesInv

LEMMA DeliverStep ==
    ASSUME RulesInv, NEW mail \in BOOLEAN, Deliver(mail)
    PROVE  RulesInv'
<1>1. sending # NoRule /\ sending' = NoRule /\ OnlySends
      /\ outcome' \in {"incomplete", "no address", "sent", "failed"}
      /\ (Complete(sending) => outcome' # "incomplete")
  BY DEF Deliver
<1>2. RulesTypeOK'
  BY <1>1 DEF RulesInv, RulesTypeOK, OnlySends
<1>3. FormsAreComplete'
  BY <1>1 DEF RulesInv, FormsAreComplete, OnlySends, There
<1> QED
  BY <1>2, <1>3 DEF RulesInv

LEMMA RulesStep ==
    ASSUME RulesConstants, RulesInv, [RulesNext]_rulesVars
    PROVE  RulesInv'
<1>1. ASSUME NEW e \in Edits, ReadRule(e) \/ ReadRuleApi(e) PROVE RulesInv'
  BY <1>1, ReadRuleStep DEF ReadRuleApi
<1>2. ASSUME NEW e \in Edits, Refuse(e) PROVE RulesInv'
  <2>1. /\ edit' = [edit EXCEPT ![e] = Idle] /\ UNCHANGED <<savedRule, edits, mixed>> /\ OnlyEdits
        /\ edits' \in 0 .. MaxEdits
    BY <1>2 DEF Refuse, RulesInv, RulesTypeOK
  <2> QED
    BY <2>1, EditStep, IdleRow
<1>3. ASSUME NEW e \in Edits,
             CreateRule(e) \/ UpdateRule(e) \/ CreateRuleApi(e) \/ UpdateRuleApi(e)
      PROVE  RulesInv'
  BY <1>3, CreateStep, UpdateStep DEF CreateRuleApi, UpdateRuleApi
<1>4. CASE DeleteRule \/ DeleteRuleApi
  <2>1. savedRule' = Gone /\ UNCHANGED <<edit, edits, mixed>> /\ OnlyEdits
    BY <1>4 DEF DeleteRule, DeleteRuleApi
  <2> QED
    BY <2>1 DEF RulesInv, RulesTypeOK, FormsAreComplete, OnlyEdits, There
<1>5. ASSUME NEW c \in Companies, ChangeAccess(c) PROVE RulesInv'
  <2>1. /\ access' \subseteq Companies
        /\ UNCHANGED <<savedRule, there, edit, sending, outcome, edits, mixed>>
    BY <1>5 DEF ChangeAccess, RulesInv, RulesTypeOK
  <2> QED
    BY <2>1 DEF RulesInv, RulesTypeOK, FormsAreComplete, There
<1>6. CASE SendTest \/ SendTestApi
  BY <1>6, DispatchStep DEF SendTest, SendTestApi
<1>7. CASE UNCHANGED rulesVars
  BY <1>7 DEF rulesVars, RulesInv, RulesTypeOK, FormsAreComplete, There
<1> QED
  BY <1>1, <1>2, <1>3, <1>4, <1>5, <1>6, <1>7, CheckStep, DeleteHoneypotStep, DispatchStep,
     DeliverStep DEF RulesNext

LEMMA RulesBegin == ASSUME RulesConstants, RulesInit PROVE RulesInv
<1>1. edit \in [Edits -> EditRows] /\ \A e \in Edits : edit[e].pc = "idle" /\ edit[e].had = NoRule
  BY IdleRow DEF RulesInit
<1>2. savedRule = NoRule /\ sending = NoRule /\ outcome = "none" /\ mixed = FALSE
      /\ access = Companies /\ there = Honeypots
  BY DEF RulesInit
<1>3. edits \in 0 .. MaxEdits
  BY DEF RulesInit, RulesConstants
<1>4. RulesTypeOK
  BY <1>1, <1>2, <1>3 DEF RulesTypeOK, EditRows
<1>5. FormsAreComplete
  BY <1>1, <1>2 DEF FormsAreComplete, There
<1> QED
  BY <1>4, <1>5 DEF RulesInv

\* A push is never sent without what its channel needs unless two edits of its
\* rule crossed, for any rules, channels and number of edits
\* (app/web/routes/notifications.py: _parse_delivery, update_notification_rule).
THEOREM PushesAreCompleteAlways ==
    ASSUME RulesConstants PROVE RulesSpec => []PushesAreComplete
<1>1. RulesInit => RulesInv
  BY RulesBegin
<1>2. RulesInv /\ [RulesNext]_rulesVars => RulesInv'
  BY RulesStep
<1>3. RulesInv => PushesAreComplete
  BY DEF RulesInv, FormsAreComplete, PushesAreComplete
<1> QED
  BY <1>1, <1>2, <1>3, PTL DEF RulesSpec

-----------------------------------------------------------------------------
(* HealthNotices *)

Under(t, k) == task[t].pc # "idle" /\ task[t].kind = k

\* A task that counts as alone has no other of its kind beside it.
AloneIsAlone ==
    \A t, x \in Tasks :
        t # x /\ task[t].pc # "idle" /\ task[t].alone => ~Under(x, task[t].kind)

\* Of a kind whose entry was not disturbed: one task at a time, the entry as
\* that task has read it, and a notice only of what is announced.
Undisturbed(k) ==
    /\ \A t \in Tasks : Under(t, k) =>
          /\ task[t].alone
          /\ task[t].pc \in {"visit", "announce"} => task[t].copy[k] = announced[k]
          /\ task[t].pc = "send" => told[k] = 0 /\ announced[k] = latest[k]
    /\ told[k] <= 1
    /\ told[k] # 0 => announced[k] = latest[k]

HealthInv == HealthTypeOK /\ AloneIsAlone /\ \A k \in Kinds \ upset : Undisturbed(k)

LEMMA NoTaskType == NoTask.pc = "idle" /\ (HealthConstants => NoTask \in Task)
  BY DEF NoTask, Task, Kinds, Health, Nothing, Findings, HealthConstants

LEMMA ReadingType ==
    ASSUME HealthConstants, HealthTypeOK, NEW k \in Kinds
    PROVE  Reading(k) \in Findings
<1>1. 0 \in Findings /\ 1 \in Findings /\ until.date \in Findings
  BY DEF HealthConstants, HealthTypeOK, Findings
<1> QED
  BY <1>1 DEF Reading

LEMMA BeginTaskStep ==
    ASSUME HealthConstants, HealthInv, NEW t \in Tasks, NEW k \in Kinds, BeginTask(t, k)
    PROVE  HealthInv'
<1> DEFINE r == [NoTask EXCEPT !.pc = "visit", !.kind = k, !.copy = announced,
                               !.alone = OtherTasks(t, k) = {}]
<1>1. /\ task[t].pc = "idle" /\ starts < MaxStarts /\ starts' = starts + 1
      /\ task' = [x \in Tasks |->
            IF x = t THEN r
            ELSE IF x \in OtherTasks(t, k) THEN [task[x] EXCEPT !.alone = FALSE] ELSE task[x]]
      /\ upset' = IF OtherTasks(t, k) = {} THEN upset ELSE upset \cup {k}
      /\ UNCHANGED <<world, announced, latest, told>>
  BY DEF BeginTask
<1> DEFINE lone == OtherTasks(t, k) = {}
<1>2. lone \in BOOLEAN /\ (lone <=> OtherTasks(t, k) = {})
  OBVIOUS
<1>3. r = [NoTask EXCEPT !.pc = "visit", !.kind = k, !.copy = announced, !.alone = lone]
  OBVIOUS
<1> HIDE DEF lone
<1>4. r \in Task /\ r.pc = "visit" /\ r.kind = k /\ r.copy = announced /\ r.alone = lone
  BY <1>2, <1>3, NoTaskType DEF Task, HealthInv, HealthTypeOK, NoTask
<1> HIDE DEF r
<1>5. \A x \in Tasks : task[x] \in Task
  BY DEF HealthInv, HealthTypeOK
<1>6. \A x \in Tasks : x # t =>
        /\ task'[x] \in Task
        /\ task'[x].pc = task[x].pc /\ task'[x].kind = task[x].kind
        /\ task'[x].copy = task[x].copy
        /\ task'[x].alone = IF task[x].pc # "idle" /\ task[x].kind = k THEN FALSE ELSE task[x].alone
  BY <1>1, <1>5 DEF Task, OtherTasks
<1>7. task'[t] = r
  BY <1>1
<1>8. task' \in [Tasks -> Task]
  <2>1. \A x \in Tasks : task'[x] \in Task
    BY <1>4, <1>6, <1>7
  <2> QED
    BY <1>1, <2>1
<1>9. starts' \in 0 .. MaxStarts
  BY <1>1 DEF HealthInv, HealthTypeOK, HealthConstants
<1>10. upset' \subseteq Kinds /\ (\A j \in Kinds : j \notin upset' => j \notin upset)
       /\ (k \notin upset' => lone)
  BY <1>1, <1>2 DEF HealthInv, HealthTypeOK
<1>11. HealthTypeOK'
  BY <1>1, <1>8, <1>9, <1>10 DEF HealthInv, HealthTypeOK, world
<1>12. \A x \in Tasks : lone /\ x # t => ~Under(x, k)
  BY <1>2 DEF OtherTasks, Under
<1>13. AloneIsAlone'
  <2> SUFFICES ASSUME NEW x \in Tasks, NEW y \in Tasks, x # y, task'[x].pc # "idle",
                      task'[x].alone, task'[y].pc # "idle", task'[y].kind = task'[x].kind
               PROVE  FALSE
    BY DEF AloneIsAlone, Under
  <2>1. CASE x = t
    BY <1>4, <1>6, <1>7, <1>12, <2>1 DEF Under
  <2>2. CASE x # t /\ y = t
    BY <1>4, <1>6, <1>7, <2>2
  <2>3. CASE x # t /\ y # t
    <3>1. task[x].pc # "idle" /\ task[x].alone /\ task[y].pc # "idle" /\ task[y].kind = task[x].kind
      BY <1>6, <2>3
    <3> QED
      BY <2>3, <3>1 DEF HealthInv, AloneIsAlone, Under
  <2> QED
    BY <2>1, <2>2, <2>3
<1>14. ASSUME NEW j \in Kinds, j \notin upset' PROVE Undisturbed(j)'
  <2>1. Undisturbed(j)
    BY <1>10, <1>14 DEF HealthInv
  <2>2. UNCHANGED <<announced, latest, told>>
    BY <1>1
  <2>3. ASSUME NEW x \in Tasks, Under(x, j)'
        PROVE  /\ task'[x].alone
               /\ task'[x].pc \in {"visit", "announce"} => task'[x].copy[j] = announced[j]
               /\ task'[x].pc = "send" => told[j] = 0 /\ announced[j] = latest[j]
    <3>1. CASE x = t
      <4>1. task'[x] = r /\ j = k
        BY <1>4, <1>7, <2>3, <3>1 DEF Under
      <4>2. lone = TRUE
        BY <1>2, <1>10, <1>14, <4>1
      <4>3. r.alone = TRUE
        BY <1>4, <4>2
      <4> QED
        BY <1>4, <4>1, <4>3
    <3>2. CASE x # t
      <4> DEFINE old == task[x]
                 new == task'[x]
      <4>0. new.pc # "idle" /\ new.kind = j /\ new.pc = old.pc /\ new.kind = old.kind
        BY <1>6, <2>3, <3>2 DEF Under
      <4>1. Under(x, j)
        BY <4>0 DEF Under
      <4>2. task'[x].alone
        <5>1. CASE j = k
          BY <1>10, <1>12, <1>14, <3>2, <4>1, <5>1
        <5>2. CASE j # k
          BY <1>6, <2>1, <3>2, <4>1, <5>2 DEF Undisturbed, Under
        <5> QED
          BY <5>1, <5>2
      <4> QED
        BY <1>6, <2>1, <3>2, <4>1, <4>2 DEF Undisturbed
    <3> QED
      BY <3>1, <3>2
  <2> QED
    BY <2>1, <2>2, <2>3 DEF Undisturbed
<1> QED
  BY <1>11, <1>13, <1>14 DEF HealthInv

\* A task that goes on or ends without a word: the row stays.
LEMMA QuietStep ==
    ASSUME HealthConstants, HealthInv, NEW t \in Tasks, NEW r \in Task,
           task' = [task EXCEPT ![t] = r], task[t].pc # "idle",
           \/ r.pc = "idle"
           \/ /\ task[t].pc = "visit" /\ r.pc = "announce"
              /\ r.kind = task[t].kind /\ r.copy = task[t].copy /\ r.alone = task[t].alone,
           upset' \subseteq Kinds, upset \subseteq upset',
           UNCHANGED <<world, announced, starts, latest, told>>
    PROVE  HealthInv'
<1>1. \A x \in Tasks : task'[x] = IF x = t THEN r ELSE task[x]
  BY DEF HealthInv, HealthTypeOK
<1>2. HealthTypeOK'
  BY DEF HealthInv, HealthTypeOK, world
<1>3. AloneIsAlone'
  BY <1>1 DEF HealthInv, AloneIsAlone, Under
<1>4. ASSUME NEW j \in Kinds, j \notin upset' PROVE Undisturbed(j)'
  <2>1. Undisturbed(j)
    BY <1>4 DEF HealthInv
  <2> QED
    BY <1>1, <2>1 DEF Undisturbed, Under
<1> QED
  BY <1>2, <1>3, <1>4 DEF HealthInv

LEMMA VisitStep ==
    ASSUME HealthConstants, HealthInv, NEW t \in Tasks, Visit(t)
    PROVE  HealthInv'
<1> DEFINE f == Reading(task[t].kind)
           r == [task[t] EXCEPT !.found = f, !.pc = "announce"]
<1>1. task[t] \in Task
  BY DEF HealthInv, HealthTypeOK
<1>2. f \in Findings
  BY <1>1, ReadingType DEF HealthInv, Task
<1>3. task' = [task EXCEPT ![t] = r]
  BY <1>1 DEF Visit, Task
<1> HIDE DEF f
<1>4. /\ r \in Task /\ r.pc = "announce" /\ r.kind = task[t].kind /\ r.copy = task[t].copy
      /\ r.alone = task[t].alone
  BY <1>1, <1>2 DEF Task
<1> HIDE DEF r
<1>5. task[t].pc = "visit" /\ UNCHANGED <<world, announced, starts, latest, told, upset>>
  BY DEF Visit
<1>6. upset' \subseteq Kinds /\ upset \subseteq upset'
  BY <1>5 DEF HealthInv, HealthTypeOK
<1> QED
  BY <1>3, <1>4, <1>5, <1>6, QuietStep

LEMMA EndsStep ==
    ASSUME HealthConstants, HealthInv, NEW t \in Tasks, VisitFails(t) \/ Dies(t)
    PROVE  HealthInv'
<1>1. task[t].pc # "idle" /\ task' = [task EXCEPT ![t] = NoTask]
      /\ UNCHANGED <<world, announced, starts, latest, told>>
  BY DEF VisitFails, Dies
<1>2. upset' \subseteq Kinds /\ upset \subseteq upset'
  <2>1. task[t].kind \in Kinds /\ upset \subseteq Kinds
    BY DEF HealthInv, HealthTypeOK, Task
  <2> QED
    BY <2>1 DEF VisitFails, Dies
<1> QED
  BY <1>1, <1>2, NoTaskType, QuietStep

LEMMA SendNoticeStep ==
    ASSUME HealthConstants, HealthInv, NEW t \in Tasks, SendNotice(t)
    PROVE  HealthInv'
<1>0. PICK k \in Kinds : k = task[t].kind
  BY DEF HealthInv, HealthTypeOK, Task
<1> DEFINE n == IF told[k] < MaxTold THEN told[k] + 1 ELSE told[k]
<1>1. task[t] \in Task /\ told \in [Kinds -> 0 .. MaxTold]
  BY DEF HealthInv, HealthTypeOK
<1>2. /\ task[t].pc = "send" /\ told' = [told EXCEPT ![k] = n]
      /\ task' = [task EXCEPT ![t] = NoTask]
      /\ UNCHANGED <<world, announced, starts, latest, upset>>
  BY <1>0, <1>1 DEF SendNotice
<1>3. n \in 0 .. MaxTold /\ (told[k] = 0 => n = 1)
  BY <1>1 DEF HealthConstants
<1> HIDE DEF n
<1>4. \A x \in Tasks : task'[x] = IF x = t THEN NoTask ELSE task[x]
  BY <1>2 DEF HealthInv, HealthTypeOK
<1>5. told' \in [Kinds -> 0 .. MaxTold]
      /\ (\A j \in Kinds : told'[j] = IF j = k THEN n ELSE told[j])
  BY <1>1, <1>2, <1>3
<1>6. HealthTypeOK'
  BY <1>2, <1>5, NoTaskType DEF HealthInv, HealthTypeOK, world
<1>7. AloneIsAlone'
  BY <1>4, NoTaskType DEF HealthInv, AloneIsAlone, Under
<1>8. ASSUME NEW j \in Kinds, j \notin upset' PROVE Undisturbed(j)'
  <2>1. Undisturbed(j) /\ UNCHANGED <<announced, latest>>
    BY <1>2, <1>8 DEF HealthInv
  <2>2. CASE j = k
    <3>1. Under(t, k) /\ told[k] = 0 /\ announced[k] = latest[k] /\ task[t].alone
      BY <1>0, <1>2, <2>1, <2>2 DEF Undisturbed, Under
    <3>2. \A x \in Tasks : x # t => ~Under(x, k)
      BY <1>0, <1>2, <3>1 DEF HealthInv, AloneIsAlone
    <3>3. \A x \in Tasks : ~Under(x, k)'
      BY <1>2, <1>4, <3>2, NoTaskType DEF Under
    <3>4. told'[k] = 1
      BY <1>1, <1>3, <1>5, <3>1
    <3> QED
      BY <2>1, <2>2, <3>1, <3>3, <3>4 DEF Undisturbed
  <2>3. CASE j # k
    <3>1. told'[j] = told[j]
      BY <1>5, <2>3
    <3>2. \A x \in Tasks : Under(x, j)' => task'[x] = task[x] /\ Under(x, j)
      BY <1>4, NoTaskType DEF Under
    <3> QED
      BY <2>1, <3>1, <3>2 DEF Undisturbed
  <2> QED
    BY <2>2, <2>3
<1> QED
  BY <1>6, <1>7, <1>8 DEF HealthInv

\* What is stored, what goes out and what the history counts, of the own kind.
LEMMA AnnounceOwn ==
    ASSUME HealthConstants, HealthInv, NEW t \in Tasks, Announce(t), task[t].kind \notin upset
    PROVE  LET k == task[t].kind IN
           /\ told'[k] <= 1
           /\ told'[k] # 0 => announced'[k] = latest'[k]
           /\ Fresh(t) /\ k \in asks => told'[k] = 0 /\ announced'[k] = latest'[k]
<1> DEFINE k == task[t].kind
           f == task[t].found
           n == IF f = latest[k] /\ latest[k] # 0 THEN told[k] ELSE 0
<1>1. task[t] \in Task /\ k \in Kinds /\ task[t].pc = "announce"
      /\ task[t].copy \in [Kinds -> Findings]
  BY DEF HealthInv, HealthTypeOK, Task, Announce
<1>2. Undisturbed(k) /\ Under(t, k)
  BY <1>1 DEF HealthInv, Under
<1>3. task[t].copy[k] = announced[k] /\ told[k] <= 1 /\ (told[k] # 0 => announced[k] = latest[k])
  BY <1>1, <1>2 DEF Undisturbed
<1>4. announced'[k] = IF Stores(t) THEN f ELSE announced[k]
  BY <1>1 DEF Announce, Stored
<1>5. latest'[k] = f /\ told'[k] = n
  BY <1>1 DEF Announce, HealthInv, HealthTypeOK
<1>6. n <= 1 /\ (n # 0 => f = latest[k] /\ announced[k] = f)
  BY <1>3
<1>7. Fresh(t) <=> f # 0 /\ f # announced[k]
  BY <1>3 DEF Fresh
<1>8. Stores(t) <=> IF k = "warranty" THEN Fresh(t) /\ "warranty" \in asks ELSE f # announced[k]
  BY <1>3 DEF Stores
<1>9. n # 0 => announced'[k] = f
  BY <1>4, <1>6
<1>10. Fresh(t) /\ k \in asks => n = 0 /\ announced'[k] = f
  BY <1>4, <1>6, <1>7, <1>8
<1> HIDE DEF n
<1> QED
  BY <1>5, <1>6, <1>9, <1>10

LEMMA AnnounceStep ==
    ASSUME HealthConstants, HealthInv, NEW t \in Tasks, Announce(t)
    PROVE  HealthInv'
<1>0. PICK k \in Kinds : k = task[t].kind
  BY DEF HealthInv, HealthTypeOK, Task
<1> DEFINE f == task[t].found
           n == IF f = latest[k] /\ latest[k] # 0 THEN told[k] ELSE 0
           r == IF Fresh(t) /\ k \in asks THEN [task[t] EXCEPT !.pc = "send"] ELSE NoTask
           clears == k # "warranty" /\ f = 0 /\ task[t].alone
<1>1. task[t] \in Task /\ task[t].kind = k /\ f \in Findings /\ task[t].pc = "announce"
      /\ task[t].copy \in [Kinds -> Findings]
  BY <1>0 DEF HealthInv, HealthTypeOK, Task, Announce
<1>2. Stored(t) \in [Kinds -> Findings]
  BY <1>1 DEF Stored, HealthInv, HealthTypeOK
<1>3. /\ announced' = Stored(t) /\ task' = [task EXCEPT ![t] = r]
      /\ latest' = [latest EXCEPT ![k] = f]
      /\ told' = [told EXCEPT ![k] = n]
      /\ upset' = (IF clears THEN upset \ {k} ELSE upset)
                  \cup {x \in Kinds \ {k} : Stored(t)[x] # announced[x]}
      /\ UNCHANGED <<world, starts>>
  BY <1>1 DEF Announce, HealthInv, HealthTypeOK
<1>4. n \in 0 .. MaxTold /\ (f = 0 => n = 0)
  BY <1>1 DEF HealthInv, HealthTypeOK, HealthConstants
<1> HIDE DEF n
<1>5. /\ r \in Task /\ r.pc \in {"idle", "send"}
      /\ r.pc = "send" => Fresh(t) /\ k \in asks /\ r.kind = k /\ r.alone = task[t].alone
  BY <1>1, NoTaskType DEF Task
<1> HIDE DEF r
<1>6. \A x \in Tasks : task'[x] = IF x = t THEN r ELSE task[x]
  BY <1>3 DEF HealthInv, HealthTypeOK
<1>7. /\ latest' \in [Kinds -> Findings] /\ told' \in [Kinds -> 0 .. MaxTold]
      /\ told'[k] = n
      /\ \A j \in Kinds : j # k => latest'[j] = latest[j] /\ told'[j] = told[j]
  BY <1>1, <1>3, <1>4 DEF HealthInv, HealthTypeOK
<1>8. /\ upset' \subseteq Kinds
      /\ \A j \in Kinds \ upset' : j # k => j \notin upset /\ announced'[j] = announced[j]
      /\ k \notin upset' => k \notin upset \/ clears
  BY <1>1, <1>3 DEF HealthInv, HealthTypeOK
<1>9. HealthTypeOK'
  BY <1>2, <1>3, <1>5, <1>7, <1>8 DEF HealthInv, HealthTypeOK, world
<1>10. AloneIsAlone'
  BY <1>1, <1>5, <1>6 DEF HealthInv, AloneIsAlone, Under
<1>11. ASSUME NEW j \in Kinds \ upset', j # k PROVE Undisturbed(j)'
  <2>1. Undisturbed(j) /\ UNCHANGED <<announced[j], latest[j], told[j]>>
    BY <1>7, <1>8, <1>11 DEF HealthInv
  <2>2. \A x \in Tasks : Under(x, j)' => task'[x] = task[x] /\ Under(x, j)
    BY <1>5, <1>6, <1>11 DEF Under
  <2> QED
    BY <2>1, <2>2 DEF Undisturbed
<1>12. ASSUME k \notin upset' PROVE Undisturbed(k)'
  <2>1. task[t].alone
    BY <1>1, <1>8, <1>12 DEF HealthInv, Undisturbed, Under
  <2>2. \A x \in Tasks : x # t => ~Under(x, k)
    BY <1>1, <2>1 DEF HealthInv, AloneIsAlone
  <2>3. \A x \in Tasks : Under(x, k)' => x = t /\ r.pc = "send" /\ task'[x] = r
    BY <1>5, <1>6, <2>2 DEF Under
  <2>4. CASE k \notin upset
    <3>1. /\ told'[k] <= 1
          /\ told'[k] # 0 => announced'[k] = latest'[k]
          /\ Fresh(t) /\ k \in asks => told'[k] = 0 /\ announced'[k] = latest'[k]
      BY <1>0, <2>4, AnnounceOwn
    <3> QED
      BY <1>5, <2>1, <2>3, <3>1 DEF Undisturbed
  <2>5. CASE clears
    <3>1. ~Fresh(t) /\ told'[k] = 0
      BY <1>4, <1>7, <2>5 DEF Fresh
    <3> QED
      BY <1>5, <2>3, <3>1 DEF Undisturbed
  <2> QED
    BY <1>8, <1>12, <2>4, <2>5
<1> QED
  BY <1>9, <1>10, <1>11, <1>12 DEF HealthInv

LEMMA WorldStep ==
    ASSUME HealthConstants, HealthInv,
           \/ \E k \in Health : ProblemChanges(k)
           \/ NoticePeriodBegins \/ Renew
           \/ \E k \in Kinds : SwitchRule(k)
    PROVE  HealthInv'
<1>1. UNCHANGED <<announced, task, starts, latest, told, upset>> /\ Change
  BY DEF ProblemChanges, NoticePeriodBegins, Renew, SwitchRule
<1>2. changes' \in 0 .. MaxChanges
  <2>1. changes \in 0 .. MaxChanges /\ changes < MaxChanges /\ changes' = changes + 1
    BY <1>1 DEF Change, HealthInv, HealthTypeOK
  <2> QED
    BY <2>1 DEF HealthConstants
<1>3. problem' \in [Health -> BOOLEAN]
  BY DEF ProblemChanges, NoticePeriodBegins, Renew, SwitchRule, HealthInv, HealthTypeOK
<1>4. until' \in [date : Findings, near : BOOLEAN]
  <2>1. until \in [date : Findings, near : BOOLEAN]
    BY DEF HealthInv, HealthTypeOK
  <2>2. CASE Renew
    <3>1. until.date + 1 \in Findings
      BY <2>1, <2>2 DEF Renew, Findings, HealthConstants
    <3> QED
      BY <2>2, <3>1 DEF Renew
  <2>3. CASE NoticePeriodBegins
    BY <2>1, <2>3 DEF NoticePeriodBegins
  <2> QED
    BY <2>1, <2>2, <2>3 DEF ProblemChanges, SwitchRule
<1>5. asks' \subseteq Kinds
  BY DEF ProblemChanges, NoticePeriodBegins, Renew, SwitchRule, HealthInv, HealthTypeOK
<1>6. HealthTypeOK'
  BY <1>1, <1>2, <1>3, <1>4, <1>5 DEF HealthInv, HealthTypeOK
<1> QED
  BY <1>1, <1>6 DEF HealthInv, AloneIsAlone, Undisturbed, Under

LEMMA HealthStep ==
    ASSUME HealthConstants, HealthInv, [HealthNext]_healthVars
    PROVE  HealthInv'
<1>1. ASSUME NEW t \in Tasks,
             RefreshFacts(t) \/ RefreshServices(t) \/ ForecastDisks(t) \/ AnnounceWarranties(t)
      PROVE  HealthInv'
  BY <1>1, BeginTaskStep
     DEF RefreshFacts, RefreshServices, ForecastDisks, AnnounceWarranties, Kinds, Health
<1>2. CASE UNCHANGED healthVars
  BY <1>2 DEF healthVars, world, HealthInv, HealthTypeOK, AloneIsAlone, Undisturbed, Under
<1> QED
  BY <1>1, <1>2, VisitStep, EndsStep, AnnounceStep, SendNoticeStep, WorldStep DEF HealthNext

LEMMA HealthBegin == ASSUME HealthConstants, HealthInit PROVE HealthInv
<1>1. Nothing \in [Kinds -> Findings]
  BY DEF Nothing, Findings, HealthConstants
<1>2. \A t \in Tasks : task[t].pc = "idle"
  BY NoTaskType DEF HealthInit
<1>3. problem \in [Health -> BOOLEAN] /\ task \in [Tasks -> Task]
  BY NoTaskType DEF HealthInit
<1>4. until \in [date : Findings, near : BOOLEAN]
  BY DEF HealthInit, Findings, HealthConstants
<1>5. starts \in 0 .. MaxStarts /\ changes \in 0 .. MaxChanges /\ told \in [Kinds -> 0 .. MaxTold]
  BY DEF HealthInit, HealthConstants
<1>6. HealthTypeOK
  BY <1>1, <1>3, <1>4, <1>5 DEF HealthInit, HealthTypeOK
<1>7. AloneIsAlone
  BY <1>2 DEF AloneIsAlone
<1>8. \A k \in Kinds : Undisturbed(k)
  BY <1>2 DEF HealthInit, Undisturbed, Under
<1> QED
  BY <1>6, <1>7, <1>8 DEF HealthInv

LEMMA HealthInvAlways == ASSUME HealthConstants PROVE HealthSpec => []HealthInv
<1>1. HealthInit => HealthInv
  BY HealthBegin
<1>2. HealthInv /\ [HealthNext]_healthVars => HealthInv'
  BY HealthStep
<1> QED
  BY <1>1, <1>2, PTL DEF HealthSpec

\* The variables of HealthNotices keep their types: what a task stores whole is
\* an entry for every kind.
THEOREM HealthTyped == ASSUME HealthConstants PROVE HealthSpec => []HealthTypeOK
<1>1. HealthInv => HealthTypeOK
  BY DEF HealthInv
<1> QED
  BY <1>1, HealthInvAlways, PTL

\* A problem is told once and a warranty once per end date, for any number of
\* tasks and changes, of every kind whose entry no task of another kind put
\* back and no second task of its own raced (app/tasks/jobs.py:
\* _announce_health, _announce_warranties).
THEOREM HealthToldOnceAlways == ASSUME HealthConstants PROVE HealthSpec => []HealthToldOnce
<1>1. HealthInv => HealthToldOnce
  BY DEF HealthInv, Undisturbed, HealthToldOnce
<1> QED
  BY <1>1, HealthInvAlways, PTL

-----------------------------------------------------------------------------
(* All that tells a rule something, together *)

\* A sweep, or a check by hand, of the small instance is one of Reachability.
LEMMA MailPart == MailNext => Next
BY DEF MailNext, Both, OnlyChecks, Sweep, Next

\* A step moves one part, by a step of that part, and leaves the others.
LEMMA TellersStep ==
    ASSUME [MCNext]_<<vars, throttleVars, healthVars, rulesVars, windowVars, focus>>
    PROVE  /\ [Next]_vars /\ [ThrottleNext]_throttleVars /\ [HealthNext]_healthVars
           /\ [RulesNext]_rulesVars /\ [WindowNext]_windowVars
BY MailPart DEF MCNext

\* Mails, alerts, announcements, rules and windows do not meddle with each
\* other: what they do together is, for each of them, something it does alone,
\* so that all that is proved of one holds of the instance they are checked in.
THEOREM TellersAreApart ==
    MCSpec => Spec /\ ThrottleSpec /\ HealthSpec /\ RulesSpec /\ WindowSpec
<1>1. MCInit => Init /\ ThrottleInit /\ HealthInit /\ RulesInit /\ WindowInit
  BY DEF MCInit
<1>2. [MCNext]_<<vars, throttleVars, healthVars, rulesVars, windowVars, focus>> =>
           /\ [Next]_vars /\ [ThrottleNext]_throttleVars /\ [HealthNext]_healthVars
           /\ [RulesNext]_rulesVars /\ [WindowNext]_windowVars
  BY TellersStep
<1> QED
  BY <1>1, <1>2, PTL DEF MCSpec, Spec, ThrottleSpec, HealthSpec, RulesSpec, WindowSpec

=============================================================================
