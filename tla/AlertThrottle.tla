---------------------------- MODULE AlertThrottle ----------------------------
(***************************************************************************)
(* The alert throttle of one notification rule on one honeypot (services/    *)
(* notifications.py, notify_alert): polls of the honeypot's log go through   *)
(* the new events one by one; within the rule's window an alert is only      *)
(* counted, and the next one sent says how many were held back. The state    *)
(* row is loaded once per poll, by its first event, and created when there   *)
(* is none.                                                                  *)
(***************************************************************************)
EXTENDS Naturals, FiniteSets

CONSTANTS
    Polls,       \* poll tasks under way at once
    Window,      \* alert_throttle_minutes
    MaxMinutes,  \* bounds the time
    MaxEvents    \* bounds the events of all polls

ThrottleConstants == Window \in Nat

VARIABLES
    alertRow,  \* notification_rule_states: at most one, the time of the last
               \* notice and the alerts held back since; 0 for no time
    poll,      \* poll[p]
    minute, events,
    waiting,   \* history: alerts held back since the last notice that was sent
    sentAt,    \* history: when that was
    honest,    \* history: every notice gave the right count, none came early
    crossed    \* history: polls crossed, or one died after sending

throttleVars == <<alertRow, poll, minute, events, waiting, sentAt, honest, crossed>>

AlertState == [at : 0..MaxMinutes, held : 0..MaxEvents]
Poll == [pc : {"idle", "event", "send", "store", "failed"}, row : SUBSET AlertState,
         mine : AlertState, at : 0..MaxMinutes]
NothingHeld == [at |-> 0, held |-> 0]
NoPoll == [pc |-> "idle", row |-> {}, mine |-> NothingHeld, at |-> 0]

ThrottleTypeOK ==
    /\ alertRow \subseteq AlertState /\ Cardinality(alertRow) <= 1
    /\ poll \in [Polls -> Poll]
    /\ minute \in 1..MaxMinutes /\ events \in 0..MaxEvents
    /\ waiting \in 0..MaxEvents /\ sentAt \in 0..MaxMinutes
    /\ honest \in BOOLEAN /\ crossed \in BOOLEAN

ThrottleInit ==
    /\ alertRow = {}
    /\ poll = [p \in Polls |-> NoPoll]
    /\ minute = 1 /\ events = 0
    /\ waiting = 0 /\ sentAt = 0
    /\ honest = TRUE /\ crossed = FALSE

-----------------------------------------------------------------------------
OtherPolls(p) == {x \in Polls \ {p} : poll[x].pc # "idle"}

\* The first event of a poll loads the row.
Starts(p) ==
    /\ poll[p].pc = "idle" /\ events < MaxEvents
    /\ poll' = [poll EXCEPT ![p] =
          [NoPoll EXCEPT !.pc = "event", !.row = alertRow,
                         !.mine = IF alertRow = {} THEN NothingHeld
                                  ELSE CHOOSE s \in alertRow : TRUE]]
    /\ crossed' = (crossed \/ OtherPolls(p) # {})
    /\ UNCHANGED <<alertRow, minute, events, waiting, sentAt, honest>>

\* The row it created meets the one another poll created meanwhile.
Clashes(p) == poll[p].row = {} /\ alertRow # {}

\* What a commit of the poll's own copy leaves: the columns it changed.
Commit(p, new) ==
    LET Column(old, mine, current) == IF mine = old THEN current ELSE mine IN
    alertRow' = {[at |-> Column(poll[p].mine.at, new.at, s.at),
                       held |-> Column(poll[p].mine.held, new.held, s.held)] : s \in alertRow}

Within(last, at) == last # 0 /\ last + Window > at

\* Within the window: count it, and go on with the next event.
HoldBack(p) ==
    LET new == [poll[p].mine EXCEPT !.held = @ + 1] IN
    /\ poll[p].pc = "event" /\ events < MaxEvents
    /\ Within(poll[p].mine.at, minute)
    /\ events' = events + 1
    /\ waiting' = waiting + 1
    /\ Commit(p, new)
    /\ poll' = [poll EXCEPT ![p].mine = new, ![p].row = {new}]
    /\ UNCHANGED <<minute, sentAt, honest, crossed>>

\* Otherwise send; the time is that of the event's turn.
Notify(p) ==
    /\ poll[p].pc = "event" /\ events < MaxEvents
    /\ ~Within(poll[p].mine.at, minute)
    /\ events' = events + 1
    /\ poll' = [poll EXCEPT ![p].pc = "send", ![p].at = minute]
    /\ UNCHANGED <<alertRow, minute, waiting, sentAt, honest, crossed>>

\* Sent (or tried), or muted by a maintenance window or an acknowledgement; the
\* entry in the delivery history is committed together with a row created.
\* A poll whose row meets another's can commit nothing any more.
SendAlert(p, sent) ==
    /\ poll[p].pc = "send"
    /\ alertRow' = IF alertRow = {} THEN {poll[p].mine} ELSE alertRow
    /\ poll' = [poll EXCEPT ![p].pc = IF Clashes(p) THEN "failed"
                                      ELSE IF sent THEN "store" ELSE "event",
                            ![p].row = IF Clashes(p) THEN {} ELSE {poll[p].mine}]
    /\ IF sent
       THEN /\ honest' = (/\ honest
                          /\ poll[p].mine.held = waiting
                          /\ sentAt = 0 \/ sentAt + Window <= poll[p].at)
            /\ waiting' = 0 /\ sentAt' = poll[p].at
       ELSE UNCHANGED <<honest, waiting, sentAt>>
    /\ UNCHANGED <<minute, events, crossed>>

\* Mutant of Reset: the count goes on.
ResetTime(p) == [poll[p].mine EXCEPT !.at = poll[p].at]

Reset(p) == [at |-> poll[p].at, held |-> 0]

StoreAlert(p) ==
    /\ poll[p].pc = "store"
    /\ Commit(p, Reset(p))
    /\ poll' = [poll EXCEPT ![p].pc = "event", ![p].mine = Reset(p), ![p].row = {Reset(p)}]
    /\ UNCHANGED <<minute, events, waiting, sentAt, honest, crossed>>

\* After the last event, or an exception.
PollEnds(p) ==
    /\ poll[p].pc # "idle"
    /\ poll' = [poll EXCEPT ![p] = NoPoll]
    /\ crossed' = (crossed \/ poll[p].pc = "store")
    /\ UNCHANGED <<alertRow, minute, events, waiting, sentAt, honest>>

MinutePasses ==
    /\ minute < MaxMinutes
    /\ minute' = minute + 1
    /\ UNCHANGED <<alertRow, poll, events, waiting, sentAt, honest, crossed>>

ThrottleNext ==
    \/ \E p \in Polls :
          \/ Starts(p) \/ HoldBack(p) \/ Notify(p) \/ \E sent \in BOOLEAN : SendAlert(p, sent)
          \/ StoreAlert(p) \/ PollEnds(p)
    \/ MinutePasses

ThrottleSpec == ThrottleInit /\ [][ThrottleNext]_throttleVars

-----------------------------------------------------------------------------
\* However the events spread over polls, and over sends that were muted, two
\* notices are a window apart and each counts exactly the alerts held back
\* since the one before, as long as no two polls of a honeypot cross and none
\* dies between sending and storing (services/notifications.py:492-532).
CountsAreHonest == ~crossed => honest

=============================================================================
