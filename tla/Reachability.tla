----------------------------- MODULE Reachability -----------------------------
(***************************************************************************)
(* One honeypot's reachability and what a notification rule makes of it:    *)
(* the sweep (_ping_all_honeypots), which probes, records and then evaluates*)
(* the rules (_evaluate_unavailability_notifications), the manual check     *)
(* (_check_honeypot_reachability), acknowledgements and maintenance windows.*)
(* Sweeps may overlap each other and a manual check: each loads its own copy*)
(* of the rows and writes back only the attributes it changed.              *)
(***************************************************************************)
EXTENDS Integers

CONSTANTS
    Sweeps,       \* executions of the sweep that may overlap
    Checks,       \* manual checks that may overlap
    Rules,        \* the settings the notification rule may have
    MaxClock,     \* bounds the clock, which counts sweep intervals
    MaxFlips,     \* bounds how often the honeypot goes down or comes up
    MaxWindows,   \* bounds the openings and closings of a maintenance window
    MaxAcks,      \* bounds the acknowledgements
    MaxChecks,    \* bounds the manual checks
    MaxDeaths     \* bounds the sweeps that die

\* Delays are at least a minute, which is a sweep later at the earliest.
Delay == Nat \ {0}
Rule == [onDown : BOOLEAN, onUp : BOOLEAN, downAfter : Delay, upAfter : Delay]

ASSUME ConstantsAssumption ==
    /\ Rules \subseteq {r \in Rule : r.onDown \/ r.onUp}
    /\ MaxClock \in Nat /\ MaxFlips \in Nat /\ MaxWindows \in Nat
    /\ MaxAcks \in Nat /\ MaxChecks \in Nat /\ MaxDeaths \in Nat

VARIABLES
    clock,      \* datetime.now(UTC)
    answers,    \* the honeypot's SSH port accepts connections
    window,     \* a maintenance window covers it
    rule,       \* the NotificationRule
    row,        \* the Honeypot row
    state,      \* the NotificationRuleState row
    sweep,      \* the sweeps
    check,      \* the manual checks
    mails,      \* what the rule dispatched, for the properties only
    counts      \* how often the bounded things happened

vars == <<clock, answers, window, rule, row, state, sweep, check, mails, counts>>

Never == -1
Time == {Never} \cup 0..MaxClock
\* is_reachable, last_ping_at, unreachable_since, reachable_since, acknowledged_at
Row == [seen : {"never", "up", "down"}, pinged : Time, downSince : Time,
        upSince : Time, acked : BOOLEAN]
\* unavailable_notified_at and recovered_notified_at: only NULL or not matters.
State == [exists : BOOLEAN, told : BOOLEAN, toldBack : BOOLEAN]
Mail == {"none", "down", "back"}

NewRow == [seen |-> "never", pinged |-> Never, downSince |-> Never,
           upSince |-> Never, acked |-> FALSE]
NoState == [exists |-> FALSE, told |-> FALSE, toldBack |-> FALSE]
NoSweep == [pc |-> "idle", loaded |-> NewRow, reached |-> FALSE, now |-> 0,
            read |-> NoState, new |-> NoState, mail |-> "none"]
NoCheck == [pc |-> "idle", loaded |-> NewRow, reached |-> FALSE]

Init ==
    /\ clock = 0
    /\ answers \in BOOLEAN
    /\ window = FALSE
    /\ rule \in Rules
    /\ row = NewRow
    /\ state = NoState
    /\ sweep = [s \in Sweeps |-> NoSweep]
    /\ check = [c \in Checks |-> NoCheck]
    /\ mails = [said |-> "none", heard |-> "none", downThisOutage |-> 0, backThisRecovery |-> 0]
    /\ counts = [flips |-> 0, windows |-> 0, acks |-> 0, checks |-> 0,
                deaths |-> 0, raced |-> FALSE]

\* What a flush leaves of record db: the attributes that differ from the
\* loaded copy are written, the others stay as somebody else may have set them.
Flush(db, loaded, new) ==
    [a \in DOMAIN db |-> IF new[a] = loaded[a] THEN db[a] ELSE new[a]]

-----------------------------------------------------------------------------
(* The world, and the people *)

Tick ==
    /\ clock < MaxClock
    /\ clock' = clock + 1
    /\ UNCHANGED <<answers, window, rule, row, state, sweep, check, mails, counts>>

Flip ==
    /\ counts.flips < MaxFlips
    /\ answers' = ~answers
    /\ counts' = [counts EXCEPT !.flips = @ + 1]
    /\ UNCHANGED <<clock, window, rule, row, state, sweep, check, mails>>

ToggleWindow ==
    /\ counts.windows < MaxWindows
    /\ window' = ~window
    /\ counts' = [counts EXCEPT !.windows = @ + 1]
    /\ UNCHANGED <<clock, answers, rule, row, state, sweep, check, mails>>

NothingRuns ==
    /\ \A s \in Sweeps : sweep[s].pc = "idle"
    /\ \A c \in Checks : check[c].pc = "idle"

\* "I know about this one", said of an outage, with no end time. For the
\* properties: did it fall into a running sweep or check?
Acknowledge ==
    /\ row.seen = "down" /\ ~row.acked
    /\ counts.acks < MaxAcks
    /\ row' = [row EXCEPT !.acked = TRUE]
    /\ counts' = [counts EXCEPT !.acks = @ + 1, !.raced = @ \/ ~NothingRuns]
    /\ UNCHANGED <<clock, answers, window, rule, state, sweep, check, mails>>

-----------------------------------------------------------------------------
(* What a check makes of the row *)

\* Whatever was acknowledged is over once an unreachable honeypot is back.
StillAcked(r, reached) == r.acked /\ ~(r.seen = "down" /\ reached)
\* The sweep's: a clock runs since the honeypot was first found that way.
Found(r, reached, now) ==
    [r EXCEPT !.seen = IF reached THEN "up" ELSE "down", !.pinged = now,
              !.acked = StillAcked(r, reached),
              !.downSince = IF reached THEN Never
                            ELSE IF r.seen # "down" \/ @ = Never THEN now ELSE @,
              !.upSince = IF ~reached THEN Never
                          ELSE IF r.seen # "up" \/ @ = Never THEN now ELSE @]

\* Mutant of FoundByHand: the acknowledgement stays.
FoundByHandOnly(r, reached, now) ==
    [r EXCEPT !.seen = IF reached THEN "up" ELSE "down", !.pinged = now]

\* The manual check's: the clocks are left alone.
FoundByHand(r, reached, now) ==
    [r EXCEPT !.seen = IF reached THEN "up" ELSE "down", !.pinged = now,
              !.acked = StillAcked(r, reached)]

\* For the properties: a new outage or a new recovery starts the count anew.
Recorded(reached) ==
    mails' = IF reached
             THEN [mails EXCEPT !.downThisOutage = 0]
             ELSE [mails EXCEPT !.backThisRecovery = 0]

-----------------------------------------------------------------------------
(* ping_all_honeypots *)

Due == row.pinged = Never \/ clock > row.pinged

BeginSweep(s) ==
    /\ sweep[s].pc = "idle"
    /\ Due
    /\ sweep' = [sweep EXCEPT ![s] = [NoSweep EXCEPT !.pc = "probing", !.loaded = row]]
    /\ UNCHANGED <<clock, answers, window, rule, row, state, check, mails, counts>>

Probe(s) ==
    /\ sweep[s].pc = "probing"
    /\ sweep' = [sweep EXCEPT ![s].pc = "recording", ![s].reached = answers]
    /\ UNCHANGED <<clock, answers, window, rule, row, state, check, mails, counts>>

\* The commit; the session's honeypot keeps what was assigned to it.
Record(s) ==
    LET new == Found(sweep[s].loaded, sweep[s].reached, clock) IN
    /\ sweep[s].pc = "recording"
    /\ row' = Flush(row, sweep[s].loaded, new)
    /\ sweep' = [sweep EXCEPT ![s].pc = "reading", ![s].loaded = new, ![s].now = clock]
    /\ Recorded(sweep[s].reached)
    /\ UNCHANGED <<clock, answers, window, rule, state, check, counts>>

ReadState(s) ==
    /\ sweep[s].pc = "reading"
    /\ sweep' = [sweep EXCEPT ![s].pc = "evaluating", ![s].read = state]
    /\ UNCHANGED <<clock, answers, window, rule, row, state, check, mails, counts>>

LongEnough(since, now, minutes) == since # Never /\ now - since >= minutes

\* Mutant of AnnounceDown: "down" in every sweep of the outage.
AnnounceDownAgain(s) ==
    /\ ~sweep[s].reached /\ rule.onDown
    /\ LongEnough(sweep[s].loaded.downSince, sweep[s].now, rule.downAfter)

\* "It's back": after a "down", once, and reachable for long enough.
AnnounceBack(s) ==
    /\ sweep[s].reached /\ sweep[s].read.told
    /\ rule.onUp /\ ~sweep[s].read.toldBack
    /\ LongEnough(sweep[s].loaded.upSince, sweep[s].now, rule.upAfter)

\* "It's down": once, and unreachable for long enough.
AnnounceDown(s) ==
    /\ ~sweep[s].reached
    /\ rule.onDown /\ ~sweep[s].read.told
    /\ LongEnough(sweep[s].loaded.downSince, sweep[s].now, rule.downAfter)

Decide(s, pc, mail, told, toldBack) ==
    sweep' = [sweep EXCEPT ![s].pc = pc, ![s].mail = mail,
                           ![s].new = [exists |-> TRUE, told |-> told, toldBack |-> toldBack]]

\* Mutant of Forgets: the outage is only forgotten with its "recovered".
NeverForgets(s) == FALSE

\* A rule that does not want "recovered" forgets the outage.
Forgets(s) == sweep[s].reached /\ sweep[s].read.told /\ ~rule.onUp

Evaluate(s) ==
    /\ sweep[s].pc = "evaluating"
    /\ \/ AnnounceBack(s) /\ Decide(s, "sending", "back", FALSE, TRUE)
       \/ AnnounceDown(s) /\ Decide(s, "sending", "down", TRUE, FALSE)
       \/ Forgets(s) /\ Decide(s, "storing", "none", FALSE, sweep[s].read.toldBack)
       \/ /\ ~sweep[s].reached /\ ~AnnounceDown(s) /\ sweep[s].read.toldBack
          /\ Decide(s, "storing", "none", sweep[s].read.told, FALSE)
       \/ /\ ~AnnounceBack(s) /\ ~AnnounceDown(s) /\ ~Forgets(s)
          /\ sweep[s].reached \/ ~sweep[s].read.toldBack
          /\ sweep' = [sweep EXCEPT ![s] = NoSweep]
    /\ UNCHANGED <<clock, answers, window, rule, row, state, check, mails, counts>>

\* A window withholds both kinds, an acknowledgement only "down".
Muted(s) == window \/ (sweep[s].mail = "down" /\ sweep[s].loaded.acked)

\* For the properties: what the owner heard last, as long as nothing was lost.
Heard(mail, sent) == IF sent /\ mails.heard # "lost" THEN mail ELSE "lost"

\* One dispatch: withheld, sent nowhere as the rule has no target or e-mail is
\* off, failed, or sent. None of it raises, so the state is stored all the same.
Send(s) ==
    /\ sweep[s].pc = "sending"
    /\ sweep' = [sweep EXCEPT ![s].pc = "storing"]
    /\ \E sent \in BOOLEAN :
          /\ Muted(s) => ~sent
          /\ mails' = IF sweep[s].mail = "down"
                      THEN [mails EXCEPT !.said = "down", !.heard = Heard("down", sent),
                                         !.downThisOutage = @ + 1]
                      ELSE [mails EXCEPT !.said = "back", !.heard = Heard("back", sent),
                                         !.backThisRecovery = @ + 1]
    /\ UNCHANGED <<clock, answers, window, rule, row, state, check, counts>>

\* Somebody else inserted the rule's state row since it was read: ours fails.
Conflict(s) == state.exists /\ ~sweep[s].read.exists

Store(s) ==
    /\ sweep[s].pc = "storing"
    /\ state' = IF Conflict(s) THEN state ELSE Flush(state, sweep[s].read, sweep[s].new)
    /\ sweep' = [sweep EXCEPT ![s] = NoSweep]
    /\ UNCHANGED <<clock, answers, window, rule, row, check, mails, counts>>

SweepDies(s) ==
    /\ sweep[s].pc # "idle"
    /\ counts.deaths < MaxDeaths
    /\ sweep' = [sweep EXCEPT ![s] = NoSweep]
    /\ counts' = [counts EXCEPT !.deaths = @ + 1]
    /\ UNCHANGED <<clock, answers, window, rule, row, state, check, mails>>

-----------------------------------------------------------------------------
(* check_honeypot_reachability *)

BeginCheck(c) ==
    /\ check[c].pc = "idle"
    /\ counts.checks < MaxChecks
    /\ counts' = [counts EXCEPT !.checks = @ + 1]
    /\ check' = [check EXCEPT ![c] = [NoCheck EXCEPT !.pc = "probing", !.loaded = row]]
    /\ UNCHANGED <<clock, answers, window, rule, row, state, sweep, mails>>

ProbeByHand(c) ==
    /\ check[c].pc = "probing"
    /\ check' = [check EXCEPT ![c].pc = "recording", ![c].reached = answers]
    /\ UNCHANGED <<clock, answers, window, rule, row, state, sweep, mails, counts>>

RecordByHand(c) ==
    LET loaded == check[c].loaded IN
    /\ check[c].pc = "recording"
    /\ row' = Flush(row, loaded, FoundByHand(loaded, check[c].reached, clock))
    /\ check' = [check EXCEPT ![c] = NoCheck]
    /\ Recorded(check[c].reached)
    /\ UNCHANGED <<clock, answers, window, rule, state, sweep, counts>>

-----------------------------------------------------------------------------
Next ==
    \/ Tick \/ Flip \/ ToggleWindow \/ Acknowledge
    \/ \E s \in Sweeps :
          \/ BeginSweep(s) \/ Probe(s) \/ Record(s) \/ ReadState(s)
          \/ Evaluate(s) \/ Send(s) \/ Store(s) \/ SweepDies(s)
    \/ \E c \in Checks : BeginCheck(c) \/ ProbeByHand(c) \/ RecordByHand(c)

Spec == Init /\ [][Next]_vars

-----------------------------------------------------------------------------
(* Properties *)

SweepTask ==
    [pc : {"idle", "probing", "recording", "reading", "evaluating", "sending", "storing"},
     loaded : Row, reached : BOOLEAN, now : 0..MaxClock, read : State, new : State, mail : Mail]
CheckTask == [pc : {"idle", "probing", "recording"}, loaded : Row, reached : BOOLEAN]
\* The last thing dispatched, and heard; how often something was dispatched in
\* this outage, and this recovery, sent or not.
Mails == [said : Mail, heard : Mail \cup {"lost"}, downThisOutage : Nat, backThisRecovery : Nat]
Counts == [flips : 0..MaxFlips, windows : 0..MaxWindows, acks : 0..MaxAcks,
           checks : 0..MaxChecks, deaths : 0..MaxDeaths, raced : BOOLEAN]

TypeOK ==
    /\ clock \in 0..MaxClock
    /\ answers \in BOOLEAN /\ window \in BOOLEAN
    /\ rule \in Rules
    /\ row \in Row
    /\ state \in State
    /\ sweep \in [Sweeps -> SweepTask]
    /\ check \in [Checks -> CheckTask]
    /\ mails \in Mails
    /\ counts \in Counts

OnlySweeps == counts.checks = 0 /\ counts.deaths = 0

ToldOnce == mails.downThisOutage <= 1 /\ mails.backThisRecovery <= 1

\* One continuous outage dispatches "it's down" at most once and one recovery
\* "it's back" at most once, withheld and failed ones included, unless a sweep
\* died between sending and storing it or a check by hand got in between.
OncePerOutage == OnlySweeps => ToldOnce

LeavesOverdueOutage(s) ==
    /\ sweep[s].pc = "evaluating" /\ sweep'[s].pc = "idle"
    /\ ~sweep[s].reached /\ rule.onDown
    /\ LongEnough(sweep[s].loaded.downSince, sweep[s].now, rule.downAfter)

\* "It's down" was the last thing dispatched or, of a rule that dispatches
\* nothing else, was dispatched in this very outage.
DownWasSaid == IF rule.onUp THEN mails.said = "down" ELSE mails.downThisOutage > 0

\* No outage is passed over: a sweep leaves an overdue one alone only if "it's
\* down" was dispatched for it, and that is also what the owner heard last,
\* where nothing has been lost; unless a sweep died or there were checks by
\* hand. What was withheld, failed or had no target is not tried again, so that
\* the owner need not know then.
OutageIsAnnounced ==
    [][\A s \in Sweeps : LeavesOverdueOutage(s) /\ OnlySweeps' =>
          DownWasSaid /\ mails.heard \in {"down", "lost"}]_vars

\* The clocks of outage and recovery run only while the honeypot is found so.
ClocksMatch ==
    /\ row.seen = "up" => row.downSince = Never
    /\ row.seen = "down" => row.upSince = Never

\* An acknowledgement of an outage does not outlive it, if it was not made
\* while a check was running.
AckEndsWithOutage == row.acked /\ ~counts.raced => row.seen = "down"

=============================================================================
