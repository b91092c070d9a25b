---------------------------- MODULE HealthNotices ----------------------------
(***************************************************************************)
(* Telling notification rules of a honeypot's health (tasks/jobs.py,         *)
(* _announce_health and _announce_warranties). What has been announced is    *)
(* one JSON column of the honeypots row, shared by the tasks of all kinds:   *)
(* each loads the row before it visits the machine, changes its own entry of *)
(* the copy and stores the copy whole.                                       *)
(***************************************************************************)
EXTENDS Naturals, FiniteSets

CONSTANTS
    Tasks,       \* tasks under way at once
    MaxDate,     \* bounds the end dates a warranty is given
    MaxStarts,   \* bounds the tasks that begin
    MaxChanges,  \* bounds the changes of the world and of the rules
    MaxTold      \* a count of notices goes no higher

HealthConstants ==
    MaxDate \in Nat \ {0} /\ MaxTold \in Nat \ {0} /\ MaxStarts \in Nat /\ MaxChanges \in Nat

VARIABLES
    problem,    \* problem[k]: a reboot is due, a unit has failed, a disk fills up
    until,      \* warranty_until, and whether a rule's notice period has begun
    asks,       \* some rule asks for the kind
    announced,  \* honeypots.health_announced
    task,       \* the running tasks
    starts, changes,
    latest,     \* history: what the last task of a kind found
    told,       \* history: notices of what a kind's last task found, if anything
    upset       \* history: the kinds whose entry a task of another kind put
                \* back, or of which two tasks crossed, or one died

healthVars == <<problem, until, asks, announced, task, starts, changes, latest,
                told, upset>>
world == <<problem, until, asks, changes>>

Health == {"reboot", "service", "disk"}
Kinds == Health \cup {"warranty"}
\* A health problem is there or not; of a warranty the end date counts.
Findings == 0..MaxDate
Task == [pc : {"idle", "visit", "announce", "send"}, kind : Kinds,
         copy : [Kinds -> Findings], found : Findings, alone : BOOLEAN]
Nothing == [k \in Kinds |-> 0]
NoTask == [pc |-> "idle", kind |-> "disk", copy |-> Nothing, found |-> 0, alone |-> TRUE]

HealthTypeOK ==
    /\ problem \in [Health -> BOOLEAN]
    /\ until \in [date : Findings, near : BOOLEAN]
    /\ asks \subseteq Kinds
    /\ announced \in [Kinds -> Findings] /\ latest \in [Kinds -> Findings]
    /\ task \in [Tasks -> Task]
    /\ starts \in 0..MaxStarts /\ changes \in 0..MaxChanges
    /\ told \in [Kinds -> 0..MaxTold]
    /\ upset \subseteq Kinds

HealthInit ==
    /\ problem = [k \in Health |-> FALSE] /\ until = [date |-> 1, near |-> FALSE]
    /\ asks = Kinds
    /\ announced = Nothing /\ latest = Nothing
    /\ task = [t \in Tasks |-> NoTask]
    /\ starts = 0 /\ changes = 0
    /\ told = [k \in Kinds |-> 0]
    /\ upset = {}

-----------------------------------------------------------------------------
\* The tasks

OtherTasks(t, k) == {x \in Tasks \ {t} : task[x].pc # "idle" /\ task[x].kind = k}

\* The row is loaded once; of the same kind there may be another under way.
BeginTask(t, k) ==
    /\ task[t].pc = "idle" /\ starts < MaxStarts
    /\ starts' = starts + 1
    /\ task' = [x \in Tasks |->
          IF x = t THEN [NoTask EXCEPT !.pc = "visit", !.kind = k, !.copy = announced,
                                       !.alone = OtherTasks(t, k) = {}]
          ELSE IF x \in OtherTasks(t, k) THEN [task[x] EXCEPT !.alone = FALSE] ELSE task[x]]
    /\ upset' = IF OtherTasks(t, k) = {} THEN upset ELSE upset \cup {k}
    /\ UNCHANGED <<world, announced, latest, told>>

RefreshFacts(t) == BeginTask(t, "reboot")
RefreshServices(t) == BeginTask(t, "service")
ForecastDisks(t) == BeginTask(t, "disk")
AnnounceWarranties(t) == until.date # 0 /\ BeginTask(t, "warranty")

\* What the machine, the samples or the row say.
Reading(k) ==
    IF k = "warranty" THEN IF until.near THEN until.date ELSE 0
    ELSE IF problem[k] THEN 1 ELSE 0

Visit(t) ==
    /\ task[t].pc = "visit"
    /\ task' = [task EXCEPT ![t].found = Reading(task[t].kind), ![t].pc = "announce"]
    /\ UNCHANGED <<world, announced, starts, latest, told, upset>>

VisitFails(t) ==
    /\ task[t].pc = "visit"
    /\ task' = [task EXCEPT ![t] = NoTask]
    /\ UNCHANGED <<world, announced, starts, latest, told, upset>>

\* Mutant of Fresh: whatever is there now is told.
FreshAlways(t) == task[t].found # 0

\* Not known before. An end date is announced again when it is another one.
Fresh(t) == task[t].found \notin {0, task[t].copy[task[t].kind]}

\* A warranty is only ever added; a problem that is gone is taken off.
Stores(t) ==
    IF task[t].kind = "warranty" THEN Fresh(t) /\ "warranty" \in asks
    ELSE task[t].found # task[t].copy[task[t].kind]

Stored(t) ==
    IF Stores(t) THEN [task[t].copy EXCEPT ![task[t].kind] = task[t].found] ELSE announced

\* Stored and committed first, then sent to the rules that ask.
Announce(t) ==
    LET k == task[t].kind IN
    /\ task[t].pc = "announce"
    /\ announced' = Stored(t)
    /\ task' = [task EXCEPT ![t] =
          IF Fresh(t) /\ k \in asks THEN [task[t] EXCEPT !.pc = "send"] ELSE NoTask]
    /\ latest' = [latest EXCEPT ![k] = task[t].found]
    /\ told' = [told EXCEPT ![k] = IF task[t].found = latest[k] /\ latest[k] # 0 THEN @ ELSE 0]
    /\ upset' =
          (IF k # "warranty" /\ task[t].found = 0 /\ task[t].alone THEN upset \ {k} ELSE upset)
          \cup {x \in Kinds \ {k} : Stored(t)[x] # announced[x]}
    /\ UNCHANGED <<world, starts>>

SendNotice(t) ==
    /\ task[t].pc = "send"
    /\ told' = [told EXCEPT ![task[t].kind] = IF @ < MaxTold THEN @ + 1 ELSE @]
    /\ task' = [task EXCEPT ![t] = NoTask]
    /\ UNCHANGED <<world, announced, starts, latest, upset>>

Dies(t) ==
    /\ task[t].pc = "send"
    /\ task' = [task EXCEPT ![t] = NoTask]
    /\ upset' = upset \cup {task[t].kind}
    /\ UNCHANGED <<world, announced, starts, latest, told>>

-----------------------------------------------------------------------------
\* The world

Change == changes < MaxChanges /\ changes' = changes + 1

ProblemChanges(k) ==
    /\ Change
    /\ problem' = [problem EXCEPT ![k] = ~@]
    /\ UNCHANGED <<until, asks, announced, task, starts, latest, told, upset>>

NoticePeriodBegins ==
    /\ Change
    /\ until.date # 0 /\ ~until.near
    /\ until' = [until EXCEPT !.near = TRUE]
    /\ UNCHANGED <<problem, asks, announced, task, starts, latest, told, upset>>

\* A new end date, later than any before.
Renew ==
    /\ Change
    /\ until.date < MaxDate
    /\ until' = [date |-> until.date + 1, near |-> FALSE]
    /\ UNCHANGED <<problem, asks, announced, task, starts, latest, told, upset>>

\* Somebody edits the rules.
SwitchRule(k) ==
    /\ Change
    /\ asks' = (asks \cup {k}) \ (asks \cap {k})
    /\ UNCHANGED <<problem, until, announced, task, starts, latest, told, upset>>

-----------------------------------------------------------------------------
HealthNext ==
    \/ \E t \in Tasks :
          \/ RefreshFacts(t) \/ RefreshServices(t) \/ ForecastDisks(t) \/ AnnounceWarranties(t)
          \/ Visit(t) \/ VisitFails(t) \/ Announce(t) \/ SendNotice(t) \/ Dies(t)
    \/ \E k \in Health : ProblemChanges(k)
    \/ NoticePeriodBegins \/ Renew
    \/ \E k \in Kinds : SwitchRule(k)

HealthSpec == HealthInit /\ [][HealthNext]_healthVars

-----------------------------------------------------------------------------
\* "A problem is therefore announced once when it appears, and again only after
\* it went away and came back" (tasks/jobs.py:1152-1153), and a warranty once
\* per end date (1463-1465): however the rules are switched meanwhile and
\* whatever the tasks of the other kinds do, as long as none of them puts an
\* old entry of this kind back.
HealthToldOnce == \A k \in Kinds \ upset : told[k] <= 1

=============================================================================
