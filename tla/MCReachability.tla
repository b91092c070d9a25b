-------------------------- MODULE MCReachability --------------------------
(***************************************************************************)
(* Small instances of Reachability, AlertThrottle and HealthNotices for TLC, *)
(* the three ways a notification rule is told something, each with a memory  *)
(* of its own (mail, alerts, notices), and of NotificationRules and          *)
(* Maintenance, what a rule and a window are. A behaviour moves one of them. *)
(* The three read of a rule the columns they name and of a window whether it *)
(* is in effect, which any value of those two modules gives them. Of         *)
(* Reachability either every kind of rule meets a sweep that always ends,    *)
(* over a long time, or a simple rule meets sweeps that die and checks by    *)
(* hand.                                                                     *)
(***************************************************************************)
EXTENDS Reachability, AlertThrottle, HealthNotices, NotificationRules, Maintenance

CONSTANTS
    ShortClock, FewFlips,      \* the bounds when there are checks by hand
    Company, Another, Honeypot

VARIABLE focus    \* the one that moves

InCompany == [h \in {Honeypot} |-> {Company}]

Wanted(owner, from, to, listed, pauses, mutesAlerts) ==
    [owner |-> owner, starts |-> from, ends |-> to, all |-> listed = {},
     listed |-> listed, pauses |-> pauses, mutesAlerts |-> mutesAlerts]
SomeWindows ==
    {Wanted(Company, 0, 2, {}, TRUE, FALSE), Wanted(Company, 1, 3, {Honeypot}, FALSE, TRUE),
     Wanted(Another, 1, 2, {Honeypot}, TRUE, FALSE), Wanted(Company, 0, 3, {}, TRUE, TRUE)}

ASSUME ConstantsAreSound ==
    ThrottleConstants /\ HealthConstants /\ RulesConstants /\ MaintenanceConstants

RulesWith(up, delays) ==
    [onDown : {TRUE}, onUp : up, downAfter : delays, upAfter : delays]
OnlyBack == [onDown : {FALSE}, onUp : {TRUE}, downAfter : {1}, upAfter : {1}]
AllRules == RulesWith(BOOLEAN, {1, 2}) \cup OnlyBack
OneRule == RulesWith({TRUE}, {1})

MCInit ==
    /\ Init /\ ThrottleInit /\ HealthInit /\ RulesInit /\ WindowInit
    /\ focus \in {"rules", "checks", "alerts", "notices", "rule", "window"}
    /\ focus # "rules" => rule \in OneRule
    /\ focus # "window" => member = InCompany

Sweep(s) ==
    \/ BeginSweep(s) \/ Probe(s) \/ Record(s) \/ ReadState(s)
    \/ Evaluate(s) \/ Send(s) \/ Store(s)

Both == ToggleWindow \/ Acknowledge \/ \E s \in Sweeps : Sweep(s)

OnlyChecks ==
    \/ clock < ShortClock /\ Tick
    \/ counts.flips < FewFlips /\ Flip
    \/ \E s \in Sweeps : SweepDies(s)
    \/ \E c \in Checks : BeginCheck(c) \/ ProbeByHand(c) \/ RecordByHand(c)

MailNext ==
    \/ Both
    \/ focus = "rules" /\ (Tick \/ Flip)
    \/ focus = "checks" /\ OnlyChecks

MCNext ==
    /\ UNCHANGED focus
    /\ IF focus \in {"rules", "checks"} THEN MailNext ELSE UNCHANGED vars
    /\ IF focus = "alerts" THEN ThrottleNext ELSE UNCHANGED throttleVars
    /\ IF focus = "notices" THEN HealthNext ELSE UNCHANGED healthVars
    /\ IF focus = "rule" THEN RulesNext ELSE UNCHANGED rulesVars
    /\ IF focus = "window" THEN WindowNext ELSE UNCHANGED windowVars

MCSpec == MCInit /\ [][MCNext]_<<vars, throttleVars, healthVars, rulesVars, windowVars, focus>>

=============================================================================
