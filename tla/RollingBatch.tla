----------------------------- MODULE RollingBatch -----------------------------
(***************************************************************************)
(* What a rolling update promises, with no tasks, messages or processes:   *)
(* the places of one batch are worked through in order, the next one only  *)
(* once everything before it is updated and back, and after a place that   *)
(* failed or did not come back nothing further is started.                 *)
(***************************************************************************)
EXTENDS Integers

CONSTANT Places

VARIABLE phase

Phases == {"absent", "waiting", "updating", "updated", "ready", "halted"}

Init == phase = [p \in Places |-> "absent"]

Earlier(p) == {q \in Places : q < p}
Clear(p) == \A q \in Earlier(p) : phase[q] \in {"absent", "ready"}

Create(P) ==
    /\ \A p \in Places : phase[p] = "absent"
    /\ phase' = [p \in Places |-> IF p \in P THEN "waiting" ELSE "absent"]

Start(p) ==
    /\ phase[p] = "waiting"
    /\ Clear(p)
    /\ phase' = [phase EXCEPT ![p] = "updating"]

\* "updated": succeeded, but whether it comes through a reboot is still open.
End(p) ==
    /\ phase[p] = "updating"
    /\ \E v \in {"updated", "ready", "halted"} : phase' = [phase EXCEPT ![p] = v]

Reboot(p) ==
    /\ phase[p] = "updated"
    /\ \E v \in {"ready", "halted"} : phase' = [phase EXCEPT ![p] = v]

\* Everything still waiting behind a halted place is given up, in one step;
\* the place itself may have been removed since it halted.
Stop(p) ==
    /\ phase[p] \in {"halted", "absent"}
    /\ phase' = [q \in Places |->
           IF q > p /\ phase[q] = "waiting" THEN "halted" ELSE phase[q]]

\* A honeypot is deleted, with its run.
Remove(p) == phase' = [phase EXCEPT ![p] = "absent"]

Next ==
    \/ \E p \in Places : Start(p) \/ End(p) \/ Reboot(p) \/ Stop(p) \/ Remove(p)
    \/ \E P \in SUBSET Places : Create(P)

Spec == Init /\ [][Next]_phase

=============================================================================
