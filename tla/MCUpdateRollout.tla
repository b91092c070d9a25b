--------------------------- MODULE MCUpdateRollout ---------------------------
(* A small instance of UpdateRollout for TLC: two honeypots in one batch.    *)
EXTENDS UpdateRollout

MCTargets == 1..2
MCRuns == {1} \X MCTargets
MCBatchOf == [r \in MCRuns |-> r[1]]
MCHoneypotOf == [r \in MCRuns |-> r[2]]

RollingReboot == {[rolling |-> TRUE, reboot |-> TRUE]}
AnyDeathPoint == Pcs \ {"free", "run_queued", "finish_queued"}

=============================================================================
