---------------------------- MODULE MCAuditChain ----------------------------
(***************************************************************************)
(* A small instance of AuditChain for TLC. Of a behaviour either the calls  *)
(* of log_event are many and fail, or few events are purged and damaged     *)
(* while time passes: the product of both is out of reach.                  *)
(***************************************************************************)
EXTENDS AuditChain

CONSTANT Late    \* the writers that stay away while there is a purge

VARIABLE focus

MCInit == Init /\ focus \in {"writing", "purging"}

Writing ==
    \/ \E w \in Writers : LogEvent(w) \/ Write(w) \/ WriteFails(w)
    \/ VerifyRead
    \/ VerifyTip

Purging ==
    \/ Tick
    \/ \E w \in Writers \ Late :
          (events < MaxEvents - 1 /\ LogEvent(w)) \/ Write(w) \/ EndPurge(w)
    \/ BeginPurge
    \/ \E D \in SUBSET entries : DeleteBatch(D)
    \/ VerifyRead
    \/ VerifyTip
    \/ \E e \in entries : Alter(e) \/ TakeOut(e)

MCNext ==
    /\ UNCHANGED focus
    /\ (focus = "writing" /\ Writing) \/ (focus = "purging" /\ (Purging \/ PurgeDies))

MCSpec == MCInit /\ [][MCNext]_<<vars, focus>>

=============================================================================
