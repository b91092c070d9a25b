-------------------------- MODULE MCCanaryLogPoll --------------------------
(***************************************************************************)
(* A small instance of CanaryLogPoll for TLC. Of a behaviour either one log *)
(* is rotated while polls overlap, or OpenCanary is configured to log       *)
(* elsewhere while one poll at a time and a facts refresh overlap.          *)
(***************************************************************************)
EXTENDS CanaryLogPoll

CONSTANTS Spares,     \* the pollers that stay away when the log moves
          FewerLines  \* bounds the lines written then

VARIABLE focus

MCInit == Init /\ focus \in {"one log", "moved log"}

Polling(p) == BeginPoll(p) \/ Poll(p) \/ ReadBroken(p) \/ PollFails(p)

MovedLog ==
    \/ written < FewerLines /\ BeginLine
    \/ \E p \in Paths : Move(p)
    \/ \E p \in Pollers \ Spares : Polling(p)
    \/ \E r \in Refreshers : BeginRefresh(r) \/ Refresh(r) \/ RefreshFails(r)

MCNext ==
    /\ UNCHANGED focus
    /\ \/ EndLine
       \/ focus = "one log" /\ (BeginLine \/ Rotate \/ \E p \in Pollers : Polling(p))
       \/ focus = "moved log" /\ MovedLog

mcVars == <<vars, focus>>
Moved(A) == focus = "moved log" /\ A /\ UNCHANGED focus
OneLog(A) == focus = "one log" /\ A /\ UNCHANGED focus

MCSpec ==
    /\ MCInit /\ [][MCNext]_mcVars
    /\ \A p \in Pollers :
          /\ WF_mcVars(OneLog(BeginPoll(p))) /\ WF_mcVars(OneLog(Poll(p)))
    /\ \A p \in Pollers \ Spares :
          /\ WF_mcVars(Moved(BeginPoll(p))) /\ WF_mcVars(Moved(Poll(p)))
    /\ \A r \in Refreshers :
          /\ WF_mcVars(Moved(BeginRefresh(r))) /\ WF_mcVars(Moved(Refresh(r)))

=============================================================================
