----------------------------- MODULE Initialize ------------------------------
(***************************************************************************)
(* Initialize: provisioning a fresh device over SSH (routes/initialize.py,   *)
(* initialize_ws.py, api_v1_initialize.py and the script of                  *)
(* ssh/initialize.py).                                                       *)
(*                                                                         *)
(* A form waits in PENDING_RUNS until its page opens the WebSocket; an API   *)
(* call starts at once. A run discovers the host key, detects the platform,  *)
(* runs the script over a connection pinned to that key, and waits for the   *)
(* device to come back on its new port. Giving up a run does not stop its    *)
(* script, and nothing keeps two runs off one device: the first one's reboot *)
(* ends the other one's script.                                              *)
(***************************************************************************)
EXTENDS Naturals

CONSTANTS InitRuns, Devices, Ports, FirstPort, NoDevice,
          MaxMoves  \* bound: times another machine takes the address

VARIABLES
    form,       \* PENDING_RUNS, and what became of a form
    initRun,    \* runs in progress
    script,     \* what is left of a run's script on its machine
    history,    \* initialize_runs, success or failure
    port,       \* the port each machine's sshd listens on
    power,      \* each machine: on, about to reboot, booting
    answering,  \* the machine the address leads to, or NoDevice
    moves,
    ran,        \* history: runs whose script reached its last line
    rebooted,   \* history: runs whose machine rebooted after that
    early       \* history: runs that probed before the reboot had begun

initializeVars == <<form, initRun, script, history, port, power, answering, moves,
                    ran, rebooted, early>>
device == <<port, power, answering, moves>>

InitStages == {"discover", "detect", "open", "running", "waiting"}
RunRow == [stage : InitStages, key : Devices \cup {NoDevice}, asked : Ports]
ScriptRow == [at : {"preparing", "port", "marker", "reboot", "over", "failed", "killed"},
              machine : Devices, asked : Ports]

InitializeConstants ==
    /\ NoDevice \notin RunRow \cup ScriptRow \cup Devices
    /\ FirstPort \in Ports
    /\ MaxMoves \in Nat

InitializeTypeOK ==
    /\ form \in [InitRuns -> {"none", "fresh", "stale", "taken"}]
    /\ initRun \in [InitRuns -> RunRow \cup {NoDevice}]
    /\ script \in [InitRuns -> ScriptRow \cup {NoDevice}]
    /\ history \in [InitRuns -> {"none", "success", "failure", "lost"}]
    /\ port \in [Devices -> Ports]
    /\ power \in [Devices -> {"on", "rebooting", "booting"}]
    /\ answering \in Devices \cup {NoDevice}
    /\ moves \in 0..MaxMoves
    /\ ran \subseteq InitRuns /\ rebooted \subseteq InitRuns /\ early \subseteq InitRuns

InitializeInit ==
    /\ form = [r \in InitRuns |-> "none"] /\ history = [r \in InitRuns |-> "none"]
    /\ initRun = [r \in InitRuns |-> NoDevice] /\ script = [r \in InitRuns |-> NoDevice]
    /\ port = [d \in Devices |-> FirstPort] /\ power = [d \in Devices |-> "on"]
    /\ answering \in Devices
    /\ moves = 0
    /\ ran = {} /\ rebooted = {} /\ early = {}

-----------------------------------------------------------------------------
\* Starting a run

\* A form that waited too long goes when the next one comes in or a page is
\* opened; its own page may still claim it first.
Purged == [r \in InitRuns |-> IF form[r] = "stale" THEN "taken" ELSE form[r]]

SubmitForm(r) ==
    /\ form[r] = "none"
    /\ form' = [Purged EXCEPT ![r] = "fresh"]
    /\ UNCHANGED <<initRun, script, history, device, ran, rebooted, early>>

Ages(r) ==
    /\ form[r] = "fresh"
    /\ form' = [form EXCEPT ![r] = "stale"]
    /\ UNCHANGED <<initRun, script, history, device, ran, rebooted, early>>

OpenPage ==
    /\ form' = Purged
    /\ UNCHANGED <<initRun, script, history, device, ran, rebooted, early>>

InitBegins(r, asked) ==
    /\ form' = [form EXCEPT ![r] = "taken"]
    /\ initRun' = [initRun EXCEPT ![r] =
          [stage |-> "discover", key |-> NoDevice, asked |-> asked]]
    /\ UNCHANGED <<script, history, device, ran, rebooted, early>>

\* The WebSocket of the account that filled in the form; a run goes to the
\* first one only.
Claim(r, asked) == form[r] \in {"fresh", "stale"} /\ InitBegins(r, asked)
StartApi(r, asked) == form[r] = "none" /\ InitBegins(r, asked)

-----------------------------------------------------------------------------
\* The run

InitAt(r, stage) == initRun[r] # NoDevice /\ initRun[r].stage = stage

\* A machine answers on this port at the device's address.
AnswersOn(d, p) == answering = d /\ power[d] # "booting" /\ port[d] = p

Goes(r, stage) ==
    /\ initRun' = [initRun EXCEPT ![r].stage = stage]
    /\ UNCHANGED <<form, script, history, device, ran, rebooted, early>>

\* done, the audit log and the history, whatever happened.
Recorded(r, verdict) ==
    /\ initRun' = [initRun EXCEPT ![r] = NoDevice]
    /\ history' = [history EXCEPT ![r] = verdict]
    /\ UNCHANGED <<form, script, device, ran, rebooted>>

Fails(r) == Recorded(r, "failure") /\ UNCHANGED early

Discover(r, d) ==
    /\ InitAt(r, "discover") /\ AnswersOn(d, FirstPort)
    /\ initRun' = [initRun EXCEPT ![r].key = d, ![r].stage = "detect"]
    /\ UNCHANGED <<form, script, history, device, ran, rebooted, early>>

\* Connections after the first are pinned to the key it showed.
Detect(r) == InitAt(r, "detect") /\ AnswersOn(initRun[r].key, FirstPort) /\ Goes(r, "open")

OpenScript(r) ==
    /\ InitAt(r, "open") /\ AnswersOn(initRun[r].key, FirstPort)
    /\ initRun' = [initRun EXCEPT ![r].stage = "running"]
    /\ script' = [script EXCEPT ![r] = [at |-> "preparing", machine |-> initRun[r].key,
                                        asked |-> initRun[r].asked]]
    /\ UNCHANGED <<form, history, device, ran, rebooted, early>>

\* Refused, unreachable, another machine, an unsupported platform, a wrong
\* password.
CannotConnect(r) == \E stage \in {"discover", "detect", "open"} : InitAt(r, stage) /\ Fails(r)

\* The browser is gone, the run takes too long, an error, a shutdown that
\* cancels it: never a success, and the script may go on.
Interrupted(r) == initRun[r] # NoDevice /\ Fails(r)

\* The process is killed: nothing is written.
Dies(r) ==
    /\ initRun[r] # NoDevice
    /\ Recorded(r, "lost") /\ UNCHANGED early

\* Mutant of Finished: no exit status passes for zero, as does a real one.
FinishedByStatus(r) == script[r].at \in {"over", "killed"}

\* The script answered zero, and its last line came through.
Finished(r) == script[r].at \in {"over", "killed"} /\ r \in ran

\* The output ends with the script or with the connection.
ScriptEnds(r) ==
    /\ InitAt(r, "running") /\ script[r].at \in {"over", "killed", "failed"}
    /\ IF Finished(r) THEN Goes(r, "waiting") ELSE Fails(r)

SameDevice(r, d) == d = initRun[r].key

\* After the grace period; a reboot that has not begun by then goes unseen.
ComesBack(r, d) ==
    /\ InitAt(r, "waiting") /\ AnswersOn(d, initRun[r].asked)
    /\ Recorded(r, IF SameDevice(r, d) THEN "success" ELSE "failure")
    /\ early' = IF r \in rebooted THEN early ELSE early \cup {r}

-----------------------------------------------------------------------------
\* The script, one line of `set -e' shell after the other

Steps(r, from, to) ==
    /\ script[r] # NoDevice /\ script[r].at = from
    /\ power[script[r].machine] # "booting"
    /\ script' = [script EXCEPT ![r].at = to]
    /\ UNCHANGED <<form, initRun, history, answering, moves, rebooted, early>>

\* Every step guards against "already done".
Prepares(r) == Steps(r, "preparing", "port") /\ UNCHANGED <<port, power, ran>>

\* The drop-in, sshd -t, and only then the restart.
MovesPort(r) ==
    /\ Steps(r, "port", "marker")
    /\ port' = [port EXCEPT ![script[r].machine] = script[r].asked]
    /\ UNCHANGED <<power, ran>>

\* The unit for the new MAC address; then the line a run waits for.
Marks(r) ==
    /\ Steps(r, "marker", "reboot")
    /\ ran' = ran \cup {r}
    /\ UNCHANGED <<port, power>>

AsksForReboot(r) ==
    /\ Steps(r, "reboot", "over")
    /\ power' = [power EXCEPT ![script[r].machine] = "rebooting"]
    /\ UNCHANGED <<port, ran>>

ScriptFails(r) ==
    /\ \E at \in {"preparing", "port", "marker"} : Steps(r, at, "failed")
    /\ UNCHANGED <<port, power, ran>>

ScriptsOn(d) == {r \in InitRuns : script[r] # NoDevice /\ script[r].machine = d}

\* Down: whatever still ran there is over.
Reboots(d) ==
    /\ power[d] = "rebooting"
    /\ power' = [power EXCEPT ![d] = "booting"]
    /\ script' = [r \in InitRuns |->
          IF r \in ScriptsOn(d) /\ script[r].at \notin {"over", "failed"}
          THEN [script[r] EXCEPT !.at = "killed"] ELSE script[r]]
    /\ rebooted' = rebooted \cup (ScriptsOn(d) \cap ran)
    /\ UNCHANGED <<form, initRun, history, port, answering, moves, ran, early>>

Boots(d) ==
    /\ power[d] = "booting"
    /\ power' = [power EXCEPT ![d] = "on"]
    /\ UNCHANGED <<form, initRun, script, history, port, answering, moves, ran, rebooted, early>>

\* A machine with a new MAC address has a new lease, and another one may get
\* the old address; so may a machine put in the other's place.
AddressMoves(d) ==
    /\ moves < MaxMoves /\ moves' = moves + 1
    /\ d # answering /\ answering' = d
    /\ UNCHANGED <<form, initRun, script, history, port, power, ran, rebooted, early>>

InitializeNext ==
    \/ OpenPage
    \/ \E r \in InitRuns :
          \/ SubmitForm(r) \/ Ages(r)
          \/ \E asked \in Ports : Claim(r, asked) \/ StartApi(r, asked)
          \/ Detect(r) \/ OpenScript(r) \/ CannotConnect(r) \/ Interrupted(r) \/ Dies(r)
          \/ ScriptEnds(r)
          \/ Prepares(r) \/ MovesPort(r) \/ Marks(r) \/ AsksForReboot(r) \/ ScriptFails(r)
          \/ \E d \in Devices : Discover(r, d) \/ ComesBack(r, d)
    \/ \E d \in Devices : Reboots(d) \/ Boots(d)
    \/ \E d \in Devices \cup {NoDevice} : AddressMoves(d)

InitializeSpec == InitializeInit /\ [][InitializeNext]_initializeVars

-----------------------------------------------------------------------------
\* A run recorded as a success has had its whole script run on the machine
\* whose key it saw first, and that machine listens on the port it asked for
\* and has rebooted (initialize_ws.py:371-430), as long as fifteen seconds are
\* enough for the reboot to begin: scripts another run's reboot cut short,
\* devices that moved away and runs given up half way are failures.
SuccessIsBack ==
    [][\A r \in InitRuns : history[r] = "none" /\ history'[r] = "success" =>
          /\ r \in ran
          /\ AnswersOn(script[r].machine, script[r].asked)
          /\ r \in rebooted \/ r \in early']_initializeVars

=============================================================================
