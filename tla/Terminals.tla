------------------------------- MODULE Terminals -------------------------------
(***************************************************************************)
(* The sessions that keep an SSH connection open for a browser: the web      *)
(* terminal, with its recording, and "Follow live" on the Logs tab. Every    *)
(* way out of a session goes through its finally block; log_event swallows   *)
(* what goes wrong in it, so an entry may be missing.                        *)
(***************************************************************************)
EXTENDS Naturals, FiniteSets

CONSTANTS
    Sessions,    \* the WebSockets opened
    MaxFailures  \* bounds the database errors and the restarts of the web process

TerminalConstants == MaxFailures \in Nat

VARIABLES
    honeypot,     \* its row: there, with a pinned host key
    recordingOn,  \* AppSettings.terminal_recording_enabled
    session,      \* what each handler holds
    connection,   \* its SSH connection as sshd and the process see it
    entries,      \* the audit log's entries about it
    recording,    \* its TerminalRecording: not there, there, or without its honeypot
    failures,
    spoilt        \* the sessions a failure, a restart or a deletion met

terminalVars == <<honeypot, recordingOn, session, connection, entries, recording, failures, spoilt>>

Stages == {"idle", "accepted", "shell", "relaying", "closing", "saving", "logging", "done"}
Handler == [pc : Stages, kind : {"terminal", "logs"},
            recorder : BOOLEAN,      \* the session is recorded
            events : 0..1]           \* the recorder has any

NoSession == [pc |-> "idle", kind |-> "logs", recorder |-> FALSE, events |-> 0]

TerminalTypeOK ==
    /\ honeypot \in BOOLEAN /\ recordingOn \in BOOLEAN
    /\ session \in [Sessions -> Handler]
    /\ connection \in [Sessions -> {"none", "up", "closed"}]
    /\ entries \in [Sessions -> SUBSET {"open", "close", "view"}]
    /\ recording \in [Sessions -> {"none", "kept", "orphan"}]
    /\ failures \in 0..MaxFailures
    /\ spoilt \in SUBSET Sessions

TerminalInit ==
    /\ honeypot = TRUE /\ recordingOn \in BOOLEAN
    /\ session = [s \in Sessions |-> NoSession]
    /\ connection = [s \in Sessions |-> "none"]
    /\ entries = [s \in Sessions |-> {}]
    /\ recording = [s \in Sessions |-> "none"]
    /\ failures = 0 /\ spoilt = {}

Reached(s, pc) == session[s].pc = pc
Go(s, pc) == session' = [session EXCEPT ![s].pc = pc]
Failing == failures < MaxFailures /\ failures' = failures + 1

\* log_event: an entry, or none when the database fails; never an error.
LogEvent(s, entry) ==
    \/ /\ entries' = [entries EXCEPT ![s] = @ \cup {entry}]
       /\ UNCHANGED <<failures, spoilt>>
    \/ Failing /\ spoilt' = spoilt \cup {s} /\ UNCHANGED entries

-----------------------------------------------------------------------------
\* _authenticate reads the row and the settings; a refused socket is closed
\* before it is accepted.
Accept(s, kind) ==
    /\ Reached(s, "idle") /\ honeypot
    /\ session' = [session EXCEPT ![s] =
          [NoSession EXCEPT !.pc = "accepted", !.kind = kind,
                            !.recorder = recordingOn /\ kind = "terminal"]]
    /\ UNCHANGED <<honeypot, recordingOn, connection, entries, recording, failures, spoilt>>

\* open_connection: up, refused, or another key than the pinned one.
OpenConnection(s) ==
    /\ Reached(s, "accepted")
    /\ \/ Go(s, IF session[s].kind = "terminal" THEN "shell" ELSE "relaying")
          /\ connection' = [connection EXCEPT ![s] = "up"]
          /\ IF session[s].kind = "logs" THEN LogEvent(s, "open")
             ELSE UNCHANGED <<entries, failures, spoilt>>
       \/ Go(s, "done") /\ UNCHANGED <<connection, entries, failures, spoilt>>
    /\ UNCHANGED <<honeypot, recordingOn, recording>>

\* Mutant of StartShell: a shell that does not start keeps its connection.
StartShellLeaks(s) ==
    /\ Reached(s, "shell")
    /\ \/ /\ Go(s, "relaying")
          /\ UNCHANGED connection
          /\ LogEvent(s, "open")
       \/ Go(s, "done") /\ UNCHANGED <<connection, entries, failures, spoilt>>
    /\ UNCHANGED <<honeypot, recordingOn, recording>>
\* open_shell_session's other half closes the connection if no shell starts.
StartShell(s) ==
    /\ Reached(s, "shell")
    /\ \/ /\ Go(s, "relaying")
          /\ UNCHANGED connection
          /\ LogEvent(s, "open")
       \/ /\ Go(s, "done")
          /\ connection' = [connection EXCEPT ![s] = "closed"]
          /\ UNCHANGED <<entries, failures, spoilt>>
    /\ UNCHANGED <<honeypot, recordingOn, recording>>

\* Output goes to the browser and the recorder; a resize to the recorder too.
Relay(s) ==
    /\ Reached(s, "relaying") /\ session[s].recorder /\ session[s].events = 0
    /\ session' = [session EXCEPT ![s].events = 1]
    /\ UNCHANGED <<honeypot, recordingOn, connection, entries, recording, failures, spoilt>>

\* The output ends, the browser leaves, the time limit comes or sending fails.
End(s) ==
    /\ Reached(s, "relaying") /\ Go(s, "closing")
    /\ UNCHANGED <<honeypot, recordingOn, connection, entries, recording, failures, spoilt>>

\* The finally block: the connection first,
CloseConnection(s) ==
    /\ Reached(s, "closing")
    /\ connection' = [connection EXCEPT ![s] = "closed"]
    /\ Go(s, IF session[s].recorder THEN "saving" ELSE "logging")
    /\ UNCHANGED <<honeypot, recordingOn, entries, recording, failures, spoilt>>

\* then the recording, which needs the honeypot's row for its foreign key and
\* is given up without a word,
SaveRecording(s) ==
    /\ Reached(s, "saving") /\ Go(s, "logging")
    /\ \/ /\ recording' = [recording EXCEPT ![s] =
                IF honeypot /\ session[s].events > 0 THEN "kept" ELSE @]
          /\ UNCHANGED <<failures, spoilt>>
       \/ Failing /\ spoilt' = spoilt \cup {s} /\ UNCHANGED recording
    /\ UNCHANGED <<honeypot, recordingOn, connection, entries>>

\* then the end of the session in the log.
LogClose(s) ==
    /\ Reached(s, "logging") /\ Go(s, "done") /\ LogEvent(s, "close")
    /\ UNCHANGED <<honeypot, recordingOn, connection, recording>>

-----------------------------------------------------------------------------
\* Watching a recording, or reading it through the API, is logged before it
\* is answered.
Watch(s) ==
    /\ recording[s] # "none" /\ "view" \notin entries[s]
    /\ LogEvent(s, "view")
    /\ UNCHANGED <<honeypot, recordingOn, session, connection, recording>>
WatchApi(s) == Watch(s)

SetRecording ==
    /\ recordingOn' = ~recordingOn
    /\ UNCHANGED <<honeypot, session, connection, entries, recording, failures, spoilt>>

\* ON DELETE SET NULL keeps the recordings there are; the sessions go on.
HoneypotGoes ==
    /\ honeypot /\ honeypot' = FALSE
    /\ recording' = [s \in Sessions |-> IF recording[s] = "kept" THEN "orphan" ELSE recording[s]]
    /\ spoilt' = spoilt \cup {s \in Sessions : session[s].pc \notin {"idle", "done"}}
    /\ UNCHANGED <<recordingOn, session, connection, entries, failures>>

\* The connections end with the process; nothing else is done for them.
WebRestarts ==
    /\ Failing
    /\ LET open == {s \in Sessions : session[s].pc \notin {"idle", "done"}}
       IN /\ open # {}
          /\ spoilt' = spoilt \cup open
          /\ session' = [s \in Sessions |->
                IF s \in open THEN [session[s] EXCEPT !.pc = "done"] ELSE session[s]]
          /\ connection' = [s \in Sessions |->
                IF connection[s] = "up" THEN "closed" ELSE connection[s]]
    /\ UNCHANGED <<honeypot, recordingOn, entries, recording>>

TerminalNext ==
    \/ \E s \in Sessions :
          \/ \E kind \in {"terminal", "logs"} : Accept(s, kind)
          \/ OpenConnection(s) \/ StartShell(s) \/ Relay(s) \/ End(s)
          \/ CloseConnection(s) \/ SaveRecording(s) \/ LogClose(s)
          \/ Watch(s) \/ WatchApi(s)
    \/ SetRecording \/ HoneypotGoes \/ WebRestarts
TerminalSpec == TerminalInit /\ [][TerminalNext]_terminalVars

-----------------------------------------------------------------------------
\* However a session ended, it left no SSH connection open ("there is never a
\* leaked SSH connection on any exit path"), its end is in the log if its
\* beginning is, and what it showed is kept if it was recorded, whatever was
\* switched meanwhile (short of a failure or a deletion that met it).
NothingLeftOpen ==
    \A s \in Sessions : session[s].pc = "done" =>
        /\ connection[s] # "up"
        /\ s \notin spoilt =>
              /\ "open" \in entries[s] <=> "close" \in entries[s]
              /\ session[s].events > 0 => recording[s] # "none"

=============================================================================
