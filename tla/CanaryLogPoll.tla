---------------------------- MODULE CanaryLogPoll ----------------------------
(***************************************************************************)
(* Reading one honeypot's OpenCanary log over SSH: poll tasks remember how  *)
(* far they came as a byte offset in the database (_poll_honeypot_canary_log,*)
(* app.ssh.canary_activity); a refresh of the facts moves the path and      *)
(* resets the offset (_refresh_honeypot_facts). Nothing stops two polls, or *)
(* a poll and a refresh, from overlapping.                                  *)
(*                                                                         *)
(* A log line is two bytes long, so that a read can find the last one half  *)
(* written. Every line is a parseable event that is kept.                   *)
(***************************************************************************)
EXTENDS Integers, Sequences

CONSTANTS
    Pollers,       \* poll tasks that may run at the same time
    Refreshers,    \* facts refreshes that may run at the same time
    Paths,         \* where OpenCanary may be configured to log
    FirstPath,
    MaxLines,      \* bounds the lines OpenCanary writes
    MaxRotations,  \* bounds the times a log is rotated or truncated
    MaxMoves,      \* bounds the times OpenCanary is configured to another path
    MaxFailures    \* bounds the polls and refreshes that fail or die

ASSUME ConstantsAssumption ==
    /\ FirstPath \in Paths
    /\ MaxLines \in Nat /\ MaxRotations \in Nat /\ MaxMoves \in Nat
    /\ MaxFailures \in Nat

VARIABLES
    file,       \* file[p]: the bytes of the log at path p
    logging,    \* the path OpenCanary writes to
    written,    \* how many lines were begun
    row,        \* Honeypot.opencanary_log_path and .opencanary_log_offset
    stored,     \* stored[l]: how many HoneypotEvent rows line l has become
    poller,     \* the poll tasks
    refresher,  \* the facts refreshes
    faults      \* rotations, moves and failures so far, the files rotated that

honeypot == <<file, logging, written>>
vars == <<honeypot, row, stored, poller, refresher, faults>>

Lines == 1..MaxLines
Byte == [line : Lines, last : BOOLEAN]
Row == [path : Paths, offset : Nat]
Unknown == -1
NoPoll == [pc |-> "idle", copy |-> [path |-> FirstPath, offset |-> 0],
           start |-> 0, events |-> {}, newOffset |-> 0, saw |-> {}]
NoRefresh == [pc |-> "idle", copy |-> [path |-> FirstPath, offset |-> 0], path |-> FirstPath]

Init ==
    /\ file = [p \in Paths |-> <<>>]
    /\ logging = FirstPath
    /\ written = 0
    /\ row = [path |-> FirstPath, offset |-> 0]
    /\ stored = [l \in Lines |-> 0]
    /\ poller = [p \in Pollers |-> NoPoll]
    /\ refresher = [r \in Refreshers |-> NoRefresh]
    /\ faults = [rotations |-> 0, moves |-> 0, failures |-> 0, unseen |-> {},
                overlapped |-> FALSE, crossed |-> FALSE]

-----------------------------------------------------------------------------
(* The honeypot *)

HalfWritten(f) == f # <<>> /\ ~f[Len(f)].last

\* A rotated log does not outgrow what was read of the old one, nor is it
\* rotated again, before a poll has got to it: nothing in the offset could
\* tell the two apart.
StaysBehind(p) == p \in faults.unseen => Len(file[p]) + 1 < row.offset

EndLine ==
    /\ HalfWritten(file[logging])
    /\ StaysBehind(logging)
    /\ file' = [file EXCEPT ![logging] = Append(@, [line |-> written, last |-> TRUE])]
    /\ UNCHANGED <<logging, written, row, stored, poller, refresher, faults>>

BeginLine ==
    /\ ~HalfWritten(file[logging])
    /\ written < MaxLines
    /\ StaysBehind(logging)
    /\ written' = written + 1
    /\ file' = [file EXCEPT ![logging] = Append(@, [line |-> written + 1, last |-> FALSE])]
    /\ UNCHANGED <<logging, row, stored, poller, refresher, faults>>

Rotate ==
    /\ file[logging] # <<>> /\ ~HalfWritten(file[logging])
    /\ faults.rotations < MaxRotations
    /\ logging \notin faults.unseen
    /\ file' = [file EXCEPT ![logging] = <<>>]
    /\ faults' = [faults EXCEPT !.rotations = @ + 1, !.unseen = @ \cup {logging}]
    /\ UNCHANGED <<logging, written, row, stored, poller, refresher>>

\* OpenCanary is configured to log to another file and restarted.
Move(p) ==
    /\ p # logging /\ ~HalfWritten(file[logging])
    /\ faults.moves < MaxMoves
    /\ logging' = p
    /\ faults' = [faults EXCEPT !.moves = @ + 1]
    /\ UNCHANGED <<file, written, row, stored, poller, refresher>>

-----------------------------------------------------------------------------
(* poll_honeypot_canary_log *)

\* The row is loaded once; path and offset are that copy's from here on.
BeginPoll(p) ==
    /\ poller[p].pc = "idle"
    /\ poller' = [poller EXCEPT ![p] = [NoPoll EXCEPT !.pc = "connecting", !.copy = row]]
    /\ faults' = [faults EXCEPT !.overlapped = @ \/ \E q \in Pollers : poller[q].pc # "idle"]
    /\ UNCHANGED <<honeypot, row, stored, refresher>>

\* Mutants of StartOf: -le for -lt; a shrunk file is not noticed.
StartOfOrEqual(size, offset) == IF size <= offset THEN 0 ELSE offset
StartAtOffset(size, offset) == offset

\* A file smaller than the offset was rotated or truncated: read it from 0.
StartOf(size, offset) == IF size < offset THEN 0 ELSE offset

\* The remote command's first half: stat.
Stat(p) ==
    LET copy == poller[p].copy IN
    /\ poller[p].pc = "connecting"
    /\ poller' = [poller EXCEPT ![p].pc = "reading",
                                ![p].start = StartOf(Len(file[copy.path]), copy.offset),
                                ![p].saw = {copy.path} \cap faults.unseen]
    /\ UNCHANGED <<honeypot, row, stored, refresher, faults>>

\* Where the lines end that lie behind start.
Ends(f, start) == {i \in (start + 1)..Len(f) : f[i].last}

\* Mutant of NewOffset: the line still being written counts as read.
AllOf(f, start) == IF Len(f) > start THEN Len(f) ELSE start

\* Only complete lines count as read.
NewOffset(f, start) ==
    CHOOSE n \in Ends(f, start) \cup {start} : \A i \in Ends(f, start) : i <= n

\* The lines read in full: a read that starts inside a line finds a torn one,
\* which does not parse.
Events(f, start) == {f[i].line : i \in {j \in Ends(f, start) : j - 1 > start}}

\* ... its second half: tail.
ReadNew(p) ==
    LET f == file[poller[p].copy.path] IN
    /\ poller[p].pc = "reading"
    /\ poller' = [poller EXCEPT ![p].pc = "storing",
           ![p].events = Events(f, poller[p].start),
           ![p].newOffset = NewOffset(f, poller[p].start)]
    /\ UNCHANGED <<honeypot, row, stored, refresher, faults>>

\* ... whose output breaks off before the marker that names its start: no
\* line is parsed and the new offset is unknown.
ReadBroken(p) ==
    /\ poller[p].pc = "reading"
    /\ faults.failures < MaxFailures
    /\ poller' = [poller EXCEPT ![p].pc = "storing", ![p].newOffset = Unknown]
    /\ faults' = [faults EXCEPT !.failures = @ + 1]
    /\ UNCHANGED <<honeypot, row, stored, refresher>>

\* An unknown offset is not stored; the flush writes a known one only when it
\* differs from the copy's.
OffsetAfter(p) ==
    IF poller[p].newOffset \in {Unknown, poller[p].copy.offset}
    THEN row.offset ELSE poller[p].newOffset

\* Events and offset in one commit.
StoreEvents(p) ==
    /\ poller[p].pc = "storing"
    /\ stored' = [l \in Lines |-> IF l \in poller[p].events THEN stored[l] + 1 ELSE stored[l]]
    /\ row' = [row EXCEPT !.offset = OffsetAfter(p)]
    /\ poller' = [poller EXCEPT ![p] = NoPoll]
    /\ faults' = [faults EXCEPT !.unseen =
           IF poller[p].newOffset = Unknown THEN @ ELSE @ \ poller[p].saw]
    /\ UNCHANGED <<honeypot, refresher>>

\* No connection, or the worker dies: nothing is stored.
PollFails(p) ==
    /\ poller[p].pc # "idle"
    /\ faults.failures < MaxFailures
    /\ poller' = [poller EXCEPT ![p] = NoPoll]
    /\ faults' = [faults EXCEPT !.failures = @ + 1]
    /\ UNCHANGED <<honeypot, row, stored, refresher>>

-----------------------------------------------------------------------------
(* refresh_honeypot_facts, as far as it is about the log *)

BeginRefresh(r) ==
    /\ refresher[r].pc = "idle"
    /\ refresher' = [refresher EXCEPT ![r] = [NoRefresh EXCEPT !.pc = "gathering", !.copy = row]]
    /\ faults' = [faults EXCEPT !.crossed = @ \/ \E q \in Refreshers : refresher[q].pc # "idle"]
    /\ UNCHANGED <<honeypot, row, stored, poller>>

GatherFacts(r) ==
    /\ refresher[r].pc = "gathering"
    /\ refresher' = [refresher EXCEPT ![r].pc = "saving", ![r].path = logging]
    /\ UNCHANGED <<honeypot, row, stored, poller, faults>>

\* Another path starts at offset 0; the flush writes what differs from the copy.
RowAfter(r) ==
    LET copy == refresher[r].copy IN
    IF refresher[r].path = copy.path THEN row
    ELSE [path |-> refresher[r].path, offset |-> IF copy.offset = 0 THEN row.offset ELSE 0]

SaveFacts(r) ==
    /\ refresher[r].pc = "saving"
    /\ row' = RowAfter(r)
    /\ refresher' = [refresher EXCEPT ![r] = NoRefresh]
    /\ UNCHANGED <<honeypot, stored, poller, faults>>

\* No connection, or the worker dies.
RefreshFails(r) ==
    /\ refresher[r].pc # "idle"
    /\ faults.failures < MaxFailures
    /\ refresher' = [refresher EXCEPT ![r] = NoRefresh]
    /\ faults' = [faults EXCEPT !.failures = @ + 1]
    /\ UNCHANGED <<honeypot, row, stored, poller>>

-----------------------------------------------------------------------------
Poll(p) == Stat(p) \/ ReadNew(p) \/ StoreEvents(p)
Refresh(r) == GatherFacts(r) \/ SaveFacts(r)

Next ==
    \/ EndLine \/ BeginLine \/ Rotate
    \/ \E p \in Paths : Move(p)
    \/ \E p \in Pollers : BeginPoll(p) \/ Poll(p) \/ ReadBroken(p) \/ PollFails(p)
    \/ \E r \in Refreshers : BeginRefresh(r) \/ Refresh(r) \/ RefreshFails(r)

Spec == Init /\ [][Next]_vars

\* Beat starts polls and refreshes again and again and live ones go on.
FairSpec ==
    /\ Spec
    /\ \A p \in Pollers : WF_vars(BeginPoll(p)) /\ WF_vars(Poll(p))
    /\ \A r \in Refreshers : WF_vars(BeginRefresh(r)) /\ WF_vars(Refresh(r))

-----------------------------------------------------------------------------
(* Properties *)

PollTask ==
    [pc : {"idle", "connecting", "reading", "storing"}, copy : Row, start : Nat,
     events : SUBSET Lines, newOffset : Nat \cup {Unknown}, saw : SUBSET Paths]
RefreshTask == [pc : {"idle", "gathering", "saving"}, copy : Row, path : Paths]
Faults ==
    [rotations : 0..MaxRotations, moves : 0..MaxMoves, failures : 0..MaxFailures,
     unseen : SUBSET Paths, overlapped : BOOLEAN, crossed : BOOLEAN]

TypeOK ==
    /\ file \in [Paths -> Seq(Byte)]
    /\ logging \in Paths
    /\ written \in 0..MaxLines
    /\ row \in Row
    /\ stored \in [Lines -> Nat]
    /\ poller \in [Pollers -> PollTask]
    /\ refresher \in [Refreshers -> RefreshTask]
    /\ faults \in Faults

\* A line becomes at most one event ("a poll never re-parses (and re-counts)
\* a line it already saw", app/ssh/canary_activity.py), through failed polls,
\* half-written lines, rotations and one move to another path, as long as polls
\* did not overlap. A second move may lead back to a path whose offset was
\* forgotten, and one of two refreshes that overlap may reset the offset late:
\* both read lines again.
EachLineOnce ==
    ~faults.overlapped /\ faults.moves <= 1 /\ (faults.crossed => faults.moves = 0) =>
        \A l \in Lines : stored[l] <= 1

\* Polls that overlapped each other and a rotation may lose lines.
InOrder == ~faults.overlapped \/ faults.rotations = 0

\* The offset never claims a line that was not stored: whatever is complete
\* below it in the file it belongs to has become an event. Overlapping polls
\* may move the offset back, never past an unread line.
OffsetIsHonest ==
    LET f == file[row.path] IN
    InOrder /\ row.offset <= Len(f) =>
        \A i \in 1..row.offset : f[i].last => stored[f[i].line] > 0

\* So it is as long as OpenCanary is not configured to log elsewhere.
NothingSkipped == faults.moves = 0 => OffsetIsHonest

Complete(l) == \E i \in 1..Len(file[logging]) : file[logging][i] = [line |-> l, last |-> TRUE]

\* Every complete line becomes an event, unless the log is rotated first or was
\* moved: no order of polls, failures, half-written lines and rotations makes
\* the reading stop for good.
EventuallyStored ==
    \A l \in Lines : Complete(l) ~>
        (stored[l] > 0 \/ ~Complete(l) \/ ~InOrder \/ faults.moves > 0)

=============================================================================
