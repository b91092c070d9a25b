------------------------------ MODULE AuditChain ------------------------------
(***************************************************************************)
(* The hash-chained audit log: concurrent writers in any process           *)
(* (log_event, serialised by FOR UPDATE on the one AuditChainState row),   *)
(* the retention purge that deletes in batches, and verify_chain, which    *)
(* reads the entries and then the tip.                                     *)
(*                                                                         *)
(* SHA-256 is taken to be injective: an entry's hash covers its random id, *)
(* so the event's number stands for it, and recomputing it from the stored *)
(* row gives the same value exactly when the row was not altered and       *)
(* follows the same previous hash.                                         *)
(***************************************************************************)
EXTENDS Integers, FiniteSets

CONSTANTS
    Writers,      \* requests and tasks that call log_event
    MaxEvents,    \* bounds the calls of log_event
    MaxClock,     \* bounds the clock
    Retention,    \* audit_log_retention_days, in clock units
    BatchSize,    \* _DELETE_BATCH_SIZE
    MaxPurges,    \* bounds the daily purges (0: no retention configured)
    MaxFailures,  \* bounds the writes that fail and the tasks that die
    MaxDamage     \* bounds the rows altered or removed behind the app's back

ASSUME ConstantsAssumption ==
    /\ MaxEvents \in Nat /\ MaxClock \in Nat /\ Retention \in Nat
    /\ BatchSize \in Nat \ {0}
    /\ MaxPurges \in Nat /\ MaxFailures \in Nat /\ MaxDamage \in Nat

VARIABLES
    clock,     \* datetime.now(UTC)
    events,    \* how often log_event was called
    entries,   \* the rows of audit_log_entries
    chain,     \* the AuditChainState row (row = FALSE: not created yet)
    pc,        \* where w is in log_event,
    entryId,   \* the entry_id it drew,
    createdAt, \* its created_at,
    seen,      \* and the tip it read
    purge,     \* the retention purge
    verify,    \* the last or current run of verify_chain
    history    \* what has happened, for the properties

writer == <<pc, entryId, createdAt, seen>>
vars == <<clock, events, entries, chain, writer, purge, verify, history>>

NoHash == 0
Ids == 1..MaxEvents
Hashes == {NoHash} \cup Ids
Tip == [row : BOOLEAN, last : Hashes, count : Nat]
Entry == [id : Ids, at : 0..MaxClock, seq : Nat, prev : Hashes, altered : BOOLEAN]

WriterPcs == {"idle", "selecting", "creating", "locked"}
EmptyTip == [row |-> FALSE, last |-> NoHash, count |-> 0]

Init ==
    /\ clock = 0
    /\ events = 0
    /\ entries = {}
    /\ chain = EmptyTip
    /\ pc = [w \in Writers |-> "idle"]
    /\ entryId = [w \in Writers |-> NoHash]
    /\ createdAt = [w \in Writers |-> 0]
    /\ seen = [w \in Writers |-> EmptyTip]
    /\ purge = [pc |-> "idle", cutoff |-> 0, deleted |-> FALSE, runs |-> 0]
    /\ verify = [pc |-> "idle", rows |-> {}, ok |-> TRUE, tip |-> EmptyTip, raced |-> FALSE]
    /\ history = [failed |-> {}, purged |-> {}, damaged |-> {}]

\* Retention is counted in days: no call of log_event lasts that long.
Tick ==
    /\ clock < MaxClock
    /\ \A w \in Writers : pc[w] # "idle" => clock - createdAt[w] < Retention
    /\ clock' = clock + 1
    /\ UNCHANGED <<events, entries, chain, writer, purge, verify, history>>

-----------------------------------------------------------------------------
(* log_event *)

\* created_at is taken here, before the lock is asked for.
Begin(w) ==
    /\ pc[w] = "idle"
    /\ events < MaxEvents
    /\ events' = events + 1
    /\ pc' = [pc EXCEPT ![w] = "selecting"]
    /\ entryId' = [entryId EXCEPT ![w] = events + 1]
    /\ createdAt' = [createdAt EXCEPT ![w] = clock]
    /\ UNCHANGED seen

LogEvent(w) ==
    /\ Begin(w)
    /\ UNCHANGED <<clock, entries, chain, purge, verify, history>>

\* Nobody else holds the row lock (or the uncommitted insert of the row).
Unlocked == \A v \in Writers : pc[v] # "locked"

\* SELECT ... FOR UPDATE: waits for the lock, then sees the committed row.
LockTip(w) ==
    /\ pc[w] = "selecting"
    /\ chain.row
    /\ Unlocked
    /\ pc' = [pc EXCEPT ![w] = "locked"]
    /\ seen' = [seen EXCEPT ![w] = chain]
    /\ UNCHANGED <<clock, events, entries, chain, entryId, createdAt, purge, verify, history>>

\* ... or finds no row, and locks nothing.
FindNoTip(w) ==
    /\ pc[w] = "selecting"
    /\ ~chain.row
    /\ pc' = [pc EXCEPT ![w] = "creating"]
    /\ UNCHANGED <<clock, events, entries, chain, entryId, createdAt, seen, purge, verify, history>>

\* The INSERT waits for another writer's uncommitted one, then either goes
\* through or violates the primary key; a violation selects again.
CreateTip(w) ==
    /\ pc[w] = "creating"
    /\ Unlocked
    /\ \/ chain.row /\ pc' = [pc EXCEPT ![w] = "selecting"]
       \/ ~chain.row /\ pc' = [pc EXCEPT ![w] = "locked"]
    /\ UNCHANGED <<clock, events, entries, chain, entryId, createdAt, seen, purge, verify, history>>

\* Mutant of NewEntry: the link to the previous entry is left out.
UnlinkedEntry(w) ==
    [id |-> entryId[w], at |-> createdAt[w], seq |-> seen[w].count + 1,
     prev |-> NoHash, altered |-> FALSE]
NewEntry(w) ==
    [id |-> entryId[w], at |-> createdAt[w], seq |-> seen[w].count + 1,
     prev |-> seen[w].last, altered |-> FALSE]

\* sequence is unique: a second row of the same number cannot be inserted.
SequenceTaken(n) == \E e \in entries : e.seq = n

\* The call returns.
Return(w) ==
    /\ pc' = [pc EXCEPT ![w] = "idle"]
    /\ entryId' = [entryId EXCEPT ![w] = NoHash]
    /\ createdAt' = [createdAt EXCEPT ![w] = 0]
    /\ seen' = [seen EXCEPT ![w] = EmptyTip]

\* Whatever goes wrong is swallowed: the event is lost, the caller goes on.
GiveUp(w) ==
    /\ Return(w)
    /\ history' = [history EXCEPT !.failed = @ \cup {entryId[w]}]
    /\ UNCHANGED <<clock, events, entries, chain, purge, verify>>

\* Entry and new tip in one commit, which releases the lock; a sequence
\* number that is taken makes the insert fail.
CommitEntry(w) ==
    LET e == NewEntry(w) IN
    /\ pc[w] = "locked"
    /\ IF SequenceTaken(e.seq)
       THEN GiveUp(w)
       ELSE /\ entries' = entries \cup {e}
            /\ chain' = [row |-> TRUE, last |-> e.id, count |-> e.seq]
            /\ Return(w)
            /\ UNCHANGED <<clock, events, purge, verify, history>>

\* The database refuses, or the process dies: its transaction rolls back.
WriteFails(w) ==
    /\ pc[w] # "idle"
    /\ Cardinality(history.failed) < MaxFailures
    /\ GiveUp(w)

-----------------------------------------------------------------------------
(* _purge_old_audit_log_entries *)

BeginPurge ==
    /\ purge.pc = "idle"
    /\ purge.runs < MaxPurges
    /\ purge' = [pc |-> "purging", cutoff |-> clock - Retention, deleted |-> FALSE,
                 runs |-> purge.runs + 1]
    /\ UNCHANGED <<clock, events, entries, chain, writer, verify, history>>

Expired == {e \in entries : e.at < purge.cutoff}

\* The rows of one batch: up to BatchSize of the expired ones, the oldest
\* created_at first (rows of the same instant in any order).
IsOldestBatch(D) ==
    /\ D \subseteq Expired
    /\ \/ Cardinality(D) = BatchSize
       \/ D = Expired /\ Cardinality(D) < BatchSize
    /\ \A e \in D, f \in Expired \ D : e.at <= f.at

DeleteBatch(D) ==
    /\ purge.pc = "purging"
    /\ D # {}
    /\ IsOldestBatch(D)
    /\ entries' = entries \ D
    /\ purge' = [purge EXCEPT !.deleted = TRUE]
    /\ history' = [history EXCEPT !.purged = @ \cup {e.id : e \in D}]
    /\ UNCHANGED <<clock, events, chain, writer, verify>>

\* Nothing left: the purge is itself an audited event when it deleted rows.
EndPurge(w) ==
    /\ purge.pc = "purging"
    /\ Expired = {}
    /\ purge' = [pc |-> "idle", cutoff |-> 0, deleted |-> FALSE, runs |-> purge.runs]
    /\ IF purge.deleted THEN Begin(w) ELSE UNCHANGED <<events, writer>>
    /\ UNCHANGED <<clock, entries, chain, verify, history>>

\* The task dies between two batches, or before its event is logged.
PurgeDies ==
    /\ purge.pc = "purging"
    /\ purge' = [pc |-> "idle", cutoff |-> 0, deleted |-> FALSE, runs |-> purge.runs]
    /\ UNCHANGED <<clock, events, entries, chain, writer, verify, history>>

-----------------------------------------------------------------------------
(* verify_chain *)

\* All entries are read in one statement; none at all is fine.
VerifyRead ==
    /\ verify.pc = "idle"
    /\ verify' = [pc |-> IF entries = {} THEN "idle" ELSE "read", rows |-> entries,
                  ok |-> TRUE, tip |-> chain, raced |-> FALSE]
    /\ UNCHANGED <<clock, events, entries, chain, writer, purge, history>>

Follows(e, f) == e.seq = f.seq + 1 /\ e.prev = f.id

\* Mutant of Intact: a gap in the numbers is not looked for.
IntactIgnoringGaps(R) ==
    \A e \in R : ~e.altered /\ \A f \in R : e.seq = f.seq + 1 => e.prev = f.id

\* The walk, in sequence order: numbers without a gap, each entry linked to
\* the one before it, the first to nothing, and every hash recomputed.
Intact(R) ==
    \A e \in R :
        /\ ~e.altered
        /\ \/ \E f \in R : Follows(e, f)
           \/ e.prev = NoHash /\ \A f \in R : e.seq <= f.seq

Newest(R) == CHOOSE e \in R : \A f \in R : f.seq <= e.seq

TipMatches(R) == chain.row => chain.last = Newest(R).id

\* The tip is read by a second statement, after the walk.
VerifyTip ==
    /\ verify.pc = "read"
    /\ verify' = [verify EXCEPT !.pc = "idle",
           !.ok = Intact(verify.rows) /\ TipMatches(verify.rows),
           !.raced = verify.tip # chain, !.tip = chain]
    /\ UNCHANGED <<clock, events, entries, chain, writer, purge, history>>

-----------------------------------------------------------------------------
(* Rows altered or removed by something other than this code. *)

Alter(e) ==
    /\ e \in entries /\ ~e.altered
    /\ Cardinality(history.damaged) < MaxDamage
    /\ entries' = (entries \ {e}) \cup {[e EXCEPT !.altered = TRUE]}
    /\ history' = [history EXCEPT !.damaged = @ \cup {e.id}]
    /\ UNCHANGED <<clock, events, chain, writer, purge, verify>>

TakeOut(e) ==
    /\ e \in entries
    /\ Cardinality(history.damaged) < MaxDamage
    /\ entries' = entries \ {e}
    /\ history' = [history EXCEPT !.damaged = @ \cup {e.id}]
    /\ UNCHANGED <<clock, events, chain, writer, purge, verify>>

-----------------------------------------------------------------------------
Write(w) ==
    LockTip(w) \/ FindNoTip(w) \/ CreateTip(w) \/ CommitEntry(w)

Next ==
    \/ Tick
    \/ \E w \in Writers : LogEvent(w) \/ Write(w) \/ WriteFails(w) \/ EndPurge(w)
    \/ BeginPurge
    \/ \E D \in SUBSET entries : DeleteBatch(D)
    \/ PurgeDies
    \/ VerifyRead
    \/ VerifyTip
    \/ \E e \in entries : Alter(e) \/ TakeOut(e)

Spec == Init /\ [][Next]_vars

-----------------------------------------------------------------------------
(* Properties *)

TypeOK ==
    /\ clock \in 0..MaxClock
    /\ events \in 0..MaxEvents
    /\ entries \subseteq Entry
    /\ chain \in Tip
    /\ pc \in [Writers -> WriterPcs]
    /\ entryId \in [Writers -> Hashes]
    /\ createdAt \in [Writers -> 0..MaxClock]
    /\ seen \in [Writers -> Tip]
    /\ purge \in [pc : {"idle", "purging"}, cutoff : Int, deleted : BOOLEAN, runs : 0..MaxPurges]
    /\ verify \in [pc : {"idle", "read"}, rows : SUBSET Entry, ok : BOOLEAN,
                   tip : Tip, raced : BOOLEAN]
    /\ history \in [failed : SUBSET Ids, purged : SUBSET Ids, damaged : SUBSET Ids]

\* Two concurrent entries never link to the same previous hash, every entry
\* links to the one written before it, and the tip is the newest entry's.
ChainLinked ==
    /\ \A e, f \in entries : e.seq = f.seq => e = f
    /\ \A e, f \in entries : e.seq = f.seq + 1 => e.prev = f.id
    /\ \A e \in entries : e.seq = 1 <=> e.prev = NoHash
    /\ \A e \in entries : e.seq <= chain.count /\ (e.seq = chain.count <=> e.id = chain.last)

\* Numbers are given out without a gap: as long as nothing was purged or
\* removed, entries 1 to entry_count are all there, whatever failed.
NoGap ==
    history.purged \cup history.damaged = {} =>
        {e.seq : e \in entries} = 1..chain.count

\* Writers never run into each other: an event is lost only to a failure of
\* the database or the process, so at most MaxFailures of them.
OnlyFailuresLoseEvents == Cardinality(history.failed) <= MaxFailures

\* verify_chain vouches for nothing less than all that was ever committed:
\* when it says the chain is intact, no entry it read was altered and none up
\* to the tip it read is missing.
VouchedIsComplete ==
    verify.pc = "idle" /\ verify.ok /\ verify.rows # {} =>
        /\ \A e \in verify.rows : ~e.altered
        /\ {e.seq : e \in verify.rows} = 1..verify.tip.count

\* A verification no writer raced with finds a log that was only ever written
\* and purged by this code intact.
QuietVerifyPasses ==
    verify.pc = "idle" /\ ~verify.raced /\ history.damaged = {} => verify.ok

=============================================================================
