--------------------------- MODULE AuditChainProofs ---------------------------
(* The hash chain holds together for any number of writers, any failures,   *)
(* purges and damaged rows.                                                 *)
EXTENDS AuditChain, FiniteSetTheorems, WellFoundedInduction, TLAPS

\* The row lock: one holder, who works on the committed tip.
LockInv ==
    /\ \A v, w \in Writers : pc[v] = "locked" /\ pc[w] = "locked" => v = w
    /\ \A w \in Writers : pc[w] = "locked" => seen[w] = chain
    /\ \A w \in Writers : pc[w] # "locked" => seen[w] = EmptyTip

\* The tip row is created by the first entry; the tip is an event logged so far.
TipInv ==
    /\ ~chain.row => chain = EmptyTip
    /\ chain.count = 0 <=> chain.last = NoHash
    /\ chain.last <= events

\* The event of a call in progress is in no entry and is not the tip.
FreshInv ==
    /\ \A e \in entries : e.id <= events /\ e.seq >= 1
    /\ \A w \in Writers : pc[w] # "idle" =>
          /\ entryId[w] \in 1..events
          /\ entryId[w] # chain.last
          /\ \A e \in entries : e.id # entryId[w]
    /\ \A v, w \in Writers :
          pc[v] # "idle" /\ pc[w] # "idle" /\ entryId[v] = entryId[w] => v = w

IInv == TypeOK /\ LockInv /\ TipInv /\ FreshInv /\ ChainLinked /\ NoGap

USE ConstantsAssumption
USE DEF NoHash, Ids, Hashes, Tip, Entry, WriterPcs, EmptyTip

-----------------------------------------------------------------------------
\* Initially nothing is written and nobody writes.
LEMMA InitInv == Init => IInv
  BY DEF Init, IInv, TypeOK, LockInv, TipInv, FreshInv, ChainLinked, NoGap

\* The type is preserved by every step.
LEMMA TypeStep == TypeOK /\ FreshInv /\ [Next]_vars => TypeOK'
<1> SUFFICES ASSUME TypeOK, FreshInv, [Next]_vars PROVE TypeOK'
  OBVIOUS
<1>r. ASSUME NEW w \in Writers, Return(w)
      PROVE  /\ pc' \in [Writers -> WriterPcs]
             /\ entryId' \in [Writers -> Hashes]
             /\ createdAt' \in [Writers -> 0..MaxClock]
             /\ seen' \in [Writers -> Tip]
  BY <1>r DEF Return, TypeOK
<1>b. ASSUME NEW w \in Writers, Begin(w)
      PROVE  /\ events' \in 0..MaxEvents
             /\ pc' \in [Writers -> WriterPcs]
             /\ entryId' \in [Writers -> Hashes]
             /\ createdAt' \in [Writers -> 0..MaxClock]
             /\ seen' \in [Writers -> Tip]
  BY <1>b DEF Begin, TypeOK
<1>g. ASSUME NEW w \in Writers, GiveUp(w), pc[w] # "idle" PROVE TypeOK'
  <2>1. entryId[w] \in Ids
    BY <1>g DEF FreshInv, TypeOK
  <2>2. history' \in [failed : SUBSET Ids, purged : SUBSET Ids, damaged : SUBSET Ids]
    BY <1>g, <2>1 DEF GiveUp, TypeOK
  <2>3. QED BY <1>g, <1>r, <2>2 DEF GiveUp, TypeOK
<1>1. CASE Tick
  BY <1>1 DEF Tick, TypeOK, writer
<1>2. ASSUME NEW w \in Writers, LogEvent(w) PROVE TypeOK'
  BY <1>2, <1>b DEF LogEvent, TypeOK
<1>3. ASSUME NEW w \in Writers, LockTip(w) PROVE TypeOK'
  BY <1>3 DEF LockTip, TypeOK
<1>4. ASSUME NEW w \in Writers, FindNoTip(w) PROVE TypeOK'
  BY <1>4 DEF FindNoTip, TypeOK
<1>5. ASSUME NEW w \in Writers, CreateTip(w) PROVE TypeOK'
  BY <1>5 DEF CreateTip, TypeOK
<1>6. ASSUME NEW w \in Writers, CommitEntry(w) PROVE TypeOK'
  <2>1. CASE SequenceTaken(NewEntry(w).seq)
    BY <1>6, <2>1, <1>g DEF CommitEntry
  <2>2. CASE ~SequenceTaken(NewEntry(w).seq)
    <3>1. entryId[w] \in Ids
      BY <1>6 DEF CommitEntry, FreshInv, TypeOK
    <3>2. NewEntry(w) \in Entry
      BY <3>1 DEF NewEntry, TypeOK
    <3>3. chain' \in Tip
      <4>1. NewEntry(w).id \in Hashes /\ NewEntry(w).seq \in Nat
        BY <3>2
      <4>2. chain' = [row |-> TRUE, last |-> NewEntry(w).id, count |-> NewEntry(w).seq]
        BY <1>6, <2>2 DEF CommitEntry
      <4>3. QED BY <4>1, <4>2
    <3>4. entries' \subseteq Entry
      BY <1>6, <2>2, <3>2 DEF CommitEntry, TypeOK
    <3>5. QED BY <1>6, <2>2, <3>3, <3>4, <1>r DEF CommitEntry, TypeOK
  <2>3. QED BY <2>1, <2>2
<1>7. ASSUME NEW w \in Writers, WriteFails(w) PROVE TypeOK'
  BY <1>7, <1>g DEF WriteFails
<1>8. ASSUME NEW w \in Writers, EndPurge(w) PROVE TypeOK'
  <2>1. purge' \in [pc : {"idle", "purging"}, cutoff : Int, deleted : BOOLEAN,
                    runs : 0..MaxPurges]
    BY <1>8 DEF EndPurge, TypeOK
  <2>2. CASE purge.deleted
    BY <1>8, <1>b, <2>1, <2>2 DEF EndPurge, TypeOK
  <2>3. CASE ~purge.deleted
    BY <1>8, <2>1, <2>3 DEF EndPurge, TypeOK, writer
  <2>4. QED BY <2>2, <2>3
<1>9. CASE BeginPurge
  BY <1>9 DEF BeginPurge, TypeOK, writer
<1>10. ASSUME NEW D \in SUBSET entries, DeleteBatch(D) PROVE TypeOK'
  <2>1. {e.id : e \in D} \subseteq Ids
    BY <1>10 DEF TypeOK
  <2>2. history' \in [failed : SUBSET Ids, purged : SUBSET Ids, damaged : SUBSET Ids]
    BY <1>10, <2>1 DEF DeleteBatch, TypeOK
  <2>3. purge' \in [pc : {"idle", "purging"}, cutoff : Int, deleted : BOOLEAN,
                    runs : 0..MaxPurges]
    BY <1>10 DEF DeleteBatch, TypeOK
  <2>4. QED BY <1>10, <2>2, <2>3 DEF DeleteBatch, TypeOK, writer
<1>11. CASE PurgeDies
  BY <1>11 DEF PurgeDies, TypeOK, writer
<1>12. CASE VerifyRead
  BY <1>12 DEF VerifyRead, TypeOK, writer
<1>13. CASE VerifyTip
  BY <1>13 DEF VerifyTip, TypeOK, writer
<1>14. ASSUME NEW e \in entries, Alter(e) PROVE TypeOK'
  <2>0. e \in Entry
    BY DEF TypeOK
  <2>1. [e EXCEPT !.altered = TRUE] \in Entry /\ e.id \in Ids
    BY <2>0
  <2>2. entries' \subseteq Entry
    BY <1>14, <2>1 DEF Alter, TypeOK
  <2>3. history' \in [failed : SUBSET Ids, purged : SUBSET Ids, damaged : SUBSET Ids]
    BY <1>14, <2>1 DEF Alter, TypeOK
  <2>4. QED BY <1>14, <2>2, <2>3 DEF Alter, TypeOK, writer
<1>15. ASSUME NEW e \in entries, TakeOut(e) PROVE TypeOK'
  <2>1. e.id \in Ids
    BY DEF TypeOK
  <2>2. history' \in [failed : SUBSET Ids, purged : SUBSET Ids, damaged : SUBSET Ids]
    BY <1>15, <2>1 DEF TakeOut, TypeOK
  <2>3. QED BY <1>15, <2>2 DEF TakeOut, TypeOK, writer
<1>16. CASE UNCHANGED vars
  BY <1>16 DEF vars, writer, TypeOK
<1>17. QED
  BY <1>1, <1>2, <1>3, <1>4, <1>5, <1>6, <1>7, <1>8, <1>9, <1>10, <1>11,
     <1>12, <1>13, <1>14, <1>15, <1>16
  DEF Next, Write

-----------------------------------------------------------------------------
\* One writer at a time holds the tip.
LEMMA LockStep == TypeOK /\ LockInv /\ TipInv /\ [Next]_vars => LockInv'
<1> SUFFICES ASSUME TypeOK, LockInv, TipInv, [Next]_vars PROVE LockInv'
  OBVIOUS
<1>s. ASSUME UNCHANGED <<pc, seen, chain>> PROVE LockInv'
  BY <1>s DEF LockInv
<1>b. ASSUME NEW w \in Writers, Begin(w), UNCHANGED chain PROVE LockInv'
  BY <1>b DEF Begin, LockInv, TypeOK
<1>g. ASSUME NEW w \in Writers, Return(w), pc[w] = "locked" \/ UNCHANGED chain PROVE LockInv'
  BY <1>g DEF Return, LockInv, TypeOK
<1>2. ASSUME NEW w \in Writers, LogEvent(w) PROVE LockInv'
  BY <1>2, <1>b DEF LogEvent
<1>3. ASSUME NEW w \in Writers, LockTip(w) PROVE LockInv'
  BY <1>3 DEF LockTip, Unlocked, LockInv, TypeOK
<1>4. ASSUME NEW w \in Writers, FindNoTip(w) PROVE LockInv'
  BY <1>4 DEF FindNoTip, LockInv, TypeOK
<1>5. ASSUME NEW w \in Writers, CreateTip(w) PROVE LockInv'
  BY <1>5 DEF CreateTip, Unlocked, LockInv, TipInv, TypeOK
<1>6. ASSUME NEW w \in Writers, CommitEntry(w) PROVE LockInv'
  BY <1>6, <1>g DEF CommitEntry, GiveUp
<1>7. ASSUME NEW w \in Writers, WriteFails(w) PROVE LockInv'
  BY <1>7, <1>g DEF WriteFails, GiveUp
<1>8. ASSUME NEW w \in Writers, EndPurge(w) PROVE LockInv'
  BY <1>8, <1>b, <1>s DEF EndPurge, writer
<1>9. CASE Tick \/ BeginPurge \/ PurgeDies \/ VerifyRead \/ VerifyTip
  BY <1>9, <1>s DEF Tick, BeginPurge, PurgeDies, VerifyRead, VerifyTip, writer
<1>10. ASSUME NEW D \in SUBSET entries, DeleteBatch(D) PROVE LockInv'
  BY <1>10, <1>s DEF DeleteBatch, writer
<1>11. ASSUME NEW e \in entries, Alter(e) \/ TakeOut(e) PROVE LockInv'
  BY <1>11, <1>s DEF Alter, TakeOut, writer
<1>12. CASE UNCHANGED vars
  BY <1>12, <1>s DEF vars, writer
<1>13. QED
  BY <1>2, <1>3, <1>4, <1>5, <1>6, <1>7, <1>8, <1>9, <1>10, <1>11, <1>12
  DEF Next, Write

\* The tip is only moved by the holder of the lock, to its own entry.
LEMMA TipStep == TypeOK /\ LockInv /\ TipInv /\ FreshInv /\ [Next]_vars => TipInv'
<1> SUFFICES ASSUME TypeOK, LockInv, TipInv, FreshInv, [Next]_vars PROVE TipInv'
  OBVIOUS
<1>s. ASSUME UNCHANGED chain, events' \in Nat, events <= events' PROVE TipInv'
  BY <1>s DEF TipInv, TypeOK
<1>e. events \in Nat
  BY DEF TypeOK
<1>6. ASSUME NEW w \in Writers, CommitEntry(w) PROVE TipInv'
  <2>1. CASE SequenceTaken(NewEntry(w).seq)
    BY <1>6, <1>s, <1>e, <2>1 DEF CommitEntry, GiveUp
  <2>2. CASE ~SequenceTaken(NewEntry(w).seq)
    <3>1. entryId[w] \in 1..events /\ seen[w].count \in Nat
      BY <1>6 DEF CommitEntry, FreshInv, TypeOK
    <3>2. QED BY <1>6, <1>e, <2>2, <3>1 DEF CommitEntry, NewEntry, TipInv
  <2>3. QED BY <2>1, <2>2
<1>7. ASSUME NEW w \in Writers,
             LogEvent(w) \/ LockTip(w) \/ FindNoTip(w) \/ CreateTip(w) \/ WriteFails(w) \/ EndPurge(w)
      PROVE  TipInv'
  BY <1>7, <1>s, <1>e
  DEF LogEvent, LockTip, FindNoTip, CreateTip, WriteFails, GiveUp, EndPurge, Begin
<1>9. CASE Tick \/ BeginPurge \/ PurgeDies \/ VerifyRead \/ VerifyTip
  BY <1>9, <1>s, <1>e DEF Tick, BeginPurge, PurgeDies, VerifyRead, VerifyTip
<1>10. ASSUME NEW D \in SUBSET entries, DeleteBatch(D) PROVE TipInv'
  BY <1>10, <1>s, <1>e DEF DeleteBatch
<1>11. ASSUME NEW e \in entries, Alter(e) \/ TakeOut(e) PROVE TipInv'
  BY <1>11, <1>s, <1>e DEF Alter, TakeOut
<1>12. CASE UNCHANGED vars
  BY <1>12, <1>s, <1>e DEF vars
<1>13. QED
  BY <1>6, <1>7, <1>9, <1>10, <1>11, <1>12 DEF Next, Write

\* Events in progress stay new: ids are drawn once.
LEMMA FreshStep == TypeOK /\ LockInv /\ TipInv /\ FreshInv /\ [Next]_vars => FreshInv'
<1> SUFFICES ASSUME TypeOK, LockInv, TipInv, FreshInv, [Next]_vars PROVE FreshInv'
  OBVIOUS
<1> events \in Nat
  BY DEF TypeOK
\* entries only lose rows or have them altered in place
<1>s. ASSUME UNCHANGED <<pc, entryId, chain, events>>,
             \A e \in entries' : \E f \in entries : e.id = f.id /\ e.seq = f.seq
      PROVE  FreshInv'
  BY <1>s DEF FreshInv
<1>b. ASSUME NEW w \in Writers, Begin(w), UNCHANGED <<chain, entries>> PROVE FreshInv'
  <2>1. ASSUME NEW v \in Writers, v # w
        PROVE  pc'[v] = pc[v] /\ entryId'[v] = entryId[v]
    <3>1. pc' = [pc EXCEPT ![w] = "selecting"] /\ entryId' = [entryId EXCEPT ![w] = events + 1]
      BY <1>b DEF Begin
    <3>2. QED BY <2>1, <3>1 DEF TypeOK
  <2>2. entryId'[w] = events + 1 /\ events' = events + 1
    BY <1>b DEF Begin, TypeOK
  <2>3. \A e \in entries : e \in Entry
    BY DEF TypeOK
  <2>4. chain.last \in Nat /\ chain.last <= events
    BY DEF TypeOK, TipInv
  <2>5. QED BY <1>b, <2>1, <2>2, <2>3, <2>4 DEF FreshInv
<1>p. ASSUME NEW w \in Writers, UNCHANGED <<entryId, chain, entries, events>>, pc[w] # "idle",
             \A v \in Writers : v # w => pc'[v] = pc[v]
      PROVE  FreshInv'
  BY <1>p DEF FreshInv
<1>g. ASSUME NEW w \in Writers, GiveUp(w) PROVE FreshInv'
  <2>1. \A v \in Writers : pc'[v] # "idle" => v # w /\ pc[v] # "idle" /\ entryId'[v] = entryId[v]
    BY <1>g DEF GiveUp, Return, TypeOK
  <2>2. QED BY <1>g, <2>1 DEF GiveUp, FreshInv
<1>2. ASSUME NEW w \in Writers, LogEvent(w) PROVE FreshInv'
  BY <1>2, <1>b DEF LogEvent
<1>3. ASSUME NEW w \in Writers, LockTip(w) \/ FindNoTip(w) \/ CreateTip(w) PROVE FreshInv'
  BY <1>3, <1>p DEF LockTip, FindNoTip, CreateTip, TypeOK
<1>6. ASSUME NEW w \in Writers, CommitEntry(w) PROVE FreshInv'
  <2>1. CASE SequenceTaken(NewEntry(w).seq)
    BY <1>6, <1>g, <2>1 DEF CommitEntry
  <2>2. CASE ~SequenceTaken(NewEntry(w).seq)
    <3>1. \A v \in Writers : pc'[v] # "idle" => v # w /\ pc[v] # "idle" /\ entryId'[v] = entryId[v]
      BY <1>6, <2>2 DEF CommitEntry, Return, TypeOK
    <3>2. /\ NewEntry(w).id = entryId[w]
          /\ NewEntry(w).seq >= 1
          /\ entryId[w] \in 1..events
      BY <1>6 DEF CommitEntry, NewEntry, FreshInv, TypeOK
    <3>3. /\ entries' = entries \cup {NewEntry(w)}
          /\ chain'.last = NewEntry(w).id
          /\ events' = events
          /\ pc[w] # "idle"
      BY <1>6, <2>2 DEF CommitEntry
    <3>4. \A v \in Writers : pc[v] # "idle" /\ v # w => entryId[v] # entryId[w]
      BY <3>3 DEF FreshInv
    <3>5. QED BY <3>1, <3>2, <3>3, <3>4 DEF FreshInv
  <2>3. QED BY <2>1, <2>2
<1>7. ASSUME NEW w \in Writers, WriteFails(w) PROVE FreshInv'
  BY <1>7, <1>g DEF WriteFails
<1>8. ASSUME NEW w \in Writers, EndPurge(w) PROVE FreshInv'
  BY <1>8, <1>b, <1>s DEF EndPurge, writer
<1>9. CASE Tick \/ BeginPurge \/ PurgeDies \/ VerifyRead \/ VerifyTip
  BY <1>9, <1>s DEF Tick, BeginPurge, PurgeDies, VerifyRead, VerifyTip, writer
<1>10. ASSUME NEW D \in SUBSET entries, DeleteBatch(D) PROVE FreshInv'
  BY <1>10, <1>s DEF DeleteBatch, writer
<1>11. ASSUME NEW e \in entries, Alter(e) \/ TakeOut(e) PROVE FreshInv'
  <2>1. e \in Entry
    BY DEF TypeOK
  <2>2. \A f \in entries' : \E g \in entries : f.id = g.id /\ f.seq = g.seq
    BY <1>11, <2>1 DEF Alter, TakeOut
  <2>3. QED BY <1>11, <1>s, <2>2 DEF Alter, TakeOut, writer
<1>12. CASE UNCHANGED vars
  BY <1>12, <1>s DEF vars, writer
<1>13. QED
  BY <1>2, <1>3, <1>6, <1>7, <1>8, <1>9, <1>10, <1>11, <1>12 DEF Next, Write

-----------------------------------------------------------------------------
\* The holder of the lock numbers its entry one past everything written.
LEMMA NumberIsFree ==
  ASSUME TypeOK, LockInv, ChainLinked, NEW w \in Writers, pc[w] = "locked"
  PROVE  ~SequenceTaken(NewEntry(w).seq)
<1>1. NewEntry(w).seq = chain.count + 1 /\ chain.count \in Nat
  BY DEF NewEntry, LockInv, TypeOK
<1>2. \A e \in entries : e.seq \in Nat /\ e.seq <= chain.count
  BY DEF ChainLinked, TypeOK
<1>3. QED BY <1>1, <1>2 DEF SequenceTaken

\* The chain stays linked.
LEMMA ChainStep ==
  TypeOK /\ LockInv /\ TipInv /\ FreshInv /\ ChainLinked /\ [Next]_vars => ChainLinked'
<1> SUFFICES ASSUME TypeOK, LockInv, TipInv, FreshInv, ChainLinked, [Next]_vars
             PROVE  ChainLinked'
  OBVIOUS
<1>s. ASSUME UNCHANGED chain, entries' \subseteq entries PROVE ChainLinked'
  BY <1>s DEF ChainLinked
<1>2. ASSUME NEW w \in Writers,
             LogEvent(w) \/ LockTip(w) \/ FindNoTip(w) \/ CreateTip(w) \/ WriteFails(w) \/ EndPurge(w)
      PROVE  ChainLinked'
  BY <1>2, <1>s DEF LogEvent, LockTip, FindNoTip, CreateTip, WriteFails, GiveUp, EndPurge
<1>6. ASSUME NEW w \in Writers, CommitEntry(w) PROVE ChainLinked'
  <2> DEFINE new == NewEntry(w)
  <2>1. pc[w] = "locked" /\ ~SequenceTaken(new.seq)
    BY <1>6, NumberIsFree DEF CommitEntry
  <2>2. /\ entries' = entries \cup {new}
        /\ chain'.last = new.id
        /\ chain'.count = new.seq
    BY <1>6, <2>1 DEF CommitEntry
  <2>3. /\ new.seq = chain.count + 1
        /\ new.prev = chain.last
        /\ new.id = entryId[w]
    BY <2>1 DEF NewEntry, LockInv
  <2>4. chain.count \in Nat /\ (chain.count = 0 <=> chain.last = NoHash)
    BY DEF TypeOK, TipInv
  <2>5. \A e \in entries :
           /\ e.seq \in Nat
           /\ e.seq <= chain.count
           /\ e.seq = chain.count <=> e.id = chain.last
           /\ e.id # entryId[w]
    BY <2>1 DEF TypeOK, ChainLinked, FreshInv
  <2> HIDE DEF new
  <2>6. \A e, f \in entries' : e.seq = f.seq => e = f
    BY <2>2, <2>3, <2>4, <2>5 DEF ChainLinked
  <2>7. \A e, f \in entries' : e.seq = f.seq + 1 => e.prev = f.id
    BY <2>2, <2>3, <2>4, <2>5 DEF ChainLinked
  <2>8. \A e \in entries' : e.seq = 1 <=> e.prev = NoHash
    BY <2>2, <2>3, <2>4, <2>5 DEF ChainLinked
  <2>9. \A e \in entries' :
           e.seq <= chain'.count /\ (e.seq = chain'.count <=> e.id = chain'.last)
    BY <2>2, <2>3, <2>4, <2>5
  <2>10. QED BY <2>6, <2>7, <2>8, <2>9 DEF ChainLinked
<1>9. CASE Tick \/ BeginPurge \/ PurgeDies \/ VerifyRead \/ VerifyTip
  BY <1>9, <1>s DEF Tick, BeginPurge, PurgeDies, VerifyRead, VerifyTip
<1>10. ASSUME NEW D \in SUBSET entries, DeleteBatch(D) PROVE ChainLinked'
  BY <1>10, <1>s DEF DeleteBatch
<1>11. ASSUME NEW e \in entries, Alter(e) PROVE ChainLinked'
  <2> DEFINE new == [e EXCEPT !.altered = TRUE]
  <2>1. e \in Entry
    BY DEF TypeOK
  <2>2. new.id = e.id /\ new.seq = e.seq /\ new.prev = e.prev
    BY <2>1
  <2>3. entries' = (entries \ {e}) \cup {new} /\ chain' = chain
    BY <1>11 DEF Alter
  <2> HIDE DEF new
  <2>4. QED BY <2>2, <2>3 DEF ChainLinked
<1>12. ASSUME NEW e \in entries, TakeOut(e) PROVE ChainLinked'
  BY <1>12, <1>s DEF TakeOut
<1>13. CASE UNCHANGED vars
  BY <1>13, <1>s DEF vars
<1>14. QED
  BY <1>2, <1>6, <1>9, <1>10, <1>11, <1>12, <1>13 DEF Next, Write

\* No number is skipped or given out twice.
LEMMA NoGapStep ==
  TypeOK /\ LockInv /\ ChainLinked /\ NoGap /\ [Next]_vars => NoGap'
<1> SUFFICES ASSUME TypeOK, LockInv, ChainLinked, NoGap, [Next]_vars PROVE NoGap'
  OBVIOUS
<1>s. ASSUME UNCHANGED <<chain, entries>>,
             history'.purged = history.purged, history'.damaged = history.damaged
      PROVE  NoGap'
  BY <1>s DEF NoGap
<1>2. ASSUME NEW w \in Writers, LogEvent(w) \/ LockTip(w) \/ FindNoTip(w) \/ CreateTip(w) \/ EndPurge(w)
      PROVE  NoGap'
  BY <1>2, <1>s DEF LogEvent, LockTip, FindNoTip, CreateTip, EndPurge
<1>6. ASSUME NEW w \in Writers, CommitEntry(w) PROVE NoGap'
  <2> DEFINE new == NewEntry(w)
  <2>1. ~SequenceTaken(new.seq) /\ new.seq = chain.count + 1 /\ chain.count \in Nat
    BY <1>6, NumberIsFree DEF CommitEntry, NewEntry, LockInv, TypeOK
  <2>2. entries' = entries \cup {new} /\ chain'.count = new.seq /\ history' = history
    BY <1>6, <2>1 DEF CommitEntry
  <2> HIDE DEF new
  <2>3. {e.seq : e \in entries'} = {e.seq : e \in entries} \cup {new.seq}
    BY <2>2
  <2>4. 1..(chain.count + 1) = 1..chain.count \cup {chain.count + 1}
    BY <2>1
  <2>5. QED BY <2>1, <2>2, <2>3, <2>4 DEF NoGap
<1>7. ASSUME NEW w \in Writers, WriteFails(w) PROVE NoGap'
  <2>1. history'.purged = history.purged /\ history'.damaged = history.damaged
    BY <1>7 DEF WriteFails, GiveUp, TypeOK
  <2>2. QED BY <1>7, <1>s, <2>1 DEF WriteFails, GiveUp
<1>9. CASE Tick \/ BeginPurge \/ PurgeDies \/ VerifyRead \/ VerifyTip
  BY <1>9, <1>s DEF Tick, BeginPurge, PurgeDies, VerifyRead, VerifyTip
<1>10. ASSUME NEW D \in SUBSET entries, DeleteBatch(D) PROVE NoGap'
  <2>1. history'.purged = history.purged \cup {e.id : e \in D}
    BY <1>10 DEF DeleteBatch, TypeOK
  <2>2. PICK e \in D : TRUE
    BY <1>10 DEF DeleteBatch
  <2>3. history'.purged # {}
    BY <2>1, <2>2
  <2>4. QED BY <2>3 DEF NoGap
<1>11. ASSUME NEW e \in entries, Alter(e) \/ TakeOut(e) PROVE NoGap'
  <2>1. history'.damaged = history.damaged \cup {e.id}
    BY <1>11 DEF Alter, TakeOut, TypeOK
  <2>2. QED BY <2>1 DEF NoGap
<1>13. CASE UNCHANGED vars
  BY <1>13, <1>s DEF vars
<1>14. QED
  BY <1>2, <1>6, <1>7, <1>9, <1>10, <1>11, <1>13 DEF Next, Write

-----------------------------------------------------------------------------
\* The row's typed parts, the lock and the chain hold in every reachable state.
LEMMA Inductive == Spec => []IInv
<1>1. IInv /\ [Next]_vars => IInv'
  BY TypeStep, LockStep, TipStep, FreshStep, ChainStep, NoGapStep DEF IInv
<1>2. QED BY InitInv, <1>1, PTL DEF Spec

\* A step loses at most one event, and only by a failure: the unique
\* constraint on sequence never rejects an entry.
LEMMA LossStep ==
  IInv /\ OnlyFailuresLoseEvents /\ [Next]_vars => OnlyFailuresLoseEvents'
<1> SUFFICES ASSUME IInv, OnlyFailuresLoseEvents, [Next]_vars
             PROVE  OnlyFailuresLoseEvents'
  OBVIOUS
<1>f. IsFiniteSet(history.failed) /\ Cardinality(history.failed) \in Nat
  <2>1. history.failed \subseteq Ids
    BY DEF IInv, TypeOK
  <2>2. IsFiniteSet(Ids)
    BY FS_Interval
  <2>3. IsFiniteSet(history.failed)
    BY <2>1, <2>2, FS_Subset
  <2>4. QED BY <2>3, FS_CardinalityType
<1>s. ASSUME history'.failed = history.failed PROVE OnlyFailuresLoseEvents'
  BY <1>s DEF OnlyFailuresLoseEvents
<1>2. ASSUME NEW w \in Writers, LogEvent(w) \/ LockTip(w) \/ FindNoTip(w) \/ CreateTip(w) \/ EndPurge(w)
      PROVE  OnlyFailuresLoseEvents'
  BY <1>2, <1>s DEF LogEvent, LockTip, FindNoTip, CreateTip, EndPurge
<1>6. ASSUME NEW w \in Writers, CommitEntry(w) PROVE OnlyFailuresLoseEvents'
  BY <1>6, <1>s, NumberIsFree DEF CommitEntry, IInv
<1>7. ASSUME NEW w \in Writers, WriteFails(w) PROVE OnlyFailuresLoseEvents'
  <2>1. history'.failed = history.failed \cup {entryId[w]}
    BY <1>7 DEF WriteFails, GiveUp, IInv, TypeOK
  <2> DEFINE after == history.failed \cup {entryId[w]}
  <2>2. \/ Cardinality(after) = Cardinality(history.failed)
        \/ Cardinality(after) = Cardinality(history.failed) + 1
    BY <1>f, FS_AddElement
  <2>3. Cardinality(after) <= MaxFailures
    BY <1>7, <1>f, <2>2 DEF WriteFails
  <2>4. QED BY <2>1, <2>3 DEF OnlyFailuresLoseEvents
<1>9. CASE Tick \/ BeginPurge \/ PurgeDies \/ VerifyRead \/ VerifyTip
  BY <1>9, <1>s DEF Tick, BeginPurge, PurgeDies, VerifyRead, VerifyTip
<1>10. ASSUME NEW D \in SUBSET entries, DeleteBatch(D) PROVE OnlyFailuresLoseEvents'
  BY <1>10, <1>s DEF DeleteBatch, IInv, TypeOK
<1>11. ASSUME NEW e \in entries, Alter(e) \/ TakeOut(e) PROVE OnlyFailuresLoseEvents'
  BY <1>11, <1>s DEF Alter, TakeOut, IInv, TypeOK
<1>13. CASE UNCHANGED vars
  BY <1>13, <1>s DEF vars
<1>14. QED
  BY <1>2, <1>6, <1>7, <1>9, <1>10, <1>11, <1>13 DEF Next, Write

\* Every reachable state is well typed, whatever the bounds.
THEOREM TypeCorrect == Spec => []TypeOK
BY Inductive, PTL DEF IInv

\* However log_event calls interleave, create the tip, fail or are purged or
\* damaged: entries link to the one before them and the tip is the newest.
THEOREM ChainIsLinked == Spec => []ChainLinked
BY Inductive, PTL DEF IInv

\* A failed write leaves no gap: the number it would have had is given again.
THEOREM NumbersHaveNoGap == Spec => []NoGap
BY Inductive, PTL DEF IInv

\* Concurrent calls of log_event never make each other lose an event.
THEOREM WritersLoseNothing == Spec => []OnlyFailuresLoseEvents
<1>1. Init => OnlyFailuresLoseEvents
  BY FS_EmptySet DEF Init, OnlyFailuresLoseEvents
<1>2. QED BY Inductive, <1>1, LossStep, PTL DEF Spec
-----------------------------------------------------------------------------
(* verify_chain vouches for a complete log *)

\* What verify_chain read fits the tip as it is now, whatever was written since.
ReadInv ==
    verify.pc = "read" =>
        /\ verify.rows # {} /\ chain.row
        /\ \A e \in verify.rows :
              /\ e.id <= events /\ e.seq >= 1
              /\ e.seq = 1 <=> e.prev = NoHash
              /\ e.seq <= chain.count /\ (e.seq = chain.count <=> e.id = chain.last)
              /\ \A w \in Writers : pc[w] # "idle" => e.id # entryId[w]

\* Some element of a set of numbers is the least.
LEMMA LeastNumber ==
    ASSUME NEW T \in SUBSET Nat, T # {}
    PROVE  \E m \in T : \A n \in T : m <= n
<1>1. IsWellFoundedOn(OpToRel(<, Nat), Nat)
  BY NatLessThanWellFounded
<1>2. PICK m \in T : \A n \in T : <<n, m>> \notin OpToRel(<, Nat)
  BY <1>1, WFMin
<1>3. \A n \in T : ~(n < m)
  <2>1. ASSUME NEW n \in T, n < m PROVE FALSE
    <3>1. <<n, m>> \in Nat \X Nat /\ <<n, m>>[1] < <<n, m>>[2]
      BY <2>1
    <3> QED
      BY <1>2, <3>1 DEF OpToRel
  <2> QED
    BY <2>1
<1> QED
  BY <1>3

\* ... and, with a bound, the largest.
LEMMA LargestNumber ==
    ASSUME NEW T \in SUBSET Nat, T # {}, NEW c \in Nat, \A n \in T : n <= c
    PROVE  \E m \in T : \A n \in T : n <= m
<1> DEFINE U == {k \in Nat : \E n \in T : k = c - n}
<1>1. U \in SUBSET Nat /\ U # {}
  <2>1. PICK n \in T : TRUE
    OBVIOUS
  <2>2. c - n \in Nat
    BY <2>1
  <2>3. c - n \in U
    BY <2>1, <2>2
  <2> QED
    BY <2>3
<1>2. PICK u \in U : \A v \in U : u <= v
  BY <1>1, LeastNumber
<1>3. PICK m \in T : u = c - m
  OBVIOUS
<1>4. \A n \in T : c - m <= c - n
  <2> SUFFICES ASSUME NEW n \in T PROVE c - m <= c - n
    OBVIOUS
  <2>1. c - n \in U
    OBVIOUS
  <2> QED
    BY <1>2, <1>3, <2>1
<1> QED
  BY <1>4

\* The walk over a non-empty set of rows that ends at number c met every
\* number from the first one on: going back from any row, the number before it
\* is there until the row that follows nothing.
LEMMA WalkIsComplete ==
    ASSUME NEW R \in SUBSET Entry, Intact(R), NEW c \in Nat,
           \A e \in R : 1 <= e.seq /\ e.seq <= c /\ (e.prev = NoHash => e.seq = 1),
           \E e \in R : e.seq = c
    PROVE  {e.seq : e \in R} = 1..c
<1>1. \A e \in R : e.seq \in Nat
  OBVIOUS
<1>2. ASSUME NEW n \in 1..c, \A e \in R : e.seq # n
      PROVE  FALSE
  <2> DEFINE T == {m \in Nat : m > n /\ \E e \in R : e.seq = m}
  <2>1. T # {}
    BY <1>1, <1>2
  <2>2. PICK m \in T : \A k \in T : m <= k
    BY <2>1, LeastNumber
  <2>3. PICK e \in R : e.seq = m /\ m > n
    OBVIOUS
  <2>4. CASE \E f \in R : Follows(e, f)
    <3>1. PICK f \in R : e.seq = f.seq + 1
      BY <2>4 DEF Follows
    <3>2. f.seq # n /\ f.seq \in Nat
      BY <1>1, <1>2
    <3>3. f.seq \in T
      BY <2>3, <3>1, <3>2
    <3> QED
      BY <2>2, <2>3, <3>1, <3>2, <3>3
  <2>5. CASE e.prev = NoHash
    BY <2>3, <2>5
  <2> QED
    BY <2>4, <2>5 DEF Intact
<1>3. 1..c \subseteq {e.seq : e \in R}
  BY <1>2
<1>4. {e.seq : e \in R} \subseteq 1..c
  BY <1>1
<1> QED
  BY <1>3, <1>4

\* What was read keeps fitting the tip: new entries come after it.
LEMMA ReadStep == IInv /\ ReadInv /\ [Next]_vars => ReadInv'
<1> SUFFICES ASSUME IInv, ReadInv, [Next]_vars, verify'.pc = "read" PROVE ReadInv'
  BY DEF ReadInv
<1> USE DEF IInv
<1>e. events \in Nat
  BY DEF TypeOK
<1>k. ASSUME UNCHANGED <<verify, chain>>, events' \in Nat, events <= events',
             \A w \in Writers : pc'[w] # "idle" =>
                 \/ pc[w] # "idle" /\ entryId'[w] = entryId[w]
                 \/ entryId'[w] > events
      PROVE  ReadInv'
  <2>1. \A e \in verify.rows : e.id \in Nat
    BY DEF TypeOK
  <2> QED
    BY <1>e, <1>k, <2>1 DEF ReadInv
<1>b. ASSUME NEW w \in Writers, Begin(w), UNCHANGED <<verify, chain>> PROVE ReadInv'
  BY <1>b, <1>e, <1>k DEF Begin, TypeOK
<1>g. ASSUME NEW w \in Writers, GiveUp(w) PROVE ReadInv'
  BY <1>g, <1>e, <1>k DEF GiveUp, Return, TypeOK
<1>1. CASE Tick \/ BeginPurge \/ PurgeDies
  BY <1>1, <1>e, <1>k DEF Tick, BeginPurge, PurgeDies, writer
<1>2. ASSUME NEW w \in Writers, LogEvent(w) PROVE ReadInv'
  BY <1>2, <1>b DEF LogEvent
<1>3. ASSUME NEW w \in Writers, LockTip(w) \/ FindNoTip(w) \/ CreateTip(w) PROVE ReadInv'
  BY <1>3, <1>e, <1>k DEF LockTip, FindNoTip, CreateTip, TypeOK
<1>4. ASSUME NEW w \in Writers, CommitEntry(w) PROVE ReadInv'
  <2>1. pc[w] = "locked" /\ ~SequenceTaken(NewEntry(w).seq)
    BY <1>4, NumberIsFree DEF CommitEntry
  <2>2. /\ UNCHANGED <<verify, events>> /\ Return(w)
        /\ chain' = [row |-> TRUE, last |-> entryId[w], count |-> chain.count + 1]
    BY <1>4, <2>1 DEF CommitEntry, NewEntry, LockInv
  <2>3. \A v \in Writers : pc'[v] # "idle" => pc[v] # "idle" /\ entryId'[v] = entryId[v]
    BY <2>2 DEF Return, TypeOK
  <2>4. chain.count \in Nat /\ \A e \in verify.rows : e.seq \in Nat
    BY DEF TypeOK
  <2> QED
    BY <2>1, <2>2, <2>3, <2>4 DEF ReadInv
<1>5. ASSUME NEW w \in Writers, WriteFails(w) PROVE ReadInv'
  BY <1>5, <1>g DEF WriteFails
<1>6. ASSUME NEW w \in Writers, EndPurge(w) PROVE ReadInv'
  BY <1>6, <1>b, <1>e, <1>k DEF EndPurge, writer
<1>7. ASSUME NEW D \in SUBSET entries, DeleteBatch(D) PROVE ReadInv'
  BY <1>7, <1>e, <1>k DEF DeleteBatch, writer
<1>8. ASSUME NEW e \in entries, Alter(e) \/ TakeOut(e) PROVE ReadInv'
  BY <1>8, <1>e, <1>k DEF Alter, TakeOut, writer
<1>9. CASE VerifyRead
  <2>1. entries # {} /\ verify'.rows = entries /\ UNCHANGED <<chain, events, pc, entryId>>
    BY <1>9 DEF VerifyRead, writer
  <2>2. chain.row
    BY <2>1 DEF TipInv, ChainLinked, FreshInv, TypeOK
  <2> QED
    BY <2>1, <2>2 DEF ReadInv, ChainLinked, FreshInv
<1>10. CASE VerifyTip
  BY <1>10 DEF VerifyTip, TypeOK
<1>11. CASE UNCHANGED vars
  BY <1>11, <1>e, <1>k DEF vars, writer
<1> QED
  BY <1>1, <1>2, <1>3, <1>4, <1>5, <1>6, <1>7, <1>8, <1>9, <1>10, <1>11 DEF Next, Write

\* The verification that ends finds the tip's entry among the rows it read and
\* walks back from there.
LEMMA VouchStep ==
    IInv /\ ReadInv /\ VouchedIsComplete /\ [Next]_vars => VouchedIsComplete'
<1> SUFFICES ASSUME IInv, ReadInv, VouchedIsComplete, [Next]_vars PROVE VouchedIsComplete'
  OBVIOUS
<1>1. CASE UNCHANGED verify
  BY <1>1 DEF VouchedIsComplete
<1>2. CASE VerifyRead
  BY <1>2 DEF VerifyRead, VouchedIsComplete, IInv, TypeOK
<1>3. CASE VerifyTip
  <2>1. /\ verify.pc = "read" /\ verify'.rows = verify.rows
        /\ verify'.tip = chain
        /\ verify'.ok = (Intact(verify.rows) /\ TipMatches(verify.rows))
    BY <1>3 DEF VerifyTip, IInv, TypeOK
  <2>2. SUFFICES ASSUME Intact(verify.rows), TipMatches(verify.rows)
                 PROVE  /\ \A e \in verify.rows : ~e.altered
                        /\ {e.seq : e \in verify.rows} = 1..chain.count
    BY <2>1 DEF VouchedIsComplete
  <2>3. /\ verify.rows \in SUBSET Entry /\ verify.rows # {} /\ chain.count \in Nat
        /\ \A e \in verify.rows :
              /\ 1 <= e.seq /\ e.seq <= chain.count
              /\ e.prev = NoHash => e.seq = 1
              /\ e.id = chain.last => e.seq = chain.count
    BY <2>1 DEF ReadInv, IInv, TypeOK
  <2>4. Newest(verify.rows) \in verify.rows
    <3>1. {e.seq : e \in verify.rows} \in SUBSET Nat
      BY <2>3
    <3>2. \E m \in {e.seq : e \in verify.rows} : \A n \in {e.seq : e \in verify.rows} : n <= m
      <4> DEFINE T == {e.seq : e \in verify.rows}
      <4>1. T \in SUBSET Nat /\ T # {} /\ \A n \in T : n <= chain.count
        BY <2>3, <3>1
      <4> HIDE DEF T
      <4>2. \E m \in T : \A n \in T : n <= m
        BY <2>3, <4>1, LargestNumber
      <4> QED
        BY <4>2 DEF T
    <3>3. \E e \in verify.rows : \A f \in verify.rows : f.seq <= e.seq
      BY <3>2
    <3> QED
      BY <3>3 DEF Newest
  <2>5. Newest(verify.rows).seq = chain.count
    BY <2>1, <2>2, <2>3, <2>4 DEF TipMatches, ReadInv
  <2>6. {e.seq : e \in verify.rows} = 1..chain.count
    BY <2>2, <2>3, <2>4, <2>5, WalkIsComplete
  <2> QED
    BY <2>2, <2>6 DEF Intact
<1> QED
  BY <1>1, <1>2, <1>3 DEF Next, Tick, LogEvent, Write, LockTip, FindNoTip, CreateTip, CommitEntry,
     WriteFails, GiveUp, EndPurge, BeginPurge, DeleteBatch, PurgeDies, Alter, TakeOut, vars

\* When verify_chain says the chain is intact, nothing it read was altered and
\* nothing up to the tip it compared with is missing, however many entries are
\* written between its two statements and whatever was purged or removed before.
THEOREM VouchedIsCompleteAlways == Spec => []VouchedIsComplete
<1>1. Init => ReadInv /\ VouchedIsComplete
  BY DEF Init, ReadInv, VouchedIsComplete
<1>2. IInv /\ [Next]_vars => IInv'
  BY TypeStep, LockStep, TipStep, FreshStep, ChainStep, NoGapStep DEF IInv
<1> QED
  BY InitInv, <1>1, <1>2, ReadStep, VouchStep, PTL DEF Spec

=============================================================================
