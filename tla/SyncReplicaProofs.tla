-------------------------- MODULE SyncReplicaProofs --------------------------
(***************************************************************************)
(* Type correctness and the safety invariants of SyncReplica, for any rows,   *)
(* bounds, mix of strategies, operations and transports; and that the client   *)
(* implements the ledger of its writes.                                       *)
(*                                                                         *)
(* The invariants are inductive together with four facts: what the log says is *)
(* what the server did, an acknowledged version is one the server has reached, *)
(* nothing is remembered of an absent row, and only queued writes are marked   *)
(* as superseded.  Core is what each transaction keeps wherever it runs, also  *)
(* in a tab that shares the store; that the rows of optimistic writes are      *)
(* dirty and that payloads are committed or pending are kept on top of it.     *)
(***************************************************************************)
EXTENDS SyncReplica, SequenceTheorems, TLAPS

-----------------------------------------------------------------------------
(* Type correctness.                                                        *)

\* A row built from typed parts is a record, and so is no row.
LEMMA RowType ==
  /\ Absent \in Record
  /\ \A v \in Nat, d \in BOOLEAN, x \in Nat : Row(v, d, x) \in Record
BY DEF Absent, Row, Record, Foreign

\* What is put for an authoritative change is a record.
LEMMA AdoptedType ==
  ASSUME NEW event, event.version \in Nat, event.val \in Nat, NEW dirty \in BOOLEAN
  PROVE  Adopted(event, dirty) \in Record
BY RowType DEF Adopted

\* An issued write is a write, and its number one of Seqs.
LEMMA IssuedType ==
  ASSUME StoreTypeOK, NEW s \in Issued
  PROVE  /\ s \in Seqs
         /\ s \in Nat \ {0}
         /\ writes[s] \in Write
         /\ writes[s].row \in Rows
         /\ writes[s].base \in Nat
         /\ Len(writes) \in Nat
         /\ store[writes[s].row] \in Record
<1>1. Len(writes) \in Nat /\ Len(writes) <= MaxWrites
  BY MaxWritesAssumption DEF StoreTypeOK
<1>2. s \in Seqs /\ s \in Nat \ {0}
  BY <1>1, MaxWritesAssumption DEF Issued, Seqs
<1>3. writes[s] \in Write
  BY <1>1 DEF StoreTypeOK, Issued
<1>4. writes[s].row \in Rows /\ writes[s].base \in Nat
  BY <1>3 DEF Write
<1> QED
  BY <1>1, <1>2, <1>3, <1>4 DEF StoreTypeOK

\* Minting a write extends the sequence and touches no earlier write.
LEMMA Minting ==
  ASSUME StoreTypeOK, Len(writes) < MaxWrites, NEW write \in Write,
         writes' = Append(writes, write)
  PROVE  /\ writes' \in Seq(Write)
         /\ Len(writes') = Len(writes) + 1
         /\ Len(writes') \in 0 .. MaxWrites
         /\ Issued' = Issued \cup {NextSeq}
         /\ NextSeq \notin Issued
         /\ NextSeq \in Seqs
         /\ writes'[NextSeq] = write
         /\ \A s \in Issued : writes'[s] = writes[s]
<1>1. Len(writes) \in Nat
  BY DEF StoreTypeOK
<1>2. writes' \in Seq(Write) /\ Len(writes') = Len(writes) + 1
  BY DEF StoreTypeOK
<1>3. writes'[NextSeq] = write /\ \A s \in Issued : writes'[s] = writes[s]
  BY <1>1 DEF StoreTypeOK, NextSeq, Issued
<1> QED
  BY <1>1, <1>2, <1>3, MaxWritesAssumption DEF Issued, NextSeq, Seqs

\* Retiring a write keeps the types of the queue and of the marks.
LEMMA RetireType ==
  ASSUME StoreTypeOK, NEW s, NEW version \in Nat, Retire(s, version)
  PROVE  /\ queue' \subseteq Issued
         /\ superseded' \in [Seqs -> Nat]
BY DEF StoreTypeOK, Retire, Later, Issued

\* Each transaction of the store keeps the types of the store.
LEMMA SettleAckType ==
  ASSUME StoreTypeOK, NEW s \in Issued, NEW committed \in Nat, SettleAck(s, committed)
  PROVE  StoreTypeOK'
<1>1. AckedRow(s, committed) \in Record
  BY IssuedType, RowType DEF AckedRow, Record, StillPending
<1> QED
  BY <1>1, RetireType DEF SettleAck, StoreTypeOK, Issued

\* So does the settlement of a pessimistic write,
LEMMA SettlePessimisticType ==
  ASSUME StoreTypeOK, NEW s \in Issued, NEW committed \in Nat, SettlePessimistic(s, committed)
  PROVE  StoreTypeOK'
<1>1. Later(store[writes[s].row].version, committed) \in Nat
  BY IssuedType DEF Later, Record
<1>2. PessimisticRow(s, committed) \in Record
  BY <1>1, IssuedType, RowType DEF PessimisticRow, Record, StillPending
<1> QED
  BY <1>2, RetireType DEF SettlePessimistic, StoreTypeOK, Issued

\* the adoption of an echo,
LEMMA AdoptEchoType ==
  ASSUME StoreTypeOK, NEW event, NEW s \in Issued,
         event.row \in Rows, event.version \in Nat, event.val \in Nat,
         AdoptEcho(event, s)
  PROVE  StoreTypeOK'
<1>1. store[event.row] \in Record
  BY DEF StoreTypeOK
<1>2. Later(store[event.row].version, event.version) \in Nat
  BY <1>1 DEF Later, Record
<1>3. EchoedRow(event, s) \in Record
  BY <1>1, <1>2, RowType, AdoptedType DEF EchoedRow, Record, StillPending
<1> QED
  BY <1>3, RetireType DEF AdoptEcho, StoreTypeOK, Issued

\* the resolution of a conflict,
LEMMA ResolveConflictType ==
  ASSUME StoreTypeOK, NEW event, NEW seqs,
         event.row \in Rows, event.version \in Nat, event.val \in Nat,
         ResolveConflict(event, seqs)
  PROVE  StoreTypeOK'
<1>1. store[event.row] \in Record
  BY DEF StoreTypeOK
<1>2. Later(store[event.row].version, event.version) \in Nat
  BY <1>1 DEF Later, Record
<1>3. ConflictRow(event, seqs) \in Record
  BY <1>1, <1>2, RowType, AdoptedType DEF ConflictRow, Record
<1> QED
  BY <1>3 DEF ResolveConflict, StoreTypeOK

\* and the application of a change.
LEMMA ApplyServerType ==
  ASSUME StoreTypeOK, NEW event,
         event.row \in Rows, event.version \in Nat, event.val \in Nat,
         ApplyServer(event)
  PROVE  StoreTypeOK'
BY AdoptedType DEF ApplyServer, StoreTypeOK

\* What a transport makes of a committed change is typed.
LEMMA DecodedType ==
  ASSUME TypeOK, NEW e \in log, NEW transport
  PROVE  /\ Decoded(e, transport).row = e.row
         /\ Decoded(e, transport).row \in Rows
         /\ Decoded(e, transport).val = e.val
         /\ Decoded(e, transport).val \in Nat
         /\ Decoded(e, transport).version \in Nat
         /\ Decoded(e, transport).version <= e.version
         /\ Decoded(e, transport).key \in {e.key, NoKey}
         /\ Decoded(e, transport).op = e.op
<1>1. e \in [row: Rows, op: Op, version: Nat \ {0}, val: Nat, key: Nat]
  BY DEF TypeOK, Event
<1> QED
  BY <1>1 DEF Decoded

\* The queued writes are issued.
LEMMA QueueIssued == StoreTypeOK => queue \subseteq Issued
BY DEF StoreTypeOK, Issued

\* The settlement of an acknowledged write keeps the types of the store.
LEMMA SettleType ==
  ASSUME TypeOK, NEW s, Settle(s)
  PROVE  StoreTypeOK' /\ Issued' = Issued
<1> USE DEF TypeOK
<1>1. s \in queue => s \in Issued /\ acks[s] \in Nat
  BY QueueIssued, IssuedType
<1>2. CASE s \in queue /\ IsOptimistic(s)
  <2>1. SettleAck(s, acks[s])
    BY <1>2 DEF Settle
  <2> QED
    BY <2>1, <1>1, <1>2, SettleAckType DEF SettleAck, Issued
<1>3. CASE s \in queue /\ ~IsOptimistic(s)
  <2>1. SettlePessimistic(s, acks[s])
    BY <1>3 DEF Settle
  <2> QED
    BY <2>1, <1>1, <1>3, SettlePessimisticType DEF SettlePessimistic, Issued
<1>4. CASE s \notin queue
  BY <1>4 DEF Settle, storeVars, StoreTypeOK, Issued
<1> QED
  BY <1>2, <1>3, <1>4

\* Whatever applyChange decides, it keeps the types of the store.
LEMMA ApplyChangeType ==
  ASSUME TypeOK, NEW event,
         event.row \in Rows, event.version \in Nat, event.val \in Nat,
         ApplyChange(event)
  PROVE  StoreTypeOK' /\ Issued' = Issued /\ discarded' \subseteq Issued
<1>1. StoreTypeOK
  BY DEF TypeOK
<1>2. writes' = writes
  BY DEF ApplyChange, AdoptEcho, ApplyServer, ResolveConflict, storeVars
<1>3. StoreTypeOK'
  <2>1. CASE \E s \in EchoedWrites(event) : AdoptEcho(event, s)
    <3>1. PICK s \in EchoedWrites(event) : AdoptEcho(event, s)
      BY <2>1
    <3>2. s \in Issued
      BY <1>1, QueueIssued DEF EchoedWrites, RowQueue
    <3> QED
      BY <3>1, <3>2, <1>1, AdoptEchoType
  <2>2. CASE ApplyServer(event)
    BY <2>2, <1>1, ApplyServerType
  <2>3. CASE ResolveConflict(event, RowQueue(event.row))
    BY <2>3, <1>1, ResolveConflictType
  <2>4. CASE UNCHANGED storeVars
    BY <2>4, <1>1 DEF storeVars, StoreTypeOK
  <2> QED
    BY <2>1, <2>2, <2>3, <2>4 DEF ApplyChange
<1>4. discarded' \subseteq Issued
  BY <1>1, QueueIssued DEF ApplyChange, RowQueue, TypeOK
<1> QED
  BY <1>2, <1>3, <1>4 DEF Issued

\* So does the delivery of a change keep every type.
LEMMA DeliverType ==
  ASSUME TypeOK, NEW e \in log, NEW transport, Deliver(e, transport)
  PROVE  TypeOK'
<1>1. StoreTypeOK' /\ Issued' = Issued /\ discarded' \subseteq Issued
  BY DecodedType, ApplyChangeType DEF Deliver
<1> QED
  BY <1>1 DEF TypeOK, Deliver, callVars, serverVars

\* The server's commit of a change moves one row to a positive version.
LEMMA CommitType ==
  ASSUME TypeOK, NEW r \in Rows, NEW op \in Op, NEW val \in Nat, NEW key \in Nat,
         Commit(r, op, val, key)
  PROVE  /\ server' \in [Rows -> [here: BOOLEAN, version: Nat, val: Nat]]
         /\ log' \subseteq Event
         /\ server[r].version + 1 \in Nat
<1>1. server[r].version + 1 \in Nat \ {0}
  BY DEF TypeOK
<1>2. (IF op = "upsert" THEN val ELSE Foreign) \in Nat
  BY DEF Foreign
<1> QED
  BY <1>1, <1>2 DEF TypeOK, Commit, Event

\* The least write of a non-empty list is one of it, as far as types go.
LEMMA FlushOnType ==
  ASSUME NEW f \in Flushes, NEW rest, rest \subseteq Issued, wire \subseteq Issued,
         flush \in [Flushes -> SUBSET Issued], FlushOn(f, rest)
  PROVE  flush' \in [Flushes -> SUBSET Issued] /\ wire' \subseteq Issued
BY DEF FlushOn

\* What write() does to the store, on whatever base the write is minted.
Mints(write) ==
  /\ Len(writes) < MaxWrites
  /\ IF write.strategy = "pessimistic" THEN Enqueue(write) ELSE EnqueueOptimistic(write)

\* Minting a write, under any strategy, keeps the types of the store.
LEMMA MintType ==
  ASSUME StoreTypeOK, NEW write \in Write, Mints(write)
  PROVE  /\ StoreTypeOK'
         /\ Issued' = Issued \cup {NextSeq}
<1>1. writes' = Append(writes, write) /\ Len(writes) < MaxWrites
  BY DEF Mints, Enqueue, EnqueueOptimistic, Enqueued
<1>2. /\ writes' \in Seq(Write)
      /\ Len(writes') \in 0 .. MaxWrites
      /\ Issued' = Issued \cup {NextSeq}
      /\ NextSeq \in Nat
  BY <1>1, Minting DEF Seqs
<1>3. OptimisticRow(write) \in Record
  BY <1>2, RowType DEF OptimisticRow, Write
<1>4. store' \in [Rows -> Record]
  BY <1>3 DEF Mints, Enqueue, EnqueueOptimistic, StoreTypeOK
<1>5. queue' = queue \cup {NextSeq} /\ superseded' = superseded
  BY DEF Mints, Enqueue, EnqueueOptimistic, Enqueued
<1> QED
  BY <1>2, <1>4, <1>5 DEF StoreTypeOK, Issued

\* write() mints a write.
LEMMA IssueWriteMints ==
  ASSUME StoreTypeOK, NEW r \in Rows, NEW op \in Ops, NEW strategy \in Strategies,
         IssueWrite(r, op, strategy)
  PROVE  LET write == [row |-> r, op |-> op, base |-> store[r].version, strategy |-> strategy]
         IN  /\ write \in Write
             /\ Mints(write)
             /\ UNCHANGED <<flush, serverVars, discarded>>
             /\ calls' \subseteq calls \cup {NextSeq}
             /\ wire' \subseteq wire \cup {NextSeq}
BY ReplicaAssumption DEF StoreTypeOK, Write, Record, Mints, IssueWrite

\* write() keeps every type.
LEMMA IssueWriteType ==
  ASSUME TypeOK, NEW r \in Rows, NEW op \in Ops, NEW strategy \in Strategies,
         IssueWrite(r, op, strategy)
  PROVE  TypeOK'
<1> DEFINE write == [row |-> r, op |-> op, base |-> store[r].version, strategy |-> strategy]
<1> USE DEF TypeOK
<1>1. /\ write \in Write
      /\ Mints(write)
      /\ UNCHANGED <<flush, serverVars, discarded>>
      /\ calls' \subseteq calls \cup {NextSeq}
      /\ wire' \subseteq wire \cup {NextSeq}
  BY IssueWriteMints
<1> HIDE DEF write
<1>2. StoreTypeOK' /\ Issued' = Issued \cup {NextSeq}
  BY <1>1, MintType
<1> QED
  BY <1>1, <1>2 DEF serverVars

\* Every step keeps the types: one case per action.
LEMMA TypeStep == TypeOK /\ [Next]_vars => TypeOK'
<1> SUFFICES ASSUME TypeOK, [Next]_vars PROVE TypeOK'
  OBVIOUS
<1>1. ASSUME NEW r \in Rows, NEW op \in Ops, NEW strategy \in Strategies,
             IssueWrite(r, op, strategy)
      PROVE  TypeOK'
  BY <1>1, IssueWriteType
<1>2. ASSUME NEW s \in Issued, CallAcked(s) PROVE TypeOK'
  BY <1>2, SettleType DEF CallAcked, TypeOK, serverVars
<1>3. ASSUME NEW s \in Issued, CallFailed(s) PROVE TypeOK'
  BY <1>3 DEF CallFailed, TypeOK, StoreTypeOK, storeVars, serverVars, Issued
<1>4. ASSUME NEW f \in Flushes, FlushStart(f) PROVE TypeOK'
  <2>1. flush' \in [Flushes -> SUBSET Issued] /\ wire' \subseteq Issued
    BY <1>4, FlushOnType, QueueIssued DEF FlushStart, FlushList, TypeOK
  <2> QED
    BY <1>4, <2>1 DEF FlushStart, TypeOK, StoreTypeOK, storeVars, serverVars, Issued
<1>5. ASSUME NEW f \in Flushes, FlushAcked(f) PROVE TypeOK'
  <2>1. flush' \in [Flushes -> SUBSET Issued] /\ wire' \subseteq Issued
    BY <1>5, FlushOnType DEF FlushAcked, TypeOK
  <2>2. StoreTypeOK' /\ Issued' = Issued
    BY <1>5, SettleType DEF FlushAcked
  <2> QED
    BY <1>5, <2>1, <2>2 DEF FlushAcked, TypeOK, serverVars
<1>6. ASSUME NEW f \in Flushes, FlushFailed(f) PROVE TypeOK'
  <2>1. flush' \in [Flushes -> SUBSET Issued] /\ wire' \subseteq Issued
    BY <1>6, FlushOnType DEF FlushFailed, TypeOK
  <2> QED
    BY <1>6, <2>1 DEF FlushFailed, TypeOK, StoreTypeOK, storeVars, serverVars, Issued
<1>7. CASE Reload
  BY <1>7 DEF Reload, NoFlush, TypeOK, StoreTypeOK, storeVars, serverVars, Issued
<1>8. ASSUME NEW s \in Issued, ServerCommit(s) PROVE TypeOK'
  <2>1. /\ writes[s].row \in Rows /\ writes[s].op \in Op /\ s \in Nat
    BY IssuedType DEF TypeOK, Write
  <2>2. Commit(writes[s].row, writes[s].op, s, s)
    BY <1>8 DEF ServerCommit
  <2>3. /\ server' \in [Rows -> [here: BOOLEAN, version: Nat, val: Nat]]
        /\ log' \subseteq Event
        /\ server[writes[s].row].version + 1 \in Nat
    BY <2>1, <2>2, CommitType
  <2>4. acks' \in [Seqs -> Nat]
    BY <1>8, <2>3 DEF ServerCommit, TypeOK
  <2> QED
    BY <1>8, <2>3, <2>4 DEF ServerCommit, TypeOK, StoreTypeOK, storeVars, callVars, Issued
<1>9. ASSUME NEW r \in Rows, NEW op \in Ops, ForeignCommit(r, op) PROVE TypeOK'
  <2>1. /\ server' \in [Rows -> [here: BOOLEAN, version: Nat, val: Nat]]
        /\ log' \subseteq Event
    BY <1>9, CommitType, ReplicaAssumption DEF ForeignCommit, Foreign, NoKey
  <2> QED
    BY <1>9, <2>1 DEF ForeignCommit, TypeOK, StoreTypeOK, storeVars, callVars, Issued
<1>10. ASSUME NEW e \in log, NEW t \in Transports, Deliver(e, t) PROVE TypeOK'
  BY <1>10, DeliverType
<1>11. CASE UNCHANGED vars
  BY <1>11 DEF vars, TypeOK, StoreTypeOK, storeVars, callVars, serverVars, Issued
<1> QED
  BY <1>1, <1>2, <1>3, <1>4, <1>5, <1>6, <1>7, <1>8, <1>9, <1>10, <1>11
     DEF Next, Client, Application, Server

\* The initial states are typed.
LEMMA InitType == Init => TypeOK
BY MaxWritesAssumption
   DEF Init, NoFlush, StoreInit, TypeOK, StoreTypeOK, Record, Absent, Foreign, Issued

\* TypeOK: in every behaviour the store, the queue, the server and the log hold
\* what the code keeps there; queued, outstanding and dropped writes are issued
\* ones, and every committed change has a positive version.
THEOREM TypeCorrect == Spec => []TypeOK
<1>1. Init => TypeOK
  BY InitType
<1>2. TypeOK /\ [Next]_vars => TypeOK'
  BY TypeStep
<1> QED
  BY <1>1, <1>2, PTL DEF Spec

-----------------------------------------------------------------------------
(* The safety invariants.                                                   *)

LogIsTrue ==
  \A e \in log :
    /\ e.version <= server[e.row].version
    /\ e.val # Foreign => e.val \in Issued /\ acks[e.val] > 0
    /\ e.key # NoKey => /\ e.key \in Issued
                        /\ writes[e.key].row = e.row
                        /\ acks[e.key] = e.version

AcksAreCommits ==
  \A s \in Seqs : acks[s] > 0 => s \in Issued /\ acks[s] <= server[writes[s].row].version

AbsentIsEmpty == \A r \in Rows : ~store[r].here => store[r] = Absent

MarksAreQueued == \A t \in Seqs \ queue : superseded[t] = 0

Core ==
  /\ LogIsTrue
  /\ AcksAreCommits
  /\ AbsentIsEmpty
  /\ MarksAreQueued
  /\ DirtyIsQueued
  /\ WritesAreAccounted
  /\ VersionsAreIssued

CoreInv == TypeOK /\ Core

IInv == CoreInv /\ IntentIsDirty /\ VisibleIsCommittedOrPending

\* What a step must do to be safe.
Keeps ==
  /\ Core'
  /\ IntentIsDirty => IntentIsDirty'
  /\ VisibleIsCommittedOrPending => VisibleIsCommittedOrPending'

\* An event that says what the server did: what the log holds, or a snapshot.
TrueEvent(event) ==
  /\ event.row \in Rows
  /\ event.version \in Nat
  /\ event.version <= server[event.row].version
  /\ event.val \in Nat
  /\ event.val # Foreign => event.val \in Issued /\ acks[event.val] > 0
  /\ event.key # NoKey => /\ event.key \in Issued
                          /\ writes[event.key].row = event.row
                          /\ acks[event.key] = event.version
                          /\ acks[event.key] > 0

-----------------------------------------------------------------------------
\* A step that touches neither the store nor the server is safe.
LEMMA UntouchedSafe ==
  ASSUME CoreInv, UNCHANGED <<storeVars, serverVars, discarded>>
  PROVE  Keeps
BY DEF storeVars, serverVars, CoreInv, Core, Keeps, LogIsTrue, AcksAreCommits, AbsentIsEmpty,
   MarksAreQueued, DirtyIsQueued, IntentIsDirty, VisibleIsCommittedOrPending, WritesAreAccounted,
   VersionsAreIssued, Issued, RowQueue, IsOptimistic

-----------------------------------------------------------------------------
(* The transactions that retire a write.                                     *)

\* Retiring write s takes it, and only it, from its row's queue.
LEMMA RetireEffect ==
  ASSUME StoreTypeOK, NEW s \in queue, NEW version \in Nat,
         Retire(s, version), writes' = writes
  PROVE  /\ Issued' = Issued
         /\ s \in Issued
         /\ RowQueue(writes[s].row)' = Others(s)
         /\ \A r \in Rows \ {writes[s].row} : RowQueue(r)' = RowQueue(r)
         /\ \A t \in queue' : \/ superseded'[t] = superseded[t]
                              \/ /\ writes[t].row = writes[s].row
                                 /\ superseded'[t] = Later(superseded[t], version)
         /\ MarksAreQueued => MarksAreQueued'
<1>1. Issued' = Issued /\ s \in Issued
  BY DEF Issued, StoreTypeOK
<1>2. queue' = queue \ {s}
  BY DEF Retire
<1>3. /\ RowQueue(writes[s].row)' = Others(s)
      /\ \A r \in Rows \ {writes[s].row} : RowQueue(r)' = RowQueue(r)
  BY <1>2 DEF RowQueue, Others
<1>5. \A t \in queue' : \/ superseded'[t] = superseded[t]
                        \/ /\ writes[t].row = writes[s].row
                           /\ superseded'[t] = Later(superseded[t], version)
  <2> TAKE t \in queue'
  <2>1. t \in Seqs /\ t # s
    BY <1>2, QueueIssued, IssuedType
  <2>2. superseded'[t] = IF t \in OlderThan(s) THEN Later(superseded[t], version)
                         ELSE superseded[t]
    BY <2>1 DEF Retire
  <2> QED
    BY <2>2 DEF OlderThan, Others, RowQueue
<1>6. MarksAreQueued => MarksAreQueued'
  BY <1>2 DEF MarksAreQueued, Retire, OlderThan, Others, RowQueue
<1> QED
  BY <1>1, <1>3, <1>5, <1>6

\* What the row of a retired write may be replaced by.
SettledRowOK(new, s) ==
  LET r == writes[s].row
  IN  /\ new.dirty => Others(s) # {}
      /\ new.here /\ Others(s) # {} => new.dirty
      /\ ~new.here => new = Absent
      /\ new.version <= server[r].version
      /\ VisibleIsCommittedOrPending =>
           \/ new.val = Foreign
           \/ new.val \in Issued /\ acks[new.val] > 0
           \/ new.dirty /\ new.val \in Others(s) /\ IsOptimistic(new.val)

\* A transaction that retires a committed write and leaves such a row is safe.
LEMMA RetireSafe ==
  ASSUME CoreInv, NEW s \in queue, NEW version \in Nat, NEW new \in Record,
         acks[s] > 0,
         version <= server[writes[s].row].version,
         Retire(s, version),
         store' = [store EXCEPT ![writes[s].row] = new],
         SettledRowOK(new, s),
         UNCHANGED <<writes, serverVars, discarded>>
  PROVE  Keeps
<1> DEFINE r0 == writes[s].row
<1> USE DEF CoreInv
<1>1. /\ Issued' = Issued
      /\ s \in Issued
      /\ RowQueue(r0)' = Others(s)
      /\ \A r \in Rows \ {r0} : RowQueue(r)' = RowQueue(r)
      /\ \A t \in queue' : \/ superseded'[t] = superseded[t]
                           \/ /\ writes[t].row = r0
                              /\ superseded'[t] = Later(superseded[t], version)
      /\ MarksAreQueued'
  BY RetireEffect DEF TypeOK, Core
<1>2. r0 \in Rows /\ store'[r0] = new /\ \A r \in Rows \ {r0} : store'[r] = store[r]
  BY <1>1, IssuedType DEF TypeOK, StoreTypeOK
<1>3. queue' = queue \ {s} /\ queue \subseteq Issued
  BY QueueIssued DEF Retire, TypeOK
<1>4. writes' = writes /\ acks' = acks /\ server' = server /\ log' = log /\ discarded' = discarded
  BY DEF serverVars
<1>5. LogIsTrue'
  BY <1>1, <1>4 DEF Core, LogIsTrue
<1>6. AcksAreCommits'
  BY <1>1, <1>4 DEF Core, AcksAreCommits, Seqs
<1>7. AbsentIsEmpty'
  BY <1>2 DEF Core, AbsentIsEmpty, SettledRowOK
<1>8. DirtyIsQueued' /\ (IntentIsDirty => IntentIsDirty')
  <2> SUFFICES ASSUME NEW r \in Rows
               PROVE  /\ store'[r].dirty => RowQueue(r)' # {}
                      /\ IntentIsDirty =>
                           (store'[r].here /\ (\E t \in RowQueue(r)' : IsOptimistic(t))
                              => store'[r].dirty)
    BY <1>4 DEF DirtyIsQueued, IntentIsDirty, IsOptimistic
  <2>1. CASE r = r0
    BY <2>1, <1>1, <1>2 DEF SettledRowOK
  <2>2. CASE r # r0
    <3>1. store'[r] = store[r] /\ RowQueue(r)' = RowQueue(r)
      BY <2>2, <1>1, <1>2
    <3> QED
      BY <3>1 DEF Core, DirtyIsQueued, IntentIsDirty
  <2> QED
    BY <2>1, <2>2
<1>9. VisibleIsCommittedOrPending => VisibleIsCommittedOrPending'
  <2> SUFFICES ASSUME VisibleIsCommittedOrPending, NEW r \in Rows, NEW x, x = store'[r].val
               PROVE  \/ x = Foreign
                      \/ x \in Issued /\ acks[x] > 0
                      \/ store'[r].dirty /\ x \in RowQueue(r)' /\ IsOptimistic(x)
    BY <1>1, <1>4 DEF VisibleIsCommittedOrPending, IsOptimistic
  <2>1. CASE r = r0
    BY <2>1, <1>1, <1>2 DEF SettledRowOK
  <2>2. CASE r # r0
    <3>1. store'[r] = store[r] /\ RowQueue(r)' = RowQueue(r)
      BY <2>2, <1>1, <1>2
    <3> QED
      BY <3>1 DEF VisibleIsCommittedOrPending
  <2> QED
    BY <2>1, <2>2
<1>10. WritesAreAccounted'
  BY <1>1, <1>3, <1>4 DEF Core, WritesAreAccounted
<1>11. VersionsAreIssued'
  <2>1. \A r \in Rows : store'[r].version <= server[r].version
    BY <1>2 DEF Core, VersionsAreIssued, SettledRowOK
  <2>2. ASSUME NEW t \in queue'
        PROVE  superseded'[t] <= server[writes[t].row].version
    <3>1. superseded[t] <= server[writes[t].row].version
      BY <1>3, <2>2 DEF Core, VersionsAreIssued
    <3> QED
      BY <3>1, <1>1 DEF Later
  <2> QED
    BY <2>1, <2>2, <1>1, <1>4 DEF Core, VersionsAreIssued
<1> QED
  BY <1>1, <1>5, <1>6, <1>7, <1>8, <1>9, <1>10, <1>11 DEF Core, Keeps

\* The payload a row shows survives the retirement of s: it is committed, or it
\* is pending in another write than s.
LEMMA KeptPayload ==
  ASSUME CoreInv, VisibleIsCommittedOrPending, NEW s \in queue, acks[s] > 0
  PROVE  LET x == store[writes[s].row].val
         IN  \/ x = Foreign
             \/ x \in Issued /\ acks[x] > 0
             \/ x \in Others(s) /\ IsOptimistic(x)
<1>1. s \in Issued /\ writes[s].row \in Rows
  BY QueueIssued, IssuedType DEF CoreInv, TypeOK
<1> QED
  BY <1>1 DEF VisibleIsCommittedOrPending, Others

\* What the invariant says of a queued write and of its row.
LEMMA RetiredWrite ==
  ASSUME CoreInv, NEW s \in queue
  PROVE  /\ s \in Issued
         /\ writes[s].row \in Rows
         /\ store[writes[s].row] \in Record
         /\ acks[s] \in Nat
         /\ server[writes[s].row].version \in Nat
         /\ store[writes[s].row].version <= server[writes[s].row].version
         /\ acks[s] > 0 => acks[s] <= server[writes[s].row].version
         /\ ~store[writes[s].row].here => store[writes[s].row] = Absent
<1>1. s \in Issued
  BY QueueIssued DEF CoreInv, TypeOK
<1>2. s \in Seqs /\ writes[s].row \in Rows /\ store[writes[s].row] \in Record
  BY <1>1, IssuedType DEF CoreInv, TypeOK
<1> QED
  BY <1>1, <1>2 DEF CoreInv, TypeOK, Core, VersionsAreIssued, AcksAreCommits, AbsentIsEmpty

\* No row is a sound outcome of a settlement.
LEMMA AbsentSettles ==
  ASSUME CoreInv, NEW s \in queue
  PROVE  SettledRowOK(Absent, s)
<1>1. 0 <= server[writes[s].row].version
  BY RetiredWrite
<1> QED
  BY <1>1 DEF SettledRowOK, Absent

\* So is a row that is as dirty as the rest of its queue makes it, not ahead of
\* the server, with a payload that committed or that the rest of the queue holds.
LEMMA PresentSettles ==
  ASSUME CoreInv, NEW s \in queue,
         NEW version, version <= server[writes[s].row].version,
         NEW dirty \in BOOLEAN, dirty <=> Others(s) # {},
         NEW val,
         VisibleIsCommittedOrPending => \/ val = Foreign
                                        \/ val \in Issued /\ acks[val] > 0
                                        \/ val \in Others(s) /\ IsOptimistic(val)
  PROVE  SettledRowOK(Row(version, dirty, val), s)
<1> DEFINE new == Row(version, dirty, val)
<1>1. new.here = TRUE /\ new.version = version /\ new.dirty = dirty /\ new.val = val
  BY DEF Row
<1> HIDE DEF new
<1>2. val \in Others(s) => dirty
  OBVIOUS
<1> SUFFICES SettledRowOK(new, s)
  BY DEF new
<1> QED
  BY <1>1, <1>2 DEF SettledRowOK

\* The ack of an optimistic write is safe.
LEMMA SettleAckSafe ==
  ASSUME CoreInv, NEW s \in queue, acks[s] > 0, SettleAck(s, acks[s]),
         UNCHANGED <<serverVars, discarded>>
  PROVE  Keeps
<1> DEFINE new == AckedRow(s, acks[s])
<1>1. StillPending(s) \in BOOLEAN /\ (StillPending(s) <=> Others(s) # {})
  BY DEF StillPending
<1>2. new \in Record
  BY <1>1, RetiredWrite, RowType DEF AckedRow, Record
<1>3. SettledRowOK(new, s)
  <2>1. CASE ~store[writes[s].row].here
    BY <2>1, AbsentSettles DEF AckedRow
  <2>2. CASE store[writes[s].row].here
    <3> DEFINE rec == store[writes[s].row]
               version == IF AckAdopts(rec.version, acks[s]) THEN acks[s] ELSE rec.version
    <3>1. new = Row(version, StillPending(s), rec.val)
      BY <2>2 DEF AckedRow
    <3>2. version <= server[writes[s].row].version
      BY RetiredWrite
    <3> HIDE DEF version, new
    <3> QED
      BY <1>1, <3>1, <3>2, KeptPayload, PresentSettles
  <2> QED
    BY <2>1, <2>2
<1>4. /\ Retire(s, acks[s])
      /\ store' = [store EXCEPT ![writes[s].row] = new]
      /\ UNCHANGED writes
  BY DEF SettleAck
<1> HIDE DEF new
<1> QED
  BY <1>2, <1>3, <1>4, RetiredWrite, RetireSafe

\* The ack of a pessimistic write is safe.
LEMMA SettlePessimisticSafe ==
  ASSUME CoreInv, NEW s \in queue, acks[s] > 0, SettlePessimistic(s, acks[s]),
         UNCHANGED <<serverVars, discarded>>
  PROVE  Keeps
<1> DEFINE new == PessimisticRow(s, acks[s])
<1>1. StillPending(s) \in BOOLEAN /\ (StillPending(s) <=> Others(s) # {})
  BY DEF StillPending
<1>2. LET v == Later(store[writes[s].row].version, acks[s])
      IN  v \in Nat /\ v <= server[writes[s].row].version
  BY RetiredWrite DEF Later, Record
<1>3. NewerThan(s) # {} => Others(s) # {}
  BY DEF NewerThan
<1>4. s \in Nat
  BY RetiredWrite, IssuedType DEF CoreInv, TypeOK
<1>5. new \in Record
  BY <1>1, <1>2, <1>4, RetiredWrite, RowType DEF PessimisticRow, Record
<1>6. SettledRowOK(new, s)
  <2> DEFINE rec == store[writes[s].row]
             version == Later(rec.version, acks[s])
  <2>1. CASE HasNewerOptimisticValue(s)
    <3>1. new = Row(version, TRUE, rec.val)
      BY <2>1 DEF PessimisticRow
    <3>2. Others(s) # {}
      BY <2>1, <1>3 DEF HasNewerOptimisticValue
    <3> HIDE DEF new, version
    <3>3. version <= server[writes[s].row].version
      BY <1>2 DEF version
    <3> QED
      BY <3>1, <3>2, <3>3, KeptPayload, PresentSettles
  <2>2. CASE ~HasNewerOptimisticValue(s) /\ writes[s].op = "delete"
    BY <2>2, AbsentSettles DEF PessimisticRow
  <2>3. CASE ~HasNewerOptimisticValue(s) /\ writes[s].op # "delete"
    <3>1. new = Row(acks[s], StillPending(s), s)
      BY <2>3 DEF PessimisticRow
    <3>2. s \in Issued /\ acks[s] <= server[writes[s].row].version
      BY RetiredWrite
    <3> HIDE DEF new
    <3> QED
      BY <1>1, <3>1, <3>2, PresentSettles
  <2> QED
    BY <2>1, <2>2, <2>3
<1>7. /\ Retire(s, acks[s])
      /\ store' = [store EXCEPT ![writes[s].row] = new]
      /\ UNCHANGED writes
  BY DEF SettlePessimistic
<1> HIDE DEF new
<1> QED
  BY <1>5, <1>6, <1>7, RetiredWrite, RetireSafe

\* So is settling an acknowledged write, queued or not.
LEMMA SettleSafe ==
  ASSUME CoreInv, NEW s, acks[s] > 0, Settle(s), UNCHANGED <<serverVars, discarded>>
  PROVE  Keeps
<1>1. CASE s \in queue /\ IsOptimistic(s)
  BY <1>1, SettleAckSafe DEF Settle
<1>2. CASE s \in queue /\ ~IsOptimistic(s)
  BY <1>2, SettlePessimisticSafe DEF Settle
<1>3. CASE s \notin queue
  BY <1>3, UntouchedSafe DEF Settle
<1> QED
  BY <1>1, <1>2, <1>3

-----------------------------------------------------------------------------
(* The delivery of a change.                                                 *)

\* A change is applied only to a row without queued writes.
LEMMA AppliesToCleanRow ==
  ASSUME NEW event, Applies(event) PROVE RowQueue(event.row) = {}
<1> SUFFICES ASSUME RowQueue(event.row) # {} PROVE FALSE
  OBVIOUS
<1>1. ReconcileLocal(event.row).here = TRUE /\ ReconcileLocal(event.row).dirty = TRUE
  BY DEF ReconcileLocal
<1>2. Reconcile(ReconcileLocal(event.row), event) # "apply"
  BY <1>1 DEF Reconcile
<1> QED
  BY <1>2 DEF Applies, Refreshes

\* What a delivered change carries is what the server committed.
LEMMA DecodedTrue ==
  ASSUME CoreInv, NEW e \in log, NEW transport
  PROVE  TrueEvent(Decoded(e, transport))
<1>1. e \in Event /\ e.version \in Nat \ {0} /\ e.row \in Rows /\ e.op \in Op
  BY DEF CoreInv, TypeOK, Event
<1>2. server[e.row].version \in Nat
  BY <1>1 DEF CoreInv, TypeOK
<1>3. LogIsTrue
  BY DEF CoreInv, Core
<1>4. Decoded(e, transport).key # NoKey => Decoded(e, transport) = e
  BY <1>1 DEF Decoded, Event
<1> QED
  BY <1>1, <1>2, <1>3, <1>4, DecodedType DEF CoreInv, LogIsTrue, TrueEvent

\* So is a change of the log as it stands.
LEMMA LoggedTrue ==
  ASSUME CoreInv, NEW e \in log
  PROVE  TrueEvent(e)
<1>1. Decoded(e, "backend") = e
  BY DEF Decoded
<1> QED
  BY <1>1, DecodedTrue

\* A row may be pruned, whatever it is, as long as its writes stay queued.
LEMMA PruneSafe ==
  ASSUME CoreInv, NEW r0 \in Rows, store' = [store EXCEPT ![r0] = Absent],
         UNCHANGED <<writes, queue, superseded, serverVars, discarded>>
  PROVE  /\ Core'
         /\ VisibleIsCommittedOrPending => VisibleIsCommittedOrPending'
<1>1. /\ store'[r0] = Absent
      /\ \A r \in Rows \ {r0} : store'[r] = store[r]
      /\ \A r \in Rows : RowQueue(r)' = RowQueue(r)
      /\ Issued' = Issued
      /\ UNCHANGED <<acks, server, log>>
  BY DEF CoreInv, TypeOK, StoreTypeOK, RowQueue, Issued, serverVars
<1>2. \A r \in Rows : store'[r] = store[r] \/ store'[r] = Absent
  BY <1>1
<1>3. LogIsTrue' /\ MarksAreQueued'
  BY <1>1 DEF CoreInv, Core, LogIsTrue, MarksAreQueued
<1>4. AcksAreCommits' /\ WritesAreAccounted'
  BY <1>1 DEF CoreInv, Core, AcksAreCommits, WritesAreAccounted
<1>5. AbsentIsEmpty'
  BY <1>2 DEF CoreInv, Core, AbsentIsEmpty
<1>6. DirtyIsQueued'
  BY <1>1, <1>2 DEF CoreInv, Core, DirtyIsQueued, Absent
<1>7. VersionsAreIssued'
  <2>1. \A r \in Rows : server[r].version \in Nat
    BY DEF CoreInv, TypeOK
  <2>2. \A r \in Rows : store'[r].version <= server[r].version
    BY <1>2, <2>1 DEF CoreInv, Core, VersionsAreIssued, Absent
  <2> QED
    BY <1>1, <2>2 DEF CoreInv, Core, VersionsAreIssued
<1>8. VisibleIsCommittedOrPending => VisibleIsCommittedOrPending'
  <2> SUFFICES ASSUME VisibleIsCommittedOrPending, NEW r \in Rows, NEW x, x = store'[r].val
               PROVE  \/ x = Foreign
                      \/ x \in Issued /\ acks[x] > 0
                      \/ store'[r].dirty /\ x \in RowQueue(r) /\ IsOptimistic(x)
    BY <1>1 DEF VisibleIsCommittedOrPending, IsOptimistic
  <2> QED
    BY <1>2 DEF VisibleIsCommittedOrPending, Absent
<1> QED
  BY <1>3, <1>4, <1>5, <1>6, <1>7, <1>8 DEF Core

\* The server's payload may be put in place of any row, if at most writes of that
\* row are dropped with it; a row none of whose writes stays is not left dirty.
LEMMA ServerWinsSafe ==
  ASSUME CoreInv, NEW event, TrueEvent(event),
         NEW dropped, dropped \subseteq RowQueue(event.row),
         store' = [store EXCEPT ![event.row] = Adopted(event, FALSE)],
         queue' = queue \ dropped,
         \A t \in queue' : superseded'[t] = superseded[t],
         MarksAreQueued',
         discarded' = discarded \cup dropped,
         UNCHANGED <<writes, serverVars>>
  PROVE  /\ Core'
         /\ dropped = RowQueue(event.row) /\ IntentIsDirty => IntentIsDirty'
         /\ VisibleIsCommittedOrPending => VisibleIsCommittedOrPending'
<1> USE DEF CoreInv
<1>1. writes' = writes /\ acks' = acks /\ server' = server /\ log' = log /\ Issued' = Issued
  BY DEF serverVars, Issued
<1>2. /\ store'[event.row] = Adopted(event, FALSE)
      /\ \A r \in Rows \ {event.row} : store'[r] = store[r]
  BY DEF TypeOK, StoreTypeOK, TrueEvent
<1>3. /\ dropped = RowQueue(event.row) => RowQueue(event.row)' = {}
      /\ \A r \in Rows \ {event.row} : RowQueue(r)' = RowQueue(r)
  BY <1>1 DEF RowQueue
<1>4. event.row \in Rows /\ server[event.row].version \in Nat /\ event.version <= server[event.row].version
  BY DEF TypeOK, TrueEvent
<1>5. LogIsTrue'
  BY <1>1 DEF Core, LogIsTrue
<1>6. AcksAreCommits'
  BY <1>1 DEF Core, AcksAreCommits
<1>7. AbsentIsEmpty'
  BY <1>2 DEF Core, AbsentIsEmpty, Adopted, Row
<1>8. DirtyIsQueued'
  <2>1. ~store'[event.row].dirty
    BY <1>2 DEF Adopted, Row, Absent
  <2> QED
    BY <2>1, <1>2, <1>3 DEF Core, DirtyIsQueued
<1>9. ASSUME dropped = RowQueue(event.row), IntentIsDirty PROVE IntentIsDirty'
  <2> SUFFICES ASSUME NEW r \in Rows, store'[r].here,
                      NEW s \in RowQueue(r)', IsOptimistic(s)'
               PROVE  store'[r].dirty
    BY DEF IntentIsDirty
  <2>1. RowQueue(event.row)' = {}
    BY <1>3, <1>9
  <2>2. r # event.row
    BY <2>1
  <2>3. store'[r] = store[r] /\ RowQueue(r)' = RowQueue(r)
    BY <2>2, <1>2, <1>3
  <2>4. IsOptimistic(s)
    BY <1>1 DEF IsOptimistic
  <2> QED
    BY <2>3, <2>4, <1>9 DEF IntentIsDirty
<1>10. ASSUME VisibleIsCommittedOrPending PROVE VisibleIsCommittedOrPending'
  <2> SUFFICES ASSUME NEW r \in Rows, NEW x, x = store'[r].val
               PROVE  \/ x = Foreign
                      \/ x \in Issued /\ acks[x] > 0
                      \/ store'[r].dirty /\ x \in RowQueue(r)' /\ IsOptimistic(x)
    BY <1>1 DEF VisibleIsCommittedOrPending, IsOptimistic
  <2>1. CASE r = event.row
    BY <2>1, <1>2 DEF Adopted, Row, Absent, TrueEvent
  <2>2. CASE r # event.row
    <3>1. store'[r] = store[r] /\ RowQueue(r)' = RowQueue(r)
      BY <2>2, <1>2, <1>3
    <3> QED
      BY <3>1, <1>10 DEF VisibleIsCommittedOrPending
  <2> QED
    BY <2>1, <2>2
<1>11. WritesAreAccounted'
  BY <1>1 DEF Core, WritesAreAccounted
<1>12. VersionsAreIssued'
  <2>1. \A r \in Rows : store'[r].version <= server[r].version
    BY <1>2, <1>4 DEF Core, VersionsAreIssued, Adopted, Row, Absent
  <2> QED
    BY <2>1, <1>1 DEF Core, VersionsAreIssued
<1> QED
  BY <1>5, <1>6, <1>7, <1>8, <1>9, <1>10, <1>11, <1>12 DEF Core

\* The adoption of an own echo is safe: the echo proves its write committed.
LEMMA AdoptEchoSafe ==
  ASSUME CoreInv, NEW event, TrueEvent(event),
         NEW s \in queue, IsEchoOf(s, writes[s], event),
         AdoptEcho(event, s), UNCHANGED <<serverVars, discarded>>
  PROVE  Keeps
<1> DEFINE new == EchoedRow(event, s)
<1>1. writes[s].row = event.row /\ event.key = s
  BY DEF IsEchoOf
<1>2. s \in Issued /\ s # NoKey
  BY <1>1, RetiredWrite, IssuedType DEF CoreInv, TypeOK, NoKey
<1>3. /\ acks[s] > 0 /\ event.version \in Nat /\ event.val \in Nat
      /\ event.version <= server[event.row].version
      /\ event.val # Foreign => event.val \in Issued /\ acks[event.val] > 0
  BY <1>1, <1>2 DEF TrueEvent
<1>4. StillPending(s) \in BOOLEAN /\ (StillPending(s) <=> Others(s) # {})
  BY DEF StillPending
<1>5. NewerThan(s) # {} => Others(s) # {}
  BY DEF NewerThan
<1>6. LET v == Later(store[event.row].version, event.version)
      IN  v \in Nat /\ v <= server[event.row].version
  BY <1>1, <1>3, RetiredWrite DEF Later, Record
<1>7. new \in Record
  BY <1>1, <1>3, <1>4, <1>6, RetiredWrite, RowType, AdoptedType DEF EchoedRow, Record
<1>8. SettledRowOK(new, s)
  <2> DEFINE rec == store[writes[s].row]
             version == Later(rec.version, event.version)
  <2>1. CASE new = Absent
    BY <2>1, AbsentSettles
  <2>2. CASE new = Row(rec.version, StillPending(s), rec.val)
    <3> HIDE DEF new
    <3> QED
      BY <1>3, <1>4, <2>2, RetiredWrite, KeptPayload, PresentSettles
  <2>3. CASE new = Row(event.version, StillPending(s), event.val)
    <3> HIDE DEF new
    <3>1. event.version <= server[writes[s].row].version
      BY <1>1, <1>3
    <3> QED
      BY <1>3, <1>4, <2>3, <3>1, PresentSettles
  <2>4. CASE new = Row(version, TRUE, rec.val) /\ NewerThan(s) # {}
    <3>1. version <= server[writes[s].row].version
      BY <1>1, <1>6
    <3>2. Others(s) # {}
      BY <1>5, <2>4
    <3> HIDE DEF new, version
    <3> QED
      BY <1>3, <2>4, <3>1, <3>2, KeptPayload, PresentSettles
  <2> QED
    BY <1>1, <2>1, <2>2, <2>3, <2>4 DEF EchoedRow, Adopted
<1>9. /\ Retire(s, event.version)
      /\ store' = [store EXCEPT ![event.row] = new]
      /\ UNCHANGED writes
  BY DEF AdoptEcho
<1> HIDE DEF new
<1> QED
  BY <1>1, <1>3, <1>7, <1>8, <1>9, RetireSafe

\* Applying a change to any row is safe, but for what is queued of the row.
LEMMA ApplyServerSafe ==
  ASSUME CoreInv, NEW event, TrueEvent(event), ApplyServer(event),
         UNCHANGED <<serverVars, discarded>>
  PROVE  /\ Core'
         /\ RowQueue(event.row) = {} /\ IntentIsDirty => IntentIsDirty'
         /\ VisibleIsCommittedOrPending => VisibleIsCommittedOrPending'
<1>1. MarksAreQueued'
  BY DEF ApplyServer, CoreInv, Core, MarksAreQueued
<1> DEFINE dropped == {}
<1>2. /\ dropped \subseteq RowQueue(event.row)
      /\ store' = [store EXCEPT ![event.row] = Adopted(event, FALSE)]
      /\ queue' = queue \ dropped
      /\ discarded' = discarded \cup dropped
      /\ \A t \in queue' : superseded'[t] = superseded[t]
      /\ UNCHANGED <<writes, serverVars>>
  BY DEF ApplyServer
<1>3. RowQueue(event.row) = {} => dropped = RowQueue(event.row)
  OBVIOUS
<1> HIDE DEF dropped
<1> QED
  BY <1>1, <1>2, <1>3, ServerWinsSafe

\* What applyChange does with a change is safe whatever it decides.
LEMMA ApplyChangeSafe ==
  ASSUME CoreInv, NEW event, TrueEvent(event), ApplyChange(event), UNCHANGED serverVars
  PROVE  Keeps
<1>1. queue \subseteq Seqs
  BY QueueIssued, IssuedType DEF CoreInv, TypeOK
<1>2. CASE (\E s \in EchoedWrites(event) : AdoptEcho(event, s)) /\ UNCHANGED discarded
  BY <1>2, AdoptEchoSafe DEF EchoedWrites, RowQueue
<1>3. CASE Applies(event) /\ ApplyServer(event) /\ UNCHANGED discarded
  BY <1>3, AppliesToCleanRow, ApplyServerSafe DEF Keeps
<1>4. CASE /\ ResolveConflict(event, RowQueue(event.row))
           /\ discarded' = discarded \cup RowQueue(event.row)
  <2>1. store' = [store EXCEPT ![event.row] = Adopted(event, FALSE)]
    BY <1>4 DEF ResolveConflict, ConflictRow
  <2>2. /\ queue' = queue \ RowQueue(event.row)
        /\ \A t \in queue' : superseded'[t] = superseded[t]
        /\ MarksAreQueued'
        /\ UNCHANGED writes
    BY <1>1, <1>4 DEF ResolveConflict, CoreInv, Core, MarksAreQueued
  <2> QED
    BY <1>4, <2>1, <2>2, ServerWinsSafe DEF Keeps
<1>5. CASE UNCHANGED <<storeVars, discarded>>
  BY <1>5, UntouchedSafe
<1> QED
  BY <1>2, <1>3, <1>4, <1>5 DEF ApplyChange

\* So is the delivery of a committed change by any transport.
LEMMA DeliverSafe ==
  ASSUME CoreInv, NEW e \in log, NEW transport, Deliver(e, transport)
  PROVE  Keeps
BY DecodedTrue, ApplyChangeSafe DEF Deliver

-----------------------------------------------------------------------------
(* Minting a write.                                                          *)

\* Minting a write on a version the server has reached is safe, be it the one the
\* row has or one that was read before.
LEMMA MintSafe ==
  ASSUME CoreInv, NEW write \in Write, write.base <= server[write.row].version,
         Mints(write), UNCHANGED <<serverVars, discarded>>
  PROVE  Keeps
<1> DEFINE r0 == write.row
           strategy == write.strategy
           new == NextSeq
<1> USE DEF CoreInv
<1>1. /\ r0 \in Rows /\ write.base \in Nat
      /\ Len(writes) < MaxWrites
      /\ UNCHANGED <<serverVars, discarded>>
  BY DEF Mints, Write
<1>3. /\ queue' = queue \cup {new}
      /\ superseded' = superseded
      /\ writes' = Append(writes, write)
      /\ store' = IF strategy = "pessimistic" THEN store
                  ELSE [store EXCEPT ![r0] = OptimisticRow(write)]
  BY DEF Mints, Enqueue, EnqueueOptimistic, Enqueued
<1>4. /\ Issued' = Issued \cup {new}
      /\ new \notin Issued
      /\ new \in Seqs
      /\ writes'[new] = write
      /\ \A s \in Issued : writes'[s] = writes[s]
  BY <1>1, <1>3, Minting DEF TypeOK
<1> HIDE DEF new
<1>5. queue \subseteq Issued /\ acks' = acks /\ server' = server /\ log' = log
      /\ discarded' = discarded
  BY <1>1, QueueIssued DEF TypeOK, serverVars
<1>6. /\ RowQueue(r0)' = RowQueue(r0) \cup {new}
      /\ \A r \in Rows \ {r0} : RowQueue(r)' = RowQueue(r)
  BY <1>1, <1>3, <1>4, <1>5 DEF RowQueue
<1>7. \A r \in Rows \ {r0} : store'[r] = store[r]
  BY <1>3 DEF TypeOK, StoreTypeOK
<1>8. \/ strategy = "pessimistic" /\ store'[r0] = store[r0]
      \/ /\ strategy # "pessimistic"
         /\ store'[r0] = Absent \/ store'[r0] = Row(write.base, TRUE, new)
  BY <1>1, <1>3 DEF TypeOK, StoreTypeOK, OptimisticRow, new
<1>9. /\ store[r0] \in Record
      /\ server[r0].version \in Nat
      /\ store[r0].version <= server[r0].version
      /\ write.base <= server[r0].version
  BY <1>1 DEF TypeOK, StoreTypeOK, Core, VersionsAreIssued
<1>10. LogIsTrue'
  BY <1>4, <1>5 DEF Core, LogIsTrue
<1>11. AcksAreCommits'
  BY <1>4, <1>5 DEF Core, AcksAreCommits
<1>12. AbsentIsEmpty' /\ MarksAreQueued'
  BY <1>3, <1>7, <1>8 DEF Core, AbsentIsEmpty, MarksAreQueued, Row
<1>13. DirtyIsQueued' /\ (IntentIsDirty => IntentIsDirty')
  <2> DEFINE Optimistic(t) == writes'[t].strategy # "pessimistic"
  <2> SUFFICES ASSUME NEW r \in Rows
               PROVE  /\ store'[r].dirty => RowQueue(r)' # {}
                      /\ IntentIsDirty =>
                           (store'[r].here /\ (\E t \in RowQueue(r)' : Optimistic(t))
                              => store'[r].dirty)
    BY DEF DirtyIsQueued, IntentIsDirty, IsOptimistic
  <2>1. \A t \in Issued : Optimistic(t) = IsOptimistic(t)
    BY <1>4 DEF IsOptimistic
  <2>2. strategy = "pessimistic" => ~Optimistic(new)
    BY <1>1, <1>4
  <2> HIDE DEF Optimistic
  <2>3. \A t \in RowQueue(r) : t \in Issued
    BY <1>5 DEF RowQueue
  <2>4. /\ store[r].dirty => RowQueue(r) # {}
        /\ IntentIsDirty =>
             (store[r].here /\ (\E t \in RowQueue(r) : IsOptimistic(t)) => store[r].dirty)
    BY DEF Core, DirtyIsQueued, IntentIsDirty
  <2>5. CASE r = r0 /\ store'[r0] = store[r0] /\ strategy = "pessimistic"
    BY <2>1, <2>2, <2>3, <2>4, <2>5, <1>6
  <2>6. CASE r = r0 /\ strategy # "pessimistic"
    BY <2>6, <1>6, <1>8 DEF Row, Absent
  <2>7. CASE r # r0
    BY <2>1, <2>3, <2>4, <2>7, <1>6, <1>7
  <2> QED
    BY <2>5, <2>6, <2>7, <1>8
<1>14. VisibleIsCommittedOrPending => VisibleIsCommittedOrPending'
  <2> SUFFICES ASSUME VisibleIsCommittedOrPending, NEW r \in Rows, NEW x, x = store'[r].val
               PROVE  \/ x = Foreign
                      \/ x \in Issued' /\ acks[x] > 0
                      \/ /\ store'[r].dirty
                         /\ x \in RowQueue(r)'
                         /\ writes'[x].strategy # "pessimistic"
    BY <1>5 DEF VisibleIsCommittedOrPending, IsOptimistic
  <2>1. CASE store'[r] = store[r]
    <3>1. \/ x = Foreign
          \/ x \in Issued /\ acks[x] > 0
          \/ /\ store[r].dirty
             /\ x \in RowQueue(r)
             /\ writes[x].strategy # "pessimistic"
      BY <2>1 DEF VisibleIsCommittedOrPending, IsOptimistic
    <3>2. x \in RowQueue(r) => x \in Issued /\ x \in RowQueue(r)'
      BY <1>5, <1>6 DEF RowQueue
    <3> QED
      BY <2>1, <3>1, <3>2, <1>4
  <2>2. CASE r = r0 /\ store'[r0] = Absent
    BY <2>2 DEF Absent
  <2>3. CASE r = r0 /\ strategy # "pessimistic" /\ store'[r0] = Row(write.base, TRUE, new)
    BY <2>3, <1>1, <1>4, <1>6 DEF Row
  <2> QED
    BY <2>1, <2>2, <2>3, <1>7, <1>8
<1>15. WritesAreAccounted'
  BY <1>3, <1>4, <1>5 DEF Core, WritesAreAccounted
<1>16. VersionsAreIssued'
  <2>1. \A r \in Rows : store'[r].version <= server[r].version
    BY <1>7, <1>8, <1>9 DEF Core, VersionsAreIssued, Row, Absent
  <2>2. \A s \in Issued' : writes'[s].base <= server[writes'[s].row].version
    BY <1>1, <1>4, <1>9 DEF Core, VersionsAreIssued
  <2>3. \A s \in queue' : superseded'[s] <= server[writes'[s].row].version
    <3>1. superseded[new] = 0 /\ writes'[new].row = r0
      BY <1>1, <1>4, <1>5 DEF Core, MarksAreQueued
    <3>2. \A s \in queue : superseded[s] <= server[writes[s].row].version
      BY DEF Core, VersionsAreIssued
    <3>3. \A s \in queue : writes'[s] = writes[s]
      BY <1>4, <1>5
    <3> TAKE s \in queue'
    <3>4. superseded'[s] = superseded[s] /\ (s \in queue \/ s = new)
      BY <1>3
    <3>5. CASE s = new
      BY <3>1, <3>4, <3>5, <1>9
    <3>6. CASE s \in queue
      BY <3>2, <3>3, <3>4, <3>6
    <3> QED
      BY <3>4, <3>5, <3>6
  <2> QED
    BY <2>1, <2>2, <2>3, <1>5 DEF VersionsAreIssued
<1> QED
  BY <1>10, <1>11, <1>12, <1>13, <1>14, <1>15, <1>16 DEF Core, Keeps

\* So is write(), under any strategy.
LEMMA IssueWriteSafe ==
  ASSUME CoreInv, NEW r \in Rows, NEW op \in Ops, NEW strategy \in Strategies,
         IssueWrite(r, op, strategy)
  PROVE  Keeps
<1> DEFINE write == [row |-> r, op |-> op, base |-> store[r].version, strategy |-> strategy]
<1>1. write \in Write /\ Mints(write) /\ UNCHANGED <<serverVars, discarded>>
  BY IssueWriteMints DEF CoreInv, TypeOK
<1>2. write.base <= server[write.row].version
  BY DEF CoreInv, Core, VersionsAreIssued
<1> HIDE DEF write
<1> QED
  BY <1>1, <1>2, MintSafe

-----------------------------------------------------------------------------
(* The server.                                                              *)

\* The commit of a change: versions only grow, a first acknowledgement names
\* the new version, and the log's new entry is as true as the old ones.
LEMMA CommitSafe ==
  ASSUME CoreInv, NEW r0 \in Rows, NEW op \in Op, NEW val \in Nat, NEW key \in Nat,
         Commit(r0, op, val, key),
         UNCHANGED <<storeVars, discarded>>,
         acks' \in [Seqs -> Nat],
         \A t \in Seqs :
           \/ acks'[t] = acks[t]
           \/ /\ acks[t] = 0
              /\ acks'[t] = server[r0].version + 1
              /\ t \in Issued
              /\ writes[t].row = r0,
         val # Foreign => val \in Issued /\ acks'[val] > 0,
         key # NoKey => /\ key \in Issued
                        /\ writes[key].row = r0
                        /\ acks'[key] = server[r0].version + 1
  PROVE  Keeps
<1> DEFINE version == server[r0].version + 1
<1> USE DEF CoreInv
<1>1. /\ writes' = writes /\ store' = store /\ queue' = queue /\ superseded' = superseded
      /\ discarded' = discarded /\ Issued' = Issued
  BY DEF storeVars, Issued
<1>2. \A r \in Rows : server[r].version \in Nat
  BY DEF TypeOK
<1>3. /\ server'[r0].version = version
      /\ \A r \in Rows \ {r0} : server'[r] = server[r]
  BY DEF Commit, TypeOK
<1>4. \A r \in Rows : server'[r].version \in Nat /\ server[r].version <= server'[r].version
  BY <1>2, <1>3
<1>5. /\ \A t \in Issued : t \in Seqs /\ writes[t].row \in Rows /\ writes[t].base \in Nat
      /\ \A t \in Seqs : acks[t] \in Nat
      /\ queue \subseteq Issued
  BY IssuedType, QueueIssued DEF TypeOK
<1>6. \A t \in Seqs : acks[t] > 0 => acks'[t] = acks[t]
  BY <1>5
<1>7. LogIsTrue'
  <2> SUFFICES ASSUME NEW e \in log'
               PROVE  /\ e.version <= server'[e.row].version
                      /\ e.val # Foreign => e.val \in Issued /\ acks'[e.val] > 0
                      /\ e.key # NoKey => /\ e.key \in Issued
                                          /\ writes[e.key].row = e.row
                                          /\ acks'[e.key] = e.version
    BY <1>1 DEF LogIsTrue
  <2>1. CASE e \in log
    <3>1. e.row \in Rows /\ e.version \in Nat \ {0}
      BY <2>1 DEF TypeOK, Event
    <3>2. /\ e.version <= server[e.row].version
          /\ e.val # Foreign => e.val \in Issued /\ acks[e.val] > 0
          /\ e.key # NoKey => /\ e.key \in Issued
                              /\ writes[e.key].row = e.row
                              /\ acks[e.key] = e.version
      BY <2>1 DEF Core, LogIsTrue
    <3>3. e.version <= server'[e.row].version
      BY <3>1, <3>2, <1>2, <1>4
    <3> QED
      BY <3>1, <3>2, <3>3, <1>5, <1>6
  <2>2. CASE e \notin log
    <3>1. e = [row |-> r0, op |-> op, version |-> version,
               val |-> IF op = "upsert" THEN val ELSE Foreign, key |-> key]
      BY <2>2 DEF Commit
    <3>2. /\ e.row = r0 /\ e.version = version /\ e.key = key
          /\ e.val \in {val, Foreign}
      BY <3>1
    <3> QED
      BY <3>2, <1>2, <1>3
  <2> QED
    BY <2>1, <2>2
<1>8. AcksAreCommits'
  <2> SUFFICES ASSUME NEW t \in Seqs, acks'[t] > 0
               PROVE  t \in Issued /\ acks'[t] <= server'[writes[t].row].version
    BY <1>1 DEF AcksAreCommits, Seqs
  <2>1. CASE acks'[t] = acks[t]
    <3>1. t \in Issued /\ acks[t] <= server[writes[t].row].version
      BY <2>1 DEF Core, AcksAreCommits
    <3> QED
      BY <2>1, <3>1, <1>2, <1>4, <1>5
  <2>2. CASE t \in Issued /\ writes[t].row = r0 /\ acks'[t] = version
    BY <2>2, <1>2, <1>3
  <2> QED
    BY <2>1, <2>2
<1>9. AbsentIsEmpty' /\ MarksAreQueued' /\ DirtyIsQueued' /\ (IntentIsDirty => IntentIsDirty')
  BY <1>1 DEF Core, AbsentIsEmpty, MarksAreQueued, DirtyIsQueued, IntentIsDirty, RowQueue,
     IsOptimistic
<1>10. VisibleIsCommittedOrPending => VisibleIsCommittedOrPending'
  <2>1. \A x \in Issued : acks[x] > 0 => acks'[x] > 0
    BY <1>5, <1>6
  <2> QED
    BY <1>1, <2>1 DEF VisibleIsCommittedOrPending, RowQueue, IsOptimistic
<1>11. WritesAreAccounted'
  BY <1>1, <1>5, <1>6 DEF Core, WritesAreAccounted
<1>12. VersionsAreIssued'
  <2>1. \A r \in Rows : store[r].version \in Nat
    BY DEF TypeOK, StoreTypeOK, Record
  <2>2. \A r \in Rows : store[r].version <= server'[r].version
    BY <2>1, <1>2, <1>4 DEF Core, VersionsAreIssued
  <2>3. \A s \in Issued : writes[s].base <= server'[writes[s].row].version
    BY <1>2, <1>4, <1>5 DEF Core, VersionsAreIssued
  <2>4. \A s \in queue : superseded[s] \in Nat
    BY <1>5 DEF TypeOK, StoreTypeOK
  <2>5. \A s \in queue : superseded[s] <= server'[writes[s].row].version
    BY <2>4, <1>2, <1>4, <1>5 DEF Core, VersionsAreIssued
  <2> QED
    BY <2>2, <2>3, <2>5, <1>1 DEF VersionsAreIssued
<1> QED
  BY <1>7, <1>8, <1>9, <1>10, <1>11, <1>12 DEF Core, Keeps

\* The commit of one of this replica's writes is safe.
LEMMA ServerCommitSafe ==
  ASSUME CoreInv, NEW s \in Issued, ServerCommit(s)
  PROVE  Keeps
<1> DEFINE r0 == writes[s].row
<1>1. /\ s \in Seqs /\ s \in Nat \ {0} /\ r0 \in Rows /\ writes[s].op \in Op
      /\ server[r0].version \in Nat
  BY IssuedType DEF CoreInv, TypeOK, Write
<1>2. /\ acks[s] = 0
      /\ acks' = [acks EXCEPT ![s] = server[r0].version + 1]
      /\ Commit(r0, writes[s].op, s, s)
      /\ UNCHANGED <<storeVars, discarded>>
  BY DEF ServerCommit
<1>3. /\ acks' \in [Seqs -> Nat]
      /\ acks'[s] = server[r0].version + 1
      /\ \A t \in Seqs \ {s} : acks'[t] = acks[t]
  BY <1>1, <1>2 DEF CoreInv, TypeOK
<1> QED
  BY <1>1, <1>2, <1>3, CommitSafe

\* The commit of a change of another client is safe.
LEMMA ForeignCommitSafe ==
  ASSUME CoreInv, NEW r \in Rows, NEW op \in Ops, ForeignCommit(r, op)
  PROVE  Keeps
BY CommitSafe, ReplicaAssumption DEF ForeignCommit, CoreInv, TypeOK, Foreign, NoKey

\* Whichever it is, the server commits one change of one row.
LEMMA ServerIsCommit ==
  ASSUME CoreInv, Server
  PROVE  \E r \in Rows, op \in Op, val \in Nat, key \in Nat : Commit(r, op, val, key)
<1>1. ASSUME NEW s \in Issued, ServerCommit(s)
      PROVE  Commit(writes[s].row, writes[s].op, s, s)
             /\ writes[s].row \in Rows /\ writes[s].op \in Op /\ s \in Nat
  BY <1>1, IssuedType DEF ServerCommit, CoreInv, TypeOK, Write
<1>2. ASSUME NEW r \in Rows, NEW op \in Ops, ForeignCommit(r, op)
      PROVE  Commit(r, op, Foreign, NoKey) /\ op \in Op /\ Foreign \in Nat /\ NoKey \in Nat
  BY <1>2, ReplicaAssumption DEF ForeignCommit, Foreign, NoKey
<1> QED
  BY <1>1, <1>2 DEF Server

-----------------------------------------------------------------------------
(* The invariant.                                                            *)

\* The invariant holds initially.
LEMMA InitSafe == Init => IInv
<1> SUFFICES ASSUME Init PROVE Core /\ IntentIsDirty /\ VisibleIsCommittedOrPending
  BY InitType DEF IInv, CoreInv
<1>1. Issued = {} /\ queue = {} /\ log = {}
  BY DEF Init, StoreInit, Issued
<1>2. \A r \in Rows : store[r] = Absent /\ server[r].version = 0
  BY DEF Init, StoreInit
<1>3. \A s \in Seqs : acks[s] = 0 /\ superseded[s] = 0
  BY DEF Init, StoreInit
<1>4. LogIsTrue /\ AcksAreCommits /\ AbsentIsEmpty /\ MarksAreQueued
  BY <1>1, <1>2, <1>3 DEF LogIsTrue, AcksAreCommits, AbsentIsEmpty, MarksAreQueued
<1>5. DirtyIsQueued /\ IntentIsDirty /\ VisibleIsCommittedOrPending
  BY <1>2 DEF DirtyIsQueued, IntentIsDirty, VisibleIsCommittedOrPending, Absent
<1>6. WritesAreAccounted /\ VersionsAreIssued
  BY <1>1, <1>2 DEF WritesAreAccounted, VersionsAreIssued, Absent
<1> QED
  BY <1>4, <1>5, <1>6 DEF Core

\* Every step keeps the invariant: one case per action.
LEMMA SafeStep == IInv /\ [Next]_vars => IInv'
<1> SUFFICES ASSUME CoreInv, IntentIsDirty, VisibleIsCommittedOrPending, [Next]_vars
             PROVE  Keeps
  BY TypeStep DEF IInv, CoreInv, Keeps
<1>1. ASSUME NEW r \in Rows, NEW op \in Ops, NEW strategy \in Strategies,
             IssueWrite(r, op, strategy)
      PROVE  Keeps
  BY <1>1, IssueWriteSafe
<1>2. ASSUME NEW s \in Issued, CallAcked(s) PROVE Keeps
  BY <1>2, SettleSafe DEF CallAcked
<1>3. ASSUME NEW s \in Issued, CallFailed(s) PROVE Keeps
  BY <1>3, UntouchedSafe DEF CallFailed
<1>4. CASE \E f \in Flushes : FlushStart(f)
  BY <1>4, UntouchedSafe DEF FlushStart
<1>5. CASE \E f \in Flushes : FlushAcked(f)
  BY <1>5, SettleSafe DEF FlushAcked
<1>6. CASE \E f \in Flushes : FlushFailed(f)
  BY <1>6, UntouchedSafe DEF FlushFailed
<1>7. CASE Reload
  BY <1>7, UntouchedSafe DEF Reload
<1>8. ASSUME NEW s \in Issued, ServerCommit(s) PROVE Keeps
  BY <1>8, ServerCommitSafe
<1>9. ASSUME NEW r \in Rows, NEW op \in Ops, ForeignCommit(r, op) PROVE Keeps
  BY <1>9, ForeignCommitSafe
<1>10. ASSUME NEW e \in log, NEW t \in Transports, Deliver(e, t) PROVE Keeps
  BY <1>10, DeliverSafe
<1>11. CASE UNCHANGED vars
  BY <1>11, UntouchedSafe DEF vars
<1> QED
  BY <1>1, <1>2, <1>3, <1>4, <1>5, <1>6, <1>7, <1>8, <1>9, <1>10, <1>11
     DEF Next, Client, Application, Server

\* The inductive invariant holds in every behaviour.
LEMMA Inductive == Spec => []IInv
BY InitSafe, SafeStep, PTL DEF Spec

\* A dirty row always has a queued write, and a present row whose optimistic
\* write is queued is dirty: in every interleaving of writes, acks, echoes,
\* conflicts, failures and reloads.
THEOREM DurableIntent == Spec => []IntentIsDurable
BY Inductive, PTL DEF IInv, CoreInv, Core, IntentIsDurable

\* What a row shows is committed or pending: no payload of a write that was
\* dropped, nor of a pessimistic write that is not acknowledged, is ever shown.
THEOREM VisibleTruth == Spec => []VisibleIsCommittedOrPending
BY Inductive, PTL DEF IInv, CoreInv, Core

\* No write is ever lost: it is queued, committed, or was dropped by a conflict.
THEOREM NoWriteLost == Spec => []WritesAreAccounted
BY Inductive, PTL DEF IInv, CoreInv, Core

\* The replica never gets ahead of the server.
THEOREM NeverAhead == Spec => []VersionsAreIssued
BY Inductive, PTL DEF IInv, CoreInv, Core

-----------------------------------------------------------------------------
(* The refinement: every behaviour of SyncReplica, read as a ledger of writes, *)
(* is a behaviour of WriteLedger.  Each action maps to the step of the ledger   *)
(* it stands for, or to none.                                                *)

\* What the mapping shows the ledger.
IssuedRows == [s \in Issued |-> writes[s].row]
Accepted == {s \in Issued : acks[s] > 0}

\* The rows of a sequence of writes are a sequence, of the same length.
LEMMA RowsOfWrites ==
  ASSUME NEW ws \in Seq(Write)
  PROVE  LET rows == [s \in 1 .. Len(ws) |-> ws[s].row]
         IN  rows \in Seq(Rows) /\ Len(rows) = Len(ws)
<1> DEFINE n == Len(ws)
           rows == [s \in 1 .. n |-> ws[s].row]
<1>1. n \in Nat /\ \A s \in 1 .. n : ws[s] \in Write
  BY LenProperties
<1>2. rows \in [1 .. n -> Rows]
  BY <1>1 DEF Write
<1>3. rows \in Seq(Rows)
  BY <1>1, <1>2, SeqDef
<1>4. Len(rows) \in Nat /\ 1 .. Len(rows) = 1 .. n
  BY <1>2, <1>3, LenProperties
<1>5. Len(rows) = n
  BY <1>1, <1>4
<1> QED
  BY <1>3, <1>5

\* The ledger's writes are those of the client, in number too.
LEMMA IssuedRowsType ==
  ASSUME TypeOK
  PROVE  IssuedRows \in Seq(Rows) /\ Len(IssuedRows) = Len(writes)
BY RowsOfWrites DEF IssuedRows, Issued, TypeOK, StoreTypeOK

\* A ledger step that issues nothing new.
LEMMA SameIssued ==
  ASSUME writes' = writes
  PROVE  IssuedRows' = IssuedRows /\ Issued' = Issued
BY DEF IssuedRows, Issued

\* The mapping starts with an empty ledger.
LEMMA LedgerStarts == Init => Ledger!LedgerInit
<1> SUFFICES ASSUME Init PROVE Ledger!LedgerInit
  OBVIOUS
<1>1. writes = << >> /\ queue = {} /\ discarded = {} /\ Issued = {}
  BY DEF Init, StoreInit, Issued
<1>2. IssuedRows = << >>
  BY <1>1 DEF IssuedRows
<1> QED
  BY <1>1, <1>2 DEF Ledger!LedgerInit, IssuedRows

\* write(): the ledger issues a write of the row.
LEMMA IssueIsIssue ==
  ASSUME CoreInv, CoreInv', NEW r \in Rows, NEW op \in Ops, NEW strategy \in Strategies,
         IssueWrite(r, op, strategy)
  PROVE  Ledger!Issue(r)
<1> DEFINE new == Len(writes) + 1
           write == [row |-> r, op |-> op, base |-> store[r].version, strategy |-> strategy]
<1>1. /\ Len(writes) < MaxWrites
      /\ writes' = Append(writes, write)
      /\ queue' = queue \cup {new}
      /\ acks' = acks /\ discarded' = discarded
  BY DEF IssueWrite, Enqueue, EnqueueOptimistic, Enqueued, NextSeq, serverVars
<1>2. writes \in Seq(Write) /\ Len(writes) \in Nat
  BY DEF CoreInv, TypeOK, StoreTypeOK
<1>3. /\ Len(writes') = new
      /\ \A s \in 1 .. Len(writes) : writes'[s] = writes[s]
      /\ writes'[new].row = r
  BY <1>1, <1>2
<1>4. IssuedRows \in Seq(Rows) /\ Len(IssuedRows) = Len(writes)
  BY IssuedRowsType DEF CoreInv
<1>5. IssuedRows' \in Seq(Rows) /\ Len(IssuedRows') = new
  BY <1>3, RowsOfWrites DEF CoreInv, IssuedRows, Issued, TypeOK, StoreTypeOK
<1>6. IssuedRows' = Append(IssuedRows, r)
  <2>1. \A s \in 1 .. new : IssuedRows'[s] = Append(IssuedRows, r)[s]
    BY <1>2, <1>3, <1>4 DEF IssuedRows, Issued
  <2>2. Append(IssuedRows, r) \in Seq(Rows) /\ Len(Append(IssuedRows, r)) = new
    BY <1>4
  <2> QED
    BY <2>1, <2>2, <1>5, SeqEqual
<1>7. Accepted' = Accepted
  <2>1. Issued' = Issued \cup {new}
    BY <1>2, <1>3 DEF Issued
  <2>2. ~(acks[new] > 0)
    <3>1. new \in Seqs /\ new \notin Issued
      BY <1>1, <1>2, MaxWritesAssumption DEF Seqs, Issued
    <3> QED
      BY <3>1 DEF CoreInv, Core, AcksAreCommits
  <2> QED
    BY <2>1, <2>2, <1>1 DEF Accepted
<1> QED
  BY <1>1, <1>4, <1>6, <1>7 DEF Ledger!Issue, IssuedRows, Accepted

\* The server's commit: the ledger accepts the write.
LEMMA CommitIsAccept ==
  ASSUME CoreInv, NEW s \in Issued, ServerCommit(s)
  PROVE  Ledger!Accept(s)
<1>1. writes' = writes /\ queue' = queue /\ discarded' = discarded
  BY DEF ServerCommit, storeVars
<1>2. s \in Seqs /\ server[writes[s].row].version \in Nat
  BY IssuedType DEF CoreInv, TypeOK
<1>3. acks'[s] > 0 /\ \A t \in Seqs \ {s} : acks'[t] = acks[t]
  BY <1>2 DEF ServerCommit, CoreInv, TypeOK
<1>4. Issued \subseteq Seqs
  BY IssuedType DEF CoreInv, TypeOK
<1>5. Accepted' = Accepted \cup {s}
  BY <1>1, <1>3, <1>4, SameIssued DEF Accepted
<1>6. s \in 1 .. Len(IssuedRows)
  BY IssuedRowsType DEF CoreInv, Issued
<1> QED
  BY <1>1, <1>5, <1>6, SameIssued DEF Ledger!Accept, IssuedRows, Accepted

\* A transaction that retires a committed write settles it.
LEMMA RetireIsSettled ==
  ASSUME CoreInv, NEW s \in queue, NEW version, acks[s] > 0, Retire(s, version),
         UNCHANGED <<writes, serverVars, discarded>>
  PROVE  Ledger!Settled(s)
<1>1. s \in Accepted
  BY QueueIssued DEF CoreInv, TypeOK, Accepted
<1>2. queue' = queue \ {s} /\ acks' = acks
  BY DEF Retire, serverVars
<1> QED
  BY <1>1, <1>2, SameIssued DEF Ledger!Settled, IssuedRows, Accepted

\* An event that is applied or ignored, or a step of the application that touches
\* neither the queue nor the server, is no step of the ledger.
LEMMA NoLedgerStep ==
  ASSUME UNCHANGED <<writes, queue, acks, discarded>>
  PROVE  UNCHANGED Ledger!ledger
BY SameIssued DEF Ledger!ledger, IssuedRows

-----------------------------------------------------------------------------
\* The settlement of an acknowledged write settles it, if it is still queued.
LEMMA SettleIsSettled ==
  ASSUME CoreInv, NEW s, acks[s] > 0, Settle(s), UNCHANGED <<serverVars, discarded>>
  PROVE  Ledger!Settled(s) \/ UNCHANGED Ledger!ledger
<1>1. CASE s \in queue
  <2>1. Retire(s, acks[s]) /\ writes' = writes
    BY <1>1 DEF Settle, SettleAck, SettlePessimistic
  <2> QED
    BY <1>1, <2>1, RetireIsSettled
<1>2. CASE s \notin queue
  BY <1>2, NoLedgerStep DEF Settle, storeVars, serverVars
<1> QED
  BY <1>1, <1>2

\* A change settles the write it echoes, or drops what is pending of its row, or is
\* no step of the ledger.
LEMMA ChangeIsDrop ==
  ASSUME CoreInv, NEW event, TrueEvent(event), ApplyChange(event), UNCHANGED serverVars
  PROVE  [Ledger!LedgerNext]_(Ledger!ledger)
<1>1. writes' = writes
  BY DEF ApplyChange, AdoptEcho, ApplyServer, ResolveConflict, storeVars
<1>2. /\ \A s \in Issued : s \in 1 .. Len(IssuedRows)
      /\ queue \subseteq Issued
  BY IssuedRowsType, QueueIssued DEF CoreInv, Issued, TypeOK
<1>3. CASE \E s \in EchoedWrites(event) : AdoptEcho(event, s) /\ UNCHANGED discarded
  <2>1. PICK s \in EchoedWrites(event) : AdoptEcho(event, s) /\ UNCHANGED discarded
    BY <1>3
  <2>2. s \in queue /\ event.key = s
    BY DEF EchoedWrites, RowQueue, IsEchoOf
  <2>3. s # NoKey
    BY <2>2, QueueIssued, IssuedType DEF CoreInv, TypeOK, NoKey
  <2>4. acks[s] > 0
    BY <2>2, <2>3 DEF TrueEvent
  <2>5. Ledger!Settled(s)
    BY <1>1, <2>1, <2>2, <2>4, RetireIsSettled DEF AdoptEcho
  <2> QED
    BY <1>2, <2>2, <2>5 DEF Ledger!LedgerNext, IssuedRows
<1>4. CASE ResolveConflict(event, RowQueue(event.row)) /\ discarded' = discarded \cup RowQueue(event.row)
  <2>1. RowQueue(event.row) = {s \in queue : IssuedRows[s] = event.row}
    BY QueueIssued DEF RowQueue, IssuedRows, CoreInv, TypeOK
  <2>2. queue' = queue \ RowQueue(event.row)
    BY <1>4 DEF ResolveConflict
  <2>3. Ledger!Drop(event.row)
    BY <1>1, <1>4, <2>1, <2>2, SameIssued
       DEF Ledger!Drop, Ledger!PendingOf, IssuedRows, serverVars
  <2> QED
    BY <2>3 DEF Ledger!LedgerNext, TrueEvent
<1>5. CASE UNCHANGED <<queue, discarded>>
  BY <1>1, <1>5, NoLedgerStep DEF serverVars
<1> QED
  BY <1>3, <1>4, <1>5 DEF ApplyChange, ApplyServer, storeVars

\* So does a delivered event, over any transport.
LEMMA DeliverIsDrop ==
  ASSUME CoreInv, NEW e \in log, NEW t, Deliver(e, t)
  PROVE  [Ledger!LedgerNext]_(Ledger!ledger)
<1> DEFINE event == Decoded(e, t)
<1>1. TrueEvent(event) /\ ApplyChange(event) /\ UNCHANGED serverVars
  BY DecodedTrue DEF Deliver
<1> HIDE DEF event
<1> QED
  BY <1>1, ChangeIsDrop

\* Every step of the client, the server or the network is a step of the ledger or
\* none.
LEMMA StepIsLedgerStep ==
  CoreInv /\ CoreInv' /\ [Next]_vars => [Ledger!LedgerNext]_(Ledger!ledger)
<1> SUFFICES ASSUME CoreInv, CoreInv', [Next]_vars
             PROVE  Ledger!LedgerNext \/ UNCHANGED Ledger!ledger
  OBVIOUS
<1>0. /\ \A s \in Issued : s \in 1 .. Len(IssuedRows)
      /\ queue \subseteq Issued
  BY IssuedRowsType, QueueIssued DEF CoreInv, Issued, TypeOK
<1>1. ASSUME NEW r \in Rows, NEW op \in Ops, NEW strategy \in Strategies,
             IssueWrite(r, op, strategy)
      PROVE  Ledger!LedgerNext
  BY <1>1, IssueIsIssue DEF Ledger!LedgerNext
<1>2. ASSUME NEW s \in Issued, CallAcked(s)
      PROVE  Ledger!LedgerNext \/ UNCHANGED Ledger!ledger
  BY <1>0, <1>2, SettleIsSettled DEF CallAcked, Ledger!LedgerNext, IssuedRows
<1>3. ASSUME NEW s \in Issued, CallFailed(s) PROVE UNCHANGED Ledger!ledger
  BY <1>3, NoLedgerStep DEF CallFailed, storeVars, serverVars
<1>4. CASE \E f \in Flushes : FlushStart(f)
  BY <1>4, NoLedgerStep DEF FlushStart, storeVars, serverVars
<1>5. ASSUME NEW f \in Flushes, FlushAcked(f)
      PROVE  Ledger!LedgerNext \/ UNCHANGED Ledger!ledger
  <2>1. Ledger!Settled(Sending(f)) \/ UNCHANGED Ledger!ledger
    BY <1>5, SettleIsSettled DEF FlushAcked
  <2>2. Ledger!Settled(Sending(f)) => Sending(f) \in queue
    BY DEF Ledger!Settled
  <2> QED
    BY <1>0, <2>1, <2>2 DEF Ledger!LedgerNext, IssuedRows
<1>6. CASE \E f \in Flushes : FlushFailed(f)
  BY <1>6, NoLedgerStep DEF FlushFailed, storeVars, serverVars
<1>7. CASE Reload
  BY <1>7, NoLedgerStep DEF Reload, storeVars, serverVars
<1>8. ASSUME NEW s \in Issued, ServerCommit(s) PROVE Ledger!LedgerNext
  BY <1>0, <1>8, CommitIsAccept DEF Ledger!LedgerNext, IssuedRows
<1>9. ASSUME NEW r \in Rows, NEW op \in Ops, ForeignCommit(r, op)
      PROVE  UNCHANGED Ledger!ledger
  BY <1>9, NoLedgerStep DEF ForeignCommit, storeVars
<1>10. ASSUME NEW e \in log, NEW t \in Transports, Deliver(e, t)
       PROVE  Ledger!LedgerNext \/ UNCHANGED Ledger!ledger
  BY <1>10, DeliverIsDrop
<1>11. CASE UNCHANGED vars
  BY <1>11, NoLedgerStep DEF vars, storeVars, serverVars
<1> QED
  BY <1>1, <1>2, <1>3, <1>4, <1>5, <1>6, <1>7, <1>8, <1>9, <1>10, <1>11
     DEF Next, Client, Application, Server

\* The client implements the ledger: whatever is lost, repeated or reordered, and
\* for any mix of strategies, operations and transports, a write leaves the queue
\* only when it is committed or when a conflict drops its row's writes together,
\* and it never comes back.
THEOREM ClientKeepsLedger == Spec => KeepsLedger
<1>1. IInv => CoreInv
  BY DEF IInv
<1> QED
  BY <1>1, LedgerStarts, Inductive, StepIsLedgerStep, PTL DEF Spec, KeepsLedger, Ledger!LedgerSpec

=============================================================================
