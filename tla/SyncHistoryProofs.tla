-------------------------- MODULE SyncHistoryProofs --------------------------
(***************************************************************************)
(* What the replica's past says of its present, for any rows and bounds: the   *)
(* newest edit stays visible, what is ignored is held, the latest change       *)
(* converges, settled deletes stay, versions do not go back, and own upserts   *)
(* do not conflict.                                                         *)
(*                                                                         *)
(* The safety invariant says that the replica is never ahead of the server;    *)
(* History adds that the log has the server's latest change and that the       *)
(* marks on queued writes are exactly what later writes of the row left.       *)
(***************************************************************************)
EXTENDS SyncReplicaProofs

\* Writes are of the kinds the application uses.
WritesFit == \A s \in Issued : writes[s].op \in Ops /\ writes[s].strategy \in Strategies

\* The log tells what the server holds of a row, and which write made it so.
LogHasLatest ==
  \A r \in Rows :
    \/ server[r].version = 0 /\ ~server[r].here
    \/ \E e \in log : e.row = r /\ e.version = server[r].version

LatestIsServer ==
  \A e \in log :
    e.version = server[e.row].version =>
      server[e.row].here = (e.op = "upsert") /\ server[e.row].val = e.val

LogFitsWrites ==
  \A e \in log : e.op \in Ops /\ (e.key # NoKey => e.op = writes[e.key].op)

AcksAreDistinct ==
  \A s, t \in Issued :
    acks[s] > 0 /\ acks[s] = acks[t] /\ writes[s].row = writes[t].row => s = t

ServerHistory ==
  WritesFit /\ LogHasLatest /\ LatestIsServer /\ LogFitsWrites /\ AcksAreDistinct

\* A settled write was acknowledged or echoed: it left the queue, but not because
\* of a conflict.  It marked the older writes of its row, and nothing else did.
Settled == Issued \ (queue \cup discarded)

DroppedHaveLeft == discarded \cap queue = {}

MarksAreCommits ==
  \A t \in queue : superseded[t] > 0 =>
    \E u \in Settled : u > t /\ writes[u].row = writes[t].row /\ acks[u] = superseded[t]

SettledIsMarked ==
  \A s \in Settled : \A t \in queue :
    writes[s].row = writes[t].row /\ t < s => superseded[t] >= acks[s]

QueueHistory == DroppedHaveLeft /\ MarksAreCommits /\ SettledIsMarked

History == ServerHistory /\ QueueHistory

\* A pessimistic settlement shows its payload over an absent row, so it must not
\* meet optimistic deletes.
NoMixedDeletes == "pessimistic" \notin Strategies \/ "delete" \notin Ops
KeepsNewest == NoMixedDeletes => NewestEditIsVisible

HistoryInv == IInv /\ History /\ KeepsNewest

-----------------------------------------------------------------------------
(* The history, transaction by transaction.                                  *)

\* A step that commits nothing and mints nothing does not change what the server did.
LEMMA ServerHistoryStays ==
  ASSUME ServerHistory, UNCHANGED <<writes, serverVars>>
  PROVE  ServerHistory'
BY DEF ServerHistory, WritesFit, LogHasLatest, LatestIsServer, LogFitsWrites, AcksAreDistinct,
   serverVars, Issued

\* A step that leaves the queue and the history alone.
LEMMA QueueHistoryStays ==
  ASSUME QueueHistory, UNCHANGED <<writes, queue, superseded, acks, discarded>>
  PROVE  QueueHistory'
BY DEF QueueHistory, DroppedHaveLeft, MarksAreCommits, SettledIsMarked, Settled, Issued

\* A newly minted write has no mark and is newer than every other.
LEMMA MintHistory ==
  ASSUME CoreInv, History, NEW write \in Write, write.op \in Ops, write.strategy \in Strategies,
         Mints(write), UNCHANGED <<serverVars, discarded>>
  PROVE  History'
<1> DEFINE new == NextSeq
<1> USE DEF CoreInv
<1>1. /\ writes' = Append(writes, write) /\ Len(writes) < MaxWrites
      /\ queue' = queue \cup {new} /\ superseded' = superseded
  BY DEF Mints, Enqueue, EnqueueOptimistic, Enqueued
<1>2. /\ Issued' = Issued \cup {new}
      /\ new \notin Issued
      /\ new \in Seqs
      /\ writes'[new] = write
      /\ \A s \in Issued : writes'[s] = writes[s]
  BY <1>1, Minting DEF TypeOK
<1>3. /\ queue \subseteq Issued /\ discarded \subseteq Issued
      /\ acks' = acks /\ server' = server /\ log' = log /\ discarded' = discarded
  BY QueueIssued DEF TypeOK, serverVars
<1>4. acks[new] = 0 /\ superseded[new] = 0
  <2>1. acks[new] \in Nat /\ superseded[new] \in Nat
    BY <1>2 DEF TypeOK, StoreTypeOK
  <2> QED
    BY <2>1, <1>2, <1>3 DEF Core, AcksAreCommits, MarksAreQueued
<1>5. \A s \in Issued : s < new /\ s \in Nat
  BY IssuedType DEF TypeOK, NextSeq, StoreTypeOK, Issued
<1> HIDE DEF new
<1>6. ServerHistory'
  <2>1. WritesFit'
    BY <1>2 DEF History, ServerHistory, WritesFit
  <2>2. LogHasLatest' /\ LatestIsServer'
    BY <1>3 DEF History, ServerHistory, LogHasLatest, LatestIsServer
  <2>3. LogFitsWrites'
    BY <1>2, <1>3 DEF History, ServerHistory, LogFitsWrites, Core, LogIsTrue
  <2>4. AcksAreDistinct'
    BY <1>2, <1>3, <1>4 DEF History, ServerHistory, AcksAreDistinct
  <2> QED
    BY <2>1, <2>2, <2>3, <2>4 DEF ServerHistory
<1>7. QueueHistory'
  <2>1. Settled' = Settled
    BY <1>1, <1>2, <1>3 DEF Settled
  <2>2. DroppedHaveLeft'
    BY <1>1, <1>2, <1>3 DEF History, QueueHistory, DroppedHaveLeft
  <2>3. MarksAreCommits'
    <3> SUFFICES ASSUME NEW t \in queue', superseded'[t] > 0
                 PROVE  \E u \in Settled :
                          u > t /\ writes'[u].row = writes'[t].row /\ acks[u] = superseded[t]
      BY <2>1, <1>1, <1>3 DEF MarksAreCommits
    <3>1. t \in queue /\ t \in Issued
      BY <1>1, <1>3, <1>4
    <3> QED
      BY <3>1, <1>1, <1>2 DEF History, QueueHistory, MarksAreCommits, Settled
  <2>4. SettledIsMarked'
    <3> SUFFICES ASSUME NEW s \in Settled, NEW t \in queue', writes'[s].row = writes'[t].row, t < s
                 PROVE  superseded[t] >= acks[s]
      BY <2>1, <1>1, <1>3 DEF SettledIsMarked
    <3>1. s \in Issued
      BY DEF Settled
    <3>2. t \in queue
      BY <3>1, <1>1, <1>2, <1>5 DEF Seqs
    <3> QED
      BY <3>1, <3>2, <1>2, <1>3 DEF History, QueueHistory, SettledIsMarked
  <2> QED
    BY <2>2, <2>3, <2>4 DEF QueueHistory
<1> QED
  BY <1>6, <1>7 DEF History

\* Retiring a committed write marks what is older, with the version it committed at.
LEMMA RetireHistory ==
  ASSUME CoreInv, History, NEW s \in queue, acks[s] > 0, Retire(s, acks[s]),
         UNCHANGED <<writes, serverVars, discarded>>
  PROVE  History'
<1> USE DEF CoreInv
<1>1. /\ queue' = queue \ {s} /\ queue \subseteq Issued /\ Issued' = Issued
      /\ acks' = acks /\ writes' = writes /\ discarded' = discarded
  BY QueueIssued DEF Retire, TypeOK, serverVars, Issued
<1>2. \A t \in Issued : t \in Seqs /\ t \in Nat
  BY IssuedType DEF TypeOK
<1>3. /\ \A t \in queue' : superseded[t] \in Nat
      /\ acks[s] \in Nat
  BY <1>1, <1>2 DEF TypeOK, StoreTypeOK
<1>4. \A t \in queue' :
        superseded'[t] = IF t \in OlderThan(s) THEN Later(superseded[t], acks[s]) ELSE superseded[t]
  BY <1>1, <1>2 DEF Retire
<1>5. s \in Issued /\ s \notin discarded
  BY <1>1 DEF History, QueueHistory, DroppedHaveLeft
<1>6. Settled' = Settled \cup {s}
  BY <1>1, <1>5 DEF Settled
<1>7. ServerHistory'
  BY ServerHistoryStays DEF History
<1>8. DroppedHaveLeft'
  BY <1>1 DEF History, QueueHistory, DroppedHaveLeft
<1>9. MarksAreCommits'
  <2> SUFFICES ASSUME NEW t \in queue', superseded'[t] > 0
               PROVE  \E u \in Settled' :
                        u > t /\ writes[u].row = writes[t].row /\ acks[u] = superseded'[t]
    BY <1>1 DEF MarksAreCommits
  <2>1. t \in queue /\ t \in Issued
    BY <1>1
  <2>2. CASE superseded'[t] = superseded[t]
    BY <2>1, <2>2, <1>6 DEF History, QueueHistory, MarksAreCommits
  <2>3. CASE t \in OlderThan(s) /\ superseded'[t] = acks[s]
    <3>1. s > t /\ writes[s].row = writes[t].row
      BY <2>1, <2>3, <1>2, <1>5 DEF OlderThan, Others, RowQueue
    <3> QED
      BY <2>3, <3>1, <1>6
  <2> QED
    BY <2>2, <2>3, <1>4 DEF Later
<1>10. SettledIsMarked'
  <2> SUFFICES ASSUME NEW u \in Settled', NEW t \in queue', writes[u].row = writes[t].row, t < u
               PROVE  superseded'[t] >= acks[u]
    BY <1>1 DEF SettledIsMarked
  <2>1. t \in queue /\ t \in Issued /\ superseded[t] \in Nat /\ acks[u] \in Nat
    BY <1>1, <1>2, <1>3, <1>5, <1>6 DEF Settled, TypeOK
  <2>2. CASE u = s
    <3>1. t \in OlderThan(s)
      BY <2>1, <2>2, <1>1 DEF OlderThan, Others, RowQueue
    <3> QED
      BY <2>1, <2>2, <3>1, <1>4 DEF Later
  <2>3. CASE u \in Settled
    <3>1. superseded[t] >= acks[u]
      BY <2>1, <2>3 DEF History, QueueHistory, SettledIsMarked
    <3> QED
      BY <3>1, <2>1, <1>3, <1>4 DEF Later
  <2> QED
    BY <2>2, <2>3, <1>6
<1> QED
  BY <1>7, <1>8, <1>9, <1>10 DEF History, QueueHistory

\* Dropping writes takes them out of the history of the queue.
LEMMA DropHistory ==
  ASSUME CoreInv, History, NEW dropped, dropped \subseteq queue,
         queue' = queue \ dropped,
         \A t \in queue' : superseded'[t] = superseded[t],
         discarded' = discarded \cup dropped,
         UNCHANGED <<writes, serverVars>>
  PROVE  History'
<1>1. /\ writes' = writes /\ acks' = acks /\ Issued' = Issued
  BY DEF serverVars, Issued
<1>2. Settled' = Settled
  BY <1>1 DEF Settled
<1>3. QueueHistory'
  BY <1>1, <1>2 DEF History, QueueHistory, DroppedHaveLeft, MarksAreCommits, SettledIsMarked
<1> QED
  BY <1>3, ServerHistoryStays DEF History

\* A commit adds the row's latest change to the log; no other write has its version.
LEMMA CommitHistory ==
  ASSUME CoreInv, History, NEW r0 \in Rows, NEW op \in Ops, NEW val \in Nat, NEW key \in Nat,
         Commit(r0, op, val, key),
         UNCHANGED <<storeVars, discarded>>,
         acks' \in [Seqs -> Nat],
         \A t \in Seqs :
           \/ acks'[t] = acks[t]
           \/ acks[t] = 0 /\ t = key,
         key # NoKey => /\ key \in Issued
                        /\ writes[key].row = r0
                        /\ writes[key].op = op
                        /\ acks'[key] = server[r0].version + 1
  PROVE  History'
<1> DEFINE version == server[r0].version + 1
           change == [row |-> r0, op |-> op, version |-> version,
                      val |-> IF op = "upsert" THEN val ELSE Foreign, key |-> key]
<1> USE DEF CoreInv
<1>1. /\ writes' = writes /\ queue' = queue /\ superseded' = superseded
      /\ discarded' = discarded /\ Issued' = Issued /\ Settled' = Settled
  BY DEF storeVars, Issued, Settled
<1>2. /\ \A r \in Rows : server[r].version \in Nat
      /\ \A t \in Issued : t \in Seqs /\ t \in Nat \ {0} /\ acks[t] \in Nat /\ writes[t].row \in Rows
  BY IssuedType DEF TypeOK
<1>3. /\ server'[r0].version = version
      /\ server'[r0].here = (op = "upsert")
      /\ server'[r0].val = change.val
      /\ \A r \in Rows \ {r0} : server'[r] = server[r]
      /\ log' = log \cup {change}
  BY DEF Commit, TypeOK
<1>4. /\ change.row = r0 /\ change.version = version /\ change.op = op /\ change.key = key
      /\ op \in Op
  BY ReplicaAssumption
<1> HIDE DEF change
<1>5. WritesFit'
  BY <1>1 DEF History, ServerHistory, WritesFit
<1>6. LogHasLatest'
  <2> SUFFICES ASSUME NEW r \in Rows
               PROVE  \/ server'[r].version = 0 /\ ~server'[r].here
                      \/ \E e \in log' : e.row = r /\ e.version = server'[r].version
    BY DEF LogHasLatest
  <2>1. CASE r = r0
    BY <2>1, <1>3, <1>4
  <2>2. CASE r # r0
    BY <2>2, <1>3 DEF History, ServerHistory, LogHasLatest
  <2> QED
    BY <2>1, <2>2
<1>7. LatestIsServer'
  <2> SUFFICES ASSUME NEW e \in log', e.version = server'[e.row].version
               PROVE  server'[e.row].here = (e.op = "upsert") /\ server'[e.row].val = e.val
    BY DEF LatestIsServer
  <2>1. CASE e = change
    BY <2>1, <1>3, <1>4
  <2>2. CASE e \in log
    <3>1. e.row \in Rows /\ e.version \in Nat /\ e.version <= server[e.row].version
      BY <2>2 DEF TypeOK, Event, Core, LogIsTrue
    <3>2. e.row # r0
      BY <3>1, <1>2, <1>3
    <3> QED
      BY <2>2, <3>1, <3>2, <1>3 DEF History, ServerHistory, LatestIsServer
  <2> QED
    BY <2>1, <2>2, <1>3
<1>8. LogFitsWrites'
  BY <1>1, <1>3, <1>4 DEF History, ServerHistory, LogFitsWrites
<1>9. AcksAreDistinct'
  <2> SUFFICES ASSUME NEW s \in Issued, NEW t \in Issued,
                      acks'[s] > 0, acks'[s] = acks'[t], writes[s].row = writes[t].row
               PROVE  s = t
    BY <1>1 DEF AcksAreDistinct
  <2>1. ASSUME NEW u \in Issued, NEW x \in Issued, acks'[u] # acks[u], acks'[x] = acks[x],
               acks'[u] = acks'[x], writes[u].row = writes[x].row, acks'[x] > 0
        PROVE  FALSE
    <3>1. u = key /\ writes[u].row = r0 /\ acks'[u] = version
      BY <2>1, <1>2 DEF NoKey
    <3>2. acks[x] <= server[r0].version
      BY <2>1, <3>1, <1>2 DEF Core, AcksAreCommits
    <3> QED
      BY <2>1, <3>1, <3>2, <1>2
  <2>2. CASE acks'[s] = acks[s] /\ acks'[t] = acks[t]
    BY <2>2 DEF History, ServerHistory, AcksAreDistinct
  <2>3. CASE acks'[s] # acks[s] /\ acks'[t] # acks[t]
    BY <2>3, <1>2
  <2> QED
    BY <2>1, <2>2, <2>3
<1>10. QueueHistory'
  <2>1. \A s \in Settled : acks'[s] = acks[s]
    BY <1>2 DEF Settled, Core, WritesAreAccounted
  <2> QED
    BY <2>1, <1>1 DEF History, QueueHistory, DroppedHaveLeft, MarksAreCommits, SettledIsMarked
<1> QED
  BY <1>5, <1>6, <1>7, <1>8, <1>9, <1>10 DEF History, ServerHistory

\* Settling an acknowledged write retires it, or finds it gone.
LEMMA SettleHistory ==
  ASSUME CoreInv, History, NEW s, acks[s] > 0, Settle(s), UNCHANGED <<serverVars, discarded>>
  PROVE  History'
<1>1. CASE s \in queue
  <2>1. Retire(s, acks[s]) /\ UNCHANGED writes
    BY <1>1 DEF Settle, SettleAck, SettlePessimistic
  <2> QED
    BY <1>1, <2>1, RetireHistory
<1>2. CASE s \notin queue
  BY <1>2, ServerHistoryStays, QueueHistoryStays DEF Settle, storeVars, History, serverVars
<1> QED
  BY <1>1, <1>2

\* The echo of a queued write has the version at which it committed.
LEMMA EchoIsCommit ==
  ASSUME CoreInv, NEW event, TrueEvent(event), NEW s \in EchoedWrites(event)
  PROVE  /\ s \in queue /\ s \in Issued /\ s \in Seqs
         /\ writes[s].row = event.row /\ writes[s].op = event.op
         /\ event.key = s /\ s # NoKey
         /\ acks[s] = event.version
         /\ acks[s] > 0
<1>1. /\ s \in queue /\ event.key = s /\ writes[s].row = event.row /\ writes[s].op = event.op
  BY DEF EchoedWrites, RowQueue, IsEchoOf
<1>2. s \in Issued /\ s \in Seqs /\ s # NoKey
  BY <1>1, QueueIssued, IssuedType DEF CoreInv, TypeOK, NoKey
<1> QED
  BY <1>1, <1>2 DEF TrueEvent

\* Whatever applyChange does with a change, the history stays true.
LEMMA ApplyChangeHistory ==
  ASSUME CoreInv, History, NEW event, TrueEvent(event), ApplyChange(event), UNCHANGED serverVars
  PROVE  History'
<1>1. CASE (\E s \in EchoedWrites(event) : AdoptEcho(event, s)) /\ UNCHANGED discarded
  <2>1. PICK s \in EchoedWrites(event) : AdoptEcho(event, s)
    BY <1>1
  <2>2. s \in queue /\ acks[s] > 0 /\ acks[s] = event.version
    BY EchoIsCommit
  <2>3. Retire(s, acks[s]) /\ UNCHANGED writes
    BY <2>1, <2>2 DEF AdoptEcho
  <2> QED
    BY <1>1, <2>2, <2>3, RetireHistory
<1>2. CASE ApplyServer(event) /\ UNCHANGED discarded
  BY <1>2, ServerHistoryStays, QueueHistoryStays DEF ApplyServer, History, serverVars
<1>3. CASE /\ ResolveConflict(event, RowQueue(event.row))
           /\ discarded' = discarded \cup RowQueue(event.row)
  <2>1. /\ RowQueue(event.row) \subseteq queue
        /\ queue' = queue \ RowQueue(event.row)
        /\ \A t \in queue' : superseded'[t] = superseded[t]
        /\ UNCHANGED writes
    BY <1>3, QueueIssued, IssuedType DEF ResolveConflict, RowQueue, CoreInv, TypeOK
  <2> QED
    BY <1>3, <2>1, DropHistory
<1>4. CASE UNCHANGED <<storeVars, discarded>>
  BY <1>4, ServerHistoryStays, QueueHistoryStays DEF storeVars, History, serverVars
<1> QED
  BY <1>1, <1>2, <1>3, <1>4 DEF ApplyChange

\* A commit of one of this replica's writes,
LEMMA ServerCommitHistory ==
  ASSUME CoreInv, History, NEW s \in Issued, ServerCommit(s)
  PROVE  History'
<1> DEFINE r0 == writes[s].row
<1>1. /\ s \in Seqs /\ s \in Nat \ {0} /\ r0 \in Rows /\ writes[s].op \in Ops
      /\ server[r0].version \in Nat
  BY IssuedType DEF CoreInv, TypeOK, History, ServerHistory, WritesFit
<1>2. /\ acks[s] = 0
      /\ acks' = [acks EXCEPT ![s] = server[r0].version + 1]
      /\ Commit(r0, writes[s].op, s, s)
      /\ UNCHANGED <<storeVars, discarded>>
  BY DEF ServerCommit
<1>3. /\ acks' \in [Seqs -> Nat]
      /\ acks'[s] = server[r0].version + 1
      /\ \A t \in Seqs \ {s} : acks'[t] = acks[t]
  BY <1>1, <1>2 DEF CoreInv, TypeOK
<1> QED
  BY <1>1, <1>2, <1>3, CommitHistory

\* or of another client's change, is history too.
LEMMA ForeignCommitHistory ==
  ASSUME CoreInv, History, NEW r \in Rows, NEW op \in Ops, ForeignCommit(r, op)
  PROVE  History'
BY CommitHistory DEF ForeignCommit, CoreInv, TypeOK, Foreign, NoKey

-----------------------------------------------------------------------------
(* The newest edit stays visible.                                            *)

\* What NewestEditIsVisible asks of a row for a write.
Shows(row, s) == IF writes[s].op = "delete" THEN ~row.here ELSE row.here /\ row.val = s

\* A step that touches nothing of the store, or only rows without queued writes.
LEMMA NewestElsewhere ==
  ASSUME NewestEditIsVisible, NEW r0,
         RowQueue(r0)' = {},
         \A r \in Rows \ {r0} : store'[r] = store[r] /\ RowQueue(r)' = RowQueue(r),
         \A t \in queue' : superseded'[t] = superseded[t],
         writes' = writes
  PROVE  NewestEditIsVisible'
<1> SUFFICES ASSUME NEW r \in Rows, NEW s \in Unsettled(r)', \A t \in Unsettled(r)' : t <= s
             PROVE  Shows(store'[r], s)
  BY DEF NewestEditIsVisible, Shows
<1>1. r # r0
  BY DEF Unsettled
<1>2. Unsettled(r)' = Unsettled(r)
  BY <1>1 DEF Unsettled, IsOptimistic, RowQueue
<1> QED
  BY <1>1, <1>2 DEF NewestEditIsVisible, Shows

\* Retiring a write marks the older ones, so the newest edit is newer than it: the
\* retirement must leave what is shown of it.
LEMMA NewestRetire ==
  ASSUME CoreInv, NewestEditIsVisible, NEW s \in queue, NEW version \in Nat, version > 0, NEW new,
         Retire(s, version), writes' = writes,
         store' = [store EXCEPT ![writes[s].row] = new],
         \A m \in NewerThan(s) :
           IsOptimistic(m) /\ Shows(store[writes[s].row], m) => Shows(new, m)
  PROVE  NewestEditIsVisible'
<1> DEFINE r0 == writes[s].row
<1> USE DEF CoreInv
<1> SUFFICES ASSUME NEW r \in Rows, NEW m \in Unsettled(r)', \A t \in Unsettled(r)' : t <= m
             PROVE  Shows(store'[r], m)
  BY DEF NewestEditIsVisible, Shows
<1>1. /\ s \in Issued
      /\ RowQueue(r0)' = Others(s)
      /\ \A q \in Rows \ {r0} : RowQueue(q)' = RowQueue(q)
  BY RetireEffect DEF TypeOK
<1>2. /\ queue \subseteq Issued
      /\ \A t \in Issued : t \in Seqs /\ t \in Nat /\ writes[t].row \in Rows
      /\ \A t \in Issued : superseded[t] \in Nat
  BY QueueIssued, IssuedType DEF TypeOK, StoreTypeOK
<1>3. /\ queue' = queue \ {s}
      /\ \A t \in queue' :
           superseded'[t] = IF t \in OlderThan(s) THEN Later(superseded[t], version)
                            ELSE superseded[t]
  BY <1>2 DEF Retire
<1>4. m \in queue /\ m \in queue' /\ m # s /\ writes[m].row = r /\ IsOptimistic(m) /\ superseded'[m] = 0
  BY <1>3 DEF Unsettled, RowQueue, IsOptimistic
<1>5. CASE r # r0
  <2>1. Unsettled(r)' = Unsettled(r)
    <3>1. \A t \in RowQueue(r)' : t \in queue' /\ writes[t].row = r
      BY DEF RowQueue
    <3>2. \A t \in RowQueue(r)' : superseded'[t] = superseded[t]
      BY <1>3, <1>5, <3>1 DEF OlderThan, Others, RowQueue
    <3> QED
      BY <1>1, <1>5, <3>2 DEF Unsettled, IsOptimistic
  <2>2. store'[r] = store[r]
    BY <1>5 DEF TypeOK, StoreTypeOK
  <2> QED
    BY <2>1, <2>2 DEF NewestEditIsVisible, Shows
<1>6. CASE r = r0
  <2>1. \A t \in OlderThan(s) : t \in queue' /\ superseded'[t] > 0
    <3> TAKE t \in OlderThan(s)
    <3>1. t \in queue' /\ superseded[t] \in Nat
      BY <1>2, <1>3 DEF OlderThan, Others, RowQueue
    <3> QED
      BY <3>1, <1>3 DEF Later
  <2>2. m \in NewerThan(s)
    BY <2>1, <1>1, <1>2, <1>4, <1>6 DEF NewerThan, OlderThan, Others, RowQueue
  <2>3. m \in Unsettled(r)
    <3>1. superseded[m] = 0
      BY <2>2, <1>2, <1>3, <1>4 DEF NewerThan, OlderThan
    <3> QED
      BY <3>1, <1>4 DEF Unsettled, RowQueue
  <2>4. ASSUME NEW t \in Unsettled(r) PROVE t <= m
    <3>1. t \in queue /\ writes[t].row = r /\ IsOptimistic(t) /\ superseded[t] = 0 /\ t \in Nat
      BY <2>4, <1>2 DEF Unsettled, RowQueue
    <3>2. CASE t > s
      <4>1. t \in queue' /\ superseded'[t] = 0
        BY <3>1, <3>2, <1>2, <1>3 DEF OlderThan
      <4> QED
        BY <3>1, <4>1 DEF Unsettled, RowQueue, IsOptimistic
    <3>3. CASE t <= s
      BY <2>2, <3>1, <3>3, <1>2, <1>4 DEF NewerThan
    <3> QED
      BY <3>1, <3>2, <3>3, <1>1, <1>2
  <2>5. Shows(store[r], m)
    BY <2>3, <2>4 DEF NewestEditIsVisible, Shows
  <2>6. store'[r0] = new
    BY <1>6 DEF TypeOK, StoreTypeOK
  <2> QED
    BY <1>4, <1>6, <2>2, <2>5, <2>6
<1> QED
  BY <1>5, <1>6

\* The settlement of a write leaves the newest edit: a pessimistic one may show its
\* payload over an absent row, but then no newer delete is queued.
LEMMA SettleNewest ==
  ASSUME CoreInv, History, IntentIsDirty, NewestEditIsVisible, NoMixedDeletes,
         NEW s, acks[s] > 0, Settle(s)
  PROVE  NewestEditIsVisible'
<1> DEFINE row == store[writes[s].row]
<1>1. CASE s \in queue /\ IsOptimistic(s)
  <2> DEFINE new == AckedRow(s, acks[s])
  <2>1. ASSUME NEW m PROVE Shows(row, m) => Shows(new, m)
    BY DEF Shows, AckedRow, Absent, Row
  <2>2. /\ Retire(s, acks[s]) /\ writes' = writes
        /\ store' = [store EXCEPT ![writes[s].row] = new]
    BY <1>1 DEF Settle, SettleAck
  <2> HIDE DEF new, row
  <2> QED
    BY <1>1, <2>1, <2>2, RetiredWrite, NewestRetire DEF row
<1>2. CASE s \in queue /\ ~IsOptimistic(s)
  <2> DEFINE new == PessimisticRow(s, acks[s])
  <2>1. ASSUME NEW m \in NewerThan(s), IsOptimistic(m), Shows(row, m)
        PROVE  Shows(new, m)
    <3>1. /\ s \in Issued /\ m \in Issued /\ m \in queue
          /\ m \in RowQueue(writes[s].row) /\ writes[s].row \in Rows
      BY <1>2, RetiredWrite, QueueIssued DEF NewerThan, Others, RowQueue, CoreInv, TypeOK
    <3>2. row.here => row.dirty
      BY <2>1, <3>1 DEF IntentIsDirty
    <3>3. row.here
      <4>1. writes[s].strategy = "pessimistic" /\ writes[s].strategy \in Strategies
        BY <1>2, <3>1 DEF IsOptimistic, History, ServerHistory, WritesFit
      <4>2. writes[m].op # "delete"
        BY <3>1, <4>1 DEF History, ServerHistory, WritesFit, NoMixedDeletes
      <4> QED
        BY <2>1, <4>2 DEF Shows
    <3>4. HasNewerOptimisticValue(s)
      BY <2>1, <3>2, <3>3 DEF HasNewerOptimisticValue
    <3> QED
      BY <2>1, <3>3, <3>4 DEF PessimisticRow, Shows, Row
  <2>2. /\ Retire(s, acks[s]) /\ writes' = writes
        /\ store' = [store EXCEPT ![writes[s].row] = new]
    BY <1>2 DEF Settle, SettlePessimistic
  <2> HIDE DEF new, row
  <2> QED
    BY <1>2, <2>1, <2>2, RetiredWrite, NewestRetire DEF row
<1>3. CASE s \notin queue
  BY <1>3 DEF Settle, storeVars, NewestEditIsVisible, Unsettled, RowQueue, IsOptimistic
<1> QED
  BY <1>1, <1>2, <1>3

\* The echo of a write that is not the newest leaves the newest edit, and a change
\* is put only where nothing is queued, or nothing stays queued.
LEMMA ApplyChangeNewest ==
  ASSUME CoreInv, NewestEditIsVisible, NEW event, TrueEvent(event), ApplyChange(event)
  PROVE  NewestEditIsVisible'
<1> DEFINE r0 == event.row
<1>0. \A r \in Rows \ {r0} : \A rec : store' = [store EXCEPT ![r0] = rec] => store'[r] = store[r]
  BY DEF CoreInv, TypeOK, StoreTypeOK
<1>1. CASE \E s \in EchoedWrites(event) : AdoptEcho(event, s)
  <2>1. PICK s \in EchoedWrites(event) : AdoptEcho(event, s)
    BY <1>1
  <2>2. s \in queue /\ writes[s].row = r0 /\ event.version > 0 /\ event.version \in Nat
    BY EchoIsCommit DEF TrueEvent
  <2> DEFINE new == EchoedRow(event, s)
  <2>3. ASSUME NEW m \in NewerThan(s), Shows(store[r0], m) PROVE Shows(new, m)
    BY <2>3 DEF Shows, EchoedRow, Absent, Row
  <2>4. /\ Retire(s, event.version) /\ writes' = writes
        /\ store' = [store EXCEPT ![writes[s].row] = new]
    BY <2>1, <2>2 DEF AdoptEcho
  <2> HIDE DEF new
  <2> QED
    BY <2>2, <2>3, <2>4, NewestRetire
<1>2. CASE Applies(event) /\ ApplyServer(event)
  <2>1. /\ writes' = writes /\ queue' = queue /\ superseded' = superseded
        /\ RowQueue(r0)' = {}
    BY <1>2, AppliesToCleanRow DEF ApplyServer, RowQueue
  <2>2. \A r \in Rows \ {r0} : store'[r] = store[r] /\ RowQueue(r)' = RowQueue(r)
    BY <1>0, <1>2, <2>1 DEF ApplyServer, RowQueue
  <2> QED
    BY <2>1, <2>2, NewestElsewhere
<1>3. CASE ResolveConflict(event, RowQueue(r0))
  <2>1. /\ queue' = queue \ RowQueue(r0) /\ writes' = writes
        /\ \A t \in queue' : superseded'[t] = superseded[t]
    BY <1>3, QueueIssued, IssuedType DEF ResolveConflict, CoreInv, TypeOK
  <2>2. /\ RowQueue(r0)' = {}
        /\ \A r \in Rows \ {r0} : store'[r] = store[r] /\ RowQueue(r)' = RowQueue(r)
    BY <1>0, <1>3, <2>1 DEF ResolveConflict, RowQueue
  <2> QED
    BY <2>1, <2>2, NewestElsewhere
<1>4. CASE UNCHANGED storeVars
  BY <1>4 DEF storeVars, NewestEditIsVisible, Unsettled, RowQueue, IsOptimistic
<1> QED
  BY <1>1, <1>2, <1>3, <1>4 DEF ApplyChange

\* A minted edit is the newest of its row, and what the row shows.
LEMMA MintNewest ==
  ASSUME CoreInv, NewestEditIsVisible, NEW write \in Write, Mints(write)
  PROVE  NewestEditIsVisible'
<1> DEFINE new == NextSeq
           r0 == write.row
<1> USE DEF CoreInv
<1>1. /\ writes' = Append(writes, write) /\ Len(writes) < MaxWrites
      /\ queue' = queue \cup {new} /\ superseded' = superseded
      /\ store' = IF write.strategy = "pessimistic" THEN store
                  ELSE [store EXCEPT ![r0] = OptimisticRow(write)]
  BY DEF Mints, Enqueue, EnqueueOptimistic, Enqueued
<1>2. /\ new \notin Issued /\ new \in Seqs /\ writes'[new] = write
      /\ \A s \in Issued : writes'[s] = writes[s]
  BY <1>1, Minting DEF TypeOK
<1>3. /\ queue \subseteq Issued /\ r0 \in Rows
      /\ \A s \in Issued : s < new /\ s \in Nat
      /\ new \in Nat
  <2>1. queue \subseteq Issued /\ r0 \in Rows
    BY QueueIssued DEF TypeOK, Write
  <2>2. Len(writes) \in Nat
    BY DEF TypeOK, StoreTypeOK
  <2> QED
    BY <2>1, <2>2 DEF NextSeq, Issued
<1>4. superseded[new] = 0
  BY <1>2, <1>3 DEF Core, MarksAreQueued
<1>5. write.strategy # "pessimistic" =>
        store'[r0] = IF write.op = "delete" THEN Absent ELSE Row(write.base, TRUE, new)
  BY <1>1, <1>3 DEF TypeOK, StoreTypeOK, OptimisticRow
<1> HIDE DEF new
<1> SUFFICES ASSUME NEW r \in Rows, NEW s \in Unsettled(r)', \A t \in Unsettled(r)' : t <= s
             PROVE  IF writes'[s].op = "delete" THEN ~store'[r].here
                    ELSE store'[r].here /\ store'[r].val = s
  BY DEF NewestEditIsVisible
<1>6. ASSUME NEW t
      PROVE  t \in Unsettled(r)' <=> \/ t \in Unsettled(r)
                                     \/ t = new /\ r = r0 /\ write.strategy # "pessimistic"
  <2>1. CASE t = new
    <3>1. t \notin Unsettled(r) /\ superseded'[t] = 0 /\ t \in queue'
      BY <2>1, <1>1, <1>2, <1>3, <1>4 DEF Unsettled, RowQueue
    <3>2. t \in RowQueue(r)' <=> r = r0
      BY <2>1, <3>1, <1>2 DEF RowQueue
    <3>3. IsOptimistic(t)' <=> write.strategy # "pessimistic"
      BY <2>1, <1>2 DEF IsOptimistic
    <3> QED
      BY <2>1, <3>1, <3>2, <3>3 DEF Unsettled
  <2>2. CASE t # new /\ t \in queue
    <3>1. writes'[t] = writes[t] /\ superseded'[t] = superseded[t] /\ t \in queue'
      BY <2>2, <1>1, <1>2, <1>3
    <3> QED
      BY <2>2, <3>1 DEF Unsettled, RowQueue, IsOptimistic
  <2>3. CASE t # new /\ t \notin queue
    <3>1. t \notin queue'
      BY <2>3, <1>1
    <3> QED
      BY <2>3, <3>1 DEF Unsettled, RowQueue
  <2> QED
    BY <2>1, <2>2, <2>3
<1>7. CASE s = new
  BY <1>2, <1>5, <1>6, <1>7, <1>3 DEF Unsettled, RowQueue, Absent, Row
<1>8. CASE s # new
  <2>1. s \in Unsettled(r) /\ s \in Issued
    BY <1>3, <1>6, <1>8 DEF Unsettled, RowQueue
  <2>2. ~(r = r0 /\ write.strategy # "pessimistic")
    BY <2>1, <1>3, <1>6
  <2>3. store'[r] = store[r]
    BY <2>2, <1>1 DEF TypeOK, StoreTypeOK
  <2>4. \A t \in Unsettled(r) : t <= s
    BY <1>6
  <2> QED
    BY <2>1, <2>3, <2>4, <1>2 DEF NewestEditIsVisible
<1> QED
  BY <1>7, <1>8

-----------------------------------------------------------------------------
(* The invariant.                                                            *)

\* A step that leaves the store, the server and the history of drops alone.
LEMMA UntouchedHistory ==
  ASSUME History, UNCHANGED <<storeVars, serverVars, discarded>>
  PROVE  History' /\ (NewestEditIsVisible => NewestEditIsVisible')
BY ServerHistoryStays, QueueHistoryStays
   DEF storeVars, serverVars, History, NewestEditIsVisible, Unsettled, RowQueue, IsOptimistic

\* What a commit of the server adds touches nothing of the store.
LEMMA CommitNewest ==
  ASSUME NewestEditIsVisible, UNCHANGED storeVars
  PROVE  NewestEditIsVisible'
BY DEF storeVars, NewestEditIsVisible, Unsettled, RowQueue, IsOptimistic

\* Initially nothing has happened.
LEMMA HistoryInit == Init => HistoryInv
<1> SUFFICES ASSUME Init PROVE History /\ NewestEditIsVisible
  BY InitSafe DEF HistoryInv, KeepsNewest
<1>1. Issued = {} /\ queue = {} /\ log = {} /\ discarded = {}
  BY DEF Init, StoreInit, Issued
<1>2. \A r \in Rows : server[r].version = 0 /\ ~server[r].here
  BY DEF Init
<1>3. ServerHistory
  BY <1>1, <1>2 DEF ServerHistory, WritesFit, LogHasLatest, LatestIsServer, LogFitsWrites,
     AcksAreDistinct
<1>4. QueueHistory
  BY <1>1 DEF QueueHistory, DroppedHaveLeft, MarksAreCommits, SettledIsMarked
<1>5. NewestEditIsVisible
  BY <1>1 DEF NewestEditIsVisible, Unsettled, RowQueue
<1> QED
  BY <1>3, <1>4, <1>5 DEF History

\* Every step keeps the history and the newest edit: one case per action.
LEMMA HistoryStep == HistoryInv /\ [Next]_vars => HistoryInv'
<1> DEFINE Good == History' /\ (NoMixedDeletes /\ NewestEditIsVisible => NewestEditIsVisible')
<1> SUFFICES ASSUME IInv, CoreInv, History, IntentIsDirty, [Next]_vars PROVE Good
  BY SafeStep DEF HistoryInv, IInv, KeepsNewest, NoMixedDeletes
<1>1. ASSUME NEW r \in Rows, NEW op \in Ops, NEW strategy \in Strategies,
             IssueWrite(r, op, strategy)
      PROVE  Good
  <2> DEFINE write == [row |-> r, op |-> op, base |-> store[r].version, strategy |-> strategy]
  <2>1. /\ write \in Write /\ Mints(write)
        /\ write.op \in Ops /\ write.strategy \in Strategies
        /\ UNCHANGED <<serverVars, discarded>>
    BY <1>1, IssueWriteMints DEF CoreInv, TypeOK
  <2> HIDE DEF write
  <2> QED
    BY <2>1, MintHistory, MintNewest
<1>2. ASSUME NEW s \in Issued, CallAcked(s) PROVE Good
  BY <1>2, SettleHistory, SettleNewest DEF CallAcked
<1>3. ASSUME NEW s \in Issued, CallFailed(s) PROVE Good
  BY <1>3, UntouchedHistory DEF CallFailed
<1>4. CASE \E f \in Flushes : FlushStart(f)
  BY <1>4, UntouchedHistory DEF FlushStart
<1>5. CASE \E f \in Flushes : FlushAcked(f)
  BY <1>5, SettleHistory, SettleNewest DEF FlushAcked
<1>6. CASE \E f \in Flushes : FlushFailed(f)
  BY <1>6, UntouchedHistory DEF FlushFailed
<1>7. CASE Reload
  BY <1>7, UntouchedHistory DEF Reload
<1>8. ASSUME NEW s \in Issued, ServerCommit(s) PROVE Good
  BY <1>8, ServerCommitHistory, CommitNewest DEF ServerCommit
<1>9. ASSUME NEW r \in Rows, NEW op \in Ops, ForeignCommit(r, op) PROVE Good
  BY <1>9, ForeignCommitHistory, CommitNewest DEF ForeignCommit
<1>10. ASSUME NEW e \in log, NEW t \in Transports, Deliver(e, t) PROVE Good
  BY <1>10, DecodedTrue, ApplyChangeHistory, ApplyChangeNewest DEF Deliver
<1>11. CASE UNCHANGED vars
  BY <1>11, UntouchedHistory DEF vars
<1> QED
  BY <1>1, <1>2, <1>3, <1>4, <1>5, <1>6, <1>7, <1>8, <1>9, <1>10, <1>11
     DEF Next, Client, Application, Server

\* The history and the newest edit hold in every behaviour.
LEMMA HistoryHolds == Spec => []HistoryInv
BY HistoryInit, HistoryStep, PTL DEF Spec

\* The newest queued optimistic edit of a row that no later write overtook is what
\* the row shows, whatever acks, echoes and conflicts come in, unless pessimistic
\* writes and deletes are used together.
THEOREM NewestEditStays == NoMixedDeletes => (Spec => []NewestEditIsVisible)
<1> SUFFICES ASSUME NoMixedDeletes PROVE Spec => []NewestEditIsVisible
  OBVIOUS
<1>1. HistoryInv => NewestEditIsVisible
  BY DEF HistoryInv, KeepsNewest
<1> QED
  BY <1>1, HistoryHolds, PTL

-----------------------------------------------------------------------------
(* What is ignored is held, and the latest change converges.                  *)

\* The latest change of a row is what the server holds of it.
LEMMA LatestIsHeld ==
  ASSUME CoreInv, ServerHistory, NEW e \in log, Latest(e)
  PROVE  /\ e.row \in Rows
         /\ e.version \in Nat \ {0}
         /\ e.op \in Op
         /\ server[e.row].version = e.version
         /\ server[e.row].here = (e.op = "upsert")
         /\ server[e.row].val = e.val
<1>1. e.row \in Rows /\ e.version \in Nat \ {0} /\ e.op \in Op /\ server[e.row].version \in Nat
  BY DEF CoreInv, TypeOK, Event
<1>2. e.version <= server[e.row].version
  BY DEF CoreInv, Core, LogIsTrue
<1>3. server[e.row].version <= e.version
  BY <1>1, <1>2 DEF ServerHistory, LogHasLatest, Latest
<1> QED
  BY <1>1, <1>2, <1>3 DEF ServerHistory, LatestIsServer

\* With nothing queued of the row, the latest change is never ignored if it comes
\* with its version: the row is behind, or is held at that version and refreshed.
LEMMA LatestApplies ==
  ASSUME CoreInv, ServerHistory, NEW e \in log, Latest(e), RowQueue(e.row) = {},
         NEW event, event.row = e.row, event.op = e.op, event.version = e.version
  PROVE  Applies(event)
<1>1. /\ e.row \in Rows /\ e.version \in Nat /\ e.op \in {"upsert", "delete"}
      /\ server[e.row].version = e.version
  BY LatestIsHeld DEF Op
<1>2. store[e.row].version \in Nat /\ store[e.row].version <= e.version
  BY <1>1 DEF CoreInv, TypeOK, StoreTypeOK, Record, Core, VersionsAreIssued
<1>3. ~store[e.row].dirty
  BY <1>1 DEF CoreInv, Core, DirtyIsQueued
<1>4. ReconcileLocal(event.row) = store[e.row]
  BY DEF ReconcileLocal
<1>5. Reconcile(store[e.row], event) \in {"apply", "already applied"}
  BY <1>1, <1>2, <1>3 DEF Reconcile
<1> QED
  BY <1>3, <1>4, <1>5 DEF Applies, Refreshes

\* The latest change of a row is ignored only by a replica that holds it: with
\* nothing left to send, an ack that took the version cannot hide the payload.
THEOREM NothingIsHidden == Spec => []IgnoredIsHeld
<1>1. HistoryInv => IgnoredIsHeld
  <2> SUFFICES ASSUME HistoryInv, NEW e \in log, Latest(e), RowQueue(e.row) = {}
               PROVE  Applies(Decoded(e, "backend"))
    BY DEF IgnoredIsHeld, Hides
  <2>1. CoreInv /\ ServerHistory
    BY DEF HistoryInv, IInv, History
  <2>2. Decoded(e, "backend") = e
    BY DEF Decoded
  <2> QED
    BY <2>1, <2>2, LatestApplies
<1> QED
  BY <1>1, HistoryHolds, PTL

\* A row that the server's latest payload was put in place of agrees with it.
LEMMA PutIsInSync ==
  ASSUME CoreInv, ServerHistory, NEW e \in log, Latest(e), UNCHANGED serverVars,
         NEW event, event.row = e.row, event.op = e.op, event.val = e.val,
         e.op = "upsert" => event.version = e.version,
         store' = [store EXCEPT ![e.row] = Adopted(event, FALSE)],
         RowQueue(e.row)' = {}
  PROVE  InSync(e.row)'
<1>1. /\ e.row \in Rows /\ e.op \in {"upsert", "delete"}
      /\ server[e.row].version = e.version
      /\ server[e.row].here = (e.op = "upsert")
      /\ server[e.row].val = e.val
  BY LatestIsHeld DEF Op
<1>2. store'[e.row] = Adopted(event, FALSE) /\ server' = server
  BY <1>1 DEF CoreInv, TypeOK, StoreTypeOK, serverVars
<1>3. /\ store'[e.row].here = server[e.row].here
      /\ server[e.row].here => store'[e.row] = Row(server[e.row].version, FALSE, server[e.row].val)
  <2>1. CASE e.op = "upsert"
    <3>1. server[e.row].here = TRUE
      BY <1>1, <2>1
    <3>2. Adopted(event, FALSE) = Row(server[e.row].version, FALSE, server[e.row].val)
      BY <1>1, <2>1 DEF Adopted
    <3>3. store'[e.row] = Row(server[e.row].version, FALSE, server[e.row].val)
      BY <1>2, <3>2
    <3>4. Row(server[e.row].version, FALSE, server[e.row].val).here = TRUE
      BY DEF Row
    <3>5. store'[e.row].here = TRUE
      BY <3>3, <3>4, Zenon
    <3> QED
      BY <3>1, <3>3, <3>5, Zenon
  <2>2. CASE e.op = "delete"
    <3>1. server[e.row].here = FALSE
      BY <1>1, <2>2
    <3>2. store'[e.row].here = FALSE
      BY <1>2, <2>2 DEF Adopted, Absent
    <3> QED
      BY <3>1, <3>2
  <2> QED
    BY <1>1, <2>1, <2>2
<1> QED
  BY <1>2, <1>3 DEF InSync, Row

\* The echo of the latest change was not overtaken by any write of this replica.
LEMMA LatestEchoIsCurrent ==
  ASSUME CoreInv, History, NEW e \in log, Latest(e), NEW s \in EchoedWrites(e)
  PROVE  ~EchoWasSuperseded(e, s)
<1>1. /\ e.row \in Rows /\ e.version \in Nat \ {0} /\ server[e.row].version = e.version
  BY LatestIsHeld DEF History
<1>2. TrueEvent(e)
  BY LoggedTrue
<1>3. /\ s \in queue /\ s \in Issued /\ writes[s].row = e.row /\ acks[s] = e.version
      /\ s \in Nat
  BY <1>2, EchoIsCommit, IssuedType DEF CoreInv, TypeOK
<1> SUFFICES ASSUME superseded[s] > 0, superseded[s] >= e.version PROVE FALSE
  BY DEF EchoWasSuperseded
<1>4. PICK u \in Settled : u > s /\ writes[u].row = e.row /\ acks[u] = superseded[s]
  BY <1>3 DEF History, QueueHistory, MarksAreCommits
<1>5. u \in Issued /\ u \in Seqs /\ acks[u] \in Nat
  BY <1>4, IssuedType DEF Settled, CoreInv, TypeOK
<1>6. acks[u] <= e.version
  BY <1>1, <1>4, <1>5 DEF CoreInv, Core, AcksAreCommits
<1>7. acks[u] = acks[s] /\ acks[u] > 0
  BY <1>1, <1>3, <1>4, <1>5, <1>6
<1>8. u = s
  BY <1>3, <1>4, <1>5, <1>7 DEF History, ServerHistory, AcksAreDistinct
<1> QED
  BY <1>3, <1>4, <1>8

\* With nothing else queued it is adopted.
LEMMA LatestEchoIsAdopted ==
  ASSUME CoreInv, History, NEW e \in log, Latest(e), NEW s \in EchoedWrites(e),
         Others(s) = {}
  PROVE  EchoedRow(e, s) = Adopted(e, FALSE)
<1>1. /\ e.row \in Rows /\ e.version \in Nat \ {0} /\ server[e.row].version = e.version
  BY LatestIsHeld DEF History
<1>2. ~EchoWasSuperseded(e, s)
  BY LatestEchoIsCurrent
<1>3. ~(store[e.row].version > e.version)
  BY <1>1 DEF CoreInv, TypeOK, StoreTypeOK, Record, Core, VersionsAreIssued
<1>4. NewerThan(s) = {} /\ ~StillPending(s)
  BY DEF NewerThan, StillPending
<1> QED
  BY <1>2, <1>3, <1>4 DEF EchoedRow, StillPending

\* A latest change that leaves nothing to send converges if it changes anything, with or
\* without its key, and with any version if it is a delete.
LEMMA LatestTakes ==
  ASSUME CoreInv, History, NEW e \in log, Latest(e),
         NEW event, TrueEvent(event), event.row = e.row, event.op = e.op, event.val = e.val,
         e.op = "upsert" => event.version = e.version, event.key # NoKey => event = e,
         ApplyChange(event), UNCHANGED serverVars, RowQueue(e.row)' = {}
  PROVE  \/ InSync(e.row)'
         \/ ~Applies(event) /\ UNCHANGED <<storeVars, discarded>>
<1>1. ServerHistory /\ e.row \in Rows
  BY LatestIsHeld DEF History
<1>2. CASE \E s \in EchoedWrites(event) : AdoptEcho(event, s)
  <2>1. PICK s \in EchoedWrites(event) : AdoptEcho(event, s)
    BY <1>2
  <2>2. event.key = s /\ s # NoKey /\ s \in queue /\ writes[s].row = event.row
    BY EchoIsCommit
  <2>3. event = e
    BY <2>2
  <2>4. Others(s) = {}
    <3>1. queue' = queue \ {s} /\ writes' = writes
      BY <2>1 DEF AdoptEcho, Retire
    <3> QED
      BY <2>2, <3>1 DEF Others, RowQueue
  <2>5. EchoedRow(e, s) = Adopted(e, FALSE)
    BY <2>1, <2>3, <2>4, LatestEchoIsAdopted
  <2> QED
    BY <1>1, <2>1, <2>3, <2>5, PutIsInSync DEF AdoptEcho
<1>3. CASE ApplyServer(event)
  BY <1>1, <1>3, PutIsInSync DEF ApplyServer
<1>4. CASE ResolveConflict(event, RowQueue(event.row))
  <2>1. store' = [store EXCEPT ![event.row] = Adopted(event, FALSE)]
    BY <1>4 DEF ResolveConflict, ConflictRow
  <2> QED
    BY <1>1, <2>1, PutIsInSync
<1> QED
  BY <1>2, <1>3, <1>4 DEF ApplyChange

\* With its version it converges also where it changes nothing.
LEMMA LatestChange ==
  ASSUME CoreInv, History, NEW e \in log, Latest(e),
         NEW event, TrueEvent(event), event.row = e.row, event.op = e.op, event.val = e.val,
         event.version = e.version, event.key # NoKey => event = e,
         ApplyChange(event), UNCHANGED serverVars, RowQueue(e.row)' = {}
  PROVE  InSync(e.row)'
<1>1. CASE ~Applies(event) /\ UNCHANGED <<storeVars, discarded>>
  <2>1. RowQueue(e.row) = {}
    BY <1>1 DEF storeVars, RowQueue
  <2> QED
    BY <1>1, <2>1, LatestApplies, LatestIsHeld DEF History
<1> QED
  BY <1>1, LatestTakes

\* A transport delivers it so, unless deletes come over one that gives them the
\* version of the row they deleted.
LEMMA LatestDelivery ==
  ASSUME CoreInv, History, "supabase" \notin Transports \/ "delete" \notin Ops,
         NEW e \in log, NEW t \in Transports \cup {"backend"},
         Latest(e), RowQueue(e.row)' = {}, Deliver(e, t)
  PROVE  InSync(e.row)'
<1> DEFINE event == Decoded(e, t)
<1>1. ApplyChange(event) /\ UNCHANGED serverVars
  BY DEF Deliver
<1>2. /\ event.row = e.row /\ event.op = e.op /\ event.val = e.val
      /\ TrueEvent(event)
  BY DecodedType, DecodedTrue DEF CoreInv
<1>3. event.version = e.version
  <2>1. e.op \in Ops /\ e \in Event
    BY DEF History, ServerHistory, LogFitsWrites, CoreInv, TypeOK
  <2>2. t \in {"backend", "supabase"}
    BY ReplicaAssumption
  <2> QED
    BY <2>1, <2>2 DEF Decoded, Event
<1>4. event.key # NoKey => event = e
  BY DEF Decoded, CoreInv, TypeOK, Event
<1> HIDE DEF event
<1> QED
  BY <1>1, <1>2, <1>3, <1>4, LatestChange

\* Once the latest change of a row has changed the replica and nothing of the row is
\* left to send, the replica agrees with the server, over every transport and for any
\* mix of strategies and operations.
THEOREM LatestConverges == Spec => LatestChangeConverges
<1>1. ASSUME HistoryInv, NEW e \in log, NEW t \in Transports,
             Latest(e), RowQueue(e.row)' = {}, Deliver(e, t), vars' # vars
      PROVE  InSync(e.row)'
  <2> DEFINE event == Decoded(e, t)
  <2>1. CoreInv /\ History
    BY <1>1 DEF HistoryInv, IInv
  <2>2. /\ ApplyChange(event) /\ UNCHANGED <<callVars, wire, serverVars>>
        /\ Latest(e) /\ RowQueue(e.row)' = {}
    BY <1>1 DEF Deliver
  <2>3. event.row = e.row /\ event.op = e.op /\ event.val = e.val /\ TrueEvent(event)
    BY <2>1, DecodedType, DecodedTrue DEF CoreInv
  <2>4. /\ e.op = "upsert" => event.version = e.version
        /\ event.key # NoKey => event = e
    BY <2>1 DEF Decoded, CoreInv, TypeOK, Event
  <2>5. ~UNCHANGED <<storeVars, discarded>>
    BY <1>1, <2>2 DEF vars
  <2> HIDE DEF event
  <2> QED
    BY <2>1, <2>2, <2>3, <2>4, <2>5, LatestTakes
<1>2. HistoryInv /\ [Next]_vars =>
        [\A e \in log, t \in Transports :
           Latest(e) /\ RowQueue(e.row)' = {} /\ Deliver(e, t) => InSync(e.row)']_vars
  BY <1>1
<1> QED
  BY <1>2, HistoryHolds, PTL DEF Spec, LatestChangeConverges

-----------------------------------------------------------------------------
(* Settled deletes stay.                                                     *)

\* A late echo of a queued write finds the mark of the delete that settled after it.
LEMMA LateEchoIsTouch ==
  ASSUME CoreInv, History, NEW e \in log, e.key \in queue, ~store[e.row].here,
         SettledLaterDelete(e), Deliver(e, "backend")
  PROVE  ~store'[e.row].here
<1>1. Decoded(e, "backend") = e /\ TrueEvent(e)
  BY LoggedTrue DEF Decoded
<1> DEFINE k == e.key
<1>2. /\ k \in Issued /\ k \in Seqs /\ k \in Nat \ {0} /\ superseded[k] \in Nat
      /\ e.row \in Rows /\ e.version \in Nat \ {0}
  BY QueueIssued, IssuedType DEF CoreInv, TypeOK, StoreTypeOK, Event
<1>3. writes[k].row = e.row /\ writes[k].op = e.op
  BY <1>2 DEF CoreInv, Core, LogIsTrue, History, ServerHistory, LogFitsWrites, NoKey
<1>4. superseded[k] > e.version
  <2>1. PICK s \in Settled : writes[s].row = e.row /\ s > k /\ acks[s] > e.version
    BY DEF SettledLaterDelete, Settled
  <2>2. superseded[k] >= acks[s] /\ acks[s] \in Nat
    BY <1>3, <2>1, IssuedType DEF History, QueueHistory, SettledIsMarked, Settled, CoreInv, TypeOK
  <2> QED
    BY <1>2, <2>1, <2>2
<1>5. EchoedWrites(e) = {k}
  BY <1>3 DEF EchoedWrites, RowQueue, IsEchoOf
<1>6. AdoptEcho(e, k)
  BY <1>1, <1>5 DEF Deliver, ApplyChange
<1>7. EchoedRow(e, k) = Absent
  BY <1>2, <1>4 DEF EchoedRow, EchoWasSuperseded
<1> QED
  BY <1>2, <1>6, <1>7 DEF AdoptEcho, CoreInv, TypeOK, StoreTypeOK, Absent

\* A later own delete that is known to be committed is not undone when the echo of an
\* earlier own write, still queued, comes in late.
THEOREM DeletesStay == Spec => SettledDeletesStay
<1>1. HistoryInv /\ [Next]_vars =>
        [\A e \in log :
           /\ e.key \in queue
           /\ ~store[e.row].here
           /\ SettledLaterDelete(e)
           /\ Deliver(e, "backend")
           => ~store'[e.row].here]_vars
  BY LateEchoIsTouch DEF HistoryInv, IInv
<1> QED
  BY <1>1, HistoryHolds, PTL DEF Spec, SettledDeletesStay

-----------------------------------------------------------------------------
(* Versions never go back.                                                   *)

\* A row that stays present does not go back in version.
Advances(r) == store[r].here /\ store'[r].here => store[r].version <= store'[r].version

\* Only one row changes, and it advances: none goes back.
LEMMA OneRowAdvances ==
  ASSUME CoreInv, NEW r0 \in Rows, NEW new, store' = [store EXCEPT ![r0] = new],
         store[r0].here /\ new.here => store[r0].version <= new.version
  PROVE  \A r \in Rows : Advances(r)
<1> TAKE r \in Rows
<1>1. store[r].version \in Nat
  BY DEF CoreInv, TypeOK, StoreTypeOK, Record
<1>2. CASE r = r0
  BY <1>2 DEF Advances, CoreInv, TypeOK, StoreTypeOK
<1>3. CASE r # r0
  <2>1. store'[r] = store[r]
    BY <1>3 DEF CoreInv, TypeOK, StoreTypeOK
  <2> QED
    BY <1>1, <2>1 DEF Advances
<1> QED
  BY <1>2, <1>3

\* A step that leaves the rows alone leaves their versions.
LEMMA StillAdvances ==
  ASSUME CoreInv, store' = store PROVE \A r \in Rows : Advances(r)
BY DEF CoreInv, TypeOK, StoreTypeOK, Record, Advances

\* The ack of an optimistic write is adopted only if it is not older.
LEMMA SettleAdvances ==
  ASSUME CoreInv, History, "pessimistic" \notin Strategies, NEW s, acks[s] > 0, Settle(s)
  PROVE  \A r \in Rows : Advances(r)
<1>1. CASE s \in queue
  <2>1. IsOptimistic(s)
    BY <1>1, RetiredWrite DEF History, ServerHistory, WritesFit, IsOptimistic
  <2>2. store' = [store EXCEPT ![writes[s].row] = AckedRow(s, acks[s])]
    BY <1>1, <2>1 DEF Settle, SettleAck
  <2>3. LET old == store[writes[s].row]
            new == AckedRow(s, acks[s])
        IN  old.here /\ new.here => old.version <= new.version
    BY <1>1, RetiredWrite DEF AckedRow, AckAdopts, Row, Record
  <2> QED
    BY <1>1, <2>2, <2>3, RetiredWrite, OneRowAdvances
<1>2. CASE s \notin queue
  BY <1>2, StillAdvances DEF Settle, storeVars
<1> QED
  BY <1>1, <1>2

\* An event that is applied or wins a conflict is not older than a row that is there.
LEMMA WinnerIsNotOlder ==
  ASSUME CoreInv, NEW event, TrueEvent(event), Applies(event) \/ Conflicts(event),
         store[event.row].here
  PROVE  /\ store[event.row].version <= event.version
         /\ Conflicts(event) => store[event.row].version < event.version
<1>1. store[event.row].version \in Nat /\ event.version \in Nat
  BY DEF CoreInv, TypeOK, StoreTypeOK, Record, TrueEvent
<1>2. LET local == ReconcileLocal(event.row)
      IN  local.version = store[event.row].version /\ local.here = store[event.row].here
  BY DEF ReconcileLocal, CoreInv, TypeOK, StoreTypeOK, Record, TrueEvent
<1> QED
  BY <1>1, <1>2 DEF Applies, Refreshes, Conflicts, Reconcile

\* Whatever applyChange does with a change, no version goes back.
LEMMA ApplyChangeAdvances ==
  ASSUME CoreInv, NEW event, TrueEvent(event), ApplyChange(event)
  PROVE  \A r \in Rows : Advances(r)
<1> DEFINE old == store[event.row]
<1>1. old.version \in Nat /\ event.version \in Nat /\ event.row \in Rows
  BY DEF CoreInv, TypeOK, StoreTypeOK, Record, TrueEvent
<1>2. CASE \E s \in EchoedWrites(event) : AdoptEcho(event, s)
  <2>1. PICK s \in EchoedWrites(event) : AdoptEcho(event, s)
    BY <1>2
  <2>2. LET new == EchoedRow(event, s) IN old.here /\ new.here => old.version <= new.version
    BY <1>1 DEF EchoedRow, Adopted, Absent, Row, Later
  <2> QED
    BY <1>1, <2>1, <2>2, OneRowAdvances DEF AdoptEcho
<1>3. CASE (Applies(event) \/ Conflicts(event)) /\
           store' = [store EXCEPT ![event.row] = Adopted(event, FALSE)]
  <2>1. LET new == Adopted(event, FALSE) IN old.here /\ new.here => old.version <= new.version
    BY <1>1, <1>3, WinnerIsNotOlder DEF Adopted, Absent, Row
  <2> QED
    BY <1>1, <1>3, <2>1, OneRowAdvances
<1>4. CASE UNCHANGED storeVars
  BY <1>4, StillAdvances DEF storeVars
<1> QED
  BY <1>2, <1>3, <1>4 DEF ApplyChange, ApplyServer, ResolveConflict, ConflictRow

\* An edit keeps the version of its row.
LEMMA IssueAdvances ==
  ASSUME CoreInv, NEW r \in Rows, NEW op \in Ops, NEW strategy \in Strategies,
         IssueWrite(r, op, strategy)
  PROVE  \A q \in Rows : Advances(q)
<1> DEFINE write == [row |-> r, op |-> op, base |-> store[r].version, strategy |-> strategy]
<1>1. Mints(write) /\ store[r].version \in Nat
  BY IssueWriteMints DEF CoreInv, TypeOK, StoreTypeOK, Record
<1>2. CASE store' = [store EXCEPT ![r] = OptimisticRow(write)]
  <2>1. LET new == OptimisticRow(write)
        IN  store[r].here /\ new.here => store[r].version <= new.version
    BY <1>1 DEF OptimisticRow, Absent, Row
  <2> HIDE DEF write
  <2> QED
    BY <1>2, <2>1, OneRowAdvances
<1> QED
  BY <1>1, <1>2, StillAdvances DEF Mints, Enqueue, EnqueueOptimistic

\* Without pessimistic writes, no step takes a row back.
LEMMA StepAdvances ==
  ASSUME CoreInv, History, "pessimistic" \notin Strategies, [Next]_vars
  PROVE  \A r \in Rows : Advances(r)
<1>1. ASSUME NEW r \in Rows, NEW op \in Ops, NEW strategy \in Strategies,
             IssueWrite(r, op, strategy)
      PROVE  \A q \in Rows : Advances(q)
  BY <1>1, IssueAdvances
<1>2. ASSUME NEW s, CallAcked(s) PROVE \A r \in Rows : Advances(r)
  BY <1>2, SettleAdvances DEF CallAcked
<1>3. CASE \E f \in Flushes : FlushAcked(f)
  BY <1>3, SettleAdvances DEF FlushAcked
<1>4. ASSUME NEW e \in log, NEW t, Deliver(e, t) PROVE \A r \in Rows : Advances(r)
  BY <1>4, DecodedTrue, ApplyChangeAdvances DEF Deliver
<1>5. CASE UNCHANGED storeVars
  BY <1>5, StillAdvances DEF storeVars
<1> QED
  BY <1>1, <1>2, <1>3, <1>4, <1>5
     DEF Next, Client, Application, Server, CallFailed, FlushStart, FlushFailed, Reload,
         ServerCommit, ForeignCommit, vars

\* While a row stays present its version never goes back, unless pessimistic writes
\* are used: their late ack shows its payload at its own, older version.
THEOREM NeverBack == "pessimistic" \notin Strategies => (Spec => VersionsNeverRegress)
<1> SUFFICES ASSUME "pessimistic" \notin Strategies PROVE Spec => VersionsNeverRegress
  OBVIOUS
<1>1. HistoryInv /\ [Next]_vars =>
        [\A r \in Rows :
           store[r].here /\ store'[r].here => store[r].version <= store'[r].version]_vars
  BY StepAdvances DEF HistoryInv, IInv, Advances
<1> QED
  BY <1>1, HistoryHolds, PTL DEF Spec, VersionsNeverRegress

-----------------------------------------------------------------------------
(* Own upserts do not conflict.                                              *)

\* A row with own writes, all changes of which are upserts, is there, and has the
\* version of each of them that settled.
OwnUpsertsShow ==
  \A r \in Rows : OnlyUpserts(r) =>
    \A s \in Issued : writes[s].row = r =>
      store[r].here /\ (s \in Settled => acks[s] <= store[r].version)

\* A step after which the row is still there and has not gone back, and which settled
\* only writes whose version it has reached, keeps that.
LEMMA OwnUpsertsKept ==
  ASSUME CoreInv, TypeOK', History, OwnUpsertsShow, writes' = writes, log \subseteq log',
         \A r \in Rows : Advances(r),
         \A r \in Rows : OnlyUpserts(r) /\ store[r].here => store'[r].here,
         \A s \in Settled : acks'[s] = acks[s],
         \A s \in Settled' \ Settled :
           OnlyUpserts(writes[s].row) /\ store[writes[s].row].here
             => acks'[s] <= store'[writes[s].row].version
  PROVE  OwnUpsertsShow'
<1>1. Issued' = Issued
  BY DEF Issued
<1> SUFFICES ASSUME NEW r \in Rows, OnlyUpserts(r)', NEW s \in Issued, writes[s].row = r
             PROVE  store'[r].here /\ (s \in Settled' => acks'[s] <= store'[r].version)
  BY <1>1 DEF OwnUpsertsShow
<1>2. OnlyUpserts(r)
  BY <1>1 DEF OnlyUpserts
<1>3. store[r].here /\ (s \in Settled => acks[s] <= store[r].version)
  BY <1>2 DEF OwnUpsertsShow
<1>4. store'[r].here /\ store[r].version <= store'[r].version
  BY <1>2, <1>3 DEF Advances
<1>5. /\ store[r].version \in Nat /\ store'[r].version \in Nat
      /\ s \in Settled => acks[s] \in Nat
  BY IssuedType DEF CoreInv, TypeOK, StoreTypeOK, Record, Settled
<1> QED
  BY <1>2, <1>3, <1>4, <1>5

\* A settlement keeps that,
LEMMA SettleUpserts ==
  ASSUME CoreInv, TypeOK', History, OwnUpsertsShow, "pessimistic" \notin Strategies,
         NEW s, acks[s] > 0, Settle(s), UNCHANGED <<serverVars, discarded>>
  PROVE  OwnUpsertsShow'
<1>1. \A r \in Rows : Advances(r)
  BY SettleAdvances
<1>2. writes' = writes /\ acks' = acks /\ log' = log /\ discarded' = discarded /\ Issued' = Issued
  BY DEF Settle, SettleAck, SettlePessimistic, storeVars, serverVars, Issued
<1>3. CASE s \in queue
  <2> DEFINE r0 == writes[s].row
  <2>1. IsOptimistic(s)
    BY <1>3, RetiredWrite DEF History, ServerHistory, WritesFit, IsOptimistic
  <2>2. store' = [store EXCEPT ![r0] = AckedRow(s, acks[s])] /\ queue' = queue \ {s}
    BY <1>3, <2>1 DEF Settle, SettleAck, Retire
  <2>3. /\ r0 \in Rows /\ acks[s] \in Nat /\ store[r0].version \in Nat
        /\ store'[r0] = AckedRow(s, acks[s])
        /\ \A r \in Rows \ {r0} : store'[r] = store[r]
    BY <1>3, <2>2, RetiredWrite DEF CoreInv, TypeOK, StoreTypeOK, Record
  <2>4. store[r0].here => store'[r0].here /\ acks[s] <= store'[r0].version
    BY <2>3 DEF AckedRow, AckAdopts, Row
  <2>5. Settled' \ Settled \subseteq {s}
    BY <1>2, <2>2 DEF Settled
  <2> QED
    BY <1>1, <1>2, <2>3, <2>4, <2>5, OwnUpsertsKept
<1>4. CASE s \notin queue
  <2>1. store' = store /\ queue' = queue
    BY <1>4 DEF Settle, storeVars
  <2>2. Settled' = Settled
    BY <1>2, <2>1 DEF Settled
  <2> QED
    BY <1>1, <1>2, <2>1, <2>2, OwnUpsertsKept
<1> QED
  BY <1>3, <1>4

\* and so does an upsert, from wherever it comes.
LEMMA ApplyChangeUpserts ==
  ASSUME CoreInv, TypeOK', History, OwnUpsertsShow,
         NEW event, TrueEvent(event), ApplyChange(event), UNCHANGED serverVars,
         OnlyUpserts(event.row) => event.op = "upsert"
  PROVE  OwnUpsertsShow'
<1> DEFINE r0 == event.row
           old == store[r0]
<1>1. \A r \in Rows : Advances(r)
  BY ApplyChangeAdvances
<1>2. /\ r0 \in Rows /\ event.version \in Nat /\ old.version \in Nat
      /\ writes' = writes /\ acks' = acks /\ log' = log /\ Issued' = Issued
  BY DEF TrueEvent, CoreInv, TypeOK, StoreTypeOK, Record, Issued, serverVars,
     ApplyChange, AdoptEcho, ApplyServer, ResolveConflict, storeVars
<1>3. ASSUME NEW new, store' = [store EXCEPT ![r0] = new]
      PROVE  store'[r0] = new /\ \A r \in Rows \ {r0} : store'[r] = store[r]
  BY <1>2, <1>3 DEF CoreInv, TypeOK, StoreTypeOK
<1>4. CASE (\E s \in EchoedWrites(event) : AdoptEcho(event, s)) /\ UNCHANGED discarded
  <2>1. PICK s \in EchoedWrites(event) : AdoptEcho(event, s)
    BY <1>4
  <2> DEFINE new == EchoedRow(event, s)
  <2>2. /\ s \in queue /\ s \in Issued /\ writes[s].row = r0 /\ acks[s] = event.version
    BY EchoIsCommit
  <2>3. queue' = queue \ {s} /\ store' = [store EXCEPT ![r0] = new]
    BY <2>1 DEF AdoptEcho, Retire
  <2>4. ASSUME OnlyUpserts(r0), old.here
        PROVE  new.here /\ event.version <= new.version
    <3>1. CASE EchoWasSuperseded(event, s)
      <4>1. superseded[s] >= event.version /\ superseded[s] > 0
        BY <3>1 DEF EchoWasSuperseded
      <4>2. PICK u \in Settled : writes[u].row = r0 /\ acks[u] = superseded[s]
        BY <2>2, <4>1 DEF History, QueueHistory, MarksAreCommits
      <4>3. u \in Issued /\ acks[u] \in Nat
        BY <4>2, IssuedType DEF Settled, CoreInv, TypeOK
      <4>4. acks[u] <= old.version
        BY <1>2, <2>4, <4>2, <4>3 DEF OwnUpsertsShow
      <4>5. new = Row(old.version, StillPending(s), old.val)
        BY <2>4, <3>1 DEF EchoedRow
      <4> QED
        BY <1>2, <4>1, <4>2, <4>3, <4>4, <4>5 DEF Row
    <3>2. CASE ~EchoWasSuperseded(event, s)
      <4>1. event.op = "upsert"
        BY <2>4
      <4> QED
        BY <1>2, <2>4, <3>2, <4>1 DEF EchoedRow, Adopted, Row, Later
    <3> QED
      BY <3>1, <3>2
  <2> HIDE DEF new
  <2>5. Settled' \ Settled \subseteq {s}
    BY <1>2, <1>4, <2>3 DEF Settled
  <2>6. /\ store'[r0] = new
        /\ \A r \in Rows \ {r0} : store'[r] = store[r]
    BY <1>3, <2>3
  <2> QED
    BY <1>1, <1>2, <2>2, <2>4, <2>5, <2>6, OwnUpsertsKept
<1>5. CASE /\ store' = [store EXCEPT ![r0] = Adopted(event, FALSE)]
           /\ \/ queue' = queue /\ discarded' = discarded
              \/ /\ queue' = queue \ RowQueue(r0)
                 /\ discarded' = discarded \cup RowQueue(r0)
  <2>1. /\ store'[r0] = Adopted(event, FALSE)
        /\ \A r \in Rows \ {r0} : store'[r] = store[r]
    BY <1>3, <1>5
  <2>2. OnlyUpserts(r0) => store'[r0].here
    BY <2>1 DEF Adopted, Row
  <2>3. Settled' = Settled
    BY <1>2, <1>5 DEF Settled, RowQueue
  <2> QED
    BY <1>1, <1>2, <2>1, <2>2, <2>3, OwnUpsertsKept
<1>6. CASE UNCHANGED <<storeVars, discarded>>
  <2>1. Settled' = Settled /\ store' = store
    BY <1>2, <1>6 DEF Settled, storeVars
  <2> QED
    BY <1>1, <1>2, <2>1, OwnUpsertsKept
<1> QED
  BY <1>4, <1>5, <1>6 DEF ApplyChange, ApplyServer, ResolveConflict, ConflictRow

\* An upsert that is minted makes its row present, on the version it had.
LEMMA MintUpserts ==
  ASSUME CoreInv, OwnUpsertsShow, "pessimistic" \notin Strategies,
         NEW r0 \in Rows, NEW op \in Ops, NEW strategy \in Strategies,
         IssueWrite(r0, op, strategy)
  PROVE  OwnUpsertsShow'
<1> DEFINE write == [row |-> r0, op |-> op, base |-> store[r0].version, strategy |-> strategy]
           new == NextSeq
<1> USE DEF CoreInv
<1>1. /\ write \in Write /\ Mints(write) /\ UNCHANGED <<serverVars, discarded>>
      /\ write.strategy # "pessimistic" /\ write.row = r0 /\ write.op = op
      /\ write.base = store[r0].version
  BY IssueWriteMints DEF TypeOK
<1> HIDE DEF write
<1>2. /\ writes' = Append(writes, write) /\ Len(writes) < MaxWrites
      /\ queue' = queue \cup {new}
      /\ store' = [store EXCEPT ![r0] = OptimisticRow(write)]
  BY <1>1 DEF Mints, EnqueueOptimistic, Enqueued
<1>3. /\ Issued' = Issued \cup {new} /\ new \notin Issued /\ writes'[new] = write
      /\ \A s \in Issued : writes'[s] = writes[s]
  BY <1>1, <1>2, Minting DEF TypeOK
<1>4. Settled' = Settled
  <2>1. queue \subseteq Issued /\ discarded \subseteq Issued /\ discarded' = discarded
    BY <1>1, QueueIssued DEF TypeOK
  <2> QED
    BY <1>2, <1>3, <2>1 DEF Settled
<1>5. /\ store'[r0] = OptimisticRow(write)
      /\ \A r \in Rows \ {r0} : store'[r] = store[r]
  BY <1>2 DEF TypeOK, StoreTypeOK
<1>6. acks' = acks /\ log' = log
  BY <1>1 DEF serverVars
<1> HIDE DEF new
<1> SUFFICES ASSUME NEW r \in Rows, OnlyUpserts(r)', NEW s \in Issued', writes'[s].row = r
             PROVE  store'[r].here /\ (s \in Settled => acks[s] <= store'[r].version)
  BY <1>4, <1>6 DEF OwnUpsertsShow
<1>7. OnlyUpserts(r) /\ (r = r0 => op = "upsert")
  BY <1>1, <1>3, <1>6 DEF OnlyUpserts
<1>8. s \in Settled => store[r].here /\ acks[s] <= store[r].version
  BY <1>3, <1>7 DEF OwnUpsertsShow, Settled
<1>9. CASE r = r0
  <2>1. store'[r] = Row(store[r0].version, TRUE, NextSeq)
    BY <1>1, <1>5, <1>7, <1>9 DEF OptimisticRow
  <2> QED
    BY <1>8, <1>9, <2>1 DEF Row
<1>10. CASE r # r0
  <2>1. s \in Issued /\ writes[s].row = r
    BY <1>1, <1>3, <1>10
  <2> QED
    BY <1>5, <1>7, <1>8, <1>10, <2>1 DEF OwnUpsertsShow
<1> QED
  BY <1>9, <1>10

\* A commit changes no row of the replica and acknowledges no settled write anew.
LEMMA CommitUpserts ==
  ASSUME CoreInv, TypeOK', History, OwnUpsertsShow, Server
  PROVE  OwnUpsertsShow'
<1>1. UNCHANGED <<storeVars, discarded>> /\ log \subseteq log'
  BY DEF Server, ServerCommit, ForeignCommit, Commit
<1>2. \A s \in Settled : acks'[s] = acks[s]
  <2>1. CASE \E s \in Issued : ServerCommit(s)
    <3>1. PICK s \in Issued : ServerCommit(s)
      BY <2>1
    <3>2. s \notin Settled
      <4>1. acks[s] = 0
        BY <3>1 DEF ServerCommit
      <4> QED
        BY <4>1 DEF Settled, CoreInv, Core, WritesAreAccounted
    <3>3. \A t \in Settled : t \in Seqs
      BY IssuedType DEF Settled, CoreInv, TypeOK
    <3> QED
      BY <3>1, <3>2, <3>3 DEF ServerCommit, CoreInv, TypeOK
  <2>2. CASE \E r \in Rows, op \in Ops : ForeignCommit(r, op)
    BY <2>2 DEF ForeignCommit
  <2> QED
    BY <2>1, <2>2 DEF Server
<1>3. Settled' = Settled /\ store' = store /\ writes' = writes
  BY <1>1 DEF Settled, storeVars, Issued
<1> QED
  BY <1>1, <1>2, <1>3, StillAdvances, OwnUpsertsKept

UpsertsInv == HistoryInv /\ OwnUpsertsShow

\* Initially there is no own write.
LEMMA UpsertsInit == Init => UpsertsInv
<1> SUFFICES ASSUME Init PROVE OwnUpsertsShow
  BY HistoryInit DEF UpsertsInv
<1>1. Issued = {}
  BY DEF Init, StoreInit, Issued
<1> QED
  BY <1>1 DEF OwnUpsertsShow

\* Without pessimistic writes every step keeps it.
LEMMA UpsertsStep ==
  ASSUME "pessimistic" \notin Strategies
  PROVE  UpsertsInv /\ [Next]_vars => UpsertsInv'
<1> SUFFICES ASSUME CoreInv, TypeOK', History, OwnUpsertsShow, [Next]_vars
             PROVE  OwnUpsertsShow'
  BY HistoryStep DEF UpsertsInv, HistoryInv, IInv, CoreInv
<1>1. ASSUME NEW r \in Rows, NEW op \in Ops, NEW strategy \in Strategies,
             IssueWrite(r, op, strategy)
      PROVE  OwnUpsertsShow'
  BY <1>1, MintUpserts
<1>2. ASSUME NEW s \in Issued, CallAcked(s) PROVE OwnUpsertsShow'
  BY <1>2, SettleUpserts DEF CallAcked
<1>3. CASE \E f \in Flushes : FlushAcked(f)
  BY <1>3, SettleUpserts DEF FlushAcked
<1>4. CASE Server
  BY <1>4, CommitUpserts
<1>5. ASSUME NEW e \in log, NEW t \in Transports, Deliver(e, t) PROVE OwnUpsertsShow'
  <2> DEFINE event == Decoded(e, t)
  <2>1. ApplyChange(event) /\ UNCHANGED serverVars /\ TrueEvent(event)
    BY <1>5, DecodedTrue DEF Deliver
  <2>2. OnlyUpserts(event.row) => event.op = "upsert"
    BY DecodedType DEF OnlyUpserts, CoreInv
  <2> HIDE DEF event
  <2> QED
    BY <2>1, <2>2, ApplyChangeUpserts
<1>6. CASE UNCHANGED <<storeVars, serverVars, discarded>>
  BY <1>6 DEF OwnUpsertsShow, OnlyUpserts, Settled, Issued, storeVars, serverVars
<1> QED
  BY <1>1, <1>2, <1>3, <1>4, <1>5, <1>6
     DEF Next, Client, Application, CallFailed, FlushStart, FlushFailed, Reload, vars

\* The commit of an own write that settled is not news, if all that happened to the
\* row are upserts.
LEMMA OwnCommitIsHeld ==
  ASSUME CoreInv, History, OwnUpsertsShow, NEW e \in log,
         discarded' # discarded, e.key \notin {NoKey} \cup discarded, Deliver(e, "backend")
  PROVE  ~OnlyUpserts(e.row)
<1> SUFFICES ASSUME OnlyUpserts(e.row) PROVE FALSE
  OBVIOUS
<1> DEFINE k == e.key
<1>1. Decoded(e, "backend") = e
  BY DEF Decoded
<1>2. /\ e.row \in Rows /\ e.version \in Nat
      /\ k \in Issued /\ writes[k].row = e.row /\ writes[k].op = e.op /\ acks[k] = e.version
  BY DEF CoreInv, TypeOK, Event, Core, LogIsTrue, History, ServerHistory, LogFitsWrites
<1>3. Conflicts(e) /\ EchoedWrites(e) = {}
  BY <1>1 DEF Deliver, ApplyChange
<1>4. k \in Settled
  BY <1>2, <1>3 DEF Settled, EchoedWrites, RowQueue, IsEchoOf
<1>5. store[e.row].here /\ e.version <= store[e.row].version
  BY <1>2, <1>4 DEF OwnUpsertsShow
<1>6. store[e.row].version < e.version
  BY <1>1, <1>3, <1>5, DecodedTrue, WinnerIsNotOlder
<1>7. store[e.row].version \in Nat
  BY <1>2 DEF CoreInv, TypeOK, StoreTypeOK, Record
<1> QED
  BY <1>2, <1>5, <1>6, <1>7

\* As long as only upserts are about, and no pessimistic writes, an event that drops
\* queued writes is never the commit of a write of this replica that still counts.
THEOREM OwnUpsertsAgree == "pessimistic" \notin Strategies => (Spec => UpsertsDoNotConflict)
<1> SUFFICES ASSUME "pessimistic" \notin Strategies PROVE Spec => UpsertsDoNotConflict
  OBVIOUS
<1>1. UpsertsInv /\ [Next]_vars => UpsertsInv'
  BY UpsertsStep
<1>2. UpsertsInv /\ [Next]_vars =>
        [\A e \in log :
           /\ discarded' # discarded
           /\ e.key \notin {NoKey} \cup discarded
           /\ Deliver(e, "backend")
           => ~OnlyUpserts(e.row)]_vars
  BY OwnCommitIsHeld DEF UpsertsInv, HistoryInv, IInv
<1> QED
  BY <1>1, <1>2, UpsertsInit, PTL DEF Spec, UpsertsDoNotConflict

=============================================================================
