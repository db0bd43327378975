---------------------------- MODULE ReplicaStore ----------------------------
(***************************************************************************)
(* The durable local state of one plane and the transactions on it          *)
(* (store.mjs over IndexedDB).  Every action below is ONE transaction: the   *)
(* row and the queue change together or not at all.                          *)
(*                                                                         *)
(* A write's sequence number is its place in writes.  It doubles as its      *)
(* write key: the code mints both once per write and reuses neither.         *)
(* A payload is identified by its author: the number of a local write, or    *)
(* Foreign.                                                                 *)
(***************************************************************************)
EXTENDS SyncCore, Sequences

CONSTANTS
  Rows,       \* the (table, id) pairs the replica may hold
  MaxWrites   \* bound: how many local writes are ever issued

ASSUME MaxWritesAssumption == MaxWrites \in Nat

VARIABLES
  store,      \* row -> replica record: the object stores of the tables
  writes,     \* every write ever minted, in order; fixed once minted
  queue,      \* sequence numbers of the records in the _queue object store
  superseded  \* superseded_version of a queued write, 0 while unset

storeVars == <<store, writes, queue, superseded>>

Seqs == 1 .. MaxWrites
Foreign == 0
Strategy == {"optimistic", "local_queue", "pessimistic"}

Write == [row: Rows, op: Op, base: Nat, strategy: Strategy]
Record == [here: BOOLEAN, version: Nat, dirty: BOOLEAN, val: Nat]

\* No record under this key: the store keeps nothing of a deleted row.
Absent == [here |-> FALSE, version |-> 0, dirty |-> FALSE, val |-> Foreign]

Row(version, dirty, val) ==
  [here |-> TRUE, version |-> version, dirty |-> dirty, val |-> val]

StoreTypeOK ==
  /\ store \in [Rows -> Record]
  /\ writes \in Seq(Write)
  /\ Len(writes) \in 0 .. MaxWrites
  /\ queue \subseteq 1 .. Len(writes)
  /\ superseded \in [Seqs -> Nat]

StoreInit ==
  /\ store = [r \in Rows |-> Absent]
  /\ writes = << >>
  /\ queue = {}
  /\ superseded = [s \in Seqs |-> 0]

Issued == 1 .. Len(writes)
IsOptimistic(s) == writes[s].strategy # "pessimistic"

\* The queued writes of a row, and the others of write s's row.
RowQueue(r) == {s \in queue : writes[s].row = r}
Others(s) == RowQueue(writes[s].row) \ {s}
OlderThan(s) == {t \in Others(s) : t < s}

\* Fault: no later local write is looked for.
NewerThanFault(s) == {}

NewerThan(s) == {t \in Others(s) : t > s}

\* Fault: a row is clean once one of its writes is settled.
StillPendingFault(s) == FALSE

\* The row stays dirty while other writes of it are queued.
StillPending(s) == Others(s) # {}

-----------------------------------------------------------------------------
(* put and del of an authoritative change.                                   *)

\* Fault: a delete leaves the row, emptied.
AdoptedFault(event, dirty) == Row(event.version, dirty, event.val)

Adopted(event, dirty) ==
  IF event.op = "delete" THEN Absent ELSE Row(event.version, dirty, event.val)

ApplyServer(event) ==
  /\ store' = [store EXCEPT ![event.row] = Adopted(event, FALSE)]
  /\ UNCHANGED <<writes, queue, superseded>>

-----------------------------------------------------------------------------
(* enqueue: the retry record alone.  enqueueOptimistic: with the row.         *)

\* Fault: sequence numbers skip.
NextSeqFault == Len(writes) + 2

NextSeq == Len(writes) + 1

\* Fault: the row gets the version the server is expected to assign.
OptimisticRowFault(write) ==
  IF write.op = "delete" THEN Absent ELSE Row(write.base + 1, TRUE, NextSeq)

OptimisticRow(write) ==
  IF write.op = "delete" THEN Absent ELSE Row(write.base, TRUE, NextSeq)

Enqueued(write) ==
  /\ writes' = Append(writes, write)
  /\ queue' = queue \cup {NextSeq}
  /\ UNCHANGED superseded

EnqueueOptimistic(write) ==
  /\ Enqueued(write)
  /\ store' = [store EXCEPT ![write.row] = OptimisticRow(write)]

\* Fault: the payload of a pessimistic write is shown at once.
EnqueueFault(write) == EnqueueOptimistic(write)

Enqueue(write) == Enqueued(write) /\ UNCHANGED store

-----------------------------------------------------------------------------
(* settleAck, settlePessimistic and adoptEcho take write s out of the queue    *)
(* and note on each OLDER write of the row that a newer one committed.        *)
Retire(s, version) ==
  /\ queue' = queue \ {s}
  /\ superseded' = [t \in Seqs |->
       CASE t = s              -> 0
         [] t \in OlderThan(s) -> Later(superseded[t], version)
         [] OTHER              -> superseded[t]]

\* settleAck: a version-only HTTP ack of an optimistic write.
AckedRow(s, committed) ==
  LET rec == store[writes[s].row]
  IN  IF ~rec.here THEN Absent
      ELSE Row(IF AckAdopts(rec.version, committed) THEN committed ELSE rec.version,
               StillPending(s), rec.val)

SettleAck(s, committed) ==
  /\ Retire(s, committed)
  /\ store' = [store EXCEPT ![writes[s].row] = AckedRow(s, committed)]
  /\ UNCHANGED writes

\* settlePessimistic: the ack makes the payload visible, unless a newer
\* optimistic value of the row is there to be preserved.
HasNewerOptimisticValue(s) == store[writes[s].row].dirty /\ NewerThan(s) # {}

PessimisticRow(s, committed) ==
  LET rec == store[writes[s].row]
  IN  IF HasNewerOptimisticValue(s)
      THEN Row(Later(rec.version, committed), TRUE, rec.val)
      ELSE IF writes[s].op = "delete" THEN Absent
           ELSE Row(committed, StillPending(s), s)

SettlePessimistic(s, committed) ==
  /\ Retire(s, committed)
  /\ store' = [store EXCEPT ![writes[s].row] = PessimisticRow(s, committed)]
  /\ UNCHANGED writes

-----------------------------------------------------------------------------
(* adoptEcho: the realtime echo of queued write s carries the authoritative    *)
(* payload.  It is shown only if s is the newest local intent and no write     *)
(* that committed later was retired before it.                               *)

\* Fault: the mark is not looked at.
EchoWasSupersededFault(event, s) == FALSE

EchoWasSuperseded(event, s) == superseded[s] > 0 /\ superseded[s] >= event.version

EchoedRow(event, s) ==
  LET rec == store[event.row]
      touched == IF rec.here THEN Row(rec.version, StillPending(s), rec.val) ELSE Absent
      overtaken == rec.here /\ rec.version > event.version
  IN  IF EchoWasSuperseded(event, s) THEN touched
      ELSE IF NewerThan(s) = {}
           THEN IF overtaken THEN touched ELSE Adopted(event, StillPending(s))
           ELSE IF rec.here
                THEN Row(Later(rec.version, event.version), TRUE, rec.val)
                ELSE Absent

AdoptEcho(event, s) ==
  /\ Retire(s, event.version)
  /\ store' = [store EXCEPT ![event.row] = EchoedRow(event, s)]
  /\ UNCHANGED writes

-----------------------------------------------------------------------------
(* resolveConflict: the server wins; the listed writes of the row go.          *)

\* Fault: the local payload stays, under the server's version.
ConflictRowFault(event, seqs) ==
  LET rec == store[event.row]
  IN  IF rec.here THEN Row(event.version, FALSE, rec.val) ELSE Adopted(event, FALSE)

\* Fault: the server's row stays as dirty as the local one was.
ConflictDirtyFault(event, seqs) ==
  IF RowQueue(event.row) \subseteq seqs THEN Adopted(event, store[event.row].dirty)
  ELSE store[event.row]

ConflictRow(event, seqs) ==
  LET rec == store[event.row]
  IN  IF RowQueue(event.row) \subseteq seqs THEN Adopted(event, FALSE)
      ELSE IF rec.here THEN Row(Later(rec.version, event.version), TRUE, rec.val)
           ELSE Absent

ResolveConflict(event, seqs) ==
  /\ store' = [store EXCEPT ![event.row] = ConflictRow(event, seqs)]
  /\ queue' = queue \ seqs
  /\ superseded' = [t \in Seqs |-> IF t \in seqs THEN 0 ELSE superseded[t]]
  /\ UNCHANGED writes

=============================================================================
