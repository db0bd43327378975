---------------------------- MODULE StoreContract ----------------------------
(***************************************************************************)
(* What a durable store promises to the sync client, whichever medium keeps   *)
(* it: the transactions of ReplicaStore, in any order and with any arguments,  *)
(* and a catch-up cursor that never goes back.                               *)
(***************************************************************************)
EXTENDS ReplicaStore

CONSTANT MaxVersion   \* bound: the versions that events and acks mention

VARIABLE cursor

Versions == 1 .. MaxVersion

\* A committed change of a row, by the author of its payload.
Change(author) == [row: Rows, op: Op, version: Versions, val: {author}]

\* Write s is made on any base, by any strategy.
Intent == [row: Rows, op: Op, base: 0 .. MaxVersion, strategy: Strategy]

\* What a transaction took out of the queue.
Left == queue \ queue'

Transaction ==
  \/ /\ Len(writes') > Len(writes)
     /\ \E write \in Intent : EnqueueOptimistic(write) \/ Enqueue(write)
  \/ \E s \in Left :
       \/ \E v \in Versions : SettleAck(s, v) \/ SettlePessimistic(s, v)
       \/ \E e \in Change(s) : e.row = writes[s].row /\ AdoptEcho(e, s)
  \/ \E e \in Change(Foreign) :
       /\ Left \subseteq RowQueue(e.row)
       /\ (Left = {} /\ ApplyServer(e)) \/ ResolveConflict(e, Left)

ContractNext ==
  \/ Transaction /\ UNCHANGED cursor
  \/ cursor' > cursor /\ UNCHANGED storeVars

ContractSpec ==
  StoreInit /\ cursor = 0 /\ [][ContractNext]_<<storeVars, cursor>>

=============================================================================
