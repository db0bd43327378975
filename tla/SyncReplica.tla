----------------------------- MODULE SyncReplica -----------------------------
(***************************************************************************)
(* One replica: makeSyncClient (client.mjs) over a durable store, sending    *)
(* its writes to an authoritative server and reconciling the committed       *)
(* changes that the realtime transports deliver.                             *)
(*                                                                         *)
(* client.mjs runs every local state transition behind one promise chain     *)
(* (mutate), and every such transition ends in at most one store             *)
(* transaction: an action is one gated step.  Sends stay outside the gate,    *)
(* so any number of them may be outstanding while events arrive.             *)
(*                                                                         *)
(* The server and the network are external.  A request may be lost, may      *)
(* commit after its caller gave up or reloaded, and commits once per key.     *)
(* An event may be delivered late, twice, out of order or never.             *)
(***************************************************************************)
EXTENDS ReplicaStore

CONSTANTS
  MaxVersion,   \* bound: other clients change a row only below this version
  Strategies,   \* the write strategies the application uses
  Ops,          \* the operations clients perform
  Transports,   \* "backend" carries the write key, "supabase" does not
  Flushes       \* bound: the flushes that may be under way at once

ASSUME ReplicaAssumption ==
  /\ MaxVersion \in Nat
  /\ Strategies \subseteq Strategy
  /\ Ops \subseteq Op
  /\ Transports \subseteq {"backend", "supabase"}

VARIABLES
  calls,      \* write() calls that await their send
  flush,      \* what each flushQueue under way has left of the list it read;
              \* its least member is the one being sent
  wire,       \* writes of which a request was sent at least once
  server,     \* row -> the authoritative row
  acks,       \* committed_version of a write, 0 until the server committed it
  log,        \* every change the server committed
  discarded   \* history: writes a conflict dropped from the queue

callVars == <<calls, flush>>
serverVars == <<server, acks, log>>
vars == <<storeVars, callVars, wire, serverVars, discarded>>

Event == [row: Rows, op: Op, version: Nat \ {0}, val: Nat, key: Nat]

TypeOK ==
  /\ StoreTypeOK
  /\ calls \subseteq Issued
  /\ flush \in [Flushes -> SUBSET Issued]
  /\ wire \subseteq Issued
  /\ server \in [Rows -> [here: BOOLEAN, version: Nat, val: Nat]]
  /\ acks \in [Seqs -> Nat]
  /\ log \subseteq Event
  /\ discarded \subseteq Issued

NoFlush == [f \in Flushes |-> {}]

Init ==
  /\ StoreInit
  /\ calls = {}
  /\ flush = NoFlush
  /\ wire = {}
  /\ server = [r \in Rows |-> [here |-> FALSE, version |-> 0, val |-> Foreign]]
  /\ acks = [s \in Seqs |-> 0]
  /\ log = {}
  /\ discarded = {}

-----------------------------------------------------------------------------
(* The server.                                                              *)

\* Row r moves to its next version and the change joins the log.
Commit(r, op, val, key) ==
  LET version == server[r].version + 1
  IN  /\ server' = [server EXCEPT ![r] =
           [here |-> op = "upsert", version |-> version,
            val |-> IF op = "upsert" THEN val ELSE Foreign]]
      /\ log' = log \cup {[row |-> r, op |-> op, version |-> version,
                           val |-> IF op = "upsert" THEN val ELSE Foreign, key |-> key]}

\* A delete commits only on a row that exists; the backend has no
\* committed_version to acknowledge any other with.
Effective(op, r) == op = "delete" => server[r].here

\* The first request of write s to arrive commits it; a later one with the
\* same Idempotency-Key is answered with the same version, acks[s].
ServerCommit(s) ==
  /\ s \in wire
  /\ acks[s] = 0
  /\ Effective(writes[s].op, writes[s].row)
  /\ Commit(writes[s].row, writes[s].op, s, s)
  /\ acks' = [acks EXCEPT ![s] = server[writes[s].row].version + 1]
  /\ UNCHANGED <<storeVars, callVars, wire, discarded>>

\* Another client commits a change.
ForeignCommit(r, op) ==
  /\ server[r].version < MaxVersion
  /\ Effective(op, r)
  /\ Commit(r, op, Foreign, NoKey)
  /\ UNCHANGED <<storeVars, callVars, wire, acks, discarded>>

-----------------------------------------------------------------------------
(* write().                                                                 *)

\* The gated part of write(): mint the write on the version held locally and
\* persist it; unless it is only queued, the send starts at once.
IssueWrite(r, op, strategy) ==
  LET s == NextSeq
      write == [row |-> r, op |-> op, base |-> store[r].version, strategy |-> strategy]
  IN  /\ Len(writes) < MaxWrites
      /\ IF strategy = "pessimistic" THEN Enqueue(write) ELSE EnqueueOptimistic(write)
      /\ IF strategy = "local_queue"
         THEN UNCHANGED <<calls, wire>>
         ELSE /\ calls' = calls \cup {s}
              /\ wire' = wire \cup {s}
      /\ UNCHANGED <<flush, serverVars, discarded>>

\* _applyAck: retire write s at its committed version.  A write that is no
\* longer queued is left alone ("Missing").
Settle(s) ==
  IF s \in queue
  THEN IF IsOptimistic(s) THEN SettleAck(s, acks[s]) ELSE SettlePessimistic(s, acks[s])
  ELSE UNCHANGED storeVars

\* What a failed send is reported as.  bumpAttempts counts the attempt; the
\* count matters only in being 0 when the write is no longer queued, which the
\* caller takes for "the echo retired it, so it is committed".
FailureReport(s) == IF s \in queue THEN "queued" ELSE "acked"

CallAcked(s) ==
  /\ s \in calls
  /\ acks[s] > 0
  /\ Settle(s)
  /\ calls' = calls \ {s}
  /\ UNCHANGED <<flush, wire, serverVars, discarded>>

\* The send rejected, the answer was invalid, or the settlement aborted.
CallFailed(s) ==
  /\ s \in calls
  /\ calls' = calls \ {s}
  /\ UNCHANGED <<storeVars, flush, wire, serverVars, discarded>>

-----------------------------------------------------------------------------
(* flushQueue().  Every call has a loop of its own: one that starts while      *)
(* another is under way sends what that one has not settled yet once more.     *)

Sending(f) == CHOOSE s \in flush[f] : \A t \in flush[f] : s <= t

\* Go on to the writes of rest, in queue order; the next send starts at once.
FlushOn(f, rest) ==
  /\ flush' = [flush EXCEPT ![f] = rest]
  /\ wire' = wire \cup {s \in rest : \A t \in rest : s <= t}

\* What the gated queue.list() of flushQueue returns.
FlushList == queue

FlushStart(f) ==
  /\ flush[f] = {}
  /\ FlushList # {}
  /\ FlushOn(f, FlushList)
  /\ UNCHANGED <<storeVars, calls, serverVars, discarded>>

FlushAcked(f) ==
  /\ flush[f] # {}
  /\ acks[Sending(f)] > 0
  /\ Settle(Sending(f))
  /\ FlushOn(f, flush[f] \ {Sending(f)})
  /\ UNCHANGED <<calls, serverVars, discarded>>

\* Fault: the first write that fails ends the flush.
FlushFailedFault(f) ==
  /\ flush[f] # {}
  /\ FlushOn(f, {})
  /\ UNCHANGED <<storeVars, calls, serverVars, discarded>>

\* The write stays queued, and the loop goes on to the next.
FlushFailed(f) ==
  /\ flush[f] # {}
  /\ FlushOn(f, flush[f] \ {Sending(f)})
  /\ UNCHANGED <<storeVars, calls, serverVars, discarded>>

\* The page is reloaded, or crashes: what is not durable is gone.
Reload ==
  /\ calls # {} \/ flush # NoFlush
  /\ calls' = {}
  /\ flush' = NoFlush
  /\ UNCHANGED <<storeVars, wire, serverVars, discarded>>

-----------------------------------------------------------------------------
(* applyChange().                                                           *)

\* A change as a transport delivers it.  Supabase realtime knows no write key
\* and its delete carries the version of the row that was deleted, where the
\* journal, and so the backend, gives the delete the version after it.
Decoded(e, transport) ==
  IF transport = "backend" THEN e
  ELSE [e EXCEPT !.key = NoKey,
                 !.version = IF e.op = "delete" THEN e.version - 1 ELSE e.version]

EchoedWrites(event) == {s \in RowQueue(event.row) : IsEchoOf(s, writes[s], event)}

LatestBase(r) ==
  LET bases == {writes[s].base : s \in RowQueue(r)}
  IN  CHOOSE b \in bases : \A c \in bases : c <= b

\* The queue, not the row's flag, says whether the row has pending intent; for
\* an optimistic delete there is no row at all.
ReconcileLocal(r) ==
  IF RowQueue(r) = {} THEN store[r]
  ELSE [here |-> TRUE,
        version |-> IF store[r].here THEN store[r].version ELSE LatestBase(r),
        dirty |-> TRUE]

\* Fault: a version that is already held is never looked at again.
RefreshesFault(event) == FALSE

\* A row held at the same version is refreshed, if it has no pending intent.
Refreshes(event) ==
  /\ Reconcile(ReconcileLocal(event.row), event) = "already applied"
  /\ RowQueue(event.row) = {}
  /\ ~store[event.row].dirty

Applies(event) ==
  Reconcile(ReconcileLocal(event.row), event) = "apply" \/ Refreshes(event)

Conflicts(event) == Reconcile(ReconcileLocal(event.row), event) = "conflict"

ApplyChange(event) ==
  \/ /\ \E s \in EchoedWrites(event) : AdoptEcho(event, s)
     /\ UNCHANGED discarded
  \/ /\ EchoedWrites(event) = {}
     /\ Applies(event)
     /\ ApplyServer(event)
     /\ UNCHANGED discarded
  \/ /\ EchoedWrites(event) = {}
     /\ Conflicts(event)
     /\ ResolveConflict(event, RowQueue(event.row))
     /\ discarded' = discarded \cup RowQueue(event.row)
  \/ /\ EchoedWrites(event) = {}
     /\ ~Applies(event)
     /\ ~Conflicts(event)
     /\ UNCHANGED <<storeVars, discarded>>

Deliver(e, transport) ==
  /\ UNCHANGED <<callVars, wire, serverVars>>
  /\ ApplyChange(Decoded(e, transport))

-----------------------------------------------------------------------------
Application ==
  \/ \E r \in Rows, op \in Ops, strategy \in Strategies : IssueWrite(r, op, strategy)
  \/ \E s \in Issued : CallAcked(s)
  \/ \E s \in Issued : CallFailed(s)
  \/ \E f \in Flushes : FlushStart(f)
  \/ \E f \in Flushes : FlushAcked(f)
  \/ \E f \in Flushes : FlushFailed(f)

Client == Application \/ Reload

Server ==
  \/ \E s \in Issued : ServerCommit(s)
  \/ \E r \in Rows, op \in Ops : ForeignCommit(r, op)

Next ==
  \/ Client
  \/ Server
  \/ \E e \in log, t \in Transports : Deliver(e, t)

Spec == Init /\ [][Next]_vars

-----------------------------------------------------------------------------
(* Safety.                                                                  *)

\* A dirty row has a queued write to resend: no transaction makes a row dirty
\* without a write, nor retires the last write under a row that stays dirty, even
\* when what it does was decided on older reads.
DirtyIsQueued == \A r \in Rows : store[r].dirty => RowQueue(r) # {}

\* A row whose optimistic write is queued is dirty, or absent for a delete.
IntentIsDirty ==
  \A r \in Rows :
    store[r].here /\ (\E s \in RowQueue(r) : IsOptimistic(s)) => store[r].dirty

\* Both: the transactions of store.mjs never leave intent without its retry
\* record, nor a row that hydration's prune would take for clean.
IntentIsDurable == DirtyIsQueued /\ IntentIsDirty

\* Whatever payload a row shows is committed, or it is the payload of an
\* optimistic write that is still queued.  A pessimistic payload is therefore
\* never visible before the server accepted it, and a payload whose write was
\* dropped by a conflict never stays.
VisibleIsCommittedOrPending ==
  \A r \in Rows :
    LET x == store[r].val
    IN  \/ x = Foreign
        \/ x \in Issued /\ acks[x] > 0
        \/ store[r].dirty /\ x \in RowQueue(r) /\ IsOptimistic(x)

\* No write is lost: each is queued for resend, committed by the server, or
\* was dropped by a conflict.  An event that merely has the version a write
\* expects must not be taken for its echo.
WritesAreAccounted ==
  \A s \in Issued : s \in queue \/ acks[s] > 0 \/ s \in discarded

\* The replica never claims a version the server has not issued, in its rows,
\* in the base of a write or in a superseded mark; a row ahead of the server
\* would ignore the changes it still has to see.
VersionsAreIssued ==
  /\ \A r \in Rows : store[r].version <= server[r].version
  /\ \A s \in Issued : writes[s].base <= server[writes[s].row].version
  /\ \A s \in queue : superseded[s] <= server[writes[s].row].version

\* The user keeps seeing the newest edit while it is pending: the newest queued
\* optimistic write of a row that no later write overtook is what the row
\* shows, whatever acks and echoes of older writes come in.
Unsettled(r) == {s \in RowQueue(r) : IsOptimistic(s) /\ superseded[s] = 0}

NewestEditIsVisible ==
  \A r \in Rows : \A s \in Unsettled(r) :
    (\A t \in Unsettled(r) : t <= s) =>
      IF writes[s].op = "delete" THEN ~store[r].here
      ELSE store[r].here /\ store[r].val = s

InSync(r) ==
  /\ RowQueue(r) = {}
  /\ store[r].here = server[r].here
  /\ server[r].here => store[r] = Row(server[r].version, FALSE, server[r].val)

Latest(e) == \A f \in log : f.row = e.row => f.version <= e.version

\* What applyChange ignores of the latest change of a row is held already: with
\* nothing left to send, an ignored latest change means agreement with the
\* server, in payload and presence as well as in version.  An ack that came
\* first, and took the version but not the payload, must not hide the change.
Hides(e, transport) ==
  /\ Latest(e)
  /\ RowQueue(e.row) = {}
  /\ ~Applies(Decoded(e, transport))
  /\ ~InSync(e.row)

IgnoredIsHeld == \A e \in log : ~Hides(e, "backend")

\* The same of every transport (README: "A re-seen clean version refreshes the
\* authoritative payload [...] so an HTTP ack that arrived before a
\* server-normalized echo cannot hide that echo").
NothingHidden == \A e \in log, t \in Transports : ~Hides(e, t)

-----------------------------------------------------------------------------
(* Action properties.                                                       *)

\* While a row stays present its version never goes back.
VersionsNeverRegress ==
  [][\A r \in Rows :
       store[r].here /\ store'[r].here => store[r].version <= store'[r].version]_vars

\* A later own delete that this replica knows to be committed is not undone when
\* the echo of an earlier own write, still queued, comes in late (README:
\* "Out-of-order exact echoes cannot ... resurrect a row after a newer delete").
SettledLaterDelete(e) ==
  \E s \in Issued \ (queue \cup discarded) :
    /\ writes[s].row = e.row
    /\ writes[s].op = "delete"
    /\ s > e.key
    /\ acks[s] > e.version

SettledDeletesStay ==
  [][\A e \in log :
       /\ e.key \in queue
       /\ ~store[e.row].here
       /\ SettledLaterDelete(e)
       /\ Deliver(e, "backend")
       => ~store'[e.row].here]_vars

\* Once the latest change of a row has changed the replica and nothing of the row is left
\* to send, the replica agrees with the server, whatever came before.
LatestChangeConverges ==
  [][\A e \in log, t \in Transports :
       Latest(e) /\ RowQueue(e.row)' = {} /\ Deliver(e, t) => InSync(e.row)']_vars

\* As long as only upserts are about, an event that drops queued writes is never
\* the commit of a write of this replica: the version that an ack leaves on the
\* row makes the write's own late echo old (lib.rs: "an echo of our OWN in-flight
\* write is not a real conflict").
OnlyUpserts(r) ==
  /\ \A s \in Issued : writes[s].row = r => writes[s].op = "upsert"
  /\ \A e \in log : e.row = r => e.op = "upsert"

UpsertsDoNotConflict ==
  [][\A e \in log :
       /\ discarded' # discarded
       /\ e.key \notin {NoKey} \cup discarded
       /\ Deliver(e, "backend")
       => ~OnlyUpserts(e.row)]_vars

\* A conflict is somebody else's change: an event that drops queued writes is
\* never the commit of a write that this replica still counts on (lib.rs: "an
\* echo of our OWN in-flight write is not a real conflict").
ConflictsAreForeign ==
  [][\A e \in log, t \in Transports :
       discarded' # discarded /\ Deliver(e, t) => e.key \in {NoKey} \cup discarded]_vars

\* A failed send is reported as acked only if the server committed the write
\* (client.mjs: "the write is committed despite the lost HTTP ack").
AckedMeansCommitted ==
  [][\A s \in Issued :
       /\ CallFailed(s) \/ \E f \in Flushes : FlushFailed(f) /\ s = Sending(f)
       /\ FailureReport(s) = "acked"
       => acks[s] > 0]_vars

-----------------------------------------------------------------------------
(* Refinement.                                                              *)

\* Seen as a ledger of writes: the queue is what is pending.
Ledger == INSTANCE WriteLedger WITH
  issued <- [s \in Issued |-> writes[s].row],
  pending <- queue,
  committed <- {s \in Issued : acks[s] > 0},
  dropped <- discarded

\* Whatever is lost, repeated or reordered, the client keeps the promise of
\* WriteLedger: a write leaves the queue only when it is committed or when a
\* conflict drops its row's writes together, and it never comes back.
KeepsLedger == Ledger!LedgerSpec

-----------------------------------------------------------------------------
(* Liveness.                                                                *)

\* The event loop: whatever a flush has sent is answered or fails, and the flush
\* goes on.  Nothing starts a flush but an open of the backend connection or the
\* application, so no fairness does.
FlushGoesOn == \A f \in Flushes : WF_vars(FlushAcked(f) \/ FlushFailed(f))

FairSpec == Spec /\ FlushGoesOn

\* What the environment has to do for a write to get through.  Flushes keep being
\* started while something is queued: the connection opens again.
Reopens == WF_vars(\E f \in Flushes : FlushStart(f))

\* The page is left alone in the end; a flush that never gets far sends nothing.
StaysOpen == <>[][~Reload]_vars

\* A request for write s is on its way.
Requested(s) ==
  s \in calls \/ \E f \in Flushes : flush[f] # {} /\ Sending(f) = s

\* The server does not refuse the write for ever, however often it is requested.
Accepts(s) == []<>Requested(s) => <>(acks[s] > 0)

\* Not every answer to a resend of the write is lost.
Answers(s) == SF_vars(\E f \in Flushes : FlushAcked(f) /\ Sending(f) = s)

\* A write that the server accepts leaves the queue if the connection keeps opening,
\* however often its requests and answers are lost, and whatever becomes of the
\* writes before it in the queue: one that is refused for ever does not hold up the
\* others (client.mjs: "keep for the next flush").
QueueDrains ==
  \A s \in Seqs :
    Reopens /\ StaysOpen /\ Accepts(s) /\ Answers(s) => (s \in queue ~> s \notin queue)

\* The same without another open.  The code does not keep it: a failed send is
\* reported as "retry_scheduled", but nothing is.
RetriesAreScheduled ==
  \A s \in Seqs : StaysOpen /\ Accepts(s) /\ Answers(s) => (s \in queue ~> s \notin queue)

=============================================================================
