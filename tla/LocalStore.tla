----------------------------- MODULE LocalStore -----------------------------
(***************************************************************************)
(* The localStorage adapter (local-storage.mjs): one JSON document holds the  *)
(* rows, the queue and the cursor as lists, and every operation loads it,      *)
(* edits the lists in place and stores it with one setItem.  A setItem that   *)
(* throws (the quota) leaves the old document.                                *)
(*                                                                         *)
(* The client calls it with whatever its decisions led to; here with any      *)
(* arguments of the right kind.  It is shown to keep the contract that the     *)
(* IndexedDB store keeps, so that what is proved of the client over that       *)
(* store holds over this one.                                                *)
(***************************************************************************)
EXTENDS SequencesExt, Integers

CONSTANTS
  Rows,        \* the (table, id) pairs
  MaxWrites,   \* bound: how many writes are ever queued
  MaxVersion,  \* bound: the versions that events and acks mention
  MaxCursor    \* bound: the catch-up cursor

ASSUME LocalAssumption == MaxWrites \in Nat /\ MaxVersion \in Nat /\ MaxCursor \in Nat

VARIABLES
  doc,     \* the document: the item of storage
  writes   \* history: every write ever queued

localVars == <<doc, writes>>

Seqs == 1 .. MaxWrites
Versions == 1 .. MaxVersion
Ops == {"upsert", "delete"}

\* freshState.
LocalInit ==
  /\ doc = [rows |-> << >>, queue |-> << >>, next_seq |-> 1, cursor |-> 0]
  /\ writes = << >>

-----------------------------------------------------------------------------
(* The list helpers.  A row record is [row, version, dirty, val], a queue      *)
(* record [seq, row, op, superseded].                                       *)

RowIndex(d, r) == SelectInSeq(d.rows, LAMBDA rec : rec.row = r)
Has(d, r) == RowIndex(d, r) > 0
RowRecord(d, r) == d.rows[RowIndex(d, r)]

\* Fault: a record is always appended.
PutRowFault(d, rec) == [d EXCEPT !.rows = Append(@, rec)]

PutRow(d, rec) ==
  IF Has(d, rec.row)
  THEN [d EXCEPT !.rows = ReplaceAt(@, RowIndex(d, rec.row), rec)]
  ELSE [d EXCEPT !.rows = Append(@, rec)]

DeleteRow(d, r) ==
  IF Has(d, r) THEN [d EXCEPT !.rows = RemoveAt(@, RowIndex(d, r))] ELSE d

\* touch: the version and the dirty flag of a record, if there is one.
Touch(d, r, version, dirty) ==
  IF Has(d, r)
  THEN PutRow(d, [RowRecord(d, r) EXCEPT !.version = version, !.dirty = dirty])
  ELSE d

Replica(r, version, dirty, val) ==
  [row |-> r, version |-> version, dirty |-> dirty, val |-> val]

\* An authoritative change: the record goes, or is replaced.
Authoritative(d, event, dirty) ==
  IF event.op = "delete" THEN DeleteRow(d, event.row)
  ELSE PutRow(d, Replica(event.row, event.version, dirty, event.val))

Raised(a, b) == IF a >= b THEN a ELSE b

Queued(d) == {d.queue[i].seq : i \in DOMAIN d.queue}
QueueRecord(d, s) == d.queue[SelectInSeq(d.queue, LAMBDA w : w.seq = s)]
OtherSeqs(d, s) ==
  LET r == QueueRecord(d, s).row
  IN  {w.seq : w \in {d.queue[i] : i \in {j \in DOMAIN d.queue : d.queue[j].row = r}}} \ {s}

\* Fault: every record of the row that is still queued gets the mark.
MarkedFault(w, r, s, version) ==
  IF w.row = r /\ w.seq # s THEN [w EXCEPT !.superseded = Raised(@, version)] ELSE w

Marked(w, r, s, version) ==
  IF w.row = r /\ w.seq < s THEN [w EXCEPT !.superseded = Raised(@, version)] ELSE w

\* The filter of a queue: its n-th record is the record that stays with n of
\* those that stay up to it.
Kept(q, seqs) ==
  LET stays == {i \in DOMAIN q : q[i].seq \notin seqs}
      upTo(i) == {j \in stays : j <= i}
  IN  [n \in 1 .. Cardinality(stays) |->
         q[CHOOSE i \in stays : Cardinality(upTo(i)) = n]]

Without(d, seqs) == [d EXCEPT !.queue = Kept(@, seqs)]

\* The older writes of the row learn of the version; write s leaves the queue.
RetiredFrom(d, r, s, version) ==
  Without([d EXCEPT !.queue = [i \in DOMAIN @ |-> Marked(@[i], r, s, version)]], {s})

-----------------------------------------------------------------------------
(* The operations, each from a document to the next one.                     *)

EnqueueIn(d, write) ==
  [d EXCEPT !.next_seq = @ + 1,
            !.queue = Append(@, [seq |-> d.next_seq, row |-> write.row,
                                 op |-> write.op, superseded |-> 0])]

EnqueueOptimisticIn(d, write) ==
  EnqueueIn(
    IF write.op = "delete" THEN DeleteRow(d, write.row)
    ELSE PutRow(d, Replica(write.row, write.base, TRUE, d.next_seq)),
    write)

SettleAckIn(d, s, committed) ==
  LET r == QueueRecord(d, s).row
      adopted == IF Has(d, r) THEN Raised(RowRecord(d, r).version, committed) ELSE 0
  IN  IF s \notin Queued(d) THEN d
      ELSE RetiredFrom(Touch(d, r, adopted, OtherSeqs(d, s) # {}), r, s, committed)

PreserveNewer(d, s) ==
  LET r == QueueRecord(d, s).row
  IN  Has(d, r) /\ RowRecord(d, r).dirty /\ \E t \in OtherSeqs(d, s) : t > s

SettlePessimisticIn(d, s, committed) ==
  LET r == QueueRecord(d, s).row
      settled ==
        IF PreserveNewer(d, s)
        THEN Touch(d, r, Raised(RowRecord(d, r).version, committed), TRUE)
        ELSE IF QueueRecord(d, s).op = "delete" THEN DeleteRow(d, r)
             ELSE PutRow(d, Replica(r, committed, OtherSeqs(d, s) # {}, s))
  IN  IF s \notin Queued(d) THEN d ELSE RetiredFrom(settled, r, s, committed)

AdoptEchoIn(d, event, s) ==
  LET r == event.row
      rec == RowRecord(d, r)
      pending == OtherSeqs(d, s) # {}
      newer == \E t \in OtherSeqs(d, s) : t > s
      mark == QueueRecord(d, s).superseded
      shown ==
        IF mark > 0 /\ mark >= event.version
        THEN IF Has(d, r) THEN Touch(d, r, rec.version, pending) ELSE d
        ELSE IF ~newer
             THEN IF ~Has(d, r) \/ event.version >= rec.version
                  THEN Authoritative(d, event, pending)
                  ELSE Touch(d, r, rec.version, pending)
             ELSE IF Has(d, r)
                  THEN Touch(d, r, Raised(rec.version, event.version), TRUE)
                  ELSE d
  IN  IF s \notin Queued(d) THEN d ELSE RetiredFrom(shown, r, s, event.version)

ResolveConflictIn(d, event, seqs) ==
  LET r == event.row
      newer == \E t \in Queued(d) \ seqs : QueueRecord(d, t).row = r
  IN  Without(IF ~newer THEN Authoritative(d, event, FALSE)
              ELSE IF Has(d, r)
                   THEN Touch(d, r, Raised(RowRecord(d, r).version, event.version), TRUE)
                   ELSE d,
              seqs)

\* A cursor that would move back is refused.
SetCursorIn(d, to) == IF to < d.cursor THEN d ELSE [d EXCEPT !.cursor = to]

-----------------------------------------------------------------------------
(* update(): one operation, one setItem.                                     *)

\* The base of a write is the version that meta() reports; the bound leaves a
\* version for its commit.
Held(r) == IF Has(doc, r) THEN RowRecord(doc, r).version ELSE 0

Queue(r, op, strategy) ==
  LET write == [row |-> r, op |-> op, base |-> Held(r), strategy |-> strategy]
  IN  /\ Len(writes) < MaxWrites /\ Held(r) < MaxVersion
      /\ writes' = Append(writes, write)
      /\ doc' = IF strategy = "pessimistic" THEN EnqueueIn(doc, write)
                ELSE EnqueueOptimisticIn(doc, write)

\* The server commits a write above the version it was based on.
Settle(s, committed) ==
  /\ committed > writes[s].base
  /\ doc' = IF writes[s].strategy = "pessimistic"
            THEN SettlePessimisticIn(doc, s, committed)
            ELSE SettleAckIn(doc, s, committed)
  /\ UNCHANGED writes

Change(r, op, version, val) ==
  [row |-> r, op |-> op, version |-> version, val |-> val]

\* put or del of a foreign change.
Apply(r, op, version) ==
  /\ doc' = Authoritative(doc, Change(r, op, version, 0), FALSE)
  /\ UNCHANGED writes

Echo(s, version) ==
  /\ version > writes[s].base
  /\ doc' = AdoptEchoIn(doc, Change(writes[s].row, writes[s].op, version, s), s)
  /\ UNCHANGED writes

\* seqs: the writes of the row in a list read earlier.
Conflict(r, op, version, seqs) ==
  /\ \A s \in seqs : writes[s].row = r
  /\ doc' = ResolveConflictIn(doc, Change(r, op, version, 0), seqs)
  /\ UNCHANGED writes

Advance(to) ==
  /\ doc' = SetCursorIn(doc, to)
  /\ UNCHANGED writes

LocalNext ==
  \/ \E r \in Rows, op \in Ops, strategy \in {"optimistic", "pessimistic"} :
       Queue(r, op, strategy)
  \/ \E s \in DOMAIN writes, v \in Versions : Settle(s, v) \/ Echo(s, v)
  \/ \E r \in Rows, op \in Ops, v \in Versions :
       \/ Apply(r, op, v)
       \/ \E seqs \in SUBSET Queued(doc) : Conflict(r, op, v, seqs)
  \/ \E to \in 0 .. MaxCursor : Advance(to)

LocalSpec == LocalInit /\ [][LocalNext]_localVars

-----------------------------------------------------------------------------
(* Properties.                                                              *)

\* The lists stay what the lookups assume: one record per row, and the queue in
\* the order in which the writes were made.
ListsAreIndexed ==
  /\ \A i, j \in DOMAIN doc.rows : doc.rows[i].row = doc.rows[j].row => i = j
  /\ \A i, j \in DOMAIN doc.queue : i < j => doc.queue[i].seq < doc.queue[j].seq
  /\ \A s \in Queued(doc) : s < doc.next_seq

\* Read as rows and sets of sequence numbers, every operation on the document is
\* one transaction of the contract that the IndexedDB store implements
\* (local-storage.mjs: "the same public contract as openStore()").
RowOf(d, r) ==
  LET rec == RowRecord(d, r)
  IN  IF ~Has(d, r) THEN [here |-> FALSE, version |-> 0, dirty |-> FALSE, val |-> 0]
      ELSE [here |-> TRUE, version |-> rec.version, dirty |-> rec.dirty, val |-> rec.val]

MarkOf(d, s) == IF s \in Queued(d) THEN QueueRecord(d, s).superseded ELSE 0

Shown == [r \in Rows |-> RowOf(doc, r)]
Marks == [s \in Seqs |-> MarkOf(doc, s)]

Contract == INSTANCE StoreContract WITH
  store <- Shown, queue <- Queued(doc), superseded <- Marks, cursor <- doc.cursor

KeepsContract == Contract!ContractSpec

=============================================================================
