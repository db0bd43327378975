------------------------------- MODULE Journal -------------------------------
(***************************************************************************)
(* The change journal of the authoritative database                          *)
(* (sql/postgres/001_fiducia_sync.sql) and its incremental readers            *)
(* (fiducia_sync_pull, PostgresSyncStore::pull): transactions that change rows *)
(* under a write key, the trigger that captures each change with a number of   *)
(* the identity column, and a reader that follows a cursor.                   *)
(*                                                                         *)
(* PostgreSQL itself is external: a change locks its row until the             *)
(* transaction ends, an identity number is allocated at the insert and never   *)
(* given back, and what a transaction wrote is seen by others once it commits. *)
(***************************************************************************)
EXTENDS Integers, FiniteSets

CONSTANTS
  Rows,         \* the rows of captured tables
  Keys,         \* the write keys of requests
  Sessions,     \* the database sessions that change rows
  MaxSequence,  \* bound: how many identity numbers are allocated
  PageSize      \* p_limit

NoKey == "no key"   \* fiducia.write_key is not set

VARIABLES
  txns,       \* what each session's open transaction has captured
  sequence,   \* the last identity number allocated
  journal,    \* the committed rows of fiducia_sync.changes
  cursor,     \* the cursor of a reader
  given       \* history: the sequence numbers the reader was given

vars == <<txns, sequence, journal, cursor, given>>

Entry == [seq: 1 .. MaxSequence, row: Rows, op: {"upsert", "delete"},
          version: Nat, key: Keys \cup {NoKey}]

Closed == [open |-> FALSE, key |-> NoKey, wrote |-> {}]

Init ==
  /\ txns = [t \in Sessions |-> Closed]
  /\ sequence = 0
  /\ journal = {}
  /\ cursor = 0
  /\ given = {}

-----------------------------------------------------------------------------
(* What session t sees: what is committed, and what it wrote itself.          *)

Seen(t) == journal \cup txns[t].wrote
History(t, r) == {c \in Seen(t) : c.row = r}

\* The last change of a row; the row's version is the change's.
Newest(changes) == CHOOSE c \in changes : \A d \in changes : d.version <= c.version
Version(t, r) == IF History(t, r) = {} THEN 0 ELSE Newest(History(t, r)).version
Exists(t, r) == History(t, r) # {} /\ Newest(History(t, r)).op = "upsert"

LockedBy(t, r) == \E c \in txns[t].wrote : c.row = r
UsedBy(t, k) == \E c \in txns[t].wrote : c.key = k

-----------------------------------------------------------------------------
Begin(t, k) ==
  /\ ~txns[t].open
  /\ txns' = [txns EXCEPT ![t] = [open |-> TRUE, key |-> k, wrote |-> {}]]
  /\ UNCHANGED <<sequence, journal, cursor, given>>

\* Fault: the write key is looked for in what is committed only.
KeyReusedFault(t) ==
  txns[t].key # NoKey /\ \E c \in journal : c.key = txns[t].key

\* record_change: the write key names a change already.
KeyReused(t) ==
  txns[t].key # NoKey /\ \E c \in Seen(t) : c.key = txns[t].key

\* Fault: a delete is recorded under the version of the row it deletes.
RecordedFault(t, r, op) == IF op = "delete" THEN Version(t, r) ELSE Version(t, r) + 1

\* The version a change is recorded under: the one bump_row_version gave the row,
\* or for a delete, which bumps nothing, the one after the deleted row's.
Recorded(t, r, op) == Version(t, r) + 1

\* An insert under a write key waits for a transaction that inserted the same.
KeyIsFree(t) ==
  txns[t].key # NoKey => \A u \in Sessions \ {t} : ~UsedBy(u, txns[t].key)

\* A statement changes a row, whose lock it waits for, and capture_change records
\* it.  It is a new version of the row, so a reused key never names the same
\* change: the transaction is aborted.  The number is gone either way.
Capture(t, r, op) ==
  LET change == [seq |-> sequence + 1, row |-> r, op |-> op,
                 version |-> Recorded(t, r, op), key |-> txns[t].key]
  IN  /\ txns[t].open
      /\ sequence < MaxSequence
      /\ \A u \in Sessions \ {t} : ~LockedBy(u, r)
      /\ KeyIsFree(t)
      /\ op = "delete" => Exists(t, r)
      /\ sequence' = sequence + 1
      /\ txns' = [txns EXCEPT ![t] =
           IF KeyReused(t) THEN Closed
           ELSE [open |-> TRUE, key |-> txns[t].key, wrote |-> txns[t].wrote \cup {change}]]
      /\ UNCHANGED <<journal, cursor, given>>

\* A domain service records a change that its write key names already, once more:
\* it is given the number of the first time, and one more number is gone.
RecordAgain(t) ==
  /\ txns[t].open
  /\ sequence < MaxSequence
  /\ KeyIsFree(t) /\ KeyReused(t)
  /\ sequence' = sequence + 1
  /\ UNCHANGED <<txns, journal, cursor, given>>

Commit(t) ==
  /\ txns[t].open
  /\ journal' = journal \cup txns[t].wrote
  /\ txns' = [txns EXCEPT ![t] = Closed]
  /\ UNCHANGED <<sequence, cursor, given>>

Rollback(t) ==
  /\ txns[t].open
  /\ txns' = [txns EXCEPT ![t] = Closed]
  /\ UNCHANGED <<sequence, journal, cursor, given>>

\* One page, in the order of sync_sequence, and the cursor after it.
After(at) == {c.seq : c \in {d \in journal : d.seq > at}}
Page(at) == {n \in After(at) : Cardinality({m \in After(at) : m < n}) < PageSize}

Pull ==
  /\ Page(cursor) # {}
  /\ given' = given \cup Page(cursor)
  /\ cursor' = CHOOSE n \in Page(cursor) : \A m \in Page(cursor) : m <= n
  /\ UNCHANGED <<txns, sequence, journal>>

Next ==
  \/ \E t \in Sessions :
       \/ \E k \in Keys \cup {NoKey} : Begin(t, k)
       \/ \E r \in Rows, op \in {"upsert", "delete"} : Capture(t, r, op)
       \/ RecordAgain(t)
       \/ Commit(t)
       \/ Rollback(t)
  \/ Pull

Spec == Init /\ [][Next]_vars

-----------------------------------------------------------------------------
(* Properties.                                                              *)

\* A write key names at most one committed change, over any interleaving of
\* sessions that use it: a request that is sent again, or concurrently, cannot be
\* recorded a second time.
KeyNamesOneChange ==
  \A c, d \in journal : c.key # NoKey /\ c.key = d.key => c = d

\* The changes of one row are numbered in the order of its versions, over any
\* sessions and rollbacks: a page never gives a row's later change first.
RowsAreInOrder ==
  \A c, d \in journal : c.row = d.row => (c.seq < d.seq <=> c.version < d.version)

\* What a cursor has passed was given to its reader (README: "the plane-wide
\* sync_sequence is the commit-ordered HTTP catch-up cursor").
CursorSkipsNothing == \A c \in journal : c.seq <= cursor => c.seq \in given

=============================================================================
