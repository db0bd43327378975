----------------------------- MODULE JournalProofs -----------------------------
(***************************************************************************)
(* Two invariants of the change journal, for any rows, keys, sessions and      *)
(* bounds: a write key names one change, and the changes of a row are numbered *)
(* in the order of its versions.                                             *)
(*                                                                         *)
(* Both are invariants of what each session SEES, the committed changes and    *)
(* its own; the row locks and the waits for a key are what lets a commit put   *)
(* two such views together.                                                  *)
(***************************************************************************)
EXTENDS Journal, TLAPS

Made == [seq: Nat, row: Rows, op: {"upsert", "delete"}, version: Nat,
         key: Keys \cup {NoKey}]

TypeInv ==
  /\ sequence \in Nat
  /\ journal \subseteq Made
  /\ txns \in [Sessions -> [open: BOOLEAN, key: Keys \cup {NoKey}, wrote: SUBSET Made]]

\* No number is ahead of the sequence.
Numbered ==
  /\ \A c \in journal : c.seq <= sequence
  /\ \A t \in Sessions : \A c \in txns[t].wrote : c.seq <= sequence

\* A session that is not in a transaction has written nothing, and a
\* transaction's changes bear its key.
OwnKey == \A t \in Sessions : \A c \in txns[t].wrote : c.key = txns[t].key

\* Two open transactions share neither a row nor a key.
Apart ==
  \A t, u \in Sessions : t # u =>
    \A c \in txns[t].wrote, d \in txns[u].wrote :
      c.row # d.row /\ (c.key # NoKey => c.key # d.key)

Ordered(changes) ==
  \A c, d \in changes : c.row = d.row => (c.seq < d.seq <=> c.version < d.version)
Distinct(changes) ==
  \A c, d \in changes : c.key # NoKey /\ c.key = d.key => c = d

\* The changes of a row that are seen have a newest one.
HasNewest(changes) ==
  \A r \in Rows : (\E c \in changes : c.row = r) =>
    \E c \in changes : c.row = r /\ \A d \in changes : d.row = r => d.version <= c.version

Good(changes) == Ordered(changes) /\ Distinct(changes) /\ HasNewest(changes)

IInv ==
  /\ TypeInv
  /\ Numbered
  /\ OwnKey
  /\ Apart
  /\ Good(journal)
  /\ \A t \in Sessions : Good(Seen(t))

\* The version of a row that a session sees is no less than that of any change of
\* the row it sees.
LEMMA VersionIsNewest ==
  ASSUME IInv, NEW t \in Sessions, NEW r \in Rows
  PROVE  /\ Version(t, r) \in Nat
         /\ \A c \in Seen(t) : c.row = r => c.version <= Version(t, r)
<1>1. Seen(t) \subseteq Made
  BY DEF IInv, TypeInv, Seen
<1>2. CASE History(t, r) = {}
  BY <1>2 DEF Version, History
<1>3. CASE History(t, r) # {}
  <2>1. \E c \in History(t, r) : \A d \in History(t, r) : d.version <= c.version
    BY <1>3 DEF IInv, Good, HasNewest, History
  <2>2. /\ Newest(History(t, r)) \in History(t, r)
        /\ \A d \in History(t, r) : d.version <= Newest(History(t, r)).version
    BY <2>1 DEF Newest
  <2> QED
    BY <1>1, <1>3, <2>2 DEF Version, History, Made
<1> QED
  BY <1>2, <1>3

\* One more change of a row, numbered and versioned above the others, under a key
\* that none of them has, keeps a view good.
LEMMA GoodWithOneMore ==
  ASSUME NEW changes \in SUBSET Made, Good(changes), NEW c \in Made,
         \A d \in changes : d.seq < c.seq,
         \A d \in changes : d.row = c.row => d.version < c.version,
         \A d \in changes : c.key # NoKey => d.key # c.key
  PROVE  Good(changes \cup {c})
<1> USE DEF Good
<1>1. Ordered(changes \cup {c})
  BY DEF Ordered, Made
<1>2. Distinct(changes \cup {c})
  BY DEF Distinct
<1>3. HasNewest(changes \cup {c})
  <2> SUFFICES ASSUME NEW r \in Rows, \E e \in changes \cup {c} : e.row = r
               PROVE  \E e \in changes \cup {c} : e.row = r /\
                        \A d \in changes \cup {c} : d.row = r => d.version <= e.version
    BY DEF HasNewest
  <2>1. CASE c.row = r
    <3>1. \A d \in changes \cup {c} : d.row = r => d.version <= c.version
      BY <2>1 DEF Made
    <3> QED
      BY <2>1, <3>1
  <2>2. CASE c.row # r
    BY <2>2 DEF HasNewest
  <2> QED
    BY <2>1, <2>2
<1> QED
  BY <1>1, <1>2, <1>3

\* Two views of the same journal whose own changes share no row and no key are
\* good together.
LEMMA GoodTogether ==
  ASSUME NEW base, NEW mine, NEW theirs,
         Good(base \cup mine), Good(base \cup theirs),
         \A c \in mine, d \in theirs : c.row # d.row /\ (c.key # NoKey => c.key # d.key)
  PROVE  Good((base \cup mine) \cup theirs)
<1> DEFINE all == (base \cup mine) \cup theirs
<1> USE DEF Good
<1>1. Ordered(all)
  BY DEF Ordered
<1>2. Distinct(all)
  <2> SUFFICES ASSUME NEW c \in all, NEW d \in all, c.key # NoKey, c.key = d.key
               PROVE  c = d
    BY DEF Distinct
  <2>1. \/ c \in base \cup mine /\ d \in base \cup mine
        \/ c \in base \cup theirs /\ d \in base \cup theirs
    OBVIOUS
  <2> QED
    BY <2>1 DEF Distinct
<1>3. HasNewest(all)
  <2> SUFFICES ASSUME NEW r \in Rows, NEW e \in all, e.row = r
               PROVE  \E c \in all : c.row = r /\ \A d \in all : d.row = r => d.version <= c.version
    BY DEF HasNewest
  <2>1. CASE \A c \in theirs : c.row # r
    BY <2>1 DEF HasNewest
  <2>2. CASE \A c \in mine : c.row # r
    BY <2>2 DEF HasNewest
  <2> QED
    BY <2>1, <2>2
<1> QED
  BY <1>1, <1>2, <1>3

-----------------------------------------------------------------------------
(* The steps.                                                                *)

Txn == [open: BOOLEAN, key: Keys \cup {NoKey}, wrote: SUBSET Made]

\* A session that has written nothing from here on: a transaction begins, is
\* rolled back, or is aborted by a reused key.
LEMMA EmptySafe ==
  ASSUME IInv, NEW t \in Sessions, NEW w \in Txn, w.wrote = {},
         txns' = [txns EXCEPT ![t] = w], journal' = journal,
         sequence' \in Nat, sequence <= sequence'
  PROVE  IInv'
<1> USE DEF IInv
<1>1. /\ txns'[t] = w
      /\ \A u \in Sessions \ {t} : txns'[u] = txns[u]
      /\ TypeInv'
  BY DEF TypeInv, Txn
<1>2. Numbered'
  BY <1>1 DEF Numbered, TypeInv, Made
<1>3. OwnKey' /\ Apart'
  BY <1>1 DEF OwnKey, Apart
<1>4. Good(journal)'
  BY DEF Good, Ordered, Distinct, HasNewest
<1>5. ASSUME NEW u \in Sessions PROVE Good(Seen(u))'
  <2>1. Seen(u)' = IF u = t THEN journal ELSE Seen(u)
    BY <1>1 DEF Seen
  <2>2. Good(journal) /\ Good(Seen(u))
    OBVIOUS
  <2> QED
    BY <2>1, <2>2 DEF Good, Ordered, Distinct, HasNewest
<1> QED
  BY <1>1, <1>2, <1>3, <1>4, <1>5

\* A captured change is above everything its session sees, and belongs to no
\* other open transaction.
LEMMA CaptureSafe ==
  ASSUME IInv, NEW t \in Sessions, NEW r \in Rows, NEW op \in {"upsert", "delete"},
         Capture(t, r, op)
  PROVE  IInv'
<1> DEFINE change == [seq |-> sequence + 1, row |-> r, op |-> op,
                      version |-> Recorded(t, r, op), key |-> txns[t].key]
<1> USE DEF IInv
<1>1. sequence \in Nat /\ txns[t] \in Txn /\ journal' = journal /\ sequence' = sequence + 1
  BY DEF TypeInv, Txn, Capture
<1>2. CASE KeyReused(t)
  <2>1. Closed \in Txn /\ Closed.wrote = {}
    BY DEF Closed, Txn
  <2>2. txns' = [txns EXCEPT ![t] = Closed]
    BY <1>2 DEF Capture
  <2>3. sequence' \in Nat /\ sequence <= sequence'
    BY <1>1
  <2> QED
    BY <1>1, <2>1, <2>2, <2>3, EmptySafe
<1>3. CASE ~KeyReused(t)
  <2>1. Version(t, r) \in Nat /\ \A c \in Seen(t) : c.row = r => c.version <= Version(t, r)
    BY VersionIsNewest
  <2>2. change \in Made
    BY <1>1, <2>1 DEF Made, Txn, Recorded
  <2>3. /\ change.seq = sequence + 1 /\ change.row = r /\ change.version = Version(t, r) + 1
        /\ change.key = txns[t].key
    BY DEF Recorded
  <2>4. txns' = [txns EXCEPT ![t] = [open |-> TRUE, key |-> txns[t].key,
                                    wrote |-> txns[t].wrote \cup {change}]]
    BY <1>3 DEF Capture
  <2>5. /\ \A u \in Sessions \ {t} : ~LockedBy(u, r)
        /\ txns[t].key # NoKey => \A u \in Sessions \ {t} : ~UsedBy(u, txns[t].key)
    BY DEF Capture, KeyIsFree
  <2> HIDE DEF change
  <2>6. /\ txns'[t].wrote = txns[t].wrote \cup {change}
        /\ txns'[t].key = txns[t].key
        /\ \A u \in Sessions \ {t} : txns'[u] = txns[u]
    BY <2>4 DEF TypeInv
  <2>7. TypeInv'
    BY <1>1, <2>2, <2>4 DEF TypeInv, Txn
  <2>8. Numbered'
    BY <1>1, <2>2, <2>3, <2>6 DEF Numbered, TypeInv, Made
  <2>9. OwnKey'
    BY <2>3, <2>6 DEF OwnKey
  <2>10. Apart'
    BY <2>3, <2>5, <2>6 DEF Apart, LockedBy, UsedBy
  <2>11. Good(journal)'
    BY <1>1 DEF Good, Ordered, Distinct, HasNewest
  <2>12. Good(Seen(t) \cup {change})
    <3>1. Seen(t) \in SUBSET Made /\ Good(Seen(t))
      BY DEF TypeInv, Seen
    <3>2. \A d \in Seen(t) : d.seq < change.seq
      BY <3>1, <1>1, <2>3 DEF Numbered, Seen, Made
    <3>3. \A d \in Seen(t) : d.row = change.row => d.version < change.version
      BY <3>1, <2>1, <2>3 DEF Made
    <3>4. \A d \in Seen(t) : change.key # NoKey => d.key # change.key
      BY <1>3, <2>3 DEF KeyReused
    <3> QED
      BY <2>2, <3>1, <3>2, <3>3, <3>4, GoodWithOneMore
  <2>13. ASSUME NEW u \in Sessions PROVE Good(Seen(u))'
    <3>1. Seen(u)' = IF u = t THEN Seen(t) \cup {change} ELSE Seen(u)
      BY <1>1, <2>6 DEF Seen
    <3>2. Good(Seen(u))
      OBVIOUS
    <3> QED
      BY <2>12, <3>1, <3>2 DEF Good, Ordered, Distinct, HasNewest
  <2> QED
    BY <2>7, <2>8, <2>9, <2>10, <2>11, <2>13
<1> QED
  BY <1>2, <1>3

\* A commit shows every session the changes of one, which are apart from its own.
LEMMA CommitSafe ==
  ASSUME IInv, NEW t \in Sessions, Commit(t)
  PROVE  IInv'
<1> USE DEF IInv
<1>1. /\ journal' = journal \cup txns[t].wrote
      /\ txns'[t].wrote = {}
      /\ \A u \in Sessions \ {t} : txns'[u] = txns[u]
      /\ sequence' = sequence
  BY DEF Commit, TypeInv, Closed
<1>2. TypeInv'
  <2>1. Closed \in Txn
    BY DEF Closed, Txn
  <2>2. txns \in [Sessions -> Txn]
    BY DEF TypeInv, Txn
  <2>3. txns' \in [Sessions -> Txn] /\ txns[t].wrote \subseteq Made
    BY <2>1, <2>2 DEF Commit, Txn
  <2> QED
    BY <1>1, <2>3 DEF TypeInv, Txn
<1>3. Numbered'
  BY <1>1 DEF Numbered
<1>4. OwnKey' /\ Apart'
  BY <1>1 DEF OwnKey, Apart
<1>5. Good(journal')
  BY <1>1 DEF Seen
<1>6. ASSUME NEW u \in Sessions PROVE Good(Seen(u)')
  <2>1. CASE u = t
    <3>1. Seen(u)' = journal'
      BY <1>1, <2>1 DEF Seen
    <3> QED
      BY <1>5, <3>1
  <2>2. CASE u # t
    <3>1. Seen(u)' = (journal \cup txns[t].wrote) \cup txns[u].wrote
      BY <1>1, <2>2 DEF Seen
    <3>2. Good(journal \cup txns[t].wrote) /\ Good(journal \cup txns[u].wrote)
      BY DEF Seen
    <3>3. \A c \in txns[t].wrote, d \in txns[u].wrote :
            c.row # d.row /\ (c.key # NoKey => c.key # d.key)
      BY <2>2 DEF Apart
    <3>4. Good((journal \cup txns[t].wrote) \cup txns[u].wrote)
      BY <3>2, <3>3, GoodTogether
    <3> QED
      BY <3>1, <3>4
  <2> QED
    BY <2>1, <2>2
<1> QED
  BY <1>2, <1>3, <1>4, <1>5, <1>6 DEF Good, Ordered, Distinct, HasNewest

\* A step that leaves the transactions and the journal alone.
LEMMA ElsewhereSafe ==
  ASSUME IInv, UNCHANGED <<txns, journal>>, sequence' \in Nat, sequence <= sequence'
  PROVE  IInv'
<1>1. TypeInv' /\ Numbered' /\ OwnKey' /\ Apart'
  BY DEF IInv, TypeInv, Numbered, OwnKey, Apart, Made
<1>2. Good(journal)' /\ \A t \in Sessions : Good(Seen(t))'
  BY DEF IInv, Good, Ordered, Distinct, HasNewest, Seen
<1> QED
  BY <1>1, <1>2 DEF IInv

-----------------------------------------------------------------------------
\* The invariant holds initially.
LEMMA InitSafe == Init => IInv
<1> SUFFICES ASSUME Init PROVE IInv
  OBVIOUS
<1>1. /\ sequence = 0 /\ journal = {}
      /\ txns = [t \in Sessions |-> Closed]
      /\ \A t \in Sessions : txns[t].wrote = {} /\ Seen(t) = {}
  BY DEF Init, Closed, Seen
<1>2. TypeInv
  BY <1>1 DEF TypeInv, Closed
<1>3. Numbered /\ OwnKey /\ Apart
  BY <1>1 DEF Numbered, OwnKey, Apart
<1>4. Good(journal) /\ \A t \in Sessions : Good(Seen(t))
  BY <1>1 DEF Good, Ordered, Distinct, HasNewest
<1> QED
  BY <1>2, <1>3, <1>4 DEF IInv

\* Every step keeps it: one case per action.
LEMMA SafeStep == IInv /\ [Next]_vars => IInv'
<1> SUFFICES ASSUME IInv, [Next]_vars PROVE IInv'
  OBVIOUS
<1>1. sequence \in Nat
  BY DEF IInv, TypeInv
<1>2. ASSUME NEW t \in Sessions, NEW k \in Keys \cup {NoKey}, Begin(t, k) PROVE IInv'
  <2> DEFINE w == [open |-> TRUE, key |-> k, wrote |-> {}]
  <2>1. w \in Txn /\ w.wrote = {}
    BY DEF Txn
  <2>2. txns' = [txns EXCEPT ![t] = w] /\ journal' = journal
    BY <1>2 DEF Begin
  <2>3. sequence' \in Nat /\ sequence <= sequence'
    BY <1>1, <1>2 DEF Begin
  <2> HIDE DEF w
  <2> QED
    BY <2>1, <2>2, <2>3, EmptySafe
<1>3. ASSUME NEW t \in Sessions, NEW r \in Rows, NEW op \in {"upsert", "delete"},
             Capture(t, r, op)
      PROVE  IInv'
  BY <1>3, CaptureSafe
<1>4. ASSUME NEW t \in Sessions, RecordAgain(t) PROVE IInv'
  BY <1>1, <1>4, ElsewhereSafe DEF RecordAgain
<1>5. ASSUME NEW t \in Sessions, Commit(t) PROVE IInv'
  BY <1>5, CommitSafe
<1>6. ASSUME NEW t \in Sessions, Rollback(t) PROVE IInv'
  <2>1. Closed \in Txn /\ Closed.wrote = {}
    BY DEF Closed, Txn
  <2>2. txns' = [txns EXCEPT ![t] = Closed] /\ journal' = journal
    BY <1>6 DEF Rollback
  <2>3. sequence' \in Nat /\ sequence <= sequence'
    BY <1>1, <1>6 DEF Rollback
  <2> QED
    BY <2>1, <2>2, <2>3, EmptySafe
<1>7. CASE Pull \/ UNCHANGED vars
  BY <1>1, <1>7, ElsewhereSafe DEF Pull, vars
<1> QED
  BY <1>2, <1>3, <1>4, <1>5, <1>6, <1>7 DEF Next

\* The invariant holds in every behaviour.
LEMMA Inductive == Spec => []IInv
BY InitSafe, SafeStep, PTL DEF Spec

\* A write key names at most one committed change, whatever sessions use it.
THEOREM KeysAreOnce == Spec => []KeyNamesOneChange
<1>1. IInv => KeyNamesOneChange
  BY DEF IInv, Good, Distinct, KeyNamesOneChange
<1> QED
  BY <1>1, Inductive, PTL

\* The committed changes of a row are numbered in the order of its versions, also
\* where the numbers of different rows do not follow the order of the commits.
THEOREM RowOrder == Spec => []RowsAreInOrder
<1>1. IInv => RowsAreInOrder
  BY DEF IInv, Good, Ordered, RowsAreInOrder
<1> QED
  BY <1>1, Inductive, PTL

=============================================================================
