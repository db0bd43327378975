--------------------------- MODULE LocalStoreProofs ---------------------------
(***************************************************************************)
(* The localStorage adapter keeps its lists indexed and keeps the contract of  *)
(* a store, for any rows and bounds.                                         *)
(*                                                                         *)
(* The document is read through three views: the record of a row, the record   *)
(* of a queued write, and the set of queued writes.  For each list helper a     *)
(* lemma says what it does to the views of a sound document, and that the      *)
(* document stays sound; an operation is then compared with its transaction    *)
(* view by view, and positions in lists are not mentioned again.              *)
(***************************************************************************)
EXTENDS LocalStore, FiniteSetTheorems, TLAPS

RowRec == [row: Rows, version: Nat, dirty: BOOLEAN, val: Nat]
QueueRec == [seq: Nat \ {0}, row: Rows, op: Ops, superseded: Nat]
Document == [rows: Seq(RowRec), queue: Seq(QueueRec), next_seq: Nat, cursor: Nat]

OneRecordPerRow(d) ==
  \A i, j \in DOMAIN d.rows : d.rows[i].row = d.rows[j].row => i = j

InOrder(q) == \A i, j \in DOMAIN q : i < j => q[i].seq < q[j].seq

\* A document that the lookups may be used on.
Sound(d) ==
  /\ d \in Document
  /\ OneRecordPerRow(d)
  /\ InOrder(d.queue)
  /\ \A s \in Queued(d) : s < d.next_seq

NoRow == [here |-> FALSE, version |-> 0, dirty |-> FALSE, val |-> 0]
SomeRow(version, dirty, val) ==
  [here |-> TRUE, version |-> version, dirty |-> dirty, val |-> val]

-----------------------------------------------------------------------------
(* Lookups.                                                                 *)

\* The least member of a set of positions exists.
LEMMA LeastPosition ==
  ASSUME NEW I, I \subseteq Nat, I # {}
  PROVE  Min(I) \in I /\ \A j \in I : Min(I) <= j
<1> DEFINE R == OpToRel(<, Nat)
<1>1. IsWellFoundedOn(R, Nat)
  BY NatLessThanWellFounded
<1>2. \A x, y \in Nat : <<y, x>> \notin R => x <= y
  BY DEF OpToRel
<1> HIDE DEF R
<1>3. PICK x \in I : \A y \in I : <<y, x>> \notin R
  BY <1>1, WFMin
<1>4. \A y \in I : x <= y
  BY <1>2, <1>3
<1> QED
  BY <1>3, <1>4 DEF Min

\* The first record of a row, or none.
LEMMA RowFound ==
  ASSUME NEW d, d.rows \in Seq(RowRec), NEW r
  PROVE  /\ Has(d, r) <=> \E i \in DOMAIN d.rows : d.rows[i].row = r
         /\ Has(d, r) => RowIndex(d, r) \in DOMAIN d.rows /\ RowRecord(d, r).row = r
<1> DEFINE I == {i \in 1 .. Len(d.rows) : d.rows[i].row = r}
<1>1. RowIndex(d, r) = IF I # {} THEN Min(I) ELSE 0
  BY DEF RowIndex, SelectInSeq
<1>2. I # {} => Min(I) \in I
  <2>1. I \subseteq Nat
    OBVIOUS
  <2> HIDE DEF I
  <2> QED
    BY <2>1, LeastPosition
<1>3. DOMAIN d.rows = 1 .. Len(d.rows) /\ Len(d.rows) \in Nat
  OBVIOUS
<1>4. \A i \in I : i > 0 /\ i \in DOMAIN d.rows /\ d.rows[i].row = r
  BY <1>3
<1>5. CASE I = {}
  BY <1>1, <1>3, <1>5 DEF Has
<1>6. CASE I # {}
  BY <1>1, <1>2, <1>3, <1>4, <1>6 DEF Has, RowRecord
<1> QED
  BY <1>5, <1>6

\* The record at a position is what the lookup of its row finds.
LEMMA RowAt ==
  ASSUME NEW d, d.rows \in Seq(RowRec), OneRecordPerRow(d), NEW i \in DOMAIN d.rows
  PROVE  Has(d, d.rows[i].row) /\ RowIndex(d, d.rows[i].row) = i
<1> DEFINE r == d.rows[i].row
           j == RowIndex(d, r)
<1>1. Has(d, r)
  BY RowFound
<1>2. j \in DOMAIN d.rows /\ d.rows[j].row = r
  BY <1>1, RowFound DEF RowRecord
<1>3. j = i
  BY <1>2 DEF OneRecordPerRow
<1> QED
  BY <1>1, <1>3

\* What a row reads as, by its record or the lack of one.
LEMMA RowReads ==
  ASSUME NEW d, d.rows \in Seq(RowRec), OneRecordPerRow(d)
  PROVE  /\ \A i \in DOMAIN d.rows :
              RowOf(d, d.rows[i].row) =
                SomeRow(d.rows[i].version, d.rows[i].dirty, d.rows[i].val)
         /\ \A r : (\A i \in DOMAIN d.rows : d.rows[i].row # r) =>
                     RowOf(d, r) = NoRow
<1>1. ASSUME NEW i \in DOMAIN d.rows
      PROVE  RowOf(d, d.rows[i].row) =
                SomeRow(d.rows[i].version, d.rows[i].dirty, d.rows[i].val)
  <2>1. Has(d, d.rows[i].row) /\ RowRecord(d, d.rows[i].row) = d.rows[i]
    BY RowAt DEF RowRecord
  <2> QED
    BY <2>1 DEF RowOf, SomeRow
<1>2. ASSUME NEW r, \A i \in DOMAIN d.rows : d.rows[i].row # r
      PROVE  RowOf(d, r) = NoRow
  <2>1. ~Has(d, r)
    BY <1>2, RowFound
  <2> QED
    BY <2>1 DEF RowOf, NoRow
<1> QED
  BY <1>1, <1>2

\* A queue in order has one record of a write, and the lookup finds it.
LEMMA QueueAt ==
  ASSUME NEW d, d.queue \in Seq(QueueRec), InOrder(d.queue), NEW i \in DOMAIN d.queue
  PROVE  QueueRecord(d, d.queue[i].seq) = d.queue[i]
<1> DEFINE s == d.queue[i].seq
           I == {j \in 1 .. Len(d.queue) : d.queue[j].seq = s}
<1>1. QueueRecord(d, s) = d.queue[IF I # {} THEN Min(I) ELSE 0]
  BY DEF QueueRecord, SelectInSeq
<1>2. DOMAIN d.queue = 1 .. Len(d.queue) /\ Len(d.queue) \in Nat
  OBVIOUS
<1>3. i \in I
  BY <1>2
<1>4. Min(I) \in I
  <2>1. I \subseteq Nat
    OBVIOUS
  <2> HIDE DEF I
  <2> QED
    BY <2>1, <1>3, LeastPosition
<1>5. ASSUME NEW j \in I PROVE j = i
  <2>1. j \in DOMAIN d.queue /\ d.queue[j].seq = d.queue[i].seq /\ d.queue[i].seq \in Nat
    <3>1. d.queue[i] \in QueueRec
      OBVIOUS
    <3>2. j \in DOMAIN d.queue /\ d.queue[j].seq = s
      BY <1>2
    <3> QED
      BY <3>1, <3>2 DEF QueueRec
  <2>2. ~(i < j) /\ ~(j < i)
    BY <2>1 DEF InOrder
  <2> QED
    BY <1>2, <2>2
<1>6. Min(I) = i
  BY <1>4, <1>5
<1> QED
  BY <1>1, <1>3, <1>6

-----------------------------------------------------------------------------
(* The rows.                                                                *)

\* Document e is document d with row r changed to row.
Placed(d, e, r, row) ==
  /\ Sound(e)
  /\ e.queue = d.queue /\ e.next_seq = d.next_seq /\ e.cursor = d.cursor
  /\ \A x : RowOf(e, x) = IF x = r THEN row ELSE RowOf(d, x)

\* A document with other rows is sound if those rows are indexed.
LEMMA OtherRows ==
  ASSUME NEW d, Sound(d), NEW rows \in Seq(RowRec),
         OneRecordPerRow([d EXCEPT !.rows = rows])
  PROVE  LET e == [d EXCEPT !.rows = rows]
         IN  /\ Sound(e) /\ e.rows = rows
             /\ e.queue = d.queue /\ e.next_seq = d.next_seq /\ e.cursor = d.cursor
<1> DEFINE e == [d EXCEPT !.rows = rows]
<1>1. /\ e.rows = rows /\ e.queue = d.queue
      /\ e.next_seq = d.next_seq /\ e.cursor = d.cursor
      /\ e \in Document
  BY DEF Sound, Document
<1>2. Queued(e) = Queued(d)
  BY <1>1 DEF Queued
<1> HIDE DEF e
<1> QED
  BY <1>1, <1>2 DEF Sound, e

\* putRow replaces the record of its row, or appends the first one.
LEMMA PutRowPlaces ==
  ASSUME NEW d, Sound(d), NEW rec \in RowRec
  PROVE  Placed(d, PutRow(d, rec), rec.row, SomeRow(rec.version, rec.dirty, rec.val))
<1> DEFINE r == rec.row
           i == IF Has(d, r) THEN RowIndex(d, r) ELSE Len(d.rows) + 1
           rows == IF Has(d, r) THEN ReplaceAt(d.rows, i, rec) ELSE Append(d.rows, rec)
           e == [d EXCEPT !.rows = rows]
<1>1. d.rows \in Seq(RowRec) /\ OneRecordPerRow(d)
  BY DEF Sound, Document
<1>2. /\ Has(d, r) => i \in DOMAIN d.rows /\ d.rows[i].row = r
      /\ ~Has(d, r) => i \notin DOMAIN d.rows /\ \A j \in DOMAIN d.rows : d.rows[j].row # r
  BY <1>1, RowFound DEF RowRecord
<1>3. PutRow(d, rec) = e
  BY DEF PutRow
<1>4. /\ rows \in Seq(RowRec)
      /\ DOMAIN rows = DOMAIN d.rows \cup {i}
      /\ rows[i] = rec
      /\ \A j \in DOMAIN d.rows \ {i} : rows[j] = d.rows[j] /\ d.rows[j].row # r
  <2>1. CASE Has(d, r)
    <3>1. rows = [d.rows EXCEPT ![i] = rec] /\ i \in DOMAIN d.rows
      BY <2>1, <1>2 DEF ReplaceAt
    <3>2. \A j \in DOMAIN d.rows \ {i} : d.rows[j].row # r
      BY <2>1, <1>1, <1>2 DEF OneRecordPerRow
    <3> HIDE DEF rows, i
    <3> QED
      BY <3>1, <3>2, <1>1
  <2>2. CASE ~Has(d, r)
    <3>1. rows = Append(d.rows, rec) /\ i = Len(d.rows) + 1
      BY <2>2
    <3> HIDE DEF rows, i
    <3> QED
      BY <3>1, <2>2, <1>1, <1>2
  <2> QED
    BY <2>1, <2>2
<1> HIDE DEF i, rows
<1>5. e.rows = rows
  BY DEF Sound, Document
<1>6. OneRecordPerRow(e)
  <2> SUFFICES ASSUME NEW j \in DOMAIN rows, NEW k \in DOMAIN rows, rows[j].row = rows[k].row
               PROVE  j = k
    BY <1>5 DEF OneRecordPerRow
  <2> QED
    BY <1>1, <1>4 DEF OneRecordPerRow
<1>7. /\ Sound(e) /\ e.queue = d.queue /\ e.next_seq = d.next_seq /\ e.cursor = d.cursor
  BY <1>4, <1>6, OtherRows
<1> HIDE DEF e
<1>8. RowOf(e, r) = SomeRow(rec.version, rec.dirty, rec.val)
  BY <1>4, <1>5, <1>6, RowReads
<1>9. ASSUME NEW x, x # r PROVE RowOf(e, x) = RowOf(d, x)
  <2>1. CASE \E j \in DOMAIN d.rows : d.rows[j].row = x
    <3>1. PICK j \in DOMAIN d.rows : d.rows[j].row = x
      BY <2>1
    <3>2. j # i
      BY <3>1, <1>2, <1>9, <1>4
    <3>3. j \in DOMAIN rows /\ rows[j] = d.rows[j]
      BY <3>2, <1>4
    <3> QED
      BY <3>1, <3>3, <1>1, <1>4, <1>5, <1>6, RowReads
  <2>2. CASE \A j \in DOMAIN d.rows : d.rows[j].row # x
    <3>1. \A j \in DOMAIN rows : rows[j].row # x
      BY <2>2, <1>4, <1>9
    <3> QED
      BY <2>2, <3>1, <1>1, <1>4, <1>5, <1>6, RowReads
  <2> QED
    BY <2>1, <2>2
<1> QED
  BY <1>3, <1>7, <1>8, <1>9 DEF Placed

\* What stays of a list when one position is removed moves up.
LEMMA Removed ==
  ASSUME NEW S, NEW q \in Seq(S), NEW i \in DOMAIN q
  PROVE  /\ RemoveAt(q, i) \in Seq(S)
         /\ DOMAIN RemoveAt(q, i) = 1 .. Len(q) - 1
         /\ \A n \in 1 .. Len(q) - 1 :
              RemoveAt(q, i)[n] = IF n < i THEN q[n] ELSE q[n + 1]
<1> DEFINE front == SubSeq(q, 1, i - 1)
           back == SubSeq(q, i + 1, Len(q))
<1>1. i \in 1 .. Len(q) /\ Len(q) \in Nat
  OBVIOUS
<1>2. /\ front \in Seq(S) /\ Len(front) = i - 1
      /\ \A n \in 1 .. i - 1 : front[n] = q[n]
  BY <1>1
<1>3. /\ back \in Seq(S) /\ Len(back) = Len(q) - i
      /\ \A n \in 1 .. Len(q) - i : back[n] = q[i + n]
  BY <1>1
<1> HIDE DEF front, back
<1> DEFINE k == front \o back
<1>4. /\ k \in Seq(S) /\ Len(k) = Len(q) - 1 /\ DOMAIN k = 1 .. Len(k)
      /\ \A n \in 1 .. Len(k) : k[n] = IF n <= i - 1 THEN front[n] ELSE back[n - (i - 1)]
  BY <1>1, <1>2, <1>3
<1>5. RemoveAt(q, i) = k
  BY DEF RemoveAt, front, back
<1> HIDE DEF k
<1>6. ASSUME NEW n \in 1 .. Len(q) - 1 PROVE k[n] = IF n < i THEN q[n] ELSE q[n + 1]
  <2>1. CASE n < i
    BY <2>1, <1>1, <1>2, <1>4
  <2>2. CASE n >= i
    <3>1. n - (i - 1) \in 1 .. Len(q) - i /\ i + (n - (i - 1)) = n + 1
      BY <2>2, <1>1
    <3> QED
      BY <2>2, <3>1, <1>1, <1>3, <1>4
  <2> QED
    BY <2>1, <2>2, <1>1
<1> QED
  BY <1>4, <1>5, <1>6

\* deleteRow leaves the records of the other rows.
LEMMA DeleteRowPlaces ==
  ASSUME NEW d, Sound(d), NEW r
  PROVE  Placed(d, DeleteRow(d, r), r, NoRow)
<1>1. d.rows \in Seq(RowRec) /\ OneRecordPerRow(d)
  BY DEF Sound, Document
<1>2. CASE ~Has(d, r)
  <2>1. DeleteRow(d, r) = d
    BY <1>2 DEF DeleteRow
  <2>2. RowOf(d, r) = NoRow
    BY <1>2 DEF RowOf, NoRow
  <2> QED
    BY <2>1, <2>2 DEF Placed
<1>3. CASE Has(d, r)
  <2> DEFINE i == RowIndex(d, r)
             rows == RemoveAt(d.rows, i)
             from(n) == IF n < i THEN n ELSE n + 1
             e == [d EXCEPT !.rows = rows]
  <2>1. i \in DOMAIN d.rows /\ d.rows[i].row = r
    BY <1>1, <1>3, RowFound DEF RowRecord
  <2>2. /\ rows \in Seq(RowRec)
        /\ \A n \in DOMAIN rows : from(n) \in DOMAIN d.rows \ {i} /\ rows[n] = d.rows[from(n)]
        /\ \A j \in DOMAIN d.rows \ {i} : \E n \in DOMAIN rows : from(n) = j
        /\ \A m, n \in DOMAIN rows : from(m) = from(n) => m = n
    <3>1. i \in 1 .. Len(d.rows) /\ DOMAIN d.rows = 1 .. Len(d.rows) /\ Len(d.rows) \in Nat
      BY <2>1, <1>1
    <3>2. /\ rows \in Seq(RowRec) /\ DOMAIN rows = 1 .. Len(d.rows) - 1
          /\ \A n \in 1 .. Len(d.rows) - 1 :
               rows[n] = IF n < i THEN d.rows[n] ELSE d.rows[n + 1]
      BY <2>1, <1>1, Removed
    <3> HIDE DEF rows, i
    <3>3. \A j \in DOMAIN d.rows \ {i} : \E n \in DOMAIN rows : from(n) = j
      <4> TAKE j \in DOMAIN d.rows \ {i}
      <4> DEFINE n == IF j < i THEN j ELSE j - 1
      <4>1. n \in DOMAIN rows /\ from(n) = j
        BY <3>1, <3>2
      <4> QED
        BY <4>1
    <3>4. ASSUME NEW n \in DOMAIN rows
          PROVE  from(n) \in DOMAIN d.rows \ {i} /\ rows[n] = d.rows[from(n)]
      <4>1. n \in 1 .. Len(d.rows) - 1
        BY <3>2
      <4>2. from(n) \in DOMAIN d.rows \ {i}
        BY <3>1, <4>1
      <4> QED
        BY <3>2, <4>1, <4>2
    <3>5. ASSUME NEW m \in DOMAIN rows, NEW n \in DOMAIN rows, from(m) = from(n) PROVE m = n
      <4>1. m \in Nat /\ n \in Nat /\ i \in Nat
        BY <3>1, <3>2
      <4> QED
        BY <3>5, <4>1
    <3> HIDE DEF from
    <3> QED
      BY <3>2, <3>3, <3>4, <3>5
  <2>3. DeleteRow(d, r) = e
    BY <1>3 DEF DeleteRow
  <2> HIDE DEF i, rows, from
  <2>4. e.rows = rows
    BY DEF Sound, Document
  <2>5. OneRecordPerRow(e)
    BY <1>1, <2>2, <2>4 DEF OneRecordPerRow
  <2>6. Sound(e) /\ e.queue = d.queue /\ e.next_seq = d.next_seq /\ e.cursor = d.cursor
    BY <2>2, <2>5, OtherRows
  <2> HIDE DEF e
  <2>7. \A n \in DOMAIN rows : rows[n].row # r
    BY <1>1, <2>1, <2>2 DEF OneRecordPerRow
  <2>8. RowOf(e, r) = NoRow
    BY <2>2, <2>4, <2>5, <2>7, RowReads
  <2>9. ASSUME NEW x, x # r PROVE RowOf(e, x) = RowOf(d, x)
    <3>1. CASE \E j \in DOMAIN d.rows : d.rows[j].row = x
      <4>1. PICK j \in DOMAIN d.rows : d.rows[j].row = x
        BY <3>1
      <4>2. PICK n \in DOMAIN rows : rows[n] = d.rows[j]
        BY <2>1, <2>2, <2>9, <4>1
      <4> QED
        BY <4>1, <4>2, <1>1, <2>2, <2>4, <2>5, RowReads
    <3>2. CASE \A j \in DOMAIN d.rows : d.rows[j].row # x
      <4>1. \A n \in DOMAIN rows : rows[n].row # x
        BY <3>2, <2>2
      <4> QED
        BY <3>2, <4>1, <1>1, <2>2, <2>4, <2>5, RowReads
    <3> QED
      BY <3>1, <3>2
  <2> QED
    BY <2>3, <2>6, <2>8, <2>9 DEF Placed
<1> QED
  BY <1>2, <1>3

\* touch changes the version and the flag of a row that is there.
LEMMA TouchPlaces ==
  ASSUME NEW d, Sound(d), NEW r, Has(d, r), NEW version \in Nat, NEW dirty \in BOOLEAN
  PROVE  Placed(d, Touch(d, r, version, dirty), r, SomeRow(version, dirty, RowOf(d, r).val))
<1> DEFINE old == RowRecord(d, r)
           rec == [old EXCEPT !.version = version, !.dirty = dirty]
<1>1. old \in RowRec /\ old.row = r
  BY RowFound DEF Sound, Document, RowRecord
<1>2. RowOf(d, r).val = old.val
  BY DEF RowOf
<1>3. Touch(d, r, version, dirty) = PutRow(d, rec)
  BY DEF Touch
<1> HIDE DEF old
<1>4. /\ rec \in RowRec /\ rec.row = r
      /\ rec.version = version /\ rec.dirty = dirty /\ rec.val = old.val
  BY <1>1 DEF RowRec
<1> HIDE DEF rec
<1> QED
  BY <1>2, <1>3, <1>4, PutRowPlaces

\* So does an authoritative change.
LEMMA AuthoritativePlaces ==
  ASSUME NEW d, Sound(d), NEW event, event.row \in Rows, event.version \in Nat,
         event.val \in Nat, NEW dirty \in BOOLEAN
  PROVE  Placed(d, Authoritative(d, event, dirty), event.row,
                IF event.op = "delete" THEN NoRow
                ELSE SomeRow(event.version, dirty, event.val))
<1> DEFINE rec == Replica(event.row, event.version, dirty, event.val)
<1>1. /\ rec \in RowRec /\ rec.row = event.row
      /\ rec.version = event.version /\ rec.dirty = dirty /\ rec.val = event.val
  BY DEF Replica, RowRec
<1> HIDE DEF rec
<1>2. CASE event.op = "delete"
  BY <1>2, DeleteRowPlaces DEF Authoritative
<1>3. CASE event.op # "delete"
  <2>1. Authoritative(d, event, dirty) = PutRow(d, rec)
    BY <1>3 DEF Authoritative, rec
  <2> QED
    BY <2>1, <1>1, <1>3, PutRowPlaces
<1> QED
  BY <1>2, <1>3

-----------------------------------------------------------------------------
(* The queue.                                                               *)

\* The n-th position that stays, and how many stay up to a position: each is
\* the inverse of the other, since the number grows with every one that stays.
LEMMA Counting ==
  ASSUME NEW n \in Nat, NEW stays, stays \subseteq 1 .. n
  PROVE  LET upTo(i) == {j \in stays : j <= i}
         IN  /\ Cardinality(stays) \in Nat
             /\ \A i \in stays : Cardinality(upTo(i)) \in 1 .. Cardinality(stays)
             /\ \A i, j \in stays : i < j => Cardinality(upTo(i)) < Cardinality(upTo(j))
             /\ \A m \in 1 .. Cardinality(stays) :
                  \E i \in stays : Cardinality(upTo(i)) = m
<1> DEFINE upTo(i) == {j \in stays : j <= i}
           rank == [i \in stays |-> Cardinality(upTo(i))]
           ranks == {rank[i] : i \in stays}
<1>1. IsFiniteSet(stays) /\ Cardinality(stays) \in Nat /\ \A i \in stays : i \in Nat
  <2>1. IsFiniteSet(1 .. n)
    BY FS_Interval
  <2>2. IsFiniteSet(stays)
    BY <2>1, FS_Subset
  <2> QED
    BY <2>2, FS_CardinalityType
<1>2. ASSUME NEW i \in stays
      PROVE  /\ IsFiniteSet(upTo(i)) /\ Cardinality(upTo(i)) \in 1 .. Cardinality(stays)
  <2>1. upTo(i) \subseteq stays /\ upTo(i) # {}
    BY <1>1
  <2> HIDE DEF upTo
  <2> QED
    BY <2>1, <1>1, FS_Subset, FS_CardinalityType, FS_EmptySet
<1>3. ASSUME NEW i \in stays, NEW j \in stays, i < j
      PROVE  Cardinality(upTo(i)) < Cardinality(upTo(j))
  <2>1. upTo(i) \subseteq upTo(j) /\ upTo(i) # upTo(j)
    <3>1. \A x \in stays : x <= i => x <= j
      BY <1>1, <1>3
    <3>2. j \in upTo(j) /\ j \notin upTo(i)
      BY <1>1, <1>3
    <3> QED
      BY <3>1, <3>2
  <2> HIDE DEF upTo
  <2> QED
    BY <2>1, <1>2, FS_Subset, FS_CardinalityType
<1>4. ranks = 1 .. Cardinality(stays)
  <2>1. rank \in Bijection(stays, ranks)
    <3>1. \A i, j \in stays : rank[i] = rank[j] => i = j
      <4> SUFFICES ASSUME NEW i \in stays, NEW j \in stays, rank[i] = rank[j], i # j
                   PROVE  FALSE
        OBVIOUS
      <4>1. i < j \/ j < i
        BY <1>1
      <4> HIDE DEF upTo
      <4> QED
        BY <4>1, <1>2, <1>3
    <3> HIDE DEF upTo
    <3> QED
      BY <3>1 DEF Bijection, Injection, Surjection, IsInjective
  <2>2. Cardinality(ranks) = Cardinality(stays)
    BY <2>1, <1>1, FS_Bijection DEF ExistsBijection
  <2>3. ranks \subseteq 1 .. Cardinality(stays)
    BY <1>2
  <2>4. /\ IsFiniteSet(1 .. Cardinality(stays))
        /\ Cardinality(1 .. Cardinality(stays)) = Cardinality(stays)
    BY <1>1, FS_Interval
  <2> HIDE DEF ranks
  <2> QED
    BY <2>2, <2>3, <2>4, FS_Subset
<1>5. ASSUME NEW m \in 1 .. Cardinality(stays)
      PROVE  \E i \in stays : Cardinality(upTo(i)) = m
  <2>1. m \in ranks
    BY <1>4
  <2> QED
    BY <2>1
<1> QED
  BY <1>1, <1>2, <1>3, <1>5

\* The filter keeps the records that are not of the set, in their order.
LEMMA KeptRecords ==
  ASSUME NEW S, NEW q \in Seq(S), NEW seqs
  PROVE  /\ Kept(q, seqs) \in Seq(S)
         /\ InOrder(q) => InOrder(Kept(q, seqs))
         /\ \A i \in DOMAIN q : q[i].seq \notin seqs =>
              \E n \in DOMAIN Kept(q, seqs) : Kept(q, seqs)[n] = q[i]
         /\ \A n \in DOMAIN Kept(q, seqs) :
              \E i \in DOMAIN q : Kept(q, seqs)[n] = q[i] /\ q[i].seq \notin seqs
<1> DEFINE stays == {i \in DOMAIN q : q[i].seq \notin seqs}
           upTo(i) == {j \in stays : j <= i}
           from(n) == CHOOSE i \in stays : Cardinality(upTo(i)) = n
           k == [n \in 1 .. Cardinality(stays) |-> q[from(n)]]
<1>1. Kept(q, seqs) = k
  BY DEF Kept
<1>2. DOMAIN q = 1 .. Len(q) /\ Len(q) \in Nat
  OBVIOUS
<1>3. /\ Cardinality(stays) \in Nat
      /\ \A i \in stays : Cardinality(upTo(i)) \in 1 .. Cardinality(stays)
      /\ \A i, j \in stays : i < j => Cardinality(upTo(i)) < Cardinality(upTo(j))
      /\ \A m \in 1 .. Cardinality(stays) : \E i \in stays : Cardinality(upTo(i)) = m
  <2>1. stays \subseteq 1 .. Len(q)
    BY <1>2
  <2> HIDE DEF stays
  <2> QED
    BY <2>1, <1>2, Counting
<1>4. \A i \in stays : i \in DOMAIN q /\ q[i].seq \notin seqs /\ i \in Nat
  BY <1>2
<1>5. \A i \in DOMAIN q : q[i].seq \notin seqs => i \in stays
  OBVIOUS
<1> HIDE DEF stays, upTo
<1>6. \A n \in 1 .. Cardinality(stays) : from(n) \in stays /\ Cardinality(upTo(from(n))) = n
  BY <1>3
<1>7. \A i \in stays : from(Cardinality(upTo(i))) = i
  <2> SUFFICES ASSUME NEW i \in stays PROVE from(Cardinality(upTo(i))) = i
    OBVIOUS
  <2> DEFINE n == Cardinality(upTo(i))
             j == from(n)
  <2>1. n \in 1 .. Cardinality(stays) /\ n \in Nat
    BY <1>3
  <2>2. j \in stays /\ Cardinality(upTo(j)) = n
    BY <2>1, <1>6
  <2> HIDE DEF n, j
  <2>3. ~(i < j) /\ ~(j < i)
    BY <2>1, <2>2, <1>3 DEF n
  <2> QED
    BY <2>2, <2>3, <1>4 DEF n, j
<1>8. \A m, n \in 1 .. Cardinality(stays) : m < n => from(m) < from(n)
  <2> SUFFICES ASSUME NEW m \in 1 .. Cardinality(stays), NEW n \in 1 .. Cardinality(stays),
                      m < n, ~(from(m) < from(n))
               PROVE  FALSE
    OBVIOUS
  <2> DEFINE i == from(m)
             j == from(n)
  <2>1. /\ i \in stays /\ Cardinality(upTo(i)) = m /\ i \in Nat
        /\ j \in stays /\ Cardinality(upTo(j)) = n /\ j \in Nat
    BY <1>4, <1>6
  <2>2. ~(i < j)
    OBVIOUS
  <2> HIDE DEF i, j
  <2>3. j < i \/ j = i
    BY <2>1, <2>2
  <2> QED
    BY <2>1, <2>3, <1>3
<1> HIDE DEF from
<1>9. k \in Seq(S)
  BY <1>3, <1>4, <1>6
<1>10. \A i \in DOMAIN q : q[i].seq \notin seqs => \E n \in DOMAIN k : k[n] = q[i]
  BY <1>3, <1>5, <1>7
<1>11. \A n \in DOMAIN k : \E i \in DOMAIN q : k[n] = q[i] /\ q[i].seq \notin seqs
  BY <1>4, <1>6
<1>12. ASSUME InOrder(q) PROVE InOrder(k)
  BY <1>12, <1>4, <1>6, <1>8 DEF InOrder
<1> QED
  BY <1>1, <1>9, <1>10, <1>11, <1>12

\* The records of queued writes, by their numbers.
LEMMA QueueReads ==
  ASSUME NEW d, Sound(d)
  PROVE  /\ \A i \in DOMAIN d.queue :
              d.queue[i].seq \in Queued(d) /\ QueueRecord(d, d.queue[i].seq) = d.queue[i]
         /\ \A s \in Queued(d) :
              /\ QueueRecord(d, s) \in QueueRec
              /\ QueueRecord(d, s).seq = s
              /\ \E i \in DOMAIN d.queue : d.queue[i] = QueueRecord(d, s)
<1>1. d.queue \in Seq(QueueRec) /\ InOrder(d.queue)
  BY DEF Sound, Document
<1>2. \A i \in DOMAIN d.queue :
        /\ d.queue[i].seq \in Queued(d) /\ QueueRecord(d, d.queue[i].seq) = d.queue[i]
        /\ d.queue[i] \in QueueRec
  BY <1>1, QueueAt DEF Queued
<1>3. ASSUME NEW s \in Queued(d)
      PROVE  \E i \in DOMAIN d.queue : d.queue[i].seq = s
  BY DEF Queued
<1> QED
  BY <1>2, <1>3

\* A document with another queue is sound if that queue is indexed.
LEMMA OtherQueue ==
  ASSUME NEW d, Sound(d), NEW e \in Document, e.rows = d.rows, InOrder(e.queue),
         \A i \in DOMAIN e.queue : e.queue[i].seq < e.next_seq
  PROVE  Sound(e) /\ \A r : RowOf(e, r) = RowOf(d, r)
<1>1. OneRecordPerRow(e)
  BY DEF Sound, OneRecordPerRow
<1>2. \A s \in Queued(e) : s < e.next_seq
  BY DEF Queued
<1>3. ASSUME NEW r PROVE RowOf(e, r) = RowOf(d, r)
  <2>1. RowIndex(e, r) = RowIndex(d, r)
    BY DEF RowIndex
  <2> QED
    BY <2>1 DEF RowOf, RowRecord, Has
<1> QED
  BY <1>1, <1>2, <1>3 DEF Sound

\* What is not about the queue: the same in both documents.
SameRows(d, e) ==
  /\ e.next_seq = d.next_seq /\ e.cursor = d.cursor
  /\ \A r : RowOf(e, r) = RowOf(d, r)

\* Dropping writes leaves the records of the others as they are.
LEMMA WithoutReads ==
  ASSUME NEW d, Sound(d), NEW seqs
  PROVE  LET e == Without(d, seqs)
         IN  /\ Sound(e) /\ SameRows(d, e)
             /\ Queued(e) = Queued(d) \ seqs
             /\ \A t \in Queued(e) : QueueRecord(e, t) = QueueRecord(d, t)
<1> DEFINE k == Kept(d.queue, seqs)
           e == [d EXCEPT !.queue = k]
<1>1. d \in Document /\ d.queue \in Seq(QueueRec) /\ InOrder(d.queue)
  BY DEF Sound, Document
<1>2. /\ k \in Seq(QueueRec) /\ InOrder(k)
      /\ \A i \in DOMAIN d.queue : d.queue[i].seq \notin seqs =>
           \E n \in DOMAIN k : k[n] = d.queue[i]
      /\ \A n \in DOMAIN k : \E i \in DOMAIN d.queue :
           k[n] = d.queue[i] /\ d.queue[i].seq \notin seqs
  <2>1. k \in Seq(QueueRec) /\ InOrder(k)
    BY <1>1, KeptRecords
  <2>2. \A i \in DOMAIN d.queue : d.queue[i].seq \notin seqs =>
          \E n \in DOMAIN k : k[n] = d.queue[i]
    BY <1>1, KeptRecords
  <2>3. \A n \in DOMAIN k : \E i \in DOMAIN d.queue :
          k[n] = d.queue[i] /\ d.queue[i].seq \notin seqs
    BY <1>1, KeptRecords
  <2> QED
    BY <2>1, <2>2, <2>3
<1> HIDE DEF k
<1>3. /\ e \in Document /\ e.rows = d.rows /\ e.queue = k
      /\ e.next_seq = d.next_seq /\ e.cursor = d.cursor
  BY <1>1, <1>2 DEF Document
<1> HIDE DEF e
<1>4. \A i \in DOMAIN d.queue : d.queue[i].seq < d.next_seq
  BY DEF Sound, Queued
<1>5. \A i \in DOMAIN e.queue : e.queue[i].seq < e.next_seq
  BY <1>2, <1>3, <1>4
<1>6. Sound(e) /\ SameRows(d, e)
  BY <1>2, <1>3, <1>5, OtherQueue DEF SameRows
<1>7. Queued(e) = Queued(d) \ seqs
  BY <1>2, <1>3 DEF Queued
<1>8. ASSUME NEW t \in Queued(e) PROVE QueueRecord(e, t) = QueueRecord(d, t)
  <2>1. PICK n \in DOMAIN e.queue : e.queue[n].seq = t
    BY DEF Queued
  <2>2. PICK i \in DOMAIN d.queue : e.queue[n] = d.queue[i]
    BY <1>2, <1>3
  <2>3. QueueRecord(e, t) = e.queue[n]
    BY <2>1, <1>6, QueueReads
  <2>4. QueueRecord(d, t) = d.queue[i]
    BY <2>1, <2>2, QueueReads
  <2> QED
    BY <2>2, <2>3, <2>4
<1>9. Without(d, seqs) = e
  BY DEF Without, e, k
<1> QED
  BY <1>6, <1>7, <1>8, <1>9

\* Marking changes each record in its place.
LEMMA MarkedReads ==
  ASSUME NEW d, Sound(d), NEW r, NEW s, NEW version \in Nat
  PROVE  LET e == [d EXCEPT !.queue = [i \in DOMAIN @ |-> Marked(@[i], r, s, version)]]
         IN  /\ Sound(e) /\ SameRows(d, e)
             /\ Queued(e) = Queued(d)
             /\ \A t \in Queued(e) :
                  QueueRecord(e, t) = Marked(QueueRecord(d, t), r, s, version)
<1> DEFINE q == [i \in DOMAIN d.queue |-> Marked(d.queue[i], r, s, version)]
           e == [d EXCEPT !.queue = q]
<1>1. d \in Document /\ d.queue \in Seq(QueueRec) /\ InOrder(d.queue)
  BY DEF Sound, Document
<1>2. ASSUME NEW i \in DOMAIN d.queue
      PROVE  q[i] \in QueueRec /\ q[i].seq = d.queue[i].seq
  <2>1. d.queue[i] \in QueueRec
    BY <1>1
  <2>2. Raised(d.queue[i].superseded, version) \in Nat
    BY <2>1 DEF Raised, QueueRec
  <2> QED
    BY <2>1, <2>2 DEF Marked, QueueRec
<1>3. q \in Seq(QueueRec) /\ DOMAIN q = DOMAIN d.queue
  <2>1. DOMAIN d.queue = 1 .. Len(d.queue) /\ Len(d.queue) \in Nat
    BY <1>1
  <2>2. DOMAIN q = DOMAIN d.queue
    OBVIOUS
  <2>3. q = [i \in 1 .. Len(d.queue) |-> q[i]]
    BY <2>1
  <2> HIDE DEF q
  <2> QED
    BY <2>1, <2>2, <2>3, <1>2
<1>4. \A i \in DOMAIN d.queue : q[i] = Marked(d.queue[i], r, s, version)
  OBVIOUS
<1> HIDE DEF q
<1>5. /\ e \in Document /\ e.rows = d.rows /\ e.queue = q
      /\ e.next_seq = d.next_seq /\ e.cursor = d.cursor
  BY <1>1, <1>3 DEF Document
<1>6. /\ InOrder(e.queue)
      /\ \A i \in DOMAIN e.queue : e.queue[i].seq < e.next_seq
  BY <1>1, <1>2, <1>3, <1>5 DEF Sound, InOrder, Queued
<1>7. Queued(e) = Queued(d)
  BY <1>2, <1>3, <1>5 DEF Queued
<1> HIDE DEF e
<1>8. Sound(e) /\ SameRows(d, e)
  BY <1>5, <1>6, OtherQueue DEF SameRows
<1>9. ASSUME NEW t \in Queued(e)
      PROVE  QueueRecord(e, t) = Marked(QueueRecord(d, t), r, s, version)
  <2>1. PICK i \in DOMAIN d.queue : d.queue[i].seq = t
    BY <1>7 DEF Queued
  <2>2. QueueRecord(d, t) = d.queue[i]
    BY <2>1, QueueReads
  <2>3. QueueRecord(e, t) = e.queue[i]
    BY <2>1, <1>2, <1>3, <1>5, <1>8, QueueReads
  <2> QED
    BY <2>1, <2>2, <2>3, <1>4, <1>5
<1> QED
  BY <1>7, <1>8, <1>9 DEF e, q

\* Retiring a write: the older ones of the row are marked and it goes.
LEMMA RetiredReads ==
  ASSUME NEW d, Sound(d), NEW r, NEW s, NEW version \in Nat
  PROVE  LET e == RetiredFrom(d, r, s, version)
         IN  /\ Sound(e) /\ SameRows(d, e)
             /\ Queued(e) = Queued(d) \ {s}
             /\ \A t \in Queued(e) :
                  QueueRecord(e, t) = Marked(QueueRecord(d, t), r, s, version)
<1> DEFINE m == [d EXCEPT !.queue = [i \in DOMAIN @ |-> Marked(@[i], r, s, version)]]
           e == Without(m, {s})
<1>1. /\ Sound(m) /\ SameRows(d, m) /\ Queued(m) = Queued(d)
      /\ \A t \in Queued(m) :
           QueueRecord(m, t) = Marked(QueueRecord(d, t), r, s, version)
  BY MarkedReads
<1>2. RetiredFrom(d, r, s, version) = e
  BY DEF RetiredFrom
<1> HIDE DEF m
<1>3. /\ Sound(e) /\ SameRows(m, e) /\ Queued(e) = Queued(m) \ {s}
      /\ \A t \in Queued(e) : QueueRecord(e, t) = QueueRecord(m, t)
  BY <1>1, WithoutReads
<1> HIDE DEF e
<1> QED
  BY <1>1, <1>2, <1>3 DEF SameRows

\* Queueing appends a record under the next number.
LEMMA EnqueueReads ==
  ASSUME NEW d, Sound(d), d.next_seq > 0, NEW write, write.row \in Rows, write.op \in Ops
  PROVE  LET e == EnqueueIn(d, write)
             s == d.next_seq
         IN  /\ Sound(e) /\ e.next_seq = s + 1 /\ e.cursor = d.cursor
             /\ \A r : RowOf(e, r) = RowOf(d, r)
             /\ Queued(e) = Queued(d) \cup {s}
             /\ s \notin Queued(d)
             /\ \A t \in Queued(d) : QueueRecord(e, t) = QueueRecord(d, t)
             /\ QueueRecord(e, s) =
                  [seq |-> s, row |-> write.row, op |-> write.op, superseded |-> 0]
<1> DEFINE s == d.next_seq
           rec == [seq |-> s, row |-> write.row, op |-> write.op, superseded |-> 0]
           n == Len(d.queue) + 1
           q == Append(d.queue, rec)
           e == [d EXCEPT !.next_seq = s + 1, !.queue = q]
<1>1. /\ d \in Document /\ d.queue \in Seq(QueueRec) /\ InOrder(d.queue) /\ s \in Nat
      /\ \A i \in DOMAIN d.queue : d.queue[i].seq < s
      /\ \A i \in DOMAIN d.queue : d.queue[i].seq \in Nat
  <2>1. /\ d \in Document /\ d.queue \in Seq(QueueRec) /\ InOrder(d.queue) /\ s \in Nat
        /\ \A i \in DOMAIN d.queue : d.queue[i].seq < s
    BY DEF Sound, Document, Queued
  <2>2. \A i \in DOMAIN d.queue : d.queue[i] \in QueueRec
    BY <2>1
  <2> QED
    BY <2>1, <2>2 DEF QueueRec
<1>2. rec \in QueueRec /\ rec.seq = s
  BY <1>1 DEF QueueRec
<1>3. EnqueueIn(d, write) = e
  BY <1>1 DEF EnqueueIn, Document
<1> HIDE DEF rec
<1>4. /\ q \in Seq(QueueRec)
      /\ DOMAIN d.queue = 1 .. n - 1 /\ DOMAIN q = 1 .. n /\ n \in Nat \ {0}
      /\ q[n] = rec /\ \A i \in DOMAIN d.queue : q[i] = d.queue[i]
  BY <1>1, <1>2
<1> HIDE DEF q, n
<1>5. /\ e \in Document /\ e.rows = d.rows /\ e.queue = q
      /\ e.next_seq = s + 1 /\ e.cursor = d.cursor
  <2>1. s + 1 \in Nat
    BY <1>1
  <2> HIDE DEF s
  <2> QED
    BY <2>1, <1>1, <1>4 DEF Document
<1>6. \A i \in DOMAIN q : i = n \/ (i \in DOMAIN d.queue /\ i < n)
  BY <1>4
<1>7. InOrder(q)
  <2> SUFFICES ASSUME NEW i \in DOMAIN q, NEW j \in DOMAIN q, i < j
               PROVE  q[i].seq < q[j].seq
    BY DEF InOrder
  <2>1. i \in DOMAIN d.queue
    BY <1>4
  <2> QED
    BY <2>1, <1>1, <1>2, <1>4, <1>6 DEF InOrder
<1>8. \A i \in DOMAIN q : q[i].seq < s + 1
  BY <1>1, <1>2, <1>4, <1>6
<1> HIDE DEF e
<1>9. Sound(e) /\ \A r : RowOf(e, r) = RowOf(d, r)
  BY <1>5, <1>7, <1>8, OtherQueue
<1>10. Queued(e) = Queued(d) \cup {s}
  BY <1>2, <1>4, <1>5, <1>6 DEF Queued
<1>11. s \notin Queued(d)
  BY <1>1 DEF Queued
<1>12. ASSUME NEW t \in Queued(d) PROVE QueueRecord(e, t) = QueueRecord(d, t)
  <2>1. PICK i \in DOMAIN d.queue : d.queue[i].seq = t
    BY DEF Queued
  <2>2. QueueRecord(d, t) = d.queue[i]
    BY <2>1, QueueReads
  <2>3. i \in DOMAIN e.queue /\ e.queue[i] = d.queue[i]
    BY <1>4, <1>5
  <2>4. QueueRecord(e, t) = e.queue[i]
    BY <2>1, <2>3, <1>9, QueueReads
  <2> QED
    BY <2>2, <2>3, <2>4
<1>13. QueueRecord(e, s) = rec
  <2>1. n \in DOMAIN e.queue /\ e.queue[n] = rec
    BY <1>4, <1>5
  <2> QED
    BY <2>1, <1>2, <1>9, QueueReads
<1> QED
  BY <1>3, <1>5, <1>9, <1>10, <1>11, <1>12, <1>13 DEF rec

-----------------------------------------------------------------------------
(* The invariant.                                                            *)

LocalWrite ==
  [row: Rows, op: Ops, base: 0 .. MaxVersion, strategy: {"optimistic", "pessimistic"}]

\* What is queued is what was written: the document numbers writes in order and
\* the record of a queued write says what the write was.
Agrees ==
  /\ writes \in Seq(LocalWrite)
  /\ Len(writes) <= MaxWrites
  /\ doc.next_seq = Len(writes) + 1
  /\ \A s \in Queued(doc) :
       QueueRecord(doc, s).row = writes[s].row /\ QueueRecord(doc, s).op = writes[s].op

LocalInv == Sound(doc) /\ Agrees

\* A row read from a sound document is typed, and there if it has a record.
LEMMA RowOfType ==
  ASSUME NEW d, Sound(d), NEW r
  PROVE  /\ RowOf(d, r).here \in BOOLEAN /\ RowOf(d, r).version \in Nat
         /\ RowOf(d, r).dirty \in BOOLEAN /\ RowOf(d, r).val \in Nat
         /\ RowOf(d, r).here <=> Has(d, r)
         /\ Has(d, r) => /\ RowOf(d, r).version = RowRecord(d, r).version
                         /\ RowOf(d, r).dirty = RowRecord(d, r).dirty
         /\ ~Has(d, r) => RowOf(d, r) = NoRow
<1>1. CASE Has(d, r)
  <2>1. RowRecord(d, r) \in RowRec
    BY <1>1, RowFound DEF Sound, Document, RowRecord
  <2> QED
    BY <1>1, <2>1 DEF RowOf, RowRec
<1>2. CASE ~Has(d, r)
  BY <1>2 DEF RowOf, NoRow
<1> QED
  BY <1>1, <1>2

\* Queued writes were made, and their numbers are in bounds.
LEMMA QueuedWrites ==
  ASSUME LocalInv, NEW s \in Queued(doc)
  PROVE  /\ s \in 1 .. Len(writes) /\ s \in Seqs /\ s \in Nat
         /\ writes[s] \in LocalWrite /\ writes[s].row \in Rows
         /\ QueueRecord(doc, s) \in QueueRec /\ QueueRecord(doc, s).seq = s
         /\ QueueRecord(doc, s).row = writes[s].row
         /\ QueueRecord(doc, s).op = writes[s].op
<1>1. QueueRecord(doc, s) \in QueueRec /\ QueueRecord(doc, s).seq = s
  BY QueueReads DEF LocalInv
<1>2. s \in Nat \ {0}
  BY <1>1 DEF QueueRec
<1>3. Len(writes) \in Nat /\ s < Len(writes) + 1 /\ Len(writes) <= MaxWrites
  BY DEF LocalInv, Sound, Agrees
<1>4. s \in 1 .. Len(writes) /\ s \in Seqs
  BY <1>2, <1>3, LocalAssumption DEF Seqs
<1>5. writes[s] \in LocalWrite
  BY <1>4 DEF LocalInv, Agrees
<1> QED
  BY <1>1, <1>2, <1>4, <1>5 DEF LocalInv, Agrees, LocalWrite

\* The other queued writes of a row are those of the contract.
LEMMA OthersRead ==
  ASSUME LocalInv, NEW s \in Queued(doc)
  PROVE  OtherSeqs(doc, s) = Contract!Others(s)
<1>1. OtherSeqs(doc, s) =
        {doc.queue[i].seq : i \in {j \in DOMAIN doc.queue : doc.queue[j].row = writes[s].row}} \ {s}
  BY QueuedWrites DEF OtherSeqs
<1>2. \A i \in DOMAIN doc.queue :
        /\ doc.queue[i].seq \in Queued(doc)
        /\ doc.queue[i].row = writes[doc.queue[i].seq].row
  BY QueueReads DEF LocalInv, Agrees
<1>3. \A t \in Queued(doc) : \E i \in DOMAIN doc.queue : doc.queue[i].seq = t
  BY DEF Queued
<1> QED
  BY <1>1, <1>2, <1>3 DEF Contract!Others, Contract!RowQueue

-----------------------------------------------------------------------------
(* The steps, from the views of the document to the variables of the contract. *)

\* Documents with the same queue read the same writes.
LEMMA SameQueue ==
  ASSUME NEW d, NEW e, e.queue = d.queue
  PROVE  Queued(e) = Queued(d) /\ \A t : QueueRecord(e, t) = QueueRecord(d, t)
BY DEF Queued, QueueRecord

\* A changed row is a changed row of the contract.
LEMMA ShownChange ==
  ASSUME NEW r0 \in Rows, NEW row,
         \A r : RowOf(doc', r) = IF r = r0 THEN row ELSE RowOf(doc, r)
  PROVE  Shown' = [Shown EXCEPT ![r0] = row]
BY DEF Shown

\* What is queued still agrees when writes left and none was made.
LEMMA AgreesStays ==
  ASSUME LocalInv, Sound(doc'), doc'.next_seq = doc.next_seq, UNCHANGED writes,
         Queued(doc') \subseteq Queued(doc),
         \A t \in Queued(doc') : /\ QueueRecord(doc', t).row = QueueRecord(doc, t).row
                                /\ QueueRecord(doc', t).op = QueueRecord(doc, t).op
  PROVE  LocalInv'
BY DEF LocalInv, Agrees

\* A settlement: one row is changed and one write leaves the queue.
LEMMA Settling ==
  ASSUME LocalInv, NEW s \in Queued(doc), NEW version \in Nat, NEW m, NEW row,
         Placed(doc, m, writes[s].row, row),
         doc' = RetiredFrom(m, writes[s].row, s, version), UNCHANGED writes
  PROVE  /\ LocalInv'
         /\ Contract!Retire(s, version)
         /\ Shown' = [Shown EXCEPT ![writes[s].row] = row]
         /\ doc'.cursor = doc.cursor
         /\ s \in Contract!Left
<1> DEFINE r0 == writes[s].row
           old(t) == QueueRecord(doc, t)
<1>1. /\ Sound(m) /\ m.next_seq = doc.next_seq /\ m.cursor = doc.cursor
      /\ \A r : RowOf(m, r) = IF r = r0 THEN row ELSE RowOf(doc, r)
      /\ Queued(m) = Queued(doc) /\ \A t : QueueRecord(m, t) = old(t)
  BY SameQueue DEF Placed
<1>2. r0 \in Rows /\ s \in Seqs
  BY QueuedWrites
<1>3. /\ Sound(doc') /\ SameRows(m, doc')
      /\ Queued(doc') = Queued(doc) \ {s}
      /\ \A t \in Queued(doc') : QueueRecord(doc', t) = Marked(old(t), r0, s, version)
  BY <1>1, RetiredReads
<1>4. Shown' = [Shown EXCEPT ![r0] = row]
  BY <1>1, <1>2, <1>3, ShownChange DEF SameRows
<1>5. doc'.cursor = doc.cursor /\ doc'.next_seq = doc.next_seq
  BY <1>1, <1>3 DEF SameRows
<1>6. \A t \in Queued(doc) : /\ old(t) \in QueueRec /\ old(t).seq = t
                             /\ old(t).row = writes[t].row
                             /\ t \in Seqs
  BY QueuedWrites
<1>7. \A t \in Queued(doc') :
        /\ QueueRecord(doc', t).row = old(t).row /\ QueueRecord(doc', t).op = old(t).op
        /\ QueueRecord(doc', t).superseded =
             IF writes[t].row = r0 /\ t < s THEN Raised(old(t).superseded, version)
             ELSE old(t).superseded
  <2> SUFFICES ASSUME NEW t \in Queued(doc')
               PROVE  /\ Marked(old(t), r0, s, version).row = old(t).row
                      /\ Marked(old(t), r0, s, version).op = old(t).op
                      /\ Marked(old(t), r0, s, version).superseded =
                           IF writes[t].row = r0 /\ t < s
                           THEN Raised(old(t).superseded, version) ELSE old(t).superseded
    BY <1>3
  <2>1. old(t) \in QueueRec /\ old(t).seq = t /\ old(t).row = writes[t].row
    BY <1>3, <1>6
  <2> HIDE DEF old
  <2> QED
    BY <2>1 DEF Marked, QueueRec
<1>8. LocalInv'
  BY <1>3, <1>5, <1>7, AgreesStays
<1>9. Marks' = [t \in Seqs |->
        CASE t = s                       -> 0
          [] t \in Contract!OlderThan(s) -> Contract!Later(Marks[t], version)
          [] OTHER                       -> Marks[t]]
  <2>1. ASSUME NEW t \in Seqs
        PROVE  /\ t = s => MarkOf(doc', t) = 0
               /\ t # s /\ t \in Contract!OlderThan(s) =>
                    MarkOf(doc', t) = Contract!Later(Marks[t], version)
               /\ t # s /\ t \notin Contract!OlderThan(s) => MarkOf(doc', t) = Marks[t]
    <3>1. Marks[t] = IF t \in Queued(doc) THEN old(t).superseded ELSE 0
      BY DEF Marks, MarkOf
    <3>2. MarkOf(doc', t) = IF t \in Queued(doc) /\ t # s
                            THEN QueueRecord(doc', t).superseded ELSE 0
      BY <1>3 DEF MarkOf
    <3>3. t \in Contract!OlderThan(s) <=>
            t \in Queued(doc) /\ t # s /\ writes[t].row = r0 /\ t < s
      BY DEF Contract!OlderThan, Contract!Others, Contract!RowQueue
    <3>4. t \in Queued(doc) /\ t # s => t \in Queued(doc')
      BY <1>3
    <3> HIDE DEF old
    <3> QED
      BY <3>1, <3>2, <3>3, <3>4, <1>7 DEF Raised, Contract!Later
  <2> DEFINE mark(t) ==
               CASE t = s                       -> 0
                 [] t \in Contract!OlderThan(s) -> Contract!Later(Marks[t], version)
                 [] OTHER                       -> Marks[t]
  <2>2. ASSUME NEW t \in Seqs PROVE MarkOf(doc', t) = mark(t)
    <3>1. CASE t = s
      <4>1. t \notin Contract!OlderThan(s)
        BY <3>1 DEF Contract!OlderThan, Contract!Others
      <4> QED
        BY <2>1, <3>1, <4>1
    <3>2. CASE t # s /\ t \in Contract!OlderThan(s)
      BY <2>1, <3>2
    <3>3. CASE t # s /\ t \notin Contract!OlderThan(s)
      BY <2>1, <3>3
    <3> QED
      BY <3>1, <3>2, <3>3
  <2>3. Marks' = [t \in Seqs |-> MarkOf(doc', t)]
    BY DEF Marks
  <2> HIDE DEF mark
  <2>4. Marks' = [t \in Seqs |-> mark(t)]
    BY <2>2, <2>3
  <2> QED
    BY <2>4 DEF mark
<1>10. Contract!Retire(s, version)
  BY <1>3, <1>9 DEF Contract!Retire, Contract!Seqs, Seqs
<1>11. s \in Contract!Left
  BY <1>3 DEF Contract!Left
<1> QED
  BY <1>4, <1>5, <1>8, <1>10, <1>11

\* A conflict: one row is changed and a set of writes leaves the queue.
LEMMA Dropping ==
  ASSUME LocalInv, NEW seqs, seqs \subseteq Queued(doc), NEW r0 \in Rows, NEW m, NEW row,
         Placed(doc, m, r0, row), doc' = Without(m, seqs), UNCHANGED writes
  PROVE  /\ LocalInv'
         /\ Shown' = [Shown EXCEPT ![r0] = row]
         /\ doc'.cursor = doc.cursor
         /\ Queued(doc)' = Queued(doc) \ seqs
         /\ Contract!Left = seqs
         /\ Marks' = [t \in Seqs |-> IF t \in seqs THEN 0 ELSE Marks[t]]
<1>1. /\ Sound(m) /\ m.next_seq = doc.next_seq /\ m.cursor = doc.cursor
      /\ \A r : RowOf(m, r) = IF r = r0 THEN row ELSE RowOf(doc, r)
      /\ Queued(m) = Queued(doc) /\ \A t : QueueRecord(m, t) = QueueRecord(doc, t)
  BY SameQueue DEF Placed
<1>2. /\ Sound(doc') /\ SameRows(m, doc')
      /\ Queued(doc') = Queued(doc) \ seqs
      /\ \A t \in Queued(doc') : QueueRecord(doc', t) = QueueRecord(doc, t)
  BY <1>1, WithoutReads
<1>3. Shown' = [Shown EXCEPT ![r0] = row]
  BY <1>1, <1>2, ShownChange DEF SameRows
<1>4. doc'.cursor = doc.cursor /\ doc'.next_seq = doc.next_seq
  BY <1>1, <1>2 DEF SameRows
<1>5. LocalInv'
  BY <1>2, <1>4, AgreesStays
<1>6. Marks' = [t \in Seqs |-> IF t \in seqs THEN 0 ELSE Marks[t]]
  <2>1. ASSUME NEW t \in Seqs PROVE MarkOf(doc', t) = IF t \in seqs THEN 0 ELSE MarkOf(doc, t)
    BY <1>2 DEF MarkOf
  <2> QED
    BY <2>1 DEF Marks
<1>7. Queued(doc)' = Queued(doc) \ seqs /\ Contract!Left = seqs
  BY <1>2 DEF Contract!Left
<1> QED
  BY <1>3, <1>4, <1>5, <1>6, <1>7

\* A new write: one row is changed, or none, and the write joins the queue.
LEMMA Queueing ==
  ASSUME LocalInv, NEW write \in LocalWrite, Len(writes) < MaxWrites, NEW m, NEW row,
         Placed(doc, m, write.row, row),
         doc' = EnqueueIn(m, write), writes' = Append(writes, write)
  PROVE  /\ LocalInv'
         /\ Shown' = [Shown EXCEPT ![write.row] = row]
         /\ doc'.cursor = doc.cursor
         /\ Queued(doc)' = Queued(doc) \cup {Len(writes) + 1}
         /\ Marks' = Marks
<1> DEFINE s == doc.next_seq
<1>1. /\ Sound(m) /\ m.next_seq = s /\ m.cursor = doc.cursor
      /\ \A r : RowOf(m, r) = IF r = write.row THEN row ELSE RowOf(doc, r)
      /\ Queued(m) = Queued(doc) /\ \A t : QueueRecord(m, t) = QueueRecord(doc, t)
  BY SameQueue DEF Placed
<1>2. /\ s = Len(writes) + 1 /\ s > 0 /\ s \in Nat
      /\ write.row \in Rows /\ write.op \in Ops
      /\ writes \in Seq(LocalWrite) /\ Len(writes) \in Nat
  BY DEF LocalInv, Agrees, LocalWrite
<1> HIDE DEF s
<1>3. /\ Sound(doc') /\ doc'.next_seq = s + 1 /\ doc'.cursor = doc.cursor
      /\ \A r : RowOf(doc', r) = RowOf(m, r)
      /\ Queued(doc') = Queued(doc) \cup {s} /\ s \notin Queued(doc)
      /\ \A t \in Queued(doc) : QueueRecord(doc', t) = QueueRecord(doc, t)
      /\ QueueRecord(doc', s) =
           [seq |-> s, row |-> write.row, op |-> write.op, superseded |-> 0]
  BY <1>1, <1>2, EnqueueReads
<1>4. Shown' = [Shown EXCEPT ![write.row] = row]
  <2>1. \A r : RowOf(doc', r) = IF r = write.row THEN row ELSE RowOf(doc, r)
    BY <1>1, <1>3
  <2> QED
    BY <2>1, <1>2, ShownChange
<1>5. /\ writes' \in Seq(LocalWrite) /\ Len(writes') = s
      /\ writes'[s] = write /\ \A t \in 1 .. Len(writes) : writes'[t] = writes[t]
  BY <1>2
<1>6. \A t \in Queued(doc') : /\ QueueRecord(doc', t).row = writes'[t].row
                              /\ QueueRecord(doc', t).op = writes'[t].op
  <2> SUFFICES ASSUME NEW t \in Queued(doc')
               PROVE  /\ QueueRecord(doc', t).row = writes'[t].row
                      /\ QueueRecord(doc', t).op = writes'[t].op
    OBVIOUS
  <2>1. CASE t = s
    BY <2>1, <1>3, <1>5
  <2>2. CASE t # s
    <3>1. t \in Queued(doc)
      BY <2>2, <1>3
    <3>2. t \in 1 .. Len(writes) /\ QueueRecord(doc, t).row = writes[t].row
          /\ QueueRecord(doc, t).op = writes[t].op
      BY <3>1, QueuedWrites
    <3> QED
      BY <3>1, <3>2, <1>3, <1>5
  <2> QED
    BY <2>1, <2>2
<1>7. LocalInv'
  <2>1. Len(writes') <= MaxWrites /\ doc'.next_seq = Len(writes') + 1
    BY <1>2, <1>3, <1>5, LocalAssumption
  <2> QED
    BY <2>1, <1>3, <1>5, <1>6 DEF LocalInv, Agrees
<1>8. Marks' = Marks
  <2>1. ASSUME NEW t \in Seqs PROVE MarkOf(doc', t) = MarkOf(doc, t)
    BY <1>3 DEF MarkOf
  <2> QED
    BY <2>1 DEF Marks
<1> QED
  BY <1>2, <1>3, <1>4, <1>7, <1>8

-----------------------------------------------------------------------------
(* Each operation is its transaction.                                        *)

\* A document has every row as it is.
LEMMA UnchangedPlaces ==
  ASSUME NEW d, Sound(d), NEW r
  PROVE  Placed(d, d, r, RowOf(d, r))
BY DEF Placed

\* Rows of the contract and of the document are the same records.
LEMMA SameRecords ==
  /\ Contract!Absent = NoRow
  /\ \A v, x, dirty : Contract!Row(v, dirty, x) = SomeRow(v, dirty, x)
  /\ \A a, b : Contract!Later(a, b) = Raised(a, b)
BY DEF Contract!Absent, Contract!Foreign, NoRow, Contract!Row, SomeRow, Contract!Later, Raised

\* What an operation on queued write s reads, of the document and of the contract.
LEMMA SettledReads ==
  ASSUME LocalInv, NEW s \in Queued(doc)
  PROVE  LET r == writes[s].row
         IN  /\ r \in Rows /\ QueueRecord(doc, s).row = r /\ s \in Nat
             /\ QueueRecord(doc, s).op = writes[s].op
             /\ Shown[r] = RowOf(doc, r)
             /\ OtherSeqs(doc, s) = Contract!Others(s)
             /\ Marks[s] = QueueRecord(doc, s).superseded
             /\ QueueRecord(doc, s).superseded \in Nat
<1>1. QueueRecord(doc, s) \in QueueRec /\ s \in Seqs /\ writes[s].row \in Rows
  BY QueuedWrites
<1> QED
  BY <1>1, QueuedWrites, OthersRead DEF Shown, Marks, MarkOf, QueueRec

\* settleAck.
LEMMA SettleAckStep ==
  ASSUME LocalInv, NEW s \in Queued(doc), NEW version \in Nat,
         doc' = SettleAckIn(doc, s, version), UNCHANGED writes
  PROVE  /\ LocalInv' /\ doc'.cursor = doc.cursor
         /\ s \in Contract!Left /\ Contract!SettleAck(s, version)
<1> DEFINE r == writes[s].row
           rec == RowOf(doc, r)
           pending == OtherSeqs(doc, s) # {}
           adopted == IF Has(doc, r) THEN Raised(RowRecord(doc, r).version, version) ELSE 0
           m == Touch(doc, r, adopted, pending)
           row == Contract!AckedRow(s, version)
<1>1. /\ r \in Rows /\ QueueRecord(doc, s).row = r
      /\ Shown[r] = rec /\ OtherSeqs(doc, s) = Contract!Others(s)
  BY SettledReads
<1>2. Sound(doc) /\ pending \in BOOLEAN /\ (Contract!StillPending(s) <=> pending)
  BY <1>1 DEF LocalInv, Contract!StillPending
<1>3. doc' = RetiredFrom(m, r, s, version)
  BY <1>1 DEF SettleAckIn
<1>4. Placed(doc, m, r, row)
  <2>1. CASE Has(doc, r)
    <3>1. rec.here /\ rec.version = RowRecord(doc, r).version /\ rec.version \in Nat
      BY <1>2, <2>1, RowOfType
    <3>2. adopted = Raised(rec.version, version) /\ adopted \in Nat
      BY <2>1, <3>1 DEF Raised
    <3> HIDE DEF adopted, pending
    <3>3. Placed(doc, m, r, SomeRow(adopted, pending, rec.val))
      BY <1>2, <2>1, <3>2, TouchPlaces
    <3>4. adopted = IF Contract!AckAdopts(rec.version, version) THEN version ELSE rec.version
      BY <3>1, <3>2 DEF Raised, Contract!AckAdopts
    <3>5. Contract!StillPending(s) = pending
      BY <1>2 DEF Contract!StillPending
    <3>6. row = SomeRow(adopted, pending, rec.val)
      BY <1>1, <3>1, <3>4, <3>5, SameRecords DEF Contract!AckedRow
    <3> QED
      BY <3>3, <3>6
  <2>2. CASE ~Has(doc, r)
    <3>1. ~rec.here /\ rec = NoRow
      BY <1>2, <2>2, RowOfType DEF NoRow
    <3>2. m = doc
      BY <2>2 DEF Touch
    <3>3. row = NoRow
      BY <1>1, <3>1, SameRecords DEF Contract!AckedRow
    <3> QED
      BY <1>2, <3>1, <3>2, <3>3, UnchangedPlaces
  <2> QED
    BY <2>1, <2>2
<1> HIDE DEF m, row
<1>5. /\ LocalInv' /\ Contract!Retire(s, version)
      /\ Shown' = [Shown EXCEPT ![r] = row]
      /\ doc'.cursor = doc.cursor /\ s \in Contract!Left
  BY <1>3, <1>4, Settling
<1> QED
  BY <1>5 DEF Contract!SettleAck, row

\* settlePessimistic.
LEMMA SettlePessimisticStep ==
  ASSUME LocalInv, NEW s \in Queued(doc), NEW version \in Nat,
         doc' = SettlePessimisticIn(doc, s, version), UNCHANGED writes
  PROVE  /\ LocalInv' /\ doc'.cursor = doc.cursor
         /\ s \in Contract!Left /\ Contract!SettlePessimistic(s, version)
<1> DEFINE r == writes[s].row
           rec == RowOf(doc, r)
           pending == OtherSeqs(doc, s) # {}
           raised == Raised(RowRecord(doc, r).version, version)
           m == IF PreserveNewer(doc, s) THEN Touch(doc, r, raised, TRUE)
                ELSE IF QueueRecord(doc, s).op = "delete" THEN DeleteRow(doc, r)
                     ELSE PutRow(doc, Replica(r, version, pending, s))
           row == Contract!PessimisticRow(s, version)
<1>1. /\ r \in Rows /\ QueueRecord(doc, s).row = r /\ s \in Nat
      /\ QueueRecord(doc, s).op = writes[s].op
      /\ Shown[r] = rec /\ OtherSeqs(doc, s) = Contract!Others(s)
  BY SettledReads
<1>2. Sound(doc) /\ pending \in BOOLEAN /\ Contract!StillPending(s) = pending
  BY <1>1 DEF LocalInv, Contract!StillPending
<1>3. doc' = RetiredFrom(m, r, s, version)
  BY <1>1 DEF SettlePessimisticIn
<1>4. PreserveNewer(doc, s) <=> Contract!HasNewerOptimisticValue(s)
  <2>1. PreserveNewer(doc, s) <=>
          Has(doc, r) /\ RowRecord(doc, r).dirty /\ \E t \in OtherSeqs(doc, s) : t > s
    BY <1>1 DEF PreserveNewer
  <2>2. Contract!HasNewerOptimisticValue(s) <=>
          rec.dirty /\ \E t \in OtherSeqs(doc, s) : t > s
    BY <1>1 DEF Contract!HasNewerOptimisticValue, Contract!NewerThan
  <2>3. rec.dirty <=> Has(doc, r) /\ RowRecord(doc, r).dirty
    BY <1>2, RowOfType DEF NoRow
  <2> QED
    BY <2>1, <2>2, <2>3
<1>5. Placed(doc, m, r, row)
  <2>1. CASE PreserveNewer(doc, s)
    <3>1. Has(doc, r)
      BY <2>1, <1>1 DEF PreserveNewer
    <3>2. raised = Raised(rec.version, version) /\ raised \in Nat
      BY <1>2, <3>1, RowOfType DEF Raised
    <3>3. m = Touch(doc, r, raised, TRUE)
      BY <2>1
    <3>4. row = SomeRow(raised, TRUE, rec.val)
      BY <1>1, <1>4, <2>1, <3>2, SameRecords DEF Contract!PessimisticRow
    <3> HIDE DEF raised, m, row
    <3> QED
      BY <1>2, <3>1, <3>2, <3>3, <3>4, TouchPlaces
  <2>2. CASE ~PreserveNewer(doc, s) /\ writes[s].op = "delete"
    <3>1. m = DeleteRow(doc, r)
      BY <1>1, <2>2
    <3>2. row = NoRow
      BY <1>4, <2>2, SameRecords DEF Contract!PessimisticRow
    <3> QED
      BY <1>2, <3>1, <3>2, DeleteRowPlaces
  <2>3. CASE ~PreserveNewer(doc, s) /\ writes[s].op # "delete"
    <3> DEFINE new == Replica(r, version, pending, s)
    <3>1. m = PutRow(doc, new)
      BY <1>1, <2>3
    <3>2. row = SomeRow(version, pending, s)
      BY <1>2, <1>4, <2>3, SameRecords DEF Contract!PessimisticRow
    <3>3. /\ new \in RowRec /\ new.row = r
          /\ new.version = version /\ new.dirty = pending /\ new.val = s
      BY <1>1, <1>2 DEF Replica, RowRec
    <3> HIDE DEF new, m, row
    <3> QED
      BY <1>2, <3>1, <3>2, <3>3, PutRowPlaces
  <2> QED
    BY <2>1, <2>2, <2>3
<1> HIDE DEF m, row
<1>6. /\ LocalInv' /\ Contract!Retire(s, version)
      /\ Shown' = [Shown EXCEPT ![r] = row]
      /\ doc'.cursor = doc.cursor /\ s \in Contract!Left
  BY <1>3, <1>5, Settling
<1> QED
  BY <1>6 DEF Contract!SettlePessimistic, row

\* adoptEcho.
LEMMA AdoptEchoStep ==
  ASSUME LocalInv, NEW s \in Queued(doc),
         NEW event, event.row = writes[s].row, event.version \in Nat, event.val \in Nat,
         doc' = AdoptEchoIn(doc, event, s), UNCHANGED writes
  PROVE  /\ LocalInv' /\ doc'.cursor = doc.cursor
         /\ s \in Contract!Left /\ Contract!AdoptEcho(event, s)
<1> DEFINE r == event.row
           rec == RowOf(doc, r)
           found == RowRecord(doc, r)
           pending == OtherSeqs(doc, s) # {}
           newer == \E t \in OtherSeqs(doc, s) : t > s
           mark == QueueRecord(doc, s).superseded
           marked == mark > 0 /\ mark >= event.version
           same == IF Has(doc, r) THEN Touch(doc, r, found.version, pending) ELSE doc
           m == IF marked THEN same
                ELSE IF ~newer
                     THEN IF ~Has(doc, r) \/ event.version >= found.version
                          THEN Authoritative(doc, event, pending)
                          ELSE Touch(doc, r, found.version, pending)
                     ELSE IF Has(doc, r)
                          THEN Touch(doc, r, Raised(found.version, event.version), TRUE)
                          ELSE doc
           touched == IF rec.here THEN SomeRow(rec.version, pending, rec.val) ELSE NoRow
           adopted == IF event.op = "delete" THEN NoRow
                      ELSE SomeRow(event.version, pending, event.val)
           row == Contract!EchoedRow(event, s)
<1>1. /\ r \in Rows /\ s \in Nat
      /\ Shown[r] = rec /\ OtherSeqs(doc, s) = Contract!Others(s)
      /\ Marks[s] = mark /\ mark \in Nat
  BY SettledReads
<1>2. /\ Sound(doc) /\ pending \in BOOLEAN /\ Contract!StillPending(s) = pending
      /\ newer <=> Contract!NewerThan(s) # {}
      /\ marked <=> Contract!EchoWasSuperseded(event, s)
  BY <1>1 DEF LocalInv, Contract!StillPending, Contract!NewerThan, Contract!EchoWasSuperseded
<1>3. doc' = RetiredFrom(m, r, s, event.version)
  BY DEF AdoptEchoIn
<1>4. row = IF marked THEN touched
            ELSE IF ~newer
                 THEN IF rec.here /\ rec.version > event.version THEN touched ELSE adopted
                 ELSE IF rec.here
                      THEN SomeRow(Raised(rec.version, event.version), TRUE, rec.val)
                      ELSE NoRow
  <2>1. Contract!Adopted(event, pending) = adopted
    BY SameRecords DEF Contract!Adopted
  <2>2. (IF rec.here THEN Contract!Row(rec.version, pending, rec.val) ELSE Contract!Absent)
          = touched
    BY SameRecords
  <2> HIDE DEF pending, marked, newer, touched, adopted, rec
  <2> QED
    BY <2>1, <2>2, <1>1, <1>2, SameRecords DEF Contract!EchoedRow
<1>5. Placed(doc, Authoritative(doc, event, pending), r, adopted)
  <2> HIDE DEF pending
  <2> QED
    BY <1>1, <1>2, AuthoritativePlaces
<1> HIDE DEF newer, marked, row
<1>6. ASSUME Has(doc, r) PROVE Placed(doc, m, r, row)
  <2>1. /\ rec.here /\ rec.version = found.version
        /\ rec.version \in Nat
    BY <1>2, <1>6, RowOfType
  <2>2. Raised(rec.version, event.version) \in Nat
    BY <2>1 DEF Raised
  <2>3. touched = SomeRow(rec.version, pending, rec.val)
    BY <2>1
  <2> HIDE DEF touched, adopted, rec, pending
  <2>4. Placed(doc, Touch(doc, r, rec.version, pending), r, touched)
    BY <1>2, <1>6, <2>1, <2>3, TouchPlaces DEF rec
  <2>5. CASE marked \/ (~newer /\ ~(event.version >= rec.version))
    <3>1. m = Touch(doc, r, rec.version, pending)
      BY <2>5, <1>6, <2>1
    <3>2. marked \/ (~newer /\ rec.version > event.version)
      BY <2>5, <2>1
    <3>3. row = touched
      BY <3>2, <1>4, <2>1, Zenon
    <3> QED
      BY <3>1, <3>3, <2>4
  <2>6. CASE ~marked /\ ~newer /\ event.version >= rec.version
    <3>1. m = Authoritative(doc, event, pending)
      BY <2>6, <2>1
    <3>2. row = adopted
      BY <2>6, <1>4, <2>1
    <3> QED
      BY <3>1, <3>2, <1>5
  <2>7. CASE ~marked /\ newer
    <3>1. m = Touch(doc, r, Raised(rec.version, event.version), TRUE)
      BY <2>7, <1>6, <2>1
    <3>2. row = SomeRow(Raised(rec.version, event.version), TRUE, rec.val)
      BY <2>7, <1>4, <2>1
    <3> HIDE DEF m
    <3> QED
      BY <3>1, <3>2, <1>2, <1>6, <2>2, TouchPlaces DEF rec
  <2> QED
    BY <2>5, <2>6, <2>7
<1>7. ASSUME ~Has(doc, r) PROVE Placed(doc, m, r, row)
  <2>1. ~rec.here /\ rec = NoRow
    BY <1>2, <1>7, RowOfType DEF NoRow
  <2>2. touched = NoRow
    BY <2>1
  <2>3. Placed(doc, doc, r, NoRow)
    BY <1>2, <2>1, UnchangedPlaces
  <2> HIDE DEF touched, adopted, rec, pending
  <2>4. CASE marked \/ newer
    <3>1. m = doc
      BY <2>4, <1>7
    <3>2. row = NoRow
      BY <2>4, <1>4, <2>1, <2>2
    <3> QED
      BY <3>1, <3>2, <2>3
  <2>5. CASE ~marked /\ ~newer
    <3>1. m = Authoritative(doc, event, pending)
      BY <2>5, <1>7
    <3>2. row = adopted
      BY <2>5, <1>4, <2>1
    <3> QED
      BY <3>1, <3>2, <1>5
  <2> QED
    BY <2>4, <2>5
<1>8. Placed(doc, m, r, row)
  BY <1>6, <1>7
<1> HIDE DEF m, row
<1>9. /\ LocalInv' /\ Contract!Retire(s, event.version)
      /\ Shown' = [Shown EXCEPT ![r] = row]
      /\ doc'.cursor = doc.cursor /\ s \in Contract!Left
  <2>1. r = writes[s].row
    OBVIOUS
  <2>2. doc' = RetiredFrom(m, writes[s].row, s, event.version)
    BY <1>3, <2>1
  <2>3. Placed(doc, m, writes[s].row, row)
    BY <1>8, <2>1
  <2> HIDE DEF r
  <2>4. /\ LocalInv' /\ Contract!Retire(s, event.version)
        /\ Shown' = [Shown EXCEPT ![writes[s].row] = row]
        /\ doc'.cursor = doc.cursor /\ s \in Contract!Left
    BY <2>2, <2>3, Settling
  <2> QED
    BY <2>1, <2>4
<1> QED
  BY <1>9 DEF Contract!AdoptEcho, row

\* resolveConflict.
LEMMA ResolveConflictStep ==
  ASSUME LocalInv, NEW event, event.row \in Rows, event.version \in Nat, event.val \in Nat,
         NEW seqs, seqs \subseteq Queued(doc), \A s \in seqs : writes[s].row = event.row,
         doc' = ResolveConflictIn(doc, event, seqs), UNCHANGED writes
  PROVE  /\ LocalInv' /\ doc'.cursor = doc.cursor
         /\ Contract!Left = seqs /\ seqs \subseteq Contract!RowQueue(event.row)
         /\ Contract!ResolveConflict(event, seqs)
<1> DEFINE r == event.row
           rec == RowOf(doc, r)
           newer == \E t \in Queued(doc) \ seqs : QueueRecord(doc, t).row = r
           raised == Raised(RowRecord(doc, r).version, event.version)
           m == IF ~newer THEN Authoritative(doc, event, FALSE)
                ELSE IF Has(doc, r) THEN Touch(doc, r, raised, TRUE) ELSE doc
           row == Contract!ConflictRow(event, seqs)
<1>1. Sound(doc) /\ Shown[r] = rec
  BY DEF LocalInv, Shown
<1>2. \A t \in Queued(doc) : QueueRecord(doc, t).row = writes[t].row
  BY QueuedWrites
<1>3. newer <=> ~(Contract!RowQueue(r) \subseteq seqs)
  BY <1>2 DEF Contract!RowQueue
<1>4. seqs \subseteq Contract!RowQueue(r)
  BY DEF Contract!RowQueue
<1>5. doc' = Without(m, seqs)
  BY DEF ResolveConflictIn
<1> HIDE DEF newer
<1>6. Placed(doc, m, r, row)
  <2>1. CASE ~newer
    <3> DEFINE adopted == IF event.op = "delete" THEN NoRow
                          ELSE SomeRow(event.version, FALSE, event.val)
    <3>1. m = Authoritative(doc, event, FALSE)
      BY <2>1
    <3>2. row = adopted
      BY <2>1, <1>3, SameRecords DEF Contract!ConflictRow, Contract!Adopted
    <3>3. Placed(doc, Authoritative(doc, event, FALSE), r, adopted)
      BY <1>1, AuthoritativePlaces
    <3> QED
      BY <3>1, <3>2, <3>3
  <2>2. CASE newer /\ Has(doc, r)
    <3>1. rec.here /\ raised = Raised(rec.version, event.version) /\ raised \in Nat
      BY <2>2, <1>1, RowOfType DEF Raised
    <3>2. m = Touch(doc, r, raised, TRUE)
      BY <2>2
    <3>3. row = SomeRow(raised, TRUE, rec.val)
      BY <2>2, <3>1, <1>1, <1>3, SameRecords DEF Contract!ConflictRow
    <3> HIDE DEF m, row, raised
    <3> QED
      BY <3>1, <3>2, <3>3, <1>1, <2>2, TouchPlaces
  <2>3. CASE newer /\ ~Has(doc, r)
    <3>1. ~rec.here /\ rec = NoRow
      BY <2>3, <1>1, RowOfType DEF NoRow
    <3>2. m = doc
      BY <2>3
    <3>3. row = NoRow
      BY <2>3, <3>1, <1>1, <1>3, SameRecords DEF Contract!ConflictRow
    <3> QED
      BY <3>1, <3>2, <3>3, <1>1, UnchangedPlaces
  <2> QED
    BY <2>1, <2>2, <2>3
<1> HIDE DEF m, row
<1>7. /\ LocalInv'
      /\ Shown' = [Shown EXCEPT ![r] = row]
      /\ doc'.cursor = doc.cursor
      /\ Queued(doc)' = Queued(doc) \ seqs
      /\ Contract!Left = seqs
      /\ Marks' = [t \in Seqs |-> IF t \in seqs THEN 0 ELSE Marks[t]]
  BY <1>5, <1>6, Dropping
<1> QED
  BY <1>4, <1>7 DEF Contract!ResolveConflict, Contract!Seqs, Seqs, row

\* put and del of a foreign change.
LEMMA ApplyStep ==
  ASSUME LocalInv, NEW event, event.row \in Rows, event.version \in Nat, event.val \in Nat,
         doc' = Authoritative(doc, event, FALSE), UNCHANGED writes
  PROVE  /\ LocalInv' /\ doc'.cursor = doc.cursor
         /\ Contract!Left = {} /\ Contract!ApplyServer(event)
<1> DEFINE row == IF event.op = "delete" THEN NoRow
                  ELSE SomeRow(event.version, FALSE, event.val)
<1>1. Placed(doc, doc', event.row, row)
  BY AuthoritativePlaces DEF LocalInv
<1>2. row = Contract!Adopted(event, FALSE)
  BY SameRecords DEF Contract!Adopted
<1> HIDE DEF row
<1>3. /\ Sound(doc') /\ doc'.queue = doc.queue
      /\ doc'.next_seq = doc.next_seq /\ doc'.cursor = doc.cursor
      /\ \A r : RowOf(doc', r) = IF r = event.row THEN row ELSE RowOf(doc, r)
  BY <1>1 DEF Placed
<1>4. Queued(doc') = Queued(doc) /\ \A t : QueueRecord(doc', t) = QueueRecord(doc, t)
  BY <1>3, SameQueue
<1>5. LocalInv'
  BY <1>3, <1>4, AgreesStays
<1>6. Shown' = [Shown EXCEPT ![event.row] = row]
  BY <1>3, ShownChange
<1>7. Marks' = Marks
  BY <1>4 DEF Marks, MarkOf
<1> QED
  BY <1>2, <1>3, <1>4, <1>5, <1>6, <1>7 DEF Contract!ApplyServer, Contract!Left

\* enqueue and enqueueOptimistic.
LEMMA QueueStep ==
  ASSUME LocalInv, NEW r \in Rows, NEW op \in Ops, NEW strategy \in {"optimistic", "pessimistic"},
         Queue(r, op, strategy)
  PROVE  /\ LocalInv' /\ doc'.cursor = doc.cursor
         /\ Len(writes') > Len(writes)
         /\ \E write \in Contract!Intent :
              Contract!EnqueueOptimistic(write) \/ Contract!Enqueue(write)
<1> DEFINE write == [row |-> r, op |-> op, base |-> Held(r), strategy |-> strategy]
           n == doc.next_seq
           new == Replica(r, Held(r), TRUE, n)
           m == IF strategy = "pessimistic" THEN doc
                ELSE IF op = "delete" THEN DeleteRow(doc, r) ELSE PutRow(doc, new)
           row == IF strategy = "pessimistic" THEN RowOf(doc, r)
                  ELSE IF op = "delete" THEN NoRow ELSE SomeRow(Held(r), TRUE, n)
<1>1. Sound(doc) /\ writes \in Seq(LocalWrite) /\ Len(writes) \in Nat /\ n = Len(writes) + 1
  BY DEF LocalInv, Agrees
<1>2. /\ Len(writes) < MaxWrites /\ Held(r) < MaxVersion
      /\ writes' = Append(writes, write)
      /\ doc' = EnqueueIn(m, write)
  BY DEF Queue, EnqueueOptimisticIn
<1>3. Held(r) = RowOf(doc, r).version
  BY <1>1, RowOfType DEF Held, NoRow
<1>4. Held(r) \in 0 .. MaxVersion /\ Held(r) \in Nat
  BY <1>1, <1>2, <1>3, RowOfType, LocalAssumption
<1>5. write \in LocalWrite /\ write.row = r /\ write.op = op
      /\ write.base = Held(r) /\ write.strategy = strategy
  BY <1>4 DEF LocalWrite
<1>6. Placed(doc, m, r, row)
  <2>1. CASE strategy = "pessimistic"
    BY <2>1, <1>1, UnchangedPlaces
  <2>2. CASE strategy # "pessimistic" /\ op = "delete"
    BY <2>2, <1>1, DeleteRowPlaces
  <2>3. CASE strategy # "pessimistic" /\ op # "delete"
    <3>1. /\ new \in RowRec /\ new.row = r
          /\ new.version = Held(r) /\ new.dirty = TRUE /\ new.val = n
      BY <1>1, <1>4 DEF Replica, RowRec
    <3>2. m = PutRow(doc, new) /\ row = SomeRow(Held(r), TRUE, n)
      BY <2>3
    <3> HIDE DEF m, row, new, n
    <3> QED
      BY <3>1, <3>2, <1>1, PutRowPlaces
  <2> QED
    BY <2>1, <2>2, <2>3
<1>7. write \in Contract!Intent
  BY <1>4 DEF Contract!Intent, Contract!Op, Ops, Contract!Strategy
<1> HIDE DEF m, write
<1>8. /\ LocalInv'
      /\ Shown' = [Shown EXCEPT ![r] = row]
      /\ doc'.cursor = doc.cursor
      /\ Queued(doc)' = Queued(doc) \cup {Len(writes) + 1}
      /\ Marks' = Marks
  <2>1. Placed(doc, m, write.row, row)
    BY <1>5, <1>6
  <2> HIDE DEF row
  <2>2. /\ LocalInv'
        /\ Shown' = [Shown EXCEPT ![write.row] = row]
        /\ doc'.cursor = doc.cursor
        /\ Queued(doc)' = Queued(doc) \cup {Len(writes) + 1}
        /\ Marks' = Marks
    BY <1>2, <1>5, <2>1, Queueing
  <2> QED
    BY <1>5, <2>2
<1>9. Contract!Enqueued(write)
  BY <1>2, <1>8 DEF Contract!Enqueued, Contract!NextSeq
<1>10. CASE strategy = "pessimistic"
  <2>1. Shown' = Shown
    BY <1>8, <1>10 DEF Shown
  <2>2. Contract!Enqueue(write)
    BY <2>1, <1>9 DEF Contract!Enqueue
  <2> QED
    BY <2>2, <1>1, <1>2, <1>7, <1>8
<1>11. CASE strategy # "pessimistic"
  <2>1. row = Contract!OptimisticRow(write)
    BY <1>1, <1>5, <1>11, SameRecords DEF Contract!OptimisticRow, Contract!NextSeq
  <2> HIDE DEF row
  <2>2. Contract!EnqueueOptimistic(write)
    BY <2>1, <1>5, <1>8, <1>9 DEF Contract!EnqueueOptimistic
  <2> QED
    BY <2>2, <1>1, <1>2, <1>7, <1>8
<1> QED
  BY <1>10, <1>11

-----------------------------------------------------------------------------
(* The theorems.                                                            *)

\* A change that the document model applies is one of the contract.
LEMMA ChangeType ==
  ASSUME NEW r \in Rows, NEW op \in Ops, NEW v \in Versions, NEW x \in Nat
  PROVE  /\ Change(r, op, v, x) \in Contract!Change(x)
         /\ Change(r, op, v, x).row = r
         /\ Change(r, op, v, x).version \in Nat
         /\ Change(r, op, v, x).val \in Nat
BY LocalAssumption
   DEF Change, Contract!Change, Contract!Op, Ops, Contract!Versions, Versions

\* A step that leaves the document and the writes leaves the contract.
LEMMA NoContractStep ==
  ASSUME LocalInv, UNCHANGED localVars
  PROVE  LocalInv' /\ UNCHANGED <<Contract!storeVars, doc.cursor>>
BY DEF localVars, LocalInv, Agrees, Contract!storeVars, Shown, Marks

\* The empty document is the empty store.
LEMMA LocalStarts ==
  ASSUME LocalInit
  PROVE  LocalInv /\ Contract!StoreInit /\ doc.cursor = 0
<1>1. /\ doc.rows = << >> /\ doc.queue = << >> /\ doc.next_seq = 1 /\ doc.cursor = 0
      /\ writes = << >> /\ doc \in Document
  BY DEF LocalInit, Document
<1>2. Queued(doc) = {}
  BY <1>1 DEF Queued
<1>3. Sound(doc)
  BY <1>1, <1>2 DEF Sound, OneRecordPerRow, InOrder
<1>4. Agrees
  BY <1>1, <1>2, LocalAssumption DEF Agrees
<1>5. \A r : RowOf(doc, r) = NoRow
  <2> SUFFICES ASSUME NEW r PROVE RowOf(doc, r) = NoRow
    OBVIOUS
  <2>1. ~Has(doc, r)
    BY <1>1, <1>3, RowFound DEF Sound, Document
  <2> QED
    BY <2>1 DEF RowOf, NoRow
<1>6. Shown = [r \in Rows |-> Contract!Absent]
  BY <1>5, SameRecords DEF Shown
<1>7. Marks = [s \in Contract!Seqs |-> 0]
  BY <1>2 DEF Marks, MarkOf, Contract!Seqs, Seqs
<1> QED
  BY <1>1, <1>2, <1>3, <1>4, <1>6, <1>7 DEF LocalInv, Contract!StoreInit

\* Every step keeps the invariant and is a step of the contract, or none.
LEMMA LocalStep ==
  ASSUME LocalInv, [LocalNext]_localVars
  PROVE  LocalInv' /\ [Contract!ContractNext]_<<Contract!storeVars, doc.cursor>>
<1> DEFINE Goal == LocalInv' /\ [Contract!ContractNext]_<<Contract!storeVars, doc.cursor>>
<1>1. ASSUME doc' = doc, UNCHANGED writes PROVE Goal
  BY <1>1, NoContractStep DEF localVars
<1>2. ASSUME NEW r \in Rows, NEW op \in Ops, NEW strategy \in {"optimistic", "pessimistic"},
             Queue(r, op, strategy)
      PROVE  Goal
  BY <1>2, QueueStep DEF Contract!ContractNext, Contract!Transaction
<1>3. ASSUME NEW s \in DOMAIN writes, NEW v \in Versions, Settle(s, v) PROVE Goal
  <2>1. v \in Nat /\ v \in Contract!Versions
    BY LocalAssumption DEF Versions, Contract!Versions
  <2>2. CASE s \notin Queued(doc)
    BY <2>2, <1>1, <1>3 DEF Settle, SettleAckIn, SettlePessimisticIn
  <2>3. CASE s \in Queued(doc) /\ writes[s].strategy = "pessimistic"
    <3>1. doc' = SettlePessimisticIn(doc, s, v) /\ UNCHANGED writes
      BY <1>3, <2>3 DEF Settle
    <3>2. /\ LocalInv' /\ doc'.cursor = doc.cursor
          /\ s \in Contract!Left /\ Contract!SettlePessimistic(s, v)
      BY <2>1, <2>3, <3>1, SettlePessimisticStep
    <3> QED
      BY <2>1, <3>2 DEF Contract!ContractNext, Contract!Transaction
  <2>4. CASE s \in Queued(doc) /\ writes[s].strategy # "pessimistic"
    <3>1. doc' = SettleAckIn(doc, s, v) /\ UNCHANGED writes
      BY <1>3, <2>4 DEF Settle
    <3>2. /\ LocalInv' /\ doc'.cursor = doc.cursor
          /\ s \in Contract!Left /\ Contract!SettleAck(s, v)
      BY <2>1, <2>4, <3>1, SettleAckStep
    <3> QED
      BY <2>1, <3>2 DEF Contract!ContractNext, Contract!Transaction
  <2> QED
    BY <2>2, <2>3, <2>4
<1>4. ASSUME NEW s \in DOMAIN writes, NEW v \in Versions, Echo(s, v) PROVE Goal
  <2> DEFINE e == Change(writes[s].row, writes[s].op, v, s)
  <2>1. doc' = AdoptEchoIn(doc, e, s) /\ UNCHANGED writes
    BY <1>4 DEF Echo
  <2>2. CASE s \notin Queued(doc)
    BY <2>1, <2>2, <1>1 DEF AdoptEchoIn
  <2>3. CASE s \in Queued(doc)
    <3>1. writes[s].row \in Rows /\ writes[s].op \in Ops /\ s \in Nat
      BY <2>3, QueuedWrites DEF LocalWrite
    <3>2. /\ e \in Contract!Change(s) /\ e.row = writes[s].row
          /\ e.version \in Nat /\ e.val \in Nat
      BY <3>1, ChangeType
    <3> HIDE DEF e
    <3>3. /\ LocalInv' /\ doc'.cursor = doc.cursor
          /\ s \in Contract!Left /\ Contract!AdoptEcho(e, s)
      BY <2>1, <2>3, <3>2, AdoptEchoStep
    <3> QED
      BY <3>2, <3>3 DEF Contract!ContractNext, Contract!Transaction
  <2> QED
    BY <2>2, <2>3
<1>5. ASSUME NEW r \in Rows, NEW op \in Ops, NEW v \in Versions, Apply(r, op, v) PROVE Goal
  <2> DEFINE e == Change(r, op, v, 0)
  <2>1. /\ e \in Contract!Change(Contract!Foreign) /\ e.row \in Rows
        /\ e.version \in Nat /\ e.val \in Nat
    BY ChangeType DEF Contract!Foreign
  <2>2. doc' = Authoritative(doc, e, FALSE) /\ UNCHANGED writes
    BY <1>5 DEF Apply
  <2> HIDE DEF e
  <2>3. /\ LocalInv' /\ doc'.cursor = doc.cursor
        /\ Contract!Left = {} /\ Contract!ApplyServer(e)
    BY <2>1, <2>2, ApplyStep
  <2> QED
    BY <2>1, <2>3 DEF Contract!ContractNext, Contract!Transaction
<1>6. ASSUME NEW r \in Rows, NEW op \in Ops, NEW v \in Versions,
             NEW seqs \in SUBSET Queued(doc), Conflict(r, op, v, seqs)
      PROVE  Goal
  <2> DEFINE e == Change(r, op, v, 0)
  <2>1. /\ e \in Contract!Change(Contract!Foreign) /\ e.row = r
        /\ e.version \in Nat /\ e.val \in Nat
    BY ChangeType DEF Contract!Foreign
  <2>2. doc' = ResolveConflictIn(doc, e, seqs) /\ UNCHANGED writes
    BY <1>6 DEF Conflict
  <2>3. \A s \in seqs : writes[s].row = e.row
    BY <1>6, <2>1 DEF Conflict
  <2> HIDE DEF e
  <2>4. /\ LocalInv' /\ doc'.cursor = doc.cursor
        /\ Contract!Left = seqs /\ seqs \subseteq Contract!RowQueue(e.row)
        /\ Contract!ResolveConflict(e, seqs)
    BY <2>1, <2>2, <2>3, ResolveConflictStep
  <2> QED
    BY <2>1, <2>4 DEF Contract!ContractNext, Contract!Transaction
<1>7. ASSUME NEW to \in 0 .. MaxCursor, Advance(to) PROVE Goal
  <2>1. doc' = (IF to < doc.cursor THEN doc ELSE [doc EXCEPT !.cursor = to]) /\ UNCHANGED writes
    BY <1>7 DEF Advance, SetCursorIn
  <2>2. doc \in Document /\ doc.cursor \in Nat /\ to \in Nat
    BY DEF LocalInv, Sound, Document
  <2>3. /\ doc' \in Document /\ doc'.rows = doc.rows /\ doc'.queue = doc.queue
        /\ doc'.next_seq = doc.next_seq
        /\ doc'.cursor = doc.cursor \/ doc'.cursor > doc.cursor
    BY <2>1, <2>2 DEF Document
  <2>4. Queued(doc') = Queued(doc) /\ \A t : QueueRecord(doc', t) = QueueRecord(doc, t)
    BY <2>3, SameQueue
  <2>5. Sound(doc') /\ \A r : RowOf(doc', r) = RowOf(doc, r)
    <3>1. InOrder(doc'.queue) /\ \A i \in DOMAIN doc'.queue : doc'.queue[i].seq < doc'.next_seq
      BY <2>3 DEF LocalInv, Sound, Queued
    <3> QED
      BY <2>3, <3>1, OtherQueue DEF LocalInv
  <2>6. LocalInv'
    BY <2>1, <2>3, <2>4, <2>5, AgreesStays
  <2>7. Shown' = Shown /\ Marks' = Marks
    BY <2>4, <2>5 DEF Shown, Marks, MarkOf
  <2>8. UNCHANGED Contract!storeVars
    BY <2>1, <2>4, <2>7 DEF Contract!storeVars
  <2> QED
    BY <2>3, <2>6, <2>8 DEF Contract!ContractNext
<1>8. CASE UNCHANGED localVars
  BY <1>8, <1>1 DEF localVars
<1> QED
  BY <1>2, <1>3, <1>4, <1>5, <1>6, <1>7, <1>8 DEF LocalNext

\* In every behaviour the document and what was written agree.
LEMMA LocalInductive == LocalSpec => []LocalInv
BY LocalStarts, LocalStep, PTL DEF LocalSpec

\* ListsAreIndexed: whatever is queued, settled, echoed, applied, resolved or
\* advanced, in any order, the document has one record per row and its queue is in
\* the order of the writes, so that each lookup finds the record it means.
THEOREM ListsIndexed == LocalSpec => []ListsAreIndexed
<1>1. LocalInv => ListsAreIndexed
  BY DEF LocalInv, Sound, OneRecordPerRow, InOrder, ListsAreIndexed
<1> QED
  BY <1>1, LocalInductive, PTL

\* KeepsContract: the list edits of every operation of the localStorage adapter are
\* one transaction of the contract that the IndexedDB store implements, or change
\* nothing the contract speaks of.
THEOREM AdapterKeepsContract == LocalSpec => KeepsContract
<1>1. LocalInit => Contract!StoreInit /\ doc.cursor = 0
  BY LocalStarts
<1>2. LocalInv /\ [LocalNext]_localVars =>
        [Contract!ContractNext]_<<Contract!storeVars, doc.cursor>>
  BY LocalStep
<1> QED
  BY <1>1, <1>2, LocalInductive, PTL
     DEF LocalSpec, KeepsContract, Contract!ContractSpec

=============================================================================
