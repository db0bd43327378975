-------------------------- MODULE SharedStoreProofs --------------------------
(***************************************************************************)
(* Tabs that share a database: what holds however the steps of their          *)
(* transitions interleave, for any number of tabs, rows and writes.            *)
(*                                                                         *)
(* Every transaction keeps the Core of the safety invariant wherever it runs.  *)
(* What a tab goes by is old when it acts on it, but not wrong: the event it   *)
(* has in hand was committed, the version it read was reached, and the writes  *)
(* it did not see are newer than those it saw.                               *)
(***************************************************************************)
EXTENDS SharedStore, SyncReplicaProofs

\* What a tab goes by.
WorkOK(w) ==
  /\ w.phase \in {"queue", "decide"} => w.event \in Changes
  /\ w.phase = "decide" =>
       /\ w.seqs \subseteq Issued
       /\ \A s \in w.seqs : writes[s].row = w.event.row
       /\ \A s \in w.seqs, q \in RowQueue(w.event.row) \ w.seqs : s < q
  /\ w.phase = "write" =>
       /\ w.row \in Rows
       /\ w.op \in Ops
       /\ w.strategy \in Strategies
       /\ w.base \in Nat
       /\ w.base <= server[w.row].version
  /\ w.phase = "prune" => w.row \in Rows

TabsOK == DOMAIN tabs = Tabs /\ \A t \in Tabs : WorkOK(tabs[t])

\* A payload that is shown before its write is committed is that of the newest
\* queued write of the row.
ShownIsNewest ==
  \A r \in Rows :
    LET x == store[r].val
    IN  x \in RowQueue(r) /\ acks[x] = 0 => \A q \in RowQueue(r) : q <= x

\* Pessimistic writes are queued without being shown: a conflict that drops the shown
\* write, but not them, would leave its payload.
NoPessimistic == "pessimistic" \notin Strategies
ShowsTruth == NoPessimistic => VisibleIsCommittedOrPending /\ ShownIsNewest

SharedInv == CoreInv /\ TabsOK /\ ShowsTruth

-----------------------------------------------------------------------------
(* What a tab goes by stays right.                                           *)

\* Whatever a tab has in hand, the server committed.
LEMMA ChangesTrue ==
  ASSUME CoreInv, NEW event \in Changes
  PROVE  TrueEvent(event)
<1>1. PICK e \in log : event \in Forms(e)
  BY DEF Changes
<1>2. CASE event = [e EXCEPT !.key = NoKey] /\ e.op = "upsert"
  <2>1. e \in Event
    BY DEF CoreInv, TypeOK
  <2>2. event = Decoded(e, "supabase")
    BY <1>2, <2>1 DEF Decoded, Event
  <2> QED
    BY <2>2, DecodedTrue
<1> QED
  BY <1>1, <1>2, LoggedTrue, DecodedTrue DEF Forms

\* The history only grows: writes are minted with new numbers, changes are added to
\* the log, versions go up.
Grows ==
  /\ log \subseteq log'
  /\ Issued \subseteq Issued'
  /\ \A s \in Issued : writes'[s] = writes[s]
  /\ queue' \subseteq queue \cup {NextSeq}
  /\ \A r \in Rows : server[r].version \in Nat /\ server'[r].version \in Nat
                     /\ server[r].version <= server'[r].version

\* Whatever the others do meanwhile, what a tab has read stays right.
LEMMA WorkStays ==
  ASSUME CoreInv, Grows, NEW w, WorkOK(w)
  PROVE  WorkOK(w)'
<1>1. /\ queue \subseteq Issued
      /\ \A s \in Issued : s < NextSeq /\ s \in Nat
  BY QueueIssued, IssuedType DEF CoreInv, TypeOK, StoreTypeOK, Issued, NextSeq
<1>2. ASSUME w.phase = "decide"
      PROVE  /\ w.seqs \subseteq Issued'
             /\ \A s \in w.seqs : writes'[s].row = w.event.row
             /\ \A s \in w.seqs, q \in RowQueue(w.event.row)' \ w.seqs : s < q
  <2>1. /\ w.seqs \subseteq Issued
        /\ \A s \in w.seqs : writes[s].row = w.event.row
        /\ \A s \in w.seqs, q \in RowQueue(w.event.row) \ w.seqs : s < q
    BY <1>2 DEF WorkOK
  <2>2. ASSUME NEW s \in w.seqs, NEW q \in RowQueue(w.event.row)' \ w.seqs
        PROVE  s < q
    <3>1. q \in queue' /\ writes'[q].row = w.event.row
      BY <2>2 DEF RowQueue
    <3>2. CASE q \in queue
      <4>1. q \in RowQueue(w.event.row) \ w.seqs
        BY <2>2, <3>1, <3>2, <1>1 DEF RowQueue, Grows
      <4> QED
        BY <2>1, <4>1
    <3>3. CASE q = NextSeq
      BY <2>1, <1>1, <3>3
    <3> QED
      BY <3>1, <3>2, <3>3 DEF Grows
  <2> QED
    BY <2>1, <2>2 DEF Grows
<1>3. ASSUME w.phase = "write"
      PROVE  w.base <= server'[w.row].version
  BY <1>3 DEF WorkOK, Grows
<1>4. Changes \subseteq Changes'
  BY DEF Changes, Grows
<1> QED
  BY <1>2, <1>3, <1>4 DEF WorkOK, Grows

\* The tabs stay right when one of them goes on to work that is.
LEMMA TabGoes ==
  ASSUME CoreInv, TabsOK, Grows, NEW t \in Tabs, NEW work, WorkOK(work), Goes(t, work)
  PROVE  TabsOK'
<1>1. DOMAIN tabs' = Tabs /\ tabs'[t] = work /\ \A u \in Tabs \ {t} : tabs'[u] = tabs[u]
  BY DEF Goes, TabsOK
<1> SUFFICES ASSUME NEW u \in Tabs PROVE WorkOK(tabs[u])'
  BY <1>1 DEF TabsOK
<1>2. PICK w : w = tabs'[u]
  OBVIOUS
<1>3. WorkOK(w)
  BY <1>1, <1>2 DEF TabsOK
<1>4. WorkOK(w)'
  BY <1>3, WorkStays
<1> QED
  BY <1>2, <1>4 DEF WorkOK

\* So they do when no tab goes on.
LEMMA TabsWait ==
  ASSUME CoreInv, TabsOK, Grows, UNCHANGED tabs
  PROVE  TabsOK'
<1> SUFFICES ASSUME NEW u \in Tabs PROVE WorkOK(tabs[u])'
  BY DEF TabsOK
<1>1. PICK w : w = tabs[u]
  OBVIOUS
<1>2. WorkOK(w)'
  BY <1>1, WorkStays DEF TabsOK
<1> QED
  BY <1>1, <1>2 DEF WorkOK

\* A step within the store mints nothing and leaves the server.
LEMMA StoreGrows ==
  ASSUME CoreInv, UNCHANGED <<writes, serverVars>>, queue' \subseteq queue
  PROVE  Grows
BY DEF Grows, CoreInv, TypeOK, Issued, serverVars

\* A mint adds one write.
LEMMA MintGrows ==
  ASSUME CoreInv, NEW write \in Write, Mints(write), UNCHANGED serverVars
  PROVE  Grows
<1>1. /\ writes' = Append(writes, write) /\ Len(writes) < MaxWrites
      /\ queue' = queue \cup {NextSeq}
  BY DEF Mints, Enqueue, EnqueueOptimistic, Enqueued
<1>2. Issued' = Issued \cup {NextSeq} /\ \A s \in Issued : writes'[s] = writes[s]
  BY <1>1, Minting DEF CoreInv, TypeOK
<1>3. log' = log /\ server' = server
  BY DEF serverVars
<1>4. \A r \in Rows : server[r].version \in Nat /\ server[r].version <= server[r].version
  BY DEF CoreInv, TypeOK
<1> QED
  BY <1>1, <1>2, <1>3, <1>4 DEF Grows

\* A commit adds one change.
LEMMA ServerGrows ==
  ASSUME CoreInv, TypeOK', Server
  PROVE  Grows
<1>1. UNCHANGED storeVars
  BY DEF Server, ServerCommit, ForeignCommit
<1>2. \A r \in Rows : server[r].version \in Nat /\ server'[r].version \in Nat
  BY DEF CoreInv, TypeOK
<1>3. PICK r0 \in Rows, op \in Op, val \in Nat, key \in Nat : Commit(r0, op, val, key)
  BY ServerIsCommit
<1>4. log \subseteq log'
  BY <1>3 DEF Commit
<1>5. \A r \in Rows : server[r].version <= server'[r].version
  BY <1>2, <1>3 DEF Commit, CoreInv, TypeOK
<1> QED
  BY <1>1, <1>2, <1>4, <1>5 DEF Grows, storeVars, Issued

-----------------------------------------------------------------------------
(* What is shown is the newest.                                              *)

\* Writes leave the queue, and a row shows what it did, or a committed payload.
LEMMA ShownKept ==
  ASSUME CoreInv, ShownIsNewest, writes' = writes, queue' \subseteq queue,
         \A x \in queue' : acks'[x] = 0 => acks[x] = 0,
         \A r \in Rows : \/ store'[r].val = store[r].val
                          \/ store'[r].val = Foreign
                          \/ acks'[store'[r].val] # 0
  PROVE  ShownIsNewest'
<1>1. \A r \in Rows : RowQueue(r)' \subseteq RowQueue(r) /\ RowQueue(r)' \subseteq queue'
  BY DEF RowQueue
<1>2. Foreign \notin queue
  BY QueueIssued, IssuedType DEF CoreInv, TypeOK, Foreign
<1> SUFFICES ASSUME NEW r \in Rows, NEW x, x = store'[r].val,
                    x \in RowQueue(r)', acks'[x] = 0, NEW q \in RowQueue(r)'
             PROVE  q <= x
  BY DEF ShownIsNewest
<1>3. x = store[r].val /\ acks[x] = 0
  BY <1>1, <1>2
<1> QED
  BY <1>1, <1>3 DEF ShownIsNewest

\* A settlement shows nothing that is not committed.
LEMMA SettleShown ==
  ASSUME CoreInv, ShownIsNewest, NEW s, acks[s] > 0, Settle(s), UNCHANGED serverVars
  PROVE  ShownIsNewest'
<1>1. CASE s \notin queue
  BY <1>1, ShownKept DEF Settle, storeVars, serverVars
<1>2. CASE s \in queue
  <2> DEFINE r0 == writes[s].row
  <2>1. /\ r0 \in Rows /\ acks[s] \in Nat
        /\ ~store[r0].here => store[r0] = Absent
    BY <1>2, RetiredWrite
  <2>2. PICK new : /\ store' = [store EXCEPT ![r0] = new]
                   /\ new.val \in {store[r0].val, Foreign, s}
    BY <1>2, <2>1
       DEF Settle, SettleAck, SettlePessimistic, AckedRow, PessimisticRow, Row, Absent
  <2>3. writes' = writes /\ queue' \subseteq queue /\ acks' = acks
    BY <1>2 DEF Settle, SettleAck, SettlePessimistic, Retire, serverVars
  <2>4. \A r \in Rows : store'[r] = IF r = r0 THEN new ELSE store[r]
    BY <2>2 DEF CoreInv, TypeOK, StoreTypeOK
  <2> QED
    BY <2>1, <2>2, <2>3, <2>4, ShownKept
<1> QED
  BY <1>1, <1>2

\* Nor does what is put in the place of a row for an event.
LEMMA EventShown ==
  ASSUME CoreInv, ShownIsNewest, NEW event, TrueEvent(event), UNCHANGED <<writes, serverVars>>,
         queue' \subseteq queue, NEW new, store' = [store EXCEPT ![event.row] = new],
         new.val \in {store[event.row].val, Foreign, event.val}
  PROVE  ShownIsNewest'
<1>1. \A r \in Rows : store'[r] = IF r = event.row THEN new ELSE store[r]
  BY DEF CoreInv, TypeOK, StoreTypeOK
<1>2. event.val = Foreign \/ acks[event.val] # 0
  BY DEF TrueEvent
<1> QED
  BY <1>1, <1>2, ShownKept DEF serverVars

\* A mint shows the payload of the newest write, if it is not pessimistic.
LEMMA MintShown ==
  ASSUME CoreInv, ShownIsNewest, NEW write \in Write, write.strategy # "pessimistic",
         Mints(write), UNCHANGED serverVars
  PROVE  ShownIsNewest'
<1> DEFINE new == NextSeq
           r0 == write.row
<1>1. /\ writes' = Append(writes, write) /\ Len(writes) < MaxWrites
      /\ queue' = queue \cup {new}
      /\ store' = [store EXCEPT ![r0] = OptimisticRow(write)]
  BY DEF Mints, EnqueueOptimistic, Enqueued
<1>2. /\ new \notin Issued /\ writes'[new] = write
      /\ \A s \in Issued : writes'[s] = writes[s]
      /\ queue \subseteq Issued
      /\ new \in Nat
      /\ \A s \in Issued : s < new /\ s \in Nat \ {0}
  BY <1>1, Minting, QueueIssued, IssuedType DEF CoreInv, TypeOK, StoreTypeOK, NextSeq, Issued
<1>3. /\ store'[r0].val = IF write.op = "delete" THEN Foreign ELSE new
      /\ \A r \in Rows \ {r0} : store'[r] = store[r]
      /\ r0 \in Rows
  BY <1>1 DEF CoreInv, TypeOK, StoreTypeOK, Write, OptimisticRow, Absent, Row
<1>0. \A z \in queue' : \/ z = new
                        \/ z \in queue /\ z \in Nat /\ z < new /\ writes'[z].row = writes[z].row
  BY <1>1, <1>2
<1> HIDE DEF new
<1> SUFFICES ASSUME NEW r \in Rows, NEW x, x = store'[r].val,
                    x \in RowQueue(r)', acks'[x] = 0, NEW q \in RowQueue(r)'
             PROVE  q <= x
  BY DEF ShownIsNewest
<1>4. /\ q \in queue' /\ x \in queue'
      /\ writes'[q].row = r /\ writes'[x].row = r
  BY DEF RowQueue
<1>5. CASE r = r0
  <2>1. x # Foreign
    BY <1>0, <1>2, <1>4, QueueIssued, IssuedType DEF Foreign, CoreInv, TypeOK, new, NextSeq, StoreTypeOK
  <2>2. x = new
    BY <2>1, <1>3, <1>5
  <2>3. q = new \/ (q \in Nat /\ q < new)
    BY <1>0, <1>4
  <2> QED
    BY <2>2, <2>3, <1>2 DEF new
<1>6. CASE r # r0
  <2>1. q \in RowQueue(r) /\ x \in RowQueue(r)
    <3>1. writes'[new].row = r0
      BY <1>2
    <3>2. q # new /\ x # new
      BY <3>1, <1>4, <1>6
    <3> QED
      BY <3>2, <1>0, <1>4 DEF RowQueue
  <2>2. x = store[r].val /\ acks[x] = 0
    BY <1>3, <1>6 DEF serverVars
  <2> QED
    BY <2>1, <2>2 DEF ShownIsNewest
<1> QED
  BY <1>5, <1>6

\* A commit makes it true all the more.
LEMMA ServerShown ==
  ASSUME CoreInv, TypeOK', ShownIsNewest, Server
  PROVE  ShownIsNewest'
<1>1. UNCHANGED storeVars
  BY DEF Server, ServerCommit, ForeignCommit
<1>2. \A x \in queue : acks'[x] = 0 => acks[x] = 0
  <2>1. CASE \E s \in Issued : ServerCommit(s)
    <3>1. PICK s \in Issued : ServerCommit(s)
      BY <2>1
    <3>2. \A x \in queue : x \in Seqs
      BY QueueIssued, IssuedType DEF CoreInv, TypeOK
    <3> QED
      BY <3>1, <3>2 DEF ServerCommit, CoreInv, TypeOK
  <2>2. CASE \E r \in Rows, op \in Ops : ForeignCommit(r, op)
    BY <2>2 DEF ForeignCommit
  <2> QED
    BY <2>1, <2>2 DEF Server
<1> QED
  BY <1>1, <1>2, ShownKept DEF storeVars

-----------------------------------------------------------------------------
(* A conflict that was judged by an older list.                               *)

\* The writes of the list that are still queued go; if others came meanwhile, the row
\* keeps its payload, which is not that of a dropped write: the newer one is shown.
LEMMA StaleConflictSafe ==
  ASSUME CoreInv, NEW event, TrueEvent(event), NEW seqs, seqs \subseteq Issued,
         \A s \in seqs : writes[s].row = event.row,
         ResolveConflict(event, seqs),
         discarded' = discarded \cup (seqs \cap queue),
         UNCHANGED serverVars
  PROVE  /\ Core'
         /\ /\ VisibleIsCommittedOrPending
            /\ ShownIsNewest
            /\ \A s \in seqs, q \in RowQueue(event.row) \ seqs : s < q
            => VisibleIsCommittedOrPending'
<1> DEFINE r0 == event.row
           rec == store[r0]
           new == ConflictRow(event, seqs)
<1> USE DEF CoreInv
<1>1. /\ writes' = writes /\ acks' = acks /\ server' = server /\ log' = log /\ Issued' = Issued
      /\ queue' = queue \ seqs
  BY DEF serverVars, Issued, ResolveConflict
<1>2. /\ queue \subseteq Issued /\ \A q \in Issued : q \in Seqs /\ q \in Nat \ {0}
      /\ r0 \in Rows
  BY QueueIssued, IssuedType DEF TypeOK, TrueEvent
<1>3. \A t \in queue' : superseded'[t] = superseded[t]
  BY <1>1, <1>2 DEF ResolveConflict
<1>4. MarksAreQueued'
  BY <1>1 DEF ResolveConflict, Core, MarksAreQueued
<1>5. CASE RowQueue(r0) \subseteq seqs
  <2> DEFINE dropped == seqs \cap queue
  <2>1. dropped \subseteq RowQueue(r0) /\ queue' = queue \ dropped
    BY <1>1 DEF RowQueue
  <2>2. store' = [store EXCEPT ![r0] = Adopted(event, FALSE)] /\ writes' = writes
    BY <1>5 DEF ResolveConflict, ConflictRow
  <2>3. discarded' = discarded \cup dropped
    OBVIOUS
  <2> HIDE DEF dropped
  <2> QED
    BY <2>1, <2>2, <2>3, <1>1, <1>3, <1>4, ServerWinsSafe
<1>6. CASE ~(RowQueue(r0) \subseteq seqs)
  <2>1. new = IF rec.here THEN Row(Later(rec.version, event.version), TRUE, rec.val) ELSE Absent
    BY <1>6 DEF ConflictRow
  <2>2. /\ store'[r0] = new
        /\ \A r \in Rows \ {r0} : store'[r] = store[r]
    BY <1>2 DEF ResolveConflict, TypeOK, StoreTypeOK
  <2>3. /\ RowQueue(r0)' = RowQueue(r0) \ seqs
        /\ \A r \in Rows \ {r0} : RowQueue(r)' = RowQueue(r)
    BY <1>1 DEF RowQueue
  <2>4. /\ rec.version \in Nat /\ rec.version <= server[r0].version
        /\ event.version \in Nat /\ event.version <= server[r0].version
        /\ server[r0].version \in Nat
    BY <1>2 DEF TypeOK, StoreTypeOK, Record, Core, VersionsAreIssued, TrueEvent
  <2> HIDE DEF new
  <2>5. LogIsTrue' /\ AcksAreCommits'
    BY <1>1 DEF Core, LogIsTrue, AcksAreCommits
  <2>6. AbsentIsEmpty'
    BY <2>1, <2>2 DEF Core, AbsentIsEmpty, Row
  <2>7. DirtyIsQueued'
    <3>1. RowQueue(r0)' # {}
      BY <1>6, <2>3
    <3> QED
      BY <3>1, <2>2, <2>3 DEF Core, DirtyIsQueued
  <2>8. WritesAreAccounted'
    BY <1>1 DEF Core, WritesAreAccounted
  <2>9. VersionsAreIssued'
    <3>1. \A r \in Rows : store'[r].version <= server[r].version
      BY <2>1, <2>2, <2>4 DEF Core, VersionsAreIssued, Row, Absent, Later
    <3> QED
      BY <3>1, <1>1, <1>3 DEF Core, VersionsAreIssued
  <2>10. ASSUME VisibleIsCommittedOrPending, ShownIsNewest,
                \A s \in seqs, q \in RowQueue(r0) \ seqs : s < q
         PROVE  VisibleIsCommittedOrPending'
    <3> SUFFICES ASSUME NEW r \in Rows, NEW x, x = store'[r].val
                 PROVE  \/ x = Foreign
                        \/ x \in Issued /\ acks[x] > 0
                        \/ store'[r].dirty /\ x \in RowQueue(r)' /\ IsOptimistic(x)
      BY <1>1 DEF VisibleIsCommittedOrPending, IsOptimistic
    <3>1. CASE r # r0
      <4>1. store'[r] = store[r] /\ RowQueue(r)' = RowQueue(r)
        BY <3>1, <2>2, <2>3
      <4> QED
        BY <4>1, <2>10 DEF VisibleIsCommittedOrPending
    <3>2. CASE r = r0 /\ ~rec.here
      BY <3>2, <2>1, <2>2 DEF Absent
    <3>3. CASE r = r0 /\ rec.here
      <4>1. x = rec.val /\ store'[r].dirty
        BY <3>3, <2>1, <2>2 DEF Row
      <4>2. CASE x \in RowQueue(r0) /\ IsOptimistic(x) /\ ~(acks[x] > 0)
        <5>1. x \in Issued /\ acks[x] = 0
          BY <4>2, <1>2 DEF RowQueue, TypeOK
        <5>2. PICK q \in RowQueue(r0) : q \notin seqs
          BY <1>6
        <5>3. q <= x
          BY <2>10, <4>1, <4>2, <5>1, <5>2, <1>2 DEF ShownIsNewest
        <5>4. x \notin seqs
          <6>1. q \in Nat /\ x \in Nat
            BY <5>1, <5>2, <1>2 DEF RowQueue
          <6> QED
            BY <2>10, <5>2, <5>3, <6>1
        <5> QED
          BY <3>3, <4>1, <4>2, <5>4, <2>3
      <4>3. CASE x = Foreign \/ (x \in Issued /\ acks[x] > 0)
        BY <4>3
      <4> QED
        BY <4>1, <4>2, <4>3, <1>2, <2>10 DEF VisibleIsCommittedOrPending, RowQueue
    <3> QED
      BY <3>1, <3>2, <3>3
  <2> QED
    BY <1>4, <2>5, <2>6, <2>7, <2>8, <2>9, <2>10 DEF Core
<1> QED
  BY <1>5, <1>6

-----------------------------------------------------------------------------
(* The invariant.                                                            *)

\* What a step must do, tabs aside.
Safe ==
  /\ TypeOK'
  /\ Core'
  /\ ShowsTruth => ShowsTruth'
  /\ Grows

\* Nothing of the store, the server or the history changes.
LEMMA UntouchedShared ==
  ASSUME CoreInv, TypeOK', UNCHANGED <<storeVars, serverVars, discarded>>
  PROVE  Safe
<1>1. Keeps
  BY UntouchedSafe
<1>2. ShownIsNewest => ShownIsNewest'
  BY ShownKept DEF storeVars, serverVars
<1>3. Grows
  BY StoreGrows DEF storeVars
<1> QED
  BY <1>1, <1>2, <1>3 DEF Safe, Keeps, ShowsTruth, NoPessimistic

\* Not even what is on its way.
LEMMA IdleShared ==
  ASSUME CoreInv, UNCHANGED vars
  PROVE  Safe
<1>1. TypeOK'
  BY TypeStep DEF CoreInv
<1> QED
  BY <1>1, UntouchedShared DEF vars

\* A tab's answers, failures and resends, and the server.
LEMMA NetworkShared ==
  ASSUME CoreInv, Sends \/ Server
  PROVE  Safe
<1>1. ASSUME NEW s \in Issued, CallAcked(s) PROVE Safe
  <2>1. TypeOK'
    BY <1>1, TypeStep DEF Next, Client, Application, CoreInv
  <2>2. acks[s] > 0 /\ Settle(s) /\ UNCHANGED <<serverVars, discarded>>
    BY <1>1 DEF CallAcked
  <2>3. writes' = writes /\ queue' \subseteq queue
    BY <2>2 DEF Settle, SettleAck, SettlePessimistic, Retire, storeVars
  <2>4. Keeps /\ Grows
    BY <2>2, <2>3, SettleSafe, StoreGrows
  <2>5. ShownIsNewest => ShownIsNewest'
    BY <2>2, SettleShown
  <2> QED
    BY <2>1, <2>4, <2>5 DEF Safe, Keeps, ShowsTruth, NoPessimistic
<1>2. ASSUME NEW s \in Issued, CallFailed(s) PROVE Safe
  <2>1. TypeOK'
    BY <1>2, TypeStep DEF Next, Client, Application, CoreInv
  <2> QED
    BY <1>2, <2>1, UntouchedShared DEF CallFailed
<1>3. ASSUME NEW s \in Issued, Resends(s) PROVE Safe
  <2>1. TypeOK'
    BY <1>3 DEF Resends, CoreInv, TypeOK, StoreTypeOK, Issued, storeVars, serverVars
  <2> QED
    BY <1>3, <2>1, UntouchedShared DEF Resends
<1>4. CASE Server
  <2>1. TypeOK'
    BY <1>4, TypeStep DEF Next, CoreInv
  <2>2. Keeps
    BY <1>4, ServerCommitSafe, ForeignCommitSafe DEF Server
  <2>3. Grows /\ (ShownIsNewest => ShownIsNewest')
    BY <1>4, <2>1, ServerGrows, ServerShown
  <2> QED
    BY <2>1, <2>2, <2>3 DEF Safe, Keeps, ShowsTruth, NoPessimistic
<1> QED
  BY <1>1, <1>2, <1>3, <1>4 DEF Sends

\* A transaction of a tab that leaves the other variables alone.
LEMMA StoreStepType ==
  ASSUME TypeOK, StoreTypeOK', writes' = writes, discarded' \subseteq Issued,
         UNCHANGED <<callVars, wire, serverVars>>
  PROVE  TypeOK'
BY DEF TypeOK, callVars, serverVars, Issued

\* A tab that mints its write, on the version it read before.
LEMMA WriteShared ==
  ASSUME CoreInv, TabsOK, NEW t \in Tabs, WriteEnqueues(t)
  PROVE  Safe
<1> DEFINE w == tabs[t]
           write == [row |-> w.row, op |-> w.op, base |-> w.base, strategy |-> w.strategy]
<1>1. /\ w.row \in Rows /\ w.op \in Ops /\ w.strategy \in Strategies
      /\ w.base \in Nat /\ w.base <= server[w.row].version
  BY DEF TabsOK, WorkOK, WriteEnqueues
<1>2. /\ write \in Write /\ Mints(write)
      /\ write.base <= server[write.row].version
      /\ write.strategy \in Strategies
      /\ UNCHANGED <<flush, serverVars, discarded>>
      /\ calls' \subseteq calls \cup {NextSeq} /\ wire' \subseteq wire \cup {NextSeq}
  BY <1>1, ReplicaAssumption DEF WriteEnqueues, Write, Mints
<1> HIDE DEF write
<1>3. Keeps /\ Grows
  BY <1>2, MintSafe, MintGrows
<1>4. StoreTypeOK' /\ Issued' = Issued \cup {NextSeq}
  BY <1>2, MintType DEF CoreInv, TypeOK
<1>5. TypeOK'
  BY <1>2, <1>4 DEF CoreInv, TypeOK, serverVars
<1>6. NoPessimistic /\ ShownIsNewest => ShownIsNewest'
  BY <1>2, MintShown DEF NoPessimistic
<1> QED
  BY <1>3, <1>5, <1>6 DEF Safe, Keeps, ShowsTruth, NoPessimistic

\* A tab that adopts an echo it found, if the write is still queued.
LEMMA EchoShared ==
  ASSUME CoreInv, TabsOK, NEW t \in Tabs, tabs[t].phase = "decide",
         NEW s \in EchoesRead(tabs[t]), s \in queue, AdoptEcho(tabs[t].event, s),
         UNCHANGED <<callVars, wire, serverVars, discarded>>
  PROVE  Safe
<1> DEFINE event == tabs[t].event
<1>1. event \in Changes /\ s \in Issued
  BY DEF TabsOK, WorkOK, EchoesRead
<1>2. TrueEvent(event)
  BY <1>1, ChangesTrue
<1>3. IsEchoOf(s, writes[s], event)
  BY DEF EchoesRead
<1>4. Keeps
  BY <1>2, <1>3, AdoptEchoSafe
<1>5. TypeOK'
  <2>1. StoreTypeOK' /\ writes' = writes
    BY <1>1, <1>2, AdoptEchoType DEF CoreInv, TypeOK, TrueEvent, AdoptEcho
  <2> QED
    BY <2>1, StoreStepType DEF CoreInv, TypeOK
<1>6. writes' = writes /\ queue' \subseteq queue
  BY DEF AdoptEcho, Retire
<1>7. ShownIsNewest => ShownIsNewest'
  <2>1. /\ store' = [store EXCEPT ![event.row] = EchoedRow(event, s)]
        /\ EchoedRow(event, s).val \in {store[event.row].val, Foreign, event.val}
    BY DEF AdoptEcho, EchoedRow, Adopted, Row, Absent
  <2> QED
    BY <1>2, <1>6, <2>1, EventShown
<1> QED
  BY <1>4, <1>5, <1>6, <1>7, StoreGrows DEF Safe, Keeps, ShowsTruth, NoPessimistic

\* A tab that puts a change it took for news, whatever the row is by now.
LEMMA PutShared ==
  ASSUME CoreInv, TabsOK, NEW t \in Tabs, tabs[t].phase = "decide",
         Puts(tabs[t]), UNCHANGED <<callVars, wire, serverVars, discarded>>
  PROVE  Safe
<1> DEFINE event == tabs[t].event
<1>1. event \in Changes
  BY DEF TabsOK, WorkOK
<1>2. TrueEvent(event)
  BY <1>1, ChangesTrue
<1>3. ApplyServer(event)
  BY DEF Puts
<1>4. Core' /\ (VisibleIsCommittedOrPending => VisibleIsCommittedOrPending')
  BY <1>2, <1>3, ApplyServerSafe
<1>5. writes' = writes /\ queue' \subseteq queue
  BY <1>3 DEF ApplyServer
<1>6. TypeOK'
  <2>1. StoreTypeOK'
    BY <1>2, <1>3, ApplyServerType DEF CoreInv, TypeOK, TrueEvent
  <2> QED
    BY <2>1, <1>5, StoreStepType DEF CoreInv, TypeOK
<1>7. ShownIsNewest => ShownIsNewest'
  <2>1. /\ store' = [store EXCEPT ![event.row] = Adopted(event, FALSE)]
        /\ Adopted(event, FALSE).val \in {store[event.row].val, Foreign, event.val}
    BY <1>3 DEF ApplyServer, Adopted, Row, Absent
  <2> QED
    BY <1>2, <1>5, <2>1, EventShown
<1> QED
  BY <1>4, <1>5, <1>6, <1>7, StoreGrows DEF Safe, ShowsTruth, NoPessimistic

\* A tab that resolves a conflict by the list it read.
LEMMA ConflictShared ==
  ASSUME CoreInv, TabsOK, NEW t \in Tabs, tabs[t].phase = "decide",
         ResolvesConflict(t), UNCHANGED <<callVars, wire, serverVars>>
  PROVE  Safe
<1> DEFINE event == tabs[t].event
           seqs == tabs[t].seqs
<1>1. /\ event \in Changes /\ seqs \subseteq Issued
      /\ \A s \in seqs : writes[s].row = event.row
      /\ \A s \in seqs, q \in RowQueue(event.row) \ seqs : s < q
  BY DEF TabsOK, WorkOK
<1>2. TrueEvent(event)
  BY <1>1, ChangesTrue
<1>3. ResolveConflict(event, seqs) /\ discarded' = discarded \cup (seqs \cap queue)
  BY DEF ResolvesConflict, StaleSeqs
<1>4. /\ Core'
      /\ VisibleIsCommittedOrPending /\ ShownIsNewest => VisibleIsCommittedOrPending'
  BY <1>1, <1>2, <1>3, StaleConflictSafe
<1>5. writes' = writes /\ queue' \subseteq queue
  BY <1>3 DEF ResolveConflict
<1>6. TypeOK'
  <2>1. StoreTypeOK'
    BY <1>2, <1>3, ResolveConflictType DEF CoreInv, TypeOK, TrueEvent
  <2>2. discarded' \subseteq Issued
    BY <1>1, <1>3 DEF CoreInv, TypeOK
  <2> QED
    BY <2>1, <2>2, <1>5, StoreStepType DEF CoreInv
<1>7. ShownIsNewest => ShownIsNewest'
  <2>1. /\ store' = [store EXCEPT ![event.row] = ConflictRow(event, seqs)]
        /\ ConflictRow(event, seqs).val \in {store[event.row].val, Foreign, event.val}
    BY <1>3 DEF ResolveConflict, ConflictRow, Adopted, Row, Absent
  <2> QED
    BY <1>2, <1>5, <2>1, EventShown
<1> QED
  BY <1>4, <1>5, <1>6, <1>7, StoreGrows DEF Safe, ShowsTruth, NoPessimistic

\* A tab that prunes a row, whatever the row is by now.
LEMMA PruneShared ==
  ASSUME CoreInv, TabsOK, NEW t \in Tabs, PruneDeletes(t)
  PROVE  Safe
<1> DEFINE r0 == tabs[t].row
<1>1. /\ r0 \in Rows
      /\ store' = [store EXCEPT ![r0] = Absent]
      /\ UNCHANGED <<writes, queue, superseded, callVars, wire, serverVars, discarded>>
  BY DEF TabsOK, WorkOK, PruneDeletes
<1> HIDE DEF r0
<1>2. TypeOK'
  <2>1. StoreTypeOK'
    BY <1>1, RowType DEF CoreInv, TypeOK, StoreTypeOK, Issued
  <2> QED
    BY <1>1, <2>1, StoreStepType DEF CoreInv, TypeOK
<1>3. Core' /\ (VisibleIsCommittedOrPending => VisibleIsCommittedOrPending')
  BY <1>1, PruneSafe
<1>4. ShownIsNewest => ShownIsNewest'
  <2>1. \A r \in Rows : store'[r].val \in {store[r].val, Foreign}
    BY <1>1 DEF CoreInv, TypeOK, StoreTypeOK, Absent
  <2> QED
    BY <1>1, <2>1, ShownKept DEF serverVars
<1>5. Grows
  BY <1>1, StoreGrows
<1> QED
  BY <1>2, <1>3, <1>4, <1>5 DEF Safe, ShowsTruth, NoPessimistic

\* Whatever a tab decides by what it read, the store and the tabs stay right.
LEMMA DecideShared ==
  ASSUME CoreInv, TabsOK, NEW t \in Tabs, Decide(t)
  PROVE  Safe /\ TabsOK'
<1> DEFINE w == tabs[t]
<1>1. w.phase = "decide" /\ w.event \in Changes
  BY DEF Decide, TabsOK, WorkOK
<1>2. WorkOK(Idle) /\ WorkOK(Applying(w.event))
  BY <1>1 DEF WorkOK, Idle, Applying
<1>3. CASE AdoptsEcho(t)
  <2>1. PICK s \in EchoesRead(w) :
          IF s \in queue
          THEN /\ AdoptEcho(w.event, s)
               /\ Goes(t, Idle)
               /\ UNCHANGED <<callVars, wire, serverVars, discarded>>
          ELSE Goes(t, Applying(w.event)) /\ UNCHANGED vars
    BY <1>3 DEF AdoptsEcho
  <2>2. Safe
    BY <1>1, <2>1, EchoShared, IdleShared
  <2>3. Grows
    BY <2>2 DEF Safe
  <2> QED
    BY <1>2, <2>1, <2>2, <2>3, TabGoes
<1>4. CASE ~AdoptsEcho(t)
  <2>1. Goes(t, Idle) /\ UNCHANGED <<callVars, wire, serverVars>>
    BY <1>4 DEF Decide
  <2>2. Safe
    <3>1. CASE Puts(w) /\ UNCHANGED discarded
      BY <1>1, <2>1, <3>1, PutShared
    <3>2. CASE ResolvesConflict(t)
      BY <1>1, <2>1, <3>2, ConflictShared
    <3>3. CASE UNCHANGED <<storeVars, discarded>>
      BY <2>1, <3>3, IdleShared DEF vars
    <3> QED
      BY <1>4, <3>1, <3>2, <3>3 DEF Decide
  <2>3. Grows
    BY <2>2 DEF Safe
  <2> QED
    BY <1>2, <2>1, <2>2, <2>3, TabGoes
<1> QED
  BY <1>3, <1>4

\* Initially no tab has anything under way.
LEMMA SharedStart == SharedInit => SharedInv
<1> SUFFICES ASSUME SharedInit PROVE SharedInv
  OBVIOUS
<1>1. CoreInv /\ VisibleIsCommittedOrPending
  BY InitSafe DEF SharedInit, IInv
<1>2. TabsOK
  BY DEF SharedInit, TabsOK, WorkOK, Idle
<1>3. ShownIsNewest
  BY DEF SharedInit, Init, StoreInit, ShownIsNewest, RowQueue
<1> QED
  BY <1>1, <1>2, <1>3 DEF SharedInv, ShowsTruth

\* Every step of every tab, of the network and of the server keeps the invariant.
LEMMA SharedStep == SharedInv /\ [SharedNext]_sharedVars => SharedInv'
<1> SUFFICES ASSUME CoreInv, TabsOK, [SharedNext]_sharedVars
             PROVE  Safe /\ TabsOK'
  BY DEF SharedInv, Safe, CoreInv
<1>1. CASE (Sends \/ Server) /\ UNCHANGED tabs
  <2>1. Safe
    BY <1>1, NetworkShared
  <2> QED
    BY <1>1, <2>1, TabsWait DEF Safe
<1>2. ASSUME NEW t \in Tabs, NEW work, WorkOK(work), Goes(t, work), UNCHANGED vars
      PROVE  Safe /\ TabsOK'
  <2>1. Safe
    BY <1>2, IdleShared
  <2> QED
    BY <1>2, <2>1, TabGoes DEF Safe
<1>3. ASSUME NEW t \in Tabs, NEW r \in Rows, NEW op \in Ops, NEW strategy \in Strategies,
             WriteReads(t, r, op, strategy)
      PROVE  Safe /\ TabsOK'
  <2>1. WorkOK(Writing(r, op, strategy))
    BY DEF WorkOK, Writing, CoreInv, TypeOK, StoreTypeOK, Record, Core, VersionsAreIssued
  <2> QED
    BY <1>2, <1>3, <2>1 DEF WriteReads
<1>4. ASSUME NEW t \in Tabs, WriteEnqueues(t) PROVE Safe /\ TabsOK'
  <2>1. Safe
    BY <1>4, WriteShared
  <2>2. WorkOK(Idle)
    BY DEF WorkOK, Idle
  <2> QED
    BY <1>4, <2>1, <2>2, TabGoes DEF WriteEnqueues, Safe
<1>5. ASSUME NEW t \in Tabs, NEW event \in Changes, ReadMeta(t, event)
      PROVE  Safe /\ TabsOK'
  <2>1. WorkOK(Applying(event))
    BY DEF WorkOK, Applying
  <2> QED
    BY <1>2, <1>5, <2>1 DEF ReadMeta
<1>6. ASSUME NEW t \in Tabs, ReadQueue(t) PROVE Safe /\ TabsOK'
  <2>1. tabs[t].event \in Changes
    BY <1>6 DEF ReadQueue, TabsOK, WorkOK
  <2>2. WorkOK(Listed(tabs[t]))
    BY <2>1, QueueIssued DEF WorkOK, Listed, RowQueue, CoreInv, TypeOK
  <2> QED
    BY <1>2, <1>6, <2>2 DEF ReadQueue
<1>7. ASSUME NEW t \in Tabs, Decide(t) PROVE Safe /\ TabsOK'
  BY <1>7, DecideShared
<1>8. ASSUME NEW t \in Tabs, TabCloses(t) PROVE Safe /\ TabsOK'
  <2>1. WorkOK(Idle)
    BY DEF WorkOK, Idle
  <2> QED
    BY <1>2, <1>8, <2>1 DEF TabCloses
<1>9. ASSUME NEW t \in Tabs, NEW r \in Rows, PruneReads(t, r) PROVE Safe /\ TabsOK'
  <2>1. WorkOK(Pruning(r))
    BY DEF WorkOK, Pruning
  <2> QED
    BY <1>2, <1>9, <2>1 DEF PruneReads
<1>10. ASSUME NEW t \in Tabs, PruneDeletes(t) PROVE Safe /\ TabsOK'
  <2>1. Safe
    BY <1>10, PruneShared
  <2>2. WorkOK(Idle)
    BY DEF WorkOK, Idle
  <2> QED
    BY <1>10, <2>1, <2>2, TabGoes DEF PruneDeletes, Safe
<1>11. CASE UNCHANGED sharedVars
  <2>1. Safe /\ UNCHANGED tabs
    BY <1>11, IdleShared DEF sharedVars
  <2> QED
    BY <2>1, TabsWait DEF Safe
<1> QED
  BY <1>1, <1>3, <1>4, <1>5, <1>6, <1>7, <1>8, <1>9, <1>10, <1>11 DEF SharedNext

\* The invariant holds in every behaviour, whatever the tabs do at once.
LEMMA SharedHolds == SharedSpec => []SharedInv
BY SharedStart, SharedStep, PTL DEF SharedSpec

\* However the steps of the tabs interleave, a dirty row has a queued write to resend.
THEOREM TabsKeepIntent == SharedSpec => []DirtyIsQueued
BY SharedHolds, PTL DEF SharedInv, CoreInv, Core

\* No tab loses a write, its own or another's.
THEOREM TabsLoseNoWrite == SharedSpec => []WritesAreAccounted
BY SharedHolds, PTL DEF SharedInv, CoreInv, Core

\* No tab takes the shared replica ahead of the server, however old what it read is.
THEOREM TabsNeverAhead == SharedSpec => []VersionsAreIssued
BY SharedHolds, PTL DEF SharedInv, CoreInv, Core

\* The shared replica shows only what is committed or pending, even after a conflict
\* that was judged by an older list, unless pessimistic writes are used.
THEOREM TabsShowTruth == NoPessimistic => (SharedSpec => []VisibleIsCommittedOrPending)
<1> SUFFICES ASSUME NoPessimistic PROVE SharedSpec => []VisibleIsCommittedOrPending
  OBVIOUS
<1>1. SharedInv => VisibleIsCommittedOrPending
  BY DEF SharedInv, ShowsTruth
<1> QED
  BY <1>1, SharedHolds, PTL

=============================================================================
