---------------------------- MODULE CatchUpProofs ----------------------------
(***************************************************************************)
(* Bringing a replica up to date, for every page size and for any failures,    *)
(* connections and restarts: the durable cursor never skips a change; whatever *)
(* pages and snapshots bring in, the replica stays as safe as it is under live  *)
(* delivery alone; and a replica whose cursor is at the end of the journal      *)
(* agrees with the server.                                                   *)
(***************************************************************************)
EXTENDS CatchUp, SyncHistoryProofs

-----------------------------------------------------------------------------
(* The cursor, whoever pulls and however many run at once.                    *)

\* What the proof needs of types: the journal holds what was committed.
PullsTyped ==
  /\ cursor \in Nat
  /\ pulls \in [Pullers -> Pull]
  /\ journal \in Seq(log)

\* A pull that is under way started from a cursor, and gave the replica every
\* change from there to its position.
PullsCoverGiven ==
  \A p \in Pullers : pulls[p].phase # "idle" => 1 .. pulls[p].at \subseteq given

CursorInv == PullsTyped /\ CursorCoversGiven /\ PullsCoverGiven

-----------------------------------------------------------------------------
\* Initially nothing is covered.
LEMMA CursorInvInit == CatchUpInit => CursorInv
<1>1. NotPulling \in Pull
  BY DEF NotPulling, Pull
<1> QED
  BY <1>1 DEF CatchUpInit, CursorInv, PullsTyped, PullsCoverGiven, CursorCoversGiven, NotPulling

\* A step that changes neither the cursor nor the pulls may only add to given.
LEMMA GivenGrows ==
  ASSUME CursorInv, UNCHANGED <<cursor, pulls, journal, log>>, given \subseteq given'
  PROVE  CursorInv'
BY DEF CursorInv, PullsTyped, PullsCoverGiven, CursorCoversGiven

\* A pull may start afresh from any position that is covered.
LEMMA FetchKeeps ==
  ASSUME CursorInv, NEW p \in Pullers, NEW at \in Nat, 1 .. at \subseteq given,
         pulls' = [pulls EXCEPT ![p] = FetchingFrom(at)],
         cursor' \in Nat, 1 .. cursor' \subseteq given, given' = given,
         UNCHANGED <<journal, log>>
  PROVE  CursorInv'
<1>1. FetchingFrom(at) \in Pull /\ FetchingFrom(at).at = at
  BY DEF FetchingFrom, Pull
<1>2. pulls' \in [Pullers -> Pull]
  BY <1>1 DEF CursorInv, PullsTyped
<1>3. PullsCoverGiven'
  BY <1>1 DEF CursorInv, PullsTyped, PullsCoverGiven
<1> QED
  BY <1>2, <1>3 DEF CursorInv, PullsTyped, CursorCoversGiven

\* A pull may end at any time.
LEMMA EndKeeps ==
  ASSUME CursorInv, NEW p \in Pullers, NEW well, PullEnds(p, well),
         cursor' \in Nat, 1 .. cursor' \subseteq given, given' = given,
         UNCHANGED <<journal, log>>
  PROVE  CursorInv'
<1>1. NotPulling \in Pull /\ NotPulling.phase = "idle"
  BY DEF NotPulling, Pull
<1>2. pulls' = [pulls EXCEPT ![p] = NotPulling]
  BY DEF PullEnds
<1>3. pulls' \in [Pullers -> Pull]
  BY <1>1, <1>2 DEF CursorInv, PullsTyped
<1>4. PullsCoverGiven'
  BY <1>1, <1>2 DEF CursorInv, PullsTyped, PullsCoverGiven
<1> QED
  BY <1>3, <1>4 DEF CursorInv, PullsTyped, CursorCoversGiven

\* A commit extends the journal and the log and leaves the pulls alone.
LEMMA JournalledKeeps ==
  ASSUME CursorInv, Journalled
  PROVE  CursorInv'
<1>1. log \subseteq log'
  BY DEF Journalled, Server, ServerCommit, ForeignCommit, Commit
<1>2. PICK e \in log' : journal' = Append(journal, e)
  BY DEF Journalled
<1>3. journal \in Seq(log')
  BY <1>1 DEF CursorInv, PullsTyped
<1>4. journal' \in Seq(log')
  BY <1>2, <1>3
<1> QED
  BY <1>4 DEF CursorInv, PullsTyped, PullsCoverGiven, CursorCoversGiven, Journalled, bringUp

\* The page that arrives moves neither the position nor the cursor.
LEMMA FetchedKeeps ==
  ASSUME CursorInv, NEW p \in Pullers, PullFetched(p)
  PROVE  CursorInv'
<1> DEFINE from == pulls[p].at
           upto == IF from + PageSize < Len(journal) THEN from + PageSize ELSE Len(journal)
           fetched == [phase |-> "apply", at |-> from, upto |-> upto, more |-> upto < Len(journal)]
<1>1. pulls' = [pulls EXCEPT ![p] = fetched] /\ pulls[p].phase = "fetch"
  BY DEF PullFetched
<1>2. pulls[p] \in Pull /\ from \in Nat
  BY DEF CursorInv, PullsTyped, Pull
<1>3. Len(journal) \in Nat
  BY DEF CursorInv, PullsTyped
<1>4. upto \in Nat
  BY <1>2, <1>3, CatchUpAssumption
<1>5. fetched \in Pull /\ fetched.at = from
  BY <1>2, <1>3, <1>4 DEF Pull
<1>6. UNCHANGED <<cursor, journal, log, given>>
  BY DEF PullFetched, durable, vars, serverVars
<1>7. pulls' \in [Pullers -> Pull]
  BY <1>1, <1>5 DEF CursorInv, PullsTyped
<1>8. PullsCoverGiven'
  BY <1>1, <1>5, <1>6 DEF CursorInv, PullsTyped, PullsCoverGiven
<1> QED
  BY <1>6, <1>7, <1>8 DEF CursorInv, PullsTyped, CursorCoversGiven

\* The next change is given before the position moves to it.
LEMMA ApplyKeeps ==
  ASSUME CursorInv, NEW p \in Pullers, PullApply(p)
  PROVE  CursorInv'
<1> DEFINE position == pulls[p].at + 1
<1>1. /\ pulls' = [pulls EXCEPT ![p].at = position]
      /\ given' = given \cup {position}
      /\ pulls[p].phase = "apply"
      /\ UNCHANGED <<cursor, journal, log>>
  BY DEF PullApply, Deliver, durable, serverVars
<1>2. pulls[p] \in Pull /\ pulls[p].at \in Nat /\ position \in Nat
  BY DEF CursorInv, PullsTyped, Pull
<1>3. pulls' \in [Pullers -> Pull]
  BY <1>1, <1>2 DEF CursorInv, PullsTyped, Pull
<1>4. 1 .. pulls[p].at \subseteq given
  BY <1>1 DEF CursorInv, PullsCoverGiven
<1>5. 1 .. position \subseteq given'
  BY <1>1, <1>2, <1>4
<1>6. ASSUME NEW q \in Pullers, pulls'[q].phase # "idle"
      PROVE  1 .. pulls'[q].at \subseteq given'
  <2>1. CASE q = p
    BY <1>1, <1>2, <1>5, <2>1 DEF CursorInv, PullsTyped
  <2>2. CASE q # p
    BY <1>1, <1>6, <2>2 DEF CursorInv, PullsTyped, PullsCoverGiven
  <2> QED
    BY <2>1, <2>2
<1> QED
  BY <1>1, <1>3, <1>6 DEF CursorInv, PullsTyped, PullsCoverGiven, CursorCoversGiven

\* The cursor is stored when the position has reached the end of the page.
LEMMA AdvanceKeeps ==
  ASSUME CursorInv, NEW p \in Pullers, PullAdvance(p)
  PROVE  CursorInv'
<1> DEFINE next == pulls[p].upto
<1>1. pulls[p].phase = "apply" /\ pulls[p].at = next /\ next \in Nat
  BY DEF PullAdvance, PageDone, CursorInv, PullsTyped, Pull
<1>2. 1 .. next \subseteq given
  BY <1>1 DEF CursorInv, PullsCoverGiven
<1>3. UNCHANGED <<journal, log, given>>
  BY DEF PullAdvance, vars, serverVars
<1>4. cursor \in Nat /\ 1 .. cursor \subseteq given
  BY DEF CursorInv, PullsTyped, CursorCoversGiven
<1>5. CASE PullEnds(p, FALSE) /\ UNCHANGED cursor
  BY <1>3, <1>4, <1>5, EndKeeps
<1>6. CASE cursor' = next /\ PullEnds(p, TRUE)
  BY <1>1, <1>2, <1>3, <1>6, EndKeeps
<1>7. CASE cursor' = next /\ pulls' = [pulls EXCEPT ![p] = FetchingFrom(next)]
  BY <1>1, <1>2, <1>3, <1>7, FetchKeeps
<1> QED
  BY <1>5, <1>6, <1>7 DEF PullAdvance

\* hydrateAll starts from the durable cursor, or leaves everything as it is.
LEMMA StartKeeps ==
  ASSUME CursorInv, StartHydration,
         UNCHANGED <<cursor, journal, log, given>>
  PROVE  CursorInv'
<1>1. cursor \in Nat /\ 1 .. cursor \subseteq given
  BY DEF CursorInv, PullsTyped, CursorCoversGiven
<1>2. CASE pulls' = [pulls EXCEPT !["hydrate"] = FetchingFrom(cursor)]
  BY <1>1, <1>2, FetchKeeps, CatchUpAssumption
<1>3. CASE UNCHANGED bringUp
  BY <1>3, GivenGrows DEF bringUp
<1> QED
  BY <1>2, <1>3 DEF StartHydration

\* A restart forgets every pull.
LEMMA RestartKeeps ==
  ASSUME CursorInv, Restart
  PROVE  CursorInv'
<1>1. NotPulling \in Pull /\ NotPulling.phase = "idle"
  BY DEF NotPulling, Pull
<1>2. /\ pulls' = [p \in Pullers |-> NotPulling]
      /\ UNCHANGED <<cursor, journal, log, given>>
  BY DEF Restart, durable, serverVars
<1> QED
  BY <1>1, <1>2 DEF CursorInv, PullsTyped, PullsCoverGiven, CursorCoversGiven

\* A pull takes a step.
LEMMA PullKeeps ==
  ASSUME CursorInv, NEW p \in Pullers,
         PullFetched(p) \/ PullApply(p) \/ PullAdvance(p) \/ PullFailed(p)
  PROVE  CursorInv'
<1>1. CASE PullFailed(p)
  <2>1. cursor \in Nat /\ 1 .. cursor \subseteq given
    BY DEF CursorInv, PullsTyped, CursorCoversGiven
  <2> QED
    BY <1>1, <2>1, EndKeeps DEF PullFailed, durable, vars, serverVars
<1> QED
  BY <1>1, FetchedKeeps, ApplyKeeps, AdvanceKeeps

\* The application's own steps commit nothing.
LEMMA ApplicationIsLocal == Application => UNCHANGED serverVars
BY DEF Application, IssueWrite, CallAcked, CallFailed, FlushStart, FlushAcked, FlushFailed,
       serverVars

\* Every step keeps the coverage: one case per action.
LEMMA CursorInvStep == CursorInv /\ [CatchUpNext]_catchUpVars => CursorInv'
<1> SUFFICES ASSUME CursorInv, [CatchUpNext]_catchUpVars PROVE CursorInv'
  OBVIOUS
<1> USE DEF durable, connection, bringUp, vars, serverVars
<1>1. CASE Application /\ UNCHANGED <<durable, connection, bringUp, given>>
  BY <1>1, ApplicationIsLocal, GivenGrows
<1>2. CASE Journalled
  BY <1>2, JournalledKeeps
<1>3. ASSUME NEW t \in Transports, DeliverLive(t) PROVE CursorInv'
  BY <1>3, GivenGrows DEF DeliverLive, Deliver
<1>4. CASE Connect
  BY <1>4, StartKeeps DEF Connect
<1>5. CASE Disconnect
  BY <1>5, GivenGrows DEF Disconnect
<1>6. CASE Hydrate
  BY <1>6, StartKeeps DEF Hydrate
<1>7. CASE AppPull
  <2>1. cursor \in Nat /\ 1 .. cursor \subseteq given
    BY DEF CursorInv, PullsTyped, CursorCoversGiven
  <2> QED
    BY <1>7, <2>1, FetchKeeps DEF AppPull
<1>8. ASSUME NEW p \in Pullers, PullFetched(p) \/ PullApply(p) \/ PullAdvance(p) \/ PullFailed(p)
      PROVE  CursorInv'
  BY <1>8, PullKeeps
<1>9. ASSUME NEW r \in Rows, HydrateFetched(r) \/ HydrateFailed(r) PROVE CursorInv'
  BY <1>9, GivenGrows DEF HydrateFetched, HydrateFailed
<1>10. CASE HydrateApply
  BY <1>10, GivenGrows DEF HydrateApply
<1>11. CASE Restart
  BY <1>11, RestartKeeps
<1>12. CASE UNCHANGED catchUpVars
  BY <1>12, GivenGrows DEF catchUpVars
<1> QED
  BY <1>1, <1>2, <1>3, <1>4, <1>5, <1>6, <1>7, <1>8, <1>9, <1>10, <1>11, <1>12 DEF CatchUpNext

\* The cursor never passes a change that was not applied, however many pulls
\* run at once, whenever they fail, and wherever the replica is restarted.
THEOREM CursorNeverSkips == CatchUpSpec => []CursorCoversGiven
<1>1. CursorInv => CursorCoversGiven
  BY DEF CursorInv
<1> QED
  BY <1>1, CursorInvInit, CursorInvStep, PTL DEF CatchUpSpec

-----------------------------------------------------------------------------
(* What is on its way: positions, pages and snapshots.                        *)

JournalIsLog == log = {journal[i] : i \in Positions}

JournalInOrder ==
  \A i, j \in Positions :
    i < j /\ journal[i].row = journal[j].row => journal[i].version < journal[j].version

Within ==
  /\ cursor <= Len(journal)
  /\ \A p \in Pullers : pulls[p].at <= pulls[p].upto /\ pulls[p].upto <= Len(journal)
  /\ live \subseteq Positions

\* hydrateAll first pulls and then fetches tables, if it is to.
Phases ==
  /\ hydrating = "pull" <=> pulls["hydrate"].phase # "idle"
  /\ snapshot # NoSnapshot => hydrating = "tables"
  /\ hydrating = "tables" => Snapshots

Shape == JournalIsLog /\ JournalInOrder /\ Within /\ Phases

\* A fetched row is one that the server had.
SnapshotTrue ==
  snapshot # NoSnapshot =>
    LET r == snapshot.row
        row == snapshot.is
    IN  /\ r \in Rows
        /\ row \in [here: BOOLEAN, version: Nat, val: Nat]
        /\ row.version <= server[r].version
        /\ row.here /\ row.val # Foreign => row.val \in Issued /\ acks[row.val] > 0
        /\ row.version = server[r].version => row = server[r]

Bringing == CursorInv /\ Shape /\ HistoryInv /\ SnapshotTrue

\* The journal is a sequence.
LEMMA JournalType ==
  ASSUME PullsTyped
  PROVE  /\ Len(journal) \in Nat
         /\ Positions = 1 .. Len(journal)
         /\ \A p \in Pullers : pulls[p] \in Pull /\ pulls[p].at \in Nat /\ pulls[p].upto \in Nat
         /\ "hydrate" \in Pullers
BY CatchUpAssumption DEF PullsTyped, Pull, Positions

\* A step that leaves the journal, the pulls and hydrateAll alone.
LEMMA ShapeStays ==
  ASSUME Shape, live' \subseteq live, snapshot' \in {snapshot, NoSnapshot},
         UNCHANGED <<journal, log, cursor, pulls, hydrating>>
  PROVE  Shape'
BY DEF Shape, JournalIsLog, JournalInOrder, Within, Phases, Positions

\* A commit takes the next position, and the next version of its row.
LEMMA JournalledShape ==
  ASSUME CursorInv, Shape, CoreInv, Journalled
  PROVE  /\ Shape'
         /\ Len(journal') = Len(journal) + 1
         /\ \A i \in Positions : journal'[i] = journal[i]
         /\ LET e == journal'[Len(journal) + 1]
            IN  /\ e.row \in Rows
                /\ e.version = server[e.row].version + 1
                /\ server'[e.row].version = e.version
                /\ \A r \in Rows \ {e.row} : server'[r] = server[r]
                /\ log' = log \cup {e}
<1> DEFINE n == Len(journal) + 1
<1>1. PICK e \in log' \ log : journal' = Append(journal, e)
  BY DEF Journalled
<1>2. Server
  BY DEF Journalled
<1>3. PICK r0 \in Rows, op \in Op, val \in Nat, key \in Nat : Commit(r0, op, val, key)
  BY <1>2, ServerIsCommit
<1>4. /\ e.row = r0 /\ e.version = server[r0].version + 1
      /\ log' = log \cup {e}
      /\ server'[r0].version = e.version
      /\ \A r \in Rows \ {r0} : server'[r] = server[r]
  BY <1>1, <1>3 DEF Commit, CoreInv, TypeOK
<1>5. /\ journal \in Seq(log) /\ Len(journal) \in Nat /\ Positions = 1 .. Len(journal)
      /\ cursor \in Nat
      /\ \A p \in Pullers : pulls[p].at \in Nat /\ pulls[p].upto \in Nat
  BY JournalType DEF CursorInv, PullsTyped
<1>6. /\ Len(journal') = n /\ journal'[n] = e
      /\ \A i \in Positions : journal'[i] = journal[i]
      /\ Positions' = Positions \cup {n}
  <2>1. journal \in Seq(log') /\ e \in log'
    BY <1>4, <1>5
  <2>2. Len(journal') = n /\ journal'[n] = e /\ \A i \in 1 .. Len(journal) : journal'[i] = journal[i]
    BY <2>1, <1>1, <1>5
  <2>3. journal' \in Seq(log')
    BY <2>1, <1>1
  <2>4. Positions' = 1 .. n
    BY <2>2, <2>3 DEF Positions
  <2> QED
    BY <2>2, <2>4, <1>5
<1>7. JournalIsLog'
  BY <1>4, <1>6 DEF Shape, JournalIsLog
<1>8. JournalInOrder'
  <2> SUFFICES ASSUME NEW i \in Positions', NEW j \in Positions', i < j,
                      journal'[i].row = journal'[j].row
               PROVE  journal'[i].version < journal'[j].version
    BY DEF JournalInOrder
  <2>1. CASE j = n
    <3>1. i \in Positions
      BY <2>1, <1>5, <1>6
    <3>2. journal[i] \in log /\ journal[i].row = r0
      BY <2>1, <3>1, <1>4, <1>6 DEF Shape, JournalIsLog
    <3>3. /\ journal[i].version \in Nat /\ journal[i].version <= server[r0].version
          /\ server[r0].version \in Nat
      BY <3>2 DEF CoreInv, TypeOK, Event, Core, LogIsTrue
    <3> QED
      BY <2>1, <3>1, <3>3, <1>4, <1>6
  <2>2. CASE j \in Positions
    <3>1. i \in Positions
      BY <2>2, <1>5, <1>6
    <3> QED
      BY <2>2, <3>1, <1>6 DEF Shape, JournalInOrder
  <2> QED
    BY <2>1, <2>2, <1>6
<1>9. UNCHANGED <<cursor, pulls, hydrating, snapshot>> /\ live' \subseteq live \cup {n}
  BY DEF Journalled, bringUp
<1>10. Within'
  BY <1>5, <1>6, <1>9 DEF Shape, Within
<1>11. Phases'
  BY <1>9 DEF Shape, Phases
<1> QED
  BY <1>4, <1>6, <1>7, <1>8, <1>10, <1>11 DEF Shape

\* The end of a pull leaves the rest as it was.
LEMMA EndShape ==
  ASSUME Bringing, NEW p \in Pullers, NEW well, PullEnds(p, well), pulls[p].phase # "idle",
         cursor' \in Nat, cursor' <= Len(journal), UNCHANGED <<journal, log, live>>
  PROVE  Shape'
<1>1. /\ pulls' = [pulls EXCEPT ![p] = NotPulling] /\ snapshot' = snapshot
      /\ NotPulling.at = 0 /\ NotPulling.upto = 0 /\ NotPulling.phase = "idle"
  BY DEF PullEnds, NotPulling
<1>2. /\ pulls \in [Pullers -> Pull] /\ Len(journal) \in Nat /\ "hydrate" \in Pullers
      /\ p \in {"hydrate", "app"}
  BY JournalType, CatchUpAssumption DEF Bringing, CursorInv, PullsTyped
<1>3. Within'
  BY <1>1, <1>2 DEF Bringing, Shape, Within, Positions
<1>4. Phases'
  <2>1. CASE p = "app"
    BY <2>1, <1>1, <1>2 DEF PullEnds, Bringing, Shape, Phases
  <2>2. CASE p = "hydrate"
    <3>1. hydrating = "pull" /\ snapshot = NoSnapshot
      BY <2>2 DEF Bringing, Shape, Phases
    <3>2. pulls'["hydrate"].phase = "idle"
      BY <2>2, <1>1, <1>2
    <3> QED
      BY <2>2, <3>1, <3>2, <1>1 DEF PullEnds, Phases
  <2> QED
    BY <2>1, <2>2, <1>2
<1> QED
  BY <1>3, <1>4 DEF Bringing, Shape, JournalIsLog, JournalInOrder, Positions

\* So does a pull that starts, goes on to the next page or moves within its page.
LEMMA PullShape ==
  ASSUME Bringing, NEW p \in Pullers, NEW pull \in Pull, pull.phase # "idle",
         pulls' = [pulls EXCEPT ![p] = pull],
         pull.at <= pull.upto, pull.upto <= Len(journal),
         cursor' \in Nat, cursor' <= Len(journal),
         UNCHANGED <<journal, log, live, snapshot>>,
         \/ pulls[p].phase # "idle" /\ hydrating' = hydrating
         \/ p = "app" /\ hydrating' = hydrating
         \/ p = "hydrate" /\ hydrating = "no" /\ hydrating' = "pull"
  PROVE  Shape'
<1>1. pulls \in [Pullers -> Pull] /\ "hydrate" \in Pullers
  BY JournalType DEF Bringing, CursorInv, PullsTyped
<1>2. Within'
  BY <1>1 DEF Bringing, Shape, Within, Positions
<1>3. Phases'
  BY <1>1 DEF Bringing, Shape, Phases
<1> QED
  BY <1>2, <1>3 DEF Bringing, Shape, JournalIsLog, JournalInOrder, Positions

-----------------------------------------------------------------------------
(* The replica stays safe.                                                   *)

\* A change that is true keeps the invariant, however it came.
LEMMA ChangeKeeps ==
  ASSUME HistoryInv, NEW event, TrueEvent(event), ApplyChange(event),
         UNCHANGED <<callVars, wire, serverVars>>
  PROVE  HistoryInv'
<1>1. CoreInv /\ TypeOK /\ History
  BY DEF HistoryInv, IInv, CoreInv
<1>2. TypeOK'
  <2>1. StoreTypeOK' /\ Issued' = Issued /\ discarded' \subseteq Issued
    BY <1>1, ApplyChangeType DEF TrueEvent
  <2> QED
    BY <1>1, <2>1 DEF TypeOK, callVars, serverVars
<1>3. Keeps
  BY <1>1, ApplyChangeSafe
<1>4. History'
  BY <1>1, ApplyChangeHistory
<1>5. NewestEditIsVisible => NewestEditIsVisible'
  BY <1>1, ApplyChangeNewest
<1> QED
  BY <1>2, <1>3, <1>4, <1>5 DEF HistoryInv, IInv, CoreInv, Keeps, KeepsNewest, NoMixedDeletes

\* Pruning takes away only a row without intent.
LEMMA PruneKeeps ==
  ASSUME HistoryInv, NEW r0 \in Rows, Prune(r0), UNCHANGED <<callVars, wire, serverVars>>
  PROVE  HistoryInv'
<1>1. CoreInv /\ TypeOK /\ History /\ IntentIsDirty /\ VisibleIsCommittedOrPending
  BY DEF HistoryInv, IInv, CoreInv
<1>2. CASE ~Prunable(r0)
  <2>1. UNCHANGED <<storeVars, serverVars, discarded>>
    BY <1>2 DEF Prune, storeVars
  <2>2. Keeps /\ History' /\ (NewestEditIsVisible => NewestEditIsVisible')
    BY <1>1, <2>1, UntouchedSafe, UntouchedHistory
  <2>3. TypeOK'
    BY <1>1, <2>1 DEF TypeOK, StoreTypeOK, storeVars, callVars, serverVars, Issued
  <2> QED
    BY <2>2, <2>3 DEF HistoryInv, IInv, CoreInv, Keeps, KeepsNewest, NoMixedDeletes
<1>3. CASE Prunable(r0)
  <2>1. /\ store' = [store EXCEPT ![r0] = Absent]
        /\ UNCHANGED <<writes, queue, superseded, discarded, acks, server, log>>
        /\ Issued' = Issued
    BY <1>3 DEF Prune, serverVars, Issued
  <2>2. /\ store'[r0] = Absent
        /\ \A r \in Rows \ {r0} : store'[r] = store[r]
        /\ \A r \in Rows : RowQueue(r)' = RowQueue(r)
    BY <1>1, <2>1 DEF TypeOK, StoreTypeOK, RowQueue
  <2>3. TypeOK'
    BY <1>1, <2>1, RowType DEF TypeOK, StoreTypeOK, callVars, Issued
  <2>4. Core' /\ VisibleIsCommittedOrPending'
    BY <1>1, <2>1, PruneSafe DEF serverVars
  <2>5. IntentIsDirty'
    BY <1>1, <2>1, <2>2 DEF IntentIsDirty, IsOptimistic, Absent
  <2>6. History'
    BY <1>1, <2>1, ServerHistoryStays, QueueHistoryStays DEF History, serverVars
  <2>7. NewestEditIsVisible => NewestEditIsVisible'
    <3>1. Unsettled(r0) = {}
      BY <1>1, <1>3 DEF Unsettled, IntentIsDirty, Prunable
    <3>2. \A r \in Rows : Unsettled(r)' = Unsettled(r)
      BY <2>1, <2>2 DEF Unsettled, IsOptimistic
    <3> QED
      BY <2>1, <2>2, <3>1, <3>2 DEF NewestEditIsVisible
  <2> QED
    BY <2>3, <2>4, <2>5, <2>6, <2>7
       DEF HistoryInv, IInv, CoreInv, KeepsNewest, NoMixedDeletes
<1> QED
  BY <1>2, <1>3

\* A step of the bring-up itself leaves the replica alone; a restart only forgets.
LEMMA RestKeepsHistory ==
  ASSUME HistoryInv, calls' \subseteq calls, flush' \in {flush, NoFlush},
         UNCHANGED <<storeVars, wire, serverVars, discarded>>
  PROVE  HistoryInv'
<1>1. CoreInv /\ TypeOK /\ History
  BY DEF HistoryInv, IInv, CoreInv
<1>2. Keeps /\ History' /\ (NewestEditIsVisible => NewestEditIsVisible')
  BY <1>1, UntouchedSafe, UntouchedHistory
<1>3. TypeOK'
  BY <1>1 DEF NoFlush, TypeOK, StoreTypeOK, storeVars, serverVars, Issued
<1> QED
  BY <1>2, <1>3 DEF HistoryInv, IInv, CoreInv, Keeps, KeepsNewest, NoMixedDeletes

\* A fetched row that is there is a change the server made.
LEMMA SnapshotIsTrue ==
  ASSUME SnapshotTrue, snapshot # NoSnapshot, snapshot.is.here
  PROVE  TrueEvent([row |-> snapshot.row, op |-> "upsert", version |-> snapshot.is.version,
                    val |-> snapshot.is.val, key |-> NoKey])
BY DEF SnapshotTrue, TrueEvent

\* What the replica's own steps leave of a fetched row.
LEMMA SnapshotStays ==
  ASSUME SnapshotTrue, snapshot' \in {snapshot, NoSnapshot},
         Issued \subseteq Issued', UNCHANGED <<server, acks>>
  PROVE  SnapshotTrue'
BY DEF SnapshotTrue, NoSnapshot

\* A commit of the server makes it old, at most.
LEMMA SnapshotAges ==
  ASSUME CoreInv, SnapshotTrue, Server, snapshot' = snapshot
  PROVE  SnapshotTrue'
<1>1. Issued' = Issued
  BY DEF Server, ServerCommit, ForeignCommit, storeVars, Issued
<1>2. \A s \in Issued : acks[s] > 0 => acks'[s] > 0
  <2>1. ASSUME NEW s \in Issued, ServerCommit(s), NEW t \in Issued, acks[t] > 0
        PROVE  acks'[t] > 0
    <3>1. t \in Seqs /\ t # s
      BY <2>1, IssuedType DEF ServerCommit, CoreInv, TypeOK
    <3> QED
      BY <2>1, <3>1 DEF ServerCommit, CoreInv, TypeOK
  <2> QED
    BY <2>1 DEF Server, ForeignCommit
<1>3. \A r \in Rows : \/ server'[r] = server[r]
                      \/ server'[r].version = server[r].version + 1
  <2>1. ASSUME NEW r0 \in Rows, NEW op, NEW val, NEW key, Commit(r0, op, val, key), NEW r \in Rows
        PROVE  \/ server'[r] = server[r]
               \/ server'[r].version = server[r].version + 1
    <3>1. CASE r = r0
      BY <2>1, <3>1 DEF Commit, CoreInv, TypeOK
    <3>2. CASE r # r0
      BY <2>1, <3>2 DEF Commit, CoreInv, TypeOK
    <3> QED
      BY <3>1, <3>2
  <2>2. \A s \in Issued : writes[s].row \in Rows
    BY IssuedType DEF CoreInv, TypeOK
  <2> QED
    BY <2>1, <2>2 DEF Server, ServerCommit, ForeignCommit
<1>4. \A r \in Rows : server[r].version \in Nat
  BY DEF CoreInv, TypeOK
<1> SUFFICES ASSUME snapshot # NoSnapshot
             PROVE  LET r == snapshot.row
                        row == snapshot.is
                    IN  /\ r \in Rows
                        /\ row \in [here: BOOLEAN, version: Nat, val: Nat]
                        /\ row.version <= server'[r].version
                        /\ row.here /\ row.val # Foreign => row.val \in Issued /\ acks'[row.val] > 0
                        /\ row.version = server'[r].version => row = server'[r]
  BY <1>1 DEF SnapshotTrue, NoSnapshot
<1> DEFINE r == snapshot.row
           row == snapshot.is
<1>5. /\ r \in Rows
      /\ row \in [here: BOOLEAN, version: Nat, val: Nat]
      /\ row.version <= server[r].version
      /\ row.here /\ row.val # Foreign => row.val \in Issued /\ acks[row.val] > 0
      /\ row.version = server[r].version => row = server[r]
  BY DEF SnapshotTrue
<1>6. row.version \in Nat
  BY <1>5
<1> HIDE DEF r, row
<1>7. CASE server'[r] = server[r]
  BY <1>2, <1>5, <1>7 DEF r, row
<1>8. CASE server'[r].version = server[r].version + 1
  <2>1. server[r].version \in Nat
    BY <1>4, <1>5
  <2>2. row.version < server'[r].version
    BY <2>1, <1>5, <1>6, <1>8
  <2> QED
    BY <2>2, <1>2, <1>5, <1>6, <1>8, <2>1 DEF r, row
<1> QED
  BY <1>3, <1>5, <1>7, <1>8

-----------------------------------------------------------------------------
(* The bring-up, action by action.                                            *)

\* The application's steps forget no write.
LEMMA ApplicationIssues ==
  ASSUME StoreTypeOK, Application PROVE Issued \subseteq Issued'
<1>1. ASSUME NEW r \in Rows, NEW op \in Ops, NEW strategy \in Strategies,
             IssueWrite(r, op, strategy)
      PROVE  Issued \subseteq Issued'
  <2> DEFINE write == [row |-> r, op |-> op, base |-> store[r].version, strategy |-> strategy]
  <2>1. write \in Write /\ Mints(write)
    BY <1>1, IssueWriteMints
  <2> HIDE DEF write
  <2> QED
    BY <2>1, MintType
<1>2. CASE UNCHANGED writes
  BY <1>2 DEF Issued
<1> QED
  BY <1>1, <1>2
     DEF Application, CallAcked, CallFailed, FlushStart, FlushAcked, FlushFailed, Settle,
         SettleAck, SettlePessimistic, storeVars

\* A change of the journal that comes in keeps the replica safe.
LEMMA DeliverKeepsBringing ==
  ASSUME Bringing, NEW position \in Positions, NEW t, Deliver(journal[position], t),
         snapshot' \in {snapshot, NoSnapshot}
  PROVE  /\ journal[position] \in log
         /\ HistoryInv' /\ SnapshotTrue' /\ UNCHANGED serverVars
<1>1. journal[position] \in log
  BY DEF Bringing, Shape, JournalIsLog
<1>2. TrueEvent(Decoded(journal[position], t))
  BY <1>1, DecodedTrue DEF Bringing, HistoryInv, IInv
<1>3. HistoryInv'
  BY <1>2, ChangeKeeps DEF Bringing, Deliver
<1>4. writes' = writes
  BY DEF Deliver, ApplyChange, AdoptEcho, ApplyServer, ResolveConflict, storeVars
<1>5. UNCHANGED serverVars
  BY DEF Deliver
<1>6. SnapshotTrue'
  BY <1>4, <1>5, SnapshotStays DEF Bringing, Issued, serverVars
<1> QED
  BY <1>1, <1>3, <1>5, <1>6

\* A step that touches neither the replica nor the server, nor fetches a snapshot.
LEMMA RestKeepsBringing ==
  ASSUME Bringing, calls' \subseteq calls, flush' \in {flush, NoFlush},
         UNCHANGED <<storeVars, wire, serverVars, discarded>>,
         snapshot' \in {snapshot, NoSnapshot}
  PROVE  HistoryInv' /\ SnapshotTrue'
<1>1. HistoryInv'
  BY RestKeepsHistory DEF Bringing
<1>2. SnapshotTrue'
  BY SnapshotStays DEF Bringing, storeVars, serverVars, Issued
<1> QED
  BY <1>1, <1>2

\* hydrateAll starts, or runs already.
LEMMA StartBringing ==
  ASSUME Bringing, StartHydration, UNCHANGED <<vars, durable>>, live' = live
  PROVE  Shape' /\ HistoryInv' /\ SnapshotTrue'
<1>1. snapshot' = snapshot
  BY DEF StartHydration, bringUp
<1>2. HistoryInv' /\ SnapshotTrue'
  BY <1>1, RestKeepsBringing DEF vars, callVars
<1>3. cursor \in Nat /\ cursor <= Len(journal) /\ "hydrate" \in Pullers
  BY JournalType DEF Bringing, CursorInv, PullsTyped, Shape, Within
<1>4. CASE hydrating = "no"
  <2> DEFINE pull == FetchingFrom(cursor)
  <2>1. pull \in Pull /\ pull.at <= pull.upto /\ pull.upto <= Len(journal) /\ pull.phase # "idle"
    BY <1>3 DEF FetchingFrom, Pull
  <2>2. pulls' = [pulls EXCEPT !["hydrate"] = pull] /\ hydrating' = "pull"
    BY <1>4 DEF StartHydration
  <2>3. UNCHANGED <<journal, log, live, snapshot, cursor>>
    BY <1>1 DEF durable, vars, serverVars
  <2> HIDE DEF pull
  <2>4. Shape'
    BY <1>3, <1>4, <2>1, <2>2, <2>3, PullShape
  <2> QED
    BY <1>2, <2>4
<1>5. CASE hydrating # "no"
  <2>1. Shape'
    BY <1>5, ShapeStays DEF Bringing, StartHydration, bringUp, durable, vars, serverVars
  <2> QED
    BY <1>2, <2>1
<1> QED
  BY <1>4, <1>5

\* A page arrives, or its next change is applied,
LEMMA FetchedBringing ==
  ASSUME Bringing, NEW p \in Pullers, PullFetched(p)
  PROVE  Shape' /\ HistoryInv' /\ SnapshotTrue'
<1> DEFINE from == pulls[p].at
           upto == IF from + PageSize < Len(journal) THEN from + PageSize ELSE Len(journal)
           fetched == [phase |-> "apply", at |-> from, upto |-> upto, more |-> upto < Len(journal)]
<1>1. /\ pulls' = [pulls EXCEPT ![p] = fetched] /\ pulls[p].phase # "idle"
      /\ UNCHANGED <<vars, durable, live, hydrating, snapshot>>
  BY DEF PullFetched, connection
<1>2. /\ from \in Nat /\ Len(journal) \in Nat /\ from <= Len(journal)
      /\ cursor \in Nat /\ cursor <= Len(journal)
  <2>1. from \in Nat /\ pulls[p].upto \in Nat /\ Len(journal) \in Nat
    BY JournalType DEF Bringing, CursorInv
  <2> QED
    BY <2>1 DEF Bringing, CursorInv, PullsTyped, Shape, Within
<1>3. upto \in Nat /\ from <= upto /\ upto <= Len(journal)
  BY <1>2, CatchUpAssumption
<1>4. /\ fetched \in Pull /\ fetched.at = from /\ fetched.upto = upto /\ fetched.phase # "idle"
  BY <1>2, <1>3 DEF Pull
<1> HIDE DEF fetched, upto
<1>5. HistoryInv' /\ SnapshotTrue'
  BY <1>1, RestKeepsBringing DEF vars, callVars
<1> QED
  BY <1>1, <1>2, <1>3, <1>4, <1>5, PullShape DEF durable, vars, serverVars

\* where the position to apply is one of the journal,
LEMMA NextPosition ==
  ASSUME Bringing, NEW p \in Pullers, PullApply(p)
  PROVE  /\ pulls[p].at + 1 \in Positions
         /\ pulls[p].at \in Nat
         /\ pulls[p].at + 1 <= pulls[p].upto
<1>1. pulls[p].at \in Nat /\ pulls[p].upto \in Nat /\ Len(journal) \in Nat
      /\ Positions = 1 .. Len(journal)
  BY JournalType DEF Bringing, CursorInv
<1> QED
  BY <1>1 DEF PullApply, Bringing, Shape, Within

\* The next change of a page is applied.
LEMMA ApplyBringing ==
  ASSUME Bringing, NEW p \in Pullers, PullApply(p)
  PROVE  Shape' /\ HistoryInv' /\ SnapshotTrue'
<1> DEFINE position == pulls[p].at + 1
           moved == [pulls[p] EXCEPT !.at = position]
<1>1. /\ pulls' = [pulls EXCEPT ![p] = moved] /\ pulls[p].phase # "idle"
      /\ Deliver(journal[position], "backend")
      /\ UNCHANGED <<journal, cursor, live, hydrating, snapshot>>
  <2>1. pulls \in [Pullers -> Pull]
    BY DEF Bringing, CursorInv, PullsTyped
  <2> QED
    BY <2>1 DEF PullApply, durable, connection
<1>2. position \in Positions /\ position \in Nat /\ position <= pulls[p].upto
  BY NextPosition
<1>3. HistoryInv' /\ SnapshotTrue' /\ log' = log
  BY <1>1, <1>2, DeliverKeepsBringing DEF serverVars
<1>4. pulls[p] \in Pull
  BY JournalType DEF Bringing, CursorInv
<1>5. /\ moved \in Pull /\ moved.at = position /\ moved.upto = pulls[p].upto
      /\ moved.phase = pulls[p].phase
  BY <1>2, <1>4 DEF Pull
<1>6. cursor \in Nat /\ cursor <= Len(journal) /\ pulls[p].upto <= Len(journal)
  BY DEF Bringing, CursorInv, PullsTyped, Shape, Within
<1> HIDE DEF moved, position
<1>7. Shape'
  BY <1>1, <1>2, <1>3, <1>5, <1>6, PullShape
<1> QED
  BY <1>3, <1>7

\* and a page that is done may end the pull, or lead to the next.
LEMMA AdvanceBringing ==
  ASSUME Bringing, NEW p \in Pullers, PullAdvance(p)
  PROVE  Shape' /\ HistoryInv' /\ SnapshotTrue'
<1> DEFINE next == pulls[p].upto
<1>1. /\ pulls[p].phase # "idle" /\ next \in Nat /\ next <= Len(journal)
      /\ cursor \in Nat /\ cursor <= Len(journal)
  BY JournalType DEF PullAdvance, PageDone, Bringing, CursorInv, PullsTyped, Shape, Within
<1>2. UNCHANGED <<journal, log, live>> /\ UNCHANGED vars /\ snapshot' = snapshot
  BY DEF PullAdvance, PullEnds, connection, vars, serverVars
<1>3. HistoryInv' /\ SnapshotTrue'
  BY <1>2, RestKeepsBringing DEF vars, callVars
<1>4. CASE PullEnds(p, FALSE) /\ UNCHANGED cursor
  BY <1>1, <1>2, <1>3, <1>4, EndShape
<1>5. CASE PullEnds(p, TRUE) /\ cursor' = next
  BY <1>1, <1>2, <1>3, <1>5, EndShape
<1>6. CASE cursor' = next /\ pulls' = [pulls EXCEPT ![p] = FetchingFrom(next)]
           /\ hydrating' = hydrating
  <2> DEFINE pull == FetchingFrom(next)
  <2>1. pull \in Pull /\ pull.at <= pull.upto /\ pull.upto <= Len(journal) /\ pull.phase # "idle"
    BY <1>1 DEF FetchingFrom, Pull
  <2>2. pulls' = [pulls EXCEPT ![p] = pull]
    BY <1>6
  <2> HIDE DEF pull, next
  <2>3. Shape'
    BY <1>1, <1>2, <1>6, <2>1, <2>2, PullShape
  <2> QED
    BY <1>3, <2>3
<1> QED
  BY <1>4, <1>5, <1>6 DEF PullAdvance

\* What the server has of a row is its own, or of a write that it acknowledged.
LEMMA ServerIsTrue ==
  ASSUME CoreInv, ServerHistory, NEW r \in Rows, server[r].here, server[r].val # Foreign
  PROVE  server[r].val \in Issued /\ acks[server[r].val] > 0
<1>1. PICK e \in log : e.row = r /\ e.version = server[r].version
  BY DEF ServerHistory, LogHasLatest
<1>2. server[r].val = e.val
  BY <1>1 DEF ServerHistory, LatestIsServer
<1> QED
  BY <1>1, <1>2 DEF CoreInv, Core, LogIsTrue

\* A snapshot is fetched.
LEMMA SnapshotBringing ==
  ASSUME Bringing, NEW r \in Rows, HydrateFetched(r)
  PROVE  Shape' /\ HistoryInv' /\ SnapshotTrue'
<1>1. /\ UNCHANGED <<vars, durable, live, pulls, hydrating>> /\ hydrating = "tables"
      /\ snapshot' = [row |-> r, is |-> server[r]]
  BY DEF HydrateFetched, connection
<1>2. CoreInv /\ ServerHistory
  BY DEF Bringing, HistoryInv, IInv, History
<1>3. HistoryInv'
  BY <1>1, RestKeepsHistory DEF Bringing, vars, callVars
<1>4. Shape'
  BY <1>1 DEF Bringing, Shape, JournalIsLog, JournalInOrder, Within, Phases, Positions, durable,
     vars, serverVars
<1>5. SnapshotTrue'
  <2>1. server[r] \in [here: BOOLEAN, version: Nat, val: Nat]
    BY <1>2 DEF CoreInv, TypeOK
  <2>2. server[r].here /\ server[r].val # Foreign =>
          server[r].val \in Issued /\ acks[server[r].val] > 0
    BY <1>2, ServerIsTrue
  <2>3. UNCHANGED <<server, acks, writes>>
    BY <1>1 DEF vars, serverVars, storeVars
  <2>4. server[r].version <= server[r].version
    BY <2>1
  <2> QED
    BY <1>1, <2>1, <2>2, <2>3, <2>4 DEF SnapshotTrue, Issued
<1> QED
  BY <1>3, <1>4, <1>5

\* A fetched snapshot is applied.
LEMMA HydrateBringing ==
  ASSUME Bringing, HydrateApply
  PROVE  Shape' /\ HistoryInv' /\ SnapshotTrue'
<1>1. /\ snapshot # NoSnapshot /\ snapshot' = NoSnapshot /\ hydrating' \in {"no", "tables"}
      /\ UNCHANGED <<callVars, wire, serverVars, durable, live, pulls>>
  BY DEF HydrateApply, connection
<1>2. Shape'
  BY <1>1 DEF Bringing, Shape, JournalIsLog, JournalInOrder, Within, Phases, Positions, durable,
     serverVars
<1>3. SnapshotTrue'
  BY <1>1 DEF SnapshotTrue, NoSnapshot
<1>4. HistoryInv'
  <2>1. CASE snapshot.is.here
    BY <1>1, <2>1, SnapshotIsTrue, ChangeKeeps DEF HydrateApply, Bringing
  <2>2. CASE ~snapshot.is.here
    BY <1>1, <2>2, PruneKeeps DEF HydrateApply, Bringing, SnapshotTrue
  <2> QED
    BY <2>1, <2>2
<1> QED
  BY <1>2, <1>3, <1>4

\* A restart forgets what was on its way.
LEMMA RestartBringing ==
  ASSUME Bringing, Restart
  PROVE  Shape' /\ HistoryInv' /\ SnapshotTrue'
<1>1. /\ calls' = {} /\ flush' = NoFlush /\ live' = {} /\ hydrating' = "no" /\ snapshot' = NoSnapshot
      /\ pulls' = [p \in Pullers |-> NotPulling]
      /\ UNCHANGED <<storeVars, wire, serverVars, discarded, durable>>
  BY DEF Restart
<1>2. HistoryInv' /\ SnapshotTrue'
  BY <1>1, RestKeepsBringing
<1>3. Len(journal) \in Nat /\ "hydrate" \in Pullers
  BY JournalType DEF Bringing, CursorInv
<1>4. Within' /\ Phases'
  BY <1>1, <1>3 DEF Bringing, Shape, Within, Phases, NotPulling, durable
<1> QED
  BY <1>1, <1>2, <1>4 DEF Bringing, Shape, JournalIsLog, JournalInOrder, Positions, durable, serverVars

\* Initially nothing is on its way.
LEMMA BringingInit == CatchUpInit => Bringing
<1> SUFFICES ASSUME CatchUpInit PROVE Shape /\ HistoryInv /\ SnapshotTrue
  BY CursorInvInit DEF Bringing
<1>1. Init /\ HistoryInv
  BY HistoryInit DEF CatchUpInit
<1>2. /\ journal = << >> /\ cursor = 0 /\ live = {} /\ log = {} /\ hydrating = "no"
      /\ snapshot = NoSnapshot /\ pulls = [p \in Pullers |-> NotPulling]
  BY DEF CatchUpInit, Init
<1>3. "hydrate" \in Pullers
  BY CatchUpAssumption
<1>4. Positions = {}
  BY <1>2 DEF Positions
<1> QED
  BY <1>1, <1>2, <1>3, <1>4
     DEF Shape, JournalIsLog, JournalInOrder, Within, Phases, SnapshotTrue, NotPulling

\* Every step of the bring-up keeps the replica safe: one case per action.
LEMMA BringingStep == Bringing /\ [CatchUpNext]_catchUpVars => Bringing'
<1> SUFFICES ASSUME Bringing, [CatchUpNext]_catchUpVars
             PROVE  Shape' /\ HistoryInv' /\ SnapshotTrue'
  BY CursorInvStep DEF Bringing
<1>0. CoreInv /\ StoreTypeOK /\ CursorInv /\ Shape /\ HistoryInv /\ SnapshotTrue
  BY DEF Bringing, HistoryInv, IInv, CoreInv, TypeOK
<1>1. CASE Application /\ UNCHANGED <<durable, connection, bringUp, given>>
  <2>1. HistoryInv'
    BY <1>0, <1>1, HistoryStep DEF Next, Client
  <2>2. UNCHANGED serverVars /\ Issued \subseteq Issued'
    BY <1>0, <1>1, ApplicationIsLocal, ApplicationIssues
  <2>3. Shape'
    BY <1>0, <1>1, <2>2, ShapeStays DEF durable, connection, bringUp, serverVars
  <2>4. SnapshotTrue'
    BY <1>0, <1>1, <2>2, SnapshotStays DEF bringUp, serverVars
  <2> QED
    BY <2>1, <2>3, <2>4
<1>2. CASE Journalled
  <2>1. Server /\ snapshot' = snapshot
    BY <1>2 DEF Journalled, bringUp
  <2>2. HistoryInv'
    BY <1>0, <2>1, HistoryStep DEF Next
  <2> QED
    BY <1>0, <1>2, <2>1, <2>2, JournalledShape, SnapshotAges
<1>3. ASSUME NEW t \in Transports, DeliverLive(t) PROVE Shape' /\ HistoryInv' /\ SnapshotTrue'
  <2>1. PICK position \in live :
          /\ Deliver(journal[position], t)
          /\ live' = live \ {position}
          /\ UNCHANGED <<durable, online, bringUp>>
    BY <1>3 DEF DeliverLive
  <2>2. position \in Positions /\ snapshot' = snapshot
    BY <1>0, <2>1 DEF Shape, Within, bringUp
  <2>3. HistoryInv' /\ SnapshotTrue' /\ UNCHANGED serverVars
    BY <2>1, <2>2, DeliverKeepsBringing
  <2>4. Shape'
    BY <1>0, <2>1, <2>3, ShapeStays DEF durable, bringUp, serverVars
  <2> QED
    BY <2>3, <2>4
<1>4. CASE Connect
  BY <1>4, StartBringing DEF Connect
<1>5. CASE Disconnect
  BY <1>0, <1>5, ShapeStays, RestKeepsBringing
     DEF Disconnect, vars, durable, bringUp, callVars, serverVars
<1>6. CASE Hydrate
  BY <1>6, StartBringing DEF Hydrate, connection
<1>7. CASE AppPull
  <2> DEFINE pull == FetchingFrom(cursor)
  <2>1. cursor \in Nat /\ cursor <= Len(journal)
    BY <1>0 DEF CursorInv, PullsTyped, Shape, Within
  <2>2. pull \in Pull /\ pull.at <= pull.upto /\ pull.upto <= Len(journal) /\ pull.phase # "idle"
    BY <2>1 DEF FetchingFrom, Pull
  <2>3. /\ "app" \in Pullers /\ pulls' = [pulls EXCEPT !["app"] = pull]
        /\ UNCHANGED <<vars, journal, log, live, snapshot, cursor, hydrating>>
    BY <1>7 DEF AppPull, durable, connection, vars, serverVars
  <2> HIDE DEF pull
  <2>4. Shape'
    BY <2>1, <2>2, <2>3, PullShape
  <2>5. HistoryInv' /\ SnapshotTrue'
    BY <2>3, RestKeepsBringing DEF vars, callVars
  <2> QED
    BY <2>4, <2>5
<1>8. ASSUME NEW p \in Pullers, PullFetched(p) \/ PullApply(p) \/ PullAdvance(p) \/ PullFailed(p)
      PROVE  Shape' /\ HistoryInv' /\ SnapshotTrue'
  <2>1. CASE PullFailed(p)
    <3>1. /\ PullEnds(p, FALSE) /\ pulls[p].phase # "idle"
          /\ UNCHANGED <<vars, journal, log, live, cursor, snapshot>>
      BY <2>1 DEF PullFailed, PullEnds, durable, connection, vars, serverVars
    <3>2. cursor' \in Nat /\ cursor' <= Len(journal)
      BY <1>0, <3>1 DEF CursorInv, PullsTyped, Shape, Within
    <3>3. HistoryInv' /\ SnapshotTrue'
      BY <3>1, RestKeepsBringing DEF vars, callVars
    <3> QED
      BY <3>1, <3>2, <3>3, EndShape
  <2> QED
    BY <1>8, <2>1, FetchedBringing, ApplyBringing, AdvanceBringing
<1>9. ASSUME NEW r \in Rows, HydrateFetched(r) \/ HydrateFailed(r)
      PROVE  Shape' /\ HistoryInv' /\ SnapshotTrue'
  <2>1. CASE HydrateFailed(r)
    <3>1. /\ UNCHANGED <<vars, durable, live, pulls, snapshot>> /\ snapshot = NoSnapshot
          /\ hydrating = "tables" /\ hydrating' \in {"no", "tables"}
      BY <2>1 DEF HydrateFailed, connection
    <3>2. Shape'
      BY <3>1, <1>0 DEF Shape, JournalIsLog, JournalInOrder, Within, Phases, Positions, durable,
         vars, serverVars
    <3>3. HistoryInv' /\ SnapshotTrue'
      BY <3>1, RestKeepsBringing DEF vars, callVars
    <3> QED
      BY <3>2, <3>3
  <2> QED
    BY <1>9, <2>1, SnapshotBringing
<1>10. CASE HydrateApply
  BY <1>10, HydrateBringing
<1>11. CASE Restart
  BY <1>11, RestartBringing
<1>12. CASE UNCHANGED catchUpVars
  BY <1>0, <1>12, ShapeStays, RestKeepsBringing
     DEF catchUpVars, vars, durable, connection, bringUp, callVars, serverVars
<1> QED
  BY <1>1, <1>2, <1>3, <1>4, <1>5, <1>6, <1>7, <1>8, <1>9, <1>10, <1>11, <1>12 DEF CatchUpNext

\* The bring-up keeps the replica safe in every behaviour.
LEMMA BringingHolds == CatchUpSpec => []Bringing
BY BringingInit, BringingStep, PTL DEF CatchUpSpec

\* The newest edit stays visible under pages, snapshots and restarts, too: no page
\* and no pruning snapshot takes away what waits to be sent, unless pessimistic
\* writes and deletes are used together.
THEOREM CatchUpKeepsNewest == NoMixedDeletes => (CatchUpSpec => []NewestEditIsVisible)
<1> SUFFICES ASSUME NoMixedDeletes PROVE CatchUpSpec => []NewestEditIsVisible
  OBVIOUS
<1>1. Bringing => NewestEditIsVisible
  BY DEF Bringing, HistoryInv, KeepsNewest
<1> QED
  BY <1>1, BringingHolds, PTL

\* Nor does it leave intent without its retry record, show what is neither committed
\* nor pending, lose a write, or get ahead of the server.
THEOREM CatchUpIsSafe ==
  CatchUpSpec => /\ []IntentIsDurable
                 /\ []VisibleIsCommittedOrPending
                 /\ []WritesAreAccounted
                 /\ []VersionsAreIssued
<1>1. Bringing => /\ IntentIsDurable
                  /\ VisibleIsCommittedOrPending
                  /\ WritesAreAccounted
                  /\ VersionsAreIssued
  BY DEF Bringing, HistoryInv, IInv, CoreInv, Core, IntentIsDurable
<1> QED
  BY <1>1, BringingHolds, PTL

-----------------------------------------------------------------------------
(* A replica whose cursor is at the end of the journal agrees with the server.  *)

\* A position that the replica has reached: all changes up to it were applied, and by
\* a pull, so that each of them settled its write.
Covered(n) == n = cursor \/ \E p \in Pullers : pulls[p].phase # "idle" /\ n = pulls[p].at

CoveredHaveLeft ==
  \A n \in Nat : Covered(n) =>
    \A i \in Positions : i <= n /\ journal[i].key # NoKey => journal[i].key \notin queue

AcksAreLogged == \A s \in Issued : acks[s] > 0 => \E e \in log : e.key = s

\* A row all changes of which the replica has reached.
UpTo(r, n) == \A i \in Positions : journal[i].row = r => i <= n
Seen(r) == \E n \in Nat : Covered(n) /\ UpTo(r, n)

\* Two ways to use the replica under which no old change can undo a newer one: what
\* comes in comes in the order of the journal; or no row is ever taken away, so that
\* its version screens what is old.
Alone == Transports = {} /\ Pullers = {"hydrate"}
Upserting == "delete" \notin Ops /\ "pessimistic" \notin Strategies /\ ~Snapshots

InOrder ==
  /\ pulls["hydrate"].phase # "idle" => cursor <= pulls["hydrate"].at
  /\ snapshot # NoSnapshot =>
       \/ snapshot.is = server[snapshot.row]
       \/ \E i \in Positions : journal[i].row = snapshot.row /\ i > cursor

Held(r) == store[r].here /\ store[r].version = server[r].version

Agrees(r) ==
  /\ Upserting /\ server[r].version > 0 => Held(r)
  /\ RowQueue(r) = {} => InSync(r)

SeenAgrees == \A r \in Rows : Seen(r) => Agrees(r)

CaughtUpInv ==
  /\ Bringing
  /\ AcksAreLogged
  /\ CoveredHaveLeft
  /\ Alone => InOrder
  /\ Upserting => OwnUpsertsShow
  /\ Alone \/ Upserting => SeenAgrees

\* The types at hand.
LEMMA CoveredType ==
  ASSUME Bringing
  PROVE  /\ CoreInv /\ History /\ ServerHistory
         /\ cursor \in Nat /\ cursor <= Len(journal)
         /\ Len(journal) \in Nat /\ Positions = 1 .. Len(journal)
         /\ pulls \in [Pullers -> Pull]
         /\ \A p \in Pullers : pulls[p] \in Pull /\ pulls[p].at \in Nat /\ pulls[p].at <= Len(journal)
         /\ \A n : Covered(n) => n \in Nat /\ n <= Len(journal)
         /\ \A i \in Positions : journal[i] \in log /\ journal[i].row \in Rows
<1>1. /\ CoreInv /\ History /\ ServerHistory
      /\ cursor \in Nat /\ cursor <= Len(journal)
      /\ Len(journal) \in Nat /\ Positions = 1 .. Len(journal)
      /\ pulls \in [Pullers -> Pull]
      /\ \A p \in Pullers : pulls[p] \in Pull /\ pulls[p].at \in Nat /\ pulls[p].upto \in Nat
  BY JournalType DEF Bringing, HistoryInv, IInv, History, CursorInv, PullsTyped, Shape, Within
<1>2. \A p \in Pullers : pulls[p].at <= Len(journal)
  BY <1>1 DEF Bringing, Shape, Within
<1>3. \A i \in Positions : journal[i] \in log /\ journal[i].row \in Rows
  BY <1>1 DEF Bringing, Shape, JournalIsLog, CoreInv, TypeOK, Event
<1> QED
  BY <1>1, <1>2, <1>3 DEF Covered

\* Only the application of a change covers a new position.
LEMMA CoveredStep ==
  ASSUME Bringing, [CatchUpNext]_catchUpVars, NEW n, Covered(n)'
  PROVE  Covered(n) \/ \E p \in Pullers : PullApply(p) /\ n = pulls[p].at + 1
<1>0. pulls \in [Pullers -> Pull]
  BY CoveredType
<1> USE DEF durable, bringUp
<1>1. ASSUME NEW p \in Pullers, pulls' = [pulls EXCEPT ![p] = FetchingFrom(cursor)], cursor' = cursor
      PROVE  Covered(n)
  BY <1>0, <1>1 DEF Covered, FetchingFrom
<1>2. ASSUME NEW p \in Pullers, NEW well, PullEnds(p, well), cursor' = cursor
      PROVE  Covered(n)
  BY <1>0, <1>2 DEF Covered, PullEnds, NotPulling
<1>3. CASE UNCHANGED <<pulls, cursor>>
  BY <1>3 DEF Covered
<1>4. CASE Connect \/ Hydrate
  BY <1>1, <1>3, <1>4, CatchUpAssumption DEF Connect, Hydrate, StartHydration
<1>5. CASE AppPull
  BY <1>1, <1>5 DEF AppPull
<1>6. ASSUME NEW p \in Pullers, PullFetched(p) PROVE Covered(n)
  BY <1>0, <1>6 DEF Covered, PullFetched
<1>7. ASSUME NEW p \in Pullers, PullApply(p) PROVE Covered(n) \/ n = pulls[p].at + 1
  BY <1>0, <1>7 DEF Covered, PullApply
<1>8. ASSUME NEW p \in Pullers, PullAdvance(p) PROVE Covered(n)
  <2>1. pulls[p].phase # "idle" /\ pulls[p].upto = pulls[p].at
    BY <1>8 DEF PullAdvance, PageDone
  <2>2. CASE PullEnds(p, FALSE) /\ UNCHANGED cursor
    BY <1>2, <2>2
  <2>3. CASE cursor' = pulls[p].upto /\ PullEnds(p, TRUE)
    BY <1>0, <2>1, <2>3 DEF Covered, PullEnds, NotPulling
  <2>4. CASE cursor' = pulls[p].upto /\ pulls' = [pulls EXCEPT ![p] = FetchingFrom(pulls[p].upto)]
    BY <1>0, <2>1, <2>4 DEF Covered, FetchingFrom
  <2> QED
    BY <1>8, <2>2, <2>3, <2>4 DEF PullAdvance
<1>9. ASSUME NEW p \in Pullers, PullFailed(p) PROVE Covered(n)
  BY <1>2, <1>9 DEF PullFailed
<1>10. CASE Restart
  BY <1>10 DEF Restart, Covered, NotPulling
<1> QED
  BY <1>3, <1>4, <1>5, <1>6, <1>7, <1>8, <1>9, <1>10
     DEF CatchUpNext, Journalled, DeliverLive, Disconnect, HydrateFetched, HydrateFailed,
         HydrateApply, catchUpVars

\* A change touches only its row, and adds nothing to the queue.
LEMMA ChangeIsLocal ==
  ASSUME CoreInv, NEW event, ApplyChange(event)
  PROVE  /\ queue' \subseteq queue /\ writes' = writes
         /\ \A r \in Rows \ {event.row} : store'[r] = store[r] /\ RowQueue(r)' = RowQueue(r)
<1>1. queue' \subseteq queue /\ writes' = writes
  BY DEF ApplyChange, AdoptEcho, ApplyServer, ResolveConflict, Retire, storeVars
<1>2. \A r \in Rows \ {event.row} : store'[r] = store[r]
  BY DEF ApplyChange, AdoptEcho, ApplyServer, ResolveConflict, storeVars, CoreInv, TypeOK, StoreTypeOK
<1>3. \/ queue' = queue
      \/ queue' = queue \ RowQueue(event.row)
      \/ \E s \in EchoedWrites(event) : queue' = queue \ {s}
  BY DEF ApplyChange, AdoptEcho, ApplyServer, ResolveConflict, Retire, storeVars
<1>4. \A r \in Rows \ {event.row} : RowQueue(r)' = RowQueue(r)
  BY <1>1, <1>3 DEF RowQueue, EchoedWrites
<1> QED
  BY <1>1, <1>2, <1>4

\* A delivered change of the journal is local, and the server stays as it is.
LEMMA DeliverIsLocal ==
  ASSUME CoreInv, NEW e \in log, NEW t, Deliver(e, t)
  PROVE  /\ queue' \subseteq queue /\ writes' = writes /\ UNCHANGED serverVars
         /\ \A r \in Rows \ {e.row} : store'[r] = store[r] /\ RowQueue(r)' = RowQueue(r)
BY DecodedType, ChangeIsLocal DEF Deliver, CoreInv

\* Only a new write joins the queue.
LEMMA QueueStep ==
  ASSUME Bringing, [CatchUpNext]_catchUpVars
  PROVE  queue' \subseteq queue \cup {NextSeq}
<1>0. CoreInv
  BY CoveredType
<1>1. CASE Application
  <2>1. \A s : Settle(s) => queue' \subseteq queue
    BY DEF Settle, SettleAck, SettlePessimistic, Retire, storeVars
  <2> QED
    BY <1>1, <2>1 DEF Application, IssueWrite, Enqueue, EnqueueOptimistic, Enqueued, CallAcked,
       CallFailed, FlushStart, FlushAcked, FlushFailed, storeVars
<1>2. ASSUME NEW e, NEW t, Deliver(e, t) PROVE queue' \subseteq queue
  BY <1>0, <1>2, ChangeIsLocal DEF Deliver
<1>3. CASE UNCHANGED storeVars
  BY <1>3 DEF storeVars
<1>4. CASE HydrateApply
  BY <1>0, <1>4, ChangeIsLocal DEF HydrateApply, Prune
<1>5. CASE Server
  BY <1>5 DEF Server, ServerCommit, ForeignCommit, storeVars
<1>6. ASSUME NEW p, PullApply(p) PROVE queue' \subseteq queue
  BY <1>2, <1>6 DEF PullApply
<1>7. ASSUME NEW t, DeliverLive(t) PROVE queue' \subseteq queue
  BY <1>2, <1>7 DEF DeliverLive
<1> QED
  BY <1>1, <1>3, <1>4, <1>5, <1>6, <1>7
     DEF CatchUpNext, Journalled, Connect, Disconnect, Hydrate, AppPull, PullFetched, PullAdvance,
         PullFailed, HydrateFetched, HydrateFailed, Restart, catchUpVars, vars

\* A step is a commit, or leaves the journal and the server alone.
LEMMA JournalStep ==
  ASSUME [CatchUpNext]_catchUpVars
  PROVE  Journalled \/ UNCHANGED <<journal, serverVars>>
BY ApplicationIsLocal
   DEF CatchUpNext, DeliverLive, Deliver, Connect, Disconnect, Hydrate, AppPull, PullFetched,
       PullApply, PullAdvance, PullFailed, HydrateFetched, HydrateFailed, HydrateApply, Restart,
       catchUpVars, vars, durable

\* A commit is logged with its key.
LEMMA CommitIsLogged ==
  ASSUME NEW r, NEW op, NEW val, NEW key, Commit(r, op, val, key)
  PROVE  \E e \in log' : e.key = key
<1> DEFINE e == [row |-> r, op |-> op, version |-> server[r].version + 1,
                 val |-> IF op = "upsert" THEN val ELSE Foreign, key |-> key]
<1>1. e \in log'
  BY DEF Commit
<1>2. e.key = key
  OBVIOUS
<1> QED
  BY <1>1, <1>2

\* What the server acknowledges it logs.
LEMMA LoggedStep ==
  ASSUME Bringing, Bringing', AcksAreLogged, [CatchUpNext]_catchUpVars
  PROVE  AcksAreLogged'
<1>0. /\ CoreInv /\ \A s \in Issued' : s \in Seqs
      /\ \A s \in Issued : s \in Seqs
  <2>1. TypeOK /\ TypeOK'
    BY DEF Bringing, HistoryInv, IInv, CoreInv
  <2> QED
    BY <2>1, CoveredType, MaxWritesAssumption DEF TypeOK, StoreTypeOK, Issued, Seqs
<1>1. CASE UNCHANGED serverVars
  BY <1>0, <1>1 DEF AcksAreLogged, serverVars, CoreInv, Core, AcksAreCommits
<1>2. CASE Server
  <2>1. Issued' = Issued /\ log \subseteq log'
    BY <1>2 DEF Server, ServerCommit, ForeignCommit, Commit, storeVars, Issued
  <2>2. CASE \E s \in Issued : ServerCommit(s)
    <3>1. PICK s \in Issued : ServerCommit(s)
      BY <2>2
    <3>2. \E e \in log' : e.key = s
      <4>1. Commit(writes[s].row, writes[s].op, s, s)
        BY <3>1 DEF ServerCommit
      <4> QED
        BY <4>1, CommitIsLogged
    <3>3. \A t \in Issued \ {s} : acks'[t] = acks[t]
      BY <1>0, <3>1 DEF ServerCommit, CoreInv, TypeOK
    <3> QED
      BY <2>1, <3>2, <3>3 DEF AcksAreLogged
  <2>3. CASE UNCHANGED acks
    BY <2>1, <2>3 DEF AcksAreLogged
  <2> QED
    BY <1>2, <2>2, <2>3 DEF Server, ForeignCommit
<1> QED
  BY <1>1, <1>2, JournalStep DEF Journalled

\* The delivery of a change with its key settles its write.
LEMMA DeliveredHasLeft ==
  ASSUME CoreInv, History, NEW e \in log, e.key # NoKey, Deliver(e, "backend")
  PROVE  e.key \notin queue'
<1>1. Decoded(e, "backend") = e
  BY DEF Decoded
<1>2. ApplyChange(e)
  BY <1>1 DEF Deliver
<1>3. CASE e.key \in queue
  <2>1. e.key \in EchoedWrites(e)
    BY <1>3 DEF EchoedWrites, RowQueue, IsEchoOf, CoreInv, Core, LogIsTrue, History, ServerHistory,
       LogFitsWrites
  <2>2. PICK s \in EchoedWrites(e) : AdoptEcho(e, s)
    BY <1>2, <2>1 DEF ApplyChange
  <2>3. s = e.key
    BY <2>2 DEF EchoedWrites, IsEchoOf
  <2> QED
    BY <2>2, <2>3 DEF AdoptEcho, Retire
<1>4. CASE e.key \notin queue
  BY <1>2, <1>4, ChangeIsLocal
<1> QED
  BY <1>3, <1>4

\* So the writes of the changes that a pull has reached have left the queue.
LEMMA LeftStep ==
  ASSUME Bringing, CoveredHaveLeft, [CatchUpNext]_catchUpVars
  PROVE  CoveredHaveLeft'
<1>0. /\ CoreInv /\ History
      /\ Len(journal) \in Nat /\ Positions = 1 .. Len(journal)
      /\ \A i \in Positions : journal[i] \in log
      /\ \A m : Covered(m) => m \in Nat /\ m <= Len(journal)
      /\ \A p \in Pullers : pulls[p].at \in Nat
  BY CoveredType
<1>1. /\ \A i \in Positions : journal'[i] = journal[i]
      /\ Positions' \subseteq Positions \cup {Len(journal) + 1}
  <2>1. CASE Journalled
    <3>1. /\ Len(journal') = Len(journal) + 1
          /\ \A i \in Positions : journal'[i] = journal[i]
      BY <1>0, <2>1, JournalledShape DEF Bringing
    <3>2. PICK e \in log' : journal' = Append(journal, e)
      BY <2>1 DEF Journalled
    <3>3. DOMAIN journal' = 1 .. Len(journal) + 1
      BY <1>0, <3>1, <3>2 DEF Positions
    <3> QED
      BY <1>0, <3>1, <3>3 DEF Positions
  <2>2. CASE UNCHANGED journal
    BY <2>2 DEF Positions
  <2> QED
    BY <2>1, <2>2, JournalStep
<1>2. \A i \in Positions : journal[i].key # NoKey => journal[i].key \in Issued
  BY <1>0 DEF CoreInv, Core, LogIsTrue
<1>3. NextSeq \notin Issued
  BY <1>0 DEF NextSeq, Issued, CoreInv, TypeOK, StoreTypeOK
<1>4. queue' \subseteq queue \cup {NextSeq}
  BY QueueStep
<1> SUFFICES ASSUME NEW n \in Nat, Covered(n)', NEW i \in Positions', i <= n,
                    journal'[i].key # NoKey
             PROVE  journal'[i].key \notin queue'
  BY DEF CoveredHaveLeft
<1>5. CASE Covered(n)
  <2>1. i \in Positions
    BY <1>0, <1>1, <1>5
  <2> QED
    BY <1>1, <1>2, <1>3, <1>4, <1>5, <2>1 DEF CoveredHaveLeft
<1>6. ASSUME NEW p \in Pullers, PullApply(p), n = pulls[p].at + 1
      PROVE  journal'[i].key \notin queue'
  <2>1. n \in Positions
    BY <1>6, NextPosition
  <2>2. i \in Positions
    BY <1>0, <1>1, <2>1
  <2>3. CASE i = n
    <3>1. Deliver(journal[i], "backend") /\ journal[i].key # NoKey
      BY <1>1, <1>6, <2>2, <2>3 DEF PullApply
    <3> QED
      BY <1>0, <1>1, <2>2, <3>1, DeliveredHasLeft
  <2>4. CASE i <= pulls[p].at
    <3>1. Covered(pulls[p].at)
      BY <1>6 DEF Covered, PullApply
    <3> QED
      BY <1>0, <1>1, <1>2, <1>3, <1>4, <2>2, <2>4, <3>1 DEF CoveredHaveLeft
  <2> QED
    BY <1>0, <1>6, <2>2, <2>3, <2>4
<1> QED
  BY <1>5, <1>6, CoveredStep

\* Alone, a replica applies the journal in order, from the cursor on, and what it
\* fetches is what the server has or is followed by changes past the cursor.
LEMMA OrderStep ==
  ASSUME Bringing, Alone, InOrder, [CatchUpNext]_catchUpVars
  PROVE  InOrder'
<1>0. /\ CoreInv /\ cursor \in Nat /\ cursor <= Len(journal)
      /\ Len(journal) \in Nat /\ Positions = 1 .. Len(journal)
      /\ pulls \in [Pullers -> Pull] /\ "hydrate" \in Pullers
      /\ pulls["hydrate"].at \in Nat
  BY CoveredType, CatchUpAssumption
<1> USE DEF durable, bringUp, connection
<1>1. ASSUME UNCHANGED <<journal, server, cursor>>,
             snapshot' \in {snapshot, NoSnapshot},
             \/ pulls'["hydrate"] = pulls["hydrate"]
             \/ pulls'["hydrate"].phase = "idle"
             \/ pulls'["hydrate"].at = cursor
             \/ /\ pulls["hydrate"].phase # "idle"
                /\ pulls'["hydrate"].at \in {pulls["hydrate"].at, pulls["hydrate"].at + 1}
      PROVE  InOrder'
  <2>1. pulls'["hydrate"].phase # "idle" => cursor <= pulls'["hydrate"].at
    BY <1>0, <1>1 DEF InOrder
  <2> QED
    BY <1>1, <2>1 DEF InOrder, NoSnapshot, Positions
<1>2. CASE Application /\ UNCHANGED <<durable, connection, bringUp, given>>
  BY <1>1, <1>2, ApplicationIsLocal DEF serverVars
<1>3. CASE Journalled
  <2> DEFINE n == Len(journal) + 1
             e == journal'[n]
  <2>1. /\ Len(journal') = n
        /\ \A i \in Positions : journal'[i] = journal[i]
        /\ \A r \in Rows \ {e.row} : server'[r] = server[r]
    BY <1>0, <1>3, JournalledShape DEF Bringing
  <2>2. Positions' = Positions \cup {n}
    <3>1. PICK f \in log' : journal' = Append(journal, f)
      BY <1>3 DEF Journalled
    <3>2. DOMAIN journal' = 1 .. n
      BY <1>0, <2>1, <3>1 DEF Positions
    <3> QED
      BY <1>0, <3>2 DEF Positions
  <2>3. UNCHANGED <<cursor, pulls, snapshot>>
    BY <1>3 DEF Journalled
  <2> HIDE DEF n
  <2>4. ASSUME snapshot # NoSnapshot
        PROVE  \/ snapshot.is = server'[snapshot.row]
               \/ \E i \in Positions' : journal'[i].row = snapshot.row /\ i > cursor
    <3>1. snapshot.row \in Rows
      BY <2>4 DEF Bringing, SnapshotTrue
    <3>2. CASE snapshot.row = journal'[n].row
      <4>1. n \in Positions' /\ n > cursor
        BY <1>0, <2>2 DEF n
      <4> QED
        BY <3>2, <4>1
    <3>3. CASE snapshot.row # journal'[n].row
      BY <2>1, <2>2, <2>4, <3>1, <3>3 DEF InOrder
    <3> QED
      BY <3>2, <3>3
  <2> QED
    BY <2>3, <2>4 DEF InOrder, NoSnapshot
<1>4. CASE Hydrate
  <2>1. pulls'["hydrate"].at = cursor \/ pulls' = pulls
    BY <1>0, <1>4 DEF Hydrate, StartHydration, FetchingFrom
  <2> QED
    BY <1>1, <1>4, <2>1 DEF Hydrate, StartHydration, vars, serverVars
<1>5. ASSUME NEW p \in Pullers, PullFetched(p) \/ PullApply(p) \/ PullAdvance(p) \/ PullFailed(p)
      PROVE  InOrder'
  <2>1. p = "hydrate"
    BY DEF Alone
  <2>2. CASE PullFetched(p)
    BY <1>0, <1>1, <2>1, <2>2 DEF PullFetched, vars, serverVars
  <2>3. CASE PullApply(p)
    BY <1>0, <1>1, <2>1, <2>3 DEF PullApply, Deliver, serverVars
  <2>4. CASE PullFailed(p)
    BY <1>0, <1>1, <2>1, <2>4 DEF PullFailed, PullEnds, NotPulling, vars, serverVars
  <2>5. CASE PullAdvance(p)
    <3>1. snapshot = NoSnapshot /\ snapshot' = snapshot
      BY <2>1, <2>5 DEF PullAdvance, PageDone, PullEnds, Bringing, Shape, Phases
    <3>2. CASE PullEnds(p, FALSE) \/ PullEnds(p, TRUE)
      BY <1>0, <2>1, <3>1, <3>2 DEF PullEnds, NotPulling, InOrder, NoSnapshot
    <3>3. CASE cursor' = pulls[p].upto /\ pulls' = [pulls EXCEPT ![p] = FetchingFrom(pulls[p].upto)]
      <4>1. pulls[p].upto \in Nat
        BY <1>0 DEF Pull
      <4>2. pulls'["hydrate"].at = cursor' /\ cursor' \in Nat
        BY <1>0, <2>1, <3>3, <4>1 DEF FetchingFrom
      <4> QED
        BY <3>1, <4>2 DEF InOrder, NoSnapshot
    <3> QED
      BY <2>5, <3>2, <3>3 DEF PullAdvance
  <2> QED
    BY <1>5, <2>2, <2>3, <2>4, <2>5
<1>6. ASSUME NEW r \in Rows, HydrateFetched(r) PROVE InOrder'
  BY <1>6 DEF HydrateFetched, InOrder, NoSnapshot, Positions, vars, serverVars
<1>7. ASSUME NEW r \in Rows, HydrateFailed(r) PROVE InOrder'
  BY <1>1, <1>7 DEF HydrateFailed, vars, serverVars
<1>8. CASE HydrateApply
  BY <1>1, <1>8 DEF HydrateApply, serverVars
<1>9. CASE Restart
  <2>1. pulls'["hydrate"].phase = "idle"
    BY <1>0, <1>9 DEF Restart, NotPulling
  <2> QED
    BY <1>1, <1>9, <2>1 DEF Restart, serverVars
<1>10. CASE UNCHANGED catchUpVars
  BY <1>1, <1>10 DEF catchUpVars, vars, serverVars
<1>11. CASE Disconnect
  BY <1>1, <1>11 DEF Disconnect, vars, serverVars
<1>12. ~Connect /\ ~AppPull /\ ~\E t \in Transports : DeliverLive(t)
  BY DEF Alone, Connect, AppPull
<1> QED
  BY <1>2, <1>3, <1>4, <1>5, <1>6, <1>7, <1>8, <1>9, <1>10, <1>11, <1>12 DEF CatchUpNext

\* Without deletes, pessimistic writes and snapshots an own write keeps its row there,
\* at the version it settled at or later.
LEMMA OwnUpsertsStep ==
  ASSUME Bringing, Bringing', Upserting, OwnUpsertsShow, [CatchUpNext]_catchUpVars
  PROVE  OwnUpsertsShow'
<1>0. /\ CoreInv /\ History /\ TypeOK' /\ HistoryInv
      /\ \A p \in Pullers : \A i \in Positions : journal[i] \in log
  BY CoveredType DEF Bringing, HistoryInv, IInv, CoreInv
<1>1. ASSUME NEW e \in log, NEW t, Deliver(e, t) PROVE OwnUpsertsShow'
  <2> DEFINE event == Decoded(e, t)
  <2>1. ApplyChange(event) /\ UNCHANGED serverVars /\ TrueEvent(event)
    BY <1>0, <1>1, DecodedTrue DEF Deliver
  <2>2. OnlyUpserts(event.row) => event.op = "upsert"
    BY <1>0, DecodedType DEF OnlyUpserts, CoreInv
  <2> HIDE DEF event
  <2> QED
    BY <1>0, <2>1, <2>2, ApplyChangeUpserts
<1>2. CASE Client \/ Server
  BY <1>0, <1>2, UpsertsStep DEF Upserting, UpsertsInv, Next
<1>3. CASE UNCHANGED <<storeVars, serverVars, discarded>>
  BY <1>3 DEF OwnUpsertsShow, OnlyUpserts, Settled, Issued, storeVars, serverVars
<1>4. ASSUME NEW t, DeliverLive(t) PROVE OwnUpsertsShow'
  BY <1>1, <1>4, CoveredType DEF DeliverLive, Bringing, Shape, Within
<1>5. ASSUME NEW p \in Pullers, PullApply(p) PROVE OwnUpsertsShow'
  BY <1>1, <1>5, NextPosition, CoveredType DEF PullApply
<1>6. ~HydrateApply
  BY DEF HydrateApply, Upserting, Bringing, Shape, Phases
<1> QED
  BY <1>2, <1>3, <1>4, <1>5, <1>6
     DEF CatchUpNext, Client, Journalled, Connect, Disconnect, Hydrate, AppPull, PullFetched,
         PullAdvance, PullFailed, HydrateFetched, HydrateFailed, Restart, catchUpVars, vars

-----------------------------------------------------------------------------
(* What keeps a row that the replica has seen up to its end in agreement.      *)

\* A step that touches neither the row, nor its queue, nor the server's row.
LEMMA AgreesStays ==
  ASSUME NEW r, Agrees(r), store'[r] = store[r], RowQueue(r)' = RowQueue(r),
         server'[r] = server[r]
  PROVE  Agrees(r)'
BY DEF Agrees, Held, InSync

\* The committed writes of a row that was seen up to its end have left the queue.
LEMMA SeenHaveLeft ==
  ASSUME Bringing, AcksAreLogged, CoveredHaveLeft, NEW r \in Rows, Seen(r)
  PROVE  /\ \A s \in RowQueue(r) : acks[s] = 0
         /\ \A e \in log : e.row = r /\ e.key # NoKey => e.key \notin queue
<1>0. /\ CoreInv /\ log = {journal[i] : i \in Positions}
      /\ \A s \in queue : s \in Issued /\ s \in Seqs /\ s \in Nat \ {0}
  BY CoveredType, QueueIssued, IssuedType DEF Bringing, Shape, JournalIsLog, CoreInv, TypeOK
<1>1. \A e \in log : e.row = r /\ e.key # NoKey => e.key \notin queue
  BY <1>0 DEF Seen, UpTo, CoveredHaveLeft
<1>2. ASSUME NEW s \in RowQueue(r) PROVE acks[s] = 0
  <2>1. s \in queue /\ writes[s].row = r /\ acks[s] \in Nat
    BY <1>0 DEF RowQueue, CoreInv, TypeOK
  <2>2. ASSUME acks[s] > 0 PROVE FALSE
    <3>1. PICK e \in log : e.key = s
      BY <1>0, <2>1, <2>2 DEF AcksAreLogged
    <3>2. e.key # NoKey /\ e.row = r
      BY <1>0, <2>1, <3>1 DEF NoKey, CoreInv, Core, LogIsTrue
    <3> QED
      BY <1>1, <2>1, <3>1, <3>2
  <2> QED
    BY <2>1, <2>2
<1> QED
  BY <1>1, <1>2

\* An edit of the row only queues a write; no settlement comes in any more.
LEMMA ApplicationAgrees ==
  ASSUME Bringing, AcksAreLogged, CoveredHaveLeft, Application,
         NEW r \in Rows, Seen(r), Agrees(r)
  PROVE  Agrees(r)'
<1>0. CoreInv /\ UNCHANGED serverVars
  BY CoveredType, ApplicationIsLocal
<1>1. ASSUME NEW r0 \in Rows, NEW op \in Ops, NEW strategy \in Strategies,
             IssueWrite(r0, op, strategy)
      PROVE  Agrees(r)'
  <2> DEFINE write == [row |-> r0, op |-> op, base |-> store[r0].version, strategy |-> strategy]
  <2>1. /\ write \in Write /\ Mints(write)
        /\ write.row = r0 /\ write.op = op /\ write.strategy = strategy
        /\ write.base = store[r0].version
    BY <1>0, <1>1, IssueWriteMints DEF CoreInv, TypeOK
  <2> HIDE DEF write
  <2>2. /\ writes' = Append(writes, write) /\ Len(writes) < MaxWrites
        /\ queue' = queue \cup {NextSeq}
        /\ store' = IF strategy = "pessimistic" THEN store
                    ELSE [store EXCEPT ![r0] = OptimisticRow(write)]
    BY <2>1 DEF Mints, Enqueue, EnqueueOptimistic, Enqueued
  <2>3. /\ writes'[NextSeq] = write /\ \A s \in Issued : writes'[s] = writes[s]
        /\ queue \subseteq Issued
    BY <1>0, <2>1, <2>2, Minting, QueueIssued DEF CoreInv, TypeOK
  <2>4. CASE r = r0
    <3>1. NextSeq \in RowQueue(r)'
      BY <2>1, <2>2, <2>3, <2>4 DEF RowQueue
    <3>2. ASSUME Upserting, server'[r].version > 0 PROVE Held(r)'
      <4>1. Held(r)
        BY <1>0, <3>2 DEF Agrees, serverVars
      <4>2. store'[r] = Row(store[r].version, TRUE, NextSeq)
        BY <1>0, <2>1, <2>2, <2>4, <3>2, ReplicaAssumption
           DEF Upserting, OptimisticRow, CoreInv, TypeOK, StoreTypeOK, Op
      <4> QED
        BY <1>0, <4>1, <4>2 DEF Held, Row, serverVars
    <3> QED
      BY <3>1, <3>2 DEF Agrees
  <2>5. CASE r # r0
    <3>1. RowQueue(r)' = RowQueue(r)
      BY <2>1, <2>2, <2>3, <2>5 DEF RowQueue
    <3>2. store'[r] = store[r]
      BY <1>0, <2>2, <2>5 DEF CoreInv, TypeOK, StoreTypeOK
    <3> QED
      BY <1>0, <3>1, <3>2, AgreesStays DEF serverVars
  <2> QED
    BY <2>4, <2>5
<1>2. ASSUME NEW s, acks[s] > 0, Settle(s) PROVE Agrees(r)'
  <2>1. CASE s \in queue
    <3>1. writes[s].row # r
      BY <1>2, <2>1, SeenHaveLeft DEF RowQueue
    <3>2. /\ queue' = queue \ {s} /\ writes' = writes
          /\ \A q \in Rows \ {writes[s].row} : store'[q] = store[q]
      BY <1>0, <1>2, <2>1 DEF Settle, SettleAck, SettlePessimistic, Retire, CoreInv, TypeOK, StoreTypeOK
    <3>3. store'[r] = store[r] /\ RowQueue(r)' = RowQueue(r)
      BY <3>1, <3>2 DEF RowQueue
    <3> QED
      BY <1>0, <3>3, AgreesStays DEF serverVars
  <2>2. CASE s \notin queue
    BY <1>0, <1>2, <2>2, AgreesStays DEF Settle, storeVars, serverVars, RowQueue
  <2> QED
    BY <2>1, <2>2
<1>3. CASE UNCHANGED storeVars
  BY <1>0, <1>3, AgreesStays DEF storeVars, serverVars, RowQueue
<1> QED
  BY <1>1, <1>2, <1>3
     DEF Application, CallAcked, CallFailed, FlushStart, FlushAcked, FlushFailed

\* A change of the row that comes in again finds its version held, and is ignored or
\* puts what the server has.
LEMMA SeenDelivery ==
  ASSUME Bringing, AcksAreLogged, CoveredHaveLeft, Upserting,
         NEW e \in log, NEW t, Deliver(e, t), Seen(e.row), Agrees(e.row)
  PROVE  Agrees(e.row)'
<1> DEFINE event == Decoded(e, t)
<1>r. PICK r \in Rows : r = e.row
  BY CoveredType DEF CoreInv, TypeOK, Event
<1>0. /\ CoreInv /\ History /\ ServerHistory /\ r = e.row /\ Seen(r) /\ Agrees(r)
      /\ e \in Event /\ e.version \in Nat \ {0} /\ e.op = "upsert"
      /\ server[r].version \in Nat /\ e.version <= server[r].version
  BY <1>r, CoveredType, ReplicaAssumption
     DEF CoreInv, TypeOK, Event, Core, LogIsTrue, History, ServerHistory, LogFitsWrites, Upserting, Op
<1>1. /\ ApplyChange(event) /\ UNCHANGED serverVars
      /\ event.row = r /\ event.op = "upsert" /\ event.val = e.val /\ event.version = e.version
      /\ event.key \in {e.key, NoKey}
  BY <1>0 DEF Deliver, Decoded, Event
<1> HIDE DEF event
<1>2. EchoedWrites(event) = {}
  <2> SUFFICES ASSUME NEW s \in EchoedWrites(event) PROVE FALSE
    OBVIOUS
  <2>1. s \in queue /\ event.key = s
    BY DEF EchoedWrites, RowQueue, IsEchoOf
  <2>2. s # NoKey
    BY <1>0, <2>1, QueueIssued, IssuedType DEF CoreInv, TypeOK, NoKey
  <2> QED
    BY <1>0, <1>1, <2>1, <2>2, SeenHaveLeft
<1>3. Held(r) /\ store[r].version = server[r].version /\ store[r].here
  BY <1>0 DEF Agrees, Held
<1> DEFINE local == ReconcileLocal(r)
<1>4. local.here = TRUE /\ local.version = server[r].version
  <2>1. CoreInv /\ store[r] \in Record
    BY <1>0 DEF CoreInv, TypeOK, StoreTypeOK
  <2> QED
    BY <1>3, <2>1 DEF ReconcileLocal, Record
<1> HIDE DEF local
<1>5. /\ Reconcile(local, event) \in {"stale", "already applied"}
      /\ e.version < server[r].version => Reconcile(local, event) = "stale"
  BY <1>0, <1>1, <1>4 DEF Reconcile
<1>6. /\ ReconcileLocal(event.row) = local
      /\ ~Conflicts(event)
      /\ Applies(event) => e.version = server[r].version /\ RowQueue(r) = {}
  <2>1. ReconcileLocal(event.row) = local
    BY <1>1 DEF local
  <2>2. Conflicts(event) <=> Reconcile(local, event) = "conflict"
    BY <2>1 DEF Conflicts
  <2>3. Applies(event) => /\ Reconcile(local, event) \in {"apply", "already applied"}
                          /\ Reconcile(local, event) = "already applied" => RowQueue(r) = {}
    BY <1>1, <2>1 DEF Applies, Refreshes
  <2>4. ~Conflicts(event)
    BY <1>5, <2>2
  <2>5. ASSUME Applies(event) PROVE e.version = server[r].version /\ RowQueue(r) = {}
    <3>1. Reconcile(local, event) = "already applied" /\ RowQueue(r) = {}
      BY <1>5, <2>3, <2>5
    <3>2. ~(e.version < server[r].version)
      BY <1>5, <3>1
    <3>3. /\ e.version \in Nat /\ server[r].version \in Nat
          /\ e.version <= server[r].version
      BY <1>0
    <3>4. \A x, y \in Nat : x <= y /\ ~(x < y) => x = y
      OBVIOUS
    <3> QED
      BY <3>1, <3>2, <3>3, <3>4
  <2> QED
    BY <2>1, <2>4, <2>5
<1>7. CASE UNCHANGED storeVars
  BY <1>0, <1>1, <1>7, AgreesStays DEF storeVars, serverVars, RowQueue
<1>8. CASE Applies(event) /\ ApplyServer(event)
  <2>1. e.version = server[r].version
    BY <1>6, <1>8
  <2>2. server[r].here = TRUE /\ server[r].val = e.val
    BY <1>0, <2>1 DEF ServerHistory, LatestIsServer
  <2>3. store'[r] = Row(server[r].version, FALSE, server[r].val) /\ server' = server
    BY <1>0, <1>1, <1>8, <2>1, <2>2
       DEF ApplyServer, Adopted, CoreInv, TypeOK, StoreTypeOK, serverVars
  <2>4. Held(r)'
    BY <2>3 DEF Held, Row
  <2>5. ASSUME RowQueue(r)' = {} PROVE InSync(r)'
    <3>1. store'[r].here = TRUE /\ server'[r].here = TRUE
      BY <2>2, <2>3 DEF Row
    <3>2. store'[r] = Row(server'[r].version, FALSE, server'[r].val)
      BY <2>3
    <3> QED
      BY <2>5, <3>1, <3>2 DEF InSync
  <2> QED
    BY <1>0, <2>4, <2>5 DEF Agrees
<1> QED
  BY <1>1, <1>2, <1>6, <1>7, <1>8 DEF ApplyChange

\* The latest change of a row is the last of its positions.
LEMMA LastIsLatest ==
  ASSUME Bringing, NEW i \in Positions, UpTo(journal[i].row, i)
  PROVE  Latest(journal[i])
<1>1. /\ log = {journal[j] : j \in Positions}
      /\ Positions = 1 .. Len(journal) /\ Len(journal) \in Nat
      /\ \A j \in Positions : journal[j].version \in Nat
  BY CoveredType DEF Bringing, Shape, JournalIsLog, CoreInv, TypeOK, Event
<1>2. ASSUME NEW j \in Positions, journal[j].row = journal[i].row
      PROVE  journal[j].version <= journal[i].version
  <2>1. j <= i
    BY <1>2 DEF UpTo
  <2>2. CASE j = i
    BY <1>1, <2>2
  <2>3. CASE j < i
    BY <1>1, <1>2, <2>3 DEF Bringing, Shape, JournalInOrder
  <2> QED
    BY <1>1, <2>1, <2>2, <2>3
<1> QED
  BY <1>1, <1>2 DEF Latest

\* Among upserts the latest change leaves the row at its version, whatever is queued.
LEMMA LatestIsTaken ==
  ASSUME CoreInv, History, OwnUpsertsShow, Upserting,
         NEW e \in log, Latest(e), Deliver(e, "backend")
  PROVE  Held(e.row)'
<1> DEFINE r == e.row
<1>0. /\ r \in Rows /\ e.version \in Nat \ {0} /\ e.op = "upsert" /\ ServerHistory
      /\ server[r].version = e.version /\ TrueEvent(e)
      /\ store[r].version \in Nat /\ store[r].version <= e.version
  <2>1. /\ r \in Rows /\ e.version \in Nat \ {0} /\ e.op \in Op /\ server[r].version = e.version
    BY LatestIsHeld DEF History
  <2>2. e.op = "upsert"
    BY <2>1, ReplicaAssumption DEF History, ServerHistory, LogFitsWrites, Upserting, Op
  <2>3. store[r].version \in Nat /\ store[r].version <= server[r].version
    BY <2>1 DEF CoreInv, TypeOK, StoreTypeOK, Record, Core, VersionsAreIssued
  <2> QED
    BY <2>1, <2>2, <2>3, LoggedTrue DEF History
<1>1. ApplyChange(e) /\ UNCHANGED serverVars
  <2>1. Decoded(e, "backend") = e
    BY DEF Decoded
  <2> QED
    BY <2>1 DEF Deliver
<1>2. OnlyUpserts(r)
  BY ReplicaAssumption
     DEF OnlyUpserts, History, ServerHistory, WritesFit, LogFitsWrites, Upserting, Op
<1>3. ASSUME NEW s \in RowQueue(r) PROVE store[r].here
  BY <1>0, <1>2, <1>3, QueueIssued DEF RowQueue, OwnUpsertsShow, CoreInv, TypeOK
<1>4. ASSUME NEW new, store' = [store EXCEPT ![r] = new], new.here, new.version = e.version
      PROVE  Held(r)'
  <2>1. store'[r] = new /\ server' = server
    BY <1>0, <1>1, <1>4 DEF CoreInv, TypeOK, StoreTypeOK, serverVars
  <2> QED
    BY <1>0, <1>4, <2>1 DEF Held
<1>5. Adopted(e, FALSE).here /\ Adopted(e, FALSE).version = e.version
  BY <1>0 DEF Adopted, Row
<1>6. CASE \E s \in EchoedWrites(e) : AdoptEcho(e, s)
  <2>1. PICK s \in EchoedWrites(e) : AdoptEcho(e, s)
    BY <1>6
  <2>2. store[r].here /\ ~EchoWasSuperseded(e, s)
    BY <1>3, LatestEchoIsCurrent DEF EchoedWrites
  <2>3. EchoedRow(e, s).here /\ EchoedRow(e, s).version = e.version
    BY <1>0, <2>2 DEF EchoedRow, Adopted, Row, Later
  <2> QED
    BY <1>4, <2>1, <2>3 DEF AdoptEcho
<1>7. CASE ApplyServer(e)
  BY <1>4, <1>5, <1>7 DEF ApplyServer
<1>8. CASE ResolveConflict(e, RowQueue(r))
  BY <1>4, <1>5, <1>8 DEF ResolveConflict, ConflictRow
<1>9. CASE ~Applies(e) /\ ~Conflicts(e) /\ UNCHANGED storeVars
  <2>1. store[r].here
    <3> SUFFICES ASSUME RowQueue(r) = {}, ~store[r].here PROVE FALSE
      BY <1>3
    <3>1. Reconcile(ReconcileLocal(r), e) = "apply"
      BY <1>0 DEF ReconcileLocal, Reconcile
    <3> QED
      BY <1>9, <3>1 DEF Applies
  <2>2. ReconcileLocal(r).here /\ ReconcileLocal(r).version = store[r].version
    BY <2>1 DEF ReconcileLocal
  <2>3. store[r].version = e.version
    BY <1>0, <1>9, <2>2 DEF Applies, Conflicts, Reconcile
  <2> QED
    BY <1>0, <1>1, <1>9, <2>1, <2>3 DEF Held, storeVars, serverVars
<1> QED
  BY <1>1, <1>6, <1>7, <1>8, <1>9 DEF ApplyChange


\* Only the application of its last change makes a row seen.
LEMMA SeenStep ==
  ASSUME Bringing, [CatchUpNext]_catchUpVars, journal' = journal, NEW r \in Rows, Seen(r)'
  PROVE  \/ Seen(r)
         \/ \E p \in Pullers : /\ PullApply(p)
                               /\ journal[pulls[p].at + 1].row = r
                               /\ UpTo(r, pulls[p].at + 1)
<1>1. PICK n \in Nat : Covered(n)' /\ UpTo(r, n)
  BY DEF Seen, UpTo, Positions
<1>2. CASE Covered(n)
  BY <1>1, <1>2 DEF Seen
<1>3. ASSUME NEW p \in Pullers, PullApply(p), n = pulls[p].at + 1, journal[n].row # r
      PROVE  Seen(r)
  <2>1. /\ pulls[p].at \in Nat /\ Positions = 1 .. Len(journal) /\ Len(journal) \in Nat
        /\ Covered(pulls[p].at)
    BY <1>3, CoveredType DEF Covered, PullApply
  <2>2. UpTo(r, pulls[p].at)
    BY <1>1, <1>3, <2>1 DEF UpTo
  <2> QED
    BY <2>1, <2>2 DEF Seen
<1> QED
  BY <1>1, <1>2, <1>3, CoveredStep

\* A commit leaves only rows seen whose server row it does not touch.
LEMMA SeenCommit ==
  ASSUME Bringing, Journalled, NEW r \in Rows, Seen(r)'
  PROVE  Seen(r) /\ server'[r] = server[r]
<1>0. /\ CoreInv /\ Len(journal) \in Nat /\ Positions = 1 .. Len(journal)
      /\ \A n : Covered(n) => n <= Len(journal)
  BY CoveredType
<1> DEFINE last == Len(journal) + 1
<1>1. /\ Len(journal') = last
      /\ \A i \in Positions : journal'[i] = journal[i]
      /\ \A q \in Rows \ {journal'[last].row} : server'[q] = server[q]
  BY <1>0, JournalledShape DEF Bringing
<1>2. Positions' = Positions \cup {last}
  <2>1. PICK e \in log' : journal' = Append(journal, e)
    BY DEF Journalled
  <2>2. DOMAIN journal' = 1 .. last
    BY <1>0, <1>1, <2>1
  <2> QED
    BY <1>0, <2>2 DEF Positions
<1>3. PICK n \in Nat : Covered(n)' /\ UpTo(r, n)'
  BY DEF Seen
<1>4. Covered(n) /\ n <= Len(journal)
  BY <1>0, <1>3 DEF Covered, Journalled, bringUp
<1>5. UpTo(r, n)
  BY <1>1, <1>2, <1>3 DEF UpTo
<1>6. journal'[last].row # r
  <2>1. last \in Positions' /\ ~(last <= n)
    BY <1>0, <1>2, <1>4
  <2> HIDE DEF last
  <2> QED
    BY <1>3, <2>1 DEF UpTo
<1> QED
  BY <1>1, <1>4, <1>5, <1>6 DEF Seen

\* A page brings a row to its end with its last change, or again past its end.
LEMMA PullAgrees ==
  ASSUME Bringing, AcksAreLogged, CoveredHaveLeft, Alone \/ Upserting, Alone => InOrder,
         Upserting => OwnUpsertsShow,
         NEW p \in Pullers, PullApply(p), NEW r \in Rows, Seen(r) => Agrees(r),
         \/ Seen(r)
         \/ journal[pulls[p].at + 1].row = r /\ UpTo(r, pulls[p].at + 1)
  PROVE  Agrees(r)'
<1> DEFINE position == pulls[p].at + 1
           e == journal[position]
<1>0. /\ CoreInv /\ History /\ position \in Positions /\ e \in log
      /\ pulls[p].at \in Nat /\ cursor \in Nat
      /\ Deliver(e, "backend")
  BY NextPosition, CoveredType DEF PullApply
<1>1. /\ UNCHANGED serverVars
      /\ \A q \in Rows \ {e.row} : store'[q] = store[q] /\ RowQueue(q)' = RowQueue(q)
  BY <1>0, DeliverIsLocal
<1>2. CASE e.row # r
  <2>1. Agrees(r)
    BY <1>2
  <2> QED
    BY <1>1, <1>2, <2>1, AgreesStays DEF serverVars
<1>3. CASE e.row = r /\ UpTo(r, position)
  <2>1. Latest(e)
    BY <1>0, <1>3, LastIsLatest
  <2>2. "supabase" \notin Transports \/ "delete" \notin Ops
    BY DEF Alone, Upserting
  <2> HIDE DEF e
  <2>3. RowQueue(r)' = {} => InSync(r)'
    BY <1>0, <1>3, <2>1, <2>2, LatestDelivery
  <2>4. Upserting => Held(r)'
    BY <1>0, <1>3, <2>1, LatestIsTaken
  <2> QED
    BY <2>3, <2>4 DEF Agrees
<1>4. CASE e.row = r /\ ~UpTo(r, position)
  <2>1. Seen(r)
    BY <1>4
  <2>2. ~Alone
    <3> SUFFICES ASSUME Alone PROVE FALSE
      OBVIOUS
    <3>1. p = "hydrate" /\ Pullers = {"hydrate"} /\ cursor <= pulls[p].at
      BY DEF Alone, InOrder, PullApply
    <3>2. PICK n \in Nat : Covered(n) /\ UpTo(r, n)
      BY <2>1 DEF Seen
    <3>3. n <= pulls[p].at
      BY <1>0, <3>1, <3>2 DEF Covered
    <3>4. position <= n
      BY <1>0, <1>4, <3>2 DEF UpTo
    <3> QED
      BY <1>0, <3>2, <3>3, <3>4
  <2> HIDE DEF e
  <2> QED
    BY <1>0, <1>4, <2>1, <2>2, SeenDelivery
<1> QED
  BY <1>2, <1>3, <1>4

\* A snapshot of a row that was seen up to its end is what the server has.
LEMMA HydrateAgrees ==
  ASSUME Bringing, Alone, InOrder, HydrateApply, NEW r \in Rows, Seen(r), Agrees(r)
  PROVE  Agrees(r)'
<1> DEFINE q == snapshot.row
           row == snapshot.is
           event == [row |-> q, op |-> "upsert", version |-> row.version, val |-> row.val,
                     key |-> NoKey]
<1>0. /\ CoreInv /\ History /\ ServerHistory /\ q \in Rows /\ snapshot # NoSnapshot
      /\ UNCHANGED serverVars /\ cursor \in Nat /\ Positions = 1 .. Len(journal)
      /\ Len(journal) \in Nat
  BY CoveredType DEF Bringing, SnapshotTrue, HydrateApply
<1>1. ~Upserting
  BY <1>0 DEF Upserting, Bringing, Shape, Phases
<1>2. CASE r # q
  <2>1. store'[r] = store[r] /\ RowQueue(r)' = RowQueue(r)
    <3>1. CASE row.here
      <4>1. ApplyChange(event) /\ event.row = q
        BY <3>1 DEF HydrateApply
      <4> HIDE DEF event
      <4> QED
        BY <1>0, <1>2, <4>1, ChangeIsLocal
    <3>2. CASE ~row.here
      BY <1>0, <1>2, <3>2 DEF HydrateApply, Prune, RowQueue, CoreInv, TypeOK, StoreTypeOK
    <3> QED
      BY <3>1, <3>2
  <2> QED
    BY <1>0, <2>1, AgreesStays DEF serverVars
<1>3. CASE r = q
  <2>1. row = server[r]
    <3>1. \A n : Covered(n) => n = cursor
      BY <1>0 DEF Covered, Alone, Bringing, Shape, Phases
    <3>2. UpTo(r, cursor)
      BY <3>1 DEF Seen
    <3>3. ~\E i \in Positions : journal[i].row = q /\ i > cursor
      BY <1>0, <1>3, <3>2 DEF UpTo
    <3> QED
      BY <1>0, <1>3, <3>3 DEF InOrder
  <2> SUFFICES ASSUME RowQueue(r)' = {} PROVE InSync(r)'
    BY <1>1 DEF Agrees, Upserting
  <2>2. CASE row.here
    <3>1. server[r].here /\ server[r].version \in Nat
      BY <1>0, <2>1, <2>2 DEF CoreInv, TypeOK
    <3>2. PICK e \in log : e.row = r /\ e.version = server[r].version
      BY <1>0, <3>1 DEF ServerHistory, LogHasLatest
    <3>3. Latest(e) /\ e.op = "upsert" /\ e.val = server[r].val
      <4>1. Latest(e)
        BY <1>0, <3>2 DEF Latest, CoreInv, Core, LogIsTrue
      <4>2. e.op \in Op
        BY <1>0 DEF CoreInv, TypeOK, Event
      <4> QED
        BY <1>0, <3>1, <3>2, <4>1, <4>2 DEF ServerHistory, LatestIsServer, Op
    <3>4. /\ ApplyChange(event) /\ event.row = e.row /\ event.op = e.op /\ event.val = e.val
          /\ event.version = e.version /\ event.key = NoKey
      BY <1>3, <2>1, <2>2, <3>2, <3>3 DEF HydrateApply
    <3>5. TrueEvent(event)
      BY <1>0, <2>2, SnapshotIsTrue DEF Bringing
    <3> HIDE DEF event
    <3> QED
      BY <1>0, <3>2, <3>3, <3>4, <3>5, LatestChange
  <2>3. CASE ~row.here
    <3>1. /\ UNCHANGED <<writes, queue>>
          /\ store' = IF Prunable(r) THEN [store EXCEPT ![r] = Absent] ELSE store
      BY <1>3, <2>3 DEF HydrateApply, Prune
    <3>2. ~store[r].dirty
      BY <1>0, <3>1 DEF CoreInv, Core, DirtyIsQueued, RowQueue
    <3>3. store'[r].here = FALSE
      BY <1>0, <3>1, <3>2 DEF Prunable, Absent, CoreInv, TypeOK, StoreTypeOK, Record
    <3>4. server'[r].here = FALSE
      BY <1>0, <2>1, <2>3 DEF serverVars, CoreInv, TypeOK
    <3> QED
      BY <3>3, <3>4 DEF InSync
  <2> QED
    BY <2>2, <2>3
<1> QED
  BY <1>2, <1>3

\* Every step keeps the rows that were seen in agreement: one case per action.
LEMMA SeenAgreesStep ==
  ASSUME Bringing, AcksAreLogged, CoveredHaveLeft, Alone \/ Upserting, Alone => InOrder,
         Upserting => OwnUpsertsShow, SeenAgrees, [CatchUpNext]_catchUpVars
  PROVE  SeenAgrees'
<1> SUFFICES ASSUME NEW r \in Rows, Seen(r)' PROVE Agrees(r)'
  BY DEF SeenAgrees
<1>0. (Seen(r) => Agrees(r)) /\ CoreInv
  BY CoveredType DEF SeenAgrees
<1>1. CASE Journalled
  <2>1. Seen(r) /\ server'[r] = server[r]
    BY <1>1, SeenCommit
  <2>2. UNCHANGED storeVars
    BY <1>1 DEF Journalled, Server, ServerCommit, ForeignCommit
  <2> QED
    BY <1>0, <2>1, <2>2, AgreesStays DEF storeVars, RowQueue
<1>2. CASE \E p \in Pullers : PullApply(p)
  <2>1. journal' = journal
    BY <1>2 DEF PullApply, durable
  <2>2. PICK p \in Pullers :
          PullApply(p) /\ \/ Seen(r)
                          \/ journal[pulls[p].at + 1].row = r /\ UpTo(r, pulls[p].at + 1)
    BY <1>2, <2>1, SeenStep
  <2> QED
    BY <1>0, <2>2, PullAgrees
<1>3. CASE ~Journalled /\ ~\E p \in Pullers : PullApply(p)
  <2>1. UNCHANGED <<journal, serverVars>>
    BY <1>3, JournalStep
  <2>2. Seen(r) /\ Agrees(r)
    BY <1>0, <1>3, <2>1, SeenStep
  <2>3. CASE Application
    BY <2>2, <2>3, ApplicationAgrees
  <2>4. ASSUME NEW t \in Transports, DeliverLive(t) PROVE Agrees(r)'
    <3>1. PICK position \in live : Deliver(journal[position], t)
      BY <2>4 DEF DeliverLive
    <3>2. journal[position] \in log /\ Upserting
      BY <3>1, CoveredType DEF Bringing, Shape, Within, Alone
    <3>3. CASE journal[position].row = r
      BY <2>2, <3>1, <3>2, <3>3, SeenDelivery
    <3>4. CASE journal[position].row # r
      BY <1>0, <2>2, <3>1, <3>2, <3>4, DeliverIsLocal, AgreesStays DEF serverVars
    <3> QED
      BY <3>3, <3>4
  <2>5. CASE HydrateApply
    <3>1. Alone
      BY <2>5 DEF HydrateApply, Upserting, Bringing, Shape, Phases
    <3> QED
      BY <2>2, <2>5, <3>1, HydrateAgrees
  <2>6. CASE UNCHANGED storeVars
    BY <2>1, <2>2, <2>6, AgreesStays DEF storeVars, serverVars, RowQueue
  <2> QED
    BY <1>3, <2>3, <2>4, <2>5, <2>6
       DEF CatchUpNext, Connect, Disconnect, Hydrate, AppPull, PullFetched, PullAdvance,
           PullFailed, HydrateFetched, HydrateFailed, Restart, catchUpVars, vars
<1> QED
  BY <1>1, <1>2, <1>3

\* Initially there is nothing, on either side.
LEMMA CaughtUpInit == CatchUpInit => CaughtUpInv
<1> SUFFICES ASSUME CatchUpInit PROVE CaughtUpInv
  OBVIOUS
<1>1. Bringing
  BY BringingInit
<1>2. /\ Issued = {} /\ Positions = {} /\ queue = {}
      /\ \A r \in Rows : store[r] = Absent /\ ~server[r].here /\ server[r].version = 0
  BY DEF CatchUpInit, Init, StoreInit, Issued, Positions
<1>3. AcksAreLogged /\ CoveredHaveLeft /\ OwnUpsertsShow
  BY <1>2 DEF AcksAreLogged, CoveredHaveLeft, OwnUpsertsShow, Settled
<1>4. InOrder
  BY CatchUpAssumption DEF CatchUpInit, InOrder, NotPulling
<1>5. SeenAgrees
  <2>1. \A r \in Rows : store[r].here = FALSE /\ server[r].here = FALSE /\ ~(server[r].version > 0)
    BY <1>2 DEF Absent, CatchUpInit, Init
  <2> QED
    BY <2>1 DEF SeenAgrees, Agrees, InSync
<1> QED
  BY <1>1, <1>3, <1>4, <1>5 DEF CaughtUpInv

\* Every step keeps the invariant.
LEMMA CaughtUpStep == CaughtUpInv /\ [CatchUpNext]_catchUpVars => CaughtUpInv'
<1> SUFFICES ASSUME CaughtUpInv, [CatchUpNext]_catchUpVars PROVE CaughtUpInv'
  OBVIOUS
<1> USE DEF CaughtUpInv
<1>1. Bringing'
  BY BringingStep
<1>2. AcksAreLogged' /\ CoveredHaveLeft'
  BY <1>1, LoggedStep, LeftStep
<1>3. (Alone => InOrder') /\ (Upserting => OwnUpsertsShow')
  BY <1>1, OrderStep, OwnUpsertsStep
<1>4. Alone \/ Upserting => SeenAgrees'
  BY SeenAgreesStep
<1> QED
  BY <1>1, <1>2, <1>3, <1>4 DEF Alone, Upserting

\* A replica that is brought up to date alone, or without deletes, pessimistic writes
\* and snapshots, agrees with the server when its cursor is at the end of the journal
\* and nothing is under way: on every row without queued writes, whatever failed, was
\* replayed or was restarted before (start.mjs: "replay is safe; skipping is not").
THEOREM CatchesUp == Alone \/ Upserting => (CatchUpSpec => []CaughtUp)
<1> SUFFICES ASSUME Alone \/ Upserting PROVE CatchUpSpec => []CaughtUp
  OBVIOUS
<1>1. CaughtUpInv => CaughtUp
  <2> SUFFICES ASSUME CaughtUpInv, NEW r \in Rows, cursor = Len(journal), RowQueue(r) = {}
               PROVE  InSync(r)
    BY DEF CaughtUp
  <2>1. cursor \in Nat /\ Covered(cursor) /\ UpTo(r, cursor)
    BY CoveredType DEF CaughtUpInv, Covered, UpTo
  <2> QED
    BY <2>1 DEF CaughtUpInv, Seen, SeenAgrees, Agrees
<1> QED
  BY <1>1, CaughtUpInit, CaughtUpStep, PTL DEF CatchUpSpec

-----------------------------------------------------------------------------
(* The ledger of writes.                                                     *)

\* What a page or a snapshot brings in is a step of the ledger, or none.
LEMMA BringingIsLedgerStep ==
  ASSUME Bringing, Bringing', [CatchUpNext]_catchUpVars
  PROVE  [Ledger!LedgerNext]_(Ledger!ledger)
<1>0. CoreInv /\ CoreInv'
  BY DEF Bringing, HistoryInv, IInv
<1>1. CASE Application \/ Server
  BY <1>0, <1>1, StepIsLedgerStep DEF Next, Client
<1>2. ASSUME NEW t \in Transports, DeliverLive(t) PROVE [Ledger!LedgerNext]_(Ledger!ledger)
  BY <1>0, <1>2, DeliverIsDrop DEF DeliverLive, Bringing, Shape, JournalIsLog, Within
<1>3. ASSUME NEW p \in Pullers, PullApply(p) PROVE [Ledger!LedgerNext]_(Ledger!ledger)
  BY <1>0, <1>3, NextPosition, DeliverIsDrop DEF PullApply, Bringing, Shape, JournalIsLog
<1>4. CASE HydrateApply
  <2>1. CASE snapshot.is.here
    BY <1>0, <1>4, <2>1, SnapshotIsTrue, ChangeIsDrop DEF HydrateApply, Bringing
  <2>2. CASE ~snapshot.is.here
    BY <1>4, <2>2, NoLedgerStep DEF HydrateApply, Prune, serverVars
  <2> QED
    BY <2>1, <2>2
<1>5. CASE UNCHANGED <<storeVars, serverVars, discarded>>
  BY <1>5, NoLedgerStep DEF storeVars, serverVars
<1> QED
  BY <1>1, <1>2, <1>3, <1>4, <1>5
     DEF CatchUpNext, Journalled, Connect, Disconnect, Hydrate, AppPull, PullFetched, PullAdvance,
         PullFailed, HydrateFetched, HydrateFailed, Restart, catchUpVars, vars

\* A replica that pulls, prunes and restarts still keeps the ledger: none of it takes
\* a write out of the queue that is neither committed nor dropped with its row's.
THEOREM CatchUpKeepsLedger == CatchUpSpec => KeepsLedger
<1>1. CatchUpInit => Ledger!LedgerInit
  BY LedgerStarts DEF CatchUpInit
<1> QED
  BY <1>1, BringingHolds, BringingIsLedgerStep, PTL DEF CatchUpSpec, KeepsLedger, Ledger!LedgerSpec

=============================================================================
