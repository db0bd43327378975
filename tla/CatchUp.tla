------------------------------- MODULE CatchUp -------------------------------
(***************************************************************************)
(* The bring-up of a plane (start.mjs): what a replica does, besides          *)
(* listening, to get what it missed.  hydrateAll follows the journal from the *)
(* durable cursor, page by page, and then replaces each table by a snapshot;  *)
(* it runs at start and on every (re)connect, one at a time.  The application *)
(* may call pullAll itself.                                                  *)
(*                                                                         *)
(* Fetches run outside the client's gate: what they answer is applied later,  *)
(* next to live events, writes and acks.  A position is a sync_sequence: the   *)
(* journal is the log in commit order.  A table is taken to hold one row id,   *)
(* so that the snapshot of a table is the server's row or nothing.            *)
(***************************************************************************)
EXTENDS SyncReplica

CONSTANTS
  PageSize,    \* pullPageSize
  Pullers,     \* who runs pullAll: "hydrate" (hydrateAll), "app" (pull())
  Snapshots,   \* whether hydrateFetch is configured (it prunes)
  MayFail      \* whether fetches may fail

ASSUME CatchUpAssumption ==
  /\ PageSize \in Nat \ {0}
  /\ Pullers \in {{"hydrate"}, {"hydrate", "app"}}
  /\ {Snapshots, MayFail} \subseteq BOOLEAN

VARIABLES
  journal,    \* the log in commit order, as the server keeps it
  cursor,     \* the durable catch-up cursor
  online,     \* whether the realtime transport is connected
  live,       \* positions on their way over the realtime transport, in order
  pulls,      \* puller -> its run of pullAll
  hydrating,  \* where hydrateAll is
  todo,       \* rows whose snapshot hydrateAll has still to fetch
  snapshot,   \* the fetched snapshot that waits for the gate
  given       \* history: positions whose change the replica was given

durable == <<journal, cursor>>
connection == <<online, live>>
bringUp == <<pulls, hydrating, todo, snapshot>>
catchUpVars == <<vars, durable, connection, bringUp, given>>

Positions == DOMAIN journal

\* A run of pullAll that has applied the journal up to position at of a page
\* that ends at upto.
Pull == [phase: {"idle", "fetch", "apply"}, at: Nat, upto: Nat, more: BOOLEAN]
NotPulling == [phase |-> "idle", at |-> 0, upto |-> 0, more |-> FALSE]
FetchingFrom(position) ==
  [phase |-> "fetch", at |-> position, upto |-> position, more |-> FALSE]

NoSnapshot == [row |-> {}]

CatchUpInit ==
  /\ Init
  /\ journal = << >>
  /\ cursor = 0
  /\ online = FALSE
  /\ live = {}
  /\ pulls = [p \in Pullers |-> NotPulling]
  /\ hydrating = "no"
  /\ todo = {}
  /\ snapshot = NoSnapshot
  /\ given = {}

-----------------------------------------------------------------------------
(* The server and the realtime transport.                                    *)

\* A change that commits joins the journal; only a connected replica hears.
Journalled ==
  /\ Server
  /\ \E e \in log' \ log : journal' = Append(journal, e)
  /\ live' = IF online THEN live \cup {Len(journal) + 1} ELSE live
  /\ UNCHANGED <<cursor, online, bringUp, given>>

\* The transport delivers in commit order, applyIncoming in that of arrival.
DeliverLive(transport) ==
  \E position \in live :
    /\ \A other \in live : position <= other
    /\ Deliver(journal[position], transport)
    /\ live' = live \ {position}
    /\ given' = given \cup {position}
    /\ UNCHANGED <<durable, online, bringUp>>

Disconnect ==
  /\ online
  /\ online' = FALSE
  /\ live' = {}
  /\ UNCHANGED <<vars, durable, bringUp, given>>

-----------------------------------------------------------------------------
(* hydrateAll and pullAll.                                                   *)

\* hydrateAll returns at once while it is running.
StartHydration ==
  IF hydrating = "no"
  THEN /\ hydrating' = "pull"
       /\ pulls' = [pulls EXCEPT !["hydrate"] = FetchingFrom(cursor)]
       /\ UNCHANGED <<todo, snapshot>>
  ELSE UNCHANGED bringUp

\* "open" or "SUBSCRIBED".  The flush that "open" also starts is FlushStart,
\* which may run at any time.
Connect ==
  /\ Transports # {}
  /\ ~online
  /\ online' = TRUE
  /\ StartHydration
  /\ UNCHANGED <<vars, durable, live, given>>

\* The hydration startSync begins with, and the one applications may ask for.
Hydrate ==
  /\ hydrating = "no"
  /\ StartHydration
  /\ UNCHANGED <<vars, durable, connection, given>>

\* pull() of the application.
AppPull ==
  /\ "app" \in Pullers
  /\ pulls["app"].phase = "idle"
  /\ pulls' = [pulls EXCEPT !["app"] = FetchingFrom(cursor)]
  /\ UNCHANGED <<vars, durable, connection, hydrating, todo, snapshot, given>>

\* The server answers with the page after the puller's cursor.
PullFetched(p) ==
  LET from == pulls[p].at
      upto == IF from + PageSize < Len(journal) THEN from + PageSize ELSE Len(journal)
  IN  /\ pulls[p].phase = "fetch"
      /\ pulls' = [pulls EXCEPT ![p] = [phase |-> "apply", at |-> from, upto |-> upto,
                                        more |-> upto < Len(journal)]]
      /\ UNCHANGED <<vars, durable, connection, hydrating, todo, snapshot, given>>

\* The next change of the page goes through the gate.
PullApply(p) ==
  LET position == pulls[p].at + 1
  IN  /\ pulls[p].phase = "apply"
      /\ position <= pulls[p].upto
      /\ Deliver(journal[position], "backend")
      /\ pulls' = [pulls EXCEPT ![p].at = position]
      /\ given' = given \cup {position}
      /\ UNCHANGED <<durable, connection, hydrating, todo, snapshot>>

\* Fault: a pull that fails leaves hydrating set.
PullEndsFault(p, well) ==
  /\ pulls' = [pulls EXCEPT ![p] = NotPulling]
  /\ IF p = "app" \/ ~well THEN UNCHANGED <<hydrating, todo>>
     ELSE IF Snapshots THEN hydrating' = "tables" /\ todo' = Rows
     ELSE hydrating' = "no" /\ todo' = {}
  /\ UNCHANGED snapshot

\* A pull ends, well or not; hydrateAll goes on to the tables only if well.
PullEnds(p, well) ==
  /\ pulls' = [pulls EXCEPT ![p] = NotPulling]
  /\ IF p = "app" THEN UNCHANGED <<hydrating, todo>>
     ELSE IF well /\ Snapshots THEN hydrating' = "tables" /\ todo' = Rows
     ELSE hydrating' = "no" /\ todo' = {}
  /\ UNCHANGED snapshot

\* Fault: the cursor is stored before the page is applied.
PageDoneFault(p) == pulls[p].phase = "apply"

PageDone(p) == pulls[p].phase = "apply" /\ pulls[p].at = pulls[p].upto

\* The cursor of the page is stored; setCursor refuses to go back.
PullAdvance(p) ==
  LET next == pulls[p].upto
  IN  /\ PageDone(p)
      /\ IF next < cursor
         THEN PullEnds(p, FALSE) /\ UNCHANGED cursor
         ELSE /\ cursor' = next
              /\ IF pulls[p].more
                 THEN /\ pulls' = [pulls EXCEPT ![p] = FetchingFrom(next)]
                      /\ UNCHANGED <<hydrating, todo, snapshot>>
                 ELSE PullEnds(p, TRUE)
      /\ UNCHANGED <<vars, journal, connection, given>>

\* The fetch rejected, or a change of the page could not be applied.
PullFailed(p) ==
  /\ MayFail
  /\ pulls[p].phase # "idle"
  /\ PullEnds(p, FALSE)
  /\ UNCHANGED <<vars, durable, connection, given>>

HydrateFetched(r) ==
  /\ hydrating = "tables"
  /\ snapshot = NoSnapshot
  /\ r \in todo
  /\ todo' = todo \ {r}
  /\ snapshot' = [row |-> r, is |-> server[r]]
  /\ UNCHANGED <<vars, durable, connection, pulls, hydrating, given>>

\* The snapshot of one table failed; hydrateAll goes on to the next.
HydrateFailed(r) ==
  /\ MayFail
  /\ hydrating = "tables"
  /\ snapshot = NoSnapshot
  /\ r \in todo
  /\ todo' = todo \ {r}
  /\ hydrating' = IF todo' = {} THEN "no" ELSE "tables"
  /\ UNCHANGED <<vars, durable, connection, pulls, snapshot, given>>

\* Fault: pruning does not spare dirty rows.
PrunableFault(r) == store[r].here

Prunable(r) == store[r].here /\ ~store[r].dirty

\* A row that the snapshot lacks is taken for deleted.
Prune(r) ==
  /\ store' = IF Prunable(r) THEN [store EXCEPT ![r] = Absent] ELSE store
  /\ UNCHANGED <<writes, queue, superseded, discarded>>

\* client.hydrate, in the gate: a snapshot row is an upsert without a key.
HydrateApply ==
  LET r == snapshot.row
      row == snapshot.is
  IN  /\ snapshot # NoSnapshot
      /\ IF row.here
         THEN ApplyChange([row |-> r, op |-> "upsert", version |-> row.version,
                           val |-> row.val, key |-> NoKey])
         ELSE Prune(r)
      /\ snapshot' = NoSnapshot
      /\ hydrating' = IF todo = {} THEN "no" ELSE "tables"
      /\ UNCHANGED <<callVars, wire, serverVars, durable, connection, pulls, todo, given>>

-----------------------------------------------------------------------------
\* The page is reloaded: only what is durable stays.
Restart ==
  /\ \/ calls # {} \/ flush # NoFlush
     \/ hydrating # "no" \/ online \/ \E p \in Pullers : pulls[p] # NotPulling
  /\ calls' = {}
  /\ flush' = NoFlush
  /\ online' = FALSE
  /\ live' = {}
  /\ pulls' = [p \in Pullers |-> NotPulling]
  /\ hydrating' = "no"
  /\ todo' = {}
  /\ snapshot' = NoSnapshot
  /\ UNCHANGED <<storeVars, wire, serverVars, discarded, durable, given>>

CatchUpNext ==
  \/ Application /\ UNCHANGED <<durable, connection, bringUp, given>>
  \/ Journalled
  \/ \E t \in Transports : DeliverLive(t)
  \/ Connect
  \/ Disconnect
  \/ Hydrate
  \/ AppPull
  \/ \E p \in Pullers : PullFetched(p) \/ PullApply(p) \/ PullAdvance(p) \/ PullFailed(p)
  \/ \E r \in Rows : HydrateFetched(r) \/ HydrateFailed(r)
  \/ HydrateApply
  \/ Restart

CatchUpSpec == CatchUpInit /\ [][CatchUpNext]_catchUpVars

-----------------------------------------------------------------------------
\* The cursor only passes changes the replica was given, whoever pulls and
\* however often it crashes (start.mjs: "replay is safe; skipping is not").
CursorCoversGiven == 1 .. cursor \subseteq given

Resting == hydrating = "no" /\ live = {} /\ \A p \in Pullers : pulls[p] = NotPulling

\* When the cursor has reached the end of the journal and nothing is under way,
\* each row without queued writes agrees with the server, after any crash and
\* replay, and whatever the snapshots in between replaced.
CaughtUp ==
  \A r \in Rows :
    Resting /\ cursor = Len(journal) /\ RowQueue(r) = {} => InSync(r)

\* What was missed while offline is there once the replica is connected again
\* and its catch-up is over (start.mjs: "On every (re)connect [...] we run
\* catch-up hydration [...] so anything missed while offline lands").
MissedLands ==
  \A r \in Rows : online /\ Resting /\ RowQueue(r) = {} => InSync(r)

\* Whatever the order in which they came, once every change of a row was given
\* to the replica, nothing is under way and no write of the row is queued, it
\* agrees with the server on that row (README: transports "can deliver changes
\* in any order and converge").
DeliveredConverges ==
  \A r \in Rows :
    /\ Resting
    /\ \A i \in Positions : journal[i].row = r => i \in given
    /\ RowQueue(r) = {}
    => InSync(r)

-----------------------------------------------------------------------------
(* Liveness.                                                                *)

\* What hydrateAll does next, being one asynchronous function.
HydrationStep ==
  \/ PullFetched("hydrate") \/ PullApply("hydrate")
  \/ PullAdvance("hydrate") \/ PullFailed("hydrate")
  \/ \E r \in Rows : HydrateFetched(r) \/ HydrateFailed(r)
  \/ HydrateApply

\* The event loop: a hydration that runs goes on; its fetches are answered or fail.
\* Nothing makes a hydration start but a (re)connect or the application.
FairCatchUpSpec == CatchUpSpec /\ WF_catchUpVars(HydrationStep)

\* What the environment has to do.  hydrateAll is called again once it is over: the
\* connection is lost and comes back, or the application asks.
Rehydrates == WF_catchUpVars(Hydrate)

\* In the end the page is left alone, and no fetch of a hydration fails and every
\* change that comes can be applied.
Undisturbed == <>[][~Restart /\ ~PullFailed("hydrate")]_catchUpVars

\* The replica ends up agreeing with the server on every row that has no queued write
\* left, and stays so, though nothing be heard over the realtime transport: every
\* change is pulled in the end, after any failures and restarts, and neither old
\* pages nor late events undo it (start.mjs: "anything missed while offline lands").
EventuallyAgrees ==
  Rehydrates /\ Undisturbed => <>[](\A r \in Rows : RowQueue(r) = {} => InSync(r))

=============================================================================
