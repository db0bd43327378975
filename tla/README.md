# Verification of fiducia-sync

TLA+ models of the fiducia sync engine, TLC configurations that check them on
small instances, and TLAPS proofs of the results that matter most. Paths below
are relative to `src/`; `T/` stands for `langs/typescript/src/`.

1. The system
2. What makes it hard
3. Plan
4. The modules and the code
5. Assumptions about what is outside the code
6. The runs
7. Disagreements between code and documentation
8. What is proved
9. What is not modelled, and what is only model-checked

## 1. The system

fiducia-sync keeps a local replica of server-owned rows on a device. Writes are
shown at once (or on ack), kept in a durable queue and sent over HTTP; committed
changes come back over realtime transports and over catch-up reads, and are
reconciled by a per-row version.

| Component | Code | State | Operations | Correct when |
|---|---|---|---|---|
| Reconciliation core | `src/lib.rs` (wasm in JS, mirrored by `langs/dart/lib/src/core.dart`) | none | `reconcile`, `is_echo_of`, `on_ack`, `resolve_conflict` | a decision depends on versions only; an own echo is told from somebody else's change |
| Replica store and queue | `T/store.mjs` | object stores per table, `_queue`, `_meta` | `put`, `del`, `enqueue`, `enqueueOptimistic`, `settleAck`, `settlePessimistic`, `adoptEcho`, `resolveConflict`, `bumpAttempts`, `getCursor`, `setCursor`, `openStore` | row and retry record change together; newer intent survives older acks and echoes; the cursor never moves back |
| Sync client | `T/client.mjs` | the mutation gate (a promise chain), sends in flight | `write`, `flushQueue`, `applyChange`, `hydrate` | no write is lost; a row shows committed or pending payloads; the replica converges |
| Transport decoders | `T/transports/decode.mjs` | none | `decodeBackendMessage`, `decodeSupabaseChange` | both transports mean the same change |
| Bring-up | `T/start.mjs` | `hydrating` flag | `pullAll`, `hydrateAll`, `applyIncoming`, `flushQueued`, `stop` | what was missed while offline lands; the cursor only passes what was applied |
| Backend transport | `T/transports/backend.mjs` | socket, SSE stream, back-off, timers | `connectBackend`, `makeBackendSend` | a lost connection is retried until `stop`; nothing happens after `stop` |
| Supabase transport | `T/transports/supabase.mjs` | one channel | `subscribeSupabase` | silent after `stop` |
| localStorage adapter | `T/local-storage.mjs` | one JSON document | the store's transactions, fallback choice | the same contract as `store.mjs` |
| Change journal | `sql/postgres/001_fiducia_sync.sql`, `langs/rust/postgres/src/lib.rs` | `changes` table, identity sequence | `record_change`, `capture_change`, `pull`, `maintain_row_timestamps` | a reader that follows the cursor sees every change; a write key commits once |
| Hybrid logical clock | `src/hlc.rs`, `T/hlc.mjs`, `langs/dart/lib/src/hlc.dart` | last stamp | `tick`, `observe`, `encode`, `decode` | stamps are strictly monotonic and ordered as they encode |
| Dart client and SQLite store | `langs/dart/lib/src/` | SQLite tables | twin of store and client | the same contract |
| JSON deep merge | `T/merge.mjs` | none | `deepMerge` | right-biased, arrays replace |
| Validators, schemas, bindings, HTMX, telemetry | `src/schema.rs`, `T/validate.mjs`, ... | none that syncs | - | - |

How they interact. `startSync` opens the store, makes one client per plane and
connects the transports. Every event of either transport calls
`client.applyChange`; an "open" or "SUBSCRIBED" status calls `hydrateAll` (pages
of the journal from the durable cursor, then table snapshots), and the backend's
"open" also calls `flushQueue`. `write` mints a write with a key
(`Idempotency-Key`), persists it with its optimistic row in one transaction, and
sends it outside the gate; the ack, or the write's own echo, whichever comes
first, retires it. The server bumps the row version in a trigger, appends to the
journal and notifies both transports.

## 2. What makes it hard

* Sends are outside the gate, so between a send and its ack any number of events,
  other acks, further writes and conflicts may be processed.
* An ack carries a version but no payload; the echo carries both. They come in
  either order, and either may be lost.
* Several writes of one row may be in flight at once, may commit in another order
  than they were issued, and may be acknowledged in a third.
* A delete leaves no record locally, hence no version to compare with.
* A reload forgets sends, flush loops and the gate; only the store remains.
* The two transports describe the same change differently: only the backend
  carries the write key, and the delete of Supabase carries the version of the row
  that was deleted where the journal gives the version after it.
* Catch-up reads (pages, snapshots) are fetched outside the gate and applied
  later, next to live events.
* Two tabs share one database and have a gate each.

`PROJECT.json` lists these as hazards, each with its line and the properties that
would notice.

## 3. Plan

| # | Module | What it models | Builds on | Proofs |
|---|---|---|---|---|
| 1 | `SyncCore` | decision rules | - | |
| 2 | `ReplicaStore` | the IndexedDB store's transactions | `SyncCore` | |
| 3 | `SyncReplica` | client, queue, sends, server, transports | `ReplicaStore` | `SyncReplicaProofs`, `SyncHistoryProofs` |
| 4 | `WriteLedger` | abstract: what becomes of a write | - (`SyncReplica` refines it) | `SyncReplicaProofs` |
| 5 | `CatchUp` | `pullAll`, cursor, `hydrateAll`, prune, live delivery, restarts | `SyncReplica` | `CatchUpProofs` |
| 6 | `SharedStore` | several tabs, each transition taken apart | `SyncReplica` | `SharedStoreProofs` |
| 7 | `StoreContract` | abstract: what any store promises the client | `ReplicaStore` | `LocalStoreProofs` |
| 8 | `LocalStore` | the localStorage document | refines `StoreContract` | `LocalStoreProofs` |
| 9 | `Connections` | WebSocket, SSE, token, back-off, channel, `stop` | - | `ConnectionsProofs` |
| 10 | `Journal` | capture, write keys, identity numbers, transactions, pull | - | `JournalProofs` |
| 11 | `Hlc` | the hybrid logical clock | - | `HlcProofs` |

`MCLocalStore` and `MCSharedStore` add the symmetry sets of TLC. What is left, and
why, is in section 9.

## 4. The modules and the code

**`SyncCore`** has the pure rules. `Reconcile(local, event)` is `reconcile` of
`lib.rs` with the same five outcomes; `IsEchoOf` is `is_echo_of` for a write with a
key; `AckAdopts` is `on_ack`. The heuristic for legacy records without a key is
left out: `write` always mints one.

**`ReplicaStore`** has the durable state and one action per transaction of
`store.mjs`:

| Variable | In the code |
|---|---|
| `store[r]` | the record of row `r`: `here`, `version`, `dirty`, and `val`, the author of the payload (a write's number, or `Foreign`) |
| `writes` | every write record ever minted; its index is both `seq` (autoIncrement) and `write_key`, which the code mints once per write and never reuses |
| `queue` | which of them are in `_queue` |
| `superseded` | `superseded_version` of a queued write |

A payload is only ever compared by who wrote it, so a model value per author
suffices; a merged patch is the payload of its write. `Retire` is the part that
`settleAck`, `settlePessimistic` and `adoptEcho` share: the write leaves the queue
and the older writes of its row are marked with the committed version.

**`SyncReplica`** composes the store with the client, the server and the network.
The gate makes every local transition atomic, so an action is one gated step:

| Action | Code |
|---|---|
| `IssueWrite` | `write` up to the send: mint, `enqueue` or `enqueueOptimistic`, start the send |
| `CallAcked`, `CallFailed` | `write` after the send |
| `FlushStart`, `FlushAcked`, `FlushFailed` | `flushQueue`: read the list, then one send at a time; every call is a loop of its own |
| `Reload` | the page goes away with its sends and its flushes |
| `Deliver(e, transport)` | a transport's decoder and `applyChange`, whole: own echo, apply, refresh, conflict, ignore |
| `ServerCommit`, `ForeignCommit` | external: the server commits one of our writes, or somebody else's change |

`wire` is the set of writes of which a request was ever sent. A request stays there:
it may commit at any later time, also after its caller failed or reloaded, and
`acks[s]` then answers every later request with the same key. `log` is the set of
committed changes; `Deliver` picks any of them at any time, which covers loss,
delay, duplication and every reordering. `discarded` is a history variable for the
properties. `flush[f]` holds what is left of the list that call `f` of `flushQueue` read
before it began to send, so it goes stale as in the code. Nothing in the code keeps a
second call from starting (every "open" makes one), so several may run at once;
the elements of `Flushes` bound how many.

**`CatchUp`** extends `SyncReplica` by the bring-up of a plane. The client's own
steps (`Application`) and the server's are those of `SyncReplica`; delivery is no
longer arbitrary but comes from the two sources `startSync` wires up:

| Variable | In the code |
|---|---|
| `journal` | the committed changes in commit order; an index is a `sync_sequence` (external) |
| `cursor` | the durable cursor of `getCursor` and `setCursor` |
| `online`, `live` | whether a realtime transport is connected, and what it still has to deliver, in order |
| `pulls[p]` | one running `pullAll`: fetching a page, or applying it up to `at`; `"hydrate"` belongs to `hydrateAll`, `"app"` is the `pull()` of the application |
| `hydrating`, `todo`, `snapshot` | where `hydrateAll` is, tables still to fetch, the snapshot that waits for the gate |
| `given` | history: the positions whose change went through `applyChange` |

| Action | Code |
|---|---|
| `Journalled`, `DeliverLive`, `Disconnect` | a commit, heard only while connected; `applyIncoming`; the connection drops |
| `Connect` | "open" or "SUBSCRIBED": `hydrateAll`, which returns at once if it is running. The flush of "open" is `FlushStart`, which may run at any time |
| `Hydrate`, `AppPull` | the hydration `startSync` begins with, or that an application asks for; its own `pull()` |
| `PullFetched`, `PullApply`, `PullAdvance`, `PullFailed` | `pullAll`: a page arrives, its changes are applied one gated step each, the cursor is stored, or the pull throws |
| `HydrateFetched`, `HydrateApply`, `HydrateFailed` | one table's snapshot: fetched outside the gate, reconciled and pruned inside it |
| `Restart` | reload, crash or `stop`: only the store and the cursor stay |

A table holds one row id here, so a snapshot is the server's row or nothing; rows
of a snapshot are reconciled one by one and pruning looks at each row alone.

**`WriteLedger`** is what the application is promised of a write, in four actions:
it is pending from its issue, the server accepts it at most once, it stops being
pending when it was accepted (`Settled`) or when all of its row is given up at once
(`Drop`), and it is never pending again. `SyncReplica` defines the mapping (`Ledger`):
`queue` is what is pending, `acks` what is accepted, `discarded` what was dropped.
Ledger steps have no network in them: every loss, repetition, reload and reordering
of `SyncReplica` has to be one of them or no step at all.

**`SharedStore`** runs several clients over the one database of `SyncReplica`. The
gate (`mutate`) is a promise chain inside a client, so it keeps a tab's transitions
apart, but not those of two tabs. A transition is taken apart into what it awaits:

| `tabs[t].phase` | In `client.mjs` | Action that leaves it |
|---|---|---|
| `"idle"` | the gate is free | `ReadMeta` (`store.meta`), `WriteReads` |
| `"queue"` | `_applyChange` has the row's metadata | `ReadQueue` (`queue.list`) |
| `"decide"` | it also has the row's writes, both maybe out of date | `Decide`: the decision on what was read, and its one transaction on what is there now |
| `"write"` | `write` has the row's metadata | `WriteEnqueues` |
| `"prune"` | `_hydrate` found the row clean and not in its snapshot (`PruneReads`) | `PruneDeletes` |

An echo whose write another tab retired goes back to the first read
(`AdoptsEcho`), as `client.mjs:239` does. `Changes` is what may come to be reconciled:
any committed change as a page, a transport or a snapshot gives it. A hydration is a
transition per row here, which gives up the gate more often than the code does. Sends, acks and failures are one
transaction each and are those of `SyncReplica`, whichever tab they belong to.

**`StoreContract`** says what the client may rely on in a store: its steps are the
transactions of `ReplicaStore` with any arguments, and a cursor that grows.
**`LocalStore`** is the localStorage adapter as it is written: one document of lists,
each operation a function from a document to the next (`SettleAckIn` and so on),
with `findIndex`, `push` and `splice` as sequence operators, `filter` as `Kept`
(which says where each record goes instead of recursing, so that it can be reasoned
about), and `update` one `setItem`. The mapping of `KeepsContract` reads the lists as
functions and sets (`Shown`, `Queued`, `Marks`); the refinement then says that each operation is one transaction of the contract, with
every mark, version and dirty flag the IndexedDB store would have left. Its inputs are
what the client's decisions may lead to or more: any foreign change, conflicts over
any part of a row's queue, acks and echoes above the base of the write.

**`Connections`** has the variables of `connectBackend` in one record `conn`
(`socket`, `source`, `timers`, `wait`, `attempts`, the stream a token is being
resolved for), a counter of live sockets that nothing refers to any more (`stray`),
`stopped`, the Supabase channel (`joined`), and whether a queued write waits for a
flush. An action is one task of the event loop; the functions of `backend.mjs` that
call each other within a task are operators from a connection to a connection. The
application may call `stop` inside the status handler of `"reconnecting"` and of
`"transport-error"`, that is in the middle of a task, and the model lets it. Whether
WebSocket and EventSource exist and how streams authenticate is any choice (`setup`).

**`Journal`** is the server side that the repository does contain: transactions of
several sessions, `capture_change` and `record_change` with the unique index on write
keys, the identity column, `PostgresSyncStore::record` (`RecordAgain` is the case of
a key already used for the same change) and the readers `fiducia_sync_pull` and
`PostgresSyncStore::pull`. PostgreSQL is external: row locks, visibility, the wait for
a concurrent insert of a key, numbers that are gone after a rollback. A page is one
step; a pull of `lib.rs` is the same page with the cursor after it.

**`Hlc`** has `advance`, `tick`, `observe` and `from_state` as functions of a clock and
the wall times they read. The largest wall time and counter are constants.

Operators commented "Fault:" are plausible wrong versions of the definition below
them. No specification uses them; `PROJECT.json` names, for each property of each
run, the one that the property must notice.

## 5. Assumptions about what is outside the code

The server is not in the repository; the models assume what the code relies on.

* A row's version grows by one with every change, also over a delete and a
  re-creation, and every committed change of a row has its own version (README,
  "Ordering: row versions and the catch-up cursor").
* Requests are deduplicated by `Idempotency-Key` and answered with the same
  `committed_version`.
* Writes are not compare-and-swapped on `base_version`: the server commits them in
  arrival order (`docs/jsonb-merge.md:70`, "row-level last-writer-wins"; comparing
  versions is its recommended future work). The client has no branch for a rejection.
* A row that is created again continues the versions of the deleted one; in
  `Journal` the version column is derived from the journal accordingly, since
  `bump_row_version` is not in the repository.
* The delete of a row that does not exist is never acknowledged with a version:
  there is no committed version to give. Such a write fails.

## 6. The runs

| Run | Instance | Shows |
|---|---|---|
| `edits` | 1 row, 3 optimistic writes, edits and deletes, both transports, one commit of another client | `TypeOK`; `IntentIsDurable`: dirty rows have a queued write; `VisibleIsCommittedOrPending`; `WritesAreAccounted`: no write is lost; `VersionsAreIssued`: never ahead of the server; `NewestEditIsVisible`: the newest unsettled edit is what the row shows; `IgnoredIsHeld`: a latest change that `applyChange` ignores is held already, whatever acks came before it; `VersionsNeverRegress`; `LatestChangeConverges`: the latest change, delivered last with nothing left to send, brings the row in line when it changes it; `SettledDeletesStay`: an older own echo does not undo a committed own delete; `UpsertsDoNotConflict`: among upserts, no own commit drops queued writes; `KeepsLedger`: the client implements `WriteLedger` |
| `strategies` | 1 row, 2 upserts of any of the three strategies, both transports, two commits of another client, two flushes at once; fairness | the row invariants when acks that carry a payload mix with acks that do not and events lack a key; `LatestChangeConverges` for all strategies; `QueueDrains`: a write that the server accepts leaves the queue if the connection keeps opening, whatever becomes of the writes before it |
| `catch_up` | no realtime transport; 2 optimistic writes, edits and deletes; pages of one change; snapshots; failing fetches; restarts anywhere; fairness | `CursorCoversGiven`: the cursor passes only what was applied; `CaughtUp`: cursor at the end of the journal, nothing under way and an empty queue mean agreement with the server, whatever was replayed, pruned or put back before; `NewestEditIsVisible`: no snapshot prunes or overwrites a pending edit without a conflict; `EventuallyAgrees`: if hydration is repeated and in the end undisturbed, the rows without queued writes agree with the server for good |
| `concurrent_pulls` | `pull()` next to the hydration of every reconnect, live delivery, failures; upserts; fairness | the same two of the cursor, for two pulls at once; `EventuallyAgrees`, whatever is lost live and whatever the other pull does |
| `connection` | every setup, all external faults, back-off of 2, 4 and 5 (capped); fairness | `StopIsFinal`, `OneStream`, `KeepsTrying`, `FreshBackoff`; `Reconnects`: after every loss there is a stream again; `OutageWritesGoOut`: what is queued while the socket is away is taken up when it is back |
| `local_document` | 2 rows (symmetric), 2 writes, versions up to 2, a cursor | `ListsAreIndexed`: one record per row, the queue in order of sequence numbers; `KeepsContract`: every operation is a transaction of `StoreContract` |
| `two_tabs` | 2 tabs (symmetric), 1 row, 2 optimistic edits or deletes, both transports, pages, snapshots and pruning, one commit of another client | what stays true without a common gate: `DirtyIsQueued`, `VisibleIsCommittedOrPending`, `WritesAreAccounted`, `VersionsAreIssued` |
| `journal` | 2 rows, 2 sessions, 1 write key, 4 numbers | `KeyNamesOneChange`, `RowsAreInOrder` |
| `bug_*` | smallest instance of each | section 7 |

Every run checks for deadlock. The instances are as large as keeps a run short, and
each bound has a reason. Three writes let an older, a middle and a newer write of a
row be outstanding together; `MaxVersion` bounds only the versions at which others
commit, so own writes go beyond it. Two writes of different strategies are one
pair of every kind. Two flushes at once (`strategies`) send one write twice at a time;
the other runs have one, since a second adds only the choice of which loop an answer
belongs to (`edits` holds with two as well, in 2.5 million states). In the catch-up runs the journal has at most four changes and
pages hold one: every position between two changes is the end of a page, so a
crash, a failure or the other pull falls between any two steps. `connection` has no
bound that cuts off behaviour: beyond `MaxAttempts` the delay is at its cap and the
counter is not told apart (the assumption `BackoffAssumption` says so). Two tabs and two
writes are the smallest instance in which a transition meets both a newer write
and a retirement by the other tab. In `journal` two sessions may each capture two
changes, one key apart or under the same key, with a rollback that leaves a gap.

One row is enough for the rules about a row, since no rule reads two. That the rows
of one queue do not touch each other is proved (section 8), and checked with two rows
for the localStorage store, whose queue is searched by row.

Some instances leave out what the code does not survive; the violation runs show
part of it and section 7 says the rest. Deletes are left out of `strategies` and
`concurrent_pulls`, pessimistic writes out of `edits`, snapshots out of
`concurrent_pulls`, live delivery out of `catch_up`, and the invariants about the
newest edit out of `two_tabs`. In `strategies` a queued delete of a row that does not
exist would also, by the assumption above, fail for ever.

Fairness of the client (`FairSpec` of `SyncReplica`) is only the event loop's: a flush
that runs goes on, as each of its sends is answered or fails. The `fetch` of
`makeBackendSend` has no timeout, so a request that never settles at all is excepted.
What the environment has to do besides is not in the specification but in the
property, by name. `QueueDrains` says of a write that it leaves the queue *if*

* flushes keep being started while something is queued (`Reopens`),
* reloads come to an end (`StaysOpen`), as a flush that never gets far sends nothing,
* the server does not refuse the write for ever (`Accepts`), and
* not every answer to its requests is lost (`Answers`).

Nothing is assumed of the other writes: one that is refused for ever stays queued
for ever and holds up nobody. `Reopens` is not a promise of the code.
`startSync` flushes on the open of the backend connection only, and `Reconnects` gives an
open after a loss but no loss; while the socket stays up, a write whose send failed,
or that `local_queue` never sent, waits for the application to call `flushQueue`.
`RetriesAreScheduled` is the property without `Reopens`, and is false (section 7).

Fairness of the bring-up (`FairCatchUpSpec` of `CatchUp`) is the event loop's again: a
hydration that runs goes on, its fetches being answered or failing. `EventuallyAgrees`
has two hypotheses: hydrations keep being started (`Rehydrates`: connections are lost
and come back, or the application asks), and from some point on there is no restart
and no pull of theirs fails (`Undisturbed`). Nothing is assumed of live delivery: the
agreement comes from pulling. So it does not contradict `bug_missed_changes`, where
a missed change waits for the next hydration, nor `bug_journal_gap`, where it
never comes: `CatchUp` assumes a journal in commit order, and the agreement is only
as good as that. A change that can never be applied fails every pull before the
cursor passes it; `Undisturbed` excepts it too.

Fairness of `Connections`. Timers fire, promises settle, and a socket that is being
opened opens or closes: the event loop's promises, all weak. `SF(SocketOpens)` and
`SF(SourceOpens)`: the server is not unreachable for ever; without them no client
reconnects. Nothing is assumed of losses, of `stop` or of the application.

## 7. Disagreements between code and documentation

Each of these is a run that TLC ends with a counterexample; `PROJECT.json` quotes the
lines.

* `bug_resurrect`. `del` keeps no version, so an older upsert that arrives after a
  delete re-creates the row: a page fetched before the delete is applied after the
  live delete. This contradicts "can deliver changes in any order and converge".
* `bug_missed_changes`. A connection opens while a hydration is running; its own
  `hydrateAll` returns at once, and what was committed since the running one's fetch
  does not land before the next reconnect.
* `bug_two_tabs`. `applyServer` puts what was decided on an earlier read. If another
  tab's optimistic write of the row comes in between, the row is left clean with the
  older payload while the write is queued: the edit is not shown and a snapshot may
  prune it. The docs recommend IndexedDB for several tabs.
* `bug_journal_gap`. Numbers are allocated before transactions commit, so the
  "commit-ordered" cursor of a reader passes the number of a transaction that is still
  open, whose change is then never read.

TLC finds more. They have no run of their own; each is reproduced by checking the
named property, which the module defines, on the instance given.

| Property | Instance | Counterexample |
|---|---|---|
| `DeliveredConverges` (`CatchUp`) | `bug_resurrect.cfg` with 2 writes, upserts only | Two own edits committed in the other order, the newer echo live and the older one from a page: `adoptEcho` (`T/store.mjs:481`) raises the version of the newer local value to that of an echo whose payload it does not take, and the row ends clean with the older payload. |
| `AckedMeansCommitted` (`SyncReplica`) | `edits.cfg` | A conflict drops a write while its send fails; `bumpAttempts` returns 0 and the caller (`T/client.mjs:400`, and `:507` in a flush) takes it for committed. |
| `ConflictsAreForeign` (`SyncReplica`) | `edits.cfg` | Create, delete, ack of the create, echo of the create: the delete left no row to adopt the acknowledged version, so the echo conflicts with the queued delete and drops it. |
| `RetriesAreScheduled` (`SyncReplica`) | `strategies.cfg` | A send fails while the socket stays open. `write` reports "retry_scheduled" (`T/client.mjs:414`), but nothing is scheduled: only another open (`T/start.mjs:176`) or the application starts a flush, and the write stays queued. |
| `NothingHidden` (`SyncReplica`) | `edits.cfg` with `Transports = {"supabase"}` | A Supabase delete carries the version before the delete, its ack the one after. When an own delete commits after a re-creation issued later, the ack leaves the row present under the delete's version and the event is stale. |
| `VersionsNeverRegress` | `strategies.cfg` with 3 writes | The late ack of an older pessimistic write overwrites a newer committed version: `settlePessimistic` (`T/store.mjs:617`) compares nothing. |
| `NewestEditIsVisible` | `strategies.cfg` with deletes | A pessimistic ack puts back a row that a newer, still queued optimistic delete removed, since the delete leaves no dirty row for `T/store.mjs:591` to see. |
| `CaughtUp` (`CatchUp`) | `concurrent_pulls.cfg` with `Snapshots = TRUE` | A snapshot fetched before a row existed prunes that row after a pull brought it, and the cursor has passed it. |
| `CaughtUp` (`CatchUp`) | `catch_up.cfg` with `Transports = {"backend"}` | A late live upsert follows the pull that already replayed its delete, and the connection drops before the delete comes live. |
| `CaughtUp` (`CatchUp`) | `concurrent_pulls.cfg` with 3 writes, all pessimistic, `MaxVersion = 0`, one puller and no failures | A pessimistic insert leaves no row, and neither do the echoes of the first two of three (`adoptEcho` waits for the newest). An old live event of the first then conflicts with the third, and its payload is put although a later version was pulled. |
| `CaughtUp` (`CatchUp`) | `concurrent_pulls.cfg` with deletes and `Transports = {}` | The slower of two pulls replays an upsert after the faster one's delete. |
| `UpsertsDoNotConflict` | `strategies.cfg` without `"local_queue"` and `"supabase"` | A pessimistic insert that is retired by its echo while the next one is queued leaves no row to compare with, so the same echo delivered again conflicts with the next and drops it. |
| `NewestEditIsVisible`, `VersionsNeverRegress` | `two_tabs.cfg` | The put of `bug_two_tabs`. Or a prune: `_hydrate` finds the row clean, another tab edits it, and the row is deleted with the edit it shows (`T/client.mjs:571`); the write stays queued. |
| `VisibleIsCommittedOrPending` | `two_tabs.cfg` with `Strategies = {"optimistic", "pessimistic"}` | A conflict that was judged by an older list drops the optimistic write the row shows; a pessimistic write that another tab queued meanwhile keeps the row from being taken as clean, and the dropped payload stays. |
| `TokenFailureIsRetried` (`Connections`) | `connection.cfg` | A token provider that fails once ends the stream: `auth-error` is reported and no reconnect is scheduled (`T/transports/backend.mjs:131`), against "WebSocket auto-reconnect" at line 14. |
| `ConnectingFlushes` (`Connections`) | `connection.cfg` | `SUBSCRIBED` hydrates but does not flush (`T/start.mjs:198`); its header says that both do. |

The clock's documentation also says more than the code: `T/hlc.mjs:48` names
`store.getHlcState()` and `langs/dart/lib/src/hlc.dart:64` says that the SQLite store
persists the clock in the optimistic-write transaction; no store has either, and
nothing in the client stamps a write. An application that persists `state()` itself
gets what `RestoredClockIsTheSame` says.

The convergence that does hold is stated by `IgnoredIsHeld`,
`LatestChangeConverges`, `CaughtUp` and `EventuallyAgrees`.

## 8. What is proved

TLAPS checks the following for all rows, bounds, strategies, operations and
transports; the only assumptions are the named `ASSUME`s of the modules (bounds
are naturals, the constants are subsets of their types, `startSync` always hydrates)
and, for the clock, that its bounds are naturals.

* `SyncReplicaProofs`: `TypeCorrect`, `Spec => []TypeOK`; `DurableIntent`,
  `VisibleTruth`, `NoWriteLost` and `NeverAhead`, that is `[]IntentIsDurable`,
  `[]VisibleIsCommittedOrPending`, `[]WritesAreAccounted` and `[]VersionsAreIssued`, for
  optimistic, queued and pessimistic writes together and with deletes, which is more
  than the runs cover; and `ClientKeepsLedger`, `Spec => KeepsLedger`, the refinement of
  `WriteLedger`.
* `SyncHistoryProofs`: the other invariants and the action properties of the client.

  | Theorem | States | Provided that |
  |---|---|---|
  | `NewestEditStays` | `[]NewestEditIsVisible` | pessimistic writes and deletes are not used together |
  | `NothingIsHidden` | `[]IgnoredIsHeld` | - |
  | `LatestConverges` | `LatestChangeConverges` | - |
  | `DeletesStay` | `SettledDeletesStay` | - |
  | `NeverBack` | `VersionsNeverRegress` | there are no pessimistic writes |
  | `OwnUpsertsAgree` | `UpsertsDoNotConflict` | there are no pessimistic writes |

* `CatchUpProofs`: `CursorNeverSkips`, `CatchUpSpec => []CursorCoversGiven`, for any
  page size and with both pullers, snapshots, deletes, failures and restarts;
  `CatchUpIsSafe`, `CatchUpKeepsNewest` and `CatchUpKeepsLedger`: the four safety
  invariants, `NewestEditIsVisible` (as above) and `KeepsLedger` again, for a replica
  that also pulls, prunes and restarts; and `CatchesUp`, `[]CaughtUp`, for a replica
  brought up to date by hydration alone (`Alone`), or by any pulls and live events but
  without deletes, pessimistic writes and snapshots (`Upserting`).
* `SharedStoreProofs`: `TabsKeepIntent`, `TabsLoseNoWrite`, `TabsNeverAhead`, that is
  `[]DirtyIsQueued`, `[]WritesAreAccounted` and `[]VersionsAreIssued` for any number of
  tabs and all strategies; and `TabsShowTruth`, `[]VisibleIsCommittedOrPending`, without
  pessimistic writes.
* `LocalStoreProofs`: `ListsIndexed`, `LocalSpec => []ListsAreIndexed`, and
  `AdapterKeepsContract`, `LocalSpec => KeepsContract`, the refinement of
  `StoreContract` by the localStorage document, for any rows, writes and versions.
* `ConnectionsProofs`: `StopHolds`, `StreamsExclude` and `NeverGivesUp`, that is
  `[]StopIsFinal`, `[]OneStream` and `[]KeepsTrying`; `ConnectionTyped`, `[]TypeOK`; and
  `BackoffIsFresh`, the action property `FreshBackoff`; all for any delays.
* `JournalProofs`: `KeysAreOnce` and `RowOrder`, that is `[]KeyNamesOneChange` and
  `[]RowsAreInOrder`, for any number of sessions, rows, keys and numbers.
* `HlcProofs`: stamps of local writes strictly increase, whatever the wall clock does,
  and run ahead by a millisecond at most (`TickAdvances`), except at the largest wall
  time and counter, where the last stamp repeats (`LastStampRepeats`); a stamp after
  an observation is past both the clock and the observed time (`ObserveAdvances`); a
  restored clock goes on where it stopped (`RestoredClockIsTheSame`).

**The client.** The four safety invariants of `SyncReplicaProofs` are not inductive alone. That
an echo proves its write committed needs `LogIsTrue` (every logged change names the
version, row and write that the server recorded); that an ack does not put a row ahead
of the server needs `AcksAreCommits`; that a touched absent row carries nothing needs
`AbsentIsEmpty`; and that a newly issued write bears no old mark needs `MarksAreQueued`.
`IInv` is their conjunction with `TypeOK`. It was checked with TLC on three writes of
all strategies and operations (3.4 million states) before it was proved.

The argument goes by transaction. `RetireSafe` covers the three that retire a
committed write: whatever they put in the row is acceptable if it satisfies
`SettledRowOK` (dirty exactly when other writes of the row are queued, a payload
that is committed or still pending, a version the server has reached). One lemma each
shows that for `AckedRow`, `PessimisticRow` and `EchoedRow`, from two outcomes: the row
is absent (`AbsentSettles`) or present (`PresentSettles`). `KeptPayload` is the
crux: the payload that stays is not the retired write's, or is committed.
`ServerWinsSafe` covers an applied change and a resolved conflict, for which
`AppliesToCleanRow` shows that a change is never applied over queued intent.
`CommitSafe` covers the server.

**The history.** The safety invariant says that the replica is not ahead of the server,
not that it has what the server has. `History` adds two things. About the server: the
log has the latest change of every row and says what the row now is, and no two writes
of a row have the same version (`ServerHistory`). About the queue: a mark on a queued
write is the commit of a later write of the row that left the queue by ack or echo,
and every such commit left its mark (`QueueHistory`). So a write without a mark is one
that no later write overtook. That is what `NewestEditIsVisible` speaks of, and
`HistoryInv` is inductive with it.

The hypotheses in the table are where the code stops keeping the promise: section 7 has a
counterexample for each, a pessimistic ack over a queued delete, one older than the row,
and a pessimistic insert whose row is not there yet. `LatestChangeConverges` needs none: the
delete of Supabase has a version one too small, which may leave it without any effect
(`NothingHidden` in section 7), but where it has one it is the right one.
`OwnUpsertsAgree` needs one more fact, `OwnUpsertsShow`: a row that only upserts
ever concerned stays present from its first own write on, at no older a version than its
settled writes have, so that the echo of a write is compared with that version.

**The ledger.** The same invariant carries the refinement: an ack retires a write that
the server recorded because `acks` is what it recorded (`CommitIsAccept`,
`SettleIsSettled`), and an echo does by `LogIsTrue`. A conflict drops the row's whole
queue, which is what `Drop` does (`ChangeIsDrop`; the same lemma serves live events,
pages and snapshots). Every other action leaves the
mapped variables alone (`NoLedgerStep`).

**The catch-up.** The inductive invariant adds that a pull under way has given the
replica everything up to its position (`PullsCoverGiven`): a page starts where a
covered cursor ends, each change is given before the position moves, and the cursor
is stored at the end of the page.

That a page or a snapshot is no worse than a live event rests on `Bringing`: the
journal is the log in order (`Shape`), and a fetched row is one the server had
(`SnapshotTrue`). A row of a snapshot may be old, but then its version is, too.

`CatchesUp` says of every row whose changes have all been reached by a pull
(`Seen`) that it agrees with the server once nothing of it is queued (`SeenAgrees`).
Reaching a change settles the write it came from (`CoveredHaveLeft`), so a row that
has been seen has no queued write of which the server knows. What may undo the agreement
afterwards is an old change; under `Alone` there is none but those of a replayed page,
which starts at the cursor and so ends with the row's last change, or of a snapshot the
cursor has not passed (`InOrder`); under `Upserting` the row is present with its version,
which screens them. Outside both, `CaughtUp` is false: section 7 shows how a late live
upsert, a second pull, a stale snapshot and a late pessimistic insert undo what was caught up. The runs `catch_up` and
`concurrent_pulls` satisfy one hypothesis each.

**The tabs.** What of the safety invariant holds of each transaction wherever it runs is
its `Core`, proved in `SyncReplicaProofs` for any event and any list of writes, not for
those of the moment. For a tab that acts on old reads it remains to show that
they are not wrong (`WorkOK`): its event was committed, the version it read was reached, and
the writes it missed are newer than those it saw. A row may be pruned whatever it is
(`PruneSafe`): its writes stay queued. That the row's shown payload then
belongs to a queued write needs `ShownIsNewest`: a conflict judged by an older list
drops the shown write only if it leaves no newer one, since the shown write is the newest.
A pessimistic write is queued without being shown, which breaks this (section 7).
`IntentIsDirty`, the other half of `IntentIsDurable`, is what `bug_two_tabs` refutes.

**The document.** The adapter finds a row or a write by searching a list, so what an
operation does depends on positions until the lists are known to be indexed: one record
per row, a queue in order below `next_seq` (`Sound`). With a sound document, a row's
record is `RowOf`, a write's is `QueueRecord`, whatever their positions (`RowAt`,
`QueueAt`), and each list edit is described by these views alone: `putRow`, `deleteRow`
and `touch` change one row and nothing else (`Placed`), retiring raises the marks of the
older writes of the row and takes one write out (`RetiredReads`), a conflict takes a set
out (`WithoutReads`). All keep the document sound, in particular the filter of the queue:
`Counting` shows that its n-th record is well defined by counting the positions that
stay, which needs no induction over the list. It remains to show that the views change as
the contract's variables do: one lemma per operation, from `SettleAckStep` to
`QueueStep`, each of which places one row and then retires, drops or queues writes
(`Settling`, `Dropping`, `Queueing`). The second part of the invariant, `Agrees`, says that
a queue record has the row and the operation of the write that was made under its number;
the operations of the code read them from the record, the contract from the write.

**The connection.** The three invariants are inductive together with two facts about a
source that is gone: it failed for good, or `stop` closed it (`GoneForGood`).
Without the second, `stop` followed by a late token would look like an attempt that
was lost. Whatever starts an attempt starts it when nothing is under way
(`Exclusive`), which is why no socket is ever overwritten. For the back-off it is shown
that the counter of attempts is zero as long as a socket is open (`OpenIsFresh`): only
a loss schedules a retry, and a loss takes the socket away in the same task.

**The journal.** Both properties are invariants of what each session *sees*, the
committed changes together with its own (`Good(Seen(t))`). A captured change is above
everything its session sees (`GoodWithOneMore`). A commit puts two views together, and
they fit because open transactions share neither a row nor a key (`Apart`), which row
locks and the wait for a concurrent insert guarantee (`GoodTogether`).

## 9. What is not modelled, and what is only model-checked

Only model-checked:

* Liveness under fairness, which is out of the prover's reach: `QueueDrains`,
  `EventuallyAgrees`, `Reconnects`, `OutageWritesGoOut`.
* The properties of `SyncHistoryProofs` and `CatchesUp` beyond their hypotheses, on no
  instance, since they are false there (section 7).

`Hlc` is only proved: it has no run.

Abstracted on purpose: payload contents and merge, local timestamps, attempt counts
beyond "still queued or not", telemetry, validation of malformed input, errors of
the storage engine (a transaction that aborts leaves the state as it was:
`CallFailed` and `FlushFailed` cover it).

Not modelled:

* The Dart client and its SQLite store. They repeat the JavaScript client transaction by
  transaction; a model would restate `SyncReplica`. They differ in two places:
  `settlePessimistic` (`langs/dart/lib/src/sqlite_store.dart:314`) preserves a dirty row
  only for a newer write that is not pessimistic, and `pull` has no hydration around it.
* The cursor that several tabs share. `SharedStore` has what their pages and snapshots
  bring, not the cursor; that pulls interleaving over one cursor skip nothing is what
  `concurrent_pulls` checks for two pulls of one client.
* Opening and upgrading the database (`openStore`), and the fallback of
  `openBrowserStore` to another store. A tab whose connection was closed fails every
  operation, which `SharedStore` covers as a tab that closes; the fallback exchanges the
  state as a whole.
* `maintain_row_timestamps`: a trigger on a single row, read by no other part.
* Tenants and row-level security: every query carries the tenant, so the journal is that
  of one tenant.
* `deepMerge` and the schema validators: stateless recursions over documents.
* Generated code, bindings, HTMX and telemetry glue, tooling.
