----------------------------- MODULE SharedStore -----------------------------
(***************************************************************************)
(* Several tabs of one plane: each runs its own client (client.mjs) over the  *)
(* one database they share.  The promise chain that makes a client's local    *)
(* transitions atomic is per tab, so here a transition takes the steps it is   *)
(* made of: its reads (store.meta, queue.list), each a transaction, and the    *)
(* transaction it ends in; the transactions of other tabs come in between.     *)
(* A hydration is one such transition for each row it reconciles or prunes.    *)
(*                                                                         *)
(* Which tab sent a request changes nothing, since a settlement reads and      *)
(* writes in one transaction: sends, acks and failures are SyncReplica's, and  *)
(* a flush of any tab is a resend.                                          *)
(***************************************************************************)
EXTENDS SyncReplica

CONSTANT Tabs

VARIABLE tabs   \* the transition each tab is in the middle of

sharedVars == <<vars, tabs>>

\* What a transition has read: the row when it began, then the writes of the
\* row.  A write() only reads the row, and so does pruning.
Idle == [phase |-> "idle"]
Applying(e) == [phase |-> "queue", event |-> e, meta |-> store[e.row]]
Listed(w) == [phase |-> "decide", event |-> w.event, meta |-> w.meta,
              seqs |-> RowQueue(w.event.row)]
Writing(r, op, strategy) ==
  [phase |-> "write", row |-> r, op |-> op, strategy |-> strategy,
   base |-> store[r].version]
Pruning(r) == [phase |-> "prune", row |-> r]

SharedInit == Init /\ tabs = [t \in Tabs |-> Idle]

Goes(t, work) == tabs' = [tabs EXCEPT ![t] = work]

-----------------------------------------------------------------------------
(* write().                                                                 *)

WriteReads(t, r, op, strategy) ==
  /\ tabs[t] = Idle
  /\ Len(writes) < MaxWrites
  /\ Goes(t, Writing(r, op, strategy))
  /\ UNCHANGED vars

\* The write is minted on the base that was read, and persisted; the send starts.
WriteEnqueues(t) ==
  LET w == tabs[t]
      write == [row |-> w.row, op |-> w.op, base |-> w.base, strategy |-> w.strategy]
      s == NextSeq
  IN  /\ w.phase = "write"
      /\ Len(writes) < MaxWrites
      /\ IF w.strategy = "pessimistic" THEN Enqueue(write) ELSE EnqueueOptimistic(write)
      /\ calls' = IF w.strategy = "local_queue" THEN calls ELSE calls \cup {s}
      /\ wire' = IF w.strategy = "local_queue" THEN wire ELSE wire \cup {s}
      /\ Goes(t, Idle)
      /\ UNCHANGED <<flush, serverVars, discarded>>

-----------------------------------------------------------------------------
(* applyChange() and hydrate().                                              *)

\* The forms in which a change comes to be reconciled: of a page, of a transport, and
\* of a snapshot (hydrate: an upsert without a key).
Forms(e) ==
  {e} \cup {Decoded(e, transport) : transport \in Transports}
      \cup (IF e.op = "upsert" THEN {[e EXCEPT !.key = NoKey]} ELSE {})

\* What a tab may have in hand, however old.
Changes == UNION {Forms(e) : e \in log}

ReadMeta(t, event) ==
  /\ tabs[t] = Idle
  /\ Goes(t, Applying(event))
  /\ UNCHANGED vars

ReadQueue(t) ==
  /\ tabs[t].phase = "queue"
  /\ Goes(t, Listed(tabs[t]))
  /\ UNCHANGED vars

EchoesRead(w) == {s \in w.seqs : IsEchoOf(s, writes[s], w.event)}

LocalRead(w) ==
  LET bases == {writes[s].base : s \in w.seqs}
  IN  IF w.seqs = {} THEN w.meta
      ELSE [here |-> TRUE, dirty |-> TRUE,
            version |-> IF w.meta.here THEN w.meta.version
                        ELSE CHOOSE b \in bases : \A c \in bases : c <= b]

\* What was read is news: to apply, or to refresh a clean row with.
IsNews(w) ==
  LET decision == Reconcile(LocalRead(w), w.event)
  IN  \/ decision = "apply"
      \/ decision = "already applied" /\ w.seqs = {} /\ ~w.meta.dirty

\* applyServer: the put or del, whatever the row is by now.
Puts(w) == ApplyServer(w.event)

\* adoptEcho looks for the write again; if another tab retired it meanwhile,
\* the transition starts over.
AdoptsEcho(t) ==
  \E s \in EchoesRead(tabs[t]) :
    IF s \in queue
    THEN /\ AdoptEcho(tabs[t].event, s)
         /\ Goes(t, Idle)
         /\ UNCHANGED <<callVars, wire, serverVars, discarded>>
    ELSE /\ Goes(t, Applying(tabs[t].event))
         /\ UNCHANGED vars

\* Fault: the conflict drops what is queued now.
StaleSeqsFault(w) == RowQueue(w.event.row)

\* The writes that the conflict was judged by.
StaleSeqs(w) == w.seqs

ResolvesConflict(t) ==
  LET w == tabs[t]
  IN  /\ Reconcile(LocalRead(w), w.event) = "conflict"
      /\ ResolveConflict(w.event, StaleSeqs(w))
      /\ discarded' = discarded \cup (w.seqs \cap queue)

Decide(t) ==
  LET w == tabs[t]
  IN  /\ w.phase = "decide"
      /\ \/ AdoptsEcho(t)
         \/ /\ EchoesRead(w) = {}
            /\ Goes(t, Idle)
            /\ UNCHANGED <<callVars, wire, serverVars>>
            /\ \/ IsNews(w) /\ Puts(w) /\ UNCHANGED discarded
               \/ ResolvesConflict(t)
               \/ /\ ~IsNews(w)
                  /\ Reconcile(LocalRead(w), w.event) # "conflict"
                  /\ UNCHANGED <<storeVars, discarded>>

\* hydrate finds a clean row that its snapshot, fetched at any time, does not have.
PruneReads(t, r) ==
  /\ tabs[t] = Idle
  /\ store[r].here /\ ~store[r].dirty
  /\ Goes(t, Pruning(r))
  /\ UNCHANGED vars

\* Then it deletes the row, whatever the row is by now.
PruneDeletes(t) ==
  LET w == tabs[t]
  IN  /\ w.phase = "prune"
      /\ store' = [store EXCEPT ![w.row] = Absent]
      /\ Goes(t, Idle)
      /\ UNCHANGED <<writes, queue, superseded, callVars, wire, serverVars, discarded>>

\* A tab is closed or reloaded.  The requests of a tab that is gone are those
\* that CallFailed gives up.
TabCloses(t) ==
  /\ tabs[t] # Idle
  /\ Goes(t, Idle)
  /\ UNCHANGED vars

-----------------------------------------------------------------------------
\* A flush of some tab sends a write that is still queued.
Resends(s) ==
  /\ s \in queue
  /\ calls' = calls \cup {s}
  /\ wire' = wire \cup {s}
  /\ UNCHANGED <<storeVars, flush, serverVars, discarded>>

Sends ==
  \E s \in Issued : CallAcked(s) \/ CallFailed(s) \/ Resends(s)

SharedNext ==
  \/ (Sends \/ Server) /\ UNCHANGED tabs
  \/ \E t \in Tabs :
       \/ \E r \in Rows, op \in Ops, strategy \in Strategies :
            WriteReads(t, r, op, strategy)
       \/ WriteEnqueues(t)
       \/ \E event \in Changes : ReadMeta(t, event)
       \/ ReadQueue(t)
       \/ Decide(t)
       \/ \E r \in Rows : PruneReads(t, r)
       \/ PruneDeletes(t)
       \/ TabCloses(t)

SharedSpec == SharedInit /\ [][SharedNext]_sharedVars

=============================================================================
