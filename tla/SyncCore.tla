------------------------------ MODULE SyncCore ------------------------------
(***************************************************************************)
(* The pure decision rules of the sync engine: the Rust crate              *)
(* fiducia-sync-core, which the JavaScript SDK calls through wasm and the   *)
(* Dart SDK mirrors in core.dart.  A row of a replica is summarised by      *)
(* [here, version, dirty]; an incoming change is an event                   *)
(* [row, op, version, val, key].                                            *)
(*                                                                         *)
(* An operator that a comment introduces as "Fault:" is a plausible wrong    *)
(* version of the one that follows it.  No specification uses it; it is      *)
(* there to be put in the place of the right one, to see which property      *)
(* notices.                                                                 *)
(***************************************************************************)
EXTENDS Integers

Op == {"upsert", "delete"}

\* The write_key of an event that names no write (Option::None).
NoKey == 0

Later(a, b) == IF a >= b THEN a ELSE b

-----------------------------------------------------------------------------
(* reconcile: what to do with an incoming change given the local row.       *)

\* Fault: a change that is not older counts as news.
ReconcileEqualFault(local, event) ==
  CASE ~local.here /\ event.op = "upsert"           -> "apply"
    [] ~local.here /\ event.op = "delete"           -> "already applied"
    [] local.here /\ event.version < local.version  -> "stale"
    [] OTHER -> IF local.dirty THEN "conflict" ELSE "apply"

\* Fault: older changes are not told apart.
ReconcileStaleFault(local, event) ==
  CASE ~local.here /\ event.op = "upsert"           -> "apply"
    [] ~local.here /\ event.op = "delete"           -> "already applied"
    [] local.here /\ event.version = local.version  -> "already applied"
    [] OTHER -> IF local.dirty THEN "conflict" ELSE "apply"

Reconcile(local, event) ==
  CASE ~local.here /\ event.op = "upsert"           -> "apply"
    [] ~local.here /\ event.op = "delete"           -> "already applied"
    [] local.here /\ event.version < local.version  -> "stale"
    [] local.here /\ event.version = local.version  -> "already applied"
    [] OTHER -> IF local.dirty THEN "conflict" ELSE "apply"

-----------------------------------------------------------------------------
(* QueuedWrite::is_echo_of, for a write that carries a key: same row, same   *)
(* operation and exactly the write's own key.                                *)

\* Fault: the legacy base_version + 1 heuristic applied to a keyed write.
IsEchoOfFault(key, write, event) ==
  /\ event.row = write.row
  /\ event.op = write.op
  /\ event.version = write.base + 1

IsEchoOf(key, write, event) ==
  /\ event.row = write.row
  /\ event.op = write.op
  /\ event.key = key

-----------------------------------------------------------------------------
(* on_ack: adopt the committed version unless a newer change landed.         *)

\* Fault: an ack is always adopted.
AckAdoptsFault(version, committed) == TRUE

AckAdopts(version, committed) == version <= committed

=============================================================================
