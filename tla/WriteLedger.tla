----------------------------- MODULE WriteLedger -----------------------------
(***************************************************************************)
(* What the sync client promises about local writes, whatever the network     *)
(* does: a write is pending from the moment it is issued; the server commits   *)
(* it at most once; it stops being pending only when it is committed, or when  *)
(* a conflict drops all that is pending of its row at once; and it is never    *)
(* pending again (client.mjs: "every strategy first persists a durable resend  *)
(* intent").                                                                *)
(***************************************************************************)
EXTENDS Integers, Sequences

CONSTANTS
  Rows,       \* what writes are about
  MaxWrites   \* bound: how many writes are ever issued

VARIABLES
  issued,     \* the row of each write, in the order of their issue
  pending,    \* the writes that are to be sent, or sent again
  committed,  \* the writes the server has accepted
  dropped     \* the writes given up in favour of somebody else's change

ledger == <<issued, pending, committed, dropped>>

LedgerInit ==
  /\ issued = << >>
  /\ pending = {}
  /\ committed = {}
  /\ dropped = {}

Issue(r) ==
  /\ Len(issued) < MaxWrites
  /\ issued' = Append(issued, r)
  /\ pending' = pending \cup {Len(issued) + 1}
  /\ UNCHANGED <<committed, dropped>>

\* A request that was sent may still commit after its write was dropped.
Accept(s) ==
  /\ s \in 1 .. Len(issued)
  /\ committed' = committed \cup {s}
  /\ UNCHANGED <<issued, pending, dropped>>

Settled(s) ==
  /\ s \in pending \cap committed
  /\ pending' = pending \ {s}
  /\ UNCHANGED <<issued, committed, dropped>>

PendingOf(r) == {s \in pending : issued[s] = r}

Drop(r) ==
  /\ pending' = pending \ PendingOf(r)
  /\ dropped' = dropped \cup PendingOf(r)
  /\ UNCHANGED <<issued, committed>>

LedgerNext ==
  \/ \E r \in Rows : Issue(r) \/ Drop(r)
  \/ \E s \in 1 .. Len(issued) : Accept(s) \/ Settled(s)

LedgerSpec == LedgerInit /\ [][LedgerNext]_ledger

=============================================================================
