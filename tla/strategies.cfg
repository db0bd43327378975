SPECIFICATION FairSpec
CONSTANTS
  Rows = {r1}
  MaxWrites = 2
  MaxVersion = 2
  Strategies = {"optimistic", "local_queue", "pessimistic"}
  Ops = {"upsert"}
  Transports = {"backend", "supabase"}
  Flushes = {f1, f2}
INVARIANTS
  VisibleIsCommittedOrPending
  NewestEditIsVisible
PROPERTIES
  LatestChangeConverges
  QueueDrains
