SPECIFICATION FairCatchUpSpec
CONSTANTS
  Rows = {r1}
  MaxWrites = 1
  MaxVersion = 2
  Strategies = {"optimistic"}
  Ops = {"upsert"}
  Transports = {"backend"}
  Flushes = {f1}
  PageSize = 1
  Pullers = {"hydrate", "app"}
  Snapshots = FALSE
  MayFail = TRUE
INVARIANTS
  CursorCoversGiven
  CaughtUp
PROPERTIES
  EventuallyAgrees
