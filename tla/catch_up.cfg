SPECIFICATION FairCatchUpSpec
CONSTANTS
  Rows = {r1}
  MaxWrites = 2
  MaxVersion = 2
  Strategies = {"optimistic"}
  Ops = {"upsert", "delete"}
  Transports = {}
  Flushes = {f1}
  PageSize = 1
  Pullers = {"hydrate"}
  Snapshots = TRUE
  MayFail = TRUE
INVARIANTS
  CursorCoversGiven
  CaughtUp
  NewestEditIsVisible
PROPERTIES
  EventuallyAgrees
