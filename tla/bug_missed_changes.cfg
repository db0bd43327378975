SPECIFICATION CatchUpSpec
CONSTANTS
  Rows = {r1}
  MaxWrites = 0
  MaxVersion = 3
  Strategies = {"optimistic"}
  Ops = {"upsert"}
  Transports = {"backend"}
  Flushes = {f1}
  PageSize = 1
  Pullers = {"hydrate"}
  Snapshots = FALSE
  MayFail = FALSE
INVARIANTS
  MissedLands
