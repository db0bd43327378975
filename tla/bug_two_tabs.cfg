SPECIFICATION SharedSpec
CONSTANTS
  Rows = {r1}
  MaxWrites = 2
  MaxVersion = 1
  Strategies = {"optimistic"}
  Ops = {"upsert"}
  Transports = {"backend"}
  Flushes = {f1}
  Tabs = {t1, t2}
INVARIANTS
  IntentIsDurable
