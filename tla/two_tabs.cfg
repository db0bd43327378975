SPECIFICATION SharedSpec
CONSTANTS
  Rows = {r1}
  MaxWrites = 2
  MaxVersion = 1
  Strategies = {"optimistic"}
  Ops = {"upsert", "delete"}
  Transports = {"backend", "supabase"}
  Flushes = {f1}
  Tabs = {t1, t2}
SYMMETRY TabSymmetry
INVARIANTS
  DirtyIsQueued
  VisibleIsCommittedOrPending
  WritesAreAccounted
  VersionsAreIssued
