SPECIFICATION Spec
CONSTANTS
  Rows = {r1}
  MaxWrites = 3
  MaxVersion = 1
  Strategies = {"optimistic"}
  Ops = {"upsert", "delete"}
  Transports = {"backend", "supabase"}
  Flushes = {f1}
INVARIANTS
  TypeOK
  IntentIsDurable
  VisibleIsCommittedOrPending
  WritesAreAccounted
  VersionsAreIssued
  NewestEditIsVisible
  IgnoredIsHeld
PROPERTIES
  VersionsNeverRegress
  LatestChangeConverges
  SettledDeletesStay
  UpsertsDoNotConflict
  KeepsLedger
