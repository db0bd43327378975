SPECIFICATION Spec
CONSTANTS
  Rows = {r1, r2}
  Keys = {k1}
  Sessions = {s1, s2}
  MaxSequence = 3
  PageSize = 2
INVARIANTS
  CursorSkipsNothing
