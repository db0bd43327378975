SPECIFICATION Spec
CONSTANTS
  Rows = {r1, r2}
  Keys = {k1}
  Sessions = {s1, s2}
  MaxSequence = 4
  PageSize = 1
INVARIANTS
  KeyNamesOneChange
  RowsAreInOrder
