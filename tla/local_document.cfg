SPECIFICATION LocalSpec
CONSTANTS
  Rows = {r1, r2}
  MaxWrites = 2
  MaxVersion = 2
  MaxCursor = 1
SYMMETRY RowSymmetry
INVARIANTS
  ListsAreIndexed
PROPERTIES
  KeepsContract
