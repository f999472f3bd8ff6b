SPECIFICATION PagingSpec
SYMMETRY Symmetry
CHECK_DEADLOCK FALSE
CONSTANTS
  Jobs = {j1, j2, j3, j4, j5}
  Times = 3
  Since = 1
  Until = 3
  Limit = 2
INVARIANTS ListedExactlyOnce
