\* Every list tool over three objects that come and go, pages of one and two,
\* and two changes by others.
SPECIFICATION Spec
CONSTANTS
  db1 = "db1"
  db2 = "db2"
  User = "db2"
  Matching = {1, 3, 11, 13, 14, 16}
  Requests <- MCRequests
  World <- MCWorld
  Changing <- MCChanging
  Starts = {0, 1, 105, 110}
  I64Max = 100
  U64Max = 110
  MaxChanges = 2
CHECK_DEADLOCK FALSE
INVARIANTS
  StableListedOnce
  ChangesShiftOnly
PROPERTIES
  PagingEnds
