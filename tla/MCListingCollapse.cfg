\* Detailed pages of triggers that share a name.
SPECIFICATION Spec
CONSTANTS
  db1 = "db1"
  db2 = "db2"
  User = "db2"
  Matching = {1, 3, 11, 13, 14, 16}
  Requests <- MCRequests
  World <- MCWorld
  Changing <- MCChanging
  Starts = {0, 1, 105, 110}
  I64Max = 100
  U64Max = 110
  MaxChanges = 2
CHECK_DEADLOCK FALSE
INVARIANT DetailedShowsEveryRow
