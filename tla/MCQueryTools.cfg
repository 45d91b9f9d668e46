\* Two calls on the one connection of their pool, statements nested two deep.
SPECIFICATION Spec
CONSTANTS
  c1 = c1
  c2 = c2
  k1 = k1
  main = main
  other = other
  Depth = 2
  Calls = {c1, c2}
  Conns = {k1}
  Dbs = {main, other}
  Home <- MCHome
  Configs <- MCConfigs
  NoCall = NoCall
  NoDb = NoDb
SYMMETRY CallSymmetry
CHECK_DEADLOCK FALSE
INVARIANTS
  ReadsChangeNothing
  IdleConnectionsClean
  AnswersTellTheEffect
  RunsInNamedDatabase
