\* One call has returned, two are live; two databases and room for one entry,
\* so that evictions, drops and recreations meet calls that hold the evicted
\* pool.  A query timeout is configured.
SPECIFICATION WarmSpec
CONSTANTS
  First = c1
  Calls = {c1, c2, c3}
  Dbs = {main, other}
  Default = main
  NoPool = NoPool
  Capacity = 1
  PoolSize = 1
  Timeout = TRUE
  Graceful = FALSE
INVARIANTS
  CachedPoolsUsable
  NoPoolLeaks
  FreshAfterDrop
PROPERTIES
  ShutdownReturns
