SPECIFICATION JwksSpec
CONSTANTS
  None = None
  Lookups = {l1}
  Kids = {k1}
  Fresh = 1
  Stale = 2
  Retry = 2
  FetchTimeout = 1
  MaxTime = 4
INVARIANTS StaleWindowKept
CHECK_DEADLOCK FALSE
