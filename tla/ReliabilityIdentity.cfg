SPECIFICATION RelSpec
CONSTANTS
  None = None
  Plans <- MCPlans
  Defects = {"denies_stale", "flickers"}
  Growth = 2
  MaxAttempts = 3
  StaleCalls = 1
  CircuitCall = 2
INVARIANTS StaleOutageApproved
CHECK_DEADLOCK FALSE
