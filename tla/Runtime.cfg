SPECIFICATION RuntimeSpec
CONSTANTS
  c1 = c1  c2 = c2  c3 = c3
  read = read  write = write
  acme = acme  globex = globex
  Calls = {c1, c2, c3}
  Tools = {read, write}
  Tenants = {acme, globex}
  ToolOf <- MCToolOf
  TenantOf <- MCTenantOf
  RetrySafe <- MCRetrySafe
  MaxGlobal = 3
  MaxServer = 2
  MaxTool = 1
  MaxTenant = 2
  MaxAttempts = 2
  MaxTaskCancels = 4
  TransportCancels = {c3}
  N = 4
  Runner = runner
  Manual = {o1, o2}
  ManualOps = {"drain", "stop"}
  MaxOps = 2
  NoOwner = NoOwner
CONSTRAINT InBounds
INVARIANTS CountersExact LeaseFollowsWork DetachedExact DrainJoinsCalls StopsInReverse CleanExit
PROPERTIES NoRetryAfterCancel BulkheadRefined ShutdownEnds CallerAnswered RunReturns
CHECK_DEADLOCK FALSE
