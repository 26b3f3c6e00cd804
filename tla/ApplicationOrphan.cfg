SPECIFICATION AppSpec
CONSTANTS
  c1 = c1  c2 = c2  read = read  acme = acme
  Calls = {c1}
  Tools = {read}
  Tenants = {acme}
  ToolOf <- MCToolOf
  TenantOf <- MCTenantOf
  RetrySafe = {}
  MaxGlobal = 2  MaxServer = 2  MaxTool = 2  MaxTenant = 2
  MaxAttempts = 1
  MaxTaskCancels = 4
  TransportCancels = {}
INVARIANTS ShutdownLeavesNoOrphan
CHECK_DEADLOCK FALSE
