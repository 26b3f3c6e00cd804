SPECIFICATION GuardsSpec
CONSTANTS
  None = None
  k1 = k1
  Lookups = {l1, l2}
  Kids = {k1, k2}
  Fresh = 1
  Stale = 2
  Retry = 2
  FetchTimeout = 1
  MaxTime = 4
  c1 = c1 c2 = c2 other = other reuse = reuse stray = stray bare = bare hidden = hidden
  unscoped = unscoped unkeyed = unkeyed read = read
  once = once many = many pay = pay refund = refund
  Calls = {c1, c2, other, reuse, stray, bare, hidden, unscoped, unkeyed, read}
  Approvals = {once, many}
  Actions = {pay, refund}
  OneTime = {once}
  ActionOf <- MCActionOf
  ClaimOf <- MCClaimOf
  RecordFor <- MCRecordFor
  Exported <- MCExported
  InScope <- MCInScope
  Keyed <- MCKeyed
  Guarded <- MCGuarded
  r1 = r1 r2 = r2 r3 = r3 r4 = r4 r5 = r5 r6 = r6
  near = near far = far third = third foreign = foreign
  Requests = {r1, r2, r3, r4, r5, r6}
  Destinations = {near, far, third, foreign}
  Permitted = {near, far, third}
  Sensitive = {r1}
  DestOf <- MCDestOf
  Threshold = 2
  MaxDestinations = 2
  MaxRedirects = 2
  Addresses <- MCAddresses
  MaxAddresses = 2
  s1 = s1 s2 = s2 s3 = s3
  Spans = {s1, s2, s3}
  Tools = {t1, t2}
  Capacity = 2
  BatchSize = 1
  MaxTools = 1
  MaxEvents = 2
CONSTRAINT Bounded
SYMMETRY Alike
INVARIANTS WithdrawnKeyExpires OneUsePerApproval AllowedIsAudited ApprovalBindsAction
  CircuitIsSound HopsAreSafe AuditedOnce LossesCounted
PROPERTIES RetryIntervalKept DestinationsIsolated
CHECK_DEADLOCK FALSE
