SPECIFICATION ReleaseSpec
CONSTANTS
  None = None
  own = own twin = twin rival = rival trial = trial original = original changed = changed
  Jobs = {own, twin, rival, trial}
  Contents = {original, changed}
  ContentOf <- MCContentOf
  DryRuns = {trial}
  Officials = {own, trial}
  Altered = Altered
  Goals = {"probed", "active", "degraded"}
  ConditionSets <- MCConditionSets
  MaxLog = 4
  MaxGeneration = 2
  Candidates = {1, 2, 3}
  Tenants = {1, 2}
  TenantOf <- MCTenantOf
  PublishedAt <- MCPublishedAt
  Policies <- MCPolicies
  Unstable = {"scope_not_ready"}
  PageSize = 1
  MaxEvaluations = 2
  MaxPages = 2
  Bundles <- MCBundles
  FlawSets <- MCFlawSets
  Reviews <- MCReviews
  Plans <- MCPlans
  Defects = {"unlimited", "forgets_key", "loses_replay", "amplifies", "leaks", "spreads", "flickers",
             "denies_stale", "accepts_late", "loses_call", "shrinks", "stays_down", "remembers"}
  Growth = 2
  MaxAttempts = 3
  StaleCalls = 1
  CircuitCall = 2
  Surfaces <- MCSurfaces
  Values <- MCValues
  MaxDepth = 4
INVARIANTS ReportIsTrue VerdictIsCurrent AppliedIsWhole PromotionIsEarned VerdictIsEarned
  ReadyIsCompatible
PROPERTIES OneGenerationForward WaitEnds AdmissionIsFair
CHECK_DEADLOCK FALSE
