SPECIFICATION Spec
CONSTANTS
  r1 = r1 r2 = r2 r3 = r3 alice = alice bob = bob a = a b = b a1 = a1 a2 = a2 b1 = b1
  old = old new = new search = search drop = drop
  Requests = {r1, r2, r3}
  Identities = {alice, bob}
  Versions = {a1, a2, b1}
  Refs = {a, b}
  IdentityOf <- MCIdentityOf
  QueryOf <- MCQueryOf
  PolicyOf <- MCPolicyOf
  ScopesOf <- MCScopesOf
  RefOf <- MCRefOf
  StubOf <- MCStubOf
  SpecOf <- MCSpecOf
  Ranking <- MCRanking
  Breaking <- MCBreaking
  Anything = Anything
  None = None
  SearchTtl = 1
  ArtifactTtl = 1
  OfflineMax = 2
  MaxSearches = 1
  MaxArtifacts = 1
  Timeout = 1
  MaxTime = 3
  MaxChanges = 1
CONSTRAINT InTurn
INVARIANTS IdentitiesIsolated ArtifactIsExact LeasesKept SurfaceIsReviewed
CHECK_DEADLOCK FALSE
