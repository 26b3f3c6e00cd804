--------------------------- MODULE RegistryProofs ----------------------------
(***************************************************************************)
(* Proofs about RegistryResolver: what a resolution rests on, for any      *)
(* number of requests, identities and versions, any leases, and caches of  *)
(* any size.  The invariant dates everything that is on its way or cached: *)
(* a listing is no older than the request that asked for it, its lease no  *)
(* longer than that allows, and so on up to the artifact; and everything   *)
(* cached under an identity's key was given to that identity.              *)
(***************************************************************************)
EXTENDS RegistryResolver, NaturalsInduction, WellFoundedInduction, TLAPS

-----------------------------------------------------------------------------
(* Sequences without one element, and the first of the eligible stubs. *)

\* Touching, putting and forgetting an entry keep the cache one of leases.
LEMMA OthersAreEntries ==
  ASSUME NEW S, NEW cache \in Seq(S), NEW key
  PROVE  Others(cache, key) \in Seq(S)
<1>1. CASE Entry(cache, key) = {}
  BY <1>1 DEF Others
<1>2. CASE Entry(cache, key) # {}
  <2> DEFINE j == CHOOSE i \in DOMAIN cache : cache[i].key = key
  <2>1. \E i \in DOMAIN cache : cache[i].key = key
    BY <1>2 DEF Entry, Range
  <2>2. j \in DOMAIN cache
    BY <2>1
  <2>3. j \in 1..Len(cache)
    BY <2>2
  <2> HIDE DEF j
  <2>4. RemoveAt(cache, j) \in Seq(S)
    BY <2>3 DEF RemoveAt
  <2> QED
    BY <1>2, <2>4 DEF Others, j
<1> QED
  BY <1>1, <1>2

\* An entry that is touched stays an entry.
LEMMA TouchedIsEntries ==
  ASSUME NEW S, NEW cache \in Seq(S), NEW entry \in S
  PROVE  Touched(cache, entry) \in Seq(S)
<1>1. Others(cache, entry.key) \in Seq(S)
  BY OthersAreEntries
<1> QED
  BY <1>1 DEF Touched

\* So does the cache after an entry is put, whatever had to make room.
LEMMA PutIsEntries ==
  ASSUME NEW S, NEW cache \in Seq(S), NEW entry \in S, NEW max \in Nat \ {0}
  PROVE  Put(cache, entry, max) \in Seq(S)
<1>1. Others(cache, entry.key) \in Seq(S)
  BY OthersAreEntries
<1> DEFINE all == Append(Others(cache, entry.key), entry)
<1>2. all \in Seq(S) /\ all # <<>>
  BY <1>1
<1> HIDE DEF all
<1>3. Tail(all) \in Seq(S)
  BY <1>2
<1> QED
  BY <1>2, <1>3 DEF Put, all

\* What is found under a key is an entry of the cache with that key.
LEMMA EntriesAreFound ==
  ASSUME NEW S, NEW cache \in Seq(S), NEW key, NEW e \in Entry(cache, key)
  PROVE  e \in S /\ e.key = key
BY DEF Entry, Range

\* Some stub comes first, however many there are.
LEMMA FirstIsOne ==
  ASSUME NEW stubs \in SUBSET Versions, stubs # {}
  PROVE  First(stubs) \in stubs
<1> DEFINE ranks == {Ranking[RefOf[v]] : v \in stubs}
<1>1. ranks \subseteq Nat /\ ranks # {}
  BY RegistryAssumptions
<1>2. PICK least \in ranks : \A n \in ranks : <<n, least>> \notin OpToRel(<, Nat)
  <2>1. IsWellFoundedOn(OpToRel(<, Nat), Nat)
    BY NatLessThanWellFounded
  <2> HIDE DEF ranks
  <2> QED
    BY <1>1, <2>1, WFMin
<1>3. PICK v \in stubs : least = Ranking[RefOf[v]]
  BY <1>2
<1>4. \A w \in stubs : Ranking[RefOf[v]] <= Ranking[RefOf[w]]
  <2> TAKE w \in stubs
  <2>1. <<Ranking[RefOf[w]], Ranking[RefOf[v]]>> \notin OpToRel(<, Nat)
    BY <1>2, <1>3
  <2>2. Ranking[RefOf[w]] \in Nat /\ Ranking[RefOf[v]] \in Nat
    BY RegistryAssumptions
  <2>3. ~(Ranking[RefOf[w]] < Ranking[RefOf[v]])
    BY <2>1, <2>2 DEF OpToRel
  <2> QED
    BY <2>2, <2>3
<1> QED
  BY <1>4 DEF First

-----------------------------------------------------------------------------
(* The invariant. *)

Listings == [stubs : SUBSET Versions, to : Identities]
Artifacts == [claims : Versions, content : Versions \cup {None}, at : Nat, to : Identities]

\* A search lease runs no longer than its time to live from when its refs were
\* last visible to the identity, and the time its request may have taken.
SearchLeases ==
  {e \in [key : Identities \X {QueryOf[r] : r \in Requests}, listing : Listings, expires : Nat] :
     /\ e.listing.to = e.key[1]
     /\ \A v \in e.listing.stubs :
          e.expires <= lastVisible[<<e.key[1], RefOf[v]>>] + Timeout + SearchTtl}

\* An artifact is leased from when the Registry served it.
ArtifactLeases ==
  {e \in [key : Identities \X Versions, artifact : Artifacts, fresh : Nat, stale : Nat] :
     /\ e.artifact.to = e.key[1]
     /\ e.fresh <= e.artifact.at + Timeout + ArtifactTtl
     /\ e.stale <= e.artifact.at + Timeout + ArtifactTtl + OfflineMax}

CachesLeased == searches \in Seq(SearchLeases) /\ artifacts \in Seq(ArtifactLeases)

\* A ref names a version of its own, and what is visible is visible now.
RegistryInv ==
  /\ now \in Nat
  /\ current \in [Refs -> Versions] /\ \A x \in Refs : RefOf[current[x]] = x
  /\ visible \subseteq Identities \X Refs
  /\ lastVisible \in [Identities \X Refs -> Nat]
  /\ \A p \in Identities \X Refs : lastVisible[p] <= now
  /\ \A p \in visible : lastVisible[p] = now

\* The stubs a request has received were visible when it asked or later; the stub
\* it has selected, within the search lease and one request; its artifact is no
\* older than the request that fetches it.
RequestInv(r) ==
  /\ sent[r] \in Nat
  /\ pc[r] \in InFlight => sent[r] <= now /\ now <= sent[r] + Timeout
  /\ pc[r] = "listed" =>
       /\ reply[r] \in Listings /\ reply[r].to = IdentityOf[r]
       /\ \A v \in reply[r].stubs : sent[r] <= lastVisible[<<IdentityOf[r], RefOf[v]>>]
  /\ pc[r] \in {"fetching", "fetched"} =>
       /\ picked[r].stub \in Versions /\ picked[r].to = IdentityOf[r]
       /\ sent[r] < lastVisible[<<IdentityOf[r], RefOf[picked[r].stub]>>] + SearchTtl + Timeout
  /\ pc[r] = "fetched" =>
       reply[r] \in Artifacts /\ reply[r].to = IdentityOf[r] /\ reply[r].at \in sent[r]..now

RequestsInv ==
  /\ pc = [r \in Requests |-> pc[r]] /\ sent = [r \in Requests |-> sent[r]]
  /\ picked = [r \in Requests |-> picked[r]] /\ reply = [r \in Requests |-> reply[r]]
  /\ \A r \in Requests : RequestInv(r)

ResolverInv == RegistryInv /\ CachesLeased /\ RequestsInv

\* Every resolution is isolated, exact, within its leases and reviewed.
Sound == IdentitiesIsolated /\ ArtifactIsExact /\ LeasesKept /\ SurfaceIsReviewed

\* Nothing is cached or under way, and everything is visible.
LEMMA InitResolverInv == Init => ResolverInv /\ Sound
  <1> SUFFICES ASSUME Init PROVE ResolverInv /\ Sound
    OBVIOUS
  <1>1. RegistryInv
    BY DEF Init, RegistryInv
  <1>2. CachesLeased
    BY DEF Init, CachesLeased
  <1>3. RequestsInv
    BY DEF Init, RequestsInv, RequestInv, InFlight
  <1>4. Sound
    BY DEF Init, Sound, IdentitiesIsolated, ArtifactIsExact, LeasesKept, SurfaceIsReviewed
  <1> QED  BY <1>1, <1>2, <1>3, <1>4 DEF ResolverInv

-----------------------------------------------------------------------------
(* The clock and the Registry. *)

\* When refs become visible later, what was dated before stays within its dates.
LEMMA LaterKeepsCaches ==
  ASSUME ResolverInv, lastVisible' \in [Identities \X Refs -> Nat],
         \A p \in Identities \X Refs : lastVisible[p] <= lastVisible'[p],
         UNCHANGED cacheVars
  PROVE  CachesLeased'
  <1>1. SearchLeases \subseteq SearchLeases'
    <2> SUFFICES ASSUME NEW e \in SearchLeases PROVE e \in SearchLeases'
      OBVIOUS
    <2>1. \A v \in e.listing.stubs : <<e.key[1], RefOf[v]>> \in Identities \X Refs
      BY RegistryAssumptions DEF SearchLeases, Listings
    <2>2. e.expires \in Nat /\ Timeout \in Nat /\ SearchTtl \in Nat
      BY RegistryAssumptions DEF SearchLeases, RegistryCachePolicy
    <2>3. \A v \in e.listing.stubs :
            e.expires <= lastVisible'[<<e.key[1], RefOf[v]>>] + Timeout + SearchTtl
      BY <2>1, <2>2 DEF SearchLeases, ResolverInv, RegistryInv
    <2> QED  BY <2>3 DEF SearchLeases
  <1>2. searches' = searches /\ artifacts' = artifacts
    BY DEF cacheVars
  <1>3. searches \in Seq(SearchLeases')
    BY <1>1 DEF ResolverInv, CachesLeased
  <1> QED  BY <1>2, <1>3 DEF ResolverInv, CachesLeased, ArtifactLeases

\* Time that passes within the timeout, and refs visible later, keep what the
\* requests know.
LEMMA LaterKeepsRequests ==
  ASSUME ResolverInv, lastVisible' \in [Identities \X Refs -> Nat],
         \A p \in Identities \X Refs : lastVisible[p] <= lastVisible'[p],
         now' \in Nat, now <= now',
         \A r \in Requests : pc[r] \in InFlight => now' <= sent[r] + Timeout,
         UNCHANGED requestVars
  PROVE  RequestsInv'
  <1>1. pc' = pc /\ sent' = sent /\ picked' = picked /\ reply' = reply
    BY DEF requestVars
  <1>2. ASSUME NEW r \in Requests PROVE RequestInv(r)'
    <2>1. RequestInv(r) /\ IdentityOf[r] \in Identities
      BY RegistryAssumptions DEF ResolverInv, RequestsInv
    <2>2. \A v \in Versions : <<IdentityOf[r], RefOf[v]>> \in Identities \X Refs
      BY <2>1, RegistryAssumptions
    <2>3. Timeout \in Nat /\ SearchTtl \in Nat /\ now \in Nat /\ sent[r] \in Nat
      BY <2>1, RegistryAssumptions DEF RegistryCachePolicy, ResolverInv, RegistryInv, RequestInv
    <2>4. lastVisible \in [Identities \X Refs -> Nat]
      BY DEF ResolverInv, RegistryInv
    <2>5. pc[r] = "listed" =>
            \A v \in reply[r].stubs : sent[r] <= lastVisible'[<<IdentityOf[r], RefOf[v]>>]
      BY <2>1, <2>2, <2>3, <2>4 DEF RequestInv, Listings
    <2>6. pc[r] \in {"fetching", "fetched"} =>
            sent[r] < lastVisible'[<<IdentityOf[r], RefOf[picked[r].stub]>>] + SearchTtl + Timeout
      <3> SUFFICES ASSUME pc[r] \in {"fetching", "fetched"}
                   PROVE  sent[r] < lastVisible'[<<IdentityOf[r], RefOf[picked[r].stub]>>]
                                      + SearchTtl + Timeout
        OBVIOUS
      <3> DEFINE p == <<IdentityOf[r], RefOf[picked[r].stub]>>
      <3>1. p \in Identities \X Refs /\ sent[r] < lastVisible[p] + SearchTtl + Timeout
        BY <2>1, <2>2 DEF RequestInv
      <3> HIDE DEF p
      <3>2. lastVisible[p] <= lastVisible'[p] /\ lastVisible[p] \in Nat /\ lastVisible'[p] \in Nat
        BY <2>4, <3>1
      <3>3. sent[r] < lastVisible'[p] + SearchTtl + Timeout
        BY <2>3, <3>1, <3>2
      <3> QED  BY <3>3 DEF p
    <2>7. pc[r] = "fetched" => reply[r].at \in sent[r]..now'
      BY <2>1, <2>3 DEF RequestInv
    <2>8. pc[r] \in InFlight => sent[r] <= now' /\ now' <= sent[r] + Timeout
      BY <2>1, <2>3 DEF RequestInv
    <2> QED  BY <1>1, <2>1, <2>5, <2>6, <2>7, <2>8 DEF RequestInv
  <1> QED  BY <1>1, <1>2 DEF ResolverInv, RequestsInv

\* A step that returns no resolution says nothing.
LEMMA NothingResolved == answer' = None => Sound'
  BY DEF Sound, IdentitiesIsolated, ArtifactIsExact, LeasesKept, SurfaceIsReviewed

\* Time passes: what is visible is visible now, and no request outlives its timeout.
LEMMA TickKeeps == ResolverInv /\ Tick => (ResolverInv /\ Sound)'
  <1> SUFFICES ASSUME ResolverInv, Tick PROVE (ResolverInv /\ Sound)'
    OBVIOUS
  <1>1. RegistryInv'
    BY DEF ResolverInv, RegistryInv, Tick
  <1>2. \A p \in Identities \X Refs : lastVisible[p] <= lastVisible'[p]
    BY DEF ResolverInv, RegistryInv, Tick
  <1>3. \A r \in Requests : pc[r] \in InFlight => now' <= sent[r] + Timeout
    <2>1. now' = now + 1 /\ now \in Nat /\ Timeout \in Nat /\ \A r \in Requests : sent[r] \in Nat
      BY RegistryAssumptions DEF ResolverInv, RegistryInv, RequestsInv, RequestInv, Tick
    <2> QED  BY <2>1 DEF Tick
  <1>4. now' \in Nat /\ now <= now' /\ UNCHANGED cacheVars /\ UNCHANGED requestVars
    BY DEF ResolverInv, RegistryInv, Tick
  <1>5. lastVisible' \in [Identities \X Refs -> Nat]
    BY <1>1 DEF RegistryInv
  <1>6. CachesLeased' /\ RequestsInv'
    BY <1>2, <1>3, <1>4, <1>5, LaterKeepsCaches, LaterKeepsRequests
  <1> QED  BY <1>1, <1>6, NothingResolved DEF ResolverInv, Tick

\* The Registry changes: what it withdraws was visible until now.
LEMMA RegistryChangesKeeps == ResolverInv /\ RegistryChanges => (ResolverInv /\ Sound)'
  <1> SUFFICES ASSUME ResolverInv, RegistryChanges PROVE (ResolverInv /\ Sound)'
    OBVIOUS
  <1>1. current' \in [Refs -> Versions] /\ \A x \in Refs : RefOf[current'[x]] = x
    BY RegistryAssumptions DEF ResolverInv, RegistryInv, RegistryChanges
  <1>2. visible' \subseteq Identities \X Refs
    BY DEF ResolverInv, RegistryInv, RegistryChanges
  <1>3. lastVisible' \in [Identities \X Refs -> Nat] /\ now' = now
    BY DEF ResolverInv, RegistryInv, RegistryChanges
  <1>4. /\ \A p \in Identities \X Refs : lastVisible'[p] <= now'
        /\ \A p \in visible' : lastVisible'[p] = now'
        /\ \A p \in Identities \X Refs : lastVisible[p] <= lastVisible'[p]
    BY <1>2 DEF ResolverInv, RegistryInv, RegistryChanges
  <1>5. RegistryInv'
    BY <1>1, <1>2, <1>3, <1>4 DEF ResolverInv, RegistryInv
  <1>6. \A r \in Requests : pc[r] \in InFlight => now' <= sent[r] + Timeout
    BY <1>3 DEF ResolverInv, RequestsInv, RequestInv
  <1>7. now' \in Nat /\ now <= now' /\ UNCHANGED cacheVars /\ UNCHANGED requestVars
    BY <1>3 DEF ResolverInv, RegistryInv, RegistryChanges
  <1>8. CachesLeased' /\ RequestsInv'
    BY <1>3, <1>4, <1>6, <1>7, LaterKeepsCaches, LaterKeepsRequests
  <1> QED  BY <1>5, <1>8, NothingResolved DEF ResolverInv, RegistryChanges

\* Lost content stays without effect on what an entry is leased for.
LEMMA CacheCorruptsKeeps == ResolverInv /\ CacheCorrupts => (ResolverInv /\ Sound)'
  <1> SUFFICES ASSUME ResolverInv, CacheCorrupts PROVE (ResolverInv /\ Sound)'
    OBVIOUS
  <1>1. PICK i \in DOMAIN artifacts :
          artifacts' = [artifacts EXCEPT ![i].artifact.content = None]
    BY DEF CacheCorrupts
  <1>2. artifacts \in Seq(ArtifactLeases) /\ artifacts[i] \in ArtifactLeases
    BY DEF ResolverInv, CachesLeased
  <1> DEFINE e == [artifacts[i] EXCEPT !.artifact.content = None]
  <1>3. e \in ArtifactLeases
    BY <1>2 DEF ArtifactLeases, Artifacts
  <1>4. artifacts' = [artifacts EXCEPT ![i] = e]
    BY <1>1, <1>2
  <1> HIDE DEF e
  <1>5. artifacts' \in Seq(ArtifactLeases)
    BY <1>2, <1>3, <1>4
  <1>6. UNCHANGED <<now, registryVars, searches, requestVars>> /\ answer' = None
    BY DEF CacheCorrupts
  <1>7. RegistryInv' /\ RequestsInv'
    BY <1>6 DEF ResolverInv, RegistryInv, RequestsInv, RequestInv, registryVars, requestVars
  <1>8. CachesLeased'
    BY <1>5, <1>6 DEF ResolverInv, CachesLeased, SearchLeases, ArtifactLeases, registryVars
  <1> QED  BY <1>6, <1>7, <1>8, NothingResolved DEF ResolverInv

-----------------------------------------------------------------------------
(* The parts of a resolution. *)

\* A step of a request leaves the clock and the Registry alone.
LEMMA RegistryStands ==
  ASSUME ResolverInv, UNCHANGED <<now, registryVars>>
  PROVE  RegistryInv' /\ SearchLeases' = SearchLeases /\ ArtifactLeases' = ArtifactLeases
  <1>1. now' = now /\ current' = current /\ visible' = visible /\ lastVisible' = lastVisible
    BY DEF registryVars
  <1> QED  BY <1>1 DEF ResolverInv, RegistryInv, SearchLeases, ArtifactLeases

\* A step of one request leaves the others where they are.
LEMMA OneMoves ==
  ASSUME ResolverInv, UNCHANGED <<now, registryVars>>, NEW r \in Requests,
         NEW a, NEW b, NEW c, NEW d,
         pc' = [pc EXCEPT ![r] = a], sent' = [sent EXCEPT ![r] = b],
         picked' = [picked EXCEPT ![r] = c], reply' = [reply EXCEPT ![r] = d],
         RequestInv(r)'
  PROVE  RequestsInv'
  <1>1. now' = now /\ lastVisible' = lastVisible
    BY DEF registryVars
  <1>2. ASSUME NEW q \in Requests PROVE RequestInv(q)'
    <2>1. CASE q # r
      <3>1. pc'[q] = pc[q] /\ sent'[q] = sent[q] /\ picked'[q] = picked[q] /\ reply'[q] = reply[q]
        BY <2>1 DEF ResolverInv, RequestsInv
      <3>2. RequestInv(q)
        BY DEF ResolverInv, RequestsInv
      <3> QED  BY <1>1, <3>1, <3>2 DEF RequestInv
    <2> QED  BY <2>1
  <1> QED  BY <1>2 DEF ResolverInv, RequestsInv

\* A request that ends knows nothing any more.
LEMMA EndKeeps ==
  ASSUME ResolverInv, UNCHANGED <<now, registryVars>>, NEW r \in Requests,
         NEW how \in {"done", "unreachable"}, End(r, how)
  PROVE  RequestsInv'
  <1>1. pc'[r] = how /\ sent'[r] = 0
    BY DEF ResolverInv, RequestsInv, End
  <1>2. RequestInv(r)'
    BY <1>1 DEF RequestInv, InFlight
  <1> QED  BY <1>2, OneMoves DEF End

\* A search is sent now.
LEMMA SearchKeeps ==
  ASSUME ResolverInv, UNCHANGED <<now, registryVars>>, NEW r \in Requests,
         Send(r, "searching", None)
  PROVE  RequestsInv'
  <1>1. pc'[r] = "searching" /\ sent'[r] = now /\ now' = now /\ now \in Nat /\ Timeout \in Nat
    BY RegistryAssumptions DEF ResolverInv, RequestsInv, RegistryInv, Send
  <1>2. RequestInv(r)'
    BY <1>1 DEF RequestInv
  <1> QED  BY <1>2, OneMoves DEF Send

\* The pick of a listing whose stubs were visible recently enough.
Recent(r, pick) ==
  /\ pick.stub \in Versions /\ pick.to = IdentityOf[r]
  /\ now < lastVisible[<<IdentityOf[r], RefOf[pick.stub]>>] + SearchTtl + Timeout

\* A fetch is sent now, for a stub that was visible recently.
LEMMA FetchKeeps ==
  ASSUME ResolverInv, UNCHANGED <<now, registryVars>>, NEW r \in Requests, NEW pick,
         Recent(r, pick), Send(r, "fetching", pick)
  PROVE  RequestsInv'
  <1>1. /\ pc'[r] = "fetching" /\ sent'[r] = now /\ picked'[r] = pick
        /\ now' = now /\ now \in Nat /\ Timeout \in Nat /\ lastVisible' = lastVisible
    BY RegistryAssumptions DEF ResolverInv, RequestsInv, RegistryInv, Send, registryVars
  <1>2. RequestInv(r)'
    BY <1>1 DEF RequestInv, Recent
  <1> QED  BY <1>2, OneMoves DEF Send

\* What a verified artifact is resolved to.
LEMMA ResolveKeeps ==
  ASSUME ResolverInv, UNCHANGED <<now, registryVars>>, NEW r \in Requests,
         NEW pick, NEW artifact, NEW source, Resolve(r, pick, artifact, source),
         pick.stub \in Versions, pick.to = IdentityOf[r], artifact.to = IdentityOf[r],
         artifact.at \in Nat,
         now < lastVisible[<<IdentityOf[r], RefOf[pick.stub]>>] + SearchTtl + 2 * Timeout,
         now < artifact.at + ArtifactTtl + Timeout + (IF source = "offline" THEN OfflineMax ELSE 0)
  PROVE  RequestsInv' /\ Sound'
  <1>1. CASE answer' = None
    BY <1>1, EndKeeps, NothingResolved DEF Resolve, Fail
  <1>2. CASE answer' # None
    <2> DEFINE surface == Surface(SpecOf[artifact.claims], PolicyOf[r], ScopesOf[IdentityOf[r]])
    <2>1. Verified(pick.stub, artifact) /\ End(r, "done") /\ surface # {}
      BY <1>2 DEF Resolve, Fail
    <2>2. answer' = [request |-> r, surface |-> surface, source |-> source,
                     pick |-> pick, artifact |-> artifact, age |-> now - artifact.at,
                     lapse |-> now - lastVisible[<<IdentityOf[r], RefOf[pick.stub]>>]]
      BY <1>2 DEF Resolve, Fail
    <2>3. RequestsInv'
      BY <2>1, EndKeeps
    <2>4. IdentitiesIsolated'
      BY <2>2 DEF IdentitiesIsolated
    <2>5. ArtifactIsExact'
      BY <2>1, <2>2 DEF ArtifactIsExact, Verified, ComputedDigest
    <2>6. LeasesKept'
      <3>1. /\ lastVisible[<<IdentityOf[r], RefOf[pick.stub]>>] \in Nat /\ now \in Nat
            /\ {SearchTtl, ArtifactTtl, Timeout, OfflineMax} \subseteq Nat
        BY RegistryAssumptions DEF ResolverInv, RegistryInv, RegistryCachePolicy
      <3>2. now - lastVisible[<<IdentityOf[r], RefOf[pick.stub]>>] < SearchTtl + 2 * Timeout
        BY <3>1
      <3>3. now - artifact.at < ArtifactTtl + Timeout
                                + (IF source = "offline" THEN OfflineMax ELSE 0)
        BY <3>1
      <3> HIDE DEF surface
      <3> QED  BY <2>2, <3>2, <3>3 DEF LeasesKept
    <2>7. SurfaceIsReviewed'
      <3>1. artifact.claims = pick.stub
        BY <2>1 DEF Verified
      <3>2. Accepted(SpecOf[pick.stub], PolicyOf[r], ScopesOf[IdentityOf[r]])
        BY <2>1, <3>1 DEF Surface
      <3>3. surface = Selected(SpecOf[pick.stub], PolicyOf[r])
        BY <3>1, <3>2 DEF Surface
      <3>4. ASSUME NEW n \in surface
            PROVE  /\ n \notin PolicyOf[r].deny
                   /\ SpecOf[pick.stub].scopes \cup SpecOf[pick.stub].tools[n].scopes
                        \subseteq ScopesOf[IdentityOf[r]]
                   /\ PolicyOf[r].requirements[n].input
                        \in {Anything, SpecOf[pick.stub].tools[n].inputPrint}
        <4>1. n \in Selected(SpecOf[pick.stub], PolicyOf[r])
          BY <3>3, <3>4
        <4>2. ToolPermitted(SpecOf[pick.stub].tools[n], PolicyOf[r].requirements[n], PolicyOf[r],
                            ScopesOf[IdentityOf[r]])
          BY <3>2, <4>1 DEF Accepted
        <4>3. SpecOf[pick.stub].scopes \subseteq ScopesOf[IdentityOf[r]]
          BY <3>2 DEF Accepted
        <4> QED  BY <4>1, <4>2, <4>3 DEF Selected, ToolPermitted, PrintsAgree
      <3> HIDE DEF surface
      <3> QED  BY <2>2, <3>4 DEF SurfaceIsReviewed
    <2> QED  BY <2>3, <2>4, <2>5, <2>6, <2>7 DEF Sound
  <1> QED  BY <1>1, <1>2

\* A lookup in the artifact cache, found or not, keeps its leases.
LEMMA ReadKeepsArtifacts ==
  ASSUME ResolverInv, NEW key, NEW found, found \subseteq Entry(artifacts, key)
  PROVE  ArtifactsRead(key, found) \in Seq(ArtifactLeases)
  <1>1. artifacts \in Seq(ArtifactLeases)
    BY DEF ResolverInv, CachesLeased
  <1>2. Others(artifacts, key) \in Seq(ArtifactLeases)
    BY <1>1, OthersAreEntries
  <1>3. ASSUME found # {} PROVE Touched(artifacts, The(found)) \in Seq(ArtifactLeases)
    <2>1. The(found) \in Entry(artifacts, key)
      BY <1>3 DEF The
    <2>2. The(found) \in ArtifactLeases
      BY <1>1, <2>1, EntriesAreFound
    <2> QED  BY <1>1, <2>2, TouchedIsEntries
  <1> QED  BY <1>1, <1>2, <1>3 DEF ArtifactsRead

\* From a listing whose stubs were visible recently enough to the fetch, or to the
\* resolution from the cache.
LEMMA SelectKeeps ==
  ASSUME ResolverInv, UNCHANGED <<now, registryVars>>, NEW r \in Requests,
         NEW listing \in Listings, listing.to = IdentityOf[r], Select(r, listing),
         \A v \in listing.stubs :
           now < lastVisible[<<IdentityOf[r], RefOf[v]>>] + SearchTtl + Timeout
  PROVE  RequestsInv' /\ Sound' /\ artifacts' \in Seq(ArtifactLeases)
  <1> DEFINE eligible == {v \in listing.stubs : StubEligible(StubOf[v], QueryOf[r], PolicyOf[r])}
             pick == [stub |-> First(eligible), to |-> listing.to]
             key == ArtifactKey(r, pick.stub)
             found == FreshArtifact(key)
  <1>1. artifacts \in Seq(ArtifactLeases)
    BY DEF ResolverInv, CachesLeased
  <1>2. CASE eligible = {}
    <2>1. End(r, "done") /\ answer' = None /\ artifacts' = artifacts
      BY <1>2 DEF Select
    <2> QED  BY <1>1, <2>1, EndKeeps, NothingResolved
  <1>3. CASE eligible # {}
    <2>1. \/ found = {} /\ Send(r, "fetching", pick) /\ artifacts' = ArtifactsRead(key, found)
          \/ found # {} /\ Send(r, "fetching", pick) /\ UNCHANGED artifacts
          \/ /\ found # {}
             /\ Resolve(r, pick, The(found).artifact, "cache")
             /\ artifacts' = ArtifactsRead(key, found)
      BY <1>3 DEF Select
    <2>2. First(eligible) \in eligible
      <3>1. eligible \in SUBSET Versions
        BY DEF Listings
      <3> HIDE DEF eligible
      <3> QED  BY <1>3, <3>1, FirstIsOne
    <2>3. Recent(r, pick)
      BY <2>2 DEF Recent, Listings
    <2>4. found \subseteq Entry(artifacts, key)
      BY DEF FreshArtifact
    <2>5. key = <<IdentityOf[r], pick.stub>>
      BY DEF ArtifactKey
    <2> HIDE DEF pick, key, eligible
    <2>6. ArtifactsRead(key, found) \in Seq(ArtifactLeases)
      <3> HIDE DEF found
      <3> QED  BY <2>4, ReadKeepsArtifacts
    <2>7. CASE Send(r, "fetching", pick)
      <3>1. Sound'
        BY <2>7, NothingResolved DEF Send
      <3>2. RequestsInv'
        BY <2>3, <2>7, FetchKeeps
      <3>3. artifacts' \in Seq(ArtifactLeases)
        BY <1>1, <2>1, <2>6
      <3> QED  BY <3>1, <3>2, <3>3
    <2>8. CASE /\ found # {} /\ Resolve(r, pick, The(found).artifact, "cache")
               /\ artifacts' = ArtifactsRead(key, found)
      <3> DEFINE e == The(found)
      <3>1. e \in found
        BY <2>8 DEF The
      <3>2. e \in Entry(artifacts, key) /\ now < e.fresh
        BY <3>1 DEF FreshArtifact
      <3> HIDE DEF e, found
      <3>3. e \in ArtifactLeases /\ e.key = key
        BY <1>1, <3>2, EntriesAreFound
      <3>4. /\ e.artifact.to = IdentityOf[r] /\ e.artifact.at \in Nat /\ e.fresh \in Nat
            /\ e.fresh <= e.artifact.at + Timeout + ArtifactTtl
        BY <2>5, <3>3 DEF ArtifactLeases, Artifacts
      <3>5. now \in Nat /\ {SearchTtl, ArtifactTtl, Timeout} \subseteq Nat
        BY RegistryAssumptions DEF ResolverInv, RegistryInv, RegistryCachePolicy
      <3>6. now < e.artifact.at + ArtifactTtl + Timeout
                  + (IF "cache" = "offline" THEN OfflineMax ELSE 0)
        BY <3>2, <3>4, <3>5
      <3>7. now < lastVisible[<<IdentityOf[r], RefOf[pick.stub]>>] + SearchTtl + 2 * Timeout
        <4>1. lastVisible[<<IdentityOf[r], RefOf[pick.stub]>>] \in Nat
          BY <2>3, RegistryAssumptions DEF Recent, ResolverInv, RegistryInv
        <4> QED  BY <2>3, <3>5, <4>1 DEF Recent
      <3>8. Resolve(r, pick, e.artifact, "cache")
        BY <2>8 DEF e
      <3>9. RequestsInv' /\ Sound'
        BY <2>3, <3>4, <3>6, <3>7, <3>8, ResolveKeeps DEF Recent
      <3> QED  BY <2>6, <2>8, <3>9
    <2> QED  BY <2>1, <2>7, <2>8
  <1> QED  BY <1>2, <1>3

-----------------------------------------------------------------------------
(* The steps of a request. *)

\* resolve, with the search cached or not.
LEMMA BeginKeeps ==
  ASSUME ResolverInv, NEW r \in Requests, Begin(r)
  PROVE  (ResolverInv /\ Sound)'
  <1> DEFINE key == SearchKey(r)
             live == LiveSearch(key)
  <1>1. UNCHANGED <<now, registryVars>>
    BY DEF Begin
  <1>2. searches \in Seq(SearchLeases) /\ artifacts \in Seq(ArtifactLeases)
    BY DEF ResolverInv, CachesLeased
  <1>3. key = <<IdentityOf[r], QueryOf[r]>> /\ live \subseteq Entry(searches, key)
    BY DEF SearchKey, LiveSearch
  <1>4. ASSUME live # {}
        PROVE  The(live) \in SearchLeases /\ The(live).key = key /\ now < The(live).expires
    <2>1. The(live) \in live
      BY <1>4 DEF The
    <2>2. The(live) \in Entry(searches, key) /\ now < The(live).expires
      BY <2>1 DEF LiveSearch
    <2> HIDE DEF live, key
    <2> QED  BY <1>2, <2>2, EntriesAreFound
  <1>5. SearchesRead(key) \in Seq(SearchLeases)
    BY <1>2, <1>4, OthersAreEntries, TouchedIsEntries DEF SearchesRead
  <1>6. searches' \in Seq(SearchLeases)
    BY <1>2, <1>5 DEF Begin
  <1>7. CASE live # {} /\ Select(r, The(live).listing)
    <2> DEFINE listing == The(live).listing
    <2>1. listing \in Listings /\ listing.to = IdentityOf[r]
      BY <1>3, <1>4, <1>7 DEF SearchLeases
    <2>2. ASSUME NEW v \in listing.stubs
          PROVE  now < lastVisible[<<IdentityOf[r], RefOf[v]>>] + SearchTtl + Timeout
      <3>1. The(live).expires <= lastVisible[<<IdentityOf[r], RefOf[v]>>] + Timeout + SearchTtl
        BY <1>3, <1>4, <1>7 DEF SearchLeases
      <3>2. /\ The(live).expires \in Nat /\ now < The(live).expires
            /\ now \in Nat /\ {SearchTtl, Timeout} \subseteq Nat
        BY <1>4, <1>7, RegistryAssumptions
        DEF SearchLeases, ResolverInv, RegistryInv, RegistryCachePolicy
      <3>3. lastVisible[<<IdentityOf[r], RefOf[v]>>] \in Nat
        BY <2>1, RegistryAssumptions DEF Listings, ResolverInv, RegistryInv
      <3> QED  BY <3>1, <3>2, <3>3
    <2>3. Select(r, listing)
      BY <1>7
    <2> HIDE DEF listing
    <2>4. RequestsInv' /\ Sound' /\ artifacts' \in Seq(ArtifactLeases)
      BY <1>1, <2>1, <2>2, <2>3, SelectKeeps
    <2> QED  BY <1>1, <1>6, <2>4, RegistryStands DEF ResolverInv, CachesLeased
  <1>8. CASE Send(r, "searching", None) /\ UNCHANGED artifacts
    <2>1. RequestsInv' /\ Sound'
      BY <1>1, <1>8, SearchKeeps, NothingResolved DEF Send
    <2> QED  BY <1>1, <1>2, <1>6, <1>8, <2>1, RegistryStands DEF ResolverInv, CachesLeased
  <1> QED  BY <1>7, <1>8 DEF Begin

\* What the Registry lists is visible now.
LEMMA RegistryListsKeeps ==
  ASSUME ResolverInv, NEW r \in Requests, RegistryLists(r)
  PROVE  (ResolverInv /\ Sound)'
  <1> DEFINE stubs == {current[x] : x \in {y \in Refs : <<IdentityOf[r], y>> \in visible}}
  <1>1. UNCHANGED <<now, registryVars>> /\ UNCHANGED cacheVars /\ answer' = None
    BY DEF RegistryLists
  <1>2. /\ pc[r] = "searching" /\ pc' = [pc EXCEPT ![r] = "listed"]
        /\ reply' = [reply EXCEPT ![r] = [stubs |-> stubs, to |-> IdentityOf[r]]]
        /\ sent' = sent /\ picked' = picked
    BY DEF RegistryLists
  <1>3. stubs \subseteq Versions
    BY DEF ResolverInv, RegistryInv
  <1>4. \A v \in stubs : lastVisible[<<IdentityOf[r], RefOf[v]>>] = now
    BY DEF ResolverInv, RegistryInv
  <1> HIDE DEF stubs
  <1>5. pc'[r] = "listed" /\ reply'[r] = [stubs |-> stubs, to |-> IdentityOf[r]]
    BY <1>2 DEF ResolverInv, RequestsInv
  <1>6. RequestInv(r)'
    <2>1. RequestInv(r) /\ now' = now /\ lastVisible' = lastVisible
      BY <1>1 DEF ResolverInv, RequestsInv, registryVars
    <2> QED
      BY <1>2, <1>3, <1>4, <1>5, <2>1, RegistryAssumptions DEF RequestInv, Listings, InFlight
  <1>7. RequestsInv'
    <2>1. sent' = [sent EXCEPT ![r] = sent[r]] /\ picked' = [picked EXCEPT ![r] = picked[r]]
      BY <1>2 DEF ResolverInv, RequestsInv
    <2> QED  BY <1>1, <1>2, <1>6, <2>1, OneMoves
  <1>8. CachesLeased'
    BY <1>1, RegistryStands DEF ResolverInv, CachesLeased, cacheVars
  <1> QED  BY <1>1, <1>7, <1>8, RegistryStands, NothingResolved DEF ResolverInv

\* The lease of a search runs from its arrival, one request after its making at most.
LEMMA SearchReturnsKeeps ==
  ASSUME ResolverInv, NEW r \in Requests, SearchReturns(r)
  PROVE  (ResolverInv /\ Sound)'
  <1>1. UNCHANGED <<now, registryVars>> /\ pc[r] = "listed" /\ Select(r, reply[r])
    BY DEF SearchReturns
  <1>2. /\ reply[r] \in Listings /\ reply[r].to = IdentityOf[r]
        /\ \A v \in reply[r].stubs : sent[r] <= lastVisible[<<IdentityOf[r], RefOf[v]>>]
        /\ sent[r] <= now /\ now <= sent[r] + Timeout /\ sent[r] \in Nat
    BY <1>1 DEF ResolverInv, RequestsInv, RequestInv, InFlight
  <1>3. /\ now \in Nat /\ {SearchTtl, Timeout} \subseteq Nat /\ SearchTtl > 0
        /\ MaxSearches \in Nat \ {0}
    BY RegistryAssumptions
    DEF ResolverInv, RegistryInv, RegistryCachePolicy, InMemoryCacheBounds
  <1>4. \A v \in reply[r].stubs : lastVisible[<<IdentityOf[r], RefOf[v]>>] \in Nat
    BY <1>2, RegistryAssumptions DEF Listings, ResolverInv, RegistryInv
  <1>5. RequestsInv' /\ Sound' /\ artifacts' \in Seq(ArtifactLeases)
    <2>1. \A v \in reply[r].stubs :
            now < lastVisible[<<IdentityOf[r], RefOf[v]>>] + SearchTtl + Timeout
      BY <1>2, <1>3, <1>4
    <2> QED  BY <1>1, <1>2, <2>1, SelectKeeps
  <1>6. searches' \in Seq(SearchLeases)
    <2> DEFINE e == [key |-> SearchKey(r), listing |-> reply[r], expires |-> now + SearchTtl]
    <2>1. searches \in Seq(SearchLeases)
      BY DEF ResolverInv, CachesLeased
    <2>2. e.key \in Identities \X {QueryOf[q] : q \in Requests} /\ e.key[1] = IdentityOf[r]
      BY RegistryAssumptions DEF SearchKey
    <2>3. \A v \in reply[r].stubs :
            now + SearchTtl <= lastVisible[<<IdentityOf[r], RefOf[v]>>] + Timeout + SearchTtl
      BY <1>2, <1>3, <1>4
    <2>4. e \in SearchLeases
      BY <1>2, <1>3, <2>2, <2>3 DEF SearchLeases
    <2> HIDE DEF e
    <2>5. Put(searches, e, MaxSearches) \in Seq(SearchLeases)
      BY <1>3, <2>1, <2>4, PutIsEntries
    <2> QED  BY <2>1, <2>5 DEF SearchReturns, e
  <1> QED  BY <1>1, <1>5, <1>6, RegistryStands DEF ResolverInv, CachesLeased

\* What the Registry serves is given to the identity that asked, now.
LEMMA RegistryServesKeeps ==
  ASSUME ResolverInv, NEW r \in Requests, RegistryServes(r)
  PROVE  (ResolverInv /\ Sound)'
  <1> DEFINE ref == RefOf[picked[r].stub]
  <1>1. UNCHANGED <<now, registryVars>> /\ UNCHANGED cacheVars /\ answer' = None
    BY DEF RegistryServes
  <1>2. PICK content \in {current[ref], None} :
          reply' = [reply EXCEPT ![r] = [claims |-> current[ref], content |-> content,
                                         at |-> now, to |-> IdentityOf[r]]]
    BY DEF RegistryServes
  <1>3. /\ pc[r] = "fetching" /\ pc' = [pc EXCEPT ![r] = "fetched"]
        /\ sent' = sent /\ picked' = picked
    BY DEF RegistryServes
  <1>4. RequestInv(r) /\ now' = now /\ lastVisible' = lastVisible
    BY <1>1 DEF ResolverInv, RequestsInv, registryVars
  <1>5. current[ref] \in Versions /\ content \in Versions \cup {None}
    BY <1>3, <1>4, RegistryAssumptions DEF RequestInv, ResolverInv, RegistryInv
  <1> HIDE DEF ref
  <1>6. pc'[r] = "fetched" /\ reply'[r] = [claims |-> current[ref], content |-> content,
                                           at |-> now, to |-> IdentityOf[r]]
    BY <1>2, <1>3 DEF ResolverInv, RequestsInv
  <1>7. reply'[r] \in Artifacts /\ reply'[r].to = IdentityOf[r] /\ reply'[r].at = now
    BY <1>5, <1>6, RegistryAssumptions DEF Artifacts, ResolverInv, RegistryInv
  <1>8. RequestInv(r)'
    <2>1. sent[r] <= now /\ sent[r] \in Nat /\ now \in Nat
      BY <1>3, <1>4 DEF RequestInv, InFlight, ResolverInv, RegistryInv
    <2> QED  BY <1>3, <1>4, <1>6, <1>7, <2>1 DEF RequestInv, InFlight
  <1>9. RequestsInv'
    <2>1. sent' = [sent EXCEPT ![r] = sent[r]] /\ picked' = [picked EXCEPT ![r] = picked[r]]
      BY <1>3 DEF ResolverInv, RequestsInv
    <2> QED  BY <1>1, <1>2, <1>3, <1>8, <2>1, OneMoves
  <1>10. CachesLeased'
    BY <1>1, RegistryStands DEF ResolverInv, CachesLeased, cacheVars
  <1> QED  BY <1>1, <1>9, <1>10, RegistryStands, NothingResolved DEF ResolverInv

\* The lease of an artifact runs from its arrival.
LEMMA FetchReturnsKeeps ==
  ASSUME ResolverInv, NEW r \in Requests, FetchReturns(r)
  PROVE  (ResolverInv /\ Sound)'
  <1>1. UNCHANGED <<now, registryVars>> /\ searches' = searches /\ pc[r] = "fetched"
    BY DEF FetchReturns
  <1>2. /\ picked[r].stub \in Versions /\ picked[r].to = IdentityOf[r]
        /\ sent[r] < lastVisible[<<IdentityOf[r], RefOf[picked[r].stub]>>] + SearchTtl + Timeout
        /\ reply[r] \in Artifacts /\ reply[r].to = IdentityOf[r] /\ reply[r].at \in sent[r]..now
        /\ now <= sent[r] + Timeout /\ sent[r] \in Nat
    BY <1>1 DEF ResolverInv, RequestsInv, RequestInv, InFlight
  <1>3. /\ now \in Nat /\ {SearchTtl, ArtifactTtl, Timeout, OfflineMax} \subseteq Nat
        /\ ArtifactTtl > 0 /\ MaxArtifacts \in Nat \ {0}
    BY RegistryAssumptions
    DEF ResolverInv, RegistryInv, RegistryCachePolicy, InMemoryCacheBounds
  <1>4. lastVisible[<<IdentityOf[r], RefOf[picked[r].stub]>>] \in Nat /\ reply[r].at \in Nat
    BY <1>2, RegistryAssumptions DEF Artifacts, ResolverInv, RegistryInv
  <1>5. RequestsInv' /\ Sound'
    <2>1. now < lastVisible[<<IdentityOf[r], RefOf[picked[r].stub]>>] + SearchTtl + 2 * Timeout
      BY <1>2, <1>3, <1>4
    <2>2. now < reply[r].at + ArtifactTtl + Timeout
                  + (IF "network" = "offline" THEN OfflineMax ELSE 0)
      BY <1>2, <1>3, <1>4
    <2>3. Resolve(r, picked[r], reply[r], "network")
      BY DEF FetchReturns
    <2> QED  BY <1>1, <1>2, <1>4, <2>1, <2>2, <2>3, ResolveKeeps
  <1>6. artifacts' \in Seq(ArtifactLeases)
    <2> DEFINE e == [key |-> ArtifactKey(r, picked[r].stub), artifact |-> reply[r],
                     fresh |-> now + ArtifactTtl, stale |-> now + ArtifactTtl + OfflineMax]
    <2>1. artifacts \in Seq(ArtifactLeases)
      BY DEF ResolverInv, CachesLeased
    <2>2. ArtifactKey(r, picked[r].stub) \in Identities \X Versions
          /\ ArtifactKey(r, picked[r].stub)[1] = IdentityOf[r]
      BY <1>2, RegistryAssumptions DEF ArtifactKey
    <2>3. /\ now + ArtifactTtl <= reply[r].at + Timeout + ArtifactTtl
          /\ now + ArtifactTtl + OfflineMax <= reply[r].at + Timeout + ArtifactTtl + OfflineMax
          /\ now + ArtifactTtl \in Nat /\ now + ArtifactTtl + OfflineMax \in Nat
      BY <1>2, <1>3, <1>4
    <2>4. e \in ArtifactLeases
      BY <1>2, <2>2, <2>3 DEF ArtifactLeases
    <2> HIDE DEF e
    <2>5. Put(artifacts, e, MaxArtifacts) \in Seq(ArtifactLeases)
      BY <1>3, <2>1, <2>4, PutIsEntries
    <2> QED  BY <2>1, <2>5 DEF FetchReturns, e
  <1> QED  BY <1>1, <1>5, <1>6, RegistryStands DEF ResolverInv, CachesLeased

\* An outage the Registry reports: a stale artifact is within the offline window.
LEMMA FetchUnavailableKeeps ==
  ASSUME ResolverInv, NEW r \in Requests, FetchUnavailable(r)
  PROVE  (ResolverInv /\ Sound)'
  <1> DEFINE key == ArtifactKey(r, picked[r].stub)
             found == StaleArtifact(key)
  <1>1. UNCHANGED <<now, registryVars>> /\ searches' = searches /\ pc[r] = "fetching"
    BY DEF FetchUnavailable
  <1>2. /\ picked[r].stub \in Versions /\ picked[r].to = IdentityOf[r]
        /\ sent[r] < lastVisible[<<IdentityOf[r], RefOf[picked[r].stub]>>] + SearchTtl + Timeout
        /\ now <= sent[r] + Timeout /\ sent[r] \in Nat
    BY <1>1 DEF ResolverInv, RequestsInv, RequestInv, InFlight
  <1>3. artifacts \in Seq(ArtifactLeases)
    BY DEF ResolverInv, CachesLeased
  <1>4. found \subseteq Entry(artifacts, key) /\ key[1] = IdentityOf[r]
    BY DEF StaleArtifact, ArtifactKey
  <1>5. artifacts' \in Seq(ArtifactLeases)
    BY <1>3, <1>4, ReadKeepsArtifacts DEF FetchUnavailable
  <1>6. CASE Fail(r)
    <2>1. RequestsInv' /\ Sound'
      BY <1>1, <1>6, EndKeeps, NothingResolved DEF Fail
    <2> QED  BY <1>1, <1>5, <2>1, RegistryStands DEF ResolverInv, CachesLeased
  <1>7. CASE found # {} /\ Resolve(r, picked[r], The(found).artifact, "offline")
    <2> DEFINE e == The(found)
    <2>1. e \in found
      BY <1>7 DEF The
    <2>2. e \in Entry(artifacts, key) /\ now < e.stale
      BY <2>1 DEF StaleArtifact
    <2>3. Resolve(r, picked[r], e.artifact, "offline")
      BY <1>7
    <2> HIDE DEF e, found, key
    <2>4. e \in ArtifactLeases /\ e.key = key
      BY <1>3, <2>2, EntriesAreFound
    <2>5. /\ e.artifact.to = IdentityOf[r] /\ e.artifact.at \in Nat /\ e.stale \in Nat
          /\ e.stale <= e.artifact.at + Timeout + ArtifactTtl + OfflineMax
      BY <1>4, <2>4 DEF ArtifactLeases, Artifacts
    <2>6. now \in Nat /\ {SearchTtl, ArtifactTtl, Timeout, OfflineMax} \subseteq Nat
      BY RegistryAssumptions DEF ResolverInv, RegistryInv, RegistryCachePolicy
    <2>7. lastVisible[<<IdentityOf[r], RefOf[picked[r].stub]>>] \in Nat
      BY <1>2, RegistryAssumptions DEF ResolverInv, RegistryInv
    <2>8. now < e.artifact.at + ArtifactTtl + Timeout
                  + (IF "offline" = "offline" THEN OfflineMax ELSE 0)
      BY <2>2, <2>5, <2>6
    <2>9. now < lastVisible[<<IdentityOf[r], RefOf[picked[r].stub]>>] + SearchTtl + 2 * Timeout
      BY <1>2, <2>6, <2>7
    <2>10. RequestsInv' /\ Sound'
      BY <1>1, <1>2, <2>3, <2>5, <2>8, <2>9, ResolveKeeps
    <2> QED  BY <1>1, <1>5, <2>10, RegistryStands DEF ResolverInv, CachesLeased
  <1> QED  BY <1>6, <1>7 DEF FetchUnavailable

\* A request that ends without a resolution.
LEMMA FailureKeeps ==
  ASSUME ResolverInv, NEW r \in Requests,
         InvalidDocument(r) \/ RequestFails(r) \/ TransportFails(r)
  PROVE  (ResolverInv /\ Sound)'
  <1>1. UNCHANGED <<now, registryVars>> /\ UNCHANGED cacheVars /\ answer' = None
    BY DEF InvalidDocument, RequestFails, TransportFails, Fail
  <1>2. PICK how \in {"done", "unreachable"} : End(r, how)
    BY DEF InvalidDocument, RequestFails, TransportFails, Fail
  <1>3. RequestsInv'
    BY <1>1, <1>2, EndKeeps
  <1>4. CachesLeased'
    BY <1>1, RegistryStands DEF ResolverInv, CachesLeased, cacheVars
  <1> QED  BY <1>1, <1>3, <1>4, RegistryStands, NothingResolved DEF ResolverInv

-----------------------------------------------------------------------------
(* The theorems. *)

\* Every step keeps the invariant and returns sound resolutions only.
LEMMA NextKeeps == ResolverInv /\ Sound /\ [Next]_vars => (ResolverInv /\ Sound)'
  <1> SUFFICES ASSUME ResolverInv, Sound, [Next]_vars PROVE (ResolverInv /\ Sound)'
    OBVIOUS
  <1>1. CASE Tick \/ RegistryChanges \/ CacheCorrupts
    BY <1>1, TickKeeps, RegistryChangesKeeps, CacheCorruptsKeeps
  <1>2. ASSUME NEW r \in Requests,
               \/ Begin(r) \/ RegistryLists(r) \/ SearchReturns(r) \/ RegistryServes(r)
               \/ FetchReturns(r) \/ FetchUnavailable(r) \/ InvalidDocument(r)
               \/ RequestFails(r) \/ TransportFails(r)
        PROVE  (ResolverInv /\ Sound)'
    BY <1>2, BeginKeeps, RegistryListsKeeps, SearchReturnsKeeps, RegistryServesKeeps,
       FetchReturnsKeeps, FetchUnavailableKeeps, FailureKeeps
  <1>3. CASE UNCHANGED vars
    <2>1. /\ UNCHANGED <<now, registryVars>> /\ UNCHANGED cacheVars /\ UNCHANGED requestVars
          /\ answer' = answer
      BY <1>3 DEF vars
    <2>2. RequestsInv'
      BY <2>1 DEF ResolverInv, RequestsInv, RequestInv, requestVars, registryVars
    <2>3. CachesLeased'
      BY <2>1, RegistryStands DEF ResolverInv, CachesLeased, cacheVars
    <2>4. Sound'
      BY <2>1 DEF Sound, IdentitiesIsolated, ArtifactIsExact, LeasesKept, SurfaceIsReviewed
    <2> QED  BY <2>1, <2>2, <2>3, <2>4, RegistryStands DEF ResolverInv
  <1> QED  BY <1>1, <1>2, <1>3 DEF Next

\* The invariant holds always.
LEMMA AlwaysSound == Spec => [](ResolverInv /\ Sound)
  BY InitResolverInv, NextKeeps, PTL DEF Spec

\* However many identities share the caches and in whatever order their requests,
\* lookups and replies come, a resolution rests on a search and an artifact the
\* Registry gave to the identity that asked.
THEOREM ResolutionsAreIsolated == Spec => []IdentitiesIsolated
  BY AlwaysSound, PTL DEF Sound

\* A resolution is of the version its search selected, with the content of that
\* version's digest, though refs move and contents are altered in between.
THEOREM ResolutionsAreExact == Spec => []ArtifactIsExact
  BY AlwaysSound, PTL DEF Sound

\* Leases bound what a resolution may rest on, for every time to live, offline
\* window and request timeout: how long its ref may have been withdrawn and how
\* old its artifact may be.
THEOREM LeasesAreKept == Spec => []LeasesKept
  BY AlwaysSound, PTL DEF Sound

\* Whatever versions, policies and scopes there are, an agent is shown no tool its
\* policy denies or its scopes do not cover, and none with another fingerprint
\* than the one reviewed.
THEOREM SurfacesAreReviewed == Spec => []SurfaceIsReviewed
  BY AlwaysSound, PTL DEF Sound
=============================================================================
