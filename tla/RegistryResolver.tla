--------------------------- MODULE RegistryResolver ---------------------------
(***************************************************************************)
(* RegistryResolver and InMemoryRegistryCache (registry_discovery.py) over *)
(* RegistryHTTPDiscovery (adapters/registry_http.py): resolve searches the *)
(* Registry, fetches the first eligible artifact, verifies that it is the  *)
(* one the search named and projects it.  Searches and artifacts are cached*)
(* as authorization leases, per identity.  A stub is the version it names: *)
(* kind, name, tag and digest.  The code between two requests to the       *)
(* Registry, cache operations included, runs in one step.                  *)
(***************************************************************************)
EXTENDS RegistryProjection, Sequences, SequencesExt

CONSTANTS
  Requests, Identities, Versions, Refs,
  IdentityOf, QueryOf, PolicyOf,  \* of each request
  ScopesOf,                       \* the scopes of each identity
  RefOf, StubOf, SpecOf,          \* of each version
  Ranking,                        \* the rank of each ref in the Registry's answers
  SearchTtl, ArtifactTtl,         \* RegistryCachePolicy
  OfflineMax,                     \* offline_max_stale_seconds
  MaxSearches, MaxArtifacts,      \* bounds of the cache
  Timeout,                        \* request_timeout of the transport
  MaxTime,                        \* bound on the clock
  MaxChanges,                     \* bound on changes at the Registry
  None

\* Leases run for some time, stale retention may be off; the cache holds something.
RegistryCachePolicy == {SearchTtl, ArtifactTtl} \subseteq Nat \ {0} /\ OfflineMax \in Nat
InMemoryCacheBounds == {MaxSearches, MaxArtifacts} \subseteq Nat \ {0}

ASSUME RegistryAssumptions ==
  /\ RegistryCachePolicy /\ InMemoryCacheBounds
  /\ \A r \in Requests : RegistryResolutionPolicy(PolicyOf[r])
  /\ {Timeout, MaxTime, MaxChanges} \subseteq Nat
  /\ None \notin Versions
  /\ IdentityOf \in [Requests -> Identities] /\ RefOf \in [Versions -> Refs]
  /\ Ranking \in [Refs -> Nat]

VARIABLES
  now,         \* the resolver's clock
  current,     \* the version each ref names at the Registry
  visible,     \* pairs of an identity and a ref it may see
  lastVisible, \* history: when each pair was last visible
  changes,     \* changes at the Registry so far
  searches,    \* _search: entries, least recently used first
  artifacts,   \* _artifacts
  pc, sent,    \* where each request is, and when it last sent
  picked,      \* the stub each request has selected
  reply,       \* what the Registry has answered and the network still carries
  answer       \* history: the resolution this step has returned, or None

registryVars == <<current, visible, lastVisible, changes>>
cacheVars == <<searches, artifacts>>
requestVars == <<pc, sent, picked, reply>>
vars == <<now, registryVars, cacheVars, requestVars, answer>>

Init ==
  /\ now = 0 /\ changes = 0
  /\ current \in {f \in [Refs -> Versions] : \A x \in Refs : RefOf[f[x]] = x}
  /\ visible = Identities \X Refs
  /\ lastVisible = [p \in Identities \X Refs |-> 0]
  /\ searches = <<>> /\ artifacts = <<>>
  /\ pc = [r \in Requests |-> "idle"]
  /\ sent = [r \in Requests |-> 0]
  /\ picked = [r \in Requests |-> None]
  /\ reply = [r \in Requests |-> None]
  /\ answer = None

InFlight == {"searching", "listed", "fetching", "fetched"}

\* Time passes; the transport gives up a request after Timeout.
Tick ==
  /\ now < MaxTime
  /\ \A r \in Requests : pc[r] \in InFlight => now < sent[r] + Timeout
  /\ now' = now + 1
  /\ lastVisible' = [p \in DOMAIN lastVisible |->
                       IF p \in visible THEN now + 1 ELSE lastVisible[p]]
  /\ answer' = None
  /\ UNCHANGED <<current, visible, changes, cacheVars, requestVars>>

\* The Registry publishes another version of a ref, or grants or withdraws one.
RegistryChanges ==
  /\ changes < MaxChanges
  /\ changes' = changes + 1
  /\ \/ /\ \E v \in Versions :
             v # current[RefOf[v]] /\ current' = [current EXCEPT ![RefOf[v]] = v]
        /\ UNCHANGED visible
     \/ /\ \E p \in Identities \X Refs :
             visible' = IF p \in visible THEN visible \ {p} ELSE visible \cup {p}
        /\ UNCHANGED current
  /\ lastVisible' = [p \in DOMAIN lastVisible |->
                       IF p \in visible \cup visible' THEN now ELSE lastVisible[p]]
  /\ answer' = None
  /\ UNCHANGED <<now, cacheVars, requestVars>>

-----------------------------------------------------------------------------
(* The cache. *)

\* Mutant of ArtifactKey: the identity is left out.
ArtifactKeyOfAll(r, v) == v

\* _search_key, _artifact_key.
SearchKey(r) == <<IdentityOf[r], QueryOf[r]>>
ArtifactKey(r, v) == <<IdentityOf[r], v>>

\* The entry of a key, if there is one, and the cache without it.
Entry(cache, key) == {e \in Range(cache) : e.key = key}
Others(cache, key) ==
  IF Entry(cache, key) = {} THEN cache
  ELSE RemoveAt(cache, CHOOSE i \in DOMAIN cache : cache[i].key = key)
The(found) == CHOOSE e \in found : TRUE

\* An entry that is put or hit becomes the most recently used; the least
\* recently used ones make room.
Put(cache, entry, max) ==
  LET all == Append(Others(cache, entry.key), entry)
  IN  IF Len(all) > max THEN Tail(all) ELSE all

Touched(cache, entry) == Append(Others(cache, entry.key), entry)

\* Mutant of FreshArtifact: a stale artifact passes for a fresh one.
FreshWhileStale(key) == {e \in Entry(artifacts, key) : now < e.stale}

\* get_search finds a lease that runs; get_artifact a fresh one, or under
\* allow_stale one that has not run out.
LiveSearch(key) == {e \in Entry(searches, key) : now < e.expires}
FreshArtifact(key) == {e \in Entry(artifacts, key) : now < e.fresh}
StaleArtifact(key) == {e \in Entry(artifacts, key) : now < e.stale}

\* What the caches become when the key is looked up: what has run out goes.
SearchesRead(key) ==
  IF LiveSearch(key) = {} THEN Others(searches, key)
  ELSE Touched(searches, The(LiveSearch(key)))
ArtifactsRead(key, found) ==
  IF found # {} THEN Touched(artifacts, The(found))
  ELSE IF StaleArtifact(key) = {} THEN Others(artifacts, key) ELSE artifacts

\* A replaceable cache may lose the content of an artifact.
CacheCorrupts ==
  /\ \E i \in DOMAIN artifacts :
       /\ artifacts[i].artifact.content # None
       /\ artifacts' = [artifacts EXCEPT ![i].artifact.content = None]
  /\ answer' = None
  /\ UNCHANGED <<now, registryVars, searches, requestVars>>

-----------------------------------------------------------------------------
(* resolve *)

\* The request ends; what it still held is dropped.
End(r, how) ==
  /\ pc' = [pc EXCEPT ![r] = how]
  /\ sent' = [sent EXCEPT ![r] = 0]
  /\ picked' = [picked EXCEPT ![r] = None]
  /\ reply' = [reply EXCEPT ![r] = None]

Fail(r) == End(r, "done") /\ answer' = None

\* A request is sent to the Registry.
Send(r, how, pick) ==
  /\ pc' = [pc EXCEPT ![r] = how]
  /\ sent' = [sent EXCEPT ![r] = now]
  /\ picked' = [picked EXCEPT ![r] = pick]
  /\ reply' = [reply EXCEPT ![r] = None]
  /\ answer' = None

\* Mutant of Verified: the content's digest is not recomputed.
VerifiedByName(stub, artifact) == artifact.claims = stub

\* The digest recomputed over the canonical JSON of what was received: that of the
\* version whose content it is, and of no other.
ComputedDigest(artifact) == artifact.content

\* _verify_exact_identity.
Verified(stub, artifact) == artifact.claims = stub /\ ComputedDigest(artifact) = stub

\* From _verify_exact_identity to the end: the artifact is projected.
Resolve(r, pick, artifact, source) ==
  LET surface == Surface(SpecOf[artifact.claims], PolicyOf[r], ScopesOf[IdentityOf[r]]) IN
  IF ~Verified(pick.stub, artifact) THEN Fail(r)
  ELSE /\ End(r, "done")
       /\ answer' = IF surface = {} THEN None
                    ELSE [request |-> r, surface |-> surface, source |-> source,
                          pick |-> pick, artifact |-> artifact, age |-> now - artifact.at,
                          lapse |-> now - lastVisible[<<IdentityOf[r], RefOf[pick.stub]>>]]

\* The stub that comes first among some of a listing.
First(stubs) == CHOOSE v \in stubs : \A w \in stubs : Ranking[RefOf[v]] <= Ranking[RefOf[w]]

\* The first eligible stub of the listing is looked up in the cache, which may
\* not answer, and otherwise fetched.
Select(r, listing) ==
  LET eligible == {v \in listing.stubs :
                    StubEligible(StubOf[v], QueryOf[r], PolicyOf[r])} IN
  IF eligible = {} THEN End(r, "done") /\ answer' = None /\ UNCHANGED artifacts
  ELSE LET pick == [stub |-> First(eligible), to |-> listing.to]
           key == ArtifactKey(r, pick.stub)
           found == FreshArtifact(key)
       IN  \/ found = {} /\ Send(r, "fetching", pick) /\ artifacts' = ArtifactsRead(key, found)
           \/ found # {} /\ Send(r, "fetching", pick) /\ UNCHANGED artifacts
           \/ /\ found # {}
              /\ Resolve(r, pick, The(found).artifact, "cache")
              /\ artifacts' = ArtifactsRead(key, found)

\* resolve up to its first request: the search is cached, or the cache does not
\* have it or does not answer.
Begin(r) ==
  /\ pc[r] = "idle"
  /\ \/ /\ LiveSearch(SearchKey(r)) # {}
        /\ searches' = SearchesRead(SearchKey(r))
        /\ Select(r, The(LiveSearch(SearchKey(r))).listing)
     \/ /\ \/ LiveSearch(SearchKey(r)) # {} /\ UNCHANGED searches
           \/ /\ LiveSearch(SearchKey(r)) = {}
              /\ searches' = SearchesRead(SearchKey(r))
        /\ Send(r, "searching", None)
        /\ UNCHANGED artifacts
  /\ UNCHANGED <<now, registryVars>>

\* The Registry answers the search with what the identity may see, ranked.
RegistryLists(r) ==
  LET seen == {x \in Refs : <<IdentityOf[r], x>> \in visible} IN
  /\ pc[r] = "searching"
  /\ pc' = [pc EXCEPT ![r] = "listed"]
  /\ reply' = [reply EXCEPT ![r] =
                [stubs |-> {current[x] : x \in seen}, to |-> IdentityOf[r]]]
  /\ answer' = None
  /\ UNCHANGED <<now, registryVars, cacheVars, sent, picked>>

\* The stubs arrive and are cached, unless the cache does not answer.
SearchReturns(r) ==
  /\ pc[r] = "listed"
  /\ \/ UNCHANGED searches
     \/ searches' = Put(searches, [key |-> SearchKey(r), listing |-> reply[r],
                                   expires |-> now + SearchTtl], MaxSearches)
  /\ Select(r, reply[r])
  /\ UNCHANGED <<now, registryVars>>

\* The Registry answers the fetch with what the ref names now; the content may
\* not be what its digest says.
RegistryServes(r) ==
  LET ref == RefOf[picked[r].stub] IN
  /\ pc[r] = "fetching" /\ <<IdentityOf[r], ref>> \in visible
  /\ pc' = [pc EXCEPT ![r] = "fetched"]
  /\ \E content \in {current[ref], None} :
       reply' = [reply EXCEPT ![r] =
                  [claims |-> current[ref], content |-> content,
                   at |-> now, to |-> IdentityOf[r]]]
  /\ answer' = None
  /\ UNCHANGED <<now, registryVars, cacheVars, sent, picked>>

\* The artifact arrives: once verified it is cached, unless the cache does not
\* answer, and projected.
FetchReturns(r) ==
  /\ pc[r] = "fetched"
  /\ Resolve(r, picked[r], reply[r], "network")
  /\ \/ UNCHANGED artifacts
     \/ /\ Verified(picked[r].stub, reply[r])
        /\ artifacts' = Put(artifacts,
             [key |-> ArtifactKey(r, picked[r].stub), artifact |-> reply[r],
              fresh |-> now + ArtifactTtl, stale |-> now + ArtifactTtl + OfflineMax],
             MaxArtifacts)
  /\ UNCHANGED <<now, registryVars, searches>>

\* The Registry answers the fetch with a status that says it is unavailable
\* (RegistryUnavailableError): the offline policy may allow a stale artifact.
FetchUnavailable(r) ==
  LET key == ArtifactKey(r, picked[r].stub) IN
  /\ pc[r] = "fetching"
  /\ \/ Fail(r) /\ UNCHANGED artifacts
     \/ /\ OfflineMax > 0
        /\ artifacts' = ArtifactsRead(key, StaleArtifact(key))
        /\ IF StaleArtifact(key) = {} THEN Fail(r)
           ELSE Resolve(r, picked[r], The(StaleArtifact(key)).artifact, "offline")
  /\ UNCHANGED <<now, registryVars, searches>>

\* A stub or an artifact in the answer breaks its contract.
InvalidDocument(r) ==
  /\ pc[r] \in {"listed", "fetched"}
  /\ Fail(r)
  /\ UNCHANGED <<now, registryVars, cacheVars>>

\* The Registry refuses the request (any other status) or answers it with something
\* that cannot be decoded or holds protected material, or the task is cancelled.
RequestFails(r) ==
  /\ pc[r] \in InFlight
  /\ Fail(r)
  /\ UNCHANGED <<now, registryVars, cacheVars>>

\* The transport cannot reach the Registry or gives up (OutboundHTTPError).
TransportFails(r) ==
  /\ pc[r] \in InFlight
  /\ End(r, "unreachable") /\ answer' = None
  /\ UNCHANGED <<now, registryVars, cacheVars>>

Next ==
  \/ Tick \/ RegistryChanges \/ CacheCorrupts
  \/ \E r \in Requests :
       \/ Begin(r) \/ RegistryLists(r) \/ SearchReturns(r) \/ RegistryServes(r)
       \/ FetchReturns(r) \/ FetchUnavailable(r) \/ InvalidDocument(r)
       \/ RequestFails(r)
       \/ TransportFails(r)

Spec == Init /\ [][Next]_vars

-----------------------------------------------------------------------------
(* Properties. *)

\* Whatever is cached and whoever filled the cache, a resolution rests on a
\* search and an artifact that the Registry gave to this very identity.
IdentitiesIsolated ==
  answer # None => {answer.pick.to, answer.artifact.to} = {IdentityOf[answer.request]}

\* The artifact of a resolution is the one the search selected, with the
\* content of its digest: though a ref may name another version by the time of
\* the fetch, and the Registry and the cache may hand out altered content.
ArtifactIsExact ==
  answer # None =>
    {answer.artifact.claims, answer.artifact.content} = {answer.pick.stub}

\* Cached answers keep to their leases whatever the network delays: every resolution
\* is of a ref that was visible within the search lease and the time two requests
\* may take, and of an artifact within its fresh lease, or within the offline window
\* only when the Registry was unavailable.
LeasesKept ==
  answer # None =>
    /\ answer.lapse < SearchTtl + 2 * Timeout
    /\ answer.age < ArtifactTtl + Timeout + (IF answer.source = "offline" THEN OfflineMax ELSE 0)

\* An agent sees no denied tool and no tool or artifact whose scopes its
\* identity lacks, and each with the fingerprints its policy reviewed, through
\* republished artifacts and shared caches.
SurfaceIsReviewed ==
  answer # None =>
    LET p == PolicyOf[answer.request]
        spec == SpecOf[answer.pick.stub]
    IN
    \A n \in answer.surface :
      /\ n \notin p.deny
      /\ spec.scopes \cup spec.tools[n].scopes \subseteq ScopesOf[IdentityOf[answer.request]]
      /\ p.requirements[n].input \in {Anything, spec.tools[n].inputPrint}

\* An exact fetch that times out uses the stale artifact of the same identity
\* within the offline window, once its fresh lease has run out.
OutageUsesStale ==
  [][\A r \in Requests :
       pc[r] = "fetching" /\ pc'[r] = "unreachable" /\ now = sent[r] + Timeout
         => \A e \in StaleArtifact(ArtifactKey(r, picked[r].stub)) : now < e.fresh]_vars
=============================================================================
