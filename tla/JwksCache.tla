------------------------------ MODULE JwksCache ------------------------------
(***************************************************************************)
(* GatewayJWTContextProvider (adapters/gateway_identity.py): create        *)
(* authenticates a request, with the signing-key cache of _key and         *)
(* _stale_key.  Concurrent requests look up key identifiers while the      *)
(* issuer rotates its keys and its endpoint may fail.  The lookup before   *)
(* the lock and the one under it are the same code on what may be another  *)
(* cache entry.  What the checks of peer, headers, signature and claims    *)
(* say of one token is a choice.                                           *)
(***************************************************************************)
EXTENDS Integers, PythonNone

CONSTANTS
  Lookups,          \* concurrent requests
  Kids,             \* key identifiers tokens may name
  Fresh,            \* jwks_fresh_seconds
  Stale,            \* jwks_stale_seconds
  Retry,            \* jwks_retry_seconds
  FetchTimeout,     \* jwks_timeout_seconds
  MaxTime           \* bound on the clock

\* The configuration the provider accepts: the windows are positive, and keys are
\* kept at least as long as they are fresh.
GatewayIdentityConfig ==
  {Fresh, Stale, Retry, FetchTimeout} \subseteq Nat \ {0} /\ Stale >= Fresh

ASSUME JwksAssumptions ==
  /\ GatewayIdentityConfig /\ MaxTime \in Nat
  /\ None \notin Lookups

VARIABLES
  now,         \* the cache clock
  issuer,      \* keys the issuer publishes
  published,   \* history: when each key was last published
  entry,       \* _cache: its keys and fetched_at, or cached = FALSE
  retryAfter,  \* _retry_after
  holder,      \* the request that holds _cache_lock and fetches
  fetchedAt,   \* the holder's "now", read before its fetch
  look, kid,   \* where each request is, and the key it looks for
  lastMiss,    \* history: start of the last fetch that failed or lacked the key
  age          \* history: for how long the key accepted last was unpublished

cacheVars == <<entry, retryAfter, holder, fetchedAt, lastMiss>>
jwksVars == <<now, issuer, published, cacheVars, look, kid, age>>

\* A date no accepted key may have.
Never == -(Stale + FetchTimeout + 1)

JwksInit ==
  /\ now = 0
  /\ issuer \in SUBSET Kids
  /\ published = [k \in Kids |-> IF k \in issuer THEN 0 ELSE Never]
  /\ entry = [cached |-> FALSE, keys |-> {}, at |-> 0]
  /\ retryAfter = 0 /\ holder = None /\ fetchedAt = 0 /\ lastMiss = -1
  /\ look = [r \in Lookups |-> "idle"]
  /\ kid \in [Lookups -> Kids]
  /\ age = 0

\* Time passes; a fetch in progress never outlasts jwks_timeout_seconds.
Tick ==
  /\ now < MaxTime
  /\ holder # None => now < fetchedAt + FetchTimeout
  /\ now' = now + 1
  /\ published' = [k \in Kids |-> IF k \in issuer THEN now + 1 ELSE published[k]]
  /\ UNCHANGED <<issuer, cacheVars, look, kid, age>>

\* The issuer publishes or withdraws a key.
Rotate ==
  /\ \E k \in Kids :
       /\ issuer' = IF k \in issuer THEN issuer \ {k} ELSE issuer \cup {k}
       /\ published' = [published EXCEPT ![k] = now]
  /\ UNCHANGED <<now, cacheVars, look, kid, age>>

-----------------------------------------------------------------------------
Unauthenticated(r) == look' = [look EXCEPT ![r] = "rejected"] /\ UNCHANGED age

\* The times, the claims or the scopes of a verified token are not acceptable.
ClaimsRejected(r) == Unauthenticated(r)

\* create after the key lookup: the signature, the times and the claims of the
\* token and the forwarded headers are verified with the key that was found.
Answer(r, found) ==
  \/ ClaimsRejected(r)
  \/ /\ found
     /\ look' = [look EXCEPT ![r] = "accepted"]
     /\ age' = now - published[kid[r]]

\* create before the key lookup: the peer is not trusted, a header or the token
\* is malformed, or it names another algorithm.
Malformed(r) ==
  /\ look[r] = "idle"
  /\ Unauthenticated(r)
  /\ UNCHANGED <<now, issuer, published, cacheVars, kid>>

FreshHit(k) == entry.cached /\ now - entry.at < Fresh /\ k \in entry.keys

\* Mutant of StaleHit: the entry's age does not matter.
StaleHitAnyAge(k, t) == entry.cached /\ k \in entry.keys

\* _stale_key: an entry that is not too old still answers, at the time t the
\* lookup has read.
StaleHit(k, t) == entry.cached /\ t - entry.at <= Stale /\ k \in entry.keys

\* What both lookups decide without a fetch.
Decides(k) == FreshHit(k) \/ now < retryAfter

\* The lookup before the lock: a fresh key, the retry window, or the queue for
\* the lock.
Lookup(r) ==
  /\ look[r] = "idle"
  /\ IF Decides(kid[r])
       THEN Answer(r, FreshHit(kid[r]) \/ StaleHit(kid[r], now))
       ELSE look' = [look EXCEPT ![r] = "waiting"] /\ UNCHANGED age
  /\ UNCHANGED <<now, issuer, published, cacheVars, kid>>

\* The lookup under the lock: another request may have fetched meanwhile.
Locked(r) ==
  /\ look[r] = "waiting" /\ holder = None
  /\ IF Decides(kid[r])
       THEN /\ Answer(r, FreshHit(kid[r]) \/ StaleHit(kid[r], now))
            /\ UNCHANGED <<holder, fetchedAt>>
       ELSE /\ look' = [look EXCEPT ![r] = "fetching"]
            /\ holder' = r /\ fetchedAt' = now
            /\ UNCHANGED age
  /\ UNCHANGED <<now, issuer, published, entry, retryAfter, lastMiss, kid>>

\* The fetch returns the issuer's keys: they replace the cache, dated from
\* before the fetch; a key they lack opens the retry window.  A document
\* without keys is invalid.
KeysFetched(r) ==
  /\ look[r] = "fetching" /\ issuer # {}
  /\ entry' = [cached |-> TRUE, keys |-> issuer, at |-> fetchedAt]
  /\ retryAfter' = IF kid[r] \in issuer THEN 0 ELSE fetchedAt + Retry
  /\ lastMiss' = IF kid[r] \in issuer THEN -1 ELSE fetchedAt
  /\ Answer(r, kid[r] \in issuer)
  /\ holder' = None
  /\ UNCHANGED <<now, issuer, published, fetchedAt, kid>>

\* Mutant of KeysFetchFail: the retry window is not opened.
KeysFetchFailNoWindow(r) ==
  /\ look[r] = "fetching"
  /\ lastMiss' = fetchedAt
  /\ Answer(r, StaleHit(kid[r], fetchedAt))
  /\ holder' = None
  /\ UNCHANGED <<now, issuer, published, entry, retryAfter, fetchedAt, kid>>

\* The fetch fails, times out or returns an invalid document.
KeysFetchFail(r) ==
  /\ look[r] = "fetching"
  /\ retryAfter' = fetchedAt + Retry
  /\ lastMiss' = fetchedAt
  /\ Answer(r, StaleHit(kid[r], fetchedAt))
  /\ holder' = None
  /\ UNCHANGED <<now, issuer, published, entry, fetchedAt, kid>>

\* The request is cancelled while it waits or fetches: the lock is released and
\* nothing is recorded.
LookupCancelled(r) ==
  /\ look[r] \in {"waiting", "fetching"}
  /\ Unauthenticated(r)
  /\ holder' = IF holder = r THEN None ELSE holder
  /\ UNCHANGED <<now, issuer, published, entry, retryAfter, fetchedAt, lastMiss, kid>>

\* A request that was answered is followed by another one, for any key.
Again(r) ==
  /\ look[r] \in {"accepted", "rejected"}
  /\ look' = [look EXCEPT ![r] = "idle"]
  /\ \E k \in Kids : kid' = [kid EXCEPT ![r] = k]
  /\ UNCHANGED <<now, issuer, published, cacheVars, age>>

JwksNext ==
  \/ Tick \/ Rotate
  \/ \E r \in Lookups :
       \/ Malformed(r) \/ Lookup(r) \/ Locked(r) \/ KeysFetched(r) \/ KeysFetchFail(r) \/ LookupCancelled(r)
       \/ Again(r)

JwksSpec == JwksInit /\ [][JwksNext]_jwksVars

-----------------------------------------------------------------------------
(* Properties. *)

\* A withdrawn key stops being accepted, through failed fetches, rotations and
\* concurrent lookups: whenever a key is accepted the issuer has published it within the
\* stale window and the time one fetch may take.  The fetch is part of the bound because
\* _key compares the cache's age with a time it read before the fetch that failed.
WithdrawnKeyExpires == age <= Stale + FetchTimeout

\* What docs/gateway-identity.md says of the same keys: a cached key whose issuer has
\* removed it "can remain usable for at most the stale window", and "an expired stale
\* cache always fails closed".  _stale_key keeps to it for the time it is given, which
\* the fetch has left behind.
StaleWindowKept == age <= Stale

\* After a fetch that failed or lacked the key asked for, the endpoint is left
\* alone for the retry interval, whatever keys requests name.
RetryIntervalKept ==
  [][holder = None /\ holder' # None /\ lastMiss # -1 => now >= lastMiss + Retry]_jwksVars
=============================================================================
