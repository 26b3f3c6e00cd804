---------------------------- MODULE GuardsProofs -----------------------------
(***************************************************************************)
(* Proofs about the guards of a call: the approvals of ToolPolicy, for     *)
(* every set of calls, approvals, records and rules; the signing keys of   *)
(* JwksCache, for every configuration the provider accepts; and the        *)
(* requests of OutboundClient with its circuit breaker, for every value of *)
(* the limits.                                                             *)
(***************************************************************************)
EXTENDS ToolPolicy, JwksCache, OutboundClient, FiniteSetTheorems, TLAPS

-----------------------------------------------------------------------------
(* ToolPolicy.                                                                 *)
(*                                                                             *)
(* An approval is used once because of what the store's answer means: a call   *)
(* that was answered yes is the call that consumed its approval.               *)
(* SpendersAnswered ties the answer, the store and the history together;       *)
(* ClaimsChecked carries what fetch has found out across the awaits.           *)

PolicyTypes ==
  /\ asked \in [Calls -> {"idle", "fetching", "consuming", "allowed", "denied",
                         "unavailable", "cancelled"}]
  /\ reply \in [Calls -> {"none", "yes", "no"}]
  /\ consumed \subseteq Approvals
  /\ spentBy \in [Approvals -> Calls \cup {None}]

\* What is known of the claim of a call past the first checks.
ClaimsChecked ==
  \A c \in Calls :
    /\ asked[c] = "fetching" => ClaimOf[c] # None
    /\ asked[c] = "consuming" =>
         ClaimOf[c] \in OneTime /\ RecordFor[ClaimOf[c]] = ActionOf[c]
    /\ asked[c] = "allowed" /\ c \in Guarded =>
         /\ ClaimOf[c] # None /\ RecordFor[ClaimOf[c]] = ActionOf[c]
         /\ ClaimOf[c] \in OneTime => reply[c] = "yes"

\* A call is answered yes exactly if it consumed the approval it claims, and the
\* answer is given only to calls that await it or have awaited it.
SpendersAnswered ==
  /\ \A c \in Calls :
       /\ reply[c] = "yes" =>
            ClaimOf[c] \in consumed /\ spentBy[ClaimOf[c]] = c
       /\ asked[c] \in {"idle", "fetching"} => reply[c] = "none"
       /\ reply[c] = "yes" => asked[c] # "denied"
  /\ \A a \in consumed :
       /\ spentBy[a] \in Calls /\ reply[spentBy[a]] = "yes"
       /\ ClaimOf[spentBy[a]] = a /\ RecordFor[a] = ActionOf[spentBy[a]]

PolicyInv == PolicyTypes /\ AllowedIsAudited /\ ClaimsChecked /\ SpendersAnswered

\* Nothing has been asked and nothing is consumed.
LEMMA InitPolicyInv == PolicyInit => PolicyInv
  BY PolicyAssumptions
  DEF PolicyInit, PolicyInv, PolicyTypes, AllowedIsAudited, Allowed, ClaimsChecked,
      SpendersAnswered

-----------------------------------------------------------------------------
(* The ends of authorize. *)

\* A call moves; the audit sink gets an event of it or none.
Moves(c, how) ==
  /\ asked' = [asked EXCEPT ![c] = how]
  /\ \/ UNCHANGED audit /\ how # "allowed"
     \/ \E d : audit' = audit \cup {<<c, d>>} /\ (d = "allowed" <=> how = "allowed")

Ends == {"fetching", "consuming", "allowed", "denied", "unavailable", "cancelled"}

\* However a call ends, it is allowed exactly if the sink has its event.
LEMMA EndsMove ==
  ASSUME NEW c \in Calls
  PROVE  /\ Allow(c) => \E how \in {"allowed", "unavailable"} : Moves(c, how)
         /\ \A d : d # "allowed" /\ Deny(c, d) => Moves(c, "denied")
         /\ BackendUnavailable(c) => Moves(c, "unavailable")
         /\ \A how : how # "allowed" /\ Unrecorded(c, how) => Moves(c, how)
  BY DEF Allow, Deny, BackendUnavailable, End, Unrecorded, Moves

\* A call that is not allowed yet moves: the audit trail still agrees.
LEMMA MovesKeepAudit ==
  ASSUME PolicyTypes, AllowedIsAudited, NEW c \in Calls, NEW how \in Ends,
         asked[c] # "allowed", Moves(c, how)
  PROVE  AllowedIsAudited'
  <1>1. \A x \in Calls : x \in Allowed' <=> (IF x = c THEN how = "allowed" ELSE x \in Allowed)
    BY DEF PolicyTypes, Allowed, Moves
  <1>2. \A x \in Calls : x \in Allowed <=> <<x, "allowed">> \in audit
    BY DEF AllowedIsAudited, Allowed
  <1>3. c \notin Allowed
    BY DEF Allowed
  <1>4. \A x \in Calls : <<x, "allowed">> \in audit' <=>
          IF x = c THEN how = "allowed" ELSE <<x, "allowed">> \in audit
    <2>1. CASE UNCHANGED audit /\ how # "allowed"
      BY <1>2, <1>3, <2>1
    <2>2. ASSUME NEW d, audit' = audit \cup {<<c, d>>}, d = "allowed" <=> how = "allowed"
          PROVE  \A x \in Calls : <<x, "allowed">> \in audit' <=>
                   IF x = c THEN how = "allowed" ELSE <<x, "allowed">> \in audit
      BY <1>2, <1>3, <2>2
    <2> QED  BY <2>1, <2>2 DEF Moves
  <1>5. \A x \in Calls : x \in Allowed' <=> <<x, "allowed">> \in audit'
    BY <1>1, <1>2, <1>4
  <1> QED  BY <1>5 DEF AllowedIsAudited, Allowed

\* The same for the rest of the invariant, when the store is not touched: what
\* the call must know where it moves to.
LEMMA MovesKeepInv ==
  ASSUME PolicyInv, NEW c \in Calls, NEW how \in Ends,
         asked[c] \in {"idle", "fetching", "consuming"}, Moves(c, how),
         UNCHANGED <<expired, consumed, reply, spentBy>>,
         how = "fetching" => ClaimOf[c] # None /\ reply[c] = "none",
         how = "consuming" => ClaimOf[c] \in OneTime /\ RecordFor[ClaimOf[c]] = ActionOf[c],
         how = "allowed" /\ c \in Guarded =>
           /\ ClaimOf[c] # None /\ RecordFor[ClaimOf[c]] = ActionOf[c]
           /\ ClaimOf[c] \in OneTime => reply[c] = "yes",
         how = "denied" => reply[c] # "yes"
  PROVE  PolicyInv'
  <1>1. asked' = [asked EXCEPT ![c] = how]
    BY DEF Moves
  <1>2. PolicyTypes'
    BY <1>1 DEF PolicyInv, PolicyTypes, Ends
  <1>3. ClaimsChecked'
    BY <1>1 DEF PolicyInv, PolicyTypes, ClaimsChecked
  <1>4. SpendersAnswered'
    BY <1>1 DEF PolicyInv, PolicyTypes, SpendersAnswered, Ends
  <1>5. AllowedIsAudited'
    BY MovesKeepAudit DEF PolicyInv
  <1> QED  BY <1>2, <1>3, <1>4, <1>5 DEF PolicyInv

-----------------------------------------------------------------------------
(* The steps. *)

\* authorize up to its first await.
LEMMA AuthorizeKeepsInv ==
  ASSUME PolicyInv, NEW c \in Calls, Authorize(c)
  PROVE  PolicyInv'
  <1>1. asked[c] = "idle" /\ reply[c] = "none" /\ UNCHANGED <<expired, consumed, reply, spentBy>>
    BY DEF Authorize, PolicyInv, SpendersAnswered
  <1>2. CASE \E d : d # "allowed" /\ Deny(c, d)
    BY <1>1, <1>2, EndsMove, MovesKeepInv DEF Ends
  <1>3. CASE c \notin Guarded /\ Allow(c)
    <2>1. PICK how \in {"allowed", "unavailable"} : Moves(c, how)
      BY <1>3, EndsMove
    <2> QED  BY <1>1, <1>3, <2>1, MovesKeepInv DEF Ends
  <1>4. CASE ClaimOf[c] # None /\ Unrecorded(c, "fetching")
    BY <1>1, <1>4, EndsMove, MovesKeepInv DEF Ends
  <1> QED  BY <1>2, <1>3, <1>4 DEF Authorize

\* The answer of fetch, with all that it may decide.
LEMMA RecordFetchedKeepsInv ==
  ASSUME PolicyInv, NEW c \in Calls, RecordFetched(c)
  PROVE  PolicyInv'
  <1>1. /\ asked[c] = "fetching" /\ reply[c] = "none" /\ ClaimOf[c] # None
        /\ UNCHANGED <<expired, consumed, reply, spentBy>>
    BY DEF RecordFetched, PolicyInv, SpendersAnswered, ClaimsChecked
  <1>2. CASE BackendUnavailable(c) \/ Deny(c, "approval_denied")
    <2>1. Moves(c, "unavailable") \/ Moves(c, "denied")
      BY <1>2, EndsMove
    <2> QED  BY <1>1, <2>1, MovesKeepInv DEF Ends
  <1>3. CASE Matches(c) /\ ClaimOf[c] \in OneTime /\ Unrecorded(c, "consuming")
    BY <1>1, <1>3, EndsMove, MovesKeepInv DEF Ends, Matches
  <1>4. CASE Matches(c) /\ ClaimOf[c] \notin OneTime /\ Allow(c)
    <2>1. PICK how \in {"allowed", "unavailable"} : Moves(c, how)
      BY <1>4, EndsMove
    <2> QED  BY <1>1, <1>4, <2>1, MovesKeepInv DEF Ends, Matches
  <1> QED  BY <1>2, <1>3, <1>4 DEF RecordFetched

\* The answer of consume, or its failure.
LEMMA ConsumedKeepsInv ==
  ASSUME PolicyInv, NEW c \in Calls, Consumed(c)
  PROVE  PolicyInv'
  <1>1. /\ asked[c] = "consuming" /\ ClaimOf[c] \in OneTime
        /\ RecordFor[ClaimOf[c]] = ActionOf[c]
        /\ UNCHANGED <<expired, consumed, reply, spentBy>>
    BY DEF Consumed, PolicyInv, ClaimsChecked
  <1>2. ClaimOf[c] # None
    BY <1>1, PolicyAssumptions
  <1>3. CASE BackendUnavailable(c)
    BY <1>1, <1>3, EndsMove, MovesKeepInv DEF Ends
  <1>4. CASE reply[c] = "yes" /\ Allow(c)
    <2>1. PICK how \in {"allowed", "unavailable"} : Moves(c, how)
      BY <1>4, EndsMove
    <2> QED  BY <1>1, <1>2, <1>4, <2>1, MovesKeepInv DEF Ends
  <1>5. CASE reply[c] = "no" /\ Deny(c, "approval_denied")
    BY <1>1, <1>5, EndsMove, MovesKeepInv DEF Ends
  <1> QED  BY <1>3, <1>4, <1>5 DEF Consumed

\* The store answers one call and, if it answers yes, consumes that call's
\* approval, which no other call had been given.
LEMMA StoreKeepsInv ==
  ASSUME PolicyInv, NEW c \in Calls, StoreConsumes(c)
  PROVE  PolicyInv'
  <1>1. /\ asked[c] = "consuming" /\ reply[c] = "none" /\ UNCHANGED <<asked, audit, expired>>
        /\ ClaimOf[c] \in Approvals /\ RecordFor[ClaimOf[c]] = ActionOf[c]
    BY PolicyAssumptions DEF StoreConsumes, PolicyInv, ClaimsChecked
  <1>2. AllowedIsAudited'
    BY <1>1 DEF PolicyInv, AllowedIsAudited, Allowed
  <1>3. CASE reply' = [reply EXCEPT ![c] = "no"] /\ UNCHANGED <<consumed, spentBy>>
    <2>1. PolicyTypes'
      BY <1>1, <1>3 DEF PolicyInv, PolicyTypes
    <2>2. ClaimsChecked'
      BY <1>1, <1>3 DEF PolicyInv, PolicyTypes, ClaimsChecked
    <2>3. SpendersAnswered'
      BY <1>1, <1>3 DEF PolicyInv, PolicyTypes, SpendersAnswered
    <2> QED  BY <1>2, <2>1, <2>2, <2>3 DEF PolicyInv
  <1>4. CASE /\ ClaimOf[c] \notin consumed
             /\ reply' = [reply EXCEPT ![c] = "yes"]
             /\ consumed' = consumed \cup {ClaimOf[c]}
             /\ spentBy' = [spentBy EXCEPT ![ClaimOf[c]] = c]
    <2>1. PolicyTypes'
      BY <1>1, <1>4 DEF PolicyInv, PolicyTypes
    <2>2. ClaimsChecked'
      BY <1>1, <1>4 DEF PolicyInv, PolicyTypes, ClaimsChecked
    <2>3. \A x \in Calls : reply[x] = "yes" => ClaimOf[x] # ClaimOf[c]
      BY <1>1, <1>4, PolicyAssumptions DEF PolicyInv, PolicyTypes, SpendersAnswered
    <2>4. SpendersAnswered'
      BY <1>1, <1>4, <2>3, PolicyAssumptions DEF PolicyInv, PolicyTypes, SpendersAnswered
    <2> QED  BY <1>2, <2>1, <2>2, <2>4 DEF PolicyInv
  <1> QED  BY <1>3, <1>4 DEF StoreConsumes

\* Every step keeps the invariant.
LEMMA NextPolicyInv == PolicyInv /\ [PolicyNext]_policyVars => PolicyInv'
  <1> SUFFICES ASSUME PolicyInv, [PolicyNext]_policyVars PROVE PolicyInv'
    OBVIOUS
  <1>1. ASSUME NEW c \in Calls, AuthorizeCancelled(c)
        PROVE  PolicyInv'
    <2>1. Moves(c, "cancelled")
      BY <1>1, EndsMove DEF AuthorizeCancelled
    <2> QED  BY <1>1, <2>1, MovesKeepInv DEF AuthorizeCancelled, Ends
  <1>2. CASE UNCHANGED <<asked, audit, consumed, reply, spentBy>>
    BY <1>2 DEF PolicyInv, PolicyTypes, AllowedIsAudited, Allowed, ClaimsChecked,
                SpendersAnswered
  <1>3. (\E a \in Approvals : Expire(a)) \/ UNCHANGED policyVars
          => UNCHANGED <<asked, audit, consumed, reply, spentBy>>
    BY DEF Expire, policyVars
  <1> QED  BY <1>1, <1>2, <1>3, AuthorizeKeepsInv, RecordFetchedKeepsInv, ConsumedKeepsInv,
              StoreKeepsInv DEF PolicyNext

\* The invariant holds in every reachable state.
LEMMA PolicyInvariance == PolicySpec => []PolicyInv
  BY InitPolicyInv, NextPolicyInv, PTL DEF PolicySpec

-----------------------------------------------------------------------------
(* The theorems. *)

\* A one-time approval allows at most one call, for any number of calls that
\* claim it and every order of their fetches and of the store's answers.
THEOREM ApprovalsUsedOnce == PolicySpec => []OneUsePerApproval
  <1>1. ASSUME PolicyInv, NEW a \in OneTime
        PROVE  Cardinality({c \in Allowed \cap Guarded : ClaimOf[c] = a}) <= 1
    <2> DEFINE Users == {c \in Allowed \cap Guarded : ClaimOf[c] = a}
    <2>1. \A c \in Users : c = spentBy[a]
      BY <1>1 DEF Allowed, PolicyInv, ClaimsChecked, SpendersAnswered
    <2>2. Users \in SUBSET {spentBy[a]}
      BY <2>1
    <2>3. IsFiniteSet({spentBy[a]}) /\ Cardinality({spentBy[a]}) = 1
      BY FS_Singleton
    <2>4. Cardinality(Users) <= Cardinality({spentBy[a]})
      BY <2>2, <2>3, FS_Subset
    <2> QED  BY <2>3, <2>4
  <1>2. PolicyInv => OneUsePerApproval
    BY <1>1 DEF OneUsePerApproval
  <1> QED  BY <1>2, PolicyInvariance, PTL

\* The calls that run are the calls of the audit trail, whichever appends the
\* sink refuses.
THEOREM AllowedAreAudited == PolicySpec => []AllowedIsAudited
  <1>1. PolicyInv => AllowedIsAudited
    BY DEF PolicyInv
  <1> QED  BY <1>1, PolicyInvariance, PTL

\* What runs under an approval is the approved action, and a call that spent an
\* approval is never told that it was denied.
THEOREM ApprovalsBindActions == PolicySpec => []ApprovalBindsAction
  <1>1. PolicyInv => ApprovalBindsAction
    BY DEF PolicyInv, ClaimsChecked, SpendersAnswered, ApprovalBindsAction, Allowed
  <1> QED  BY <1>1, PolicyInvariance, PTL

-----------------------------------------------------------------------------
(* JwksCache.                                                                  *)
(*                                                                             *)
(* The entry is dated from before its fetch, so each of its keys was published *)
(* at that date or later (EntryDated); one request at a time fetches, and not  *)
(* longer than the timeout (OneFetch).  With the stale window that bounds for  *)
(* how long a key outlives its withdrawal.                                     *)

JwksTypes ==
  /\ now \in Nat /\ issuer \subseteq Kids
  /\ published \in [Kids -> Int]
  /\ entry \in [cached : BOOLEAN, keys : SUBSET Kids, at : Int]
  /\ retryAfter \in Int /\ fetchedAt \in Int /\ lastMiss \in Int /\ age \in Int
  /\ look \in [Lookups -> {"idle", "waiting", "fetching", "accepted", "rejected"}]
  /\ kid \in [Lookups -> Kids]

\* A key the issuer publishes is published now.
PublishedNow == \A k \in issuer : published[k] = now

\* What the cache holds was published when, or after, its fetch began.
EntryDated == entry.at <= now /\ \A k \in entry.keys : published[k] >= entry.at

\* The holder of the lock is the one request that fetches, in time.
OneFetch ==
  /\ fetchedAt <= now
  /\ holder # None => holder \in Lookups /\ now <= fetchedAt + FetchTimeout
  /\ \A r \in Lookups : look[r] = "fetching" <=> holder = r

\* A miss opens the retry window.
WindowOpen == lastMiss # -1 => retryAfter = lastMiss + Retry

JwksInv == JwksTypes /\ PublishedNow /\ EntryDated /\ OneFetch /\ WindowOpen /\ WithdrawnKeyExpires

\* Nothing is cached.
LEMMA InitJwksInv == JwksInit => JwksInv
  <1> SUFFICES ASSUME JwksInit PROVE JwksInv
    OBVIOUS
  <1>1. Never \in Int
    BY JwksAssumptions DEF Never, GatewayIdentityConfig
  <1>2. JwksTypes
    BY <1>1 DEF JwksInit, JwksTypes
  <1>3. OneFetch
    BY JwksAssumptions DEF JwksInit, OneFetch
  <1>4. PublishedNow /\ EntryDated /\ WindowOpen
    BY DEF JwksInit, PublishedNow, EntryDated, WindowOpen
  <1>5. WithdrawnKeyExpires
    BY JwksAssumptions DEF JwksInit, WithdrawnKeyExpires, GatewayIdentityConfig
  <1> QED  BY <1>2, <1>3, <1>4, <1>5 DEF JwksInv

-----------------------------------------------------------------------------
(* The answers of the cache. *)

\* A key that was found in the cache, at a time not long before now, has not
\* been unpublished for longer than the bound.
LEMMA HitIsRecent ==
  ASSUME JwksInv, NEW k \in Kids, NEW t \in Int, t <= now, now <= t + FetchTimeout,
         FreshHit(k) \/ StaleHit(k, t)
  PROVE  now - published[k] <= Stale + FetchTimeout
  <1>1. published[k] >= entry.at /\ published[k] \in Int /\ entry.at \in Int /\ now \in Int
    BY DEF JwksInv, JwksTypes, EntryDated, FreshHit, StaleHit
  <1>2. {Fresh, Stale, FetchTimeout} \subseteq Nat /\ Stale >= Fresh
    BY JwksAssumptions DEF GatewayIdentityConfig
  <1>3. now - entry.at <= Stale + FetchTimeout
    BY <1>1, <1>2 DEF FreshHit, StaleHit
  <1> QED  BY <1>1, <1>2, <1>3

\* A request is answered from what was found.
LEMMA AnswerIsRecent ==
  ASSUME JwksInv, NEW r \in Lookups, NEW found, Answer(r, found),
         found => now - published[kid[r]] <= Stale + FetchTimeout
  PROVE  /\ age' \in Int /\ age' <= Stale + FetchTimeout
         /\ \E how \in {"accepted", "rejected"} : look' = [look EXCEPT ![r] = how]
  BY DEF Answer, ClaimsRejected, Unauthenticated, JwksInv, JwksTypes, WithdrawnKeyExpires

-----------------------------------------------------------------------------
(* The steps. *)

\* Time passes, or the issuer rotates a key.
LEMMA WorldKeepsInv ==
  ASSUME JwksInv, Tick \/ Rotate
  PROVE  JwksInv'
  <1> USE DEF JwksInv
  <1>1. CASE Tick
    <2>1. now' = now + 1 /\ UNCHANGED <<issuer, entry, retryAfter, holder, fetchedAt, lastMiss, look, kid, age>>
      BY <1>1 DEF Tick, cacheVars
    <2>2. published' = [k \in Kids |-> IF k \in issuer THEN now + 1 ELSE published[k]]
      BY <1>1 DEF Tick
    <2>3. \A k \in issuer : published[k] <= now + 1
      BY DEF JwksTypes, PublishedNow
    <2>4. \A k \in Kids : published'[k] \in Int /\ published'[k] >= published[k]
      BY <2>2, <2>3 DEF JwksTypes
    <2>5. JwksTypes'
      BY <2>1, <2>2, <2>4 DEF JwksTypes
    <2>6. PublishedNow'
      BY <2>1, <2>2 DEF JwksTypes, PublishedNow
    <2>7. EntryDated'
      BY <2>1, <2>4 DEF JwksTypes, EntryDated
    <2>8. OneFetch'
      <3>1. FetchTimeout \in Nat
        BY JwksAssumptions DEF GatewayIdentityConfig
      <3> QED  BY <1>1, <2>1, <3>1 DEF Tick, JwksTypes, OneFetch
    <2>9. WindowOpen' /\ WithdrawnKeyExpires'
      BY <2>1 DEF WindowOpen, WithdrawnKeyExpires
    <2> QED  BY <2>5, <2>6, <2>7, <2>8, <2>9
  <1>2. CASE Rotate
    <2>1. UNCHANGED <<now, entry, retryAfter, holder, fetchedAt, lastMiss, look, kid, age>>
      BY <1>2 DEF Rotate, cacheVars
    <2>2. PICK k \in Kids :
            /\ issuer' = IF k \in issuer THEN issuer \ {k} ELSE issuer \cup {k}
            /\ published' = [published EXCEPT ![k] = now]
      BY <1>2 DEF Rotate
    <2>3. JwksTypes'
      BY <2>1, <2>2 DEF JwksTypes
    <2>4. PublishedNow'
      BY <2>1, <2>2 DEF JwksTypes, PublishedNow
    <2>5. EntryDated'
      BY <2>1, <2>2 DEF JwksTypes, EntryDated
    <2>6. OneFetch' /\ WindowOpen' /\ WithdrawnKeyExpires'
      BY <2>1 DEF OneFetch, WindowOpen, WithdrawnKeyExpires
    <2> QED  BY <2>3, <2>4, <2>5, <2>6
  <1> QED  BY <1>1, <1>2

\* A request that does not hold the lock moves on, without taking the lock.
LEMMA MoveKeepsInv ==
  ASSUME JwksInv, NEW r \in Lookups,
         look[r] # "fetching",
         NEW how \in {"idle", "waiting", "accepted", "rejected"}, look' = [look EXCEPT ![r] = how],
         UNCHANGED <<now, issuer, published, cacheVars>>,
         kid' \in [Lookups -> Kids],
         age' \in Int, age' <= Stale + FetchTimeout
  PROVE  JwksInv'
  <1> USE DEF JwksInv, cacheVars
  <1>1. JwksTypes'
    BY DEF JwksTypes
  <1>2. OneFetch'
    BY DEF JwksTypes, OneFetch
  <1>3. PublishedNow' /\ EntryDated' /\ WindowOpen' /\ WithdrawnKeyExpires'
    BY DEF PublishedNow, EntryDated, WindowOpen, WithdrawnKeyExpires
  <1> QED  BY <1>1, <1>2, <1>3

\* The lookup before the lock, and the one under it.
LEMMA LookupKeepsInv ==
  ASSUME JwksInv, NEW r \in Lookups, Lookup(r) \/ Locked(r)
  PROVE  JwksInv'
  <1> USE DEF JwksInv
  <1>1. /\ look[r] \in {"idle", "waiting"} /\ kid[r] \in Kids /\ now \in Nat
        /\ FetchTimeout \in Nat /\ UNCHANGED kid
        /\ age \in Int /\ age <= Stale + FetchTimeout
    BY JwksAssumptions
    DEF GatewayIdentityConfig, Lookup, Locked, JwksTypes, WithdrawnKeyExpires
  <1>2. CASE /\ Answer(r, FreshHit(kid[r]) \/ StaleHit(kid[r], now))
             /\ UNCHANGED <<now, issuer, published, cacheVars>>
    <2>1. FreshHit(kid[r]) \/ StaleHit(kid[r], now)
            => now - published[kid[r]] <= Stale + FetchTimeout
      BY <1>1, HitIsRecent
    <2>2. /\ age' \in Int /\ age' <= Stale + FetchTimeout
          /\ \E how \in {"accepted", "rejected"} : look' = [look EXCEPT ![r] = how]
      BY <1>2, <2>1, AnswerIsRecent
    <2> QED  BY <1>1, <1>2, <2>2, MoveKeepsInv DEF JwksTypes
  <1>3. CASE /\ look' = [look EXCEPT ![r] = "waiting"] /\ UNCHANGED age
             /\ UNCHANGED <<now, issuer, published, cacheVars>>
    BY <1>1, <1>3, MoveKeepsInv DEF JwksTypes
  <1>4. CASE /\ holder = None /\ look' = [look EXCEPT ![r] = "fetching"]
             /\ holder' = r /\ fetchedAt' = now /\ UNCHANGED age
             /\ UNCHANGED <<now, issuer, published, entry, retryAfter, lastMiss>>
    <2>1. JwksTypes'
      BY <1>1, <1>4 DEF JwksTypes
    <2>2. OneFetch'
      <3>1. \A x \in Lookups : look[x] # "fetching"
        BY <1>4, JwksAssumptions DEF OneFetch
      <3>2. \A x \in Lookups : look'[x] = "fetching" <=> x = r
        BY <1>4, <3>1 DEF JwksTypes
      <3> QED  BY <1>1, <1>4, <3>2 DEF OneFetch
    <2>3. PublishedNow' /\ EntryDated' /\ WindowOpen' /\ WithdrawnKeyExpires'
      BY <1>4 DEF PublishedNow, EntryDated, WindowOpen, WithdrawnKeyExpires
    <2> QED  BY <2>1, <2>2, <2>3
  <1> QED  BY <1>2, <1>3, <1>4 DEF Lookup, Locked, cacheVars

\* A fetch ends: with keys, in failure, or by a cancellation.  The lock is free.
LEMMA FetchEndsKeepsInv ==
  ASSUME JwksInv, NEW r \in Lookups, look[r] = "fetching",
         NEW how \in {"accepted", "rejected"}, look' = [look EXCEPT ![r] = how], holder' = None,
         UNCHANGED <<now, issuer, published, fetchedAt, kid>>,
         entry' \in {entry, [cached |-> TRUE, keys |-> issuer, at |-> fetchedAt]},
         \/ UNCHANGED <<lastMiss, retryAfter>>
         \/ lastMiss' = fetchedAt /\ retryAfter' = fetchedAt + Retry
         \/ lastMiss' = -1 /\ retryAfter' = 0,
         age' \in Int, age' <= Stale + FetchTimeout
  PROVE  JwksInv'
  <1> USE DEF JwksInv
  <1>1. Retry \in Nat
    BY JwksAssumptions DEF GatewayIdentityConfig
  <1>2. JwksTypes'
    <2>1. entry' \in [cached : BOOLEAN, keys : SUBSET Kids, at : Int]
      <3>1. CASE entry' = entry
        BY <3>1 DEF JwksTypes
      <3>2. CASE entry' = [cached |-> TRUE, keys |-> issuer, at |-> fetchedAt]
        <4>1. issuer \in SUBSET Kids /\ fetchedAt \in Int /\ TRUE \in BOOLEAN
          BY DEF JwksTypes
        <4> QED  BY <3>2, <4>1
      <3> QED  BY <3>1, <3>2
    <2>2. retryAfter' \in Int /\ lastMiss' \in Int
      BY <1>1 DEF JwksTypes
    <2>3. look' \in [Lookups -> {"idle", "waiting", "fetching", "accepted", "rejected"}]
      BY DEF JwksTypes
    <2> QED  BY <2>1, <2>2, <2>3 DEF JwksTypes
  <1>3. OneFetch'
    <2>1. \A x \in Lookups : x # r => look[x] # "fetching"
      BY DEF OneFetch
    <2>2. \A x \in Lookups : look'[x] # "fetching" /\ x # None
      BY <2>1, JwksAssumptions DEF JwksTypes
    <2> QED  BY <2>2 DEF OneFetch
  <1>4. EntryDated'
    BY DEF JwksTypes, EntryDated, OneFetch, PublishedNow
  <1>5. PublishedNow' /\ WindowOpen' /\ WithdrawnKeyExpires'
    BY DEF PublishedNow, WindowOpen, WithdrawnKeyExpires
  <1> QED  BY <1>2, <1>3, <1>4, <1>5

\* The ends of a fetch.
LEMMA FetchKeepsInv ==
  ASSUME JwksInv, NEW r \in Lookups, KeysFetched(r) \/ KeysFetchFail(r)
  PROVE  JwksInv'
  <1>1. /\ look[r] = "fetching" /\ kid[r] \in Kids /\ holder' = None
        /\ fetchedAt \in Int /\ fetchedAt <= now /\ now <= fetchedAt + FetchTimeout
        /\ UNCHANGED <<now, issuer, published, fetchedAt, kid>>
    BY JwksAssumptions DEF KeysFetched, KeysFetchFail, JwksInv, JwksTypes, OneFetch
  <1>2. CASE KeysFetched(r)
    <2>1. kid[r] \in issuer => now - published[kid[r]] <= Stale + FetchTimeout
      BY <1>1, JwksAssumptions DEF JwksInv, JwksTypes, PublishedNow, GatewayIdentityConfig
    <2>2. /\ age' \in Int /\ age' <= Stale + FetchTimeout
          /\ \E how \in {"accepted", "rejected"} : look' = [look EXCEPT ![r] = how]
      BY <1>2, <2>1, AnswerIsRecent DEF KeysFetched
    <2> QED  BY <1>1, <1>2, <2>2, FetchEndsKeepsInv DEF KeysFetched
  <1>3. CASE KeysFetchFail(r)
    <2>1. StaleHit(kid[r], fetchedAt) => now - published[kid[r]] <= Stale + FetchTimeout
      BY <1>1, HitIsRecent
    <2>2. /\ age' \in Int /\ age' <= Stale + FetchTimeout
          /\ \E how \in {"accepted", "rejected"} : look' = [look EXCEPT ![r] = how]
      BY <1>3, <2>1, AnswerIsRecent DEF KeysFetchFail
    <2> QED  BY <1>1, <1>3, <2>2, FetchEndsKeepsInv DEF KeysFetchFail
  <1> QED  BY <1>2, <1>3

\* Every step keeps the invariant.
LEMMA NextJwksInv == JwksInv /\ [JwksNext]_jwksVars => JwksInv'
  <1> SUFFICES ASSUME JwksInv, [JwksNext]_jwksVars PROVE JwksInv'
    OBVIOUS
  <1>1. CASE UNCHANGED jwksVars
    BY <1>1 DEF jwksVars, cacheVars, JwksInv, JwksTypes, PublishedNow, EntryDated, OneFetch,
                WindowOpen, WithdrawnKeyExpires
  <1>2. age \in Int /\ age <= Stale + FetchTimeout
    BY DEF JwksInv, JwksTypes, WithdrawnKeyExpires
  <1>3. ASSUME NEW r \in Lookups, Malformed(r)
        PROVE  JwksInv'
    BY <1>2, <1>3, MoveKeepsInv DEF Malformed, Unauthenticated, JwksInv, JwksTypes
  <1>4. ASSUME NEW r \in Lookups, Again(r)
        PROVE  JwksInv'
    <2>1. kid' \in [Lookups -> Kids]
      BY <1>4 DEF Again, JwksInv, JwksTypes
    <2> QED  BY <1>2, <1>4, <2>1, MoveKeepsInv DEF Again
  <1>5. ASSUME NEW r \in Lookups, LookupCancelled(r)
        PROVE  JwksInv'
    <2>1. look[r] = "fetching" <=> holder = r
      BY DEF JwksInv, OneFetch
    <2>2. CASE look[r] = "fetching"
      BY <1>2, <1>5, <2>1, <2>2, FetchEndsKeepsInv DEF LookupCancelled, Unauthenticated
    <2>3. CASE look[r] = "waiting"
      <3>1. UNCHANGED <<now, issuer, published, cacheVars, kid>>
        BY <1>5, <2>1, <2>3 DEF LookupCancelled, cacheVars
      <3> QED  BY <1>2, <1>5, <2>3, <3>1, MoveKeepsInv
               DEF LookupCancelled, Unauthenticated, JwksInv, JwksTypes
    <2> QED  BY <1>5, <2>2, <2>3 DEF LookupCancelled
  <1> QED  BY <1>1, <1>3, <1>4, <1>5, WorldKeepsInv, LookupKeepsInv, FetchKeepsInv DEF JwksNext

\* The invariant holds in every reachable state.
LEMMA JwksInvariance == JwksSpec => []JwksInv
  BY InitJwksInv, NextJwksInv, PTL DEF JwksSpec

-----------------------------------------------------------------------------
(* The theorems. *)

\* A withdrawn key is not accepted for longer than the stale window and one
\* fetch, for every configuration and any number of concurrent requests.
THEOREM WithdrawnKeysExpire == JwksSpec => []WithdrawnKeyExpires
  <1>1. JwksInv => WithdrawnKeyExpires
    BY DEF JwksInv
  <1> QED  BY <1>1, JwksInvariance, PTL

\* The endpoint is left alone for the retry interval after a miss.
THEOREM RetryIntervalIsKept == JwksSpec => RetryIntervalKept
  <1> DEFINE Kept == holder = None /\ holder' # None /\ lastMiss # -1 => now >= lastMiss + Retry
  <1>1. ASSUME JwksInv, [JwksNext]_jwksVars
        PROVE  [Kept]_jwksVars
    <2> SUFFICES ASSUME holder = None, holder' # None, lastMiss # -1
                 PROVE  now >= lastMiss + Retry
      OBVIOUS
    <2>1. PICK r \in Lookups : Locked(r) /\ ~Decides(kid[r])
      BY <1>1
      DEF JwksNext, jwksVars, cacheVars, Tick, Rotate, Malformed, Lookup, Locked, KeysFetched,
          KeysFetchFail, LookupCancelled, Again
    <2>2. ~(now < retryAfter)
      BY <2>1 DEF Decides
    <2> QED  BY <1>1, <2>2, JwksAssumptions DEF JwksInv, JwksTypes, WindowOpen, GatewayIdentityConfig
  <1> QED  BY <1>1, JwksInvariance, PTL DEF JwksSpec, RetryIntervalKept

-----------------------------------------------------------------------------
(* OutboundClient.                                                             *)
(*                                                                             *)
(* CircuitInv keeps the table consistent: only tracked destinations have an    *)
(* open circuit or a probe.  Late answers are the hard case: a failure or a    *)
(* success that arrives after the entry was dropped must not leave a flag      *)
(* behind.  HopInv and the count of ended requests are independent of it.      *)

Awaiting == {"sent", "probing"}
Places == {"idle", "rejected", "refused", "done", "lost", "probe_lost"} \cup Awaiting

CircuitTypes ==
  /\ tracked \subseteq Destinations /\ IsFiniteSet(tracked)
  /\ failures \in [Destinations -> Nat]
  /\ opened \in [Destinations -> {"closed", "open", "recovered"}]
  /\ probe \subseteq tracked
  /\ pc \in [Requests -> Places]

\* A circuit that was opened belongs to a destination that has failed.
OpenedHaveFailed == \A d \in Destinations : opened[d] # "closed" => d \in failed

CircuitInv == CircuitTypes /\ CircuitIsSound /\ OpenedHaveFailed

\* A request has its destination, or one the policy has authorized; it keeps its
\* sensitive headers only at its own; what it is connected to was authorized.
HopInv ==
  /\ hop \in [Requests -> Destinations]
  /\ peer \in [Requests -> Addresses \cup {None}]
  /\ \A r \in Requests :
       /\ pc[r] \in Awaiting => DestOf[r] \in Permitted
       /\ hop[r] = DestOf[r] \/ hop[r] \in Permitted
       /\ r \in secret => hop[r] = DestOf[r]
       /\ peer[r] # None => peer[r].listed \/ IsPublic(peer[r])

\* The requests that owe an audit event.
EndedRequests == {r \in Requests : pc[r] \in {"rejected", "refused", "done"}}

AuditInv ==
  /\ events \in Nat /\ lostEvents \in Nat
  /\ IsFiniteSet(EndedRequests)
  /\ AuditedOnce

ClientInv == CircuitInv /\ HopInv /\ AuditInv

\* No request has begun and nothing is tracked.
LEMMA InitClientInv == ClientInit => ClientInv
  <1> SUFFICES ASSUME ClientInit PROVE ClientInv
    OBVIOUS
  <1>1. CircuitInv
    BY FS_EmptySet, CircuitAssumptions
    DEF ClientInit, Init, CircuitInv, CircuitTypes, CircuitIsSound, OpenedHaveFailed, Places,
        OutboundHTTPLimits
  <1>2. HopInv
    BY CircuitAssumptions DEF ClientInit, Init, HopInv, Awaiting
  <1>3. EndedRequests = {}
    BY DEF ClientInit, Init, EndedRequests
  <1>4. AuditInv
    <2>1. EndedRequests = {r \in Requests : pc[r] \in {"rejected", "refused", "done"}}
      BY DEF EndedRequests
    <2> QED  BY <1>3, <2>1, FS_EmptySet DEF ClientInit, AuditInv, AuditedOnce
  <1> QED  BY <1>1, <1>2, <1>4 DEF ClientInv

-----------------------------------------------------------------------------
(* The circuit. *)

\* _admit_circuit: a new entry fits, and a probe is the request that sets the flag.
LEMMA AdmitKeepsCircuit ==
  ASSUME CircuitInv, NEW r \in Requests, Admit(r)
  PROVE  CircuitInv'
  <1> DEFINE d == DestOf[r]
  <1>1. d \in Destinations /\ pc[r] = "idle" /\ UNCHANGED failed
    BY CircuitAssumptions DEF Admit
  <1> HIDE DEF d
  <1>2. CASE Move(r, "refused") /\ UNCHANGED circuitVars
    BY <1>1, <1>2
    DEF Move, circuitVars, CircuitInv, CircuitTypes, CircuitIsSound, OpenedHaveFailed, Places
  <1>3. CASE Move(r, "sent") /\ UNCHANGED circuitVars
    BY <1>1, <1>3
    DEF Move, circuitVars, CircuitInv, CircuitTypes, CircuitIsSound, OpenedHaveFailed, Places,
        Awaiting
  <1>4. CASE /\ d \notin tracked /\ ~TableFull
             /\ tracked' = tracked \cup {d}
             /\ Move(r, "sent")
             /\ UNCHANGED <<failures, opened, probe>>
    <2>1. /\ IsFiniteSet(tracked') /\ Cardinality(tracked') = Cardinality(tracked) + 1
          /\ Cardinality(tracked) \in Nat
      BY <1>4, FS_AddElement, FS_CardinalityType DEF CircuitInv, CircuitTypes
    <2>2. Cardinality(tracked') <= MaxDestinations
      BY <1>4, <2>1, CircuitAssumptions DEF TableFull, OutboundHTTPLimits
    <2>3. CircuitTypes'
      BY <1>1, <1>4, <2>1 DEF Move, CircuitInv, CircuitTypes, Places, Awaiting
    <2> QED
      BY <1>1, <1>4, <2>2, <2>3
      DEF Move, CircuitInv, CircuitTypes, CircuitIsSound, OpenedHaveFailed
  <1>5. CASE /\ d \in tracked /\ opened[d] = "recovered" /\ d \notin probe
             /\ probe' = probe \cup {d}
             /\ Move(r, "probing")
             /\ UNCHANGED <<tracked, failures, opened>>
    <2>1. CircuitTypes'
      BY <1>1, <1>5 DEF Move, CircuitInv, CircuitTypes, Places, Awaiting
    <2>2. pc'[r] = "probing" /\ \A x \in Requests : x # r => pc'[x] = pc[x]
      BY <1>5 DEF Move, CircuitInv, CircuitTypes
    <2>3. \A e \in probe' :
            \E x \in Requests : DestOf[x] = e /\ pc'[x] \in {"probing", "probe_lost"}
      BY <1>1, <1>5, <2>2 DEF CircuitInv, CircuitIsSound, d
    <2> QED
      BY <1>1, <1>5, <2>1, <2>3 DEF CircuitInv, CircuitIsSound, OpenedHaveFailed
  <1> QED  BY <1>2, <1>3, <1>4, <1>5 DEF Admit, d

\* _record_circuit_failure, of a probe or of a late request: only the entry of
\* the destination changes, and a probe that fails has cleared its flag.
LEMMA FailureKeepsCircuit ==
  ASSUME CircuitInv, NEW r \in Requests, EndFailure(r)
  PROVE  CircuitInv'
  <1> DEFINE d == DestOf[r]
  <1>1. d \in Destinations /\ pc' = [pc EXCEPT ![r] = "done"] /\ failed' = failed \cup {d}
    BY CircuitAssumptions DEF EndFailure, Move
  <1>2. tracked' = tracked /\ probe' = probe \ {d}
    BY DEF EndFailure, circuitVars, CircuitInv, CircuitTypes
  <1>3. /\ failures' \in [Destinations -> Nat]
        /\ opened' \in [Destinations -> {"closed", "open", "recovered"}]
    BY <1>1 DEF EndFailure, circuitVars, CircuitInv, CircuitTypes
  <1>4. \A e \in Destinations : e # d => failures'[e] = failures[e] /\ opened'[e] = opened[e]
    BY <1>1 DEF EndFailure, circuitVars, CircuitInv, CircuitTypes
  <1>5. opened'[d] # "closed" => d \in tracked /\ failures'[d] >= Threshold
    <2>1. CASE d \in tracked
      <3>1. failures'[d] = failures[d] + 1
        BY <1>1, <2>1 DEF EndFailure, CircuitInv, CircuitTypes
      <3>2. opened'[d] = IF failures[d] + 1 >= Threshold THEN "open" ELSE opened[d]
        BY <1>1, <2>1 DEF EndFailure, CircuitInv, CircuitTypes
      <3> QED
        BY <1>1, <2>1, <3>1, <3>2, CircuitAssumptions
        DEF CircuitInv, CircuitTypes, CircuitIsSound, OutboundHTTPLimits
    <2>2. CASE d \notin tracked
      BY <1>1, <2>2 DEF EndFailure, circuitVars, CircuitInv, CircuitIsSound
    <2> QED  BY <2>1, <2>2
  <1>6. CircuitTypes'
    BY <1>1, <1>2, <1>3 DEF CircuitInv, CircuitTypes, Places
  <1>7. \A e \in probe' :
          \E x \in Requests : DestOf[x] = e /\ pc'[x] \in {"probing", "probe_lost"}
    BY <1>1, <1>2 DEF CircuitInv, CircuitIsSound, CircuitTypes
  <1>8. \A e \in Destinations :
          opened'[e] # "closed" => e \in tracked' /\ failures'[e] >= Threshold
    BY <1>2, <1>4, <1>5 DEF CircuitInv, CircuitIsSound
  <1>9. OpenedHaveFailed'
    BY <1>1, <1>4 DEF CircuitInv, OpenedHaveFailed
  <1> QED  BY <1>2, <1>6, <1>7, <1>8, <1>9 DEF CircuitInv, CircuitIsSound

\* _record_circuit_success drops the entry with its flag and its failures.
LEMMA SuccessKeepsCircuit ==
  ASSUME CircuitInv, NEW r \in Requests, EndSuccess(r)
  PROVE  CircuitInv'
  <1> DEFINE d == DestOf[r]
  <1>1. /\ d \in Destinations /\ pc' = [pc EXCEPT ![r] = "done"] /\ UNCHANGED failed
        /\ tracked' = tracked \ {d} /\ probe' = probe \ {d}
        /\ failures' = [failures EXCEPT ![d] = 0]
        /\ opened' = [opened EXCEPT ![d] = "closed"]
    BY CircuitAssumptions DEF EndSuccess, Move
  <1>2. IsFiniteSet(tracked') /\ Cardinality(tracked') <= Cardinality(tracked)
    BY <1>1, FS_Subset DEF CircuitInv, CircuitTypes
  <1>3. Cardinality(tracked') <= MaxDestinations
    BY <1>2, FS_CardinalityType, CircuitAssumptions
    DEF CircuitInv, CircuitTypes, CircuitIsSound, OutboundHTTPLimits
  <1>4. CircuitTypes'
    BY <1>1, <1>2 DEF CircuitInv, CircuitTypes, Places
  <1>5. \A e \in probe' :
          \E x \in Requests : DestOf[x] = e /\ pc'[x] \in {"probing", "probe_lost"}
    BY <1>1 DEF CircuitInv, CircuitIsSound, CircuitTypes
  <1>6. \A e \in Destinations :
          opened'[e] # "closed" => e \in tracked' /\ failures'[e] >= Threshold
    BY <1>1 DEF CircuitInv, CircuitIsSound, CircuitTypes
  <1>7. OpenedHaveFailed'
    BY <1>1 DEF CircuitInv, CircuitTypes, OpenedHaveFailed
  <1> QED  BY <1>3, <1>4, <1>5, <1>6, <1>7 DEF CircuitInv, CircuitIsSound

\* A step that moves a request and leaves the table alone, if it does not take
\* a probe away.
LEMMA MoveKeepsCircuit ==
  ASSUME CircuitInv, NEW r \in Requests, NEW where \in Places,
         Move(r, where), UNCHANGED <<circuitVars, failed>>,
         pc[r] \in {"probing", "probe_lost"} => where \in {"probing", "probe_lost"}
  PROVE  CircuitInv'
  BY DEF Move, circuitVars, CircuitInv, CircuitTypes, CircuitIsSound, OpenedHaveFailed

\* circuit_recovery_seconds pass.
LEMMA RecoverKeepsCircuit ==
  ASSUME CircuitInv, NEW d \in Destinations, Recover(d)
  PROVE  CircuitInv'
  BY DEF Recover, CircuitInv, CircuitTypes, CircuitIsSound, OpenedHaveFailed

\* Every step of the client keeps the circuit's part.
LEMMA NextCircuitInv ==
  ASSUME CircuitInv, [ClientNext]_clientVars
  PROVE  CircuitInv'
  <1>1. CASE UNCHANGED vars
    BY <1>1 DEF vars, circuitVars, CircuitInv, CircuitTypes, CircuitIsSound, OpenedHaveFailed
  <1>2. ASSUME NEW r \in Requests, Reject(r)
        PROVE  CircuitInv'
    BY <1>2, MoveKeepsCircuit DEF Reject, Places
  <1>3. ASSUME NEW r \in Requests, Abandoned(r)
        PROVE  CircuitInv'
    <2>1. CASE pc[r] = "probing" /\ Move(r, "probe_lost")
      BY <1>3, <2>1, MoveKeepsCircuit DEF Abandoned, Cancelled, Places
    <2>2. CASE pc[r] = "sent" /\ Move(r, "lost")
      BY <1>3, <2>2, MoveKeepsCircuit DEF Abandoned, Cancelled, Places
    <2> QED  BY <1>3, <2>1, <2>2 DEF Abandoned, Cancelled
  <1>4. ASSUME NEW r \in Requests, Connect(r) \/ \E d \in Destinations : Redirect(r, d)
        PROVE  UNCHANGED vars
    BY <1>4 DEF Connect, Redirect
  <1>5. Close \/ UNCHANGED clientVars => UNCHANGED vars
    BY DEF Close, clientVars
  <1> QED
    BY <1>1, <1>2, <1>3, <1>4, <1>5, AdmitKeepsCircuit, FailureKeepsCircuit,
       SuccessKeepsCircuit, RecoverKeepsCircuit
    DEF ClientNext, Request, Fails, Succeeds

-----------------------------------------------------------------------------
(* The hops. *)

\* A request reaches only addresses that the policy authorizes.
LEMMA ReachedIsAuthorized ==
  ASSUME NEW d \in Destinations, NEW a \in Reached[d]
  PROVE  a \in Addresses /\ (a.listed \/ IsPublic(a))
  BY DEF Reached, AuthorizeConnection

\* Every step of the client keeps the hops' part.
LEMMA NextHopInv ==
  ASSUME CircuitInv, HopInv, [ClientNext]_clientVars
  PROVE  HopInv'
  <1> USE DEF CircuitInv, CircuitTypes
  <1>1. CASE UNCHANGED <<pc, hopVars>>
    BY <1>1 DEF HopInv, hopVars, IsPublic
  <1>2. ASSUME NEW r \in Requests, Reject(r)
        PROVE  HopInv'
    BY <1>2 DEF Reject, Move, HopInv, hopVars, IsPublic, Awaiting
  <1>3. ASSUME NEW r \in Requests, Request(r)
        PROVE  HopInv'
    <2>1. PICK where : pc' = [pc EXCEPT ![r] = where]
      BY <1>3 DEF Request, Admit, Move
    <2> QED  BY <1>3, <2>1 DEF Request, HopInv, hopVars, IsPublic
  <1>4. ASSUME NEW r \in Requests, Connect(r)
        PROVE  HopInv'
    <2>1. PICK actual \in Reached[hop[r]] : peer' = [peer EXCEPT ![r] = actual]
      BY <1>4 DEF Connect
    <2>2. actual \in Addresses /\ (actual.listed \/ IsPublic(actual))
      <3>1. hop[r] \in Destinations
        BY DEF HopInv
      <3> QED  BY <2>1, <3>1, ReachedIsAuthorized
    <2>3. peer' \in [Requests -> Addresses \cup {None}]
      BY <2>1, <2>2 DEF HopInv
    <2>4. ASSUME NEW x \in Requests, peer'[x] # None
          PROVE  peer'[x].listed \/ IsPublic(peer'[x])
      <3>1. CASE x = r
        BY <2>1, <2>2, <3>1 DEF HopInv
      <3>2. CASE x # r
        BY <2>1, <2>4, <3>2 DEF HopInv
      <3> QED  BY <3>1, <3>2
    <2> QED  BY <1>4, <2>3, <2>4 DEF Connect, vars, HopInv, IsPublic
  <1>5. ASSUME NEW r \in Requests, NEW d \in Destinations, Redirect(r, d)
        PROVE  HopInv'
    BY <1>5 DEF Redirect, vars, HopInv, IsPublic, Awaiting
  <1>6. ASSUME NEW r \in Requests, NEW where, where \notin Awaiting,
               pc' = [pc EXCEPT ![r] = where], peer' = [peer EXCEPT ![r] = None],
               UNCHANGED <<hop, secret>>
        PROVE  HopInv'
    BY <1>6 DEF HopInv, IsPublic
  <1>7. ASSUME NEW r \in Requests, Fails(r) \/ Succeeds(r) \/ Abandoned(r)
        PROVE  HopInv'
    <2>1. PICK where \in {"done", "lost", "probe_lost"} : pc' = [pc EXCEPT ![r] = where]
      BY <1>7 DEF Fails, Succeeds, Abandoned, EndFailure, EndSuccess, Cancelled, Move
    <2>2. peer' = [peer EXCEPT ![r] = None] /\ UNCHANGED <<hop, secret>>
      BY <1>7 DEF Fails, Succeeds, Abandoned, Ended
    <2> QED  BY <1>6, <2>1, <2>2 DEF Awaiting
  <1>8. (\E d \in Destinations : Recover(d) /\ UNCHANGED <<hopVars, auditVars, closed>>)
          \/ Close \/ UNCHANGED clientVars => UNCHANGED <<pc, hopVars>>
    BY DEF Close, Recover, clientVars, vars
  <1> QED  BY <1>1, <1>2, <1>3, <1>4, <1>5, <1>7, <1>8 DEF ClientNext

-----------------------------------------------------------------------------
(* The audit trail. *)

\* A request ends and one event is appended or counted.
LEMMA EndIsAudited ==
  ASSUME CircuitTypes, AuditInv, NEW r \in Requests, pc[r] \in {"idle"} \cup Awaiting,
         NEW where \in {"rejected", "refused", "done"}, Move(r, where), EmitAudit
  PROVE  AuditInv'
  <1>1. EndedRequests' = EndedRequests \cup {r} /\ r \notin EndedRequests
    BY DEF CircuitTypes, EndedRequests, Move, Awaiting
  <1>2. /\ IsFiniteSet(EndedRequests')
        /\ Cardinality(EndedRequests') = Cardinality(EndedRequests) + 1
    BY <1>1, FS_AddElement DEF AuditInv
  <1>3. /\ events' \in Nat /\ lostEvents' \in Nat
        /\ events' + lostEvents' = events + lostEvents + 1
    BY DEF AuditInv, EmitAudit
  <1>4. events + lostEvents = Cardinality(EndedRequests)
    BY DEF AuditInv, AuditedOnce, EndedRequests
  <1>5. events' + lostEvents' = Cardinality(EndedRequests')
    BY <1>2, <1>3, <1>4
  <1>6. AuditedOnce'
    BY <1>5 DEF AuditedOnce, EndedRequests
  <1> QED  BY <1>2, <1>3, <1>6 DEF AuditInv

\* A step that ends no request.
LEMMA OthersAreNotAudited ==
  ASSUME AuditInv, UNCHANGED auditVars, EndedRequests' = EndedRequests
  PROVE  AuditInv'
  <1>1. events + lostEvents = Cardinality(EndedRequests)
    BY DEF AuditInv, AuditedOnce, EndedRequests
  <1>2. AuditedOnce'
    <2>1. events' + lostEvents' = Cardinality(EndedRequests')
      BY <1>1 DEF auditVars
    <2> QED  BY <2>1 DEF AuditedOnce, EndedRequests
  <1> QED  BY <1>2 DEF AuditInv, auditVars

\* Every step of the client keeps the audit's part.
LEMMA NextAuditInv ==
  ASSUME CircuitTypes, AuditInv, [ClientNext]_clientVars
  PROVE  AuditInv'
  <1>1. CASE UNCHANGED <<pc, auditVars>>
    <2>1. EndedRequests' = EndedRequests
      BY <1>1 DEF EndedRequests
    <2> QED  BY <1>1, <2>1, OthersAreNotAudited
  <1>2. ASSUME NEW r \in Requests, Reject(r)
        PROVE  AuditInv'
    BY <1>2, EndIsAudited DEF Reject
  <1>3. ASSUME NEW r \in Requests, Request(r)
        PROVE  AuditInv'
    <2>1. CASE Move(r, "refused")
      <3>1. pc'[r] = "refused"
        BY <2>1 DEF Move, CircuitTypes
      <3> QED  BY <1>3, <2>1, <3>1, EndIsAudited DEF Request, Admit
    <2>2. ASSUME NEW where \in Awaiting, Move(r, where)
          PROVE  AuditInv'
      <3>1. pc[r] = "idle" /\ pc'[r] = where
        BY <1>3, <2>2 DEF Request, Admit, Move, CircuitTypes
      <3>2. EndedRequests' = EndedRequests
        BY <2>2, <3>1 DEF EndedRequests, Move, CircuitTypes, Awaiting
      <3> QED  BY <1>3, <3>1, <3>2, OthersAreNotAudited DEF Request, Awaiting
    <2> QED  BY <1>3, <2>1, <2>2 DEF Request, Admit, Awaiting
  <1>4. ASSUME NEW r \in Requests, Fails(r) \/ Succeeds(r)
        PROVE  AuditInv'
    <2>1. pc[r] \in Awaiting /\ Move(r, "done") /\ EmitAudit
      BY <1>4 DEF Fails, Succeeds, EndFailure, EndSuccess, Ended, Awaiting
    <2> QED  BY <2>1, EndIsAudited
  <1>5. ASSUME NEW r \in Requests, Abandoned(r)
        PROVE  AuditInv'
    <2>1. EndedRequests' = EndedRequests
      BY <1>5 DEF Abandoned, Cancelled, Move, EndedRequests, CircuitTypes
    <2> QED  BY <1>5, <2>1, OthersAreNotAudited DEF Abandoned
  <1>6. ASSUME NEW r \in Requests, Connect(r) \/ \E d \in Destinations : Redirect(r, d)
        PROVE  UNCHANGED <<pc, auditVars>>
    BY <1>6 DEF Connect, Redirect, vars
  <1>7. (\E d \in Destinations : Recover(d) /\ UNCHANGED <<hopVars, auditVars, closed>>)
          \/ Close \/ UNCHANGED clientVars => UNCHANGED <<pc, auditVars>>
    BY DEF Close, Recover, clientVars, vars
  <1> QED  BY <1>1, <1>2, <1>3, <1>4, <1>5, <1>6, <1>7 DEF ClientNext

-----------------------------------------------------------------------------
(* The theorems. *)

\* The invariant holds in every reachable state.
LEMMA ClientInvariance == ClientSpec => []ClientInv
  <1>1. ClientInv /\ [ClientNext]_clientVars => ClientInv'
    BY NextCircuitInv, NextHopInv, NextAuditInv DEF ClientInv, CircuitInv
  <1> QED  BY <1>1, InitClientInv, PTL DEF ClientSpec

\* The table stays within its bound, a circuit is open only with enough failures
\* and a probe flag always has its probe, for any number of requests in flight
\* and any order of their answers.
THEOREM CircuitSound == ClientSpec => []CircuitIsSound
  <1>1. ClientInv => CircuitIsSound
    BY DEF ClientInv, CircuitInv
  <1> QED  BY <1>1, ClientInvariance, PTL

\* Requests stay at authorized destinations and addresses, and sensitive headers
\* at the destination they were given for, through any number of redirects.
THEOREM HopsSafe == ClientSpec => []HopsAreSafe
  <1>1. ASSUME HopInv, NEW r \in Requests, pc[r] \in {"sent", "probing"}
        PROVE  /\ hop[r] \in Permitted /\ (r \in secret => hop[r] = DestOf[r])
               /\ peer[r] # None =>
                    peer[r].listed \/ (peer[r].global /\ peer[r].embeds \subseteq {TRUE})
    <2>1. hop[r] \in Permitted /\ (r \in secret => hop[r] = DestOf[r])
      BY <1>1 DEF HopInv, Awaiting
    <2>2. ASSUME peer[r] # None
          PROVE  peer[r].listed \/ (peer[r].global /\ peer[r].embeds \subseteq {TRUE})
      <3>1. peer[r] \in [global : BOOLEAN, embeds : SUBSET BOOLEAN, listed : BOOLEAN]
        BY <1>1, <2>2, ClientAssumptions DEF HopInv
      <3>2. peer[r].listed \/ (peer[r].global /\ FALSE \notin peer[r].embeds)
        BY <1>1, <2>2 DEF HopInv, IsPublic
      <3>3. peer[r].embeds \subseteq BOOLEAN
        BY <3>1
      <3> QED  BY <3>2, <3>3
    <2> QED  BY <2>1, <2>2
  <1>2. ClientInv => HopsAreSafe
    BY <1>1 DEF ClientInv, HopsAreSafe
  <1> QED  BY <1>2, ClientInvariance, PTL

\* Every request that ends leaves one event or is counted as lost.
THEOREM EveryEndAudited == ClientSpec => []AuditedOnce
  <1>1. ClientInv => AuditedOnce
    BY DEF ClientInv, AuditInv
  <1> QED  BY <1>1, ClientInvariance, PTL

\* A destination that has not failed is refused only for want of a table entry.
THEOREM DestinationsAreIsolated == ClientSpec => DestinationsIsolated
  <1> DEFINE Refused(r) == pc[r] # "refused" /\ pc'[r] = "refused" /\ DestOf[r] \notin failed
             Full(r) == DestOf[r] \notin tracked /\ Cardinality(tracked) >= MaxDestinations
  <1>1. ASSUME ClientInv, [ClientNext]_clientVars
        PROVE  [\A r \in Requests : Refused(r) => Full(r)]_vars
    <2> USE DEF ClientInv, CircuitInv, CircuitTypes
    <2> SUFFICES ASSUME NEW r \in Requests, Refused(r) PROVE Full(r)
      OBVIOUS
    <2>1. PICK x \in Requests : Request(x) /\ pc'[r] # pc[r]
      <3>1. ASSUME NEW x \in Requests, NEW where, where # "refused", Move(x, where)
            PROVE  FALSE
        BY <3>1 DEF Move
      <3>2. CASE UNCHANGED pc
        BY <3>2
      <3> QED
        BY <1>1, <3>1, <3>2
        DEF ClientNext, clientVars, vars, Close, Recover, Reject, Connect, Redirect, Fails,
            Succeeds, Abandoned, EndFailure, EndSuccess, Cancelled
    <2>2. x = r /\ Admit(r)
      BY <1>1, <2>1 DEF Request, Admit, Move
    <2>3. DestOf[r] \in Destinations /\ (opened[DestOf[r]] # "closed" => DestOf[r] \in failed)
      BY <1>1, CircuitAssumptions DEF OpenedHaveFailed
    <2> QED  BY <1>1, <2>2, <2>3 DEF Admit, Move, TableFull
  <1> QED  BY <1>1, ClientInvariance, PTL DEF ClientSpec, DestinationsIsolated
=============================================================================
