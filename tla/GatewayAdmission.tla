-------------------------- MODULE GatewayAdmission ---------------------------
(***************************************************************************)
(* tesserix_mcp_manifest/gateway_reconciliation.py: which published servers *)
(* get a Gateway route, and how the Gateway reads that decision.  Each      *)
(* evaluation keeps the routes that are still eligible and admits waiting   *)
(* servers under the quotas; its snapshot is read page by page while newer  *)
(* snapshots appear, and applied only when the pages form one of them.      *)
(*                                                                          *)
(* The Registry that owns the facts and serves the pages is external: it    *)
(* may serve any generation at any poll, pages twice or out of order, and a *)
(* page whose header belongs to another generation than its content.        *)
(* Digests are collision free: a digest is what it is computed from.        *)
(***************************************************************************)
EXTENDS Integers, Sequences, FiniteSets, SequencesExt, PythonNone

CONSTANTS
  Candidates,       \* published servers, numbered in the order of their refs
  Tenants,          \* tenants, numbered in the order of their ids
  TenantOf,         \* the tenant in the ref of each server
  PublishedAt,      \* when each was published
  Policies,         \* [tenant, global]: the limits an evaluation may be given
  Unstable,         \* eligibility conditions that come and go
  PageSize,
  MaxEvaluations,   \* bound: snapshots
  MaxPages          \* bound: pages read for one attempt

\* A tenant's limit is within the global one.
GatewayEligibilityPolicy(p) == p.global \in Nat /\ p.tenant \in 1..p.global

ASSUME GatewayAssumptions ==
  /\ Candidates \subseteq Nat /\ IsFiniteSet(Candidates) /\ Tenants \subseteq Nat
  /\ TenantOf \in [Candidates -> Tenants] /\ PublishedAt \in [Candidates -> Nat]
  /\ \A p \in Policies : GatewayEligibilityPolicy(p)
  /\ PageSize \in Nat \ {0} /\ MaxEvaluations \in Nat /\ MaxPages \in Nat

VARIABLES
  unmet,      \* conditions each candidate does not meet
  snapshots,  \* the snapshots the Registry has made; the generation is the index
  limits,     \* the policy of the last one
  pages,      \* pages the Gateway has read in this attempt
  applied     \* the snapshot the Gateway runs

gateVars == <<unmet, snapshots, limits, pages, applied>>

-----------------------------------------------------------------------------
(* Eligibility. *)

\* _base_reason: the first condition that is not met, in this order.
Checks == <<"tenant_not_ready", "activation_not_ready", "lifecycle_ineligible",
            "visibility_ineligible", "gateway_disabled", "approval_required",
            "wrong_environment", "scope_not_ready">>

BaseReason(c) ==
  IF unmet[c] = {} THEN "eligible"
  ELSE Checks[CHOOSE i \in DOMAIN Checks :
                /\ Checks[i] \in unmet[c]
                /\ \A k \in 1..(i - 1) : Checks[k] \notin unmet[c]]

Eligible == {c \in Candidates : BaseReason(c) = "eligible"}

Routed == IF applied = None THEN {} ELSE Range(applied.routes)

OfTenant(S, t) == {c \in S : TenantOf[c] = t}

\* sorted(S), by an order given as its pairs: each member has as many before it as
\* its place says.
InOrder(S, order) ==
  [i \in 1..Cardinality(S) |->
     CHOOSE c \in S : Cardinality({d \in S : <<d, c>> \in order}) = i - 1]

ByNumber(S) == {e \in S \X S : e[1] < e[2]}

\* The oldest first, ties broken by ref.
ByAge(S) == {e \in S \X S : \/ PublishedAt[e[1]] < PublishedAt[e[2]]
                            \/ PublishedAt[e[1]] = PublishedAt[e[2]] /\ e[1] < e[2]}

\* Mutant of Waiting: by ref alone.
WaitingByRef == InOrder(Eligible \ Routed, ByNumber(Eligible \ Routed))

\* Servers waiting for a route.
Waiting == InOrder(Eligible \ Routed, ByAge(Eligible \ Routed))

\* One turn of the admission loop.
Admit(policy, admitted, c) ==
  IF \/ Cardinality(OfTenant(admitted, TenantOf[c])) >= policy.tenant
     \/ Cardinality(admitted) >= policy.global
    THEN admitted ELSE admitted \cup {c}

\* evaluate_gateway_eligibility: the servers whose decision is eligible after the
\* loop over those that wait.
Admitted(policy) ==
  LET after[i \in 0..Len(Waiting)] ==
        IF i = 0 THEN Eligible \cap Routed ELSE Admit(policy, after[i - 1], Waiting[i])
  IN  after[Len(Waiting)]

-----------------------------------------------------------------------------
(* Snapshots and their pages. *)

Sorted(S) == InOrder(S, ByNumber(S))

Ready(t) == \A c \in OfTenant(Candidates, t) : "tenant_not_ready" \notin unmet[c]

\* GatewayTenantSnapshot: every tenant is declared with its state and the number
\* of its routes.
TenantRecord(t, routes) ==
  [tenant |-> t, ready |-> Ready(t), count |-> Cardinality(OfTenant(routes, t))]

\* GatewayReconciliationSnapshot.create, in canonical order.
Snapshot(generation, routes) ==
  [generation |-> generation, routes |-> Sorted(routes),
   tenants |-> [i \in 1..Cardinality(Tenants) |-> TenantRecord(Sorted(Tenants)[i], routes)]]

\* snapshot_is_complete_and_canonical: order, uniqueness, and routes and tenants
\* that agree with each other.
Canonical(snapshot) ==
  /\ IsInjective(snapshot.routes) /\ Sorted(Range(snapshot.routes)) = snapshot.routes
  /\ LET ids == [i \in DOMAIN snapshot.tenants |-> snapshot.tenants[i].tenant] IN
       IsInjective(ids) /\ Sorted(Range(ids)) = ids
  /\ \A t \in Range(snapshot.tenants) :
       /\ t.count = Cardinality(OfTenant(Range(snapshot.routes), t.tenant))
       /\ t.ready \/ t.count = 0
  /\ \A c \in Range(snapshot.routes) :
       \E t \in Range(snapshot.tenants) : t.tenant = TenantOf[c] /\ t.ready

PageCount(routeCount, tenantCount) ==
  LET pagesOf(n) == (n + PageSize - 1) \div PageSize IN
  CHOOSE n \in {1, pagesOf(routeCount), pagesOf(tenantCount)} :
    n >= 1 /\ n >= pagesOf(routeCount) /\ n >= pagesOf(tenantCount)

Slice(seq, index) == SubSeq(seq, index * PageSize + 1,
                            IF (index + 1) * PageSize < Len(seq)
                              THEN (index + 1) * PageSize ELSE Len(seq))

\* _gateway_snapshot_digest.
Digest(snapshot) == snapshot

\* Page `index` of a snapshot, and its content possibly that of another.
Page(snapshot, index, content) ==
  LET last == PageCount(Len(snapshot.routes), Len(snapshot.tenants)) - 1 IN
  [generation |-> snapshot.generation, digest |-> Digest(snapshot),
   routeCount |-> Len(snapshot.routes), tenantCount |-> Len(snapshot.tenants),
   index |-> index, cursor |-> IF index = 0 THEN None ELSE index,
   next |-> IF index < last THEN index + 1 ELSE None,
   routes |-> Slice(content.routes, index), tenants |-> Slice(content.tenants, index)]

\* Mutant of Assembles: the pages are trusted to belong together.
AssemblesUnbound(read, snapshot) ==
  /\ read # <<>>
  /\ Len(read) = PageCount(read[1].routeCount, read[1].tenantCount)
  /\ \A i \in DOMAIN read : read[i].index = i - 1
  /\ Len(snapshot.routes) = read[1].routeCount
  /\ Len(snapshot.tenants) = read[1].tenantCount
  /\ Canonical(snapshot)

\* What the pages say, put together.
Joined(read) ==
  [generation |-> read[1].generation,
   routes |-> FlattenSeq([i \in DOMAIN read |-> read[i].routes]),
   tenants |-> FlattenSeq([i \in DOMAIN read |-> read[i].tenants])]

\* assemble_gateway_reconciliation_pages: one header, the cursors in sequence,
\* every page full but the last, and a digest that matches the whole.
Assembles(read, snapshot) ==
  /\ read # <<>>
  /\ LET first == read[1]
         expected(count, index) ==
           LET left == count - index * PageSize IN
           IF left < 0 THEN 0 ELSE IF left < PageSize THEN left ELSE PageSize IN
     /\ Len(read) = PageCount(first.routeCount, first.tenantCount)
     /\ \A i \in DOMAIN read :
          /\ read[i].generation = first.generation /\ read[i].digest = first.digest
          /\ read[i].routeCount = first.routeCount /\ read[i].tenantCount = first.tenantCount
          /\ read[i].index = i - 1
          /\ read[i].cursor = IF i = 1 THEN None ELSE read[i - 1].next
          /\ (read[i].next = None) = (i = Len(read))
          /\ Len(read[i].routes) = expected(first.routeCount, i - 1)
          /\ Len(read[i].tenants) = expected(first.tenantCount, i - 1)
     /\ Canonical(snapshot)
     /\ Digest(snapshot) = first.digest

-----------------------------------------------------------------------------
GateInit ==
  /\ unmet = [c \in Candidates |-> {}]
  /\ snapshots = <<>> /\ limits = None
  /\ pages = <<>> /\ applied = None

\* A fact about one server changes (external); a tenant's state is a fact of all
\* its servers.
FactChanges ==
  /\ \E c \in Candidates, f \in Unstable :
       LET who == IF f = "tenant_not_ready" THEN OfTenant(Candidates, TenantOf[c]) ELSE {c} IN
       unmet' = [d \in Candidates |->
                   IF d \notin who THEN unmet[d]
                   ELSE IF f \in unmet[c] THEN unmet[d] \ {f} ELSE unmet[d] \cup {f}]
  /\ UNCHANGED <<snapshots, limits, pages, applied>>

\* The Registry evaluates all candidates and publishes a snapshot.
Evaluate ==
  /\ Len(snapshots) < MaxEvaluations
  /\ \E policy \in Policies :
       /\ limits' = policy
       /\ snapshots' = Append(snapshots, Snapshot(Len(snapshots) + 1, Admitted(policy)))
  /\ UNCHANGED <<unmet, pages, applied>>

\* A page arrives.
ReadPage ==
  /\ Len(pages) < MaxPages
  /\ \E g, h \in DOMAIN snapshots :
       \E index \in 0..(PageCount(Len(snapshots[g].routes), Len(snapshots[g].tenants)) - 1) :
         pages' = Append(pages, Page(snapshots[g], index, snapshots[h]))
  /\ UNCHANGED <<unmet, snapshots, limits, applied>>

\* The pages are assembled: applied as a whole, or rejected as a whole.
Reconcile ==
  /\ pages # <<>>
  /\ applied' = IF Assembles(pages, Joined(pages)) THEN Joined(pages) ELSE applied
  /\ pages' = <<>>
  /\ UNCHANGED <<unmet, snapshots, limits>>

GateNext == FactChanges \/ Evaluate \/ ReadPage \/ Reconcile

GateSpec == GateInit /\ [][GateNext]_gateVars

-----------------------------------------------------------------------------
(* Properties. *)

\* What the Gateway runs is one snapshot the Registry made, whole: never routes of
\* two generations, however the pages came.
AppliedIsWhole == applied # None => applied \in Range(snapshots)

\* An evaluation takes a route only from a server that is no longer eligible, never
\* for a quota; the servers it adds fit the limits together with those kept; and a
\* server goes on waiting only when its quota is full, never behind a newer server
\* of its tenant, nor behind a newer one of another tenant while its own has room.
FairAdmission ==
  snapshots' # snapshots =>
    LET new == Range(Last(snapshots').routes)
        kept == Routed \cap Eligible
        full(t) == Cardinality(OfTenant(new, t)) >= limits'.tenant
        older(a, b) == PublishedAt[a] < PublishedAt[b] IN
    /\ kept \subseteq new /\ new \subseteq Eligible
    /\ \A t \in Tenants :
         \/ OfTenant(new, t) \subseteq kept
         \/ Cardinality(OfTenant(new, t)) <= limits'.tenant
    /\ new = kept \/ Cardinality(new) <= limits'.global
    /\ \A waits \in Eligible \ new :
         /\ full(TenantOf[waits]) \/ Cardinality(new) >= limits'.global
         /\ \A c \in new \ kept : older(waits, c) =>
              TenantOf[c] # TenantOf[waits] /\ full(TenantOf[waits])

\* Every evaluation admits fairly (evaluate_gateway_eligibility).
AdmissionIsFair == [][FairAdmission]_gateVars
=============================================================================
