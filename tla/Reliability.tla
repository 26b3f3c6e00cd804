----------------------------- MODULE Reliability -----------------------------
(***************************************************************************)
(* tesserix_mcp_testkit/reliability.py: the scenarios that produce          *)
(* reliability evidence, and the part of assess_reliability_report that     *)
(* judges each.  A scenario drives many calls at once into a target, sums   *)
(* up their outcomes and the difference of two snapshots of the target's    *)
(* counters, and the verdict is reached from that summary alone.            *)
(*                                                                          *)
(* The target is modelled from the fault targets of                         *)
(* benchmarks/measure_reliability.py and from the injections                *)
(* docs/reliability.md lists, and may have a defect: it ignores the tenant  *)
(* limit, forgets idempotency keys or what they recorded, retries in        *)
(* another layer, leaks, fails some calls of other tenants, answers the     *)
(* calls of a failed dependency one way and another, accepts some calls     *)
(* while it drains or loses one, gives up its capacity, does not come back, *)
(* or remembers requests.  Times, throughputs, sizes and queue depths are   *)
(* left out, and so is the matching of the evidence with the lanes, profile *)
(* and limits under review.                                                 *)
(***************************************************************************)
EXTENDS Naturals, Sequences, FiniteSets, FiniteSetsExt, PythonNone

CONSTANTS
  Plans,        \* plans that may be submitted, records with a field scenario
  Defects,      \* defects the target may have
  MaxAttempts,  \* attempts the runtime's own retry policy allows
  StaleCalls,   \* calls an identity outage serves from stale keys before it fails closed
  CircuitCall,  \* the call of an outage of DNS or of the API that opens the circuit
  Growth        \* permitted_growth of a resource over a soak

Scenarios == {"load", "soak", "fairness", "retry", "stateless", "dependency", "rollout"}

Dependencies == {"registry", "telemetry", "identity", "agentgateway", "dns", "backing_api"}

\* "denies_stale" is the identity outage of measure_reliability.py, which denies also
\* the calls it counts as served from stale keys.
TargetDefects == {"unlimited", "forgets_key", "loses_replay", "amplifies", "leaks", "spreads",
                  "flickers", "denies_stale", "accepts_late", "loses_call", "shrinks",
                  "stays_down", "remembers"}

\* The fields of a plan, each at least 1 where the code says Field(ge=1).
ASSUME ReliabilityAssumptions ==
  /\ \A p \in Plans :
       /\ p.scenario \in Scenarios /\ p.calls \in Nat \ {0}
       /\ p.scenario \in {"load", "soak"} => p.width \in Nat \ {0}
       /\ p.scenario = "soak" => p.cycles \in Nat \ {0}
       /\ p.scenario = "fairness" => {p.tenant, p.tool, p.global, p.reserved} \subseteq Nat \ {0}
       /\ p.scenario = "stateless" => p.replicas \in Nat
       /\ p.scenario = "dependency" => p.unaffected \in Nat \ {0} /\ p.dependency \in Dependencies
       /\ p.scenario = "rollout" => p.late \in Nat \ {0}
  /\ Defects \subseteq TargetDefects /\ None \notin TargetDefects
  /\ {MaxAttempts, StaleCalls, CircuitCall} \subseteq Nat \ {0} /\ Growth \in Nat

VARIABLES
  plan, defect,  \* the plan under way, and what is wrong with the target
  call,          \* state of each concurrent call
  peak,          \* most calls active at a time
  turn,          \* calls made one by one, or cycles of a soak, so far
  served,        \* how many of those calls succeeded
  counters,      \* the target's counters, all 0 in the first snapshot
  phase,         \* submit, run, drained or done
  verdict        \* reasons; {"raised"} or {"refused"} when there is no evidence, because
                 \* a call raised or because the runner rejects what it has seen

relVars == <<plan, defect, call, peak, turn, served, counters, phase, verdict>>

-----------------------------------------------------------------------------
(* Plans. *)

\* The validators of the plans: what makes an outcome mean something.  A load has
\* calls for each of its workers; noisy calls reach the tenant's limit and leave
\* room for the reserved ones; every replica receives a delivery.
ReliabilityLoadPlan(p) == p.width \in 1..p.calls

ReliabilityFairnessPlan(p) ==
  /\ p.tenant <= p.tool /\ p.tool <= p.global
  /\ p.calls >= p.tenant /\ p.tenant + p.reserved <= p.tool

ReliabilityStatelessPlan(p) == p.replicas >= 2 /\ p.calls >= p.replicas

ValidPlan(p) ==
  CASE p.scenario \in {"load", "soak"} -> ReliabilityLoadPlan(p)
    [] p.scenario = "fairness" -> ReliabilityFairnessPlan(p)
    [] p.scenario = "stateless" -> ReliabilityStatelessPlan(p)
    [] OTHER -> TRUE

\* The calls of the task group; in the dependency scenario the first p.calls are of
\* the affected tenant, the others of an unaffected one.
CallsOf(p) == 1..(IF p.scenario = "dependency" THEN p.calls + p.unaffected ELSE p.calls)
AllCalls == CallsOf(plan)
Affected == 1..plan.calls
In(s) == {c \in AllCalls : call[c] = s}

-----------------------------------------------------------------------------
(* The runners. *)

RelInit ==
  /\ plan = None /\ defect = None
  /\ call = <<>> /\ peak = 0 /\ turn = 0 /\ served = 0
  /\ counters = [effects |-> 0, runtime |-> 0, other |-> 0, rejected |-> 0, held |-> 0,
                 stale |-> 0, closed |-> 0, dropped |-> 0, opened |-> 0, memory |-> 0,
                 capacity |-> 0, restored |-> 0]
  /\ phase = "submit" /\ verdict = {}

Submit ==
  /\ phase = "submit"
  /\ \E p \in Plans, d \in Defects \cup {None} :
       /\ ValidPlan(p)
       /\ plan' = p /\ defect' = d
       /\ call' = [c \in CallsOf(p) |-> "new"]
  /\ phase' = "run"
  /\ UNCHANGED <<peak, turn, served, counters, verdict>>

\* A call is made: under the semaphore of a load, in turn in the stateless
\* scenario, and otherwise at once with the others.
Invoked(c) ==
  /\ phase = "run" /\ call[c] = "new"
  /\ plan.scenario \in {"load", "soak"} => Cardinality(In("active")) < plan.width
  /\ plan.scenario = "stateless" => 
       \A d \in AllCalls : d < c => call[d] \notin {"new", "active"}
  /\ call' = [call EXCEPT ![c] = "active"]
  /\ peak' = Max({peak, Cardinality(In("active")) + 1})
  /\ UNCHANGED <<plan, defect, turn, served, counters, phase, verdict>>

\* The target's bulkheads: the noisy calls are of one tenant and one tool.
Admits == LET held == Cardinality(In("held")) IN
            /\ defect = "unlimited" \/ held < plan.tenant
            /\ held < plan.tool /\ held < plan.global

\* A duplicate delivery: one effect per key, and up to MaxAttempts - 1 retries by
\* the runtime for each.
Delivered(c) == \E n \in {0, MaxAttempts - 1} :
  counters' = [counters EXCEPT !.effects = IF @ = 0 \/ defect = "forgets_key" THEN @ + 1 ELSE @,
                               !.runtime = @ + n,
                               !.other = IF defect = "amplifies" THEN @ + 1 ELSE @]

\* The outcomes of a call while a dependency is down: the registry's and the
\* telemetry's outage is masked, in an identity outage stale keys serve the first calls
\* before it fails closed, DNS times out and the others are unavailable.  A target with
\* a defect may answer some calls in another way than the rest.
FailureOutcomes(c) ==
  IF c \notin Affected
    THEN {"success"} \cup (IF defect = "spreads" THEN {"unavailable"} ELSE {})
  ELSE IF defect = "flickers" THEN {"success", "unavailable"}
  ELSE CASE plan.dependency \in {"registry", "telemetry"} -> {"success"}
         [] plan.dependency = "identity" ->
              {IF c <= StaleCalls /\ defect # "denies_stale" THEN "success"
                                                             ELSE "authentication_denied"}
         [] plan.dependency = "dns" -> {"timeout"}
         [] OTHER -> {"unavailable"}

\* An outage of DNS or of the API opens the circuit at one call.
FailureCounted(c) ==
  IF c \notin Affected THEN counters
  ELSE CASE plan.dependency = "identity" /\ c <= StaleCalls -> [counters EXCEPT !.stale = @ + 1]
         [] plan.dependency = "identity" /\ c > StaleCalls -> [counters EXCEPT !.closed = @ + 1]
         [] plan.dependency = "telemetry" -> [counters EXCEPT !.dropped = @ + 1]
         [] plan.dependency \in {"dns", "backing_api"} /\ c = CircuitCall ->
              [counters EXCEPT !.opened = @ + 1]
         [] OTHER -> counters

\* The target answers, in each scenario.  A leaking target keeps something of a call.
LoadAnswered(c) ==
  /\ plan.scenario \in {"load", "soak"}
  /\ \E o \in {"success", "unavailable", "cancelled"} : call' = [call EXCEPT ![c] = o]
  /\ counters' = IF defect = "leaks" THEN [counters EXCEPT !.held = @ + 1] ELSE counters

\* A noisy call is held until release_noisy, or refused.
NoisyAnswered(c) ==
  /\ plan.scenario = "fairness"
  /\ call' = [call EXCEPT ![c] = IF Admits THEN "held" ELSE "overloaded"]
  /\ UNCHANGED counters

\* A delivery of a key returns the recorded result.
Replayed(c) ==
  \E o \in {"success"} \cup (IF defect = "loses_replay" THEN {"unavailable"} ELSE {}) :
    call' = [call EXCEPT ![c] = o]

DuplicateAnswered(c) == plan.scenario = "retry" /\ Replayed(c) /\ Delivered(c)

\* Deliveries of one key go to the replicas in turn.
StatelessAnswered(c) ==
  /\ plan.scenario = "stateless" /\ Replayed(c)
  /\ counters' = [counters EXCEPT
                    !.effects = IF @ = 0 \/ defect = "forgets_key" THEN @ + 1 ELSE @,
                    !.memory = IF defect = "remembers" THEN @ + 1 ELSE @]

OutageAnswered(c) ==
  /\ plan.scenario = "dependency"
  /\ \E o \in FailureOutcomes(c) : call' = [call EXCEPT ![c] = o]
  /\ counters' = FailureCounted(c)

\* A call accepted before the transition runs until the drain.
Accepted(c) ==
  /\ plan.scenario = "rollout"
  /\ call' = [call EXCEPT ![c] = "held"]
  /\ UNCHANGED counters

Answered(c) ==
  /\ phase = "run" /\ call[c] = "active"
  /\ \/ LoadAnswered(c) \/ NoisyAnswered(c) \/ DuplicateAnswered(c)
     \/ StatelessAnswered(c) \/ OutageAnswered(c) \/ Accepted(c)
  /\ UNCHANGED <<plan, defect, peak, turn, served, phase, verdict>>

\* A call raises.  A load counts it as unavailable (Answered); in the other
\* scenarios its siblings are cancelled and there is no evidence.
Raises(c) ==
  /\ phase = "run" /\ call[c] = "active" /\ plan.scenario \notin {"load", "soak"}
  /\ phase' = "done" /\ verdict' = {"raised"}
  /\ UNCHANGED <<plan, defect, call, peak, turn, served, counters>>

Classified == \A c \in AllCalls : call[c] \notin {"new", "active"}

\* What follows the task group: the reserved tenant's calls, and the calls that
\* arrive while the target drains; or the other cycles of a soak.
Sequel == CASE plan.scenario = "fairness" -> plan.reserved
            [] plan.scenario = "rollout" -> plan.late
            [] plan.scenario = "soak" -> plan.cycles - 1
            [] OTHER -> 0

ReservedCall ==
  /\ plan.scenario = "fairness"
  /\ served' = IF Cardinality(In("held")) < plan.tool THEN served + 1 ELSE served
  /\ UNCHANGED <<call, counters>>

LateCall ==
  /\ plan.scenario = "rollout"
  /\ \E open \in {FALSE, defect = "accepts_late"} :
       /\ served' = IF open THEN served + 1 ELSE served
       /\ counters' = [counters EXCEPT !.rejected = IF open THEN @ ELSE @ + 1]
  /\ UNCHANGED call

NextCycle ==
  /\ plan.scenario = "soak"
  /\ call' = [c \in AllCalls |-> "new"]
  /\ UNCHANGED <<served, counters>>

FollowUp ==
  /\ phase = "run" /\ Classified /\ turn < Sequel /\ In("cancelled") = {}
  /\ turn' = turn + 1
  /\ ReservedCall \/ LateCall \/ NextCycle
  /\ UNCHANGED <<plan, defect, peak, phase, verdict>>

\* release_noisy, or drain and restore: the calls that are held end.
Drain ==
  /\ phase = "run" /\ Classified /\ (turn = Sequel \/ In("cancelled") # {})
  /\ phase' = "drained"
  /\ call' = [c \in AllCalls |-> IF call[c] # "held" THEN call[c]
                                 ELSE IF defect = "loses_call" /\ c = 1 THEN "lost" ELSE "success"]
  /\ counters' = [counters EXCEPT !.capacity = IF defect = "shrinks" THEN 0 ELSE 1,
                                  !.restored = IF defect = "stays_down" THEN 0 ELSE 1]
  /\ UNCHANGED <<plan, defect, peak, turn, served, verdict>>

-----------------------------------------------------------------------------
(* The judgement. *)

Against(reason, holds) == IF holds THEN {reason} ELSE {}

\* Mutant of Shortfalls: the outcomes of the calls are judged, the target's counters
\* are not.
ShortfallsByOutcome ==
  Against("shortfall", IF plan.scenario = "fairness" THEN served # turn
                       ELSE plan.scenario = "load" /\ In("success") # AllCalls)

\* assess_reliability_report, the part about the scenario of the plan.
Shortfalls ==
  LET successes == Cardinality(In("success"))
      masked == {"registry", "telemetry"}
      outages == {"agentgateway", "dns", "backing_api"} IN
  CASE plan.scenario = "load" -> Against("load_errors", successes # plan.calls)
    [] plan.scenario = "soak" -> Against("resource_growth", counters.held > Growth)
    [] plan.scenario = "fairness" ->
         Against("noisy_tenant_exceeded_limit", successes > plan.tenant)
         \cup Against("reserved_tenant_starved", served # turn)
    [] plan.scenario = "retry" ->
         Against("retry_amplification", counters.other > 0)
         \cup Against("runtime_retry_cap", counters.runtime > plan.calls * (MaxAttempts - 1))
         \cup Against("duplicate_effect", counters.effects # 1)
    [] plan.scenario = "stateless" ->
         Against("stateless_call_failed", successes # plan.calls)
         \cup Against("stateless_replica_affinity",
                      \E c \in 1..(plan.calls - 1) : c % plan.replicas = (c + 1) % plan.replicas)
         \cup Against("stateless_duplicate_effect", counters.effects # 1)
         \cup Against("stateless_request_memory", counters.memory > 0)
    [] plan.scenario = "dependency" ->
         Against("dependency_blast_radius", In("success") \ Affected = {})
         \cup Against("dependency_degraded",
                      plan.dependency \in masked /\ ~ Affected \subseteq In("success"))
         \cup Against("identity_cache_policy",
                      plan.dependency = "identity"
                      /\ (~ Affected \subseteq In("authentication_denied")
                          \/ counters.stale = 0 \/ counters.closed = 0))
         \cup Against("dependency_outcome",
                      plan.dependency \in outages
                      /\ ~ Affected \subseteq In("unavailable") \cup In("timeout"))
         \cup Against("telemetry_drop_unmeasured",
                      plan.dependency = "telemetry" /\ counters.dropped = 0)
         \cup Against("circuit_not_opened",
                      plan.dependency \in {"dns", "backing_api"} /\ counters.opened = 0)
    [] plan.scenario = "rollout" ->
         Against("drain_incomplete", successes # plan.calls)
         \cup Against("drain_admission_open", counters.rejected = 0)
         \cup Against("previous_capacity_lost", counters.capacity = 0)
         \cup Against("rollback_failed", counters.restored = 0)

\* What a runner rejects: noisy calls that ended in any other way than success or
\* overload, calls of a failed dependency that did not all end alike, and a duplicate
\* delivery without the recorded result.
Refused ==
  \/ plan.scenario = "fairness" /\ In("success") \cup In("overloaded") # AllCalls
  \/ plan.scenario = "dependency" /\ \E c, d \in Affected : call[c] # call[d]
  \/ plan.scenario = "retry" /\ In("success") # AllCalls

\* A load that was cancelled ends so; evidence the runner does not reject is judged.
Assessed ==
  /\ phase = "drained"
  /\ phase' = "done"
  /\ verdict' = IF In("cancelled") # {} THEN {"raised"}
                ELSE IF Refused THEN {"refused"} ELSE Shortfalls
  /\ UNCHANGED <<plan, defect, call, peak, turn, served, counters>>

RelNext ==
  \/ Submit \/ FollowUp \/ Drain \/ Assessed
  \/ phase = "run" /\ \E c \in AllCalls : Invoked(c) \/ Answered(c) \/ Raises(c)

RelSpec == RelInit /\ [][RelNext]_relVars

-----------------------------------------------------------------------------
(* Properties. *)

TooFewCalls ==
  /\ plan.scenario = "dependency"
  /\ \/ plan.dependency = "identity" /\ plan.calls <= StaleCalls
     \/ plan.dependency \in {"dns", "backing_api"} /\ plan.calls < CircuitCall

\* The identity outage the documents describe.
StaleThenClosed ==
  /\ plan.scenario = "dependency" /\ plan.dependency = "identity"
  /\ defect = None /\ plan.calls > StaleCalls

\* Approved evidence is true of the run: no call of a load failed or ran beyond the
\* semaphore; a noisy tenant never held more than its limit while every reserved
\* call was served; duplicate deliveries had one effect and all its result, retried by
\* the runtime alone; a soak leaked nothing beyond its budget; while a dependency was
\* down another tenant was still served, and of the affected calls all or none as the
\* dependency can be masked or not; no replica remembered a request; and a draining
\* target finished what it had accepted, turned some later call away, and came back.
\*
\* Conversely a target without a defect is approved in every fault scenario, but for
\* plans of too few calls, which the validators let through (an identity outage that
\* never fails closed, an outage that never opens the circuit), and for the identity
\* outage that serves stale keys first, whose two outcomes the runner refuses.
VerdictIsEarned ==
  phase = "done" /\ verdict # {"raised"} =>
    /\ verdict = {} =>
         /\ plan.scenario \in {"load", "soak"} => peak <= plan.width
         /\ plan.scenario \in {"load", "retry", "stateless"} => In("success") = AllCalls
         /\ plan.scenario = "soak" => counters.held <= Growth
         /\ plan.scenario = "fairness" => Cardinality(In("success")) <= plan.tenant
                                          /\ served = plan.reserved
         /\ plan.scenario \in {"retry", "stateless"} => counters.effects = 1
         /\ plan.scenario = "retry" => counters.other = 0
         /\ plan.scenario = "dependency" =>
              /\ In("success") \ Affected # {}
              /\ IF plan.dependency \in {"registry", "telemetry"}
                   THEN Affected \subseteq In("success") ELSE Affected \cap In("success") = {}
         /\ plan.scenario = "rollout" => In("success") = AllCalls /\ served < plan.late
                                         /\ defect \notin {"shrinks", "stays_down"}
         /\ plan.scenario = "stateless" => defect # "remembers"
    /\ defect \in {None, "denies_stale"} /\ plan.scenario # "load" /\ ~ TooFewCalls =>
         verdict = IF StaleThenClosed THEN {"refused"} ELSE {}

\* docs/reliability.md, "Required result" of an identity refresh outage: "Bounded stale
\* verified keys succeed, then new identity fails closed".  A run that shows this is
\* approved.
StaleOutageApproved ==
  phase = "done" /\ StaleThenClosed /\ verdict # {"raised"} => verdict = {}
=============================================================================
