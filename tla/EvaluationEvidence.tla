------------------------- MODULE EvaluationEvidence --------------------------
(***************************************************************************)
(* tesserix_mcp_testkit/evaluation.py: EvaluationRunner calls a target case *)
(* by case and attempt by attempt, its report is signed, and a promotion    *)
(* decision is made from the signed evidence, elsewhere and later.            *)
(*                                                                          *)
(* An observation is the set of its flaws.  The target, the carrier of the  *)
(* report and the artifacts it is presented for are external: a target may  *)
(* fail in any way, a report may be altered before or after it is signed,   *)
(* signed by an unknown key, or presented for other artifacts.  A signature *)
(* is what it was made over.                                                *)
(***************************************************************************)
EXTENDS Naturals, Sequences, FiniteSets, SequencesExt, PythonNone

CONSTANTS
  Bundles,       \* bundles that may be loaded: sequences of cases
  FlawSets,      \* observations the target may give
  Reviews        \* reviews that may be submitted: [author, reviewers]

Metrics == {"correctness", "schema_conformance", "secret_leakage", "tenant_isolation",
            "authorization_denial", "idempotency", "latency", "availability"}
Roles == {"evaluation_owner", "security_reviewer", "registry_owner", "release_reviewer"}
Flaws == {"unexpected", "events", "schema", "unavailable", "secret_canary", "tenant_canary",
          "unsafe", "slow", "effect", "outcome"}

\* Bundles are sequences of cases, whose metrics are members of the enumeration.
ASSUME EvaluationAssumptions ==
  /\ FlawSets \subseteq SUBSET Flaws
  /\ \A b \in Bundles :
       b \in Seq(Range(b)) /\ \A i \in DOMAIN b : b[i].metrics \subseteq Metrics
  /\ None \notin Seq(SUBSET Flaws)

VARIABLES
  bundle,     \* the bundle under evaluation
  step,       \* load, run, report, signed or done
  results,    \* results of the cases so far
  obs,        \* observations of the case in progress
  truth,      \* history: all observations of each case, None if it was not finished
  evidence,   \* the report, and from then on its signature
  decision    \* the outcome of the promotion assessment

evalVars == <<bundle, step, results, obs, truth, evidence, decision>>

-----------------------------------------------------------------------------
(* Contracts. *)

\* EvaluationCase.validate_metrics.  A case is a record: its metrics, the blocking
\* ones, attempts, the budget and timeout, what it expects, the canaries in its
\* arguments, whether it has an idempotency key, and whether it is quarantined.
ValidCase(c) ==
  /\ c.metrics # {} /\ c.blocking \subseteq c.metrics
  /\ c.attempts \in 1..10 /\ c.budget <= c.timeout
  /\ ("secret" \in c.canaries) = ("secret_leakage" \in c.metrics)
  /\ ("tenant" \in c.canaries) = ("tenant_isolation" \in c.metrics)
  /\ "idempotency" \in c.metrics => c.attempts >= 2 /\ c.keyed
  /\ "authorization_denial" \in c.metrics => c.expects = "error"

\* EvaluationBundle: at least one case, each valid; their ids are their positions.
ValidBundle(b) == b # <<>> /\ \A i \in DOMAIN b : ValidCase(b[i])

\* EvaluationArtifactBinding: the digests of the bundle and of the artifacts.
Matches(binding, b) == binding[1] = b

\* EvaluationReview.validate_independence and the reviewer's own checks.
ValidReview(r) == r.author \notin DOMAIN r.reviewers /\ \A s \in DOMAIN r.reviewers :
                    r.reviewers[s] \subseteq Roles /\ r.reviewers[s] # {}

\* default_evaluation_promotion_policy; scores in percent.
Policy(stage) ==
  LET gate(latency, availability) ==
        [m \in Metrics |-> IF m = "latency" THEN latency
                           ELSE IF m = "availability" THEN availability ELSE 100] IN
  CASE stage = "experimental" ->
         [gates |-> gate(95, 99), modes |-> {"in_process", "streamable_http"},
          roles |-> {"evaluation_owner"}, reviewers |-> 1, quarantine |-> TRUE]
    [] stage = "internal" ->
         [gates |-> gate(100, 100), modes |-> {"streamable_http"},
          roles |-> {"evaluation_owner", "security_reviewer"}, reviewers |-> 2,
          quarantine |-> FALSE]
    [] stage = "ga" ->
         [gates |-> gate(100, 100), modes |-> {"streamable_http"},
          roles |-> Roles, reviewers |-> 3, quarantine |-> FALSE]

-----------------------------------------------------------------------------
(* Results. *)

\* What an observation must be free of, for each metric.  The canaries are looked
\* for in a scan that also refuses other protected material.
Blame(m) ==
  CASE m \in {"correctness", "authorization_denial"} -> {"unexpected", "events"}
    [] m = "schema_conformance" -> {"schema"}
    [] m = "secret_leakage" -> {"secret_canary", "unsafe"}
    [] m = "tenant_isolation" -> {"tenant_canary", "unsafe", "unexpected"}
    [] m = "idempotency" -> {"effect", "outcome", "unexpected", "events"}
    [] m = "latency" -> {"slow"}
    [] m = "availability" -> {"unavailable"}

\* Mutant of MetricPassed: only the last attempt counts.
MetricPassedLast(m, seen) == Last(seen) \cap Blame(m) = {}

MetricPassed(m, seen) ==
  /\ \A i \in DOMAIN seen : seen[i] \cap Blame(m) = {}
  /\ m = "idempotency" => Len(seen) >= 2

\* _evaluate_case: a quarantined case passes none of its blocking metrics.
Evaluated(c, seen) ==
  LET passed == {m \in c.metrics : MetricPassed(m, seen)} IN
  [attempts |-> Len(seen), quarantine |-> c.quarantine,
   metrics |-> c.metrics, passed |-> IF c.quarantine THEN passed \ c.blocking ELSE passed,
   status |-> IF c.quarantine THEN "quarantined"
              ELSE IF c.blocking \subseteq passed THEN "passed" ELSE "failed"]

\* _incomplete_result: after a timeout or an exception of the target.
Incomplete(c, seen) ==
  [attempts |-> Len(seen), quarantine |-> c.quarantine, metrics |-> c.metrics,
   passed |-> {}, status |-> "incomplete"]

\* _summarize_metrics: cases passed and evaluated, for the metrics there are.
Summaries(rs) ==
  [m \in UNION {rs[i].metrics : i \in DOMAIN rs} |->
     [passed |-> Cardinality({i \in DOMAIN rs : m \in rs[i].passed}),
      total |-> Cardinality({i \in DOMAIN rs : m \in rs[i].metrics})]]

Complete(rs) == \A i \in DOMAIN rs : rs[i].status # "incomplete"
Passed(rs) == \A i \in DOMAIN rs : rs[i].status = "passed"

Report(binding, mode, rs) ==
  [binding |-> binding, mode |-> mode, cases |-> rs, metrics |-> Summaries(rs),
   complete |-> Complete(rs), passed |-> Passed(rs), signature |-> None]

-----------------------------------------------------------------------------
(* The runner. *)

EvalInit ==
  /\ bundle = <<>> /\ step = "load"
  /\ results = <<>> /\ obs = <<>> /\ truth = <<>>
  /\ evidence = None /\ decision = None

\* load_evaluation_bundle and EvaluationRunner.__init__: a malformed bundle, an
\* unsafe one and one whose digest is not the binding's never reach the target.
Load ==
  /\ step = "load"
  /\ \E b \in Bundles :
       ValidBundle(b) /\ bundle' = b
  /\ step' = "run"
  /\ UNCHANGED <<results, obs, truth, evidence, decision>>

Case == bundle[Len(results) + 1]

\* A case ends; after the last one the report is made.
EndsCase(result, seen) ==
  /\ results' = Append(results, result) /\ truth' = Append(truth, seen) /\ obs' = <<>>
  /\ IF Len(results) + 1 = Len(bundle)
       THEN /\ step' = "report"
            /\ \E mode \in {"in_process", "streamable_http"} :
                 evidence' = Report(<<bundle, "built">>, mode, results')
       ELSE UNCHANGED <<step, evidence>>

\* The target answers; a tool error, a protocol error and a cancellation by the
\* target are answers.
Observe ==
  /\ step = "run"
  /\ \E o \in FlawSets :
       LET seen == Append(obs, o) IN
       IF Len(seen) = Case.attempts
         THEN EndsCase(Evaluated(Case, seen), seen)
         ELSE obs' = seen /\ UNCHANGED <<results, truth, step, evidence>>
  /\ UNCHANGED <<bundle, decision>>

\* The target raises or exceeds the case's timeout: no further attempt is made.
TargetFails ==
  /\ step = "run"
  /\ EndsCase(Incomplete(Case, obs), None)
  /\ UNCHANGED <<bundle, decision>>

\* The runner's own task is cancelled: there is no evidence.
RunnerCancelled ==
  /\ step = "run"
  /\ step' = "done"
  /\ UNCHANGED <<bundle, results, obs, truth, evidence, decision>>

\* sign_evaluation_report; what is signed may have been altered on its way.
Sign ==
  /\ step = "report"
  /\ step' = "signed"
  /\ \E inflated \in BOOLEAN, key \in {"trusted", "unknown"} :
       LET signed == IF inflated THEN [evidence EXCEPT !.passed = TRUE, !.complete = TRUE]
                                 ELSE evidence IN
       evidence' = [signed EXCEPT !.signature = [key |-> key, over |-> signed]]
  /\ UNCHANGED <<bundle, results, obs, truth, decision>>

-----------------------------------------------------------------------------
(* Verification and promotion. *)

\* _validate_report_against_bundle.
Consistent(r, b) ==
  /\ Len(r.cases) = Len(b)
  /\ \A i \in DOMAIN b :
       LET c == b[i]
           result == r.cases[i] IN
       /\ result.metrics = c.metrics /\ result.quarantine = c.quarantine
       /\ \/ c.quarantine /\ result.status = "quarantined" /\ result.passed \cap c.blocking = {}
          \/ ~c.quarantine /\ result.status = "incomplete" /\ result.attempts < c.attempts
          \/ /\ ~c.quarantine /\ result.attempts = c.attempts
             /\ result.status = IF c.blocking \subseteq result.passed THEN "passed" ELSE "failed"
  /\ r.metrics = Summaries(r.cases)
  /\ r.complete = Complete(r.cases) /\ r.passed = (Complete(r.cases) /\ Passed(r.cases))

\* verify_evaluation_report, for the binding the caller expects.
Verifies(r, binding) ==
  /\ r.binding = binding /\ Matches(binding, bundle)
  /\ r.signature # None /\ r.signature.key = "trusted"
  /\ r.signature.over = [r EXCEPT !.signature = None]
  /\ Consistent(r, bundle)

\* assess_evaluation_promotion: everything that speaks against the promotion.
Reasons(r, stage, review) ==
  LET policy == Policy(stage)
      against(reason, holds) == IF holds THEN {<<reason, None>>} ELSE {}
      quarantined == \E i \in DOMAIN r.cases : r.cases[i].status = "quarantined" IN
  against("report_incomplete", ~r.complete)
  \cup against("blocking_case_failed", ~r.passed)
  \cup against("execution_mode_not_allowed", r.mode \notin policy.modes)
  \cup against("quarantine_not_allowed", ~policy.quarantine /\ quarantined)
  \cup against("reviewers_insufficient",
               Cardinality(DOMAIN review.reviewers) < policy.reviewers)
  \cup {<<"metric_missing", m>> : m \in Metrics \ DOMAIN r.metrics}
  \cup {<<"metric_below_threshold", m>> :
          m \in {n \in DOMAIN r.metrics :
                   r.metrics[n].passed * 100 < policy.gates[n] * r.metrics[n].total}}
  \cup {<<"reviewer_role_missing", role>> :
          role \in {x \in policy.roles :
                      \A s \in DOMAIN review.reviewers : x \notin review.reviewers[s]}}

\* The ways a report can have been altered since it was signed.
Presented ==
  {evidence, [evidence EXCEPT !.cases = [i \in DOMAIN @ |-> [@[i] EXCEPT !.passed = bundle[i].metrics,
                                                                     !.status = "passed"]]],
   [evidence EXCEPT !.binding = <<bundle, "rebuilt">>]}

Assess ==
  /\ step = "signed"
  /\ \E r \in Presented, binding \in {<<bundle, "built">>, <<bundle, "rebuilt">>},
        stage \in {"experimental", "internal", "ga"}, review \in Reviews :
       /\ ValidReview(review)
       /\ decision' = [genuine |-> r = evidence, binding |-> binding, stage |-> stage,
                       review |-> review, verified |-> Verifies(r, binding),
                       reasons |-> IF Verifies(r, binding) THEN Reasons(r, stage, review)
                                                           ELSE {<<"rejected", None>>}]
  /\ step' = "done"
  /\ UNCHANGED <<bundle, results, obs, truth, evidence>>

EvalNext ==
  Load \/ Observe \/ TargetFails \/ RunnerCancelled \/ Sign \/ Assess

EvalSpec == EvalInit /\ [][EvalNext]_evalVars

-----------------------------------------------------------------------------
(* Properties. *)

\* A promotion is earned: it is approved only for the artifacts that were really
\* evaluated, when every case was observed on every attempt and no attempt spoke
\* against a blocking metric, no case was quarantined, all metrics were measured,
\* and enough people other than the author have reviewed it.
PromotionIsEarned ==
  decision # None /\ decision.reasons = {} =>
    /\ decision.binding = <<bundle, "built">>
    /\ \A i \in DOMAIN bundle :
         /\ truth[i] # None /\ Len(truth[i]) = bundle[i].attempts /\ ~bundle[i].quarantine
         /\ \A m \in bundle[i].blocking, k \in DOMAIN truth[i] : truth[i][k] \cap Blame(m) = {}
    /\ Metrics = UNION {bundle[i].metrics : i \in DOMAIN bundle}
    /\ Policy(decision.stage).roles \subseteq
         UNION {decision.review.reviewers[s] :
                  s \in DOMAIN decision.review.reviewers \ {decision.review.author}}

\* The report of a run, signed as it is with the trusted key and presented for its
\* own artifacts, can be verified.
OwnReportVerifies ==
  decision # None /\ decision.genuine /\ decision.binding = evidence.binding
    /\ evidence.signature.key = "trusted" /\ evidence.cases = results
    /\ evidence.passed = Passed(results) /\ evidence.complete = Complete(results)
    => decision.verified
=============================================================================
