----------------------------- MODULE MCEvaluation -----------------------------
(* An instance of EvaluationEvidence for TLC. *)
EXTENDS EvaluationEvidence

\* A case with every metric and canaries, tried twice, and one with two metrics.
Full == [metrics |-> Metrics, blocking |-> {"correctness", "secret_leakage"}, attempts |-> 2,
         budget |-> 1, timeout |-> 2, canaries |-> {"secret", "tenant"}, keyed |-> TRUE,
         expects |-> "error", quarantine |-> FALSE]
Plain == [metrics |-> {"correctness", "latency"}, blocking |-> {"correctness"}, attempts |-> 1,
          budget |-> 1, timeout |-> 1, canaries |-> {}, keyed |-> FALSE, expects |-> "result",
          quarantine |-> FALSE]

MCBundles == {<<Full, Plain>>, <<Full, [Plain EXCEPT !.quarantine = TRUE]>>,
              <<[Full EXCEPT !.attempts = 1]>>}
MCFlawSets == {{}, {"unexpected"}, {"slow"}, {"secret_canary"}}

\* Reviewers with all roles between them, the author alone, and one reviewer.
MCReviews ==
  {[author |-> "dev",
    reviewers |-> [qa |-> {"evaluation_owner"}, sec |-> {"security_reviewer"},
                   rel |-> {"registry_owner", "release_reviewer"}]],
   [author |-> "dev", reviewers |-> [dev |-> Roles]],
   [author |-> "dev", reviewers |-> [qa |-> {"evaluation_owner"}]]}
=============================================================================
