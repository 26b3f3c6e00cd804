---------------------------- MODULE MCReliability -----------------------------
(* Plans for TLC, of every scenario, valid ones and some that are not.  Two late *)
(* calls and two of an unaffected tenant, so that a target can fail one of them. *)
EXTENDS Reliability

MCPlans ==
  {[scenario |-> "load", calls |-> 3, width |-> 2],
   [scenario |-> "soak", calls |-> 2, width |-> 2, cycles |-> 2],
   [scenario |-> "retry", calls |-> 2],
   [scenario |-> "rollout", calls |-> 2, late |-> 2]}
  \cup [scenario : {"fairness"}, calls : 1..3, tenant : 1..2, tool : 2..4, global : 3..4,
        reserved : 1..2]
  \cup [scenario : {"stateless"}, calls : 2..3, replicas : {2}]
  \cup [scenario : {"dependency"}, calls : {1, 2}, unaffected : {2}, dependency : Dependencies]
=============================================================================
