------------------------------ MODULE MCRelease -------------------------------
(* The checks between a built server and the calls it serves, each on its own:  *)
(* publication, activation, admission to a Gateway, evaluation, reliability and *)
(* migration.  They share no state, so a behaviour follows the one that subject *)
(* names and the others rest in their first state.                              *)
EXTENDS MCPublication, Activation, GatewayAdmission, MCEvaluation, MCReliability, MCMigration

VARIABLE subject

(* Activation: deployed, probed, ready, failed and unhealthy again. *)
MCConditionSets ==
  {{"Published", "DeploymentReady"}, {"Published", "DeploymentReady", "ProbeReady", "Healthy"},
   Readiness, {"Published", "Failed"}, Readiness \ {"Healthy"}}

(* GatewayAdmission: two servers of one tenant, the later one first by its ref, *)
(* and one of another tenant; limits below and at what they ask for.            *)
MCTenantOf == 1 :> 1 @@ 2 :> 1 @@ 3 :> 2
MCPublishedAt == 1 :> 2 @@ 2 :> 1 @@ 3 :> 2
MCPolicies == {[tenant |-> 1, global |-> 1], [tenant |-> 1, global |-> 2]}

-----------------------------------------------------------------------------
Subjects == {"publication", "activation", "admission", "evaluation", "reliability", "migration"}

allVars == <<pubVars, actVars, gateVars, evalVars, relVars, migVars, subject>>

\* What the components other than the subject keep.
Others(mine) ==
  /\ UNCHANGED subject
  /\ mine # "publication" => UNCHANGED pubVars
  /\ mine # "activation" => UNCHANGED actVars
  /\ mine # "admission" => UNCHANGED gateVars
  /\ mine # "evaluation" => UNCHANGED evalVars
  /\ mine # "reliability" => UNCHANGED relVars
  /\ mine # "migration" => UNCHANGED migVars

ReleaseInit ==
  /\ subject \in Subjects
  /\ PubInit /\ GateInit /\ EvalInit /\ RelInit /\ MigInit
  /\ ActInit
  /\ subject # "activation" => goal = "active" /\ asked = None

ReleaseNext ==
  \/ subject = "publication" /\ PubNext /\ Others("publication")
  \/ subject = "activation" /\ ActNext /\ Others("activation")
  \/ subject = "admission" /\ GateNext /\ Others("admission")
  \/ subject = "evaluation" /\ EvalNext /\ Others("evaluation")
  \/ subject = "reliability" /\ RelNext /\ Others("reliability")
  \/ subject = "migration" /\ MigNext /\ Others("migration")

\* The fairness is the waiter's.  Where activation is not the subject its steps are
\* never taken, so of those behaviours only the safety is checked.
ReleaseSpec == ReleaseInit /\ [][ReleaseNext]_allVars /\ ActFairness
=============================================================================
