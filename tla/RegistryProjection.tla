-------------------------- MODULE RegistryProjection --------------------------
(***************************************************************************)
(* What RegistryResolver (registry_discovery.py) decides about one         *)
(* artifact: which stubs of a search may be fetched, and which tools of    *)
(* the artifact the agent may see under its policy.  The code returns the  *)
(* reason of the first check that fails; here a check is a conjunct and    *)
(* reasons are left out.  A fingerprint is the schema it is taken of.      *)
(***************************************************************************)
EXTENDS Naturals, FiniteSets, FiniteSetsExt

CONSTANTS
  Anything,   \* no namespace in the query, "*" in tool_allow, no expectation
  Breaking    \* pairs <<baseline, schema>> classify_schema_change calls BREAKING

\* A requirement pins something, and a policy accepts some protocol and lifecycle and
\* never both allows and denies a tool.
RegistryToolRequirement(q) == {q.input, q.output, q.baseline} # {Anything}

RegistryResolutionPolicy(p) ==
  /\ p.protocols # {} /\ p.lifecycles # {}
  /\ p.allow # Anything => p.allow \cap p.deny = {}
  /\ {p.maxTools, p.maxSchemaBytes} \subseteq Nat \ {0}
  /\ \A n \in DOMAIN p.requirements : RegistryToolRequirement(p.requirements[n])

\* _stub_reasons: the stub is a server of a kind and namespace the query asks
\* for, and advertises every capability the policy requires.
StubEligible(stub, query, policy) ==
  /\ stub.server
  /\ query.namespace \in {Anything, stub.namespace}
  /\ policy.required \subseteq stub.capabilities

\* _resolve_tool's fingerprint checks: the schema has the fingerprint the
\* artifact gives for it (the tool's own, unless the artifact has one for the
\* projected schema), and the tool's fingerprints are those expected.
PrintsAgree(tool, requirement) ==
  /\ tool.schema = IF tool.schemaPrint = Anything THEN tool.inputPrint ELSE tool.schemaPrint
  /\ requirement.input \in {Anything, tool.inputPrint}
  /\ requirement.output \in {Anything, tool.outputPrint}

\* _resolve_tool.
ToolPermitted(tool, requirement, policy, scopes) ==
  /\ tool.status \in policy.lifecycles
  /\ tool.scopes \subseteq scopes
  /\ policy.required \subseteq tool.capabilities
  /\ PrintsAgree(tool, requirement)
  /\ <<requirement.baseline, tool.schema>> \notin Breaking

\* The tools _project selects: those the policy names, or all, but for those it
\* denies.
Selected(spec, policy) ==
  (IF policy.allow = Anything THEN DOMAIN spec.tools ELSE policy.allow) \ policy.deny

\* _project: the artifact as a whole, and each tool selected, pass; a policy
\* without a requirement for a selected tool refuses the artifact.
Accepted(spec, policy, scopes) ==
  LET selected == Selected(spec, policy) IN
  /\ spec.lifecycle \in policy.lifecycles
  /\ spec.protocols \cap policy.protocols # {}
  /\ spec.scopes \subseteq scopes
  /\ policy.required \subseteq spec.capabilities
  /\ spec.gatewayPath
  /\ selected # {} /\ selected \subseteq DOMAIN spec.tools
  /\ Cardinality(selected) <= policy.maxTools
  /\ \A n \in selected :
       /\ n \in DOMAIN policy.requirements
       /\ ToolPermitted(spec.tools[n], policy.requirements[n], policy, scopes)
  /\ MapThenSumSet(LAMBDA n : spec.tools[n].size, selected) <= policy.maxSchemaBytes

\* Mutant of Surface: the tools a wildcard selects are not checked.
SurfaceUnchecked(spec, policy, scopes) ==
  IF policy.allow = Anything \/ Accepted(spec, policy, scopes)
    THEN Selected(spec, policy) ELSE {}

\* The tools the agent may see, none if the artifact is rejected.
Surface(spec, policy, scopes) ==
  IF Accepted(spec, policy, scopes) THEN Selected(spec, policy) ELSE {}
=============================================================================
