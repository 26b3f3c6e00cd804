-------------------------- MODULE MCRegistryResolver --------------------------
(* The instance of RegistryResolver for TLC: two refs, the first of which has *)
(* two versions; the later one needs a scope only alice has and changes the   *)
(* schema of a tool under the fingerprint it had.                             *)
EXTENDS RegistryResolver

CONSTANTS r1, r2, r3, alice, bob, a, b, a1, a2, b1, old, new, search, drop

MCIdentityOf == [r \in Requests |-> IF r = r3 THEN bob ELSE alice]
MCQueryOf == [r \in Requests |-> [namespace |-> Anything]]

Requirement == [input |-> old, output |-> Anything, baseline |-> old]
MCPolicyOf ==
  [r \in Requests |->
    [required |-> {"find"}, lifecycles |-> {"active"}, protocols |-> {1},
     allow |-> IF r = r1 THEN {search} ELSE Anything, deny |-> {drop},
     requirements |-> (search :> Requirement) @@ (drop :> Requirement),
     maxTools |-> 1, maxSchemaBytes |-> 1]]

MCScopesOf == [i \in Identities |-> IF i = alice THEN {"read", "admin"} ELSE {"read"}]
MCRefOf == [v \in Versions |-> IF v = b1 THEN b ELSE a]
MCStubOf == [v \in Versions |->
  [server |-> TRUE, namespace |-> "team", capabilities |-> {"find"}]]

ToolOf(v) ==
  [status |-> "active", scopes |-> {IF v = a2 THEN "admin" ELSE "read"},
   capabilities |-> {"find"}, schema |-> IF v = b1 THEN new ELSE old, inputPrint |-> old,
   schemaPrint |-> Anything, outputPrint |-> old, size |-> 1]
MCSpecOf == [v \in Versions |->
  [lifecycle |-> "active", protocols |-> {1}, scopes |-> {"read"}, capabilities |-> {"find"},
   gatewayPath |-> TRUE,
   tools |-> (search :> ToolOf(v)) @@ (drop :> ToolOf(v))]]

\* Bound: the requests of one identity come one after the other.
InTurn == pc[r2] = "idle" \/ pc[r1] \in {"done", "unreachable"}

MCRanking == (a :> 1) @@ (b :> 2)
MCBreaking == {<<old, new>>}
=============================================================================
