------------------------------ MODULE Bulkhead -------------------------------
(***************************************************************************)
(* What the bulkhead of execution.py promises: a call holds a slot from    *)
(* admission until its work has really ended, and no limit is ever         *)
(* exceeded.  There are no counters here: the limits are stated on the     *)
(* calls that hold a slot.                                                 *)
(***************************************************************************)
EXTENDS Naturals, FiniteSets

CONSTANTS Calls, Tools, Tenants, ToolOf, TenantOf,
          MaxGlobal, MaxServer, MaxTool, MaxTenant

VARIABLE holders

OfTool(H, t) == {c \in H : ToolOf[c] = t}
OfTenant(H, t) == {c \in H : TenantOf[c] = t}

Within(H) ==
  /\ Cardinality(H) <= MaxGlobal
  /\ Cardinality(H) <= MaxServer
  /\ \A t \in Tools : Cardinality(OfTool(H, t)) <= MaxTool
  /\ \A t \in Tenants : Cardinality(OfTenant(H, t)) <= MaxTenant

Init == holders = {}

Acquire(c) ==
  /\ c \notin holders
  /\ holders' = holders \cup {c}
  /\ Within(holders')

Free(c) ==
  /\ c \in holders
  /\ holders' = holders \ {c}

Next == \E c \in Calls : Acquire(c) \/ Free(c)

Spec == Init /\ [][Next]_holders
=============================================================================
