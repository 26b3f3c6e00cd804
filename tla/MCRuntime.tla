------------------------------ MODULE MCRuntime -------------------------------
(* An instance for TLC of what runs inside a server: the execution of calls      *)
(* (Execution), calls in flight while the application drains and stops           *)
(* (Application), and the hooks of its components (Lifecycle).  A behaviour      *)
(* follows the one that subject names.                                           *)
EXTENDS Application, Lifecycle

CONSTANTS c1, c2, c3, read, write, acme, globex

\* Calls of two tools and two tenants: with c2 the tool's limit refuses, with c3 the
\* limits admit both.
MCToolOf == [c \in Calls |-> IF c = c3 THEN write ELSE read]
MCTenantOf == [c \in Calls |-> IF c = c2 THEN globex ELSE acme]
MCRetrySafe == {c \in Calls : MCToolOf[c] = read}

VARIABLE subject

runtimeVars == <<allVars, lifeVars, subject>>

TakingPart == {c \in Calls : caller[c] # "idle" \/ c \in token \cup expired}
Interruptions == expired \cup {c \in Calls : taskCancels[c] > 0}

\* Bounds.  Two calls take part.  Calls meet only in the bulkhead, so of two calls that
\* execute at most one is late or has its task cancelled, and both are cancelled by
\* their callers only where they share the tool; while the application drains, the
\* first one meets no signal but the drain's and does not retry.
InBounds ==
  CASE subject = "calls" ->
         /\ TakingPart \in SUBSET {c1, c2} \cup SUBSET {c1, c3}
         /\ Cardinality(Interruptions) <= 1
         /\ \A c \in Calls : taskCancels[c] <= 1
         /\ {c1, c3} \subseteq TakingPart => Cardinality(token \cup expired) <= 1
    [] subject = "drain" ->
         /\ TakingPart \subseteq {c1, c3}
         /\ c1 \notin token \cup expired /\ attempt[c1] <= 1
    [] subject = "hooks" -> TRUE

-----------------------------------------------------------------------------
RuntimeInit == subject \in {"calls", "drain", "hooks"} /\ AppInit /\ LifeInit

RuntimeNext ==
  /\ UNCHANGED subject
  /\ \/ subject = "calls" /\ Next /\ UNCHANGED <<appVars, lifeVars>>
     \/ subject = "drain" /\ AppNext /\ UNCHANGED lifeVars
     \/ subject = "hooks" /\ LifeNext /\ UNCHANGED allVars

\* While there is one, some step of the subject is taken that may be relied on.
RuntimeSpec ==
  /\ RuntimeInit /\ [][RuntimeNext]_runtimeVars
  /\ WF_runtimeVars(
       /\ UNCHANGED subject
       /\ \/ subject = "calls" /\ Progress /\ UNCHANGED <<appVars, lifeVars>>
          \/ subject = "drain" /\ AppProgress /\ UNCHANGED lifeVars
          \/ subject = "hooks" /\ LifeProgress /\ UNCHANGED allVars)
=============================================================================
