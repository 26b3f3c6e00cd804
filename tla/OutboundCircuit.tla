--------------------------- MODULE OutboundCircuit ---------------------------
(***************************************************************************)
(* The circuit breaker of the outbound HTTP client                         *)
(* (adapters/outbound_http.py): one entry per destination, shared by       *)
(* concurrent requests.  A request is admitted, awaits the destination,    *)
(* and records a failure or a success when it ends.  Requests that were    *)
(* admitted before a circuit opened may end at any later time.             *)
(***************************************************************************)
EXTENDS Naturals, FiniteSets

CONSTANTS
  Requests,
  Destinations,
  DestOf,           \* the destination of each request
  Threshold,        \* circuit_failure_threshold
  MaxDestinations   \* max_circuit_destinations

\* The limits the client accepts; sizes and times are outcomes.
OutboundHTTPLimits == {Threshold, MaxDestinations} \subseteq Nat \ {0}

ASSUME CircuitAssumptions ==
  /\ DestOf \in [Requests -> Destinations]
  /\ OutboundHTTPLimits

VARIABLES
  tracked,    \* destinations with an entry in _circuits
  failures,   \* failures of each entry; a destination without one has those of a new
              \* entry, here and in opened
  opened,     \* "closed" (opened_at is None), "open", or "recovered" when
              \* circuit_recovery_seconds have passed since opened_at
  probe,      \* entries with probe_in_flight set
  pc,         \* where each request is; "probing" if it was admitted as a probe
  failed      \* history: destinations that have answered with a failure

circuitVars == <<tracked, failures, opened, probe>>
vars == <<circuitVars, pc, failed>>

Init ==
  /\ tracked = {} /\ probe = {} /\ failed = {}
  /\ failures = [d \in Destinations |-> 0]
  /\ opened = [d \in Destinations |-> "closed"]
  /\ pc = [r \in Requests |-> "idle"]

\* circuit_recovery_seconds pass for an open circuit.
Recover(d) ==
  /\ opened[d] = "open"
  /\ opened' = [opened EXCEPT ![d] = "recovered"]
  /\ UNCHANGED <<tracked, failures, probe, pc, failed>>

Move(r, where) == pc' = [pc EXCEPT ![r] = where]

TableFull == Cardinality(tracked) >= MaxDestinations

\* _admit_circuit: a new destination needs a free entry; a closed circuit
\* admits everyone; a recovered one admits a request as its probe.
Admit(r) ==
  LET d == DestOf[r] IN
  /\ pc[r] = "idle"
  /\ \/ /\ d \notin tracked /\ TableFull
        /\ Move(r, "refused")
        /\ UNCHANGED circuitVars
     \/ /\ d \notin tracked /\ ~TableFull
        /\ tracked' = tracked \cup {d}
        /\ Move(r, "sent")
        /\ UNCHANGED <<failures, opened, probe>>
     \/ /\ d \in tracked /\ opened[d] = "closed"
        /\ Move(r, "sent")
        /\ UNCHANGED circuitVars
     \/ /\ d \in tracked /\ opened[d] # "closed"
        /\ opened[d] = "open" \/ d \in probe
        /\ Move(r, "refused")
        /\ UNCHANGED circuitVars
     \/ /\ d \in tracked /\ opened[d] = "recovered" /\ d \notin probe
        /\ probe' = probe \cup {d}
        /\ Move(r, "probing")
        /\ UNCHANGED <<tracked, failures, opened>>
  /\ UNCHANGED failed

\* Mutants of EndFailure: the probe flag is kept; the failure opens every
\* entry of the table.
FailureKeepsProbe(r) ==
  LET d == DestOf[r] IN
  /\ pc[r] \in {"sent", "probing"}
  /\ failures' = [failures EXCEPT ![d] = IF d \in tracked THEN @ + 1 ELSE @]
  /\ opened' = [opened EXCEPT ![d] =
                  IF d \in tracked /\ failures[d] + 1 >= Threshold THEN "open" ELSE @]
  /\ failed' = failed \cup {d}
  /\ Move(r, "done")
  /\ UNCHANGED <<tracked, probe>>

FailureOpensAll(r) ==
  LET d == DestOf[r] IN
  /\ pc[r] \in {"sent", "probing"}
  /\ IF d \in tracked
       THEN /\ probe' = probe \ {d}
            /\ failures' = [failures EXCEPT ![d] = @ + 1]
            /\ opened' = [x \in Destinations |->
                            IF x \in tracked /\ failures[d] + 1 >= Threshold THEN "open"
                                                                          ELSE opened[x]]
            /\ UNCHANGED tracked
       ELSE UNCHANGED circuitVars
  /\ failed' = failed \cup {d}
  /\ Move(r, "done")

\* _record_circuit_failure.
EndFailure(r) ==
  LET d == DestOf[r] IN
  /\ pc[r] \in {"sent", "probing"}
  /\ IF d \in tracked
       THEN /\ probe' = probe \ {d}
            /\ failures' = [failures EXCEPT ![d] = @ + 1]
            /\ opened' = [opened EXCEPT ![d] =
                            IF failures[d] + 1 >= Threshold THEN "open" ELSE @]
            /\ UNCHANGED tracked
       ELSE UNCHANGED circuitVars
  /\ failed' = failed \cup {d}
  /\ Move(r, "done")

\* _record_circuit_success drops the entry with all it holds.
EndSuccess(r) ==
  LET d == DestOf[r] IN
  /\ pc[r] \in {"sent", "probing"}
  /\ tracked' = tracked \ {d}
  /\ probe' = probe \ {d}
  /\ failures' = [failures EXCEPT ![d] = 0]
  /\ opened' = [opened EXCEPT ![d] = "closed"]
  /\ Move(r, "done")
  /\ UNCHANGED failed

\* The task is cancelled while it awaits the destination: request catches
\* Exception, which CancelledError is not, so nothing is recorded.
Cancelled(r) ==
  /\ pc[r] \in {"sent", "probing"}
  /\ Move(r, IF pc[r] = "probing" THEN "probe_lost" ELSE "lost")
  /\ UNCHANGED <<circuitVars, failed>>

-----------------------------------------------------------------------------
(* Properties. *)

\* The table is within its bound; a circuit is open only with enough failures since
\* the destination last succeeded, also when late answers arrive after it opened or
\* was dropped; and a circuit whose probe flag is set has a probe that will clear
\* it, for without one the destination would be refused for ever.  A probe whose
\* task was cancelled is the only way to lose the owner of the flag.
CircuitIsSound ==
  /\ Cardinality(tracked) <= MaxDestinations
  /\ \A d \in Destinations :
       opened[d] # "closed" => d \in tracked /\ failures[d] >= Threshold
  /\ \A d \in probe :
       \E r \in Requests : DestOf[r] = d /\ pc[r] \in {"probing", "probe_lost"}

\* Requests to a destination that has never failed are refused only for want of a table
\* entry: one destination's open circuit does not reach another that is tracked beside
\* it (_admit_circuit, _record_circuit_failure).
DestinationsIsolated ==
  [][\A r \in Requests :
       pc[r] # "refused" /\ pc'[r] = "refused" /\ DestOf[r] \notin failed
         => DestOf[r] \notin tracked /\ Cardinality(tracked) >= MaxDestinations]_vars
=============================================================================
