------------------------------- MODULE MCGuards -------------------------------
(* The guards a call passes on its way, each on its own: the signing-key cache *)
(* of the caller's identity, the tool policy, the outbound client and the      *)
(* telemetry.  They share no state, so a behaviour follows the one that        *)
(* subject names and the others rest in their first state.                     *)
EXTENDS JwksCache, ToolPolicy, OutboundClient, Telemetry

CONSTANTS
  k1, \* the key every lookup asks for first
  c1, c2, other, reuse, stray, bare, hidden, unscoped, unkeyed, read,
  once, many, pay, refund,
  r1, r2, r3, r4, r5, r6, near, far, third, foreign,
  s1, s2, s3

VARIABLE subject

(* ToolPolicy: two calls for the approved action, one for another action with  *)
(* the same approval, two such calls with a reusable approval, and one call    *)
(* for each check that comes before the approval.                              *)
MCActionOf == [c \in Calls |-> IF c \in {other, stray} THEN refund ELSE pay]
MCClaimOf == [c \in Calls |-> IF c \in {c1, c2, other} THEN once
                              ELSE IF c \in {reuse, stray} THEN many ELSE None]
MCRecordFor == [a \in Approvals |-> pay]
MCExported == Calls \ {hidden}
MCInScope == Calls \ {unscoped}
MCKeyed == Calls \ {unkeyed}
MCGuarded == Calls \ {read}

(* OutboundClient: requests to two destinations the policy permits, which      *)
(* redirect to each other, and one to a third; the table has two entries.      *)
MCDestOf == [r \in Requests |-> IF r = r5 THEN third ELSE IF r \in {r4, r6} THEN far ELSE near]

\* A public address, a private one, one of a permitted internal network, and a
\* public one that carries a private one.
Public == [global |-> TRUE, embeds |-> {}, listed |-> FALSE]
MCAddresses == {Public, [Public EXCEPT !.global = FALSE], [Public EXCEPT !.embeds = {FALSE}],
                [Public EXCEPT !.global = FALSE, !.listed = TRUE]}

SpanEnded(s) == fate[s] # "open" \/ (ending # None /\ ending.span = s)

\* Bounds: three of the calls take part, whichever they are; of the requests only the
\* one with sensitive headers connects and is redirected, not to the third destination,
\* whose own request comes with two of the others to near; at most one request is
\* rejected and two are cancelled; spans, which are alike, end in order, and the last of
\* them only with at most one other event.
Bounded ==
  /\ Cardinality({c \in Calls : asked[c] # "idle"}) <= 3
  /\ \A r \in Requests \ Sensitive : peer[r] = None
  /\ hop[r1] # third
  /\ pc[r5] # "idle" => pc[r1] = "idle" \/ pc[r3] = "idle"
  /\ Cardinality({r \in Requests : pc[r] = "rejected"}) <= 1
  /\ Cardinality({r \in Requests : pc[r] \in {"lost", "probe_lost"}}) <= 2
  /\ SpanEnded(s3) => SpanEnded(s2)
  /\ SpanEnded(s2) => SpanEnded(s1)
  /\ SpanEnded(s3) => made <= 1

\* Requests to one destination without sensitive headers are alike.
Alike == Permutations({r2, r3}) \cup Permutations({r4, r6})

GuardsInit ==
  /\ subject \in {"keys", "policy", "outbound", "telemetry"}
  /\ JwksInit
  /\ subject # "keys" => issuer = {} /\ kid \in [Lookups -> {k1}]
  /\ PolicyInit /\ ClientInit /\ TelInit

GuardsNext ==
  \/ subject = "keys" /\ JwksNext /\ UNCHANGED <<policyVars, clientVars, telVars, subject>>
  \/ subject = "policy" /\ PolicyNext /\ UNCHANGED <<jwksVars, clientVars, telVars, subject>>
  \/ subject = "outbound" /\ ClientNext /\ UNCHANGED <<jwksVars, policyVars, telVars, subject>>
  \/ subject = "telemetry" /\ TelNext /\ UNCHANGED <<jwksVars, policyVars, clientVars, subject>>

GuardsSpec ==
  GuardsInit /\ [][GuardsNext]_<<jwksVars, policyVars, clientVars, telVars, subject>>
=============================================================================
