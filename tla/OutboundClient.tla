---------------------------- MODULE OutboundClient ----------------------------
(***************************************************************************)
(* OutboundHTTPClient (adapters/outbound_http.py): request with its checks *)
(* before admission, the hops of _follow_redirects and the audit trail,    *)
(* composed with the circuit breaker of OutboundCircuit.                   *)
(*                                                                         *)
(* The circuit belongs to the destination of the request's own URL,        *)
(* whatever hop decides its end.  URLs, headers and bodies are reduced to  *)
(* their destination and to whether sensitive headers are still sent.      *)
(***************************************************************************)
EXTENDS OutboundCircuit, PythonNone

CONSTANTS
  Permitted,     \* destinations the egress policy authorizes
  Sensitive,     \* requests with sensitive headers
  Addresses,     \* what names may resolve to, records: global, embeds (whether the
                 \* IPv4 addresses it carries are global), listed (in a permitted
                 \* internal network)
  MaxAddresses,  \* addresses a name may have
  MaxRedirects   \* OutboundHTTPLimits.max_redirects

ASSUME ClientAssumptions ==
  /\ Permitted \subseteq Destinations
  /\ Sensitive \subseteq Requests
  /\ MaxRedirects \in Nat /\ MaxAddresses \in Nat \ {0}
  /\ Addresses \subseteq [global : BOOLEAN, embeds : SUBSET BOOLEAN, listed : BOOLEAN]
  /\ None \notin Addresses

VARIABLES
  hop,        \* the destination each request is at
  peer,       \* the address of the connection of each request's hop, or None
  redirects,  \* redirects each request has followed
  secret,     \* requests that still send their sensitive headers
  events,     \* audit events appended to the sink
  lostEvents, \* _audit_failures
  closed      \* _closed

hopVars == <<hop, peer, redirects, secret>>
auditVars == <<events, lostEvents>>
clientVars == <<vars, hopVars, auditVars, closed>>

ClientInit ==
  /\ Init
  /\ hop = DestOf /\ secret = Sensitive
  /\ peer = [r \in Requests |-> None]
  /\ redirects = [r \in Requests |-> 0]
  /\ events = 0 /\ lostEvents = 0 /\ closed = FALSE

\* Mutant of EmitAudit: a failing sink is not counted.
EmitAuditUncounted ==
  \/ events' = events + 1 /\ UNCHANGED lostEvents
  \/ UNCHANGED auditVars

\* _emit_audit: the event is appended, or its failure is counted.
EmitAudit ==
  \/ events' = events + 1 /\ UNCHANGED lostEvents
  \/ lostEvents' = lostEvents + 1 /\ UNCHANGED events

-----------------------------------------------------------------------------
(* request, up to its first await *)

\* The method, URL, headers or content is invalid, redaction fails, the policy
\* forbids the destination or the client is closed.
Reject(r) ==
  /\ pc[r] = "idle"
  /\ Move(r, "rejected")
  /\ EmitAudit
  /\ UNCHANGED <<circuitVars, failed, hopVars, closed>>

\* Every check passes and the circuit decides.
Request(r) ==
  /\ DestOf[r] \in Permitted /\ ~closed
  /\ Admit(r)
  /\ IF pc'[r] = "refused" THEN EmitAudit ELSE UNCHANGED auditVars
  /\ UNCHANGED <<hopVars, closed>>

-----------------------------------------------------------------------------
(* _follow_redirects under the request's timeout *)

\* _is_public: an address that is global, and so is every IPv4 address inside it.
IsPublic(a) == a.global /\ FALSE \notin a.embeds

\* DeclaredEgressPolicy.authorize_connection.
AuthorizeConnection(d, answer) ==
  /\ d \in Permitted /\ Cardinality(answer) \in 1..MaxAddresses
  /\ \A a \in answer : a.listed \/ IsPublic(a)

\* connect_tcp: the name is resolved, which may answer differently every time; all
\* its addresses must be authorized, one is selected, and the address that was
\* reached must be authorized too and be that one.  A pooled connection is one made
\* so before.
Reached == [d \in Destinations |->
  {actual \in Addresses :
     \E answer \in SUBSET Addresses, selected \in Addresses :
       /\ AuthorizeConnection(d, answer) /\ selected \in answer
       /\ AuthorizeConnection(d, {actual}) /\ actual = selected}]

Connect(r) ==
  /\ pc[r] \in {"sent", "probing"} /\ peer[r] = None
  /\ \E actual \in Reached[hop[r]] : peer' = [peer EXCEPT ![r] = actual]
  /\ UNCHANGED <<vars, hop, redirects, secret, auditVars, closed>>

\* Mutant of Redirect: the headers are kept.
RedirectKeepsHeaders(r, d) ==
  /\ peer[r] # None /\ d \in Permitted /\ redirects[r] < MaxRedirects
  /\ hop' = [hop EXCEPT ![r] = d]
  /\ peer' = [peer EXCEPT ![r] = None]
  /\ redirects' = [redirects EXCEPT ![r] = @ + 1]
  /\ UNCHANGED <<vars, secret, auditVars, closed>>

\* The response redirects to a destination the policy authorizes; sensitive
\* headers are dropped when the destination changes.
Redirect(r, d) ==
  /\ peer[r] # None /\ d \in Permitted /\ redirects[r] < MaxRedirects
  /\ hop' = [hop EXCEPT ![r] = d]
  /\ peer' = [peer EXCEPT ![r] = None]
  /\ redirects' = [redirects EXCEPT ![r] = @ + 1]
  /\ secret' = IF d # hop[r] THEN secret \ {r} ELSE secret
  /\ UNCHANGED <<vars, auditVars, closed>>

Ended(r) ==
  /\ peer' = [peer EXCEPT ![r] = None]
  /\ EmitAudit
  /\ UNCHANGED <<hop, redirects, secret, closed>>

\* The timeout passes, the transport raises, redirects are exhausted, or the
\* status says that the destination is in trouble.
Fails(r) == EndFailure(r) /\ Ended(r)

\* A response is returned, or the request is refused for a reason that is not
\* the destination's health: the policy refuses an address or the target of a
\* redirect, the target is invalid, the response is too large or cannot be
\* redacted.
Succeeds(r) == EndSuccess(r) /\ Ended(r)

\* The task is cancelled: no audit event, and nothing is recorded.
Abandoned(r) ==
  /\ Cancelled(r)
  /\ peer' = [peer EXCEPT ![r] = None]
  /\ UNCHANGED <<hop, redirects, secret, auditVars, closed>>

\* aclose: later requests are rejected; those in flight fail as the pool closes.
Close ==
  /\ ~closed
  /\ closed' = TRUE
  /\ UNCHANGED <<vars, hopVars, auditVars>>

ClientNext ==
  \/ Close
  \/ \E d \in Destinations : Recover(d) /\ UNCHANGED <<hopVars, auditVars, closed>>
  \/ \E r \in Requests :
       \/ Reject(r) \/ Request(r) \/ Connect(r) \/ Fails(r) \/ Succeeds(r)
       \/ Abandoned(r)
       \/ \E d \in Destinations : Redirect(r, d)

ClientSpec == ClientInit /\ [][ClientNext]_clientVars

-----------------------------------------------------------------------------
(* Properties. *)

\* While a request is under way it is at an authorized destination, connected if at
\* all to an address that is public or permitted, whatever the name resolved to at
\* each hop; and it carries its sensitive headers only to the destination it was
\* made for, also after redirects that lead away and back (_follow_redirects).
HopsAreSafe ==
  \A r \in Requests :
    pc[r] \in {"sent", "probing"} =>
      /\ hop[r] \in Permitted /\ (r \in secret => hop[r] = DestOf[r])
      /\ peer[r] # None => peer[r].listed \/ (peer[r].global /\ peer[r].embeds \subseteq {TRUE})

\* Every request that ends, refused, failed or answered, leaves one audit event
\* or is counted in audit_failures; only cancelled requests leave none.
AuditedOnce ==
  events + lostEvents =
    Cardinality({r \in Requests : pc[r] \in {"rejected", "refused", "done"}})
=============================================================================
