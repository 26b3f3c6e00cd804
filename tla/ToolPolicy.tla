----------------------------- MODULE ToolPolicy ------------------------------
(***************************************************************************)
(* The default-deny authorizer ToolPolicy (policy.py): concurrent calls    *)
(* are checked against the rules, the scopes, the idempotency requirement  *)
(* and an approval record, and every decision is appended to an audit      *)
(* sink.  Between fetch and consume of an approval other calls run.        *)
(*                                                                         *)
(* An action fingerprint binds tenant, subject, tool, tool contract and    *)
(* arguments: two calls have the same fingerprint only if they agree on    *)
(* all of them.  The approval store and the audit sink are external.       *)
(***************************************************************************)
EXTENDS Naturals, FiniteSets, PythonNone

CONSTANTS
  Calls,
  Approvals,     \* approval identifiers
  Actions,       \* action fingerprints
  ActionOf,      \* the action each call asks for
  ClaimOf,       \* context.approval_id of each call, or None
  RecordFor,     \* the action each approval record is bound to
  OneTime,       \* approvals with use ONE_TIME
  Exported,      \* calls of tools with an active rule
  InScope,       \* calls whose authority covers required_scopes
  Keyed,         \* calls of READ tools, or with an idempotency key
  Guarded        \* calls of tools whose approval is REQUIRED

ASSUME PolicyAssumptions ==
  /\ ActionOf \in [Calls -> Actions]
  /\ ClaimOf \in [Calls -> Approvals \cup {None}]
  /\ RecordFor \in [Approvals -> Actions]
  /\ OneTime \subseteq Approvals
  /\ {Exported, InScope, Keyed, Guarded} \subseteq SUBSET Calls
  /\ None \notin Approvals

VARIABLES
  asked,     \* where authorize is for each call, or how it ended
  audit,     \* the pairs of call and decision in the audit sink
  expired,   \* approvals whose expires_at has passed
  consumed,  \* one-time approvals the store has marked consumed
  reply,     \* the store's answer to consume, before it arrives
  spentBy    \* history: the call that consumed each approval

policyVars == <<asked, audit, expired, consumed, reply, spentBy>>

PolicyInit ==
  /\ asked = [c \in Calls |-> "idle"]
  /\ audit = {} /\ expired = {} /\ consumed = {}
  /\ reply = [c \in Calls |-> "none"]
  /\ spentBy = [a \in Approvals |-> None]

-----------------------------------------------------------------------------
(* How authorize ends.  The sink may refuse an event. *)

End(c, how, decision) ==
  /\ asked' = [asked EXCEPT ![c] = how]
  /\ audit' = audit \cup {<<c, decision>>}

Unrecorded(c, how) == asked' = [asked EXCEPT ![c] = how] /\ UNCHANGED audit

\* Mutant of Allow: a failing sink does not stop the call.
AllowUnaudited(c) == End(c, "allowed", "allowed") \/ Unrecorded(c, "allowed")

\* The last append: without its event the call is not allowed.
Allow(c) == End(c, "allowed", "allowed") \/ Unrecorded(c, "unavailable")

\* _deny keeps its error when the sink fails.
Deny(c, decision) == End(c, "denied", decision) \/ Unrecorded(c, "denied")

BackendUnavailable(c) ==
  \/ End(c, "unavailable", "policy_backend_unavailable")
  \/ Unrecorded(c, "unavailable")

-----------------------------------------------------------------------------
(* authorize *)

\* Up to the first await: the first check that fails decides.
Authorize(c) ==
  /\ asked[c] = "idle"
  /\ IF c \notin Exported THEN Deny(c, "policy_denied")
     ELSE IF c \notin InScope THEN Deny(c, "scope_denied")
     ELSE IF c \notin Keyed THEN Deny(c, "idempotency_required")
     ELSE IF c \notin Guarded THEN Allow(c)
     ELSE IF ClaimOf[c] = None THEN Deny(c, "approval_required")
     ELSE Unrecorded(c, "fetching")
  /\ UNCHANGED <<expired, consumed, reply, spentBy>>

\* Mutant of Matches: the record is not compared with the call.
MatchesAny(c) == ClaimOf[c] \notin expired

\* The record is bound to exactly this call's action and has not expired.
Matches(c) == RecordFor[ClaimOf[c]] = ActionOf[c] /\ ClaimOf[c] \notin expired

\* Mutant of RecordFetched: one-time approvals are not consumed.
RecordFetchedNoConsume(c) ==
  /\ asked[c] = "fetching"
  /\ IF Matches(c) THEN Allow(c) ELSE Deny(c, "approval_denied")
  /\ UNCHANGED <<expired, consumed, reply, spentBy>>

\* fetch fails, finds no record, or returns the record of the approval.
RecordFetched(c) ==
  /\ asked[c] = "fetching"
  /\ \/ BackendUnavailable(c)
     \/ Deny(c, "approval_denied")
     \/ Matches(c) /\ ClaimOf[c] \in OneTime /\ Unrecorded(c, "consuming")
     \/ Matches(c) /\ ClaimOf[c] \notin OneTime /\ Allow(c)
  /\ UNCHANGED <<expired, consumed, reply, spentBy>>

\* The store compares and consumes atomically.
StoreConsumes(c) ==
  /\ asked[c] = "consuming" /\ reply[c] = "none"
  /\ IF ClaimOf[c] \in consumed \/ RecordFor[ClaimOf[c]] # ActionOf[c]
       THEN /\ reply' = [reply EXCEPT ![c] = "no"]
            /\ UNCHANGED <<consumed, spentBy>>
       ELSE /\ reply' = [reply EXCEPT ![c] = "yes"]
            /\ consumed' = consumed \cup {ClaimOf[c]}
            /\ spentBy' = [spentBy EXCEPT ![ClaimOf[c]] = c]
  /\ UNCHANGED <<asked, audit, expired>>

\* The answer to consume arrives, or consume raises, before or after the store
\* has done its part.
Consumed(c) ==
  /\ asked[c] = "consuming"
  /\ \/ BackendUnavailable(c)
     \/ reply[c] = "yes" /\ Allow(c)
     \/ reply[c] = "no" /\ Deny(c, "approval_denied")
  /\ UNCHANGED <<expired, consumed, reply, spentBy>>

\* The call is cancelled while it awaits the store.
AuthorizeCancelled(c) ==
  /\ asked[c] \in {"fetching", "consuming"}
  /\ Unrecorded(c, "cancelled")
  /\ UNCHANGED <<expired, consumed, reply, spentBy>>

Expire(a) ==
  /\ a \notin expired
  /\ expired' = expired \cup {a}
  /\ UNCHANGED <<asked, audit, consumed, reply, spentBy>>

PolicyNext ==
  \/ \E a \in Approvals : Expire(a)
  \/ \E c \in Calls :
       Authorize(c) \/ RecordFetched(c) \/ StoreConsumes(c) \/ Consumed(c) \/ AuthorizeCancelled(c)

PolicySpec == PolicyInit /\ [][PolicyNext]_policyVars

-----------------------------------------------------------------------------
(* Properties. *)

Allowed == {c \in Calls : asked[c] = "allowed"}

\* A one-time approval allows at most one call, however many calls that claim
\* it pass the checks of their fetch before the first one consumes it.
OneUsePerApproval ==
  \A a \in OneTime : Cardinality({c \in Allowed \cap Guarded : ClaimOf[c] = a}) <= 1

\* The calls that are allowed are exactly the calls the audit trail says were
\* allowed: a call whose event was lost is not run, and no call that is refused
\* after its approval was spent is reported as allowed.
AllowedIsAudited == Allowed = {c \in Calls : <<c, "allowed">> \in audit}

\* What runs under an approval, one-time or reusable, is the approved action; a
\* one-time approval is only spent by a call for it, and that call is never told
\* it was denied.
ApprovalBindsAction ==
  /\ \A c \in Allowed \cap Guarded :
       ClaimOf[c] # None /\ RecordFor[ClaimOf[c]] = ActionOf[c]
  /\ \A a \in consumed :
       ActionOf[spentBy[a]] = RecordFor[a] /\ asked[spentBy[a]] # "denied"
=============================================================================
