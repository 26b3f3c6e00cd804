---------------------------- MODULE HttpSessions -----------------------------
(***************************************************************************)
(* The session table of the Streamable HTTP transport                      *)
(* (adapters/streamable_http.py): admission, reservations, expiry and      *)
(* release.  HttpTransport composes these actions with the requests that   *)
(* perform them.  A stateless transport, the mode for production, admits   *)
(* every request without a session and its table stays empty.              *)
(*                                                                         *)
(* The bodies of _session_lock contain no await, so each one is atomic.    *)
(* Between them a request waits for the MCP SDK, which keeps a registry of *)
(* its own.  The SDK is external: it creates a session when a request      *)
(* without a session header runs, and terminating a session may fail.      *)
(***************************************************************************)
EXTENDS Naturals, FiniteSets

CONSTANTS
  Requests,
  Ids,            \* session identifiers the SDK can generate
  Owners,         \* (tenant, issuer, subject) tuples
  OwnerOf,        \* the owner of each request
  Target,         \* the session header of each request: an id or None
  Deletes,        \* requests with method DELETE
  Versioned,      \* requests with a protocol version header
  None,
  Stateless,      \* StreamableHTTPConfig.stateless
  MaxSessions,    \* StreamableHTTPLimits.max_sessions
  SdkMayFail      \* whether terminating an SDK session may raise or be cancelled

\* The limits the transport accepts; only the number of sessions is counted here,
\* the others are events or outcomes.
StreamableHTTPLimits == MaxSessions \in Nat \ {0}

ASSUME SessionAssumptions ==
  /\ OwnerOf \in [Requests -> Owners]
  /\ Target \in [Requests -> Ids \cup {None}]
  /\ Deletes \subseteq Requests /\ Versioned \subseteq Requests
  /\ None \notin Ids /\ "reserved" \notin Ids \cup {None}
  /\ StreamableHTTPLimits
  /\ Stateless \in BOOLEAN /\ SdkMayFail \in BOOLEAN

VARIABLES
  record,     \* _sessions: the state of each id, "absent" or a record's flag
  owner,      \* the owner of each record
  inFlight,   \* the in_flight of each record
  due,        \* ids whose expires_at has passed
  pending,    \* _pending_sessions
  sdk,        \* the SDK's session registry
  pc,         \* where each request is
  lease,      \* the _SessionLease of each request: None, "reserved" or an id
  prune,      \* expired ids the request still has to remove from the SDK
  made,       \* the session the SDK created for the request
  leaked      \* history: requests that ended on a path that keeps their lease

tableVars == <<record, owner, inFlight, pending>>
requestVars == <<pc, lease, prune, made, leaked>>
vars == <<tableVars, due, sdk, requestVars>>

Table == {s \in Ids : record[s] # "absent"}

SessionsInit ==
  /\ record = [s \in Ids |-> "absent"]
  /\ owner = [s \in Ids |-> None]
  /\ inFlight = [s \in Ids |-> 0]
  /\ due = {} /\ pending = 0 /\ sdk = {}
  /\ pc = [r \in Requests |-> "idle"]
  /\ lease = [r \in Requests |-> None]
  /\ prune = [r \in Requests |-> {}]
  /\ made = [r \in Requests |-> None]
  /\ leaked = {}

\* A session's absolute lifetime ends.
Expire(s) ==
  /\ record[s] = "live" /\ s \notin due
  /\ due' = due \cup {s}
  /\ UNCHANGED <<tableVars, sdk, requestVars>>

-----------------------------------------------------------------------------
(* admit_session *)

\* Mutant of Dropped: sessions in use are dropped too.
DroppedInUse == Table \cap due

\* _expired_sessions_locked: records past their lifetime are flagged, and
\* deleted if no request uses them.
Dropped == {s \in Table \cap due : inFlight[s] = 0}

Swept == [s \in Ids |-> IF s \in Dropped THEN "absent"
                        ELSE IF s \in Table \cap due THEN "expired"
                        ELSE record[s]]

Usable(r) ==
  /\ Target[r] # None
  /\ Swept[Target[r]] = "live"
  /\ owner[Target[r]] = OwnerOf[r]

Full == Cardinality(Table \ Dropped) + pending >= MaxSessions

\* Stateless mode admits every request.  Otherwise the sweep, then the decision: a
\* known session is used, a request that names neither session nor version reserves
\* capacity for a new one, a version without a session needs none or is rejected,
\* and so is anything else (404 or 429).  The rejection is raised only after the
\* swept sessions are removed from the SDK.
Passed(verdict) == IF verdict = "admitted" THEN "running" ELSE "done"
Verdict(r, v) == pc' = [pc EXCEPT ![r] = IF Dropped = {} THEN Passed(v) ELSE v]

Admit(r) ==
  /\ pc[r] = "auth"
  /\ record' = Swept
  /\ prune' = [prune EXCEPT ![r] = Dropped]
  /\ \/ /\ Stateless
        /\ Verdict(r, "admitted")
        /\ UNCHANGED <<inFlight, pending, lease>>
     \/ /\ ~Stateless /\ Usable(r)
        /\ inFlight' = [inFlight EXCEPT ![Target[r]] = @ + 1]
        /\ lease' = [lease EXCEPT ![r] = Target[r]]
        /\ Verdict(r, "admitted")
        /\ UNCHANGED pending
     \/ /\ ~Stateless /\ Target[r] = None /\ r \notin Versioned /\ ~Full
        /\ pending' = pending + 1
        /\ lease' = [lease EXCEPT ![r] = "reserved"]
        /\ Verdict(r, "admitted")
        /\ UNCHANGED inFlight
     \/ /\ ~Stateless /\ Target[r] = None /\ r \in Versioned
        /\ Verdict(r, "admitted")
        /\ UNCHANGED <<inFlight, pending, lease>>
     \/ /\ ~Stateless
        /\ IF Target[r] = None THEN Full \/ r \in Versioned ELSE ~Usable(r)
        /\ Verdict(r, "rejected")
        /\ UNCHANGED <<inFlight, pending, lease>>
  /\ UNCHANGED <<owner, due, sdk, made, leaked>>

\* _remove_sdk_sessions: each swept session is popped from the registry and
\* terminated; after the last one admit_session returns the lease or raises the
\* rejection.  If the termination raises the request is answered with 500; if
\* the request is cancelled there it just ends.
PruneOne(r) ==
  /\ pc[r] \in {"admitted", "rejected"}
  /\ \E s \in prune[r] :
       /\ sdk' = sdk \ {s}
       /\ prune' = [prune EXCEPT ![r] = @ \ {s}]
       /\ pc' = [pc EXCEPT ![r] = IF prune[r] = {s} THEN Passed(@) ELSE @]
  /\ UNCHANGED <<tableVars, due, lease, made, leaked>>

PruneFails(r) ==
  /\ SdkMayFail
  /\ pc[r] \in {"admitted", "rejected"}
  /\ \E s \in prune[r] : sdk' = sdk \ {s}
  /\ prune' = [prune EXCEPT ![r] = {}]
  /\ pc' = [pc EXCEPT ![r] = "done"]
  /\ leaked' = leaked \cup {r}
  /\ UNCHANGED <<tableVars, due, lease, made>>

-----------------------------------------------------------------------------
(* What the end of a request does to the table. *)

\* The SDK creates a session with a fresh id for an initialization.
SdkCreates(r) ==
  /\ lease[r] = "reserved" /\ made[r] = None
  /\ \E s \in Ids \ (sdk \cup Table \cup {made[q] : q \in Requests}) :
       /\ sdk' = sdk \cup {s}
       /\ made' = [made EXCEPT ![r] = s]
  /\ UNCHANGED <<tableVars, due, pc, lease, prune, leaked>>

ReturnLease(r) == lease' = [lease EXCEPT ![r] = None]

\* _release_session: the reference is given back; the record goes when the
\* session was closed, or has expired and this was its last request.
ReleaseSession(s, remove) ==
  IF record[s] = "absent"
    THEN UNCHANGED <<record, inFlight, sdk>>
    ELSE LET left == IF inFlight[s] > 0 THEN inFlight[s] - 1 ELSE 0
             gone == remove \/ (record[s] = "expired" /\ left = 0)
         IN /\ inFlight' = [inFlight EXCEPT ![s] = IF gone THEN 0 ELSE left]
            /\ record' = [record EXCEPT ![s] = IF gone THEN "absent" ELSE @]
            /\ sdk' = IF gone THEN sdk \ {s} ELSE sdk

\* A reservation is given back; when stop has reset the count meanwhile, that
\* raises and changes nothing.
Underflow == pending = 0
Unreserve == pending' = IF Underflow THEN pending ELSE pending - 1

\* complete_session of a reserved lease registers the session of a successful
\* response in the step that gives the reservation back.  It raises on
\* underflow, and when a success cannot be registered.
Registers(r, successful) ==
  ~Underflow /\ successful /\ made[r] # None /\ made[r] \notin Table

CompletionRaises(r, successful) ==
  lease[r] = "reserved" /\ (Underflow \/ (successful /\ ~Registers(r, successful)))

CompleteReserved(r, successful) ==
  /\ lease[r] = "reserved"
  /\ Unreserve
  /\ IF Registers(r, successful)
       THEN /\ record' = [record EXCEPT ![made[r]] = "live"]
            /\ owner' = [owner EXCEPT ![made[r]] = OwnerOf[r]]
            /\ inFlight' = [inFlight EXCEPT ![made[r]] = 0]
            /\ due' = due \ {made[r]}
            /\ UNCHANGED sdk
       ELSE /\ sdk' = IF Underflow THEN sdk ELSE sdk \ {made[r]}
            /\ UNCHANGED <<record, owner, inFlight, due>>
  /\ ReturnLease(r)

\* Without a complete response neither the session id nor, for a DELETE, the
\* status can be read: complete_session raises before it gives anything back.
CompletionNeedsResponse(r) == lease[r] = "reserved" \/ (lease[r] \in Ids /\ r \in Deletes)

KeepLease(r) ==
  /\ leaked' = leaked \cup {r}
  /\ UNCHANGED <<tableVars, due, sdk, lease>>

\* complete_session of a request on a session, or without one: a successful
\* DELETE closes its session.
CompleteSession(r, successful) ==
  /\ lease[r] # "reserved"
  /\ IF lease[r] = None THEN UNCHANGED <<record, inFlight, sdk>>
                        ELSE ReleaseSession(lease[r], r \in Deletes /\ successful)
  /\ ReturnLease(r)
  /\ UNCHANGED <<owner, pending, due>>

\* Mutant of AbortSession: what the request holds is not given back.
AbortKeepsLease(r) ==
  /\ ReturnLease(r)
  /\ UNCHANGED <<tableVars, due, sdk>>

\* abort_session.
AbortSession(r) ==
  /\ \/ lease[r] = "reserved" /\ Unreserve /\ UNCHANGED <<record, inFlight, sdk>>
     \/ lease[r] \in Ids /\ ReleaseSession(lease[r], FALSE) /\ UNCHANGED pending
     \/ lease[r] = None /\ UNCHANGED <<record, inFlight, sdk, pending>>
  /\ ReturnLease(r)
  /\ UNCHANGED <<owner, due>>

\* stop empties the table, whatever requests still hold.
ClearSessions ==
  /\ record' = [s \in Ids |-> "absent"]
  /\ inFlight' = [s \in Ids |-> 0]
  /\ pending' = 0
  /\ UNCHANGED <<owner, due, sdk>>

-----------------------------------------------------------------------------
(* The parts of the accounting invariant. *)

Active == {r \in Requests : pc[r] \in {"admitted", "running"}}

\* Requests that are over and were never given back: their admission failed while
\* expired sessions were removed, or their SDK task left no complete response.
Stranded == {r \in Requests : pc[r] = "done" /\ lease[r] # None}

Holders == Active \cup Stranded

ReservationsExact ==
  pending = Cardinality({r \in Holders : lease[r] = "reserved"})

ReferencesExact ==
  \A s \in Table : inFlight[s] = Cardinality({r \in Holders : lease[r] = s})

\* Only those two paths strand a request.
StrandedAsKnown == Stranded \subseteq leaked

\* Sessions and reservations together never exceed max_sessions.
WithinCapacity == Cardinality(Table) + pending <= MaxSessions

\* Every session in the table exists in the SDK's registry: a request that is
\* admitted to a session finds it there.
TableInSdk == Table \subseteq sdk

\* While a request uses a session, only a DELETE removes that session from the
\* SDK: expiry found by another request leaves it alone.
InUseNotPruned ==
  [][\A r \in Active :
       lease[r] \in sdk /\ lease'[r] = lease[r] /\ lease[r] \notin sdk'
         => \E q \in Deletes : lease[q] = lease[r] /\ pc[q] = "running"]_vars
=============================================================================
