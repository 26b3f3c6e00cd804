--------------------------- MODULE HttpTransport -----------------------------
(***************************************************************************)
(* The Streamable HTTP transport (adapters/streamable_http.py): start,     *)
(* drain and stop around _ProtocolASGIApp, which takes each request from   *)
(* arrival through authentication, session admission and the SDK's task to *)
(* its response, and the map of cancellation tokens that tool calls        *)
(* register in.                                                            *)
(*                                                                         *)
(* The SDK's task of a request is external; what it calls in the transport *)
(* (_call_tool, receive_with_cancellation, the response limiter) is here.  *)
(***************************************************************************)
EXTENDS HttpSessions

CONSTANTS
  Calls,          \* requests that carry tools/call
  Notifies,       \* requests that carry notifications/cancelled
  RpcIds,         \* typed JSON-RPC ids
  IdOf,           \* the id a call has, or a notification names
  MaxConcurrent,  \* bound: requests in progress at a time
  Scenarios       \* bound: the sets of requests that arrive in one behaviour

ASSUME TransportAssumptions ==
  /\ Calls \subseteq Requests /\ Notifies \subseteq Requests
  /\ IdOf \in [Calls \cup Notifies -> RpcIds]
  /\ None \notin Requests
  /\ MaxConcurrent \in Nat \ {0}
  /\ Scenarios \subseteq SUBSET Requests

VARIABLES
  phase,      \* the transport: new, starting, up, closing, stopped
  task,       \* the SDK task of each request: none, running, detached, or ended
              \* with a 2xx response (ok), another one (failed), no complete one
              \* (incomplete) or by raising
  call,       \* the tool call of each request: none, active, ended
  active,     \* _active_protocol_requests: the request registered at each key
  token,      \* requests whose _RequestCancellation is set
  entitled,   \* history: requests given up by their own caller, deadline or task
  crossed,    \* history: calls another caller named by their key
  answers,    \* response starts sent to each client
  committed,  \* requests whose limiter has committed the SDK's response
  gone        \* requests whose client can no longer be answered

signalVars == <<token, entitled, crossed>>
taskVars == <<task, call, active, signalVars>>
replyVars == <<answers, committed, gone>>
allVars == <<vars, phase, taskVars, replyVars>>

Keys == (Ids \cup {None}) \X RpcIds

TransportInit ==
  /\ SessionsInit
  /\ phase = "new"
  /\ task = [r \in Requests |-> "none"]
  /\ call = [r \in Requests |-> "none"]
  /\ active = [k \in Keys |-> None]
  /\ token = {} /\ entitled = {} /\ crossed = {} /\ committed = {} /\ gone = {}
  /\ answers = [r \in Requests |-> 0]

\* _send_json, or a request that ends without an answer.
Answer(r) == answers' = [answers EXCEPT ![r] = @ + 1] /\ UNCHANGED <<committed, gone>>
NoAnswer(r) == gone' = gone \cup {r} /\ UNCHANGED <<answers, committed>>

Moved(r, where) == pc' = [pc EXCEPT ![r] = where] /\ UNCHANGED <<prune, made>>
Goto(r, where) == Moved(r, where) /\ UNCHANGED leaked

-----------------------------------------------------------------------------
(* start, drain and stop.  The listener serves connections from the middle of *)
(* start until stop ends, whether or not the transport accepts requests.      *)

Serving == phase \in {"starting", "up", "closing"}
Accepting == phase = "up"

Moves(from, to) == phase \in from /\ phase' = to
Quiet == UNCHANGED <<vars, taskVars, replyVars>>

\* The listener starts, in time or not: a start that fails leaves no listener.
Start == Moves({"new"}, "starting") /\ Quiet
Started == Moves({"starting"}, "up") /\ Quiet
StartFails == Moves({"starting"}, "new") /\ Quiet

\* drain, or the first step of stop: requests are no longer accepted.
Drain == Moves({"up"}, "closing") /\ Quiet

\* stop: the listener waits for the requests, until its grace period ends; then
\* the tables are cleared under the requests that still run.
Stop ==
  /\ Moves({"closing"}, "stopped")
  /\ ClearSessions
  /\ active' = [k \in Keys |-> None]
  /\ UNCHANGED <<requestVars, task, call, signalVars, replyVars>>

-----------------------------------------------------------------------------
(* A request up to its SDK task. *)

Arrived == {r \in Requests : pc[r] # "idle"}
InProgress == {r \in Arrived : pc[r] # "done"}

\* A health or metrics request, one for another path, with invalid headers, for a
\* transport that does not accept or, in stateless mode, with a session header is
\* answered at once; any other is authenticated, which awaits.
Arrive(r) ==
  /\ Serving /\ pc[r] = "idle"
  /\ Cardinality(InProgress) < MaxConcurrent
  /\ \E scenario \in Scenarios : Arrived \cup {r} \subseteq scenario
  /\ \/ Accepting /\ (Stateless => Target[r] = None) /\ Goto(r, "auth") /\ UNCHANGED replyVars
     \/ Goto(r, "done") /\ Answer(r)
  /\ UNCHANGED <<tableVars, due, sdk, lease, phase, taskVars>>

\* The context provider refuses the request: 401.
Unauthorized(r) ==
  /\ pc[r] = "auth"
  /\ Goto(r, "done") /\ Answer(r)
  /\ UNCHANGED <<tableVars, due, sdk, lease, phase, taskVars>>

\* Admission, and the removal of swept sessions it may have to wait for.
AnswerIfDone(r) == IF pc'[r] = "done" THEN Answer(r) ELSE UNCHANGED replyVars

Enter(r) ==
  /\ Admit(r) \/ PruneOne(r)
  /\ AnswerIfDone(r)
  /\ task' = [task EXCEPT ![r] = IF pc'[r] = "running" THEN "running" ELSE @]
  /\ UNCHANGED <<phase, call, active, signalVars>>

EnterFails(r) ==
  /\ PruneFails(r)
  /\ Answer(r) \/ NoAnswer(r)
  /\ UNCHANGED <<phase, taskVars>>

-----------------------------------------------------------------------------
(* Inside the SDK task.  In stateful mode a tool call runs in the session's     *)
(* own task, so it may begin and end after its request is over.                 *)

InSdk(r) == task[r] = "running"
Live(r) == task[r] \in {"running", "incomplete", "raised", "detached"}

Creates(r) ==
  /\ InSdk(r) /\ SdkCreates(r)
  /\ UNCHANGED <<phase, taskVars, replyVars>>

\* Mutant of Key: the session is not part of the key.
KeyWithoutSession(r) == <<None, IdOf[r]>>

Key(r) == <<Target[r], IdOf[r]>>

\* The calls in progress that the caller of r names, and may cancel: its own.
Namesakes(r) == {q \in Calls : call[q] = "active" /\ Key(q) = Key(r)}
OwnCalls(r) == {q \in Calls : /\ call[q] = "active" /\ OwnerOf[q] = OwnerOf[r]
                              /\ Target[q] = Target[r] /\ IdOf[q] = IdOf[r]}

\* The token registered at the key of r, if any, is signalled.
SignalKey(r) ==
  /\ token' = token \cup ({active[Key(r)]} \ {None})
  /\ entitled' = entitled \cup OwnCalls(r)
  /\ crossed' = crossed \cup (Namesakes(r) \ OwnCalls(r))

SignalOwn(r) ==
  /\ token' = token \cup {r}
  /\ entitled' = entitled \cup {r}
  /\ UNCHANGED crossed

\* _call_tool up to its await: a token already registered at the key is
\* cancelled and replaced.  After stop there is no endpoint to call.
CallTool(r) ==
  /\ r \in Calls /\ Live(r) /\ call[r] = "none" /\ phase # "stopped"
  /\ call' = [call EXCEPT ![r] = "active"]
  /\ active' = [active EXCEPT ![Key(r)] = r]
  /\ SignalKey(r)
  /\ UNCHANGED <<vars, phase, task, replyVars>>

\* Mutant of CallEnds: the mapping is removed whoever owns it.
CallEndsDropsMapping(r) ==
  /\ call[r] = "active"
  /\ call' = [call EXCEPT ![r] = "ended"]
  /\ active' = [active EXCEPT ![Key(r)] = None]
  /\ UNCHANGED <<vars, phase, task, signalVars, replyVars>>

\* The call ends, also by an exception: the finally removes the mapping if it
\* is still this request's.
CallEnds(r) ==
  /\ call[r] = "active"
  /\ call' = [call EXCEPT ![r] = "ended"]
  /\ active' = IF active[Key(r)] = r THEN [active EXCEPT ![Key(r)] = None]
                                     ELSE active
  /\ UNCHANGED <<vars, phase, task, signalVars, replyVars>>

\* receive_with_cancellation: a complete notifications/cancelled body signals
\* the token at the key it names; a disconnect signals the request's own.
Notify(r) ==
  /\ r \in Notifies /\ InSdk(r)
  /\ SignalKey(r)
  /\ UNCHANGED <<vars, phase, task, call, active, replyVars>>

Disconnect(r) ==
  /\ InSdk(r)
  /\ SignalOwn(r)
  /\ NoAnswer(r)
  /\ UNCHANGED <<vars, phase, task, call, active>>

\* The task ends with a complete response in the limiter, without one, or by
\* raising: the response exceeds its limit, or the SDK fails.
Outcomes == {"ok", "failed", "incomplete", "raised"}

SdkEnds(r) ==
  /\ InSdk(r)
  /\ \E how \in Outcomes : task' = [task EXCEPT ![r] = how]
  /\ UNCHANGED <<vars, phase, call, active, signalVars, replyVars>>

-----------------------------------------------------------------------------
(* The end of a request. *)

\* The request gives its SDK task up: the token is set, the task cancelled and
\* kept as a detached stream, the limiter discards what it still sends.
DetachTask(r) ==
  /\ SignalOwn(r)
  /\ task' = [task EXCEPT ![r] = "detached"]
  /\ UNCHANGED <<call, active>>

\* Giving a lease back raises on underflow, and when the last request of an expired
\* session cannot terminate it.
AbortRaises(r) ==
  \/ lease[r] = "reserved" /\ Underflow
  \/ SdkMayFail /\ lease[r] \in Ids /\ record[lease[r]] = "expired" /\ inFlight[lease[r]] <= 1

\* Mutant of StreamTimeout: a cancelled request waits for its task.
StreamTimeoutUnlessCancelled(r) ==
  /\ InSdk(r) /\ r \notin token
  /\ AbortSession(r) /\ DetachTask(r)
  /\ Goto(r, "done") /\ Answer(r)
  /\ UNCHANGED phase

\* max_stream_seconds pass first: the 504 begins, or if giving the lease back
\* raises the request ends with 500.
StreamTimeout(r) ==
  /\ InSdk(r)
  /\ AbortSession(r) /\ DetachTask(r)
  /\ \/ (lease[r] = "reserved" => ~Underflow) /\ Goto(r, "sending")
     \/ AbortRaises(r) /\ Goto(r, "done")
  /\ Answer(r)
  /\ UNCHANGED phase

\* The request has taken the outcome of its SDK task.  After a complete response
\* it is over; otherwise the session's own task may go on with the call.
TakenAs(r, rest) ==
  /\ task' = [task EXCEPT ![r] = rest]
  /\ UNCHANGED <<call, active, signalVars>>

\* The server (external) cancels the tasks of requests that outlast the grace
\* period of its shutdown, at any await.
CancelTask(r) ==
  /\ phase = "closing"
  /\ \/ pc[r] = "running" /\ AbortSession(r)
        /\ IF task[r] = "running" THEN DetachTask(r) ELSE TakenAs(r, "detached")
     \/ pc[r] \in {"auth", "sending"}
        /\ UNCHANGED <<tableVars, due, sdk, lease, taskVars>>
  /\ Goto(r, "done") /\ NoAnswer(r)
  /\ UNCHANGED phase

\* The SDK task is over.  If it raised: 500.  If the request was cancelled:
\* nothing is sent, unless giving the lease back raises.
SettleRaised(r) ==
  /\ task[r] = "raised"
  /\ AbortSession(r) /\ TakenAs(r, "detached")
  /\ Goto(r, "done") /\ Answer(r)
  /\ UNCHANGED phase

SettleCancelled(r) ==
  /\ task[r] \in {"ok", "failed", "incomplete"} /\ r \in token
  /\ AbortSession(r) /\ TakenAs(r, "detached")
  /\ Goto(r, "done")
  /\ \/ (lease[r] = "reserved" => ~Underflow) /\ NoAnswer(r)
     \/ AbortRaises(r) /\ Answer(r)
  /\ UNCHANGED phase

\* Otherwise complete_session, which may raise, and then flush commits the
\* response and sends its start.
Settle(r) ==
  /\ task[r] \in {"ok", "failed"} /\ r \notin token
  /\ LET ok == task[r] = "ok" IN
       /\ CompleteReserved(r, ok) \/ CompleteSession(r, ok)
       /\ \/ /\ ~CompletionRaises(r, ok)
             /\ Goto(r, "sending") /\ committed' = committed \cup {r}
          \/ /\ CompletionRaises(r, ok) \/ SdkMayFail
             /\ Goto(r, "done") /\ UNCHANGED committed
  /\ answers' = [answers EXCEPT ![r] = @ + 1]
  /\ TakenAs(r, "none")
  /\ UNCHANGED <<phase, gone>>

\* Without a complete response complete_session or flush raises: 500.  What
\* complete_session has not given back by then is not given back at all, since
\* the request counts its lease as completed.
SettleIncomplete(r) ==
  /\ task[r] = "incomplete" /\ r \notin token
  /\ IF CompletionNeedsResponse(r)
       THEN KeepLease(r) /\ Moved(r, "done")
       ELSE CompleteSession(r, FALSE) /\ Goto(r, "done")
  /\ Answer(r) /\ TakenAs(r, "detached")
  /\ UNCHANGED phase

SdkOver(r) == SettleRaised(r) \/ SettleCancelled(r) \/ Settle(r) \/ SettleIncomplete(r)

\* The rest of the response is sent.
Sent(r) ==
  /\ pc[r] = "sending"
  /\ Goto(r, "done")
  /\ UNCHANGED <<tableVars, due, sdk, lease, phase, taskVars, replyVars>>

\* Mutant of Recover: the error handler answers although the response started.
RecoverAnyway(r) == Answer(r)

\* An exception while sending: the handler answers unless the response is
\* committed, which the SDK's is before its first send; the 504 never is.
Recover(r) == IF r \in committed THEN UNCHANGED replyVars ELSE Answer(r)

SendRaises(r) ==
  /\ pc[r] = "sending"
  /\ Goto(r, "done") /\ Recover(r)
  /\ UNCHANGED <<tableVars, due, sdk, lease, phase, taskVars>>

-----------------------------------------------------------------------------
TransportNext ==
  \/ Start \/ Started \/ StartFails \/ Drain \/ Stop
  \/ \E s \in Ids : Expire(s) /\ UNCHANGED <<phase, taskVars, replyVars>>
  \/ \E r \in Requests :
       \/ Arrive(r) \/ Unauthorized(r) \/ Enter(r) \/ EnterFails(r)
       \/ Creates(r) \/ CallTool(r) \/ CallEnds(r) \/ Notify(r) \/ Disconnect(r)
       \/ SdkEnds(r)
       \/ StreamTimeout(r) \/ CancelTask(r)
       \/ SdkOver(r)
       \/ Sent(r) \/ SendRaises(r)

\* While there is one, the loop resumes some request whose SDK task is over, whose
\* stream time has passed or whose answer is on its way; nothing is assumed of the
\* SDK or the handlers.
Fairness ==
  WF_allVars(\E r \in Requests : StreamTimeout(r) \/ SdkOver(r) \/ Sent(r))

TransportSpec == TransportInit /\ [][TransportNext]_allVars /\ Fairness

-----------------------------------------------------------------------------
(* Properties. *)

\* However many initializations, expiries, releases and a stop overlap, sessions and
\* reservations never exceed max_sessions and every session in the table exists in
\* the SDK.  Until stop, reservations and references are exactly those of the
\* requests being served and of those stranded: no path that ends a request loses
\* one or gives one back twice, except the two that keep it, a failed removal of
\* expired sessions in admission and an SDK task without a complete response.
SessionsAccounted ==
  /\ WithinCapacity /\ TableInSdk /\ StrandedAsKnown
  /\ phase # "stopped" => ReservationsExact /\ ReferencesExact

\* A registered token belongs to a call in progress, and the newest call of a
\* key that nobody has cancelled is the one registered: ends of superseded
\* calls, in any order, neither leave a mapping behind nor remove a newer one.
TokensExact ==
  /\ \A k \in Keys : active[k] # None => call[active[k]] = "active" /\ Key(active[k]) = k
  /\ phase # "stopped" => \A r \in Calls :
       call[r] = "active" /\ r \notin token => active[Key(r)] = r

\* A request is cancelled only by its own side: its caller disconnects, sends
\* the notification or reuses the id on the same session, or its own deadline or
\* task ends.  Only a call without a session can also be cancelled by another
\* caller, one that uses its JSON-RPC id without a session too.
CancelledByOwnCaller ==
  /\ token \subseteq entitled \cup crossed
  /\ \A r \in crossed : Target[r] = None

\* A committed response is the only one its client gets, also when sending fails
\* halfway or a detached task goes on.  A second one is begun only where the 504 of
\* a request that was given up could not be sent, and a request that ends without
\* any had been given up.
AnsweredOnce ==
  \A r \in Requests :
    /\ r \in committed => answers[r] = 1
    /\ answers[r] <= 2
    /\ answers[r] = 2 => task[r] = "detached" /\ r \in entitled
    /\ pc[r] = "done" /\ answers[r] = 0 => r \in gone

\* A request that reaches the SDK ends, although handlers and the SDK never do.  Each
\* request is there once, so in the end none is there any more.
RequestsEnd == <>[](\A r \in Requests : pc[r] \notin {"running", "sending"})
=============================================================================
