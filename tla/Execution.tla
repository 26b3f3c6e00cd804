------------------------------ MODULE Execution ------------------------------
(***************************************************************************)
(* One application's tool calls: ExecutionController (execution.py) with   *)
(* the pipeline of Application.invoke and Application._invoke that it runs *)
(* (application.py).                                                       *)
(*                                                                         *)
(* Every call has two asyncio tasks.  The CALLER is the task that awaits   *)
(* Application.invoke; it creates the WORK task, which runs _invoke: input *)
(* validation, admission to the bulkhead, authorization, the handler with  *)
(* its retries.  An action is the code between two suspension points of    *)
(* one of the tasks.  Time is abstracted to events: a call's deadline      *)
(* passes, a grace timer fires.                                            *)
(***************************************************************************)
EXTENDS Naturals, FiniteSets

CONSTANTS
  Calls,          \* invocations; each one runs at most once
  Tools, Tenants,
  ToolOf,         \* the tool each call names
  TenantOf,       \* the verified tenant of each call
  RetrySafe,      \* calls of READ tools, or with a required idempotency key
  MaxGlobal, MaxServer, MaxTool, MaxTenant,   \* ExecutionLimits
  MaxAttempts,    \* ExecutionLimits.max_attempts
  MaxTaskCancels  \* bound: task.cancel() calls another actor makes per caller

\* The limits the controller accepts; sizes and durations are outcomes and events.
ExecutionLimits ==
  {MaxGlobal, MaxServer, MaxTool, MaxTenant, MaxAttempts} \subseteq Nat \ {0}

ASSUME ExecutionAssumptions ==
  /\ ToolOf \in [Calls -> Tools]
  /\ TenantOf \in [Calls -> Tenants]
  /\ RetrySafe \subseteq Calls
  /\ ExecutionLimits
  /\ MaxTaskCancels \in Nat

VARIABLES
  caller,      \* where the caller task of each call is
  branch,      \* the branch of execute that is running _stop(work)
  work,        \* where the work task of each call is
  attempt,     \* handler attempts started
  outcome,     \* what the work task ended with
  result,      \* the InvocationResult of the call
  leased,      \* calls whose work holds an _ExecutionLease
  active, byTool, byTenant,   \* the bulkhead's counters
  token,       \* calls whose caller cancellation is set
  linked,      \* calls whose _LinkedCancellation was set locally
  expired,     \* calls whose deadline has passed
  cancelling,  \* work tasks with a CancelledError to be delivered
  detached,    \* the _detached set
  taskCancels  \* task.cancel() calls made on the caller so far

workVars == <<work, attempt, outcome, leased, active, byTool, byTenant>>
callerVars == <<caller, branch, result, linked, taskCancels>>
signalVars == <<token, expired>>
vars == <<workVars, callerVars, signalVars, cancelling, detached>>

Codes == {"success", "invalid_input", "overloaded", "failure",
          "result_too_large", "timeout", "cancelled", "unavailable"}

Running == {"authorize", "handler", "backoff"}

InFlight == {c \in Calls : caller[c] \in {"waiting", "yield", "grace", "closing"}}

RunningWork == {c \in Calls : work[c] \in Running}

Attempts(c) == IF c \in RetrySafe THEN MaxAttempts ELSE 1

Init ==
  /\ caller = [c \in Calls |-> "idle"]
  /\ branch = [c \in Calls |-> "none"]
  /\ work = [c \in Calls |-> "none"]
  /\ attempt = [c \in Calls |-> 0]
  /\ outcome = [c \in Calls |-> "none"]
  /\ result = [c \in Calls |-> "none"]
  /\ leased = {}
  /\ active = 0
  /\ byTool = [t \in Tools |-> 0]
  /\ byTenant = [t \in Tenants |-> 0]
  /\ token = {} /\ linked = {} /\ expired = {}
  /\ cancelling = {} /\ detached = {}
  /\ taskCancels = [c \in Calls |-> 0]

-----------------------------------------------------------------------------
(* The bulkhead: admit and release. *)

\* Mutant of AtLimit: each limit admits one call too many.
AtLimitOffByOne(c) ==
  \/ active > MaxGlobal
  \/ active > MaxServer
  \/ byTool[ToolOf[c]] > MaxTool
  \/ byTenant[TenantOf[c]] > MaxTenant

AtLimit(c) ==
  \/ active >= MaxGlobal
  \/ active >= MaxServer
  \/ byTool[ToolOf[c]] >= MaxTool
  \/ byTenant[TenantOf[c]] >= MaxTenant

Admit(c) ==
  /\ ~AtLimit(c)
  /\ active' = active + 1
  /\ byTool' = [byTool EXCEPT ![ToolOf[c]] = @ + 1]
  /\ byTenant' = [byTenant EXCEPT ![TenantOf[c]] = @ + 1]
  /\ leased' = leased \cup {c}

\* Mutant of Release: the tenant's counter is forgotten.
ReleaseKeepsTenant(c) ==
  /\ active' = active - 1
  /\ byTool' = [byTool EXCEPT ![ToolOf[c]] = @ - 1]
  /\ UNCHANGED byTenant
  /\ leased' = leased \ {c}

\* _decrement drops a key whose count reaches 0, and admit reads an absent key
\* as 0: the counters are total functions here.
Release(c) ==
  /\ active' = active - 1
  /\ byTool' = [byTool EXCEPT ![ToolOf[c]] = @ - 1]
  /\ byTenant' = [byTenant EXCEPT ![TenantOf[c]] = @ - 1]
  /\ leased' = leased \ {c}

-----------------------------------------------------------------------------
(* The work task. *)

\* The task ends with o; a detached task's done callback discards it.
EndWork(c, o) ==
  /\ work' = [work EXCEPT ![c] = "done"]
  /\ outcome' = [outcome EXCEPT ![c] = o]
  /\ detached' = detached \ {c}

\* _invoke up to its first await: the input is refused, the bulkhead is full,
\* or the work is admitted and authorization begins.
StartWork(c) ==
  /\ work[c] = "created"
  /\ \/ /\ EndWork(c, "invalid_input")
        /\ UNCHANGED <<leased, active, byTool, byTenant>>
     \/ /\ AtLimit(c)
        /\ EndWork(c, "overloaded")
        /\ UNCHANGED <<leased, active, byTool, byTenant>>
     \/ /\ Admit(c)
        /\ work' = [work EXCEPT ![c] = "authorize"]
        /\ UNCHANGED <<outcome, detached>>
  /\ UNCHANGED <<attempt, callerVars, signalVars, cancelling>>

\* The finally of _invoke releases the lease, whatever ends the work.
FinishWork(c, o) ==
  /\ EndWork(c, o)
  /\ Release(c)
  /\ UNCHANGED <<attempt, cancelling>>

BeginAttempt(c) ==
  /\ work' = [work EXCEPT ![c] = "handler"]
  /\ attempt' = [attempt EXCEPT ![c] = @ + 1]
  /\ UNCHANGED <<outcome, leased, active, byTool, byTenant, cancelling, detached>>

\* authorize returns, and retry starts the first attempt at once, or it raises.
Authorize(c) ==
  /\ work[c] = "authorize" /\ c \notin cancelling
  /\ BeginAttempt(c) \/ FinishWork(c, "failure")
  /\ UNCHANGED <<callerVars, signalVars>>

\* The handler returns and its output fits or is too large, or it raises an
\* error that retry does not call transient.
HandlerEnds(c) ==
  /\ work[c] = "handler" /\ c \notin cancelling
  /\ \E o \in {"success", "result_too_large", "failure"} : FinishWork(c, o)
  /\ UNCHANGED <<callerVars, signalVars>>

\* The handler raises a transient error: the last attempt's error is the
\* outcome, a delay that would reach the deadline is a TimeoutError.
HandlerTransient(c) ==
  /\ work[c] = "handler" /\ c \notin cancelling
  /\ \/ attempt[c] = Attempts(c) /\ FinishWork(c, "failure")
     \/ attempt[c] # Attempts(c) /\ FinishWork(c, "timeout")
     \/ /\ attempt[c] # Attempts(c) /\ c \notin expired
        /\ work' = [work EXCEPT ![c] = "backoff"]
        /\ UNCHANGED <<attempt, outcome, leased, active, byTool, byTenant,
                       cancelling, detached>>
  /\ UNCHANGED <<callerVars, signalVars>>

\* Mutant of BackoffEnds: the cancellation is not read after the sleep.
BackoffIgnoresCancel(c) ==
  /\ work[c] = "backoff" /\ c \notin cancelling
  /\ BeginAttempt(c)
  /\ UNCHANGED <<callerVars, signalVars>>

\* The back-off sleep ends: context.cancelled is read before the next attempt.
BackoffEnds(c) ==
  /\ work[c] = "backoff" /\ c \notin cancelling
  /\ IF c \in linked \cup token THEN FinishWork(c, "cancelled")
                                ELSE BeginAttempt(c)
  /\ UNCHANGED <<callerVars, signalVars>>

\* A CancelledError reaches the work.  It ends the task, except where
\* product code (the authorizer, the handler) suppresses it.
DeliverCancel(c) ==
  /\ c \in cancelling /\ work[c] \in Running
  /\ cancelling' = cancelling \ {c}
  /\ \/ EndWork(c, "cancelled") /\ Release(c) /\ UNCHANGED attempt
     \/ work[c] \in {"authorize", "handler"} /\ UNCHANGED <<workVars, detached>>
  /\ UNCHANGED <<callerVars, signalVars>>

WorkStep(c) ==
  \/ StartWork(c) \/ Authorize(c) \/ HandlerEnds(c) \/ HandlerTransient(c)
  \/ BackoffEnds(c) \/ DeliverCancel(c)

-----------------------------------------------------------------------------
(* The caller task: execute and _stop. *)

\* execute starts: a call that is cancelled or late is refused before any work
\* exists; otherwise the work task is created and the caller waits.
Execute(c) ==
  /\ caller[c] = "idle"
  /\ IF c \in token \cup expired
       THEN /\ caller' = [caller EXCEPT ![c] = "returned"]
            /\ result' = [result EXCEPT ![c] =
                            IF c \in token THEN "cancelled" ELSE "timeout"]
            /\ UNCHANGED work
       ELSE /\ caller' = [caller EXCEPT ![c] = "waiting"]
            /\ work' = [work EXCEPT ![c] = "created"]
            /\ UNCHANGED result
  /\ UNCHANGED <<branch, linked, taskCancels, attempt, outcome, leased, active,
                 byTool, byTenant, signalVars, cancelling, detached>>

\* The finally of execute: the helper tasks are cancelled and awaited.
Closing(c, r) ==
  /\ caller' = [caller EXCEPT ![c] = "closing"]
  /\ result' = [result EXCEPT ![c] = r]

\* linked.cancel() and the start of _stop(work) in branch b: work that is done
\* is only collected; otherwise the loop runs once before the task is cancelled.
BeginStop(c, b) ==
  /\ linked' = linked \cup {c}
  /\ branch' = [branch EXCEPT ![c] = b]
  /\ IF work[c] = "done"
       THEN Closing(c, IF b = "deadline" THEN "timeout" ELSE "cancelled")
       ELSE caller' = [caller EXCEPT ![c] = "yield"] /\ UNCHANGED result

\* asyncio.wait returns.  The loop runs the work's first step before the
\* caller can be resumed.  Caller cancellation is looked at first, then the
\* deadline, then the work's result.
Resume(c) ==
  /\ caller[c] = "waiting" /\ work[c] # "created"
  /\ c \in token \cup expired \/ work[c] = "done"
  /\ IF c \in token THEN BeginStop(c, "cancel")
     ELSE IF c \in expired THEN BeginStop(c, "deadline")
     ELSE Closing(c, outcome[c]) /\ UNCHANGED <<linked, branch>>
  /\ UNCHANGED <<taskCancels, workVars, signalVars, cancelling, detached>>

StopResult(c) == IF branch[c] = "deadline" THEN "timeout" ELSE "cancelled"

\* After asyncio.sleep(0): work that is still running is cancelled.
AfterYield(c) ==
  /\ caller[c] = "yield"
  /\ IF work[c] = "done"
       THEN Closing(c, StopResult(c)) /\ UNCHANGED cancelling
       ELSE /\ caller' = [caller EXCEPT ![c] = "grace"]
            /\ cancelling' = cancelling \cup {c}
            /\ UNCHANGED result
  /\ UNCHANGED <<branch, linked, taskCancels, workVars, signalVars, detached>>

\* Mutants of GraceEnds: the work is not added to _detached; its lease is
\* released with it; the wait has no timer.
GraceForgetsWork(c) ==
  /\ caller[c] = "grace"
  /\ Closing(c, StopResult(c))
  /\ UNCHANGED <<branch, linked, taskCancels, workVars, signalVars, cancelling,
                 detached>>

GraceReleasesLease(c) ==
  /\ caller[c] = "grace"
  /\ Closing(c, StopResult(c))
  /\ IF work[c] = "done"
       THEN UNCHANGED <<detached, leased, active, byTool, byTenant>>
       ELSE detached' = detached \cup {c} /\ Release(c)
  /\ UNCHANGED <<branch, linked, taskCancels, work, attempt, outcome, signalVars,
                 cancelling>>

GraceWaitsForWork(c) ==
  /\ caller[c] = "grace" /\ work[c] = "done"
  /\ Closing(c, StopResult(c))
  /\ UNCHANGED <<branch, linked, taskCancels, workVars, signalVars, cancelling,
                 detached>>

\* The wait for the work or the grace timer returns: work that has not ended
\* is detached.
GraceEnds(c) ==
  /\ caller[c] = "grace"
  /\ Closing(c, StopResult(c))
  /\ detached' = IF work[c] = "done" THEN detached ELSE detached \cup {c}
  /\ UNCHANGED <<branch, linked, taskCancels, workVars, signalVars, cancelling>>

\* execute ends and invoke redacts the result; a success whose value cannot be
\* redacted becomes a failure, one that grows too large is refused.
Return(c) ==
  /\ caller[c] = "closing"
  /\ caller' = [caller EXCEPT ![c] = "returned"]
  /\ \/ UNCHANGED result
     \/ /\ result[c] = "success"
        /\ \E r \in {"failure", "result_too_large"} :
             result' = [result EXCEPT ![c] = r]
  /\ UNCHANGED <<branch, linked, taskCancels, workVars, signalVars, cancelling,
                 detached>>

\* Another actor cancels the caller task (the transport gives up on the
\* request, the application drains) and the CancelledError is raised where the
\* caller waits: in asyncio.wait, in either use of _stop, or in the finally.
\* In the deadline's _stop, its last await included, it leads to a second _stop;
\* elsewhere invoke catches it and answers "cancelled".
TaskCancelled(c) ==
  /\ taskCancels[c] < MaxTaskCancels
  /\ taskCancels' = [taskCancels EXCEPT ![c] = @ + 1]
  /\ \/ caller[c] = "waiting" /\ work[c] # "created" /\ BeginStop(c, "cancel")
     \/ /\ caller[c] \in {"yield", "grace", "closing"} /\ branch[c] = "deadline"
        /\ BeginStop(c, "cancel")
     \/ /\ caller[c] \in {"yield", "grace"} /\ branch[c] = "cancel"
        /\ Closing(c, "cancelled") /\ UNCHANGED <<linked, branch>>
     \/ /\ caller[c] = "closing"
        /\ caller' = [caller EXCEPT ![c] = "returned"]
        /\ result' = [result EXCEPT ![c] = "cancelled"]
        /\ UNCHANGED <<linked, branch>>
  /\ UNCHANGED <<workVars, signalVars, cancelling, detached>>

CallerStep(c) ==
  \/ Execute(c) \/ Resume(c) \/ AfterYield(c) \/ GraceEnds(c) \/ Return(c)

-----------------------------------------------------------------------------
(* The environment: the caller's cancellation and the clock. *)

CancelToken(c) ==
  /\ caller[c] # "returned" /\ c \notin token
  /\ token' = token \cup {c}
  /\ UNCHANGED <<workVars, callerVars, expired, cancelling, detached>>

DeadlinePasses(c) ==
  /\ caller[c] # "returned" /\ c \notin expired
  /\ expired' = expired \cup {c}
  /\ UNCHANGED <<workVars, callerVars, token, cancelling, detached>>

Next ==
  \E c \in Calls :
    \/ WorkStep(c) \/ CallerStep(c) \/ TaskCancelled(c)
    \/ CancelToken(c) \/ DeadlinePasses(c)

Spec == Init /\ [][Next]_vars

\* What may be relied on: the loop starts the work and resumes the caller where it can
\* run, and the grace timer ends.  Authorizers and handlers may hang.
Progress ==
  \E c \in Calls :
    StartWork(c) \/ Resume(c) \/ AfterYield(c) \/ GraceEnds(c) \/ Return(c)

-----------------------------------------------------------------------------
(* Properties. *)

\* Every variable has its type: the states of the two tasks of each call, the
\* sets of calls, and counters that never go below zero.
TypeOK ==
  /\ caller \in [Calls -> {"idle", "waiting", "yield", "grace", "closing",
                          "returned"}]
  /\ branch \in [Calls -> {"none", "deadline", "cancel"}]
  /\ work \in [Calls -> {"none", "created", "done"} \cup Running]
  /\ attempt \in [Calls -> Nat]
  /\ outcome \in [Calls -> Codes \cup {"none"}]
  /\ result \in [Calls -> Codes \cup {"none"}]
  /\ leased \subseteq Calls
  /\ active \in Nat
  /\ byTool \in [Tools -> Nat]
  /\ byTenant \in [Tenants -> Nat]
  /\ token \subseteq Calls /\ linked \subseteq Calls /\ expired \subseteq Calls
  /\ cancelling \subseteq Calls /\ detached \subseteq Calls
  /\ taskCancels \in [Calls -> Nat]

LeasedOf(t) == {c \in leased : ToolOf[c] = t}
LeasedBy(t) == {c \in leased : TenantOf[c] = t}

\* Each counter of the bulkhead is exactly the number of leases that are held,
\* over every order of admissions, retries, cancellations and late ends: a
\* lease released twice or never would show here (admit, release, _invoke).
CountersExact ==
  /\ active = Cardinality(leased)
  /\ \A t \in Tools : byTool[t] = Cardinality(LeasedOf(t))
  /\ \A t \in Tenants : byTenant[t] = Cardinality(LeasedBy(t))

\* A lease is held exactly while the call's work runs, also when the caller has
\* long answered: the lease stays with detached work until that work exits.
LeaseFollowsWork == leased = RunningWork

\* The work that really runs, detached and orphaned work included, never
\* exceeds the process, server, tool and tenant limits.
ConcurrencyBounded ==
  /\ Cardinality(RunningWork) <= MaxGlobal
  /\ Cardinality(RunningWork) <= MaxServer
  /\ \A t \in Tools : Cardinality({c \in RunningWork : ToolOf[c] = t}) <= MaxTool
  /\ \A t \in Tenants :
       Cardinality({c \in RunningWork : TenantOf[c] = t}) <= MaxTenant

\* _detached is exact: it holds live work only, of callers that gave up and told
\* the work so, and when a call has been answered its work has ended or is in it:
\* no handler runs on that neither the caller nor detached_invocations knows of,
\* as long as nobody has cancelled the caller's task.
DetachedExact ==
  /\ \A c \in detached :
       work[c] \in Running /\ c \in linked /\ caller[c] \notin {"idle", "waiting"}
  /\ \A c \in Calls :
       caller[c] = "returned" /\ taskCancels[c] = 0
         => c \in detached \/ work[c] \in {"none", "done"}

\* A retry never starts once the caller has cancelled, the deadline branch has
\* set the linked cancellation or the call was answered.
NoRetryAfterCancel ==
  [][\A c \in Calls :
       attempt'[c] > attempt[c] /\ attempt[c] > 0
         => c \notin token \cup linked /\ caller[c] # "returned"]_vars

\* The bulkhead promises what Bulkhead specifies, with the calls that hold a
\* lease as the holders of a slot.
B == INSTANCE Bulkhead WITH holders <- leased
BulkheadRefined == B!Spec

\* A caller whose deadline has passed is answered, even if its authorizer or
\* handler hangs and suppresses cancellation for ever: one grace period bounds
\* the rest of the call (execute, _stop).
CallerAnswered ==
  \A c \in Calls :
    caller[c] = "waiting" /\ c \in expired ~> caller[c] = "returned"
=============================================================================
