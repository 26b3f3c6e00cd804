----------------------------- MODULE Application -----------------------------
(***************************************************************************)
(* Application.invoke during graceful shutdown: the calls of Execution     *)
(* composed with the in-flight tracker (_InvocationLifecycle) and the      *)
(* drain and stop that Application.run performs in turn (application.py).  *)
(*                                                                         *)
(* The application is ready at the start (Lifecycle covers startup and the *)
(* hooks of other components, which are one step here).  The tracked tasks *)
(* are the callers between begin and finish: InFlight.                     *)
(***************************************************************************)
EXTENDS Execution

CONSTANT
  TransportCancels   \* calls whose task the transport may cancel, once each

ASSUME ApplicationAssumptions == TransportCancels \subseteq Calls

VARIABLES
  appState,     \* LifecycleState
  op,        \* where drain and then stop are
  joining,   \* the tasks _cancel_calls gathers
  toCancel   \* callers with a CancelledError to be delivered

appVars == <<appState, op, joining, toCancel>>
allVars == <<vars, appVars>>

AppInit ==
  /\ Init
  /\ appState = "ready" /\ op = "serving" /\ joining = {} /\ toCancel = {}

-----------------------------------------------------------------------------
(* Calls. *)

\* invoke answers "unavailable" unless the application is ready; a ready
\* application registers the call and executes it.
Invoke(c) ==
  /\ IF appState = "ready"
       THEN Execute(c)
       ELSE /\ caller[c] = "idle"
            /\ caller' = [caller EXCEPT ![c] = "returned"]
            /\ result' = [result EXCEPT ![c] = "unavailable"]
            /\ UNCHANGED <<branch, linked, taskCancels, workVars, signalVars,
                           cancelling, detached>>
  /\ UNCHANGED appVars

\* A caller goes on where it waited, unless a CancelledError is due.
Proceed(c) ==
  /\ c \notin toCancel
  /\ Resume(c) \/ AfterYield(c) \/ GraceEnds(c) \/ Return(c)
  /\ UNCHANGED appVars

\* The CancelledError is raised in the caller.
Interrupted(c) ==
  /\ c \in toCancel
  /\ TaskCancelled(c)
  /\ toCancel' = toCancel \ {c}
  /\ UNCHANGED <<appState, op, joining>>

\* The transport cancels the task that awaits invoke (stream timeout,
\* disconnect).
TransportCancel(c) ==
  /\ c \in TransportCancels \ toCancel /\ c \in InFlight /\ taskCancels[c] = 0
  /\ toCancel' = toCancel \cup {c}
  /\ UNCHANGED <<vars, appState, op, joining>>

-----------------------------------------------------------------------------
(* Drain and stop. *)

\* Mutants of CancelCalls and Joined: the tasks are gathered but not cancelled;
\* they are cancelled but not awaited.
GatherOnly == joining' = InFlight /\ UNCHANGED toCancel
NotAwaited == TRUE

\* _cancel_calls: cancel every tracked task and gather them.
CancelCalls ==
  /\ joining' = InFlight
  /\ toCancel' = toCancel \cup InFlight

Joined == joining \cap InFlight = {}

\* drain: the state changes, the transport refuses new requests, and the
\* tracker waits for its tasks.
BeginDrain ==
  /\ op = "serving"
  /\ appState' = "draining"
  /\ op' = IF InFlight = {} THEN "drain_rest" ELSE "drain_calls"
  /\ UNCHANGED <<vars, joining, toCancel>>

\* The tracker's _empty event is set: the other components drain.
CallsDrained ==
  /\ op = "drain_calls" /\ InFlight = {}
  /\ op' = "drain_rest"
  /\ UNCHANGED <<vars, appState, joining, toCancel>>

\* The drain deadline passes.  In the tracker's hook the calls are cancelled
\* and gathered before the CancelledError goes on; elsewhere drain just ends.
DrainDeadline ==
  /\ \/ op = "drain_calls" /\ CancelCalls /\ op' = "drain_join"
     \/ op = "drain_rest" /\ op' = "drained" /\ UNCHANGED <<joining, toCancel>>
  /\ UNCHANGED <<vars, appState>>

DrainEnds ==
  /\ op = "drain_rest" \/ (op = "drain_join" /\ Joined)
  /\ op' = "drained"
  /\ UNCHANGED <<vars, appState, joining, toCancel>>

\* stop: the transport stops, then the tracker cancels what is left.
BeginStopping ==
  /\ op = "drained"
  /\ CancelCalls
  /\ op' = "stop_join"
  /\ UNCHANGED <<vars, appState>>

\* The other components stop, and the application is stopped.
StopEnds ==
  /\ op = "stop_join" /\ Joined
  /\ op' = "ended" /\ appState' = "stopped"
  /\ UNCHANGED <<vars, joining, toCancel>>

\* The stop deadline passes: cancelling the gather cancels its tasks again, and
\* stop fails once they have ended, without having reached "stopped".
StopDeadline ==
  /\ op = "stop_join"
  /\ toCancel' = toCancel \cup (joining \cap InFlight)
  /\ op' = "stop_late"
  /\ UNCHANGED <<vars, appState, joining>>

StopFails ==
  /\ op = "stop_late" /\ Joined
  /\ op' = "ended"
  /\ UNCHANGED <<vars, appState, joining, toCancel>>

ShutdownStep ==
  \/ CallsDrained \/ DrainDeadline \/ DrainEnds \/ BeginStopping \/ StopEnds
  \/ StopFails

AppNext ==
  \/ \E c \in Calls :
       \/ Invoke(c) \/ Proceed(c) \/ Interrupted(c) \/ TransportCancel(c)
       \/ (WorkStep(c) \/ CancelToken(c) \/ DeadlinePasses(c)) /\ UNCHANGED appVars
  \/ BeginDrain \/ StopDeadline \/ ShutdownStep

AppSpec == AppInit /\ [][AppNext]_allVars

\* What may be relied on: the loop resumes the tasks that can run and the drain
\* deadline passes.  Handlers and authorizers may hang and calls need no deadline.
AppProgress ==
  \/ ShutdownStep
  \/ \E c \in Calls : Proceed(c) \/ Interrupted(c) \/ (StartWork(c) /\ UNCHANGED appVars)

-----------------------------------------------------------------------------
(* Properties. *)

\* Drain returns, in time or at its deadline, only when every accepted call has
\* been answered, and no call registers afterwards although the listener and
\* the tracker close one after the other.
DrainJoinsCalls ==
  op \in {"drain_rest", "drained", "stop_join", "stop_late", "ended"} => InFlight = {}

\* After shutdown no handler runs that detached_invocations does not count:
\* a call that outlives its drain deadline is cancelled and joined, or detached.
ShutdownLeavesNoOrphan ==
  op = "ended" =>
    \A c \in Calls : work[c] \in {"none", "done"} \/ c \in detached

\* Shutdown ends although handlers may suppress every cancellation: the join
\* of the tracker has no timer of its own, each call's grace period bounds it.
ShutdownEnds == op = "drain_calls" ~> op = "ended"
=============================================================================
