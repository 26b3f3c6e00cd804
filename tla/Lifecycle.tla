------------------------------ MODULE Lifecycle ------------------------------
(***************************************************************************)
(* LifecycleController (lifecycle.py) and the operations of Application    *)
(* that drive it: run, start, drain and stop, the last two under a         *)
(* deadline (application.py).                                              *)
(*                                                                         *)
(* The components 1..N start in this order.  Several owners may ask for an *)
(* operation: Runner executes Application.run, the members of Manual call  *)
(* drain and stop themselves.  The transition lock admits one operation at *)
(* a time; a hook ends with success or an Exception, or hangs.  _started   *)
(* is a prefix of the components, so its length stands for it.             *)
(***************************************************************************)
EXTENDS Naturals

CONSTANTS
  N,            \* number of components, the transport and call tracker included
  Runner,       \* the owner that executes Application.run
  Manual,       \* owners that call drain and stop directly
  ManualOps,    \* the operations the members of Manual call
  MaxOps,       \* bound: operations each member of Manual asks for
  NoOwner

Owners == Manual \cup {Runner}
Components == 1..N

ASSUME LifecycleAssumptions ==
  /\ N \in Nat \ {0}
  /\ MaxOps \in Nat
  /\ Runner \notin Manual
  /\ NoOwner \notin Owners
  /\ ManualOps \subseteq {"drain", "stop"}

VARIABLES
  state,     \* LifecycleState
  started,   \* length of _started
  holder,    \* owner whose operation holds _transition_lock
  phase, at, \* the loop the holder is in and the component whose hook runs
  failed,    \* a hook of the holder's loop has raised
  want,      \* the operation each owner awaits
  ops,       \* operations asked for by the members of Manual
  run, diag, \* progress of Application.run and its diagnostic
  up,        \* history: components whose start was reached and not yet stopped
  drained    \* history: components whose drain hook has returned or raised

lockVars == <<holder, phase, at, failed>>
runVars == <<run, diag>>
lifeVars == <<state, started, lockVars, want, ops, runVars, up, drained>>

LifeInit ==
  /\ state = "startup" /\ started = 0
  /\ holder = NoOwner /\ phase = "none" /\ at = 0 /\ failed = FALSE
  /\ want = [o \in Owners |-> IF o = Runner THEN "start" ELSE "none"]
  /\ ops = [o \in Manual |-> 0]
  /\ run = "start" /\ diag = "none"
  /\ up = {} /\ drained = {}

-----------------------------------------------------------------------------
(* What an operation's end means to the owner that awaited it. *)

\* Mutant of AfterRunStep: the last step's diagnostic replaces the first.
AfterRunStepKeepsLast(ok) ==
  /\ run' = CASE run = "start" -> IF ok THEN "signal" ELSE "exited"
              [] run = "drain" -> "stop"
              [] run = "stop"  -> "exited"
  /\ diag' = IF ok THEN "none" ELSE "drain_failed"
  /\ want' = [want EXCEPT ![Runner] = IF run = "drain" THEN "stop" ELSE "none"]

\* run keeps the first diagnostic, and goes on to drain and then stop whatever
\* the outcome, except after a failed start.
AfterRunStep(ok) ==
  /\ run' = CASE run = "start" -> IF ok THEN "signal" ELSE "exited"
              [] run = "drain" -> "stop"
              [] run = "stop"  -> "exited"
  /\ diag' = IF ok \/ diag # "none" THEN diag
             ELSE CASE run = "start" -> "startup_failed"
                    [] run = "drain" -> "drain_failed"
                    [] run = "stop"  -> "stop_failed"
  /\ want' = [want EXCEPT ![Runner] = IF run = "drain" THEN "stop" ELSE "none"]

Finish(o, ok) ==
  IF o = Runner
    THEN AfterRunStep(ok)
    ELSE want' = [want EXCEPT ![o] = "none"] /\ UNCHANGED runVars

Unlock == holder' = NoOwner /\ phase' = "none" /\ at' = 0 /\ failed' = FALSE

-----------------------------------------------------------------------------
(* Operations enter the controller. *)

\* A manual owner calls Application.drain or Application.stop.
Call(o, op) ==
  /\ o \in Manual /\ want[o] = "none" /\ ops[o] < MaxOps
  /\ want' = [want EXCEPT ![o] = op]
  /\ ops' = [ops EXCEPT ![o] = @ + 1]
  /\ UNCHANGED <<state, started, lockVars, runVars, up, drained>>

\* signals.wait returns a signal, or fails and leaves a diagnostic.
Signal ==
  /\ run = "signal"
  /\ run' = "drain"
  /\ diag' \in {"none", "signal_failed"}
  /\ want' = [want EXCEPT ![Runner] = "drain"]
  /\ UNCHANGED <<state, started, lockVars, ops, up, drained>>

Enter(o, p, i) ==
  /\ holder' = o /\ phase' = p /\ at' = i /\ failed' = FALSE
  /\ UNCHANGED <<want, runVars>>

\* _start is an error unless the controller is in startup.
AcquireStart(o) ==
  /\ holder = NoOwner /\ want[o] = "start"
  /\ IF state = "startup" THEN Enter(o, "start", 1)
                          ELSE Finish(o, FALSE) /\ UNCHANGED lockVars
  /\ UNCHANGED <<state, started, ops, up, drained>>

\* _drain returns at once when it has been done, is an error in startup, and
\* otherwise changes the state before the first hook.
AcquireDrain(o) ==
  /\ holder = NoOwner /\ want[o] = "drain"
  /\ IF state = "ready"
       THEN Enter(o, "drain", started) /\ state' = "draining"
       ELSE Finish(o, state # "startup") /\ UNCHANGED <<lockVars, state>>
  /\ UNCHANGED <<started, ops, up, drained>>

\* Mutant of AcquireStop: the components are stopped from the first one.
StopInStartOrder(o) ==
  /\ holder = NoOwner /\ want[o] = "stop"
  /\ IF state # "stopped" /\ started > 0
       THEN Enter(o, "stop", 1) /\ UNCHANGED state
       ELSE Finish(o, TRUE) /\ state' = "stopped" /\ UNCHANGED lockVars
  /\ UNCHANGED <<started, ops, up, drained>>

\* _stop returns at once when stopped; with nothing started it only changes
\* the state.
AcquireStop(o) ==
  /\ holder = NoOwner /\ want[o] = "stop"
  /\ IF state # "stopped" /\ started > 0
       THEN Enter(o, "stop", started) /\ UNCHANGED state
       ELSE Finish(o, TRUE) /\ state' = "stopped" /\ UNCHANGED lockVars
  /\ UNCHANGED <<started, ops, up, drained>>

-----------------------------------------------------------------------------
(* The hooks of the operation that holds the lock. *)

\* The component's start returns; after the last one the controller is ready.
StartReturns ==
  /\ phase = "start"
  /\ started' = started + 1
  /\ up' = up \cup {at}
  /\ IF at = N
       THEN state' = "ready" /\ Finish(holder, TRUE) /\ Unlock
       ELSE at' = at + 1 /\ UNCHANGED <<state, want, runVars, holder, phase, failed>>
  /\ UNCHANGED <<ops, drained>>

\* The component's start raises: it is stopped, then those before it.
StartRaises ==
  /\ phase = "start"
  /\ phase' = "rollback" /\ failed' = TRUE
  /\ up' = up \cup {at}
  /\ UNCHANGED <<state, started, holder, at, want, ops, runVars, drained>>

\* A stop or drain hook returns or raises; the loop goes on either way and
\* reports a failure at its end.
NextHook(raised, final) ==
  IF at = 1
    THEN /\ state' = final
         /\ Finish(holder, ~(failed \/ raised))
         /\ Unlock
    ELSE /\ at' = at - 1
         /\ failed' = (failed \/ raised)
         /\ UNCHANGED <<state, want, runVars, holder, phase>>

StopHookEnds(raised) ==
  /\ phase \in {"rollback", "stop"}
  /\ up' = up \ {at}
  /\ NextHook(raised, "stopped")
  /\ UNCHANGED <<started, ops, drained>>

DrainHookEnds(raised) ==
  /\ phase = "drain"
  /\ drained' = drained \cup {at}
  /\ NextHook(raised, state)
  /\ UNCHANGED <<started, ops, up>>

\* Mutant of DeadlineExceeded: the deadline does not cover the wait for the lock.
DeadlineAfterLock(o) ==
  /\ want[o] \in {"drain", "stop"} /\ holder = o
  /\ Finish(o, FALSE)
  /\ Unlock
  /\ UNCHANGED <<state, started, ops, up, drained>>

\* The deadline of drain or stop passes (_run_before_deadline): the operation
\* is cancelled where it is, in a hook or waiting for the lock, and the owner
\* gets ApplicationDeadlineExceeded.  A cancelled loop runs no further hook
\* and leaves the state as it is, provided that no hook suppresses the
\* CancelledError.  A free lock is taken at once, so an
\* operation is never late before it waits for a hook or another owner.
DeadlineExceeded(o) ==
  /\ want[o] \in {"drain", "stop"} /\ holder # NoOwner
  /\ Finish(o, FALSE)
  /\ IF holder = o THEN Unlock ELSE UNCHANGED lockVars
  /\ UNCHANGED <<state, started, ops, up, drained>>

HookEnds ==
  \/ StartReturns \/ StartRaises
  \/ \E raised \in BOOLEAN : StopHookEnds(raised) \/ DrainHookEnds(raised)

LifeNext ==
  \/ Signal \/ HookEnds
  \/ \E o \in Owners :
       \/ AcquireStart(o) \/ AcquireDrain(o) \/ AcquireStop(o)
       \/ DeadlineExceeded(o)
       \/ \E op \in ManualOps : Call(o, op)

LifeSpec == LifeInit /\ [][LifeNext]_lifeVars

\* What may be relied on: the runner's deadlines pass and the loop serves the lock;
\* no hook is assumed to end.
LifeProgress ==
  \/ DeadlineExceeded(Runner)
  \/ \E o \in Owners : AcquireStart(o) \/ AcquireDrain(o) \/ AcquireStop(o)

-----------------------------------------------------------------------------
(* Properties. *)

\* Only Application.run has asked for operations so far.
RunAlone == \A o \in Manual : ops[o] = 0

\* What is up is always a prefix of the components, also after a rollback, a stop
\* that a deadline cut short, or stops of several owners: no component outlives one
\* that was started before it.  A stopped controller has left none running.
StopsInReverse ==
  /\ \A i \in up : \A j \in Components : j < i => j \in up
  /\ state = "stopped" => up = {}

\* Exit code 0 means a clean shutdown: run reports no diagnostic only if every
\* component is stopped, whatever other owners did, and was drained before,
\* unless another owner's drain or stop came first.
CleanExit ==
  run = "exited" /\ diag = "none"
    => /\ state = "stopped" /\ up = {}
       /\ RunAlone => drained = Components

\* Once a signal has arrived run returns, even if every hook hangs until it is
\* cancelled and other owners hold the lock.
RunReturns == run = "drain" ~> run = "exited"
=============================================================================
