--------------------------- MODULE LifecycleProofs ---------------------------
(***************************************************************************)
(* Proofs about Lifecycle, for any number of components and of owners and  *)
(* any bound on their operations.                                          *)
(*                                                                         *)
(* The invariant relates the loop that holds the lock to what is up        *)
(* (LoopInv), the wishes of the owners to the holder (OwnerInv), and the   *)
(* progress of run to what has been drained while run is the only owner    *)
(* (AloneInv).  A stop that a deadline cut short starts again from the     *)
(* last component, so during a stop what is up is only known to end at or  *)
(* before the component whose hook runs.                                   *)
(***************************************************************************)
EXTENDS Lifecycle, TLAPS

LifeTypes ==
  /\ state \in {"startup", "ready", "draining", "stopped"}
  /\ started \in 0..N
  /\ phase \in {"none", "start", "rollback", "drain", "stop"}
  /\ phase # "none" => at \in 1..N
  /\ failed \in BOOLEAN
  /\ want \in [Owners -> {"none", "start", "drain", "stop"}]
  /\ ops \in [Manual -> Nat]
  /\ run \in {"start", "signal", "drain", "stop", "exited"}
  /\ diag \in {"none", "startup_failed", "signal_failed", "drain_failed", "stop_failed"}
  /\ up \subseteq Components /\ drained \subseteq Components

\* The loop that holds the lock, the state and what is up.
LoopInv ==
  /\ \A i \in up : \A j \in Components : j < i => j \in up
  /\ phase = "start" => state = "startup" /\ started = at - 1 /\ up = 1..started
  /\ phase = "rollback" => state = "startup" /\ up = 1..at /\ failed
  /\ phase = "stop" => state \in {"ready", "draining"} /\ up \subseteq 1..at
  /\ phase = "drain" => state = "draining"
  /\ phase = "none" /\ state = "startup" => started = 0 /\ up = {}
  /\ state \in {"ready", "draining"} => started = N
  /\ state = "stopped" => up = {} /\ phase = "none"

\* The lock is held for what its holder has asked for, and run asks for the
\* operation it has come to.
OwnerInv ==
  /\ holder \in Owners \cup {NoOwner}
  /\ phase = "none" <=> holder = NoOwner
  /\ holder # NoOwner =>
       want[holder] = IF phase = "rollback" THEN "start" ELSE phase
  /\ want[Runner] = IF run \in {"start", "drain", "stop"} THEN run ELSE "none"
  /\ \A o \in Manual : want[o] # "start" /\ (ops[o] = 0 => want[o] = "none")

\* While run is the only owner the controller stays ready until run drains, and
\* a drain that leaves no diagnostic has reached every component.
AloneInv ==
  RunAlone =>
    /\ run \in {"signal", "drain"} /\ holder = NoOwner => state = "ready"
    /\ run = "drain" /\ holder = Runner => (at + 1)..N \subseteq drained
    /\ run \in {"stop", "exited"} /\ diag = "none" => drained = Components

ExitInv == run = "exited" /\ diag = "none" => state = "stopped"

LifeInv == LifeTypes /\ LoopInv /\ OwnerInv /\ AloneInv /\ ExitInv

\* Nothing has started and run is about to ask for the start.
LEMMA InitLifeInv == LifeInit => LifeInv
  <1> SUFFICES ASSUME LifeInit PROVE LifeInv
    OBVIOUS
  <1>1. LifeTypes
    <2>1. want \in [Owners -> {"none", "start", "drain", "stop"}] /\ ops \in [Manual -> Nat]
      BY DEF LifeInit
    <2>2. started \in 0..N
      BY LifecycleAssumptions DEF LifeInit
    <2> QED  BY <2>1, <2>2 DEF LifeInit, LifeTypes
  <1>2. LoopInv
    BY DEF LifeInit, LoopInv
  <1>3. OwnerInv
    BY LifecycleAssumptions DEF LifeInit, OwnerInv, Owners
  <1>4. AloneInv /\ ExitInv
    BY DEF LifeInit, AloneInv, ExitInv
  <1> QED  BY <1>1, <1>2, <1>3, <1>4 DEF LifeInv

-----------------------------------------------------------------------------
(* The end of an operation. *)

\* What Finish does to the wishes and to run, in the terms of the invariant.
LEMMA FinishCases ==
  ASSUME LifeTypes, OwnerInv, NEW o \in Owners, NEW ok \in BOOLEAN, Finish(o, ok),
         want[o] # "none"
  PROVE  /\ \E w \in {"none", "stop"} :
              want' = [want EXCEPT ![o] = w] /\ (o # Runner => w = "none")
         /\ o # Runner => UNCHANGED runVars
         /\ o = Runner =>
              /\ want[Runner] = run
              /\ want'[Runner] = IF run' \in {"start", "drain", "stop"} THEN run' ELSE "none"
              /\ run = "start" => run' = IF ok THEN "signal" ELSE "exited"
              /\ run = "drain" => run' = "stop"
              /\ run = "stop" => run' = "exited"
              /\ run \in {"start", "drain", "stop"}
              /\ diag' \in {"none", "startup_failed", "signal_failed", "drain_failed", "stop_failed"}
              /\ diag' = "none" => ok /\ diag = "none"
  <1>1. CASE o # Runner
    BY <1>1 DEF Finish
  <1>2. CASE o = Runner
    <2>1. /\ run \in {"start", "drain", "stop"} /\ want[Runner] = run
          /\ want \in [Owners -> {"none", "start", "drain", "stop"}]
      BY <1>2 DEF LifeTypes, OwnerInv
    <2>2. AfterRunStep(ok)
      BY <1>2 DEF Finish
    <2>3. CASE run = "start"
      BY <1>2, <2>1, <2>2, <2>3 DEF AfterRunStep, LifeTypes
    <2>4. CASE run = "drain"
      BY <1>2, <2>1, <2>2, <2>4 DEF AfterRunStep, LifeTypes
    <2>5. CASE run = "stop"
      BY <1>2, <2>1, <2>2, <2>5 DEF AfterRunStep, LifeTypes
    <2> QED  BY <2>1, <2>3, <2>4, <2>5
  <1> QED  BY <1>1, <1>2

\* The owners' part when an operation ends: its owner held the lock and gives it
\* back, or never had it.
LEMMA FinishKeepsOwners ==
  ASSUME LifeTypes, OwnerInv, NEW o \in Owners, NEW ok \in BOOLEAN, Finish(o, ok),
         want[o] # "none", UNCHANGED ops,
         Unlock \/ (holder # o /\ UNCHANGED lockVars)
  PROVE  /\ OwnerInv'
         /\ want' \in [Owners -> {"none", "start", "drain", "stop"}]
         /\ run' \in {"start", "signal", "drain", "stop", "exited"}
         /\ diag' \in {"none", "startup_failed", "signal_failed", "drain_failed", "stop_failed"}
  <1>1. PICK w \in {"none", "stop"} :
          want' = [want EXCEPT ![o] = w] /\ (o # Runner => w = "none")
    BY FinishCases
  <1>2. Runner \in Owners /\ \A m \in Manual : m \in Owners /\ m # Runner
    BY LifecycleAssumptions DEF Owners
  <1>3. want' \in [Owners -> {"none", "start", "drain", "stop"}]
    BY <1>1 DEF LifeTypes
  <1>4. /\ run' \in {"start", "signal", "drain", "stop", "exited"}
        /\ diag' \in {"none", "startup_failed", "signal_failed", "drain_failed", "stop_failed"}
        /\ want'[Runner] = IF run' \in {"start", "drain", "stop"} THEN run' ELSE "none"
    <2>1. CASE o = Runner
      BY <2>1, FinishCases
    <2>2. CASE o # Runner
      BY <1>1, <1>2, <2>2, FinishCases DEF runVars, LifeTypes, OwnerInv
    <2> QED  BY <2>1, <2>2
  <1>5. \A m \in Manual : want'[m] # "start" /\ (ops'[m] = 0 => want'[m] = "none")
    BY <1>1, <1>2 DEF LifeTypes, OwnerInv
  <1>6. /\ holder' \in Owners \cup {NoOwner}
        /\ phase' = "none" <=> holder' = NoOwner
        /\ holder' # NoOwner =>
             want'[holder'] = IF phase' = "rollback" THEN "start" ELSE phase'
    BY <1>1 DEF LifeTypes, OwnerInv, Unlock, lockVars
  <1> QED  BY <1>3, <1>4, <1>5, <1>6 DEF OwnerInv

\* What the parts about run alone need when an operation ends.
LEMMA FinishKeepsAlone ==
  ASSUME LifeTypes, OwnerInv, AloneInv, ExitInv, NEW o \in Owners, NEW ok \in BOOLEAN,
         Finish(o, ok), want[o] # "none", UNCHANGED ops,
         Unlock \/ (holder # o /\ UNCHANGED lockVars),
         drained \subseteq drained', drained' \subseteq Components,
         state = "stopped" => state' = "stopped",
         o = Runner /\ run = "start" /\ ok => state' = "ready",
         o = Runner /\ run = "drain" /\ ok /\ RunAlone => drained' = Components,
         o = Runner /\ run = "stop" /\ ok => state' = "stopped"
  PROVE  AloneInv' /\ ExitInv'
  <1>1. /\ o # Runner => UNCHANGED runVars
        /\ o = Runner =>
              /\ run = "start" => run' = IF ok THEN "signal" ELSE "exited"
              /\ run = "drain" => run' = "stop"
              /\ run = "stop" => run' = "exited"
              /\ run \in {"start", "drain", "stop"}
              /\ diag' = "none" => ok /\ diag = "none"
    BY FinishCases
  <1>2. RunAlone' => RunAlone /\ o = Runner
    BY DEF RunAlone, LifeTypes, OwnerInv, Owners
  <1>3. ExitInv'
    BY <1>1 DEF ExitInv, runVars
  <1>4. AloneInv'
    <2> SUFFICES ASSUME RunAlone, o = Runner
                 PROVE  /\ run' \in {"signal", "drain"} /\ holder' = NoOwner => state' = "ready"
                        /\ run' = "drain" /\ holder' = Runner => (at' + 1)..N \subseteq drained'
                        /\ run' \in {"stop", "exited"} /\ diag' = "none" => drained' = Components
      BY <1>2 DEF AloneInv
    <2> QED  BY <1>1 DEF AloneInv, LifeTypes, Components
  <1> QED  BY <1>3, <1>4

-----------------------------------------------------------------------------
(* The steps. *)

\* An operation that gets the lock and ends at once.
LEMMA AtOnceKeepsInv ==
  ASSUME LifeInv, NEW o \in Owners, holder = NoOwner,
         \/ want[o] = "start" /\ state # "startup" /\ Finish(o, FALSE) /\ UNCHANGED state
         \/ want[o] = "drain" /\ state # "ready" /\ Finish(o, state # "startup") /\ UNCHANGED state
         \/ /\ want[o] = "stop" /\ (state = "stopped" \/ started = 0)
            /\ Finish(o, TRUE) /\ state' = "stopped",
         UNCHANGED <<lockVars, started, ops, up, drained>>
  PROVE  LifeInv'
  <1> USE DEF LifeInv
  <1>1. PICK ok \in BOOLEAN :
          /\ Finish(o, ok)
          /\ want[o] = "start" => ~ok
          /\ want[o] = "drain" => state # "ready"
          /\ want[o] = "stop" => state' = "stopped"
    OBVIOUS
  <1>2. holder # o
    BY LifecycleAssumptions
  <1>3. phase = "none" /\ want[o] # "none"
    BY DEF OwnerInv
  <1>4. OwnerInv' /\ LifeTypes'
    BY <1>1, <1>2, <1>3, FinishKeepsOwners DEF LifeTypes, lockVars
  <1>5. LoopInv'
    BY <1>3, LifecycleAssumptions DEF LoopInv, LifeTypes, lockVars
  <1>6. state = "stopped" => state' = "stopped"
    OBVIOUS
  <1>7. /\ o = Runner /\ run = "start" /\ ok => state' = "ready"
        /\ o = Runner /\ run = "drain" /\ ok /\ RunAlone => drained' = Components
        /\ o = Runner /\ run = "stop" /\ ok => state' = "stopped"
    BY <1>1 DEF OwnerInv, AloneInv
  <1>8. AloneInv' /\ ExitInv'
    <2>1. drained \subseteq drained' /\ drained' \subseteq Components
      BY DEF LifeTypes
    <2> QED  BY <1>1, <1>2, <1>3, <1>6, <1>7, <2>1, FinishKeepsAlone
  <1> QED  BY <1>4, <1>5, <1>8

\* An operation that gets the lock and begins its loop.
LEMMA EnterKeepsInv ==
  ASSUME LifeInv, NEW o \in Owners, holder = NoOwner,
         \/ want[o] = "start" /\ state = "startup" /\ Enter(o, "start", 1) /\ UNCHANGED state
         \/ want[o] = "drain" /\ state = "ready" /\ Enter(o, "drain", started) /\ state' = "draining"
         \/ /\ want[o] = "stop" /\ state # "stopped" /\ started > 0
            /\ Enter(o, "stop", started) /\ UNCHANGED state,
         UNCHANGED <<started, ops, up, drained>>
  PROVE  LifeInv'
  <1> USE DEF LifeInv, Enter, runVars
  <1>1. phase = "none" /\ o # NoOwner
    BY LifecycleAssumptions DEF OwnerInv
  <1>2. /\ at' \in 1..N /\ phase' \in {"start", "drain", "stop"}
        /\ phase' # "start" => at' = N /\ started = N /\ state \in {"ready", "draining"}
    BY <1>1, LifecycleAssumptions DEF LifeTypes, LoopInv
  <1>3. LifeTypes' /\ LoopInv'
    <2>1. LifeTypes'
      BY <1>2 DEF LifeTypes
    <2>2. CASE phase' = "start"
      <3>1. at' = 1 /\ started = 0 /\ up = {} /\ state' = "startup" /\ UNCHANGED <<started, up>>
        BY <1>1, <2>2 DEF LoopInv
      <3> QED  BY <2>1, <2>2, <3>1 DEF LoopInv
    <2>3. CASE phase' # "start"
      BY <1>1, <1>2, <2>1, <2>3 DEF LifeTypes, LoopInv, Components
    <2> QED  BY <2>1, <2>2, <2>3
  <1>4. OwnerInv'
    BY <1>1 DEF OwnerInv
  <1>5. AloneInv'
    BY <1>1, LifecycleAssumptions DEF AloneInv, RunAlone, OwnerInv, LoopInv, LifeTypes, Components
  <1>6. ExitInv'
    BY DEF ExitInv
  <1> QED  BY <1>3, <1>4, <1>5, <1>6

\* A start hook returns.
LEMMA StartReturnsKeepsInv ==
  ASSUME LifeInv, StartReturns
  PROVE  LifeInv'
  <1> USE DEF LifeInv
  <1>1. /\ phase = "start" /\ at \in 1..N /\ state = "startup" /\ started = at - 1
        /\ up = 1..started /\ holder \in Owners /\ want[holder] = "start"
        /\ holder # NoOwner /\ holder = Runner
    BY DEF StartReturns, LifeTypes, LoopInv, OwnerInv, Owners
  <1>2. started' = at /\ up' = 1..at /\ UNCHANGED <<ops, drained>>
    BY <1>1 DEF StartReturns
  <1>3. CASE at = N /\ state' = "ready" /\ Finish(holder, TRUE) /\ Unlock
    <2>1. OwnerInv' /\ LifeTypes'
      <3>1. up' \subseteq Components /\ started' \in 0..N
        BY <1>1, <1>2, LifecycleAssumptions DEF Components
      <3> QED  BY <1>1, <1>2, <1>3, <3>1, FinishKeepsOwners DEF LifeTypes, Unlock
    <2>2. LoopInv'
      BY <1>1, <1>2, <1>3 DEF LoopInv, Unlock, Components
    <2>3. AloneInv' /\ ExitInv'
      <3>1. run = "start" /\ drained \subseteq drained' /\ drained' \subseteq Components
        BY <1>1, <1>2 DEF OwnerInv, LifeTypes
      <3> QED  BY <1>1, <1>2, <1>3, <3>1, FinishKeepsAlone
    <2> QED  BY <2>1, <2>2, <2>3
  <1>4. CASE at # N /\ at' = at + 1 /\ UNCHANGED <<state, want, runVars, holder, phase, failed>>
    <2>1. LifeTypes'
      BY <1>1, <1>2, <1>4, LifecycleAssumptions DEF LifeTypes, runVars, Components
    <2>2. LoopInv'
      BY <1>1, <1>2, <1>4 DEF LoopInv, Components
    <2>3. OwnerInv' /\ ExitInv'
      BY <1>2, <1>4 DEF OwnerInv, ExitInv, runVars
    <2>4. AloneInv'
      BY <1>1, <1>2, <1>4 DEF AloneInv, RunAlone, OwnerInv, runVars
    <2> QED  BY <2>1, <2>2, <2>3, <2>4
  <1> QED  BY <1>3, <1>4 DEF StartReturns

\* A start hook raises: the component that failed is stopped too.
LEMMA StartRaisesKeepsInv ==
  ASSUME LifeInv, StartRaises
  PROVE  LifeInv'
  <1> USE DEF LifeInv, StartRaises, runVars
  <1>1. up' = 1..at /\ at \in 1..N
    BY DEF LifeTypes, LoopInv
  <1>2. LifeTypes'
    BY <1>1 DEF LifeTypes, Components
  <1>3. LoopInv'
    BY <1>1 DEF LifeTypes, LoopInv, Components
  <1>4. OwnerInv' /\ ExitInv'
    BY DEF OwnerInv, ExitInv
  <1>5. AloneInv'
    BY DEF AloneInv, RunAlone, OwnerInv
  <1> QED  BY <1>2, <1>3, <1>4, <1>5

\* A stop hook ends, in a rollback or in a stop.
LEMMA StopHookKeepsInv ==
  ASSUME LifeInv, NEW raised \in BOOLEAN, StopHookEnds(raised)
  PROVE  LifeInv'
  <1> USE DEF LifeInv
  <1>1. /\ phase \in {"rollback", "stop"} /\ at \in 1..N /\ holder \in Owners /\ holder # NoOwner
        /\ want[holder] \in {"start", "stop"} /\ up \subseteq 1..at
        /\ state \in {"startup", "ready", "draining"}
    BY DEF StopHookEnds, LifeTypes, LoopInv, OwnerInv
  <1>2. up' = up \ {at} /\ UNCHANGED <<started, ops, drained>>
    BY DEF StopHookEnds
  <1>3. \A i \in up' : \A j \in Components : j < i => j \in up'
    BY <1>1, <1>2 DEF LoopInv, Components
  <1>4. CASE at = 1 /\ state' = "stopped" /\ Finish(holder, ~(failed \/ raised)) /\ Unlock
    <2>1. (~(failed \/ raised)) \in BOOLEAN
      OBVIOUS
    <2>2. OwnerInv' /\ LifeTypes'
      BY <1>1, <1>2, <1>4, <2>1, FinishKeepsOwners DEF LifeTypes, Unlock
    <2>3. up' = {}
      BY <1>1, <1>2, <1>4
    <2>4. LoopInv'
      BY <1>4, <2>3 DEF LoopInv, Unlock
    <2>5. AloneInv' /\ ExitInv'
      <3>1. drained \subseteq drained' /\ drained' \subseteq Components
        BY <1>2 DEF LifeTypes
      <3>2. holder = Runner => run # "drain" /\ (run = "start" => phase = "rollback")
        BY <1>1 DEF OwnerInv
      <3>3. phase = "rollback" => failed
        BY DEF LoopInv
      <3> QED  BY <1>1, <1>2, <1>4, <2>1, <3>1, <3>2, <3>3, FinishKeepsAlone
    <2> QED  BY <2>2, <2>4, <2>5
  <1>5. CASE /\ at # 1 /\ at' = at - 1 /\ failed' = (failed \/ raised)
             /\ UNCHANGED <<state, want, runVars, holder, phase>>
    <2>1. LifeTypes'
      BY <1>1, <1>2, <1>5, LifecycleAssumptions DEF LifeTypes, runVars
    <2>2. LoopInv'
      <3>1. failed => failed'
        BY <1>5, Zenon
      <3>2. up' \subseteq 1..at' /\ (up = 1..at => up' = 1..at')
        BY <1>1, <1>2, <1>5
      <3> QED  BY <1>1, <1>2, <1>3, <1>5, <3>1, <3>2 DEF LoopInv
    <2>3. OwnerInv' /\ ExitInv'
      BY <1>2, <1>5 DEF OwnerInv, ExitInv, runVars
    <2>4. AloneInv'
      BY <1>1, <1>2, <1>5 DEF AloneInv, RunAlone, OwnerInv, runVars
    <2> QED  BY <2>1, <2>2, <2>3, <2>4
  <1> QED  BY <1>4, <1>5 DEF StopHookEnds, NextHook

\* A drain hook ends.
LEMMA DrainHookKeepsInv ==
  ASSUME LifeInv, NEW raised \in BOOLEAN, DrainHookEnds(raised)
  PROVE  LifeInv'
  <1> USE DEF LifeInv
  <1>1. /\ phase = "drain" /\ at \in 1..N /\ holder \in Owners /\ holder # NoOwner
        /\ want[holder] = "drain" /\ state = "draining"
    BY DEF DrainHookEnds, LifeTypes, LoopInv, OwnerInv
  <1>2. drained' = drained \cup {at} /\ UNCHANGED <<started, ops, up>>
    BY DEF DrainHookEnds
  <1>3. drained \subseteq drained' /\ drained' \subseteq Components
    BY <1>1, <1>2 DEF LifeTypes, Components
  <1>4. CASE at = 1 /\ state' = state /\ Finish(holder, ~(failed \/ raised)) /\ Unlock
    <2>1. (~(failed \/ raised)) \in BOOLEAN
      OBVIOUS
    <2>2. OwnerInv' /\ LifeTypes'
      BY <1>1, <1>2, <1>3, <1>4, <2>1, FinishKeepsOwners DEF LifeTypes, Unlock
    <2>3. LoopInv'
      BY <1>1, <1>2, <1>4 DEF LoopInv, Unlock
    <2>4. AloneInv' /\ ExitInv'
      <3>1. holder = Runner => run = "drain"
        BY <1>1 DEF OwnerInv
      <3>2. holder = Runner /\ RunAlone => drained' = Components
        <4>1. holder = Runner /\ RunAlone => (at + 1)..N \subseteq drained
          BY <3>1 DEF AloneInv
        <4>2. Components = {at} \cup (at + 1)..N
          BY <1>4, LifecycleAssumptions DEF Components
        <4> QED  BY <1>2, <1>3, <4>1, <4>2
      <3> QED  BY <1>1, <1>2, <1>3, <1>4, <2>1, <3>1, <3>2, FinishKeepsAlone
    <2> QED  BY <2>2, <2>3, <2>4
  <1>5. CASE /\ at # 1 /\ at' = at - 1 /\ failed' = (failed \/ raised)
             /\ UNCHANGED <<state, want, runVars, holder, phase>>
    <2>1. LifeTypes'
      BY <1>1, <1>2, <1>3, <1>5, LifecycleAssumptions DEF LifeTypes, runVars
    <2>2. LoopInv'
      BY <1>1, <1>2, <1>5 DEF LoopInv
    <2>3. OwnerInv' /\ ExitInv'
      BY <1>2, <1>5 DEF OwnerInv, ExitInv, runVars
    <2>4. AloneInv'
      BY <1>1, <1>2, <1>3, <1>5, LifecycleAssumptions DEF AloneInv, RunAlone, OwnerInv, runVars
    <2> QED  BY <2>1, <2>2, <2>3, <2>4
  <1> QED  BY <1>4, <1>5 DEF DrainHookEnds, NextHook

\* The deadline of an operation passes, while it holds the lock or waits for it.
LEMMA DeadlineKeepsInv ==
  ASSUME LifeInv, NEW o \in Owners, DeadlineExceeded(o)
  PROVE  LifeInv'
  <1> USE DEF LifeInv
  <1>1. /\ want[o] \in {"drain", "stop"} /\ holder # NoOwner /\ Finish(o, FALSE)
        /\ Unlock \/ (holder # o /\ UNCHANGED lockVars)
        /\ UNCHANGED <<state, started, ops, up, drained>>
    BY DEF DeadlineExceeded
  <1>2. OwnerInv' /\ LifeTypes'
    BY <1>1, FinishKeepsOwners DEF LifeTypes, Unlock, lockVars
  <1>3. Unlock => phase \in {"drain", "stop"}
    BY <1>1, LifecycleAssumptions DEF DeadlineExceeded, OwnerInv, Unlock, lockVars
  <1>4. LoopInv'
    BY <1>1, <1>3 DEF LoopInv, LifeTypes, Unlock, lockVars
  <1>5. AloneInv' /\ ExitInv'
    <2>1. drained \subseteq drained' /\ drained' \subseteq Components
      BY <1>1 DEF LifeTypes
    <2> QED  BY <1>1, <2>1, FinishKeepsAlone
  <1> QED  BY <1>2, <1>4, <1>5

\* A manual owner asks for an operation, or a signal arrives.
LEMMA AskKeepsInv ==
  ASSUME LifeInv, Signal \/ \E o \in Owners, op \in ManualOps : Call(o, op)
  PROVE  LifeInv'
  <1> USE DEF LifeInv
  <1>1. CASE Signal
    BY <1>1, LifecycleAssumptions
    DEF Signal, LifeTypes, LoopInv, OwnerInv, AloneInv, ExitInv, RunAlone, lockVars, Owners
  <1>2. ASSUME NEW o \in Owners, NEW op \in ManualOps, Call(o, op)
        PROVE  LifeInv'
    <2>1. /\ o \in Manual /\ o # Runner /\ want[o] = "none" /\ op \in {"drain", "stop"}
          /\ want' = [want EXCEPT ![o] = op] /\ ops' = [ops EXCEPT ![o] = @ + 1]
          /\ UNCHANGED <<state, started, lockVars, runVars, up, drained>>
      BY <1>2, LifecycleAssumptions DEF Call
    <2>2. LifeTypes'
      BY <2>1 DEF LifeTypes, lockVars, runVars
    <2>3. LoopInv' /\ ExitInv'
      BY <2>1 DEF LoopInv, ExitInv, lockVars, runVars
    <2>4. OwnerInv'
      BY <2>1 DEF LifeTypes, OwnerInv, lockVars, runVars, Owners
    <2>5. ~RunAlone'
      BY <2>1 DEF RunAlone, LifeTypes
    <2> QED  BY <2>2, <2>3, <2>4, <2>5 DEF AloneInv
  <1> QED  BY <1>1, <1>2

\* Every step keeps the invariant.
LEMMA NextLifeInv == LifeInv /\ [LifeNext]_lifeVars => LifeInv'
  <1> SUFFICES ASSUME LifeInv, [LifeNext]_lifeVars PROVE LifeInv'
    OBVIOUS
  <1>1. CASE UNCHANGED lifeVars
    BY <1>1
    DEF lifeVars, lockVars, runVars, LifeInv, LifeTypes, LoopInv, OwnerInv, AloneInv, ExitInv, RunAlone
  <1>2. ASSUME NEW o \in Owners, AcquireStart(o)
        PROVE  LifeInv'
    BY <1>2, AtOnceKeepsInv, EnterKeepsInv DEF AcquireStart
  <1>3. ASSUME NEW o \in Owners, AcquireDrain(o)
        PROVE  LifeInv'
    BY <1>3, AtOnceKeepsInv, EnterKeepsInv DEF AcquireDrain
  <1>4. ASSUME NEW o \in Owners, AcquireStop(o)
        PROVE  LifeInv'
    <2>1. started \in Nat
      BY DEF LifeInv, LifeTypes
    <2>2. CASE state # "stopped" /\ started > 0
      BY <1>4, <2>2, EnterKeepsInv DEF AcquireStop
    <2>3. CASE state = "stopped" \/ started = 0
      <3>1. ~(state # "stopped" /\ started > 0)
        BY <2>3
      <3>2. /\ holder = NoOwner /\ want[o] = "stop" /\ Finish(o, TRUE) /\ state' = "stopped"
            /\ UNCHANGED <<lockVars, started, ops, up, drained>>
        BY <1>4, <3>1, Zenon DEF AcquireStop
      <3> QED  BY <2>3, <3>2, AtOnceKeepsInv
    <2> QED  BY <2>1, <2>2, <2>3
  <1> QED
    BY <1>1, <1>2, <1>3, <1>4, AskKeepsInv, DeadlineKeepsInv, StartReturnsKeepsInv,
       StartRaisesKeepsInv, StopHookKeepsInv, DrainHookKeepsInv
    DEF LifeNext, HookEnds

\* The invariant holds in every reachable state.
LEMMA LifeInvariance == LifeSpec => []LifeInv
  BY InitLifeInv, NextLifeInv, PTL DEF LifeSpec

-----------------------------------------------------------------------------
(* The theorems. *)

\* Components stop in the reverse of their start order and none outlives a
\* controller that is stopped, for every interleaving of owners and deadlines.
THEOREM StopsInReverseOrder == LifeSpec => []StopsInReverse
  <1>1. LifeInv => StopsInReverse
    BY DEF LifeInv, LoopInv, StopsInReverse
  <1> QED  BY <1>1, LifeInvariance, PTL

\* An exit without diagnostic is a clean shutdown.
THEOREM ExitsAreClean == LifeSpec => []CleanExit
  <1>1. LifeInv => CleanExit
    BY DEF LifeInv, LoopInv, AloneInv, ExitInv, CleanExit
  <1> QED  BY <1>1, LifeInvariance, PTL
=============================================================================
