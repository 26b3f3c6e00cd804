-------------------------- MODULE ExecutionProofs ----------------------------
(***************************************************************************)
(* Proofs about Execution, and about Application on top of it, for every   *)
(* set of calls, tools and tenants and every value of the limits.          *)
(*                                                                         *)
(* A counter that goes below zero, a lease without work and work over a    *)
(* limit are excluded together: the type of a counter needs that it counts *)
(* the leases, and that needs that a lease is held exactly by running      *)
(* work.  IInv is their conjunction.  StepCases says all that a step can   *)
(* do to the bulkhead; the invariant and the refinement both rest on it.   *)
(* Followed ties a caller to the work it leaves behind, and DrainInv says  *)
(* which calls a drain still waits for; AppStepCases carries the           *)
(* invariants of Execution over to the application.                        *)
(***************************************************************************)
EXTENDS Application, FiniteSetTheorems, TLAPS

-----------------------------------------------------------------------------
(* Counting a set and its part with f[c] = v. *)

Part(S, f, v) == {c \in S : f[c] = v}

\* The part of a finite set that f maps to v, when an element joins the set.
LEMMA AddToPart ==
  ASSUME NEW S, IsFiniteSet(S), NEW x, x \notin S, NEW f, NEW v
  PROVE  /\ Cardinality(Part(S, f, v)) \in Nat
         /\ Cardinality(Part(S \cup {x}, f, v)) =
              IF f[x] = v THEN Cardinality(Part(S, f, v)) + 1
                          ELSE Cardinality(Part(S, f, v))
  <1>1. Part(S, f, v) \in SUBSET S
    BY DEF Part
  <1>2. IsFiniteSet(Part(S, f, v)) /\ Cardinality(Part(S, f, v)) \in Nat
    BY <1>1, FS_Subset, FS_CardinalityType
  <1>3. CASE f[x] = v
    <2>1. Part(S \cup {x}, f, v) = Part(S, f, v) \cup {x}
      BY <1>3 DEF Part
    <2>2. x \notin Part(S, f, v)
      BY DEF Part
    <2>3. Cardinality(Part(S, f, v) \cup {x}) = Cardinality(Part(S, f, v)) + 1
      BY <1>2, <2>2, FS_AddElement
    <2> QED  BY <1>2, <1>3, <2>1, <2>3
  <1>4. CASE f[x] # v
    <2>1. Part(S \cup {x}, f, v) = Part(S, f, v)
      BY <1>4 DEF Part
    <2> QED  BY <1>2, <1>4, <2>1
  <1> QED  BY <1>3, <1>4

\* The same when an element leaves the set.
LEMMA RemoveFromPart ==
  ASSUME NEW S, IsFiniteSet(S), NEW x, x \in S, NEW f, NEW v
  PROVE  /\ Cardinality(Part(S, f, v)) \in Nat
         /\ Cardinality(Part(S \ {x}, f, v)) \in Nat
         /\ Cardinality(Part(S \ {x}, f, v)) =
              IF f[x] = v THEN Cardinality(Part(S, f, v)) - 1
                          ELSE Cardinality(Part(S, f, v))
  <1>1. Part(S, f, v) \in SUBSET S
    BY DEF Part
  <1>2. IsFiniteSet(Part(S, f, v)) /\ Cardinality(Part(S, f, v)) \in Nat
    BY <1>1, FS_Subset, FS_CardinalityType
  <1>3. CASE f[x] = v
    <2>1. Part(S \ {x}, f, v) = Part(S, f, v) \ {x}
      BY <1>3 DEF Part
    <2>2. x \in Part(S, f, v)
      BY <1>3 DEF Part
    <2>3. /\ IsFiniteSet(Part(S, f, v) \ {x})
          /\ Cardinality(Part(S, f, v) \ {x}) = Cardinality(Part(S, f, v)) - 1
      BY <1>2, <2>2, FS_RemoveElement
    <2>4. Cardinality(Part(S, f, v) \ {x}) \in Nat
      BY <2>3, FS_CardinalityType
    <2> QED  BY <1>2, <1>3, <2>1, <2>3, <2>4
  <1>4. CASE f[x] # v
    <2>1. Part(S \ {x}, f, v) = Part(S, f, v)
      BY <1>4 DEF Part
    <2> QED  BY <1>2, <1>4, <2>1
  <1> QED  BY <1>3, <1>4

-----------------------------------------------------------------------------
(* The inductive invariant. *)

TaskTypes ==
  /\ caller \in [Calls -> {"idle", "waiting", "yield", "grace", "closing",
                          "returned"}]
  /\ branch \in [Calls -> {"none", "deadline", "cancel"}]
  /\ work \in [Calls -> {"none", "created", "done"} \cup Running]
  /\ attempt \in [Calls -> Nat]
  /\ outcome \in [Calls -> Codes \cup {"none"}]
  /\ result \in [Calls -> Codes \cup {"none"}]
  /\ token \subseteq Calls /\ linked \subseteq Calls /\ expired \subseteq Calls
  /\ cancelling \subseteq Calls /\ detached \subseteq Calls
  /\ taskCancels \in [Calls -> Nat]

CounterTypes ==
  /\ leased \subseteq Calls /\ IsFiniteSet(leased)
  /\ active \in Nat
  /\ byTool \in [Tools -> Nat]
  /\ byTenant \in [Tenants -> Nat]

WithinLimits ==
  /\ active <= MaxGlobal /\ active <= MaxServer
  /\ \A t \in Tools : byTool[t] <= MaxTool
  /\ \A t \in Tenants : byTenant[t] <= MaxTenant

Accounting == CounterTypes /\ LeaseFollowsWork /\ CountersExact /\ WithinLimits

\* Work exists only once its caller has begun to execute.
WorkNeedsCaller == \A c \in Calls : caller[c] = "idle" => work[c] = "none"

IInv == TaskTypes /\ WorkNeedsCaller /\ Accounting

\* No call has begun, so nothing is leased and every counter is zero.
LEMMA InitIInv == Init => IInv
  <1> SUFFICES ASSUME Init PROVE IInv
    OBVIOUS
  <1>1. TaskTypes
    BY DEF Init, TaskTypes, Codes, Running
  <1>2. RunningWork = {}
    BY DEF Init, RunningWork, Running
  <1>3. CounterTypes /\ LeaseFollowsWork
    BY <1>2, FS_EmptySet DEF Init, CounterTypes, LeaseFollowsWork
  <1>4. CountersExact
    <2>1. \A t : LeasedOf(t) = {} /\ LeasedBy(t) = {}
      BY DEF Init, LeasedOf, LeasedBy
    <2> QED  BY <2>1, FS_EmptySet DEF Init, CountersExact
  <1>5. WithinLimits
    BY ExecutionAssumptions DEF ExecutionLimits, Init, WithinLimits
  <1>6. WorkNeedsCaller
    BY DEF Init, WorkNeedsCaller
  <1> QED  BY <1>1, <1>3, <1>4, <1>5, <1>6 DEF IInv, Accounting

-----------------------------------------------------------------------------
(* What a step does. *)

Idle == UNCHANGED <<leased, active, byTool, byTenant>> /\ RunningWork' = RunningWork
Enters(c) == c \notin RunningWork /\ Admit(c) /\ RunningWork' = RunningWork \cup {c}
Leaves(c) == c \in RunningWork /\ Release(c) /\ RunningWork' = RunningWork \ {c}

\* A work task moves between states of the same kind.
LEMMA SameKind ==
  ASSUME TaskTypes, NEW c \in Calls, NEW w,
         work' = [work EXCEPT ![c] = w],
         work[c] \in Running <=> w \in Running
  PROVE  RunningWork' = RunningWork
  BY DEF TaskTypes, RunningWork

\* A work task that holds no lease is admitted.
LEMMA BeginsRunning ==
  ASSUME TaskTypes, NEW c \in Calls, NEW w \in Running,
         work' = [work EXCEPT ![c] = w], work[c] \notin Running, Admit(c)
  PROVE  Enters(c)
  <1>1. c \notin RunningWork
    BY DEF RunningWork
  <1>2. RunningWork' = RunningWork \cup {c}
    BY DEF TaskTypes, RunningWork
  <1> QED  BY <1>1, <1>2 DEF Enters

\* A running work task ends and releases its lease.
LEMMA StopsRunning ==
  ASSUME TaskTypes, NEW c \in Calls, NEW o,
         EndWork(c, o), work[c] \in Running, Release(c)
  PROVE  Leaves(c)
  <1>1. c \in RunningWork
    BY DEF RunningWork
  <1>2. RunningWork' = RunningWork \ {c}
    BY DEF TaskTypes, RunningWork, EndWork, Running
  <1> QED  BY <1>1, <1>2 DEF Leaves

\* The finally of _invoke releases the lease of the work that ends, whatever
\* ends it; the same step keeps the types of the tasks.
LEMMA FinishCases ==
  ASSUME TaskTypes, NEW c \in Calls, NEW o, FinishWork(c, o), work[c] \in Running
  PROVE  Leaves(c)
  BY StopsRunning DEF FinishWork

\* A step of a work task admits that task, releases its lease, or leaves the
\* bulkhead alone.
LEMMA WorkStepCases ==
  ASSUME TaskTypes, NEW c \in Calls, WorkStep(c)
  PROVE  Idle \/ Enters(c) \/ Leaves(c)
  <1>1. CASE StartWork(c)
    <2>1. work[c] = "created"
      BY <1>1 DEF StartWork
    <2>2. CASE \E o : EndWork(c, o) /\ UNCHANGED <<leased, active, byTool, byTenant>>
      <3>1. RunningWork' = RunningWork
        BY <2>1, <2>2, SameKind DEF EndWork, Running
      <3> QED  BY <2>2, <3>1 DEF Idle
    <2>3. CASE Admit(c) /\ work' = [work EXCEPT ![c] = "authorize"]
      <3>1. Enters(c)
        BY <2>1, <2>3, BeginsRunning DEF Running
      <3> QED  BY <3>1
    <2> QED  BY <1>1, <2>2, <2>3 DEF StartWork
  <1>2. CASE /\ work[c] \in Running
             /\ BeginAttempt(c) \/ \E o : FinishWork(c, o)
    <2>1. CASE BeginAttempt(c)
      <3>1. RunningWork' = RunningWork
        BY <1>2, <2>1, SameKind DEF BeginAttempt, Running
      <3> QED  BY <2>1, <3>1 DEF BeginAttempt, Idle
    <2>2. CASE \E o : FinishWork(c, o)
      BY <1>2, <2>2, FinishCases
    <2> QED  BY <1>2, <2>1, <2>2
  <1>3. CASE Authorize(c)
    BY <1>2, <1>3 DEF Authorize, Running
  <1>4. CASE HandlerEnds(c)
    BY <1>2, <1>4 DEF HandlerEnds, Running
  <1>5. CASE HandlerTransient(c)
    <2>1. work[c] = "handler"
      BY <1>5 DEF HandlerTransient
    <2>2. CASE \E o : FinishWork(c, o)
      BY <1>2, <2>1, <2>2 DEF Running
    <2>3. CASE /\ work' = [work EXCEPT ![c] = "backoff"]
               /\ UNCHANGED <<leased, active, byTool, byTenant>>
      <3>1. RunningWork' = RunningWork
        BY <2>1, <2>3, SameKind DEF Running
      <3> QED  BY <2>3, <3>1 DEF Idle
    <2> QED  BY <1>5, <2>2, <2>3 DEF HandlerTransient
  <1>6. CASE BackoffEnds(c)
    BY <1>2, <1>6 DEF BackoffEnds, Running
  <1>7. CASE DeliverCancel(c)
    <2>1. work[c] \in Running
      BY <1>7 DEF DeliverCancel
    <2>2. CASE EndWork(c, "cancelled") /\ Release(c)
      BY <2>1, <2>2, StopsRunning
    <2>3. CASE UNCHANGED workVars
      BY <2>3 DEF workVars, Idle, RunningWork
    <2> QED  BY <1>7, <2>2, <2>3 DEF DeliverCancel
  <1> QED  BY <1>1, <1>3, <1>4, <1>5, <1>6, <1>7 DEF WorkStep

\* No step of a caller, of another actor or of the clock touches the bulkhead:
\* the caller creates work, and from then on only the work changes its lease.
LEMMA OtherStepCases ==
  ASSUME TaskTypes, NEW c \in Calls,
         CallerStep(c) \/ TaskCancelled(c) \/ CancelToken(c) \/ DeadlinePasses(c),
         caller[c] = "idle" => work[c] = "none"
  PROVE  Idle
  <1>1. CASE Execute(c)
    <2>1. work[c] = "none"
      BY <1>1 DEF Execute
    <2>2. RunningWork' = RunningWork
      <3>1. CASE UNCHANGED work
        BY <3>1 DEF RunningWork
      <3>2. CASE work' = [work EXCEPT ![c] = "created"]
        BY <2>1, <3>2, SameKind DEF Running
      <3> QED  BY <1>1, <3>1, <3>2 DEF Execute
    <2> QED  BY <1>1, <2>2 DEF Execute, Idle
  <1>2. CASE UNCHANGED workVars
    BY <1>2 DEF workVars, Idle, RunningWork
  <1>3. Resume(c) \/ AfterYield(c) \/ GraceEnds(c) \/ Return(c) => UNCHANGED workVars
    BY DEF Resume, AfterYield, GraceEnds, Return
  <1>4. TaskCancelled(c) \/ CancelToken(c) \/ DeadlinePasses(c) => UNCHANGED workVars
    BY DEF TaskCancelled, CancelToken, DeadlinePasses
  <1> QED  BY <1>1, <1>2, <1>3, <1>4 DEF CallerStep

\* What a step does to the bulkhead: it admits one call, releases one lease, or
\* neither.
LEMMA StepCases ==
  ASSUME TaskTypes, WorkNeedsCaller, [Next]_vars
  PROVE  Idle \/ \E c \in Calls : Enters(c) \/ Leaves(c)
  <1>1. CASE UNCHANGED vars
    BY <1>1 DEF vars, workVars, Idle, RunningWork
  <1>2. ASSUME NEW c \in Calls, WorkStep(c)
        PROVE  Idle \/ Enters(c) \/ Leaves(c)
    BY <1>2, WorkStepCases
  <1>3. ASSUME NEW c \in Calls,
               CallerStep(c) \/ TaskCancelled(c) \/ CancelToken(c) \/ DeadlinePasses(c)
        PROVE  Idle
    BY <1>3, OtherStepCases DEF WorkNeedsCaller
  <1> QED  BY <1>1, <1>2, <1>3 DEF Next

\* Every step keeps the types of the tasks and the sets of calls.
LEMMA TaskTypesStep ==
  ASSUME TaskTypes, [Next]_vars
  PROVE  TaskTypes'
  <1>1. CASE UNCHANGED vars
    BY <1>1 DEF vars, workVars, callerVars, signalVars, TaskTypes
  <1>2. ASSUME NEW c \in Calls, WorkStep(c)
        PROVE  TaskTypes'
    <2> USE DEF TaskTypes, callerVars, signalVars, workVars, Codes, Running,
                EndWork, FinishWork, BeginAttempt
    <2>1. CASE StartWork(c)
      BY <2>1 DEF StartWork
    <2>2. CASE Authorize(c)
      BY <2>2 DEF Authorize
    <2>3. CASE HandlerEnds(c)
      BY <2>3 DEF HandlerEnds
    <2>4. CASE HandlerTransient(c)
      BY <2>4 DEF HandlerTransient
    <2>5. CASE BackoffEnds(c)
      BY <2>5 DEF BackoffEnds
    <2>6. CASE DeliverCancel(c)
      BY <2>6 DEF DeliverCancel
    <2> QED  BY <1>2, <2>1, <2>2, <2>3, <2>4, <2>5, <2>6 DEF WorkStep
  <1>3. ASSUME NEW c \in Calls,
               CallerStep(c) \/ TaskCancelled(c) \/ CancelToken(c) \/ DeadlinePasses(c)
        PROVE  TaskTypes'
    <2> USE DEF TaskTypes, callerVars, signalVars, workVars, Codes, Running,
                Closing, BeginStop, StopResult
    <2>1. CASE Execute(c)
      BY <2>1 DEF Execute
    <2>2. CASE Resume(c)
      BY <2>2 DEF Resume
    <2>3. CASE AfterYield(c)
      BY <2>3 DEF AfterYield
    <2>4. CASE GraceEnds(c)
      BY <2>4 DEF GraceEnds
    <2>5. CASE Return(c)
      BY <2>5 DEF Return
    <2>6. CASE TaskCancelled(c)
      BY <2>6 DEF TaskCancelled
    <2>7. CASE CancelToken(c)
      BY <2>7 DEF CancelToken
    <2>8. CASE DeadlinePasses(c)
      BY <2>8 DEF DeadlinePasses
    <2> QED  BY <1>3, <2>1, <2>2, <2>3, <2>4, <2>5, <2>6, <2>7, <2>8 DEF CallerStep
  <1> QED  BY <1>1, <1>2, <1>3 DEF Next

\* Work tasks are created by Execute, which also leaves "idle"; no caller
\* returns to it.
LEMMA WorkNeedsCallerStep ==
  ASSUME TaskTypes, WorkNeedsCaller, [Next]_vars
  PROVE  WorkNeedsCaller'
  <1> USE DEF TaskTypes, WorkNeedsCaller
  <1>1. CASE UNCHANGED vars
    BY <1>1 DEF vars, workVars, callerVars
  <1>2. ASSUME NEW c \in Calls, WorkStep(c)
        PROVE  WorkNeedsCaller'
    <2>1. UNCHANGED caller
      BY <1>2 DEF WorkStep, StartWork, Authorize, HandlerEnds, HandlerTransient,
                  BackoffEnds, DeliverCancel, callerVars
    <2>2. work[c] # "none"
      BY <1>2 DEF WorkStep, StartWork, Authorize, HandlerEnds, HandlerTransient,
                  BackoffEnds, DeliverCancel, Running
    <2>3. \A d \in Calls : d # c => work'[d] = work[d]
      BY <1>2 DEF WorkStep, StartWork, Authorize, HandlerEnds, HandlerTransient,
                  BackoffEnds, DeliverCancel, EndWork, FinishWork, BeginAttempt,
                  workVars
    <2> QED  BY <2>1, <2>2, <2>3
  <1>3. ASSUME NEW c \in Calls, Execute(c)
        PROVE  WorkNeedsCaller'
    BY <1>3 DEF Execute
  <1>4. ASSUME NEW c \in Calls,
               \/ Resume(c) \/ AfterYield(c) \/ GraceEnds(c) \/ Return(c)
               \/ TaskCancelled(c) \/ CancelToken(c) \/ DeadlinePasses(c)
        PROVE  WorkNeedsCaller'
    <2>1. UNCHANGED work
      BY <1>4 DEF Resume, AfterYield, GraceEnds, Return, TaskCancelled, CancelToken,
                  DeadlinePasses, workVars
    <2>2. UNCHANGED caller \/ \E w : w # "idle" /\ caller' = [caller EXCEPT ![c] = w]
      BY <1>4 DEF Resume, AfterYield, GraceEnds, Return, TaskCancelled, CancelToken,
                  DeadlinePasses, callerVars, Closing, BeginStop
    <2>3. CASE UNCHANGED caller
      BY <2>1, <2>3
    <2>4. CASE \E w : w # "idle" /\ caller' = [caller EXCEPT ![c] = w]
      BY <2>1, <2>4
    <2> QED  BY <2>2, <2>3, <2>4
  <1> QED  BY <1>1, <1>2, <1>3, <1>4 DEF Next, CallerStep

\* Admission checks every limit before it counts the call.
LEMMA AdmitKeepsAccounting ==
  ASSUME Accounting, NEW c \in Calls, Enters(c)
  PROVE  Accounting'
  <1> USE DEF Accounting, Enters
  <1>1. /\ IsFiniteSet(leased) /\ c \notin leased /\ leased' = leased \cup {c}
    BY DEF CounterTypes, LeaseFollowsWork, Admit
  <1>2. ToolOf[c] \in Tools /\ TenantOf[c] \in Tenants
    BY ExecutionAssumptions DEF ExecutionLimits
  <1>3. CounterTypes'
    BY <1>1, <1>2, FS_AddElement DEF CounterTypes, Admit
  <1>4. LeaseFollowsWork'
    BY <1>1 DEF LeaseFollowsWork
  <1>5. CountersExact'
    <2>1. active' = Cardinality(leased')
      BY <1>1, FS_AddElement DEF CountersExact, Admit
    <2>2. ASSUME NEW t \in Tools
          PROVE  byTool'[t] = Cardinality(LeasedOf(t)')
      <3>1. LeasedOf(t)' = Part(leased \cup {c}, ToolOf, t)
        BY <1>1 DEF LeasedOf, Part
      <3>2. Cardinality(Part(leased \cup {c}, ToolOf, t)) =
              IF ToolOf[c] = t THEN Cardinality(Part(leased, ToolOf, t)) + 1
                               ELSE Cardinality(Part(leased, ToolOf, t))
        BY <1>1, AddToPart
      <3>3. byTool[t] = Cardinality(Part(leased, ToolOf, t))
        BY <2>2 DEF CountersExact, LeasedOf, Part
      <3>4. byTool'[t] = IF ToolOf[c] = t THEN byTool[t] + 1 ELSE byTool[t]
        BY <1>2, <2>2 DEF CounterTypes, Admit
      <3> QED  BY <3>1, <3>2, <3>3, <3>4
    <2>3. ASSUME NEW t \in Tenants
          PROVE  byTenant'[t] = Cardinality(LeasedBy(t)')
      <3>1. LeasedBy(t)' = Part(leased \cup {c}, TenantOf, t)
        BY <1>1 DEF LeasedBy, Part
      <3>2. Cardinality(Part(leased \cup {c}, TenantOf, t)) =
              IF TenantOf[c] = t THEN Cardinality(Part(leased, TenantOf, t)) + 1
                                 ELSE Cardinality(Part(leased, TenantOf, t))
        BY <1>1, AddToPart
      <3>3. byTenant[t] = Cardinality(Part(leased, TenantOf, t))
        BY <2>3 DEF CountersExact, LeasedBy, Part
      <3>4. byTenant'[t] = IF TenantOf[c] = t THEN byTenant[t] + 1 ELSE byTenant[t]
        BY <1>2, <2>3 DEF CounterTypes, Admit
      <3> QED  BY <3>1, <3>2, <3>3, <3>4
    <2> QED  BY <2>1, <2>2, <2>3 DEF CountersExact
  <1>6. WithinLimits'
    BY <1>2, ExecutionAssumptions
    DEF ExecutionLimits, WithinLimits, CounterTypes, Admit, AtLimit
  <1> QED  BY <1>3, <1>4, <1>5, <1>6

\* A release finds its lease counted in every counter.
LEMMA ReleaseKeepsAccounting ==
  ASSUME Accounting, NEW c \in Calls, Leaves(c)
  PROVE  Accounting'
  <1> USE DEF Accounting, Leaves
  <1>1. /\ IsFiniteSet(leased) /\ c \in leased /\ leased' = leased \ {c}
    BY DEF CounterTypes, LeaseFollowsWork, Release
  <1>2. ToolOf[c] \in Tools /\ TenantOf[c] \in Tenants
    BY ExecutionAssumptions DEF ExecutionLimits
  <1>3. IsFiniteSet(leased') /\ active' = Cardinality(leased') /\ active' \in Nat
    <2>1. /\ IsFiniteSet(leased \ {c})
          /\ Cardinality(leased \ {c}) = Cardinality(leased) - 1
      BY <1>1, FS_RemoveElement
    <2>2. Cardinality(leased \ {c}) \in Nat
      BY <2>1, FS_CardinalityType
    <2> QED  BY <1>1, <2>1, <2>2 DEF CountersExact, Release
  <1>4. ASSUME NEW t \in Tools
        PROVE  byTool'[t] = Cardinality(LeasedOf(t)') /\ byTool'[t] \in Nat
    <2>1. LeasedOf(t)' = Part(leased \ {c}, ToolOf, t)
      BY <1>1 DEF LeasedOf, Part
    <2>2. Cardinality(Part(leased \ {c}, ToolOf, t)) \in Nat
      BY <1>1, RemoveFromPart
    <2>3. Cardinality(Part(leased \ {c}, ToolOf, t)) =
            IF ToolOf[c] = t THEN Cardinality(Part(leased, ToolOf, t)) - 1
            ELSE Cardinality(Part(leased, ToolOf, t))
      BY <1>1, RemoveFromPart
    <2>4. byTool[t] = Cardinality(Part(leased, ToolOf, t))
      BY <1>4 DEF CountersExact, LeasedOf, Part
    <2>5. byTool'[t] = IF ToolOf[c] = t THEN byTool[t] - 1 ELSE byTool[t]
      BY <1>2, <1>4 DEF CounterTypes, Release
    <2> QED  BY <2>1, <2>2, <2>3, <2>4, <2>5
  <1>5. ASSUME NEW t \in Tenants
        PROVE  byTenant'[t] = Cardinality(LeasedBy(t)') /\ byTenant'[t] \in Nat
    <2>1. LeasedBy(t)' = Part(leased \ {c}, TenantOf, t)
      BY <1>1 DEF LeasedBy, Part
    <2>2. Cardinality(Part(leased \ {c}, TenantOf, t)) \in Nat
      BY <1>1, RemoveFromPart
    <2>3. Cardinality(Part(leased \ {c}, TenantOf, t)) =
            IF TenantOf[c] = t THEN Cardinality(Part(leased, TenantOf, t)) - 1
            ELSE Cardinality(Part(leased, TenantOf, t))
      BY <1>1, RemoveFromPart
    <2>4. byTenant[t] = Cardinality(Part(leased, TenantOf, t))
      BY <1>5 DEF CountersExact, LeasedBy, Part
    <2>5. byTenant'[t] = IF TenantOf[c] = t THEN byTenant[t] - 1 ELSE byTenant[t]
      BY <1>2, <1>5 DEF CounterTypes, Release
    <2> QED  BY <2>1, <2>2, <2>3, <2>4, <2>5
  <1>6. CounterTypes'
    <2>1. leased' \subseteq Calls
      BY <1>1 DEF CounterTypes
    <2>2. byTool' \in [Tools -> Nat]
      BY <1>4 DEF CounterTypes, Release
    <2>3. byTenant' \in [Tenants -> Nat]
      BY <1>5 DEF CounterTypes, Release
    <2> QED  BY <1>3, <2>1, <2>2, <2>3 DEF CounterTypes
  <1>7. LeaseFollowsWork'
    BY <1>1 DEF LeaseFollowsWork
  <1>8. CountersExact'
    BY <1>3, <1>4, <1>5 DEF CountersExact
  <1>9. WithinLimits'
    BY <1>2, ExecutionAssumptions DEF ExecutionLimits, WithinLimits, CounterTypes, Release
  <1> QED  BY <1>6, <1>7, <1>8, <1>9

\* Every step keeps the invariant.
LEMMA NextIInv == IInv /\ [Next]_vars => IInv'
  <1> SUFFICES ASSUME IInv, [Next]_vars PROVE IInv'
    OBVIOUS
  <1> USE DEF IInv
  <1>1. TaskTypes' /\ WorkNeedsCaller'
    BY TaskTypesStep, WorkNeedsCallerStep
  <1>2. Accounting'
    <2>1. CASE Idle
      BY <2>1 DEF Idle, Accounting, CounterTypes, LeaseFollowsWork, CountersExact,
                  WithinLimits, LeasedOf, LeasedBy
    <2>2. ASSUME NEW c \in Calls, Enters(c)
          PROVE  Accounting'
      BY <2>2, AdmitKeepsAccounting
    <2>3. ASSUME NEW c \in Calls, Leaves(c)
          PROVE  Accounting'
      BY <2>3, ReleaseKeepsAccounting
    <2> QED  BY <2>1, <2>2, <2>3, StepCases
  <1> QED  BY <1>1, <1>2

\* The invariant holds in every reachable state.
LEMMA Invariance == Spec => []IInv
  BY InitIInv, NextIInv, PTL DEF Spec

-----------------------------------------------------------------------------
(* The theorems. *)

\* Types of execution.py's state: in particular no counter of the bulkhead goes
\* below zero, however calls are admitted, retried, cancelled and detached.
THEOREM TypeCorrect == Spec => []TypeOK
  <1>1. IInv => TypeOK
    BY DEF IInv, TaskTypes, Accounting, CounterTypes, TypeOK
  <1> QED  BY <1>1, Invariance, PTL

\* The counters are the number of leases, for the process, each tool and each
\* tenant, for any number of calls (admit and release).
THEOREM CountersAreExact == Spec => []CountersExact
  <1>1. IInv => CountersExact
    BY DEF IInv, Accounting
  <1> QED  BY <1>1, Invariance, PTL

\* A lease is held exactly while work runs, also by work whose caller has gone
\* (the finally of _invoke).
THEOREM LeasesFollowWork == Spec => []LeaseFollowsWork
  <1>1. IInv => LeaseFollowsWork
    BY DEF IInv, Accounting
  <1> QED  BY <1>1, Invariance, PTL

\* The limits bound the work that really runs, for every value of the limits
\* and however many callers have given their work up.
THEOREM ConcurrencyIsBounded == Spec => []ConcurrencyBounded
  <1>1. IInv => ConcurrencyBounded
    <2> SUFFICES ASSUME IInv PROVE ConcurrencyBounded
      OBVIOUS
    <2>1. leased = RunningWork
      BY DEF IInv, Accounting, LeaseFollowsWork
    <2>2. Cardinality(RunningWork) <= MaxGlobal /\ Cardinality(RunningWork) <= MaxServer
      BY <2>1 DEF IInv, Accounting, CountersExact, WithinLimits
    <2>3. ASSUME NEW t \in Tools
          PROVE  Cardinality({c \in RunningWork : ToolOf[c] = t}) <= MaxTool
      BY <2>1 DEF IInv, Accounting, CountersExact, WithinLimits, LeasedOf
    <2>4. ASSUME NEW t \in Tenants
          PROVE  Cardinality({c \in RunningWork : TenantOf[c] = t}) <= MaxTenant
      BY <2>1 DEF IInv, Accounting, CountersExact, WithinLimits, LeasedBy
    <2> QED  BY <2>2, <2>3, <2>4 DEF ConcurrencyBounded
  <1> QED  BY <1>1, Invariance, PTL

\* The instance's cardinality is the one of FiniteSets.
LEMMA SameCardinality == \A S : B!Cardinality(S) = Cardinality(S)
  BY DEF B!Cardinality, Cardinality, B!IsFiniteSet, IsFiniteSet

\* A step of Execution is a step of the abstract bulkhead or leaves its holders
\* alone.
LEMMA BulkheadStep == IInv /\ IInv' /\ [Next]_vars => [B!Next]_leased
  <1> SUFFICES ASSUME IInv, IInv', [Next]_vars PROVE [B!Next]_leased
    OBVIOUS
  <1>1. CASE Idle
    BY <1>1 DEF Idle
  <1>2. ASSUME NEW c \in Calls, Enters(c)
        PROVE  B!Next
    <2>1. c \notin leased /\ leased' = leased \cup {c}
      BY <1>2 DEF Enters, Admit, IInv, Accounting, LeaseFollowsWork
    <2>2. B!Within(leased')
      <3>1. Cardinality(leased') <= MaxGlobal /\ Cardinality(leased') <= MaxServer
        BY DEF IInv, Accounting, CountersExact, WithinLimits
      <3>2. ASSUME NEW t \in Tools
            PROVE  Cardinality(B!OfTool(leased', t)) <= MaxTool
        BY DEF IInv, Accounting, CountersExact, WithinLimits, LeasedOf, B!OfTool
      <3>3. ASSUME NEW t \in Tenants
            PROVE  Cardinality(B!OfTenant(leased', t)) <= MaxTenant
        BY DEF IInv, Accounting, CountersExact, WithinLimits, LeasedBy, B!OfTenant
      <3> QED  BY <3>1, <3>2, <3>3, SameCardinality DEF B!Within
    <2> QED  BY <2>1, <2>2 DEF B!Next, B!Acquire
  <1>3. ASSUME NEW c \in Calls, Leaves(c)
        PROVE  B!Next
    <2>1. c \in leased /\ leased' = leased \ {c}
      BY <1>3 DEF Leaves, Release, IInv, Accounting, LeaseFollowsWork
    <2> QED  BY <2>1 DEF B!Next, B!Free
  <1> QED  BY <1>1, <1>2, <1>3, StepCases DEF IInv

\* The controller with its counters implements the bulkhead that is specified
\* without them.
THEOREM ImplementsBulkhead == Spec => BulkheadRefined
  <1>1. Init => B!Init
    BY DEF Init, B!Init
  <1> QED  BY <1>1, BulkheadStep, Invariance, PTL DEF Spec, BulkheadRefined, B!Spec

-----------------------------------------------------------------------------
(* Callers and the work they leave behind. *)

\* How far a call's two tasks can be apart.  A caller that no longer waits has set
\* the linked cancellation, or its work is over; unless its task was cancelled, it
\* ends with its work over or detached.
Followed ==
  \A c \in Calls :
    /\ work[c] = "none" => caller[c] \in {"idle", "returned"}
    /\ work[c] = "created" => caller[c] = "waiting"
    /\ work[c] \in {"none", "created", "authorize"} => attempt[c] = 0
    /\ caller[c] = "idle" => work[c] = "none"
    /\ caller[c] = "waiting" => c \notin detached
    /\ caller[c] \in {"yield", "grace"} => c \in linked
    /\ caller[c] \in {"closing", "returned"} /\ work[c] \in Running => c \in linked
    /\ c \in detached => work[c] \in Running
    /\ caller[c] \in {"closing", "returned"} /\ taskCancels[c] = 0
         => c \in detached \/ work[c] \in {"none", "done"}

\* No call has begun.
LEMMA InitFollowed == Init => Followed
  BY DEF Init, Followed

\* Steps of a work task.
LEMMA WorkStepFollowed ==
  ASSUME TaskTypes, Followed, NEW c \in Calls, WorkStep(c)
  PROVE  Followed'
  <1> USE DEF TaskTypes, Followed, callerVars
  <1>1. CASE StartWork(c)
    BY <1>1 DEF StartWork, EndWork, Running
  <1>2. CASE /\ work[c] \in Running /\ UNCHANGED callerVars
             /\ BeginAttempt(c) \/ \E o : FinishWork(c, o)
    BY <1>2 DEF BeginAttempt, FinishWork, EndWork, Running
  <1>3. CASE Authorize(c)
    BY <1>2, <1>3 DEF Authorize, Running
  <1>4. CASE HandlerEnds(c)
    BY <1>2, <1>4 DEF HandlerEnds, Running
  <1>5. CASE HandlerTransient(c)
    <2>1. CASE \E o : FinishWork(c, o)
      BY <1>2, <1>5, <2>1 DEF HandlerTransient, Running
    <2>2. CASE work' = [work EXCEPT ![c] = "backoff"] /\ UNCHANGED <<attempt, detached>>
      BY <1>5, <2>2 DEF HandlerTransient, Running
    <2> QED  BY <1>5, <2>1, <2>2 DEF HandlerTransient
  <1>6. CASE BackoffEnds(c)
    BY <1>2, <1>6 DEF BackoffEnds, Running
  <1>7. CASE DeliverCancel(c)
    BY <1>7 DEF DeliverCancel, EndWork, Running, workVars
  <1> QED  BY <1>1, <1>3, <1>4, <1>5, <1>6, <1>7 DEF WorkStep

\* Steps of a caller, of another actor and of the clock.
LEMMA OtherStepFollowed ==
  ASSUME TaskTypes, Followed, NEW c \in Calls,
         CallerStep(c) \/ TaskCancelled(c) \/ CancelToken(c) \/ DeadlinePasses(c)
  PROVE  Followed'
  <1> USE DEF TaskTypes, Followed, workVars
  <1>1. CASE Execute(c)
    BY <1>1 DEF Execute, Running
  <1>2. CASE Resume(c)
    BY <1>2 DEF Resume, BeginStop, Closing, Running
  <1>3. CASE AfterYield(c)
    BY <1>3 DEF AfterYield, Closing, Running
  <1>4. CASE GraceEnds(c)
    BY <1>4 DEF GraceEnds, Closing, Running
  <1>5. CASE Return(c)
    BY <1>5 DEF Return, Running
  <1>6. CASE TaskCancelled(c)
    BY <1>6 DEF TaskCancelled, BeginStop, Closing, Running
  <1>7. CASE CancelToken(c) \/ DeadlinePasses(c)
    BY <1>7 DEF CancelToken, DeadlinePasses, callerVars
  <1> QED  BY <1>1, <1>2, <1>3, <1>4, <1>5, <1>6, <1>7 DEF CallerStep

\* Every step keeps callers and work together.
LEMMA NextFollowed ==
  ASSUME TaskTypes, Followed, [Next]_vars
  PROVE  Followed'
  <1>1. CASE UNCHANGED vars
    BY <1>1 DEF vars, workVars, callerVars, Followed
  <1> QED  BY <1>1, WorkStepFollowed, OtherStepFollowed DEF Next

\* What Followed says of _detached.
LEMMA FollowedIsExact == TaskTypes /\ Followed => DetachedExact
  BY DEF TaskTypes, Followed, DetachedExact, Running

\* Followed holds in every state.
LEMMA FollowedInvariance == Spec => []Followed
  <1>1. IInv /\ Followed /\ [Next]_vars => Followed'
    BY NextFollowed DEF IInv
  <1> QED  BY <1>1, InitFollowed, Invariance, PTL DEF Spec

\* _detached holds live work of callers that gave it up, and no answered call
\* leaves other work behind unless its task was cancelled (_stop and the done
\* callback), for any number of calls.
THEOREM DetachedIsExact == Spec => []DetachedExact
  <1>1. IInv /\ Followed => DetachedExact
    BY FollowedIsExact DEF IInv
  <1> QED  BY <1>1, Invariance, FollowedInvariance, PTL

\* An attempt after the first starts only for a caller that still waits: the
\* back-off reads the token and the linked cancellation, which every caller that
\* gives up has set (retry, BackoffEnds).
THEOREM RetriesStop == Spec => NoRetryAfterCancel
  <1> DEFINE Step == \A c \in Calls :
               attempt'[c] > attempt[c] /\ attempt[c] > 0
                 => c \notin token \cup linked /\ caller[c] # "returned"
  <1>1. IInv /\ Followed /\ [Next]_vars => [Step]_vars
    <2> SUFFICES ASSUME IInv, Followed, Next, NEW c \in Calls, attempt'[c] > attempt[c], attempt[c] > 0
                 PROVE  c \notin token \cup linked /\ caller[c] # "returned"
      OBVIOUS
    <2>1. TaskTypes
      BY DEF IInv
    <2>2. PICK d \in Calls : WorkStep(d) \/ CallerStep(d) \/ TaskCancelled(d) \/ CancelToken(d) \/ DeadlinePasses(d)
      BY DEF Next
    <2>3. attempt' # attempt
      BY <2>1 DEF TaskTypes
    <2>4. \/ Authorize(d) /\ BeginAttempt(d)
          \/ BackoffEnds(d) /\ BeginAttempt(d) /\ d \notin linked \cup token
      BY <2>2, <2>3
      DEF WorkStep, StartWork, Authorize, HandlerEnds, HandlerTransient, BackoffEnds,
                        DeliverCancel, FinishWork, CallerStep, Execute, Resume, AfterYield,
                        GraceEnds, Return, TaskCancelled, CancelToken, DeadlinePasses, workVars
    <2>5. d = c
      BY <2>1, <2>4 DEF BeginAttempt, TaskTypes
    <2>6. BackoffEnds(c) /\ c \notin linked \cup token
      BY <2>4, <2>5 DEF Authorize, Followed
    <2> QED  BY <2>6 DEF BackoffEnds, Followed, Running
  <1> HIDE DEF Step
  <1>2. Spec => [][Step]_vars
    BY <1>1, Invariance, FollowedInvariance, PTL DEF Spec
  <1> QED  BY <1>2 DEF NoRetryAfterCancel, Step

-----------------------------------------------------------------------------
(* The application: the same calls during drain and stop. *)

\* The call of an application that is not ready is answered without work.
Refused(c) ==
  /\ caller[c] = "idle"
  /\ caller' = [caller EXCEPT ![c] = "returned"]
  /\ result' = [result EXCEPT ![c] = "unavailable"]
  /\ UNCHANGED <<branch, linked, taskCancels, workVars, signalVars, cancelling, detached>>

\* A step of the application is one of Execution, or refuses a call, or leaves the
\* calls alone.
LEMMA AppStepCases ==
  ASSUME [AppNext]_allVars
  PROVE  [Next]_vars \/ \E c \in Calls : Refused(c)
  <1>1. CASE UNCHANGED allVars
    BY <1>1 DEF allVars
  <1>2. ASSUME NEW c \in Calls, Invoke(c)
        PROVE  Next \/ Refused(c)
    BY <1>2 DEF Invoke, Next, CallerStep, Refused
  <1>3. ASSUME NEW c \in Calls, Proceed(c) \/ Interrupted(c)
        PROVE  Next
    BY <1>3 DEF Proceed, Interrupted, Next, CallerStep
  <1>4. ASSUME NEW c \in Calls, TransportCancel(c)
        PROVE  UNCHANGED vars
    BY <1>4 DEF TransportCancel
  <1>5. ASSUME NEW c \in Calls, WorkStep(c) \/ CancelToken(c) \/ DeadlinePasses(c)
        PROVE  Next
    BY <1>5 DEF Next
  <1>6. BeginDrain \/ StopDeadline \/ ShutdownStep => UNCHANGED vars
    BY DEF BeginDrain, StopDeadline, ShutdownStep, CallsDrained, DrainDeadline, DrainEnds,
           BeginStopping, StopEnds, StopFails
  <1> QED  BY <1>1, <1>2, <1>3, <1>4, <1>5, <1>6 DEF AppNext

\* A refused call touches nothing that the invariants of Execution speak of.
LEMMA RefusedKeeps ==
  ASSUME IInv, Followed, NEW c \in Calls, Refused(c)
  PROVE  IInv' /\ Followed'
  <1>1. TaskTypes'
    BY DEF IInv, TaskTypes, Refused, workVars, signalVars, Codes, Running
  <1>2. WorkNeedsCaller'
    BY DEF IInv, TaskTypes, WorkNeedsCaller, Refused, workVars
  <1>3. Accounting'
    BY
    DEF IInv, Accounting, CounterTypes, LeaseFollowsWork, RunningWork, CountersExact, LeasedOf,
           LeasedBy, WithinLimits, Refused, workVars
  <1>4. Followed'
    BY DEF IInv, TaskTypes, Followed, Refused, workVars, Running
  <1> QED  BY <1>1, <1>2, <1>3, <1>4 DEF IInv

\* While the application drains no call begins, and those in flight when the
\* deadline passed are the ones it joins.
DrainInv ==
  /\ appState = "ready" <=> op = "serving"
  /\ op = "drain_join" => InFlight \subseteq joining
  /\ DrainJoinsCalls

\* Only Execute adds a call to those in flight.
LEMMA InFlightGrows ==
  ASSUME TaskTypes, [AppNext]_allVars
  PROVE  InFlight' \subseteq InFlight \/ (appState = "ready" /\ UNCHANGED appVars)
  <1>1. CASE UNCHANGED caller
    BY <1>1 DEF InFlight
  <1>2. ASSUME NEW c \in Calls, Invoke(c)
        PROVE  InFlight' \subseteq InFlight \/ (appState = "ready" /\ UNCHANGED appVars)
    BY <1>2 DEF Invoke, InFlight, TaskTypes
  <1>3. ASSUME NEW c \in Calls, Proceed(c) \/ Interrupted(c)
        PROVE  InFlight' \subseteq InFlight
    <2>1. caller[c] \in {"waiting", "yield", "grace", "closing"} /\ \E w : caller' = [caller EXCEPT ![c] = w]
      BY <1>3 DEF Proceed, Interrupted, Resume, AfterYield, GraceEnds, Return, TaskCancelled,
                  BeginStop, Closing
    <2> QED  BY <2>1 DEF InFlight, TaskTypes
  <1>4. UNCHANGED allVars => UNCHANGED caller
    BY DEF allVars, vars, callerVars
  <1>5. ASSUME NEW c \in Calls,
               TransportCancel(c) \/ WorkStep(c) \/ CancelToken(c) \/ DeadlinePasses(c)
        PROVE  UNCHANGED caller
    BY <1>5 DEF TransportCancel, WorkStep, StartWork, Authorize, HandlerEnds, HandlerTransient,
                BackoffEnds, DeliverCancel, CancelToken, DeadlinePasses, callerVars, vars
  <1>6. BeginDrain \/ StopDeadline \/ ShutdownStep => UNCHANGED caller
    BY DEF BeginDrain, StopDeadline, ShutdownStep, CallsDrained, DrainDeadline, DrainEnds,
           BeginStopping, StopEnds, StopFails, vars, callerVars
  <1> QED  BY <1>1, <1>2, <1>3, <1>4, <1>5, <1>6 DEF AppNext

\* Every step of the application keeps DrainInv.
LEMMA NextDrainInv ==
  ASSUME TaskTypes, DrainInv, [AppNext]_allVars
  PROVE  DrainInv'
  <1>1. CASE UNCHANGED <<appState, op, joining>>
    BY <1>1, InFlightGrows DEF DrainInv, DrainJoinsCalls
  <1>2. CASE BeginDrain \/ StopDeadline \/ ShutdownStep
    <2>1. InFlight' = InFlight
      BY <1>2
      DEF BeginDrain, StopDeadline, ShutdownStep, CallsDrained, DrainDeadline, DrainEnds,
                  BeginStopping, StopEnds, StopFails, vars, callerVars, InFlight
    <2> QED  BY <1>2, <2>1
             DEF BeginDrain, StopDeadline, ShutdownStep, CallsDrained, DrainDeadline, DrainEnds,
                 BeginStopping, StopEnds, StopFails, CancelCalls, Joined, DrainInv, DrainJoinsCalls
  <1>3. UNCHANGED <<appState, op, joining>> \/ BeginDrain \/ StopDeadline \/ ShutdownStep
    BY DEF AppNext, Invoke, Proceed, Interrupted, TransportCancel, appVars, allVars
  <1> QED  BY <1>1, <1>2, <1>3

\* The invariants of Execution hold in the application as well.
LEMMA AppInvariance == AppSpec => [](IInv /\ Followed /\ DrainInv)
  <1>1. AppInit => IInv /\ Followed /\ DrainInv
    BY InitIInv, InitFollowed DEF AppInit, DrainInv, DrainJoinsCalls
  <1>2. IInv /\ Followed /\ DrainInv /\ [AppNext]_allVars => (IInv /\ Followed /\ DrainInv)'
    BY AppStepCases, NextIInv, NextFollowed, RefusedKeeps, NextDrainInv DEF IInv
  <1> QED  BY <1>1, <1>2, PTL DEF AppSpec

\* Drain ends only with every accepted call answered, and none registers afterwards,
\* for any number of calls and whenever the deadline passes (_InvocationLifecycle).
THEOREM DrainJoinsAllCalls == AppSpec => []DrainJoinsCalls
  BY AppInvariance, PTL DEF DrainInv

\* Drain, stop and refused calls leave the bulkhead exact: its counters, its leases
\* and _detached are those of the work that runs, throughout the shutdown.
THEOREM ShutdownKeepsAccounts == AppSpec => [](CountersExact /\ LeaseFollowsWork /\ DetachedExact)
  <1>1. IInv /\ Followed => CountersExact /\ LeaseFollowsWork /\ DetachedExact
    BY FollowedIsExact DEF IInv, Accounting
  <1> QED  BY <1>1, AppInvariance, PTL
=============================================================================
