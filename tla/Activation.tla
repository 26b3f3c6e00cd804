----------------------------- MODULE Activation ------------------------------
(***************************************************************************)
(* ActivationWaiter (tesserix_mcp_publisher/activation.py) polls the       *)
(* Registry's activation status of one published version until it reaches  *)
(* a phase, ends in another, is superseded, or the deadline passes.        *)
(*                                                                         *)
(* The Registry and the controllers that write conditions are external.    *)
(* Reads may be served by a replica that is behind, so a later poll may    *)
(* return an earlier status.                                               *)
(***************************************************************************)
EXTENDS Naturals, Sequences, FiniteSets, PythonNone

CONSTANTS
  Goals,          \* phases a caller may wait for
  ConditionSets,  \* sets of conditions the controllers bring about
  MaxLog,         \* bound: statuses the Registry writes
  MaxGeneration   \* bound: generations

\* ActivationConditionType.
Readiness == {"Published", "DeploymentReady", "ProbeReady", "Healthy", "RouteReady"}
Conditions == Readiness \cup {"Failed"}

ASSUME ActivationAssumptions ==
  /\ MaxLog \in Nat \ {0} /\ MaxGeneration \in Nat \ {0}
  /\ ConditionSets \subseteq SUBSET Conditions /\ None \notin Nat

VARIABLES
  goal,       \* target_phase
  asked,      \* the generation the caller names, or None
  pin,        \* generation: the one that is followed, or None
  log,        \* the statuses the Registry has written; observed_at is the index
  wait,       \* the waiter: poll, fetch, sleep or done
  late,       \* the deadline has passed
  lastAt,     \* last_observed_at, 0 before the first status
  last,       \* last_status, an index of log, 0 before the first
  ending      \* how wait ended: [how, at], at an index of log or 0

actVars == <<goal, asked, pin, log, wait, late, lastAt, last, ending>>

-----------------------------------------------------------------------------
(* ActivationStatus.  A status is a record: the conditions that are True,      *)
(* whether published_at and active_at are set, and whether its ref and digests *)
(* are those of the target.                                                    *)

\* _derived_phase: the one phase a status may claim; a status that claims another,
\* or fits none, is a contract error.
DerivedPhase(st) ==
  LET holds == st.true IN
  IF st.desired = "draft"
    THEN IF st.publishedAt \/ st.activeAt \/ "Published" \in holds THEN "invalid" ELSE "draft"
  ELSE IF ~(st.publishedAt /\ "Published" \in holds) THEN "invalid"
  ELSE IF st.desired \in {"retired", "deprecated"}
    THEN IF st.activeAt THEN st.desired ELSE "invalid"
  ELSE IF "Failed" \in holds THEN IF st.activeAt THEN "invalid" ELSE "failed"
  ELSE IF Readiness \subseteq holds THEN IF st.activeAt THEN "active" ELSE "invalid"
  ELSE IF st.activeAt THEN "degraded"
  ELSE IF {"DeploymentReady", "ProbeReady", "Healthy"} \subseteq holds THEN "probed"
  ELSE IF "DeploymentReady" \in holds THEN "deployed"
  ELSE "published"

Terminal == {"deprecated", "retired", "failed"}

\* _reached: progress phases are ordered, the others stand for themselves.
Rank == [draft |-> 0, published |-> 1, deployed |-> 2, probed |-> 3, active |-> 4]

ReachedGoal(phase) ==
  \/ phase = goal
  \/ phase \in DOMAIN Rank /\ goal \in DOMAIN Rank /\ Rank[phase] >= Rank[goal]

-----------------------------------------------------------------------------
(* The Registry (external). *)

First == [gen |-> 1, desired |-> "published", true |-> {"Published"},
          publishedAt |-> TRUE, activeAt |-> FALSE, exact |-> TRUE]

ActInit ==
  /\ goal \in Goals /\ asked \in {None} \cup 1..MaxGeneration /\ pin = asked
  /\ log = <<First>>
  /\ wait = "poll" /\ late = FALSE
  /\ lastAt = 0 /\ last = 0 /\ ending = None

Now == log[Len(log)]

\* Conditions are set and cleared by their owners, the version is deprecated or
\* retired, or a new generation of the deployment starts, of the same artifact or of
\* another.  active_at is set with the last condition.
Written(st) ==
  /\ Len(log) < MaxLog
  /\ log' = Append(log, st)
  /\ UNCHANGED <<goal, asked, pin, wait, late, lastAt, last, ending>>

ConditionChanges ==
  /\ Now.desired = "published"
  /\ \E true \in ConditionSets \ {Now.true} :
       Written([Now EXCEPT !.true = true, !.activeAt = @ \/ Readiness \subseteq true])

Withdrawn == \E d \in {"deprecated", "retired"} : Written([Now EXCEPT !.desired = d])

Redeployed ==
  /\ Now.gen < MaxGeneration
  /\ \E exact \in BOOLEAN : Written([First EXCEPT !.gen = Now.gen + 1, !.exact = exact])

-----------------------------------------------------------------------------
(* wait. *)

Unheard == UNCHANGED <<goal, asked, pin, log>>

Finish(how, at) == wait' = "done" /\ ending' = [how |-> how, at |-> at]

DeadlinePasses ==
  /\ wait # "done" /\ ~late
  /\ late' = TRUE
  /\ UNCHANGED <<goal, asked, pin, log, wait, lastAt, last, ending>>

\* The top of the loop: a poll under the time that remains, or the timeout with
\* the last status.
Poll ==
  /\ wait = "poll"
  /\ \/ ~late /\ wait' = "fetch" /\ UNCHANGED ending
     \/ late /\ Finish("timeout", last)
  /\ UNCHANGED <<late, lastAt, last>> /\ Unheard

\* Mutant of FetchTimeout: the poll is not bounded by the deadline.
FetchTimeoutNever == FALSE

FetchTimeout ==
  /\ wait = "fetch" /\ late
  /\ Finish("timeout", last)
  /\ UNCHANGED <<late, lastAt, last>> /\ Unheard

\* fetch_activation raises: a retryable error is another poll, if time is left;
\* any other ends the wait.
FetchFails ==
  /\ wait = "fetch"
  /\ \/ Finish("error", 0)
     \/ late /\ Finish("timeout", last)
     \/ ~late /\ wait' = "sleep" /\ UNCHANGED ending
  /\ UNCHANGED <<late, lastAt, last>> /\ Unheard

\* _matches_target.
MatchesTarget(st, generation) == st.exact /\ st.gen = generation

\* fetch_activation itself refuses another artifact, a status that does not claim
\* the phase its conditions give it, and a generation other than the one the caller
\* names.
Refusal(st) ==
  IF ~st.exact THEN "superseded"
  ELSE IF DerivedPhase(st) = "invalid" THEN "contract"
  ELSE IF asked # None /\ st.gen # asked THEN "superseded"
  ELSE None

\* Mutants of Judge: a status is judged although it is older than one already
\* seen; the first generation seen is not held on to.
JudgeOlder(at) ==
  LET st == log[at]
      pinned == IF pin = None THEN st.gen ELSE pin IN
  /\ lastAt' = at /\ last' = at /\ pin' = pinned
  /\ \/ st.gen # pinned /\ Finish("superseded", at)
     \/ st.gen = pinned /\ ReachedGoal(DerivedPhase(st)) /\ Finish("reached", at)
     \/ /\ st.gen = pinned /\ ~ReachedGoal(DerivedPhase(st))
        /\ \/ DerivedPhase(st) \in Terminal /\ Finish("terminal", at)
           \/ DerivedPhase(st) \notin Terminal /\ wait' = "sleep" /\ UNCHANGED ending

JudgeUnpinned(at) ==
  LET st == log[at] IN
  /\ last' = at /\ UNCHANGED pin
  /\ \/ at < lastAt /\ Finish("contract", at) /\ UNCHANGED lastAt
     \/ /\ at >= lastAt /\ lastAt' = at
        /\ IF ReachedGoal(DerivedPhase(st)) THEN Finish("reached", at)
           ELSE IF DerivedPhase(st) \in Terminal THEN Finish("terminal", at)
           ELSE wait' = "sleep" /\ UNCHANGED ending

\* A status in time: it must not be older than the last one, the first one pins
\* the generation and the others must have it, and then its phase decides.
Judge(at) ==
  LET st == log[at]
      pinned == IF pin = None THEN st.gen ELSE pin IN
  /\ last' = at
  /\ \/ /\ at < lastAt /\ Finish("contract", at)
        /\ UNCHANGED <<lastAt, pin>>
     \/ /\ at >= lastAt /\ lastAt' = at /\ pin' = pinned
        /\ IF ~MatchesTarget(st, pinned) THEN Finish("superseded", at)
           ELSE IF ReachedGoal(DerivedPhase(st)) THEN Finish("reached", at)
           ELSE IF DerivedPhase(st) \in Terminal THEN Finish("terminal", at)
           ELSE wait' = "sleep" /\ UNCHANGED ending

\* The poll is answered from any replica; a status that arrives when the time is
\* over is reported with the timeout, unchecked.
Fetched ==
  /\ wait = "fetch"
  /\ \E at \in 1..Len(log) :
       LET refusal == Refusal(log[at]) IN
       \/ refusal # None /\ Finish(refusal, at) /\ UNCHANGED <<lastAt, last, pin>>
       \/ refusal = None /\ late /\ Finish("timeout", at) /\ last' = at
          /\ UNCHANGED <<lastAt, pin>>
       \/ refusal = None /\ ~late /\ Judge(at)
  /\ UNCHANGED <<late, goal, asked, log>>

Wake ==
  /\ wait = "sleep"
  /\ wait' = "poll"
  /\ UNCHANGED <<late, lastAt, last, ending>> /\ Unheard

-----------------------------------------------------------------------------
ActNext ==
  \/ ConditionChanges \/ Withdrawn \/ Redeployed
  \/ DeadlinePasses \/ Poll \/ FetchTimeout \/ FetchFails \/ Fetched \/ Wake

\* Time passes and the waiter's loop goes on; nothing is assumed of the Registry.
ActFairness ==
  /\ WF_actVars(DeadlinePasses) /\ WF_actVars(FetchTimeout)
  /\ WF_actVars(Poll) /\ WF_actVars(Wake)

ActSpec == ActInit /\ [][ActNext]_actVars /\ ActFairness

-----------------------------------------------------------------------------
(* Properties. *)

\* A wait succeeds, or reports a terminal phase, only on a status of the published
\* artifact and of the one generation it follows, never on one older than a status
\* it has already seen; and one that succeeds has really reached the phase.
VerdictIsCurrent ==
  ending # None /\ ending.how \in {"reached", "terminal"} =>
    /\ log[ending.at].gen = pin /\ log[ending.at].exact /\ ending.at = lastAt
    /\ (ending.how = "reached") = ReachedGoal(DerivedPhase(log[ending.at]))

\* Statuses are used in the order they were observed, and one generation of the
\* version is followed from the first to the last.
OneGenerationForward ==
  [][/\ lastAt' >= lastAt
     /\ lastAt > 0 /\ lastAt' # lastAt => pin' = pin
     /\ lastAt > 0 /\ wait' = "sleep" => log[lastAt'].gen = pin]_actVars

\* However often the Registry fails or stays silent, a wait ends.
WaitEnds == <>(wait = "done")
=============================================================================
