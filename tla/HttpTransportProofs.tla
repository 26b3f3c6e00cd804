------------------------ MODULE HttpTransportProofs --------------------------
(***************************************************************************)
(* Proofs about HttpTransport (with HttpSessions), for every set of        *)
(* requests, sessions and owners and every limit: the table of sessions,   *)
(* the map of cancellation tokens and the answers.                         *)
(*                                                                         *)
(* Three invariants are inductive one after the other.  PlaceInv ties what *)
(* a request has to where it is.  SessionInv follows a session through its *)
(* life: the request that made it registers it once, so what is listed,    *)
(* leased or waits to be pruned is a registered session, and a reserved    *)
(* one is none of these.  CountInv counts reservations and references, and *)
(* TokenInv says whose token is at a key.  SessionCases lists all that a   *)
(* step can do to the table; SessionInv and CountInv rest on it.           *)
(***************************************************************************)
EXTENDS HttpTransport, FiniteSetTheorems, TLAPS

-----------------------------------------------------------------------------
(* The invariants. *)

SessionTypes ==
  /\ record \in [Ids -> {"absent", "live", "expired"}]
  /\ owner \in [Ids -> Owners \cup {None}]
  /\ inFlight \in [Ids -> Nat] /\ pending \in Nat
  /\ sdk \subseteq Ids
  /\ lease \in [Requests -> Ids \cup {None, "reserved"}]
  /\ prune \in [Requests -> SUBSET Ids]
  /\ made \in [Requests -> Ids \cup {None}]

Places == {"idle", "auth", "admitted", "rejected", "running", "sending", "done"}
TaskStates == {"none", "running", "detached", "ok", "failed", "incomplete", "raised"}

RequestTypes ==
  /\ pc \in [Requests -> Places]
  /\ task \in [Requests -> TaskStates]
  /\ call \in [Requests -> {"none", "active", "ended"}]
  /\ active \in [Keys -> Requests \cup {None}]
  /\ answers \in [Requests -> Nat]

\* A request has nothing before its admission; only a running one has a task to
\* settle; one that is rejected or sends its response has given its lease back.  In
\* stateless mode a request with a session is not let in.
Placed ==
  \A r \in Requests :
    /\ pc[r] \in {"idle", "auth"} => lease[r] = None /\ made[r] = None
    /\ pc[r] \in {"idle", "auth", "admitted", "rejected"} => task[r] = "none" /\ call[r] = "none"
    /\ pc[r] \in {"rejected", "sending"} => lease[r] = None
    /\ task[r] \in {"running", "ok", "failed", "incomplete", "raised"} => pc[r] = "running"
    /\ Stateless /\ pc[r] \in {"auth", "admitted", "rejected", "running"} => Target[r] = None

\* A request that was given up while its SDK task ran.
GivenUp(r) == task[r] = "detached" /\ r \in entitled

\* The response starts with the step that leads to "sending" or "done"; it is that of a
\* request that was given up, or committed.
Replies ==
  \A r \in Requests :
    /\ pc[r] \notin {"sending", "done"} => answers[r] = 0 /\ r \notin committed
    /\ pc[r] = "sending" => answers[r] = 1 /\ (r \in committed \/ GivenUp(r))
    /\ pc[r] = "done" =>
         \/ answers[r] = 1
         \/ answers[r] = 0 /\ r \in gone /\ r \notin committed
         \/ answers[r] = 2 /\ GivenUp(r) /\ r \notin committed

PlaceInv == RequestTypes /\ Placed /\ Replies /\ StrandedAsKnown

\* The request that made a session has settled, so the session is registered or
\* was refused.
Registered(s) == \E q \in Requests : made[q] = s /\ lease[q] # "reserved"

MadeOnce == \A q, r \in Requests : made[q] = made[r] /\ made[q] # None => q = r

\* Listed sessions have the owner of their maker; leased sessions and those to be
\* pruned are registered, and the latter are not listed.
ListedRegistered ==
  \A s \in Table : \E q \in Requests :
    made[q] = s /\ lease[q] # "reserved" /\ owner[s] = OwnerOf[q]
LeasedRegistered == \A r \in Requests : lease[r] \in Ids => Registered(lease[r])
PrunedRegistered == \A r \in Requests : \A s \in prune[r] : Registered(s) /\ s \notin Table

\* A session made for a reservation is still in the SDK's registry.
ReservedInSdk == \A r \in Requests : lease[r] = "reserved" /\ made[r] # None => made[r] \in sdk

SessionInv ==
  /\ SessionTypes /\ MadeOnce /\ ListedRegistered /\ LeasedRegistered
  /\ PrunedRegistered /\ ReservedInSdk /\ TableInSdk

\* Requests the transport has let in and that may still act.
Inside(r) == pc[r] \in {"admitted", "running"} \/ task[r] # "none" \/ call[r] = "active"

\* A request that is inside on a session has the owner of the session's maker.
InsideOwns ==
  \A r \in Requests : Inside(r) /\ Target[r] # None =>
    \E q \in Requests : made[q] = Target[r] /\ OwnerOf[q] = OwnerOf[r]

\* The requests that hold a lease of v, a session or a reservation.
Users(v) == {r \in Requests : lease[r] = v}

ReservesCounted == pending = Cardinality(Users("reserved"))
UsesCounted == \A s \in Table : inFlight[s] = Cardinality(Users(s))

\* References are exact also after stop, which forgets the sessions they are to.
CountInv ==
  /\ IsFiniteSet(Arrived) /\ IsFiniteSet(Table)
  /\ WithinCapacity /\ UsesCounted
  /\ phase # "stopped" => ReservesCounted

\* Nobody uses a session that is to be pruned.
PrunedUnused == \A q, r \in Requests : lease[r] \notin prune[q]

\* Only calls are active, and their tokens are at their keys.
TokenInv == (\A r \in Requests : call[r] # "none" => r \in Calls) /\ TokensExact

\* What a call or a notification names is a key of the map.
LEMMA KeyType ==
  ASSUME NEW r \in Calls \cup Notifies
  PROVE  Key(r) \in Keys /\ r \in Requests
  BY SessionAssumptions, TransportAssumptions DEF Key, Keys

-----------------------------------------------------------------------------
(* Where requests are. *)

\* Nothing has arrived.
LEMMA InitPlaceInv == TransportInit => PlaceInv
  <1> SUFFICES ASSUME TransportInit PROVE PlaceInv
    OBVIOUS
  <1>1. RequestTypes
    BY DEF TransportInit, SessionsInit, RequestTypes, Places, TaskStates
  <1>2. Placed
    BY DEF TransportInit, SessionsInit, Placed
  <1>3. Replies /\ StrandedAsKnown
    BY DEF TransportInit, SessionsInit, Replies, StrandedAsKnown, Stranded
  <1> QED  BY <1>1, <1>2, <1>3 DEF PlaceInv

\* Steps that move no request.
LEMMA StillKeepsPlaceInv ==
  ASSUME PlaceInv, UNCHANGED <<pc, leaked, task, call, active, replyVars>>,
         entitled \subseteq entitled',
         \/ UNCHANGED <<lease, made>>
         \/ \E r \in Requests : /\ task[r] = "running" /\ UNCHANGED lease
                                 /\ \A x \in Requests : x # r => made'[x] = made[x]
  PROVE  PlaceInv'
  BY DEF PlaceInv, RequestTypes, Placed, Replies, GivenUp, StrandedAsKnown, Stranded, replyVars

\* A request moves on without an answer.
LEMMA SilentKeepsPlaceInv ==
  ASSUME PlaceInv, NEW r \in Requests, NEW where \in {"auth", "admitted", "rejected", "running"},
         pc[r] \in {"idle", "auth", "admitted", "rejected"}, pc' = [pc EXCEPT ![r] = where],
         where = "auth" => pc[r] = "idle" /\ UNCHANGED lease /\ (Stateless => Target[r] = None),
         where # "auth" => pc[r] # "idle",
         where = "rejected" => lease'[r] = None,
         \A x \in Requests : x # r => lease'[x] = lease[x],
         task' = [task EXCEPT ![r] = task'[r]], task'[r] \in {task[r], "running"},
         task'[r] # "none" => where = "running",
         UNCHANGED <<made, leaked, call, active, replyVars, entitled>>
  PROVE  PlaceInv'
  <1>1. RequestTypes'
    BY DEF PlaceInv, RequestTypes, Places, TaskStates, replyVars
  <1>2. Placed'
    BY DEF PlaceInv, RequestTypes, Placed, Places, TaskStates
  <1>3. Replies'
    BY DEF PlaceInv, RequestTypes, Replies, GivenUp, Places, replyVars
  <1>4. StrandedAsKnown'
    BY DEF PlaceInv, RequestTypes, StrandedAsKnown, Stranded
  <1> QED  BY <1>1, <1>2, <1>3, <1>4 DEF PlaceInv

\* What the client of r gets as r ends: a response, which is the committed one or that
\* of a request given up, or none; nothing more after its start, or a second one.
Ended(r, where) ==
  \/ /\ pc[r] \notin {"sending", "done"}
     /\ answers' = [answers EXCEPT ![r] = @ + 1] /\ UNCHANGED gone
     /\ committed' \in {committed, committed \cup {r}}
     /\ where = "sending" => r \in committed' \/ GivenUp(r)'
  \/ /\ pc[r] \notin {"sending", "done"} /\ where = "done"
     /\ gone' = gone \cup {r} /\ UNCHANGED <<answers, committed>>
  \/ /\ pc[r] = "sending" /\ where = "done" /\ gone \subseteq gone'
     /\ UNCHANGED <<answers, committed, task>>
  \/ /\ pc[r] = "sending" /\ where = "done" /\ r \notin committed
     /\ answers' = [answers EXCEPT ![r] = @ + 1] /\ UNCHANGED <<gone, committed, task>>

\* A request ends, with an answer or given up.
LEMMA EndKeepsPlaceInv ==
  ASSUME PlaceInv, NEW r \in Requests, NEW where \in {"sending", "done"},
         pc' = [pc EXCEPT ![r] = where], Ended(r, where),
         where = "sending" => lease'[r] = None,
         where = "done" => lease'[r] = None \/ r \in leaked',
         leaked \subseteq leaked', entitled \subseteq entitled',
         \A x \in Requests : x # r => lease'[x] = lease[x],
         task' = [task EXCEPT ![r] = task'[r]], task'[r] \in {"none", "detached"},
         UNCHANGED <<made, call, active>>
  PROVE  PlaceInv'
  <1>1. RequestTypes'
    BY DEF PlaceInv, RequestTypes, Places, TaskStates, Ended
  <1>2. Placed'
    BY DEF PlaceInv, RequestTypes, Placed, Places, TaskStates
  <1>3. Replies'
    <2>1. ASSUME NEW x \in Requests, x # r
          PROVE  /\ pc'[x] = pc[x] /\ answers'[x] = answers[x] /\ (GivenUp(x) => GivenUp(x)')
                 /\ x \in committed' <=> x \in committed
                 /\ x \in gone => x \in gone'
      BY <2>1 DEF PlaceInv, RequestTypes, GivenUp, Ended
    <2>2. pc'[r] = where
      BY DEF PlaceInv, RequestTypes
    <2>3. CASE pc[r] \notin {"sending", "done"}
      <3>1. answers[r] = 0 /\ r \notin committed
        BY <2>3 DEF PlaceInv, Replies
      <3>2. CASE answers' = [answers EXCEPT ![r] = @ + 1]
        <4>1. answers'[r] = 1
          BY <3>1, <3>2 DEF PlaceInv, RequestTypes
        <4> QED  BY <2>1, <2>2, <2>3, <4>1 DEF PlaceInv, Replies, Ended
      <3>3. CASE where = "done" /\ gone' = gone \cup {r} /\ UNCHANGED <<answers, committed>>
        BY <2>1, <2>2, <3>1, <3>3 DEF PlaceInv, Replies
      <3> QED  BY <2>3, <3>2, <3>3 DEF Ended
    <2>4. CASE pc[r] = "sending"
      <3>1. /\ answers[r] = 1 /\ (r \in committed \/ GivenUp(r)) /\ where = "done"
            /\ UNCHANGED <<committed, task>> /\ (GivenUp(r) => GivenUp(r)')
        BY <2>4 DEF PlaceInv, Replies, Ended, GivenUp
      <3>2. CASE UNCHANGED answers
        BY <2>1, <2>2, <3>1, <3>2 DEF PlaceInv, Replies
      <3>3. CASE r \notin committed /\ answers' = [answers EXCEPT ![r] = @ + 1]
        <4>1. answers'[r] = 2
          BY <3>1, <3>3 DEF PlaceInv, RequestTypes
        <4> QED  BY <2>1, <2>2, <3>1, <3>3, <4>1 DEF PlaceInv, Replies
      <3> QED  BY <2>4, <3>2, <3>3 DEF Ended
    <2> QED  BY <2>3, <2>4 DEF Ended
  <1>4. StrandedAsKnown'
    BY DEF PlaceInv, RequestTypes, StrandedAsKnown, Stranded
  <1> QED  BY <1>1, <1>2, <1>3, <1>4 DEF PlaceInv

\* Steps of the calls and of signals move no request and only add to entitled and gone.
LEMMA SignalKeepsReplies ==
  ASSUME PlaceInv, UNCHANGED <<pc, lease, made, leaked, answers, committed>>,
         gone \subseteq gone', entitled \subseteq entitled',
         \A x \in Requests : task[x] = "detached" => task'[x] = "detached"
  PROVE  Replies' /\ StrandedAsKnown'
  BY DEF PlaceInv, Replies, GivenUp, StrandedAsKnown, Stranded

\* Every step keeps PlaceInv, given the types of the table.
LEMMA NextPlaceInv ==
  ASSUME SessionTypes, PlaceInv, [TransportNext]_allVars
  PROVE  PlaceInv'
  <1>1. CASE UNCHANGED allVars
    BY <1>1, StillKeepsPlaceInv
    DEF allVars, vars, tableVars, requestVars, taskVars, signalVars, replyVars
  <1>2. CASE Start \/ Started \/ StartFails \/ Drain
    BY <1>2, StillKeepsPlaceInv
    DEF Start, Started, StartFails, Drain, Quiet, vars, requestVars, taskVars, signalVars,
        replyVars
  <1>3. CASE Stop
    <2>1. UNCHANGED <<pc, lease, made, leaked, answers, committed, gone, entitled, task, call>>
      BY <1>3 DEF Stop, requestVars, replyVars, signalVars
    <2>2. active' \in [Keys -> Requests \cup {None}]
      BY <1>3 DEF Stop
    <2> QED  BY <2>1, <2>2, SignalKeepsReplies DEF PlaceInv, RequestTypes, Placed
  <1>4. ASSUME NEW s \in Ids, Expire(s), UNCHANGED <<phase, taskVars, replyVars>>
        PROVE  PlaceInv'
    BY <1>4, StillKeepsPlaceInv DEF Expire, requestVars, taskVars, signalVars, replyVars
  <1>5. ASSUME NEW r \in Requests, Arrive(r)
        PROVE  PlaceInv'
    <2>1. CASE Goto(r, "auth") /\ UNCHANGED replyVars
      BY <1>5, <2>1, SilentKeepsPlaceInv
      DEF Arrive, Goto, Moved, taskVars, signalVars, PlaceInv, RequestTypes, Placed
    <2>2. CASE Goto(r, "done") /\ Answer(r)
      BY <1>5, <2>2, EndKeepsPlaceInv
      DEF Arrive, Goto, Moved, Answer, Ended, taskVars, signalVars, PlaceInv, RequestTypes, Placed
    <2> QED  BY <1>5, <2>1, <2>2 DEF Arrive
  <1>6. ASSUME NEW r \in Requests, Unauthorized(r)
        PROVE  PlaceInv'
    BY <1>6, EndKeepsPlaceInv
    DEF Unauthorized, Goto, Moved, Answer, Ended, taskVars, signalVars, PlaceInv, RequestTypes,
        Placed
  <1>7. ASSUME NEW r \in Requests, Enter(r)
        PROVE  PlaceInv'
    <2>1. /\ pc[r] \in {"auth", "admitted", "rejected"} /\ task[r] = "none"
          /\ \A x \in Requests : x # r => lease'[x] = lease[x]
          /\ \E where \in {"admitted", "rejected", "running", "done"} :
               /\ pc' = [pc EXCEPT ![r] = where]
               /\ where \in {"rejected", "done"} => lease'[r] = None
          /\ UNCHANGED <<made, leaked, call, active, entitled>>
      <3>1. CASE Admit(r)
        BY <1>7, <3>1
        DEF Enter, Admit, Verdict, Passed, signalVars, SessionTypes, PlaceInv, RequestTypes,
            Placed, TaskStates
      <3>2. CASE PruneOne(r)
        BY <1>7, <3>2
        DEF Enter, PruneOne, Passed, tableVars, signalVars, SessionTypes, PlaceInv,
            RequestTypes, Placed, TaskStates
      <3> QED  BY <1>7, <3>1, <3>2 DEF Enter
    <2>2. PICK where \in {"admitted", "rejected", "running", "done"} :
             /\ pc' = [pc EXCEPT ![r] = where]
             /\ where \in {"rejected", "done"} => lease'[r] = None
      BY <2>1
    <2>3. pc'[r] = where
      BY <2>2 DEF PlaceInv, RequestTypes
    <2>4. task' = [task EXCEPT ![r] = IF where = "running" THEN "running" ELSE task[r]]
      BY <1>7, <2>3 DEF Enter
    <2>5. CASE where = "done"
      <3>1. task' = task /\ Answer(r)
        BY <1>7, <2>3, <2>4, <2>5 DEF Enter, AnswerIfDone, PlaceInv, RequestTypes
      <3> QED  BY <2>1, <2>2, <2>5, <3>1, EndKeepsPlaceInv
               DEF Answer, Ended, PlaceInv, RequestTypes
    <2>6. CASE where # "done"
      <3>1. UNCHANGED replyVars
        BY <1>7, <2>3, <2>6 DEF Enter, AnswerIfDone
      <3> QED  BY <2>1, <2>2, <2>4, <2>6, <3>1, SilentKeepsPlaceInv DEF PlaceInv, RequestTypes
    <2> QED  BY <2>5, <2>6
  <1>8. ASSUME NEW r \in Requests, EnterFails(r)
        PROVE  PlaceInv'
    BY <1>8, EndKeepsPlaceInv
    DEF EnterFails, PruneFails, Answer, NoAnswer, Ended, taskVars, signalVars, tableVars,
        PlaceInv, RequestTypes, Placed, TaskStates
  <1>9. ASSUME NEW r \in Requests, Creates(r)
        PROVE  PlaceInv'
    BY <1>9, StillKeepsPlaceInv
    DEF Creates, InSdk, SdkCreates, taskVars, signalVars, SessionTypes
  <1>10. ASSUME NEW r \in Requests, CallTool(r)
         PROVE  PlaceInv'
    <2>1. Key(r) \in Keys
      BY <1>10, KeyType DEF CallTool
    <2>2. RequestTypes'
      BY <1>10, <2>1 DEF CallTool, vars, requestVars, replyVars, PlaceInv, RequestTypes
    <2>3. Placed'
      BY <1>10 DEF CallTool, Live, vars, requestVars, PlaceInv, RequestTypes, Placed
    <2> QED  BY <1>10, <2>2, <2>3, SignalKeepsReplies
             DEF CallTool, SignalKey, vars, requestVars, replyVars, PlaceInv
  <1>11. ASSUME NEW r \in Requests, CallEnds(r)
         PROVE  PlaceInv'
    <2>1. RequestTypes'
      BY <1>11 DEF CallEnds, vars, requestVars, replyVars, PlaceInv, RequestTypes
    <2>2. Placed'
      BY <1>11 DEF CallEnds, vars, requestVars, PlaceInv, RequestTypes, Placed
    <2> QED  BY <1>11, <2>1, <2>2, SignalKeepsReplies
             DEF CallEnds, signalVars, vars, requestVars, replyVars, PlaceInv
  <1>12. ASSUME NEW r \in Requests, Notify(r)
         PROVE  PlaceInv'
    BY <1>12, StillKeepsPlaceInv DEF Notify, SignalKey, vars, requestVars
  <1>13. ASSUME NEW r \in Requests, Disconnect(r)
         PROVE  PlaceInv'
    <2>1. RequestTypes' /\ Placed'
      BY <1>13 DEF Disconnect, NoAnswer, vars, requestVars, PlaceInv, RequestTypes, Placed
    <2> QED  BY <1>13, <2>1, SignalKeepsReplies
             DEF Disconnect, SignalOwn, NoAnswer, vars, requestVars, PlaceInv
  <1>14. ASSUME NEW r \in Requests, SdkEnds(r)
         PROVE  PlaceInv'
    <2>1. RequestTypes'
      BY <1>14 DEF SdkEnds, Outcomes, vars, requestVars, replyVars, PlaceInv, RequestTypes,
                   TaskStates
    <2>2. Placed'
      BY <1>14 DEF SdkEnds, InSdk, Outcomes, vars, requestVars, PlaceInv, RequestTypes, Placed
    <2>3. \A x \in Requests : task[x] = "detached" => task'[x] = "detached"
      BY <1>14 DEF SdkEnds, InSdk, PlaceInv, RequestTypes
    <2> QED  BY <1>14, <2>1, <2>2, <2>3, SignalKeepsReplies
             DEF SdkEnds, signalVars, vars, requestVars, replyVars, PlaceInv
  <1>15. ASSUME NEW r \in Requests,
                StreamTimeout(r) \/ SettleRaised(r) \/ SettleCancelled(r) \/ CancelTask(r),
                pc[r] = "running"
         PROVE  PlaceInv'
    <2>1. lease' = [lease EXCEPT ![r] = None]
      BY <1>15
      DEF StreamTimeout, SettleRaised, SettleCancelled, CancelTask, AbortSession, ReturnLease
    <2>2. task' = [task EXCEPT ![r] = "detached"] /\ UNCHANGED <<call, active>>
      BY <1>15 DEF StreamTimeout, SettleRaised, SettleCancelled, CancelTask, DetachTask, TakenAs
    <2>3. entitled \subseteq entitled'
      BY <1>15
      DEF StreamTimeout, SettleRaised, SettleCancelled, CancelTask, DetachTask, SignalOwn,
                   TakenAs, signalVars
    <2>4. UNCHANGED <<made, leaked>>
      BY <1>15 DEF StreamTimeout, SettleRaised, SettleCancelled, CancelTask, Goto, Moved
    <2>5. \/ pc' = [pc EXCEPT ![r] = "done"] /\ (Answer(r) \/ NoAnswer(r))
          \/ pc' = [pc EXCEPT ![r] = "sending"] /\ Answer(r) /\ GivenUp(r)'
      BY <1>15, <2>2 DEF StreamTimeout, SettleRaised, SettleCancelled, CancelTask, Goto, Moved,
                         DetachTask, SignalOwn, GivenUp, PlaceInv, RequestTypes
    <2>6. CASE pc' = [pc EXCEPT ![r] = "done"] /\ (Answer(r) \/ NoAnswer(r))
      <3>1. Ended(r, "done")
        BY <1>15, <2>6 DEF Ended, Answer, NoAnswer
      <3> QED  BY <2>1, <2>2, <2>3, <2>4, <2>6, <3>1, EndKeepsPlaceInv
               DEF SessionTypes, PlaceInv, RequestTypes
    <2>7. CASE pc' = [pc EXCEPT ![r] = "sending"] /\ Answer(r) /\ GivenUp(r)'
      <3>1. Ended(r, "sending")
        BY <1>15, <2>7 DEF Ended, Answer
      <3> QED  BY <2>1, <2>2, <2>3, <2>4, <2>7, <3>1, EndKeepsPlaceInv
               DEF SessionTypes, PlaceInv, RequestTypes
    <2> QED  BY <2>5, <2>6, <2>7
  <1>16. ASSUME NEW r \in Requests, CancelTask(r), pc[r] # "running"
         PROVE  PlaceInv'
    <2>1. pc[r] \in {"auth", "sending"} /\ lease[r] = None
      BY <1>16 DEF CancelTask, PlaceInv, Placed
    <2>2. UNCHANGED <<lease, task, call, active, entitled, made, leaked>>
      BY <1>16 DEF CancelTask, taskVars, signalVars, Goto, Moved
    <2>3. pc' = [pc EXCEPT ![r] = "done"] /\ Ended(r, "done")
      BY <1>16, <2>1, <2>2 DEF CancelTask, Goto, Moved, NoAnswer, Ended
    <2>4. task[r] \in {"none", "detached"}
      BY <2>1 DEF PlaceInv, RequestTypes, Placed, TaskStates
    <2> QED  BY <2>1, <2>2, <2>3, <2>4, EndKeepsPlaceInv DEF PlaceInv, RequestTypes
  <1>17. ASSUME NEW r \in Requests, Settle(r)
         PROVE  PlaceInv'
    <2>1. pc[r] = "running" /\ lease' = [lease EXCEPT ![r] = None]
      BY <1>17 DEF Settle, CompleteReserved, CompleteSession, ReturnLease, PlaceInv, Placed
    <2>2. task' = [task EXCEPT ![r] = "none"] /\ UNCHANGED <<made, leaked, call, active, entitled>>
      BY <1>17 DEF Settle, TakenAs, signalVars, Goto, Moved
    <2>3. PICK where \in {"sending", "done"} :
             /\ pc' = [pc EXCEPT ![r] = where]
             /\ committed' \in {committed, committed \cup {r}}
             /\ where = "sending" => r \in committed'
      BY <1>17 DEF Settle, Goto, Moved
    <2>4. Ended(r, where)
      BY <1>17, <2>1, <2>3 DEF Settle, Ended
    <2> QED  BY <2>1, <2>2, <2>3, <2>4, EndKeepsPlaceInv
             DEF SessionTypes, PlaceInv, RequestTypes
  <1>18. ASSUME NEW r \in Requests, SettleIncomplete(r)
         PROVE  PlaceInv'
    <2>1. pc[r] = "running"
      BY <1>18 DEF SettleIncomplete, PlaceInv, Placed
    <2>2. /\ task' = [task EXCEPT ![r] = "detached"] /\ UNCHANGED <<made, call, active, entitled>>
          /\ pc' = [pc EXCEPT ![r] = "done"] /\ Ended(r, "done")
      BY <1>18, <2>1 DEF SettleIncomplete, TakenAs, signalVars, Goto, Moved, Answer, Ended
    <2>3. /\ leaked \subseteq leaked'
          /\ \/ lease' = [lease EXCEPT ![r] = None]
             \/ lease' = lease /\ r \in leaked'
      BY <1>18 DEF SettleIncomplete, KeepLease, CompleteSession, ReturnLease, Goto
    <2> QED  BY <2>2, <2>3, EndKeepsPlaceInv DEF SessionTypes, PlaceInv, RequestTypes
  <1>19. ASSUME NEW r \in Requests, Sent(r) \/ SendRaises(r)
         PROVE  PlaceInv'
    <2>1. pc[r] = "sending" /\ lease[r] = None /\ task[r] \in {"none", "detached"}
      BY <1>19 DEF Sent, SendRaises, PlaceInv, RequestTypes, Placed, TaskStates
    <2>2. /\ UNCHANGED <<lease, task, call, active, entitled, made, leaked>>
          /\ pc' = [pc EXCEPT ![r] = "done"]
      BY <1>19 DEF Sent, SendRaises, taskVars, signalVars, Goto, Moved
    <2>3. Ended(r, "done")
      BY <1>19, <2>1, <2>2 DEF Sent, SendRaises, Recover, Answer, replyVars, Ended
    <2> QED  BY <2>1, <2>2, <2>3, EndKeepsPlaceInv DEF PlaceInv, RequestTypes
  <1>20. ASSUME NEW r \in Requests, StreamTimeout(r) \/ SettleRaised(r) \/ SettleCancelled(r)
         PROVE  pc[r] = "running"
    BY <1>20 DEF StreamTimeout, InSdk, SettleRaised, SettleCancelled, PlaceInv, Placed
  <1> QED  BY <1>1, <1>2, <1>3, <1>4, <1>5, <1>6, <1>7, <1>8, <1>9, <1>10, <1>11, <1>12, <1>13,
              <1>14, <1>15, <1>16, <1>17, <1>18, <1>19, <1>20 DEF TransportNext, SdkOver

-----------------------------------------------------------------------------
(* What a step does to the table. *)

TableKept == UNCHANGED <<tableVars, sdk, lease, prune, made>>

Cleared == ClearSessions /\ phase' = "stopped" /\ UNCHANGED <<lease, prune, made>>

Pruning(r) ==
  /\ \E s \in prune[r] : sdk' = sdk \ {s}
  /\ prune' \in [Requests -> SUBSET Ids]
  /\ \A q \in Requests : prune'[q] \subseteq prune[q]
  /\ UNCHANGED <<tableVars, lease, made>>

\* The lease of r ends.
Ending(r) == lease' = [lease EXCEPT ![r] = None] /\ UNCHANGED <<prune, made>>

\* The session made for a reservation is registered.
Registering(r) ==
  /\ lease[r] = "reserved" /\ pending # 0 /\ made[r] # None /\ made[r] \notin Table
  /\ pending' = pending - 1
  /\ record' = [record EXCEPT ![made[r]] = "live"]
  /\ owner' = [owner EXCEPT ![made[r]] = OwnerOf[r]]
  /\ inFlight' = [inFlight EXCEPT ![made[r]] = 0]
  /\ UNCHANGED sdk
  /\ Ending(r)

\* The reservation is given back without one.
Unreserving(r) ==
  /\ lease[r] = "reserved"
  /\ pending' = IF pending = 0 THEN pending ELSE pending - 1
  /\ sdk' = sdk \/ sdk' = sdk \ {made[r]}
  /\ UNCHANGED <<record, owner, inFlight>>
  /\ Ending(r)

\* A reference is given back: to no record, to one that goes, deleted or unused, or
\* to one that stays.
Releasing(r) ==
  /\ lease[r] \in Ids
  /\ \/ /\ lease[r] \notin Table
        /\ UNCHANGED <<record, inFlight, sdk>>
     \/ /\ lease[r] \in Table /\ (r \in Deletes \/ inFlight[lease[r]] <= 1)
        /\ record' = [record EXCEPT ![lease[r]] = "absent"]
        /\ inFlight' = [inFlight EXCEPT ![lease[r]] = 0]
        /\ sdk' = sdk \ {lease[r]}
     \/ /\ lease[r] \in Table
        /\ inFlight' = [inFlight EXCEPT ![lease[r]] = IF @ > 0 THEN @ - 1 ELSE 0]
        /\ UNCHANGED <<record, sdk>>
  /\ UNCHANGED <<owner, pending>>
  /\ Ending(r)

\* _release_session gives a reference back.
LEMMA ReleaseCases ==
  ASSUME SessionTypes, NEW r \in Requests, lease[r] \in Ids, NEW remove, remove => r \in Deletes,
         ReleaseSession(lease[r], remove), ReturnLease(r),
         UNCHANGED <<owner, pending, prune, made>>
  PROVE  Releasing(r)
  <1>1. CASE record[lease[r]] = "absent"
    BY <1>1 DEF ReleaseSession, ReturnLease, Releasing, Ending, Table
  <1>2. CASE record[lease[r]] # "absent"
    <2> DEFINE left == IF inFlight[lease[r]] > 0 THEN inFlight[lease[r]] - 1 ELSE 0
               gone_ == remove \/ (record[lease[r]] = "expired" /\ left = 0)
    <2>1. CASE gone_
      <3>1. /\ record' = [record EXCEPT ![lease[r]] = "absent"] /\ sdk' = sdk \ {lease[r]}
            /\ inFlight' = [inFlight EXCEPT ![lease[r]] = 0]
        BY <1>2, <2>1 DEF ReleaseSession
      <3>2. r \in Deletes \/ inFlight[lease[r]] <= 1
        BY <2>1 DEF SessionTypes
      <3> QED  BY <1>2, <3>1, <3>2 DEF ReturnLease, Releasing, Ending, Table
    <2>2. CASE ~gone_
      <3>1. /\ record' = [record EXCEPT ![lease[r]] = @] /\ sdk' = sdk
            /\ inFlight' = [inFlight EXCEPT ![lease[r]] = left]
        BY <1>2, <2>2 DEF ReleaseSession
      <3>2. record' = record
        BY <3>1 DEF SessionTypes
      <3> QED  BY <1>2, <3>1, <3>2 DEF ReturnLease, Releasing, Ending, Table
    <2> QED  BY <2>1, <2>2
  <1> QED  BY <1>1, <1>2

\* complete_session and abort_session.
LEMMA EndCases ==
  ASSUME SessionTypes, NEW r \in Requests, NEW ok,
         AbortSession(r) \/ CompleteReserved(r, ok) \/ CompleteSession(r, ok),
         UNCHANGED <<prune, made>>
  PROVE  TableKept \/ Registering(r) \/ Unreserving(r) \/ Releasing(r)
  <1>1. lease[r] = None => [lease EXCEPT ![r] = None] = lease
    BY DEF SessionTypes
  <1>2. CASE AbortSession(r)
    <2>1. CASE lease[r] = "reserved"
      BY <1>2, <2>1, SessionAssumptions
      DEF AbortSession, ReturnLease, Unreserve, Underflow, Unreserving, Ending
    <2>2. CASE lease[r] \in Ids
      BY <1>2, <2>2, ReleaseCases, SessionAssumptions DEF AbortSession
    <2>3. CASE lease[r] = None
      BY <1>1, <1>2, <2>3, SessionAssumptions
      DEF AbortSession, ReturnLease, TableKept, tableVars
    <2> QED  BY <2>1, <2>2, <2>3 DEF SessionTypes
  <1>3. CASE CompleteReserved(r, ok)
    <2>1. CASE Registers(r, ok)
      BY <1>3, <2>1
      DEF CompleteReserved, Registers, Underflow, Unreserve, ReturnLease, Registering, Ending
    <2>2. CASE ~Registers(r, ok)
      BY <1>3, <2>2 DEF CompleteReserved, Underflow, Unreserve, ReturnLease, Unreserving, Ending
    <2> QED  BY <2>1, <2>2
  <1>4. CASE CompleteSession(r, ok)
    <2>1. CASE lease[r] \in Ids
      BY <1>4, <2>1, ReleaseCases, SessionAssumptions DEF CompleteSession
    <2>2. CASE lease[r] = None
      BY <1>1, <1>4, <2>2 DEF CompleteSession, ReturnLease, TableKept, tableVars
    <2> QED  BY <1>4, <2>1, <2>2 DEF SessionTypes, CompleteSession
  <1> QED  BY <1>2, <1>3, <1>4

\* All that a step can do to the table.
LEMMA SessionCases ==
  ASSUME SessionTypes, PlaceInv, [TransportNext]_allVars
  PROVE  \/ TableKept \/ Cleared
         \/ \E r \in Requests :
              \/ Admit(r) \/ Pruning(r)
              \/ lease[r] = "reserved" /\ SdkCreates(r)
              \/ /\ pc[r] = "running"
                 /\ Registering(r) \/ Unreserving(r) \/ Releasing(r)
  <1>1. CASE UNCHANGED allVars
    BY <1>1 DEF allVars, vars, requestVars, TableKept
  <1>2. CASE Start \/ Started \/ StartFails \/ Drain
    BY <1>2 DEF Start, Started, StartFails, Drain, Quiet, vars, requestVars, TableKept
  <1>3. CASE Stop
    BY <1>3 DEF Stop, Moves, requestVars, Cleared
  <1>4. ASSUME NEW s \in Ids, Expire(s)
        PROVE  TableKept
    BY <1>4 DEF Expire, requestVars, TableKept
  <1>5. ASSUME NEW r \in Requests,
               \/ Arrive(r) \/ Unauthorized(r) \/ CallTool(r) \/ CallEnds(r) \/ Notify(r)
               \/ Disconnect(r) \/ SdkEnds(r) \/ Sent(r) \/ SendRaises(r)
        PROVE  TableKept
    BY <1>5 DEF Arrive, Unauthorized, CallTool, CallEnds, Notify, Disconnect, SdkEnds, Sent,
                SendRaises, Goto, Moved, vars, requestVars, TableKept
  <1>6. ASSUME NEW r \in Requests, Enter(r)
        PROVE  Admit(r) \/ Pruning(r)
    <2>1. CASE PruneOne(r)
      BY <1>6, <2>1 DEF Enter, PruneOne, SessionTypes, Pruning
    <2> QED  BY <1>6, <2>1 DEF Enter
  <1>7. ASSUME NEW r \in Requests, EnterFails(r)
        PROVE  Pruning(r)
    BY <1>7 DEF EnterFails, PruneFails, SessionTypes, Pruning
  <1>8. ASSUME NEW r \in Requests, Creates(r)
        PROVE  lease[r] = "reserved" /\ SdkCreates(r)
    BY <1>8 DEF Creates, SdkCreates
  <1>9. ASSUME NEW r \in Requests, StreamTimeout(r) \/ SettleRaised(r) \/ SettleCancelled(r) \/ CancelTask(r)
        PROVE  TableKept \/ (pc[r] = "running" /\ (Registering(r) \/ Unreserving(r) \/ Releasing(r)))
    <2>1. UNCHANGED <<prune, made>>
      BY <1>9 DEF StreamTimeout, SettleRaised, SettleCancelled, CancelTask, Goto, Moved
    <2>2. CASE AbortSession(r) /\ pc[r] = "running"
      BY <2>1, <2>2, EndCases
    <2>3. CASE ~(AbortSession(r) /\ pc[r] = "running")
      <3>1. CancelTask(r) /\ pc[r] # "running"
        BY <1>9, <2>3 DEF StreamTimeout, SettleRaised, SettleCancelled, CancelTask, InSdk,
                          PlaceInv, Placed
      <3> QED  BY <2>1, <3>1 DEF CancelTask, TableKept
    <2> QED  BY <2>2, <2>3
  <1>10. ASSUME NEW r \in Requests, Settle(r) \/ SettleIncomplete(r)
         PROVE  TableKept \/ (pc[r] = "running" /\ (Registering(r) \/ Unreserving(r) \/ Releasing(r)))
    <2> DEFINE ok == task[r] = "ok"
    <2>1. \/ CompleteReserved(r, ok) \/ CompleteSession(r, ok) \/ CompleteSession(r, FALSE)
          \/ KeepLease(r)
      BY <1>10 DEF Settle, SettleIncomplete
    <2>2. UNCHANGED <<prune, made>> /\ pc[r] = "running"
      BY <1>10 DEF Settle, SettleIncomplete, Goto, Moved, PlaceInv, Placed
    <2> HIDE DEF ok
    <2>3. KeepLease(r) => TableKept
      BY <2>2 DEF KeepLease, TableKept
    <2> QED  BY <2>1, <2>2, <2>3, EndCases
  <1> QED  BY <1>1, <1>2, <1>3, <1>4, <1>5, <1>6, <1>7, <1>8, <1>9, <1>10
           DEF TransportNext, SdkOver

-----------------------------------------------------------------------------
(* The life of a session. *)

\* Nothing is listed, leased or made.
LEMMA InitSessionInv == TransportInit => SessionInv
  <1> SUFFICES ASSUME TransportInit PROVE SessionInv
    OBVIOUS
  <1>1. SessionTypes
    BY DEF TransportInit, SessionsInit, SessionTypes
  <1>2. Table = {}
    BY DEF TransportInit, SessionsInit, Table
  <1>3. MadeOnce /\ ListedRegistered /\ PrunedRegistered /\ TableInSdk
    BY <1>2
    DEF TransportInit, SessionsInit, MadeOnce, ListedRegistered, PrunedRegistered, TableInSdk
  <1>4. LeasedRegistered /\ ReservedInSdk
    BY SessionAssumptions DEF TransportInit, SessionsInit, LeasedRegistered, ReservedInSdk
  <1> QED  BY <1>1, <1>3, <1>4 DEF SessionInv

\* A session that is registered, by whoever made it, is not the one made for a
\* reservation.
LEMMA ReservedIsNew ==
  ASSUME SessionInv, NEW r \in Requests, lease[r] = "reserved", made[r] # None
  PROVE  /\ ~Registered(made[r]) /\ made[r] \in Ids /\ made[r] \notin Table /\ made[r] \in sdk
         /\ \A q \in Requests : lease[q] # made[r] /\ made[r] \notin prune[q]
  <1>1. made[r] \in Ids
    BY DEF SessionInv, SessionTypes
  <1>2. ~Registered(made[r])
    BY DEF SessionInv, MadeOnce, Registered
  <1> QED  BY <1>1, <1>2
           DEF SessionInv, ListedRegistered, LeasedRegistered, PrunedRegistered, ReservedInSdk,
               Registered

\* The sweep of an admission.
LEMMA AdmitKeepsSessionInv ==
  ASSUME SessionInv, PlaceInv, NEW r \in Requests, Admit(r)
  PROVE  SessionInv'
  <1>1. /\ lease[r] = None /\ made[r] = None /\ UNCHANGED <<owner, sdk, made>>
        /\ \A q \in Requests : q # r => lease'[q] = lease[q]
        /\ lease'[r] \in {None, "reserved"} \/ (lease'[r] = Target[r] /\ Usable(r))
        /\ lease' \in [Requests -> Ids \cup {None, "reserved"}]
    <2>1. lease[r] = None /\ made[r] = None /\ UNCHANGED <<owner, sdk, made>>
      BY DEF Admit, PlaceInv, Placed
    <2>2. \/ Usable(r) /\ lease' = [lease EXCEPT ![r] = Target[r]]
          \/ lease' = [lease EXCEPT ![r] = "reserved"]
          \/ lease' = lease
      BY DEF Admit
    <2>3. lease \in [Requests -> Ids \cup {None, "reserved"}]
      BY DEF SessionInv, SessionTypes
    <2> QED  BY <2>1, <2>2, <2>3, SessionAssumptions DEF Usable
  <1>2. Table' = Table \ Dropped /\ Dropped \subseteq Table
    BY DEF Admit, Swept, Table, Dropped
  <1>3. SessionTypes'
    <2>1. record' \in [Ids -> {"absent", "live", "expired"}]
      BY DEF Admit, Swept, SessionInv, SessionTypes
    <2>2. prune' \in [Requests -> SUBSET Ids]
      <3>1. Dropped \in SUBSET Ids
        BY DEF Dropped, Table
      <3> QED  BY <3>1 DEF Admit, SessionInv, SessionTypes
    <2>3. inFlight' \in [Ids -> Nat] /\ pending' \in Nat
      BY SessionAssumptions DEF Admit, Usable, SessionInv, SessionTypes
    <2> QED  BY <1>1, <2>1, <2>2, <2>3 DEF SessionInv, SessionTypes
  <1>4. \A s \in Ids : Registered(s) => Registered(s)'
    BY <1>1, SessionAssumptions DEF Registered
  <1>5. MadeOnce' /\ TableInSdk'
    BY <1>1, <1>2 DEF SessionInv, MadeOnce, TableInSdk
  <1>6. ListedRegistered'
    BY <1>1, <1>2, SessionAssumptions DEF SessionInv, ListedRegistered, Table
  <1>7. LeasedRegistered'
    <2>1. ASSUME NEW q \in Requests, NEW s \in Ids, lease'[q] = s
          PROVE  Registered(s)'
      <3>1. CASE q # r
        BY <1>1, <1>4, <2>1, <3>1 DEF SessionInv, LeasedRegistered
      <3>2. CASE q = r
        <4>1. s = Target[r] /\ Usable(r)
          BY <1>1, <2>1, <3>2, SessionAssumptions
        <4>2. s \in Table
          BY <2>1, <3>2, <4>1 DEF Usable, Swept, Table
        <4> QED  BY <1>4, <2>1, <4>2 DEF SessionInv, ListedRegistered, Registered
      <3> QED  BY <3>1, <3>2
    <2> QED  BY <2>1 DEF LeasedRegistered, Registered
  <1>8. PrunedRegistered'
    <2>1. ASSUME NEW q \in Requests, NEW s \in prune'[q]
          PROVE  Registered(s)' /\ s \notin Table'
      <3>1. s \in prune[q] \/ s \in Dropped
        BY DEF Admit, SessionInv, SessionTypes
      <3>2. Registered(s) /\ s \in Ids
        BY <1>2, <3>1
        DEF SessionInv, SessionTypes, PrunedRegistered, ListedRegistered, Registered, Table
      <3> QED  BY <1>2, <1>4, <3>1, <3>2 DEF SessionInv, PrunedRegistered
    <2> QED  BY <2>1 DEF PrunedRegistered
  <1>9. ReservedInSdk'
    BY <1>1 DEF SessionInv, ReservedInSdk
  <1> QED  BY <1>3, <1>5, <1>6, <1>7, <1>8, <1>9 DEF SessionInv

\* The removal of a swept session, and stop.
LEMMA PruneKeepsSessionInv ==
  ASSUME SessionInv, (\E r \in Requests : Pruning(r)) \/ Cleared
  PROVE  SessionInv'
  <1>1. UNCHANGED <<lease, made, owner>> /\ Table' \subseteq Table /\ (Table' # {} => Table' = Table)
    BY DEF Pruning, Cleared, ClearSessions, tableVars, Table
  <1>2. SessionTypes'
    BY DEF Pruning, Cleared, ClearSessions, tableVars, SessionInv, SessionTypes
  <1>3. prune' \in [Requests -> SUBSET Ids] /\ \A q \in Requests : prune'[q] \subseteq prune[q]
    BY DEF Pruning, Cleared, SessionInv, SessionTypes
  <1>4. \A s \in sdk : s \in sdk' \/ (Registered(s) /\ s \notin Table)
    BY DEF Pruning, Cleared, ClearSessions, SessionInv, PrunedRegistered
  <1>5. \A s : Registered(s) <=> Registered(s)'
    BY <1>1 DEF Registered
  <1>6. MadeOnce' /\ ListedRegistered' /\ LeasedRegistered'
    BY <1>1, <1>5 DEF SessionInv, MadeOnce, ListedRegistered, LeasedRegistered
  <1>7. PrunedRegistered'
    BY <1>1, <1>3, <1>5 DEF SessionInv, PrunedRegistered
  <1>8. TableInSdk'
    BY <1>1, <1>4 DEF SessionInv, TableInSdk
  <1>9. ReservedInSdk'
    BY <1>1, <1>4, ReservedIsNew DEF SessionInv, ReservedInSdk
  <1> QED  BY <1>2, <1>6, <1>7, <1>8, <1>9 DEF SessionInv

\* The SDK makes a session.
LEMMA CreateKeepsSessionInv ==
  ASSUME SessionInv, NEW r \in Requests, lease[r] = "reserved", SdkCreates(r)
  PROVE  SessionInv'
  <1>1. PICK s \in Ids : /\ s \notin sdk /\ s \notin Table /\ \A q \in Requests : made[q] # s
                         /\ sdk' = sdk \cup {s} /\ made' = [made EXCEPT ![r] = s]
    BY DEF SdkCreates
  <1>2. UNCHANGED <<tableVars, lease, prune>> /\ made[r] = None
    BY DEF SdkCreates
  <1>3. SessionTypes'
    BY <1>1, <1>2 DEF tableVars, SessionInv, SessionTypes
  <1>4. made'[r] = s /\ \A q \in Requests : q # r => made'[q] = made[q]
    BY <1>1 DEF SessionInv, SessionTypes
  <1>5. \A x \in Ids : Registered(x) => Registered(x)'
    BY <1>2, <1>4, SessionAssumptions DEF Registered
  <1>6. Table' = Table
    BY <1>2 DEF Table, tableVars
  <1>7. MadeOnce'
    BY <1>1, <1>4 DEF SessionInv, MadeOnce
  <1>8. ListedRegistered'
    BY <1>2, <1>4, <1>6 DEF SessionInv, ListedRegistered, tableVars
  <1>9. LeasedRegistered' /\ PrunedRegistered'
    BY <1>2, <1>5, <1>6 DEF SessionInv, SessionTypes, LeasedRegistered, PrunedRegistered
  <1>10. ReservedInSdk' /\ TableInSdk'
    BY <1>1, <1>2, <1>4, <1>6 DEF SessionInv, ReservedInSdk, TableInSdk
  <1> QED  BY <1>3, <1>7, <1>8, <1>9, <1>10 DEF SessionInv

\* A lease ends.
LEMMA EndKeepsSessionInv ==
  ASSUME SessionInv, NEW r \in Requests, Registering(r) \/ Unreserving(r) \/ Releasing(r)
  PROVE  SessionInv'
  <1>1. /\ UNCHANGED <<prune, made>> /\ lease'[r] = None
        /\ \A q \in Requests : q # r => lease'[q] = lease[q]
        /\ lease' \in [Requests -> Ids \cup {None, "reserved"}]
    BY DEF Registering, Unreserving, Releasing, Ending, SessionInv, SessionTypes
  <1>2. \A x : Registered(x) => Registered(x)'
    BY <1>1, SessionAssumptions DEF Registered
  <1>3. MadeOnce' /\ LeasedRegistered'
    BY <1>1, <1>2, SessionAssumptions DEF SessionInv, MadeOnce, LeasedRegistered
  <1>4. CASE Registering(r)
    <2>1. made[r] \in Ids /\ made[r] \in sdk /\ \A q \in Requests : made[r] \notin prune[q]
      BY <1>4, ReservedIsNew DEF Registering
    <2>2. SessionTypes'
      BY <1>1, <1>4, <2>1, SessionAssumptions DEF Registering, SessionInv, SessionTypes
    <2>3. Table' = Table \cup {made[r]}
      BY <1>4, <2>1 DEF Registering, Table, SessionInv, SessionTypes
    <2>4. ListedRegistered'
      <3>1. \A s \in Table : owner'[s] = owner[s]
        BY <1>4 DEF Registering, SessionInv, SessionTypes, Table
      <3>2. owner'[made[r]] = OwnerOf[r]
        BY <1>4, <2>1 DEF Registering, SessionInv, SessionTypes
      <3> QED  BY <1>1, <2>3, <3>1, <3>2, SessionAssumptions DEF SessionInv, ListedRegistered
    <2>5. PrunedRegistered'
      BY <1>1, <1>2, <2>1, <2>3 DEF SessionInv, PrunedRegistered
    <2>6. ReservedInSdk' /\ TableInSdk'
      BY <1>1, <1>4, <2>1, <2>3, SessionAssumptions
      DEF Registering, SessionInv, ReservedInSdk, TableInSdk
    <2> QED  BY <1>3, <2>2, <2>4, <2>5, <2>6 DEF SessionInv
  <1>5. CASE Unreserving(r)
    <2>1. SessionTypes'
      BY <1>1, <1>5 DEF Unreserving, SessionInv, SessionTypes
    <2>2. Table' = Table /\ UNCHANGED owner
      BY <1>5 DEF Unreserving, Table
    <2>3. ListedRegistered'
      BY <1>1, <2>2, SessionAssumptions DEF SessionInv, ListedRegistered
    <2>4. PrunedRegistered'
      BY <1>1, <1>2, <2>2 DEF SessionInv, PrunedRegistered
    <2>5. TableInSdk'
      BY <1>5, <2>2, ReservedIsNew, SessionAssumptions
      DEF Unreserving, SessionInv, TableInSdk, Table
    <2>6. ReservedInSdk'
      BY <1>1, <1>5, SessionAssumptions DEF Unreserving, SessionInv, ReservedInSdk, MadeOnce
    <2> QED  BY <1>3, <2>1, <2>3, <2>4, <2>5, <2>6 DEF SessionInv
  <1>6. CASE Releasing(r)
    <2>1. SessionTypes'
      BY <1>1, <1>6 DEF Releasing, SessionInv, SessionTypes
    <2>2. UNCHANGED owner /\ Table' \subseteq Table /\ sdk' \subseteq sdk
          /\ \A s \in sdk : s \in sdk' \/ (s = lease[r] /\ s \notin Table')
      BY <1>6 DEF Releasing, Table, SessionInv, SessionTypes
    <2>3. ListedRegistered'
      BY <1>1, <2>2, SessionAssumptions DEF SessionInv, ListedRegistered
    <2>4. PrunedRegistered'
      BY <1>1, <1>2, <2>2 DEF SessionInv, PrunedRegistered
    <2>5. TableInSdk'
      BY <2>2 DEF SessionInv, TableInSdk
    <2>6. ReservedInSdk'
      BY <1>1, <2>2, ReservedIsNew, SessionAssumptions DEF SessionInv, ReservedInSdk
    <2> QED  BY <1>3, <2>1, <2>3, <2>4, <2>5, <2>6 DEF SessionInv
  <1> QED  BY <1>4, <1>5, <1>6

\* Every step keeps SessionInv.
LEMMA NextSessionInv ==
  ASSUME SessionInv, PlaceInv, [TransportNext]_allVars
  PROVE  SessionInv'
  <1>1. CASE TableKept
    BY <1>1 DEF TableKept, tableVars, SessionInv, SessionTypes, MadeOnce, ListedRegistered,
                LeasedRegistered, PrunedRegistered, ReservedInSdk, TableInSdk, Registered, Table
  <1> QED  BY <1>1, SessionCases, AdmitKeepsSessionInv, PruneKeepsSessionInv,
              CreateKeepsSessionInv, EndKeepsSessionInv DEF SessionInv

-----------------------------------------------------------------------------
(* Counting reservations and references. *)

\* Nothing is leased.
LEMMA InitCountInv == TransportInit => CountInv
  <1> SUFFICES ASSUME TransportInit PROVE CountInv
    OBVIOUS
  <1>1. Arrived = {} /\ Table = {}
    BY DEF TransportInit, SessionsInit, Arrived, Table
  <1>2. Users("reserved") = {}
    BY SessionAssumptions DEF TransportInit, SessionsInit, Users
  <1>3. pending = 0 /\ MaxSessions \in Nat
    BY SessionAssumptions DEF TransportInit, SessionsInit, StreamableHTTPLimits
  <1> QED  BY <1>1, <1>2, <1>3, FS_EmptySet
           DEF CountInv, WithinCapacity, UsesCounted, ReservesCounted

\* Only finitely many requests hold anything.
LEMMA UsersFinite ==
  ASSUME PlaceInv, IsFiniteSet(Arrived), NEW v, v # None
  PROVE  IsFiniteSet(Users(v)) /\ Cardinality(Users(v)) \in Nat
  <1>1. Users(v) \in SUBSET Arrived
    BY DEF PlaceInv, Placed, Users, Arrived
  <1> QED  BY <1>1, FS_Subset, FS_CardinalityType

\* A lease is taken.
LEMMA LeaseTaken ==
  ASSUME SessionTypes, NEW r \in Requests, lease[r] = None, NEW w, lease' = [lease EXCEPT ![r] = w],
         NEW v, v # None, IsFiniteSet(Users(v))
  PROVE  Cardinality(Users(v)') = IF v = w THEN Cardinality(Users(v)) + 1 ELSE Cardinality(Users(v))
  <1>1. lease'[r] = w /\ \A q \in Requests : q # r => lease'[q] = lease[q]
    BY DEF SessionTypes
  <1>2. CASE v = w
    <2>1. Users(v)' = Users(v) \cup {r} /\ r \notin Users(v)
      BY <1>1, <1>2 DEF Users
    <2> QED  BY <1>2, <2>1, FS_AddElement
  <1>3. CASE v # w
    <2>1. Users(v)' = Users(v)
      BY <1>1, <1>3 DEF Users
    <2> QED  BY <1>3, <2>1
  <1> QED  BY <1>2, <1>3

\* A lease is given back.
LEMMA LeaseReturned ==
  ASSUME SessionTypes, NEW r \in Requests, Ending(r), NEW v, v # None, IsFiniteSet(Users(v))
  PROVE  Cardinality(Users(v)') = IF v = lease[r] THEN Cardinality(Users(v)) - 1
                                                  ELSE Cardinality(Users(v))
  <1>1. lease'[r] = None /\ \A q \in Requests : q # r => lease'[q] = lease[q]
    BY DEF SessionTypes, Ending
  <1>2. CASE v = lease[r]
    <2>1. Users(v)' = Users(v) \ {r} /\ r \in Users(v)
      BY <1>1, <1>2 DEF Users
    <2> QED  BY <1>2, <2>1, FS_RemoveElement
  <1>3. CASE v # lease[r]
    <2>1. Users(v)' = Users(v)
      BY <1>1, <1>3 DEF Users
    <2> QED  BY <1>3, <2>1
  <1> QED  BY <1>2, <1>3

\* A stopped transport stays stopped, and requests arrive one at a time.
LEMMA Arrivals ==
  ASSUME PlaceInv, [TransportNext]_allVars
  PROVE  /\ phase = "stopped" => phase' = "stopped"
         /\ \E x : Arrived' \subseteq Arrived \cup {x}
  <1>1. CASE \/ UNCHANGED allVars \/ Start \/ Started \/ StartFails \/ Drain \/ Stop
            \/ \E s \in Ids : Expire(s) /\ UNCHANGED <<phase, taskVars, replyVars>>
    BY <1>1 DEF allVars, vars, Start, Started, StartFails, Drain, Stop, Moves, Quiet, Expire,
                requestVars, Arrived
  <1>2. ASSUME NEW r \in Requests,
               \/ Arrive(r) \/ Unauthorized(r) \/ Enter(r) \/ EnterFails(r) \/ Creates(r)
               \/ CallTool(r) \/ CallEnds(r) \/ Notify(r) \/ Disconnect(r) \/ SdkEnds(r)
               \/ StreamTimeout(r) \/ CancelTask(r) \/ SettleRaised(r)
               \/ SettleCancelled(r) \/ Settle(r) \/ SettleIncomplete(r) \/ Sent(r) \/ SendRaises(r)
        PROVE  UNCHANGED phase /\ Arrived' \subseteq Arrived \cup {r}
    <2>1. UNCHANGED phase
      BY <1>2 DEF Arrive, Unauthorized, Enter, EnterFails, Creates, CallTool, CallEnds, Notify,
                  Disconnect, SdkEnds, StreamTimeout, CancelTask, SettleRaised,
                  SettleCancelled, Settle, SettleIncomplete, Sent, SendRaises
    <2>2. pc' = pc \/ \E where : pc' = [pc EXCEPT ![r] = where]
      BY <1>2 DEF Arrive, Unauthorized, Enter, Admit, Verdict, PruneOne, EnterFails, PruneFails,
                  Creates, SdkCreates, CallTool, CallEnds, Notify, Disconnect, SdkEnds,
                  StreamTimeout, CancelTask, SettleRaised, SettleCancelled, Settle, SettleIncomplete, Sent,
                  SendRaises, Goto, Moved, vars, requestVars
    <2> QED  BY <2>1, <2>2 DEF Arrived, PlaceInv, RequestTypes
  <1> QED  BY <1>1, <1>2 DEF TransportNext, SdkOver

\* Admission counts the reservation or the reference it gives.
LEMMA AdmitCounts ==
  ASSUME SessionInv, PlaceInv, CountInv, NEW r \in Requests, Admit(r)
  PROVE  /\ IsFiniteSet(Table') /\ WithinCapacity' /\ UsesCounted'
         /\ ReservesCounted => ReservesCounted'
  <1>1. lease[r] = None
    BY DEF Admit, PlaceInv, Placed
  <1>2. Table' = Table \ Dropped /\ Dropped \subseteq Table
    BY DEF Admit, Swept, Table, Dropped
  <1>3. /\ IsFiniteSet(Table') /\ Cardinality(Table') <= Cardinality(Table)
        /\ Cardinality(Table') \in Nat /\ Cardinality(Table) \in Nat
    BY <1>2, FS_Subset, FS_CardinalityType DEF CountInv
  <1>4. pending \in Nat /\ MaxSessions \in Nat
    BY SessionAssumptions DEF SessionInv, SessionTypes, StreamableHTTPLimits
  <1>5. CASE Usable(r) /\ inFlight' = [inFlight EXCEPT ![Target[r]] = @ + 1]
             /\ lease' = [lease EXCEPT ![r] = Target[r]] /\ UNCHANGED pending
    <2>1. WithinCapacity'
      BY <1>3, <1>4, <1>5 DEF CountInv, WithinCapacity
    <2>2. Target[r] \in Ids
      BY <1>5, SessionAssumptions DEF Usable
    <2>3. ASSUME ReservesCounted PROVE ReservesCounted'
      BY <1>1, <1>5, <2>2, <2>3, UsersFinite, LeaseTaken, SessionAssumptions
      DEF ReservesCounted, CountInv, SessionInv
    <2>4. ASSUME NEW s \in Table' PROVE inFlight'[s] = Cardinality(Users(s)')
      <3>1. s \in Ids /\ s \in Table /\ s # None
        BY <1>2, SessionAssumptions DEF Table
      <3>2. Cardinality(Users(s)') = IF s = Target[r] THEN Cardinality(Users(s)) + 1
                                                      ELSE Cardinality(Users(s))
        BY <1>1, <1>5, <3>1, UsersFinite, LeaseTaken DEF CountInv, SessionInv
      <3> QED  BY <1>5, <3>1, <3>2 DEF CountInv, UsesCounted, SessionInv, SessionTypes
    <2> QED  BY <1>3, <2>1, <2>3, <2>4 DEF UsesCounted
  <1>6. CASE ~Full /\ pending' = pending + 1 /\ lease' = [lease EXCEPT ![r] = "reserved"] /\ UNCHANGED inFlight
    <2>1. WithinCapacity'
      BY <1>2, <1>3, <1>4, <1>6 DEF Full, WithinCapacity
    <2>2. ASSUME ReservesCounted PROVE ReservesCounted'
      BY <1>1, <1>4, <1>6, <2>2, UsersFinite, LeaseTaken, SessionAssumptions
      DEF ReservesCounted, CountInv, SessionInv
    <2>3. ASSUME NEW s \in Table' PROVE inFlight'[s] = Cardinality(Users(s)')
      <3>1. s \in Ids /\ s \in Table /\ s # None /\ s # "reserved"
        BY <1>2, SessionAssumptions DEF Table
      <3> QED  BY <1>1, <1>6, <3>1, UsersFinite, LeaseTaken
               DEF CountInv, UsesCounted, SessionInv
    <2> QED  BY <1>3, <2>1, <2>2, <2>3 DEF UsesCounted
  <1>7. CASE UNCHANGED <<inFlight, pending, lease>>
    <2>1. \A v : Users(v)' = Users(v)
      BY <1>7 DEF Users
    <2> QED  BY <1>2, <1>3, <1>4, <1>7, <2>1
             DEF CountInv, WithinCapacity, UsesCounted, ReservesCounted
  <1> QED  BY <1>5, <1>6, <1>7 DEF Admit

\* The end of a lease gives back exactly what it counted.
LEMMA EndCounts ==
  ASSUME SessionInv, PlaceInv, CountInv, NEW r \in Requests,
         Registering(r) \/ Unreserving(r) \/ Releasing(r)
  PROVE  /\ IsFiniteSet(Table') /\ WithinCapacity' /\ UsesCounted'
         /\ ReservesCounted => ReservesCounted'
  <1>1. /\ pending \in Nat /\ MaxSessions \in Nat
        /\ IsFiniteSet(Table) /\ Cardinality(Table) \in Nat
    BY SessionAssumptions, FS_CardinalityType
    DEF SessionInv, SessionTypes, CountInv, StreamableHTTPLimits
  <1>2. \A v : v # None =>
          /\ IsFiniteSet(Users(v)) /\ Cardinality(Users(v)) \in Nat
          /\ Cardinality(Users(v)') = IF v = lease[r] THEN Cardinality(Users(v)) - 1
                                                     ELSE Cardinality(Users(v))
    BY UsersFinite, LeaseReturned DEF CountInv, SessionInv, Registering, Unreserving, Releasing
  <1>3. \A v : v # None /\ v = lease[r] => Cardinality(Users(v)) # 0
    <2>1. r \in Users(lease[r])
      BY DEF Users
    <2> QED  BY <1>2, <2>1, FS_EmptySet
  <1>4. CASE Registering(r)
    <2>1. made[r] \in Ids /\ made[r] \notin Table /\ \A q \in Requests : lease[q] # made[r]
      BY <1>4, ReservedIsNew DEF Registering
    <2>2. Table' = Table \cup {made[r]}
      BY <1>4, <2>1 DEF Registering, Table, SessionInv, SessionTypes
    <2>3. IsFiniteSet(Table') /\ Cardinality(Table') = Cardinality(Table) + 1
      BY <1>1, <2>1, <2>2, FS_AddElement
    <2>4. WithinCapacity'
      BY <1>1, <1>4, <2>3 DEF Registering, CountInv, WithinCapacity
    <2>5. ASSUME ReservesCounted PROVE ReservesCounted'
      BY <1>1, <1>2, <1>4, <2>5, SessionAssumptions DEF Registering, ReservesCounted
    <2>6. ASSUME NEW s \in Table PROVE inFlight'[s] = Cardinality(Users(s)')
      <3>1. s \in Ids /\ s # None /\ s # "reserved" /\ s # made[r]
        BY <2>1, SessionAssumptions DEF Table
      <3> QED  BY <1>2, <1>4, <3>1
               DEF Registering, CountInv, UsesCounted, SessionInv, SessionTypes
    <2>7. inFlight'[made[r]] = Cardinality(Users(made[r])')
      <3>1. Users(made[r]) = {} /\ made[r] # None /\ made[r] # lease[r]
        BY <2>1, SessionAssumptions DEF Users
      <3> QED  BY <1>2, <1>4, <2>1, <3>1, FS_EmptySet
               DEF Registering, Ending, Users, SessionInv, SessionTypes
    <2> QED  BY <1>4, <2>2, <2>3, <2>4, <2>5, <2>6, <2>7 DEF UsesCounted, Registering, Ending
  <1>5. CASE Unreserving(r)
    <2>1. Table' = Table
      BY <1>5 DEF Unreserving, Table
    <2>2. WithinCapacity'
      BY <1>1, <1>5, <2>1 DEF Unreserving, CountInv, WithinCapacity
    <2>3. ASSUME ReservesCounted PROVE ReservesCounted'
      BY <1>1, <1>2, <1>3, <1>5, <2>3, SessionAssumptions DEF Unreserving, ReservesCounted
    <2>4. ASSUME NEW s \in Table PROVE inFlight'[s] = Cardinality(Users(s)')
      <3>1. s # None /\ s # "reserved"
        BY SessionAssumptions DEF Table
      <3> QED  BY <1>2, <1>5, <3>1 DEF Unreserving, CountInv, UsesCounted
    <2> QED  BY <1>1, <2>1, <2>2, <2>3, <2>4 DEF UsesCounted
  <1>6. CASE Releasing(r)
    <2>1. Table' \in SUBSET Table
      BY <1>6 DEF Releasing, Table, SessionInv, SessionTypes
    <2>2. IsFiniteSet(Table') /\ Cardinality(Table') \in Nat /\ Cardinality(Table') <= Cardinality(Table)
      BY <1>1, <2>1, FS_Subset, FS_CardinalityType
    <2>3. WithinCapacity'
      BY <1>1, <1>6, <2>2 DEF Releasing, CountInv, WithinCapacity
    <2>4. ASSUME ReservesCounted PROVE ReservesCounted'
      BY <1>2, <1>6, <2>4, SessionAssumptions DEF Releasing, ReservesCounted
    <2>5. ASSUME NEW s \in Table' PROVE inFlight'[s] = Cardinality(Users(s)')
      <3>1. s \in Ids /\ s \in Table /\ s # None
        BY <2>1, SessionAssumptions DEF Table
      <3>2. CASE s # lease[r]
        BY <1>2, <1>6, <3>1, <3>2 DEF Releasing, CountInv, UsesCounted, SessionInv, SessionTypes
      <3>3. CASE s = lease[r]
        <4>1. inFlight[s] = Cardinality(Users(s)) /\ inFlight[s] \in Nat /\ inFlight[s] # 0
          BY <1>3, <3>1, <3>3 DEF CountInv, UsesCounted, SessionInv, SessionTypes
        <4>2. inFlight' = [inFlight EXCEPT ![lease[r]] = IF @ > 0 THEN @ - 1 ELSE 0]
          BY <1>6, <3>1, <3>3 DEF Releasing, Table, SessionInv, SessionTypes
        <4>3. inFlight'[s] = inFlight[s] - 1
          BY <3>1, <3>3, <4>1, <4>2 DEF SessionInv, SessionTypes
        <4> QED  BY <1>2, <3>1, <3>3, <4>1, <4>3
      <3> QED  BY <3>2, <3>3
    <2> QED  BY <2>2, <2>3, <2>4, <2>5 DEF UsesCounted
  <1> QED  BY <1>4, <1>5, <1>6

\* Every step keeps CountInv.
LEMMA NextCountInv ==
  ASSUME SessionInv, PlaceInv, CountInv, [TransportNext]_allVars
  PROVE  CountInv'
  <1>1. IsFiniteSet(Arrived')
    BY Arrivals, FS_AddElement, FS_Subset DEF CountInv
  <1>2. phase' # "stopped" => phase # "stopped"
    BY Arrivals
  <1>3. ASSUME IsFiniteSet(Table'), WithinCapacity', UsesCounted', ReservesCounted => ReservesCounted'
        PROVE  CountInv'
    BY <1>1, <1>2, <1>3 DEF CountInv
  <1>4. CASE TableKept \/ \E r \in Requests : Pruning(r) \/ (lease[r] = "reserved" /\ SdkCreates(r))
    <2>1. Table' = Table /\ UNCHANGED <<inFlight, pending>> /\ \A v : Users(v)' = Users(v)
      BY <1>4 DEF TableKept, Pruning, SdkCreates, tableVars, Table, Users
    <2> QED  BY <1>3, <2>1 DEF CountInv, WithinCapacity, UsesCounted, ReservesCounted
  <1>5. CASE Cleared
    <2>1. Table' = {} /\ pending' = 0 /\ phase' = "stopped" /\ MaxSessions \in Nat
      BY <1>5, SessionAssumptions DEF Cleared, ClearSessions, Table, StreamableHTTPLimits
    <2> QED  BY <1>1, <2>1, FS_EmptySet DEF CountInv, WithinCapacity, UsesCounted
  <1>6. ASSUME NEW r \in Requests, Admit(r) PROVE CountInv'
    BY <1>3, <1>6, AdmitCounts
  <1>7. ASSUME NEW r \in Requests, Registering(r) \/ Unreserving(r) \/ Releasing(r) PROVE CountInv'
    BY <1>3, <1>7, EndCounts
  <1> QED  BY <1>4, <1>5, <1>6, <1>7, SessionCases DEF SessionInv

\* A pruned session has no users, and gets none.
LEMMA NextPrunedUnused ==
  ASSUME SessionInv, PlaceInv, CountInv, PrunedUnused, [TransportNext]_allVars
  PROVE  PrunedUnused'
  <1>1. ASSUME NEW r \in Requests, Admit(r) PROVE PrunedUnused'
    <2>1. ASSUME NEW q \in Requests, NEW x \in Requests PROVE lease'[x] \notin prune'[q]
      <3>1. prune'[q] \subseteq prune[q] \cup Dropped
        BY <1>1 DEF Admit, SessionInv, SessionTypes
      <3>2. Dropped \subseteq Table \cap Ids /\ prune[q] \subseteq Ids \ Table
        BY DEF Dropped, Table, SessionInv, SessionTypes, PrunedRegistered
      <3>3. CASE lease'[x] = lease[x]
        <4>1. lease[x] \notin Dropped
          <5>1. SUFFICES ASSUME lease[x] \in Dropped PROVE FALSE
            OBVIOUS
          <5>2. lease[x] \in Table /\ inFlight[lease[x]] = 0 /\ lease[x] # None
            BY <5>1, SessionAssumptions DEF Dropped, Table
          <5>3. IsFiniteSet(Users(lease[x])) /\ Cardinality(Users(lease[x])) = 0
            BY <5>2, UsersFinite DEF CountInv, UsesCounted
          <5>4. x \in Users(lease[x])
            BY DEF Users
          <5> QED  BY <5>3, <5>4, FS_EmptySet
        <4> QED  BY <3>1, <3>3, <4>1 DEF PrunedUnused
      <3>4. CASE lease'[x] # lease[x]
        <4>1. lease'[x] = "reserved" \/ (lease'[x] = Target[x] /\ Usable(x))
          BY <1>1, <3>4 DEF Admit, SessionInv, SessionTypes
        <4>2. CASE lease'[x] = "reserved"
          BY <3>1, <3>2, <4>2, SessionAssumptions
        <4>3. CASE lease'[x] = Target[x] /\ Usable(x)
          <5>1. Target[x] \in Ids /\ Target[x] \in Table /\ Target[x] \notin Dropped
            BY <4>3, SessionAssumptions DEF Usable, Swept, Table
          <5> QED  BY <3>1, <3>2, <4>3, <5>1
        <4> QED  BY <4>1, <4>2, <4>3
      <3> QED  BY <3>3, <3>4
    <2> QED  BY <2>1 DEF PrunedUnused
  <1>2. CASE TableKept \/ Cleared
    BY <1>2 DEF TableKept, Cleared, PrunedUnused
  <1>3. ASSUME NEW r \in Requests, Pruning(r) \/ SdkCreates(r) PROVE PrunedUnused'
    BY <1>3 DEF Pruning, SdkCreates, PrunedUnused
  <1>4. ASSUME NEW r \in Requests, Registering(r) \/ Unreserving(r) \/ Releasing(r) PROVE PrunedUnused'
    <2>1. UNCHANGED prune /\ \A x \in Requests : lease'[x] \in {lease[x], None}
      BY <1>4 DEF Registering, Unreserving, Releasing, Ending, SessionInv, SessionTypes
    <2> QED  BY <2>1, SessionAssumptions DEF PrunedUnused, SessionInv, SessionTypes
  <1> QED  BY <1>1, <1>2, <1>3, <1>4, SessionCases DEF SessionInv

\* A session in use leaves the SDK's registry only by a DELETE of it.
LEMMA OnlyDeletesRemove ==
  ASSUME SessionInv, PlaceInv, CountInv, PrunedUnused, [TransportNext]_allVars,
         NEW r \in Active, lease[r] \in sdk, lease'[r] = lease[r], lease[r] \notin sdk'
  PROVE  \E q \in Deletes : lease[q] = lease[r] /\ pc[q] = "running"
  <1>0. r \in Requests /\ lease[r] \in Ids /\ lease[r] # None
    BY SessionAssumptions DEF Active, SessionInv, SessionTypes
  <1>1. ~TableKept /\ ~Cleared
    BY DEF TableKept, Cleared, ClearSessions
  <1>2. ASSUME NEW q \in Requests PROVE ~Admit(q) /\ ~Pruning(q) /\ ~SdkCreates(q)
    BY <1>0 DEF Admit, Pruning, SdkCreates, PrunedUnused
  <1>3. ASSUME NEW q \in Requests PROVE ~Registering(q) /\ ~Unreserving(q)
    BY <1>0, ReservedIsNew DEF Registering, Unreserving
  <1>4. ASSUME NEW q \in Requests, pc[q] = "running", Releasing(q)
        PROVE  q \in Deletes /\ lease[q] = lease[r]
    <2>1. lease[q] = lease[r] /\ lease[q] \in Table /\ (q \in Deletes \/ inFlight[lease[q]] <= 1)
      BY <1>4 DEF Releasing
    <2>2. q # r
      BY <1>0, <1>4 DEF Releasing, Ending, SessionInv, SessionTypes
    <2>3. SUFFICES ASSUME inFlight[lease[q]] <= 1 PROVE FALSE
      BY <2>1
    <2>4. /\ IsFiniteSet(Users(lease[q])) /\ Cardinality(Users(lease[q])) \in Nat
          /\ Cardinality(Users(lease[q])) <= 1
      BY <1>0, <2>1, <2>3, UsersFinite DEF CountInv, UsesCounted
    <2>5. q \in Users(lease[q]) /\ r \in Users(lease[q])
      BY <1>0, <2>1 DEF Users
    <2>6. Cardinality(Users(lease[q])) = 1
      <3>1. Cardinality(Users(lease[q])) # 0
        BY <2>4, <2>5, FS_EmptySet
      <3> QED  BY <2>4, <3>1
    <2>7. \E x : Users(lease[q]) = {x}
      BY <2>4, <2>6, FS_Singleton
    <2> QED  BY <2>2, <2>5, <2>7
  <1> QED  BY <1>1, <1>2, <1>3, <1>4, SessionCases DEF SessionInv

-----------------------------------------------------------------------------
(* Tokens and their callers. *)

\* No call has begun.
LEMMA InitTokenInv == TransportInit => TokenInv /\ InsideOwns /\ CancelledByOwnCaller /\ PrunedUnused
  <1> SUFFICES ASSUME TransportInit
               PROVE  TokenInv /\ InsideOwns /\ CancelledByOwnCaller /\ PrunedUnused
    OBVIOUS
  <1>1. TokenInv /\ CancelledByOwnCaller
    BY TransportAssumptions DEF TransportInit, TokenInv, TokensExact, CancelledByOwnCaller
  <1>2. InsideOwns /\ PrunedUnused
    BY DEF TransportInit, SessionsInit, InsideOwns, Inside, PrunedUnused
  <1> QED  BY <1>1, <1>2

\* Every step keeps the map of tokens exact.
LEMMA NextTokenInv ==
  ASSUME PlaceInv, TokenInv, [TransportNext]_allVars
  PROVE  TokenInv'
  <1>1. \A r \in Calls : Key(r) \in Keys /\ r \in Requests
    BY KeyType
  <1>2. ASSUME UNCHANGED <<call, active>>, token \subseteq token', phase' # "stopped" => phase # "stopped"
        PROVE  TokenInv'
    BY <1>2 DEF TokenInv, TokensExact
  <1>3. phase' # "stopped" => phase # "stopped"
    BY Arrivals
  <1>4. CASE UNCHANGED allVars \/ Start \/ Started \/ StartFails \/ Drain
    BY <1>2, <1>3, <1>4
    DEF allVars, Start, Started, StartFails, Drain, Quiet, taskVars, signalVars
  <1>5. CASE Stop
    BY <1>5 DEF Stop, Moves, signalVars, TokenInv, TokensExact
  <1>6. ASSUME NEW s \in Ids, Expire(s), UNCHANGED <<phase, taskVars, replyVars>>
        PROVE  TokenInv'
    BY <1>2, <1>3, <1>6 DEF taskVars, signalVars
  <1>7. ASSUME NEW r \in Requests,
               \/ Arrive(r) \/ Unauthorized(r) \/ Enter(r) \/ EnterFails(r) \/ Creates(r)
               \/ Notify(r) \/ Disconnect(r) \/ SdkEnds(r) \/ StreamTimeout(r) \/ CancelTask(r)
               \/ SettleRaised(r) \/ SettleCancelled(r) \/ Settle(r) \/ SettleIncomplete(r) \/ Sent(r) \/ SendRaises(r)
        PROVE  TokenInv'
    <2>1. UNCHANGED <<call, active>> /\ token \subseteq token'
      BY <1>7
      DEF SignalKey, SignalOwn, signalVars, Arrive, Unauthorized, Enter, EnterFails, Creates,
          Notify, Disconnect, SdkEnds,
                  StreamTimeout, CancelTask, SettleRaised, SettleCancelled, Settle, SettleIncomplete, Sent,
                  SendRaises, DetachTask, TakenAs, taskVars
    <2> QED  BY <1>2, <1>3, <2>1
  <1>8. ASSUME NEW r \in Requests, CallTool(r)
        PROVE  TokenInv'
    <2>1. Key(r) \in Keys /\ r \in Calls /\ r # None /\ call[r] = "none"
      BY <1>1, <1>8, TransportAssumptions DEF CallTool
    <2>2. \A k \in Keys : active'[k] = IF k = Key(r) THEN r ELSE active[k]
      BY <1>8, <2>1 DEF CallTool, PlaceInv, RequestTypes
    <2>3. \A q \in Requests : call'[q] = IF q = r THEN "active" ELSE call[q]
      BY <1>8 DEF CallTool, PlaceInv, RequestTypes
    <2>4. ASSUME NEW k \in Keys, active'[k] # None
          PROVE  call'[active'[k]] = "active" /\ Key(active'[k]) = k
      BY <2>1, <2>2, <2>3, <2>4 DEF TokenInv, TokensExact, PlaceInv, RequestTypes
    <2>5. ASSUME NEW q \in Calls, call'[q] = "active", q \notin token'
          PROVE  active'[Key(q)] = q
      <3>1. CASE q = r
        BY <2>1, <2>2, <3>1
      <3>2. CASE q # r
        <4>1. active[Key(q)] = q
          BY <1>1, <1>8, <2>3, <2>5, <3>2 DEF CallTool, SignalKey, TokenInv, TokensExact
        <4>2. Key(q) # Key(r)
          BY <1>1, <1>8, <2>5, <4>1, TransportAssumptions DEF CallTool, SignalKey
        <4> QED  BY <1>1, <2>2, <4>1, <4>2
      <3> QED  BY <3>1, <3>2
    <2> QED  BY <2>1, <2>3, <2>4, <2>5 DEF TokenInv, TokensExact
  <1>9. ASSUME NEW r \in Requests, CallEnds(r)
        PROVE  TokenInv'
    <2>1. Key(r) \in Keys /\ r \in Calls /\ r # None /\ call[r] = "active"
      BY <1>1, <1>9, TransportAssumptions DEF CallEnds, TokenInv
    <2>2. \A k \in Keys : active'[k] = IF k = Key(r) /\ active[k] = r THEN None ELSE active[k]
      BY <1>9, <2>1 DEF CallEnds, PlaceInv, RequestTypes
    <2>3. \A q \in Requests : call'[q] = IF q = r THEN "ended" ELSE call[q]
      BY <1>9 DEF CallEnds, PlaceInv, RequestTypes
    <2>4. ASSUME NEW k \in Keys, active'[k] # None
          PROVE  call'[active'[k]] = "active" /\ Key(active'[k]) = k
      BY <2>1, <2>2, <2>3, <2>4 DEF TokenInv, TokensExact, PlaceInv, RequestTypes
    <2>5. ASSUME NEW q \in Calls, call'[q] = "active", q \notin token', phase' # "stopped"
          PROVE  active'[Key(q)] = q
      BY <1>1, <1>9, <2>2, <2>3, <2>5 DEF CallEnds, signalVars, TokenInv, TokensExact
    <2> QED  BY <2>1, <2>3, <2>4, <2>5 DEF TokenInv, TokensExact
  <1> QED  BY <1>4, <1>5, <1>6, <1>7, <1>8, <1>9 DEF TransportNext, SdkOver

\* A session that was made stays made.
LEMMA MadeStays ==
  ASSUME SessionTypes, PlaceInv, [TransportNext]_allVars, NEW q \in Requests, made[q] # None
  PROVE  made'[q] = made[q]
  BY SessionCases DEF TableKept, Cleared, Admit, Pruning, SdkCreates, Registering, Unreserving,
                      Releasing, Ending, SessionTypes

\* Only an admission, which compares owners, lets a request in.
LEMMA NextInsideOwns ==
  ASSUME SessionInv, PlaceInv, InsideOwns, [TransportNext]_allVars
  PROVE  InsideOwns'
  <1> DEFINE Owns(r) == \E q \in Requests : made[q] = Target[r] /\ OwnerOf[q] = OwnerOf[r]
  <1>1. ASSUME NEW r \in Requests, Inside(r)', Target[r] # None
        PROVE  Owns(r)
    <2>1. CASE Inside(r)
      BY <1>1, <2>1 DEF InsideOwns
    <2>2. CASE ~Inside(r)
      <3>1. pc[r] \notin {"admitted", "running"} /\ task[r] = "none" /\ call[r] # "active"
        BY <2>2 DEF Inside
      <3>2. pc'[r] \in {"admitted", "running"} \/ task'[r] # "none" \/ call'[r] = "active"
        BY <1>1 DEF Inside
      <3>3. CASE \/ UNCHANGED allVars \/ Start \/ Started \/ StartFails \/ Drain \/ Stop
                \/ \E s \in Ids : Expire(s) /\ UNCHANGED <<phase, taskVars, replyVars>>
        <4>1. UNCHANGED <<pc, task, call>>
          BY <3>3 DEF allVars, vars, Start, Started, StartFails, Drain, Stop, Quiet, Expire,
                      requestVars, taskVars
        <4> QED  BY <3>1, <3>2, <4>1
      <3>4. ASSUME NEW q \in Requests,
                   \/ Arrive(q) \/ Unauthorized(q) \/ EnterFails(q) \/ Creates(q) \/ CallTool(q)
                   \/ CallEnds(q) \/ Notify(q) \/ Disconnect(q) \/ SdkEnds(q)
                   \/ StreamTimeout(q) \/ CancelTask(q) \/ SettleRaised(q)
                   \/ SettleCancelled(q) \/ Settle(q) \/ SettleIncomplete(q) \/ Sent(q) \/ SendRaises(q)
            PROVE  FALSE
        <4>1. pc' = pc \/ \E where \in {"auth", "sending", "done"} : pc' = [pc EXCEPT ![q] = where]
          BY <3>4
          DEF Arrive, Unauthorized, EnterFails, PruneFails, Creates, SdkCreates, CallTool,
                      CallEnds, Notify, Disconnect, SdkEnds, StreamTimeout, CancelTask,
                      SettleRaised, SettleCancelled, Settle, SettleIncomplete, Sent, SendRaises,
                      Goto, Moved, vars, requestVars
        <4>2. /\ task' = task \/ task[q] # "none" \/ task' = [task EXCEPT ![q] = "none"]
                 \/ pc[q] = "running"
              /\ call' = call \/ call' = [call EXCEPT ![q] = "ended"] \/ task[q] # "none"
          BY <3>4
          DEF Arrive, Unauthorized, EnterFails, Creates, CallTool, CallEnds, Notify, Disconnect,
              SdkEnds, StreamTimeout, CancelTask, SettleRaised, SettleCancelled, Settle,
              SettleIncomplete, Sent, SendRaises, InSdk, Live, DetachTask, TakenAs, taskVars
        <4>3. task' = [task EXCEPT ![q] = task'[q]] /\ call' = [call EXCEPT ![q] = call'[q]]
          BY <3>4
          DEF Arrive, Unauthorized, EnterFails, PruneFails, Creates, SdkCreates, CallTool,
                      CallEnds, Notify, Disconnect, SdkEnds, StreamTimeout, CancelTask,
                      SettleRaised, SettleCancelled, Settle, SettleIncomplete, Sent, SendRaises,
                      DetachTask, TakenAs, taskVars, PlaceInv, RequestTypes
        <4> QED  BY <3>1, <3>2, <4>1, <4>3, <4>2 DEF PlaceInv, RequestTypes
      <3>5. ASSUME NEW q \in Requests, Enter(q)
            PROVE  Owns(r)
        <4>1. q = r /\ Admit(r) /\ pc'[r] \in {"admitted", "running"}
          BY <3>1, <3>2, <3>5
          DEF Enter, Admit, Verdict, Passed, PruneOne, PlaceInv, RequestTypes, Placed
        <4>2. Usable(r)
          BY <1>1, <4>1 DEF Admit, Verdict, Passed, PlaceInv, RequestTypes, Placed
        <4>3. Target[r] \in Table /\ owner[Target[r]] = OwnerOf[r]
          BY <4>2, SessionAssumptions DEF Usable, Swept, Table
        <4> QED  BY <4>3 DEF SessionInv, ListedRegistered
      <3> QED  BY <3>3, <3>4, <3>5 DEF TransportNext, SdkOver
    <2> QED  BY <2>1, <2>2
  <1>2. ASSUME NEW r \in Requests, Owns(r), Target[r] # None
        PROVE  \E q \in Requests : made'[q] = Target[r] /\ OwnerOf[q] = OwnerOf[r]
    BY <1>2, MadeStays DEF SessionInv
  <1> QED  BY <1>1, <1>2 DEF InsideOwns, Inside

\* What a request finds at its key is a call its caller names, and on a session one of
\* its own.
LEMMA FoundIsOwn ==
  ASSUME SessionInv, PlaceInv, TokenInv, InsideOwns,
         NEW r \in Calls \cup Notifies, task[r] # "none"
  PROVE  /\ active[Key(r)] # None => active[Key(r)] \in Namesakes(r)
         /\ \A q \in Namesakes(r) \ OwnCalls(r) : Target[q] = None
  <1>1. Key(r) \in Keys /\ r \in Requests
    BY KeyType
  <1>2. ASSUME active[Key(r)] # None PROVE active[Key(r)] \in Namesakes(r)
    BY <1>1, <1>2 DEF TokenInv, TokensExact, PlaceInv, RequestTypes, Namesakes
  <1>3. ASSUME NEW q \in Namesakes(r), Target[q] # None
        PROVE  q \in OwnCalls(r)
    <2>1. q \in Requests /\ q \in Calls /\ call[q] = "active" /\ Target[q] = Target[r] /\ IdOf[q] = IdOf[r]
      BY TransportAssumptions DEF Namesakes, Key
    <2>2. Inside(q) /\ Inside(r)
      BY <2>1 DEF Inside
    <2>3. OwnerOf[q] = OwnerOf[r]
      BY <1>1, <1>3, <2>1, <2>2 DEF InsideOwns, SessionInv, MadeOnce
    <2> QED  BY <2>1, <2>3 DEF OwnCalls
  <1> QED  BY <1>2, <1>3

\* Every step keeps cancellations with their callers.
LEMMA NextCancelled ==
  ASSUME SessionInv, PlaceInv, TokenInv, InsideOwns, CancelledByOwnCaller,
         [TransportNext]_allVars
  PROVE  CancelledByOwnCaller'
  <1>1. CASE \/ UNCHANGED allVars \/ Start \/ Started \/ StartFails \/ Drain \/ Stop
            \/ \E s \in Ids : Expire(s) /\ UNCHANGED <<phase, taskVars, replyVars>>
    BY <1>1
    DEF allVars, Start, Started, StartFails, Drain, Stop, Quiet, taskVars, signalVars, CancelledByOwnCaller
  <1>2. ASSUME NEW r \in Requests,
               \/ Arrive(r) \/ Unauthorized(r) \/ Enter(r) \/ EnterFails(r) \/ Creates(r)
               \/ CallEnds(r) \/ Disconnect(r) \/ SdkEnds(r) \/ StreamTimeout(r) \/ CancelTask(r)
               \/ SettleRaised(r) \/ SettleCancelled(r) \/ Settle(r) \/ SettleIncomplete(r) \/ Sent(r) \/ SendRaises(r)
        PROVE  CancelledByOwnCaller'
    BY <1>2
    DEF SignalOwn, Arrive, Unauthorized, Enter, EnterFails, Creates, CallEnds, Disconnect,
        SdkEnds,
                StreamTimeout, CancelTask, SettleRaised, SettleCancelled, Settle, SettleIncomplete, Sent,
                SendRaises, DetachTask, TakenAs, taskVars, signalVars, CancelledByOwnCaller
  <1>3. ASSUME NEW r \in Requests, CallTool(r) \/ Notify(r)
        PROVE  CancelledByOwnCaller'
    <2>1. /\ r \in Calls \cup Notifies /\ task[r] # "none"
          /\ SignalKey(r)
      BY <1>3 DEF CallTool, Notify, Live, InSdk
    <2>2. token' \subseteq entitled' \cup crossed'
      BY <2>1, FoundIsOwn DEF CancelledByOwnCaller, SignalKey
    <2>3. \A q \in crossed' : Target[q] = None
      BY <2>1, FoundIsOwn DEF CancelledByOwnCaller, SignalKey
    <2> QED  BY <2>2, <2>3 DEF CancelledByOwnCaller
  <1> QED  BY <1>1, <1>2, <1>3 DEF TransportNext, SdkOver

-----------------------------------------------------------------------------
(* The theorems. *)

TransportInv == PlaceInv /\ SessionInv /\ CountInv /\ PrunedUnused /\ TokenInv /\ InsideOwns

\* TransportInv is inductive.
LEMMA TransportInvariant == TransportSpec => []TransportInv
  <1>1. TransportInit => TransportInv
    BY InitPlaceInv, InitSessionInv, InitCountInv, InitTokenInv DEF TransportInv
  <1>2. TransportInv /\ [TransportNext]_allVars => TransportInv'
    BY NextPlaceInv, NextSessionInv, NextCountInv, NextPrunedUnused, NextTokenInv,
       NextInsideOwns
    DEF TransportInv, SessionInv
  <1> QED  BY <1>1, <1>2, PTL DEF TransportSpec

\* Sessions and reservations never exceed max_sessions, listed sessions exist in the
\* SDK, and until stop the counters are exactly what requests hold: for every number
\* of requests and sessions and every order of admissions, expiries, timeouts,
\* cancellations and the stop.
THEOREM SessionTableExact == TransportSpec => []SessionsAccounted
  <1>1. TransportInv => SessionsAccounted
    <2> SUFFICES ASSUME TransportInv PROVE SessionsAccounted
      OBVIOUS
    <2>1. \A r \in Requests : lease[r] # None => r \in Holders
      BY DEF TransportInv, PlaceInv, RequestTypes, Placed, Places, Holders, Active, Stranded
    <2>2. \A v : v # None => {r \in Holders : lease[r] = v} = Users(v)
      BY <2>1 DEF Users, Holders, Active, Stranded
    <2>3. phase # "stopped" => ReservationsExact
      BY <2>2, SessionAssumptions DEF TransportInv, CountInv, ReservesCounted, ReservationsExact
    <2>4. ReferencesExact
      <3>1. \A s \in Table : s # None
        BY SessionAssumptions DEF Table
      <3> QED  BY <2>2, <3>1 DEF TransportInv, CountInv, UsesCounted, ReferencesExact
    <2> QED  BY <2>3, <2>4 DEF TransportInv, PlaceInv, CountInv, SessionInv, SessionsAccounted
  <1> QED  BY <1>1, TransportInvariant, PTL

\* A session in use is removed from the SDK only by a DELETE of that session, never
\* by another request's sweep of expired sessions.
THEOREM SessionsInUseStay == TransportSpec => InUseNotPruned
  <1> DEFINE Step == \A r \in Active :
               lease[r] \in sdk /\ lease'[r] = lease[r] /\ lease[r] \notin sdk'
                 => \E q \in Deletes : lease[q] = lease[r] /\ pc[q] = "running"
  <1>1. TransportInv /\ [TransportNext]_allVars => [Step]_vars
    BY OnlyDeletesRemove DEF TransportInv
  <1> HIDE DEF Step
  <1>2. TransportSpec => [][Step]_vars
    BY <1>1, TransportInvariant, PTL DEF TransportSpec
  <1> QED  BY <1>2 DEF InUseNotPruned, Step

\* The map of cancellation tokens holds exactly the newest uncancelled call of each
\* key, in whatever order superseded calls end.
THEOREM TokenMapExact == TransportSpec => []TokensExact
  BY TransportInvariant, PTL DEF TransportInv, TokenInv

\* A token is set only by the caller of the request, its deadline or its task, in both
\* modes and with calls on sessions and without.  On a session ids of different owners never
\* meet, because a session has one owner for ever and requests inside it have that owner;
\* a call without a session is the only one another caller can cancel.
THEOREM CancellationsAreOwn == TransportSpec => []CancelledByOwnCaller
  <1>1. TransportInv /\ CancelledByOwnCaller /\ [TransportNext]_allVars => CancelledByOwnCaller'
    BY NextCancelled DEF TransportInv
  <1>2. TransportInit => CancelledByOwnCaller
    BY InitTokenInv
  <1> QED  BY <1>1, <1>2, TransportInvariant, PTL DEF TransportSpec

\* A committed response is the only one, a second is begun only for a request that was
\* given up, and a request that ends without one was given up too.
THEOREM ResponsesOnce == TransportSpec => []AnsweredOnce
  <1>1. TransportInv => AnsweredOnce
    BY DEF TransportInv, PlaceInv, RequestTypes, Replies, GivenUp, Places, AnsweredOnce
  <1> QED  BY <1>1, TransportInvariant, PTL
=============================================================================
