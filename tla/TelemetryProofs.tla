--------------------------- MODULE TelemetryProofs ---------------------------
(***************************************************************************)
(* Proofs about Telemetry, for any set of spans, finite or not, and every  *)
(* size of the queue and of a batch the SDK runtime accepts.               *)
(*                                                                         *)
(* LossesCounted speaks of the end only.  What leads there is a balance    *)
(* that holds at every moment: each span the SDK has taken and not         *)
(* delivered is paid for by a drop the exporter was or is to be told of, by *)
(* the pending count, or by the batch the worker waits for, whose loss it   *)
(* is still to count.  The balance     *)
(* needs to know where the spans are: no span is in two places, so what a  *)
(* batch is counted for is what leaves with it.                            *)
(***************************************************************************)
EXTENDS Telemetry, FiniteSetTheorems, TLAPS

TelTypes ==
  /\ fate \in [Spans -> {"open", "queued", "batched", "delivered", "lost"}]
  /\ queue \in Seq(Spans) /\ batch \in Seq(Spans)
  /\ pending \in Nat /\ drops \in Nat /\ pendingDrops \in Nat /\ forwarded \in Nat
  /\ raced \in Nat /\ untold \in Nat
  /\ ending # None => ending \in [span : Spans, step : {"add", "emit"}]
  /\ inFlight # None => inFlight \in Seq(Spans)
  /\ reading # None => reading \in Nat
  /\ worker \in {"idle", "popped", "waiting", "ended"}
  /\ shutdown \in {"no", "begun", "joined", "closed"}

\* The spans of a sequence are distinct and share a fate.
Holds(seq, how) ==
  /\ \A i, j \in DOMAIN seq : seq[i] = seq[j] => i = j
  /\ \A i \in DOMAIN seq : fate[seq[i]] = how

\* A span is in one place: with the loop, the queue, the worker or an export thread.
SpansPlaced ==
  /\ ending # None => fate[ending.span] = "open"
  /\ Holds(queue, "queued")
  /\ worker = "popped" => Holds(batch, "batched")
  /\ inFlight # None => Holds(inFlight, "batched")
  /\ worker = "popped" /\ inFlight # None => ToSet(batch) \cap ToSet(inFlight) = {}
  /\ worker = "waiting" /\ result # None => inFlight = None

\* What the exporter was told and is still to be told, and what it is not told.
DropsForwarded ==
  /\ forwarded + pendingDrops + untold = drops
  /\ reading # None => reading <= pendingDrops

\* Spans the SDK was given and has not delivered.
Gone == {s \in Spans : fate[s] \notin {"open", "delivered"}}

\* The span on its way to the SDK, the batch whose loss the worker is still to count,
\* and what closing will count.
Emitting == IF ending # None /\ ending.step = "emit" THEN 1 ELSE 0
Waited == IF worker = "waiting" /\ result # TRUE THEN Len(batch) ELSE 0
Owed == IF shutdown = "closed" THEN 0 ELSE pending

Balanced ==
  /\ IsFiniteSet(Gone)
  /\ Cardinality(Gone) + Emitting <= forwarded + pendingDrops + raced + Waited + Owed

TelInv == TelTypes /\ SpansPlaced /\ DropsForwarded /\ Balanced

\* A batch of distinct spans is as large as it is long.
LEMMA DistinctSpansCount ==
  ASSUME NEW seq \in Seq(Spans), NEW how, Holds(seq, how)
  PROVE  IsFiniteSet(ToSet(seq)) /\ Cardinality(ToSet(seq)) = Len(seq)
  <1>1. seq \in [1..Len(seq) -> ToSet(seq)] /\ Len(seq) \in Nat
    BY DEF ToSet
  <1>2. seq \in Bijection(1..Len(seq), ToSet(seq))
    <2>1. \A i, j \in 1..Len(seq) : seq[i] = seq[j] => i = j
      BY DEF Holds
    <2>2. \A u \in ToSet(seq) : \E i \in 1..Len(seq) : seq[i] = u
      BY DEF ToSet
    <2> QED  BY <1>1, <2>1, <2>2 DEF Bijection, Injection, Surjection, IsInjective
  <1>3. ExistsBijection(1..Len(seq), ToSet(seq))
    BY <1>2 DEF ExistsBijection
  <1> QED  BY <1>1, <1>3, FS_CountingElements, FS_NatBijection

\* A set without a part of it.
LEMMA TakenAway ==
  ASSUME NEW S, IsFiniteSet(S), NEW T \in SUBSET S
  PROVE  IsFiniteSet(S \ T) /\ Cardinality(S \ T) = Cardinality(S) - Cardinality(T)
  <1>1. S = T \cup (S \ T) /\ T \cap (S \ T) = {}
    OBVIOUS
  <1>2. IsFiniteSet(T) /\ IsFiniteSet(S \ T)
    BY FS_Subset
  <1>3. Cardinality(S) = Cardinality(T) + Cardinality(S \ T) - Cardinality({})
    BY <1>1, <1>2, FS_Union
  <1> QED  BY <1>2, <1>3, FS_EmptySet, FS_CardinalityType

\* The terms of the balance are numbers.
LEMMA BalanceTypes ==
  ASSUME TelInv
  PROVE  /\ Cardinality(Gone) \in Nat /\ Emitting \in Nat /\ Waited \in Nat /\ Owed \in Nat
         /\ drops \in Nat /\ raced \in Nat /\ forwarded \in Nat /\ pendingDrops \in Nat
  <1>1. Cardinality(Gone) \in Nat
    BY FS_CardinalityType DEF TelInv, Balanced
  <1>2. Len(batch) \in Nat /\ pending \in Nat /\ drops \in Nat /\ raced \in Nat
        /\ forwarded \in Nat /\ pendingDrops \in Nat
    BY DEF TelInv, TelTypes
  <1> QED  BY <1>1, <1>2 DEF Emitting, Waited, Owed

\* Every span is open and nothing is counted.
LEMMA InitTelInv == TelInit => TelInv
  <1> SUFFICES ASSUME TelInit PROVE TelInv
    OBVIOUS
  <1>1. TelTypes
    BY DEF TelInit, TelTypes
  <1>2. SpansPlaced /\ DropsForwarded
    BY DEF TelInit, SpansPlaced, Holds, DropsForwarded
  <1>3. Gone = {}
    BY DEF TelInit, Gone
  <1>4. Balanced
    BY <1>3, FS_EmptySet DEF TelInit, Balanced, Emitting, Waited, Owed
  <1> QED  BY <1>1, <1>2, <1>4 DEF TelInv

-----------------------------------------------------------------------------
(* The loop ends a span. *)

\* The drop counters move together, or not at all.
LEMMA DropsKeepForwarded ==
  ASSUME TelInv, NEW n \in Nat, RecordDropped(n), UNCHANGED <<forwarded, reading, untold>>
  PROVE  DropsForwarded' /\ drops' \in Nat /\ pendingDrops' \in Nat
  BY DEF TelInv, TelTypes, DropsForwarded, RecordDropped

\* A span that ends after the processor stopped accepting is counted as it leaves.
LEMMA EndSpanKeepsInv ==
  ASSUME TelInv, NEW s \in Spans, EndSpan(s)
  PROVE  TelInv'
  <1>1. PICK n \in {0, 1} : /\ drops' = drops + n /\ pendingDrops' = pendingDrops + n
                            /\ ending' = [span |-> s, step |-> IF n = 0 THEN "add" ELSE "emit"]
    BY DEF EndSpan, NoDrop, RecordDropped, TelInv, TelTypes
  <1>2. ending = None /\ fate[s] = "open"
    BY DEF EndSpan, LoopIdle
  <1>3. UNCHANGED <<fate, queue, pending, worker, batch, inFlight, result, shutdown, raced,
                    reading, forwarded, untold>>
    BY DEF EndSpan, metricVars
  <1>4. TelTypes'
    BY <1>1, <1>3 DEF TelInv, TelTypes
  <1>5. SpansPlaced'
    BY <1>1, <1>2, <1>3 DEF TelInv, SpansPlaced, Holds
  <1>6. DropsForwarded'
    BY <1>1, <1>3 DEF TelInv, TelTypes, DropsForwarded
  <1>7. Balanced'
    <2>1. Gone' = Gone /\ Waited' = Waited /\ Owed' = Owed
      BY <1>3 DEF Gone, Waited, Owed
    <2>2. Emitting = 0 /\ Emitting' <= n
      BY <1>1, <1>2 DEF Emitting
    <2>3. Emitting' \in Nat
      BY DEF Emitting
    <2> QED  BY <1>1, <1>3, <2>1, <2>2, <2>3, BalanceTypes DEF TelInv, Balanced
  <1> QED  BY <1>4, <1>5, <1>6, <1>7 DEF TelInv

\* The span is added to the pending count, or dropped.
LEMMA AddPendingKeepsInv ==
  ASSUME TelInv, AddPending
  PROVE  TelInv'
  <1>1. PICK n, m \in {0, 1} :
          /\ n + m = 1
          /\ drops' = drops + n /\ pendingDrops' = pendingDrops + n /\ pending' = pending + m
          /\ raced' = raced + IF shutdown = "closed" THEN m ELSE 0
    BY DEF AddPending, NoDrop, RecordDropped, TelInv, TelTypes
  <1>2. /\ ending # None /\ ending.step = "add"
        /\ ending' = [ending EXCEPT !.step = "emit"]
        /\ ending \in [span : Spans, step : {"add", "emit"}]
    BY DEF AddPending, TelInv, TelTypes
  <1>3. UNCHANGED <<fate, queue, worker, batch, inFlight, result, shutdown, reading, forwarded, untold>>
    BY DEF AddPending, metricVars
  <1>4. TelTypes'
    BY <1>1, <1>2, <1>3 DEF TelInv, TelTypes
  <1>5. SpansPlaced'
    BY <1>2, <1>3 DEF TelInv, SpansPlaced, Holds
  <1>6. DropsForwarded'
    BY <1>1, <1>3 DEF TelInv, TelTypes, DropsForwarded
  <1>7. Balanced'
    <2>1. Gone' = Gone /\ Waited' = Waited
      BY <1>3 DEF Gone, Waited
    <2>2. Emitting = 0 /\ Emitting' <= 1
      BY <1>2 DEF Emitting
    <2>3. Emitting' \in Nat
      BY DEF Emitting
    <2>4. raced' + Owed' = raced + Owed + m
      BY <1>1, <1>3 DEF Owed, TelInv, TelTypes
    <2>5. raced' \in Nat /\ Owed' \in Nat
      BY <1>4 DEF TelTypes, Owed
    <2>6. Cardinality(Gone') + Emitting' <= forwarded + pendingDrops + raced + Waited + Owed + 1
      BY <2>1, <2>2, <2>3, BalanceTypes DEF TelInv, Balanced
    <2>7. /\ forwarded' + pendingDrops' = forwarded + pendingDrops + n /\ m = 1 - n
          /\ forwarded' \in Nat /\ pendingDrops' \in Nat
      BY <1>1, <1>3, BalanceTypes
    <2>8. Cardinality(Gone') + Emitting'
            <= forwarded' + pendingDrops' + raced' + Waited' + Owed'
      BY <2>1, <2>3, <2>4, <2>5, <2>6, <2>7, BalanceTypes
    <2> QED  BY <2>1, <2>8 DEF TelInv, Balanced
  <1> QED  BY <1>4, <1>5, <1>6, <1>7 DEF TelInv

\* The SDK takes the span, possibly for its oldest one: one more is gone.
LEMMA EmitKeepsInv ==
  ASSUME TelInv, Emit
  PROVE  TelInv'
  <1> DEFINE s == ending.span
  <1>1. /\ ending # None /\ ending.step = "emit" /\ s \in Spans /\ fate[s] = "open"
        /\ ending' = None
    BY DEF Emit, TelInv, TelTypes, SpansPlaced
  <1>2. UNCHANGED <<pending, worker, batch, inFlight, result, shutdown, raced, drops,
                    pendingDrops, reading, forwarded, untold>>
    BY DEF Emit, metricVars
  <1>3. \/ fate' = [fate EXCEPT ![s] = "lost"] /\ queue' = queue
        \/ /\ queue # <<>> /\ queue' = Append(Tail(queue), s)
           /\ fate' = [fate EXCEPT ![s] = "queued", ![Head(queue)] = "lost"]
        \/ queue' = Append(queue, s) /\ fate' = [fate EXCEPT ![s] = "queued"]
    BY TelemetryAssumptions DEF Emit, OpenTelemetrySDKLimits
  <1>4. /\ \A i \in DOMAIN queue : queue[i] \in Spans /\ fate[queue[i]] = "queued"
        /\ \A i, j \in DOMAIN queue : queue[i] = queue[j] => i = j
        /\ fate \in [Spans -> {"open", "queued", "batched", "delivered", "lost"}]
        /\ queue \in Seq(Spans)
    BY DEF TelInv, TelTypes, SpansPlaced, Holds
  <1>5. /\ fate' \in [Spans -> {"open", "queued", "batched", "delivered", "lost"}]
        /\ queue' \in Seq(Spans) /\ Holds(queue, "queued")'
        /\ fate'[s] \in {"queued", "lost"}
        /\ \A u \in Spans \ {s} : \/ fate'[u] = fate[u]
                                  \/ fate[u] = "queued" /\ fate'[u] = "lost"
    <2>1. CASE fate' = [fate EXCEPT ![s] = "lost"] /\ queue' = queue
      BY <1>1, <1>4, <2>1 DEF Holds
    <2>2. CASE /\ queue # <<>> /\ queue' = Append(Tail(queue), s)
               /\ fate' = [fate EXCEPT ![s] = "queued", ![Head(queue)] = "lost"]
      <3>1. /\ Head(queue) = queue[1] /\ 1 \in DOMAIN queue /\ Head(queue) \in Spans
            /\ Head(queue) # s /\ fate[Head(queue)] = "queued"
        BY <1>1, <1>4, <2>2
      <3>2. /\ queue' \in Seq(Spans) /\ Len(queue') = Len(queue)
            /\ DOMAIN queue' = 1..Len(queue) /\ DOMAIN queue = 1..Len(queue)
            /\ Len(queue) \in Nat
        BY <1>1, <1>4, <2>2
      <3>3. \A i \in 1..Len(queue) : queue'[i] = IF i = Len(queue) THEN s ELSE queue[i + 1]
        BY <1>1, <1>4, <2>2
      <3>4. fate'[s] = "queued" /\ fate'[Head(queue)] = "lost"
            /\ \A u \in Spans \ {s, Head(queue)} : fate'[u] = fate[u]
        BY <1>1, <1>4, <2>2, <3>1
      <3>5. \A i \in 1..Len(queue) : i # Len(queue) =>
               /\ i + 1 \in DOMAIN queue /\ queue[i + 1] # queue[1] /\ queue[i + 1] # s
               /\ queue[i + 1] \in Spans
        BY <1>1, <1>4, <3>1
      <3>6. Holds(queue, "queued")'
        <4>1. \A i \in DOMAIN queue' : fate'[queue'[i]] = "queued"
          <5> SUFFICES ASSUME NEW i \in 1..Len(queue) PROVE fate'[queue'[i]] = "queued"
            BY <3>2
          <5>1. CASE i = Len(queue)
            BY <3>3, <3>4, <5>1
          <5>2. CASE i # Len(queue)
            BY <1>4, <3>1, <3>3, <3>4, <3>5, <5>2
          <5> QED  BY <5>1, <5>2
        <4>2. \A i, j \in DOMAIN queue' : queue'[i] = queue'[j] => i = j
          <5> SUFFICES ASSUME NEW i \in 1..Len(queue), NEW j \in 1..Len(queue),
                              queue'[i] = queue'[j]
                       PROVE  i = j
            BY <3>2
          <5>1. CASE i = Len(queue) \/ j = Len(queue)
            BY <3>3, <3>5, <5>1
          <5>2. CASE i # Len(queue) /\ j # Len(queue)
            <6>1. queue[i + 1] = queue[j + 1] /\ i + 1 \in DOMAIN queue /\ j + 1 \in DOMAIN queue
              BY <3>3, <3>5, <5>2
            <6> QED  BY <1>4, <3>2, <6>1
          <5> QED  BY <5>1, <5>2
        <4> QED  BY <4>1, <4>2 DEF Holds
      <3>7. fate' \in [Spans -> {"open", "queued", "batched", "delivered", "lost"}]
        BY <1>1, <1>4, <2>2
      <3> QED  BY <3>1, <3>2, <3>4, <3>6, <3>7
    <2>3. CASE queue' = Append(queue, s) /\ fate' = [fate EXCEPT ![s] = "queued"]
      <3>1. queue' \in Seq(Spans) /\ Len(queue') = Len(queue) + 1
        BY <1>1, <1>4, <2>3
      <3>2. \A i \in 1..(Len(queue) + 1) : queue'[i] = IF i = Len(queue) + 1 THEN s ELSE queue[i]
        BY <1>1, <1>4, <2>3
      <3>3. Holds(queue, "queued")'
        BY <1>1, <1>4, <2>3, <3>1, <3>2 DEF Holds
      <3> QED  BY <1>1, <1>4, <2>3, <3>1, <3>3
    <2> QED  BY <1>3, <2>1, <2>2, <2>3
  <1>6. TelTypes'
    BY <1>1, <1>2, <1>5 DEF TelInv, TelTypes
  <1>7. SpansPlaced'
    <2>1. \A seq \in Seq(Spans) : Holds(seq, "batched") =>
             \A i \in DOMAIN seq : fate'[seq[i]] = "batched"
      BY <1>1, <1>5 DEF Holds
    <2>2. \A seq \in Seq(Spans) : Holds(seq, "batched") => Holds(seq, "batched")'
      BY <2>1 DEF Holds
    <2> QED  BY <1>1, <1>2, <1>5, <2>2 DEF TelInv, TelTypes, SpansPlaced, Holds
  <1>8. DropsForwarded'
    BY <1>2 DEF TelInv, DropsForwarded
  <1>9. Balanced'
    <2>1. Gone' = Gone \cup {s} /\ s \notin Gone
      BY <1>1, <1>5 DEF Gone
    <2>2. IsFiniteSet(Gone') /\ Cardinality(Gone') = Cardinality(Gone) + 1
      BY <2>1, FS_AddElement DEF TelInv, Balanced
    <2>3. Emitting = 1 /\ Emitting' = 0 /\ Waited' = Waited /\ Owed' = Owed
      BY <1>1, <1>2 DEF Emitting, Waited, Owed
    <2> QED  BY <1>2, <2>2, <2>3, BalanceTypes DEF TelInv, Balanced
  <1> QED  BY <1>6, <1>7, <1>8, <1>9 DEF TelInv
-----------------------------------------------------------------------------
(* The worker and the export threads. *)

\* The fates after a batch is settled.
LEMMA SettledFates ==
  ASSUME TelTypes, NEW seq \in Seq(Spans), NEW how \in {"batched", "delivered", "lost"},
         fate' = Settled(seq, how)
  PROVE  /\ fate' \in [Spans -> {"open", "queued", "batched", "delivered", "lost"}]
         /\ \A i \in DOMAIN seq : fate'[seq[i]] = how
         /\ \A s \in Spans \ ToSet(seq) : fate'[s] = fate[s]
  <1>1. \A i \in DOMAIN seq : seq[i] \in Spans /\ seq[i] \in ToSet(seq)
    BY DEF ToSet
  <1> QED  BY <1>1 DEF Settled, TelTypes

\* Fates that differ from those of a sequence are kept when it is settled.
LEMMA OthersKeepFates ==
  ASSUME TelTypes, NEW seq \in Seq(Spans), NEW how \in {"batched", "delivered", "lost"},
         fate' = Settled(seq, how),
         NEW other \in Seq(Spans), NEW kept, Holds(other, kept),
         ToSet(other) \cap ToSet(seq) = {}
  PROVE  \A i \in DOMAIN other : fate'[other[i]] = kept
  <1>1. \A i \in DOMAIN other : other[i] \in Spans \ ToSet(seq)
    BY DEF ToSet
  <1> QED  BY <1>1, SettledFates DEF Holds

\* Sequences of spans with different fates share none.
LEMMA DifferentFatesApart ==
  ASSUME NEW a \in Seq(Spans), NEW b \in Seq(Spans), Holds(a, "queued"), Holds(b, "batched")
  PROVE  ToSet(a) \cap ToSet(b) = {}
  BY DEF Holds, ToSet

\* The worker takes spans off the queue.
LEMMA PopBatchKeepsInv ==
  ASSUME TelInv, PopBatch
  PROVE  TelInv'
  <1>1. UNCHANGED <<pending, ending, inFlight, result, shutdown, raced, drops, pendingDrops,
                    reading, forwarded, untold>>
    BY DEF PopBatch, metricVars
  <1>2. CASE worker = "idle" /\ worker' = "ended" /\ UNCHANGED <<queue, batch, fate>>
    <2>1. TelTypes'
      BY <1>1, <1>2 DEF TelInv, TelTypes
    <2>2. SpansPlaced' /\ DropsForwarded'
      BY <1>1, <1>2 DEF TelInv, SpansPlaced, Holds, DropsForwarded
    <2>3. Gone' = Gone /\ Emitting' = Emitting /\ Waited' = Waited /\ Owed' = Owed
      BY <1>1, <1>2 DEF Gone, Emitting, Waited, Owed
    <2> QED  BY <1>1, <2>1, <2>2, <2>3 DEF TelInv, Balanced
  <1>3. CASE /\ worker = "idle" /\ queue # <<>> /\ worker' = "popped"
             /\ \E n \in 1..Len(queue) :
                  /\ batch' = SubSeq(queue, 1, n)
                  /\ queue' = SubSeq(queue, n + 1, Len(queue))
                  /\ fate' = Settled(SubSeq(queue, 1, n), "batched")
    <2>1. PICK n \in 1..Len(queue) :
            /\ batch' = SubSeq(queue, 1, n)
            /\ queue' = SubSeq(queue, n + 1, Len(queue))
            /\ fate' = Settled(SubSeq(queue, 1, n), "batched")
      BY <1>3
    <2>2. /\ queue \in Seq(Spans) /\ Len(queue) \in Nat /\ DOMAIN queue = 1..Len(queue)
          /\ \A i, j \in 1..Len(queue) : queue[i] = queue[j] => i = j
          /\ \A i \in 1..Len(queue) : queue[i] \in Spans /\ fate[queue[i]] = "queued"
      BY DEF TelInv, TelTypes, SpansPlaced, Holds
    <2>3. /\ batch' \in Seq(Spans) /\ DOMAIN batch' = 1..n
          /\ \A i \in 1..n : batch'[i] = queue[i]
      BY <2>1, <2>2
    <2>4. /\ queue' \in Seq(Spans) /\ DOMAIN queue' = 1..(Len(queue) - n)
          /\ \A i \in 1..(Len(queue) - n) :
               i + n \in 1..Len(queue) /\ i + n \notin 1..n /\ queue'[i] = queue[i + n]
      BY <2>1, <2>2
    <2>5. /\ fate' \in [Spans -> {"open", "queued", "batched", "delivered", "lost"}]
          /\ \A i \in DOMAIN batch' : fate'[batch'[i]] = "batched"
          /\ \A s \in Spans \ ToSet(batch') : fate'[s] = fate[s]
      BY <2>1, <2>3, SettledFates DEF TelInv
    <2>6. Holds(batch, "batched")'
      BY <2>2, <2>3, <2>5 DEF Holds
    <2>7. \A i \in 1..(Len(queue) - n) : queue'[i] \in Spans \ ToSet(batch')
      <3> SUFFICES ASSUME NEW i \in 1..(Len(queue) - n), NEW k \in 1..n, batch'[k] = queue'[i]
                   PROVE  FALSE
        BY <2>2, <2>3, <2>4 DEF ToSet
      <3>1. queue[k] = queue[i + n] /\ k \in 1..Len(queue) /\ i + n \in 1..Len(queue) /\ k # i + n
        BY <2>2, <2>3, <2>4
      <3> QED  BY <2>2, <3>1
    <2>8. Holds(queue, "queued")'
      <3>1. ASSUME NEW i \in 1..(Len(queue) - n), NEW j \in 1..(Len(queue) - n), queue'[i] = queue'[j]
            PROVE  i = j
        <4>1. i + n = j + n
          BY <2>2, <2>4, <3>1
        <4> QED  BY <2>2, <4>1
      <3>2. \A i \in 1..(Len(queue) - n) : fate'[queue'[i]] = "queued"
        BY <2>2, <2>4, <2>5, <2>7
      <3> QED  BY <2>4, <3>1, <3>2 DEF Holds
    <2>9. \A u \in ToSet(batch') : fate[u] = "queued" /\ u \in Spans
      BY <2>2, <2>3 DEF ToSet, Holds
    <2>10. inFlight # None => Holds(inFlight, "batched")' /\ ToSet(batch') \cap ToSet(inFlight) = {}
      <3> SUFFICES ASSUME inFlight # None
                   PROVE  Holds(inFlight, "batched")' /\ ToSet(batch') \cap ToSet(inFlight) = {}
        OBVIOUS
      <3>1. inFlight \in Seq(Spans) /\ Holds(inFlight, "batched")
        BY DEF TelInv, TelTypes, SpansPlaced
      <3>2. \A i \in DOMAIN inFlight : inFlight[i] \in Spans \ ToSet(batch')
        BY <2>9, <3>1 DEF Holds
      <3>3. ToSet(batch') \cap ToSet(inFlight) = {}
        BY <3>2 DEF ToSet
      <3> QED  BY <1>1, <2>5, <3>1, <3>2, <3>3 DEF Holds
    <2>11. ending # None => fate'[ending.span] = "open"
      BY <2>5, <2>9 DEF TelInv, TelTypes, SpansPlaced
    <2>12. TelTypes'
      BY <1>1, <1>3, <2>3, <2>4, <2>5 DEF TelInv, TelTypes
    <2>13. SpansPlaced'
      BY <1>1, <1>3, <2>6, <2>8, <2>10, <2>11 DEF SpansPlaced
    <2>14. Gone' = Gone
      <3>1. \A u \in ToSet(batch') : fate'[u] = "batched"
        BY <2>5 DEF ToSet
      <3>2. \A s \in Spans : s \in Gone' <=> s \in Gone
        BY <2>5, <2>9, <3>1 DEF Gone
      <3> QED  BY <3>2 DEF Gone
    <2>15. Emitting' = Emitting /\ Waited' = Waited /\ Owed' = Owed
      BY <1>1, <1>3 DEF Emitting, Waited, Owed
    <2> QED  BY <1>1, <2>12, <2>13, <2>14, <2>15 DEF TelInv, DropsForwarded, Balanced
  <1> QED
    <2>1. queue # <<>> => (IF Len(queue) < BatchSize THEN Len(queue) ELSE BatchSize) \in 1..Len(queue)
      BY TelemetryAssumptions DEF TelInv, TelTypes, OpenTelemetrySDKLimits
    <2> QED  BY <1>2, <1>3, <2>1 DEF PopBatch

\* The batch goes to an export thread and the worker waits, or the batch is lost.
LEMMA ExportKeepsInv ==
  ASSUME TelInv, Export
  PROVE  TelInv'
  <1>1. /\ worker = "popped" /\ batch \in Seq(Spans) /\ Len(batch) \in Nat
        /\ Holds(batch, "batched")
    BY DEF Export, TelInv, TelTypes, SpansPlaced
  <1>2. pending' \in Nat /\ pending <= pending' + Len(batch)
    BY <1>1 DEF Export, TelInv, TelTypes
  <1>3. UNCHANGED <<queue, ending, shutdown, raced, reading, forwarded, untold>>
    BY DEF Export, metricVars
  <1>4. Waited = 0 /\ Emitting' = Emitting /\ Owed <= Owed' + Len(batch) /\ Owed' \in Nat
    BY <1>1, <1>2, <1>3 DEF Waited, Emitting, Owed, TelInv, TelTypes
  <1>5. CASE /\ inFlight = None /\ inFlight' = batch /\ result' = None /\ worker' = "waiting"
             /\ NoDrop /\ UNCHANGED <<batch, fate>>
    <2>1. TelTypes'
      BY <1>1, <1>2, <1>3, <1>5 DEF TelInv, TelTypes, NoDrop
    <2>2. SpansPlaced'
      BY <1>1, <1>3, <1>5 DEF TelInv, SpansPlaced, Holds
    <2>3. DropsForwarded'
      BY <1>3, <1>5 DEF TelInv, DropsForwarded, NoDrop
    <2>4. Gone' = Gone /\ Waited' = Len(batch)
      BY <1>5, TelemetryAssumptions DEF Gone, Waited
    <2>5. Balanced'
      BY <1>1, <1>3, <1>4, <1>5, <2>4, BalanceTypes DEF TelInv, Balanced, NoDrop
    <2> QED  BY <2>1, <2>2, <2>3, <2>5 DEF TelInv
  <1>6. CASE /\ RecordDropped(Len(batch)) /\ fate' = Settled(batch, "lost")
             /\ worker' = "idle" /\ batch' = <<>> /\ UNCHANGED <<inFlight, result>>
    <2>1. /\ fate' \in [Spans -> {"open", "queued", "batched", "delivered", "lost"}]
          /\ \A i \in DOMAIN batch : fate'[batch[i]] = "lost"
          /\ \A s \in Spans \ ToSet(batch) : fate'[s] = fate[s]
      BY <1>1, <1>6, SettledFates DEF TelInv
    <2>2. DropsForwarded' /\ drops' \in Nat /\ pendingDrops' \in Nat
      BY <1>1, <1>3, <1>6, DropsKeepForwarded
    <2>3. TelTypes'
      BY <1>2, <1>3, <1>6, <2>1, <2>2 DEF TelInv, TelTypes
    <2>4. \A u \in ToSet(batch) : fate[u] = "batched" /\ fate'[u] = "lost" /\ u \in Spans
      BY <1>1, <2>1 DEF ToSet, Holds
    <2>5. Holds(queue, "queued")'
      <3>1. queue \in Seq(Spans) /\ Holds(queue, "queued")
        BY DEF TelInv, TelTypes, SpansPlaced
      <3>2. ToSet(queue) \cap ToSet(batch) = {}
        BY <1>1, <3>1, DifferentFatesApart
      <3>3. \A i \in DOMAIN queue : fate'[queue[i]] = "queued"
        BY <1>1, <1>6, <3>1, <3>2, OthersKeepFates DEF TelInv
      <3> QED  BY <1>3, <3>1, <3>3 DEF Holds
    <2>6. inFlight # None => Holds(inFlight, "batched")'
      <3> SUFFICES ASSUME inFlight # None PROVE Holds(inFlight, "batched")'
        OBVIOUS
      <3>1. /\ inFlight \in Seq(Spans) /\ Holds(inFlight, "batched")
            /\ ToSet(inFlight) \cap ToSet(batch) = {}
        BY <1>1 DEF TelInv, TelTypes, SpansPlaced
      <3>2. \A i \in DOMAIN inFlight : fate'[inFlight[i]] = "batched"
        BY <1>1, <1>6, <3>1, OthersKeepFates DEF TelInv
      <3> QED  BY <1>6, <3>1, <3>2 DEF Holds
    <2>7. ending # None => fate'[ending.span] = "open"
      BY <2>1, <2>4 DEF TelInv, TelTypes, SpansPlaced
    <2>8. SpansPlaced'
      BY <1>3, <1>6, <2>5, <2>6, <2>7 DEF SpansPlaced
    <2>9. Gone' = Gone
      <3>1. \A s \in Spans : s \in Gone' <=> s \in Gone
        BY <2>1, <2>4 DEF Gone
      <3> QED  BY <3>1 DEF Gone
    <2>10. Waited' = 0 /\ pendingDrops' = pendingDrops + Len(batch)
      BY <1>6 DEF Waited, RecordDropped
    <2>11. Balanced'
      <3>1. /\ forwarded' = forwarded /\ raced' = raced
            /\ Cardinality(Gone) + Emitting <= forwarded + pendingDrops + raced + Owed
        BY <1>3, <1>4, BalanceTypes DEF TelInv, Balanced
      <3>2. Cardinality(Gone) + Emitting
              <= forwarded + (pendingDrops + Len(batch)) + raced + 0 + Owed'
        BY <1>1, <1>4, <3>1, BalanceTypes
      <3> QED  BY <1>4, <2>9, <2>10, <3>1, <3>2 DEF TelInv, Balanced
    <2> QED  BY <2>2, <2>3, <2>8, <2>11 DEF TelInv
  <1> QED  BY <1>5, <1>6 DEF Export

\* An export thread ends.  What it delivers is no longer gone, and the worker that
\* still waits for it has nothing to count.
LEMMA ExportEndsKeepsInv ==
  ASSUME TelInv, ExportEnds
  PROVE  TelInv'
  <1>1. /\ inFlight # None /\ inFlight \in Seq(Spans) /\ Holds(inFlight, "batched")
        /\ inFlight' = None
    BY DEF ExportEnds, TelInv, TelTypes, SpansPlaced
  <1>2. PICK ok \in BOOLEAN :
          /\ fate' = Settled(inFlight, IF ok THEN "delivered" ELSE "lost")
          /\ result' = IF worker = "waiting" /\ batch = inFlight THEN ok ELSE result
    BY DEF ExportEnds
  <1> DEFINE how == IF ok THEN "delivered" ELSE "lost"
  <1>3. how \in {"batched", "delivered", "lost"} /\ fate' = Settled(inFlight, how)
    BY <1>2
  <1> HIDE DEF how
  <1>4. UNCHANGED <<queue, pending, ending, worker, batch, shutdown, raced, drops, pendingDrops,
                    reading, forwarded, untold>>
    BY DEF ExportEnds, metricVars
  <1>5. /\ fate' \in [Spans -> {"open", "queued", "batched", "delivered", "lost"}]
        /\ \A i \in DOMAIN inFlight : fate'[inFlight[i]] = how
        /\ \A s \in Spans \ ToSet(inFlight) : fate'[s] = fate[s]
    BY <1>1, <1>3, SettledFates DEF TelInv
  <1>6. \A u \in ToSet(inFlight) : fate[u] = "batched" /\ fate'[u] = how /\ u \in Spans
    BY <1>1, <1>5 DEF ToSet, Holds
  <1>7. TelTypes'
    BY <1>1, <1>4, <1>5 DEF TelInv, TelTypes
  <1>8. Holds(queue, "queued")'
    <2>1. queue \in Seq(Spans) /\ Holds(queue, "queued")
      BY DEF TelInv, TelTypes, SpansPlaced
    <2>2. ToSet(queue) \cap ToSet(inFlight) = {}
      BY <1>1, <2>1, DifferentFatesApart
    <2>3. \A i \in DOMAIN queue : fate'[queue[i]] = "queued"
      BY <1>1, <1>3, <2>1, <2>2, OthersKeepFates DEF TelInv
    <2> QED  BY <1>4, <2>1, <2>3 DEF Holds
  <1>9. worker = "popped" => Holds(batch, "batched")'
    <2> SUFFICES ASSUME worker = "popped" PROVE Holds(batch, "batched")'
      OBVIOUS
    <2>1. /\ batch \in Seq(Spans) /\ Holds(batch, "batched")
          /\ ToSet(batch) \cap ToSet(inFlight) = {}
      BY <1>1 DEF TelInv, TelTypes, SpansPlaced
    <2>2. \A i \in DOMAIN batch : fate'[batch[i]] = "batched"
      BY <1>1, <1>3, <2>1, OthersKeepFates DEF TelInv
    <2> QED  BY <1>4, <2>1, <2>2 DEF Holds
  <1>10. ending # None => fate'[ending.span] = "open"
    BY <1>5, <1>6 DEF TelInv, TelTypes, SpansPlaced
  <1>11. SpansPlaced'
    BY <1>1, <1>4, <1>8, <1>9, <1>10 DEF SpansPlaced
  <1>12. DropsForwarded' /\ Emitting' = Emitting /\ Owed' = Owed
    BY <1>4 DEF TelInv, DropsForwarded, Emitting, Owed
  <1>13. IsFiniteSet(ToSet(inFlight)) /\ Cardinality(ToSet(inFlight)) = Len(inFlight)
    BY <1>1, DistinctSpansCount
  <1>14. ToSet(inFlight) \subseteq Gone
    BY <1>6 DEF Gone
  <1>15. CASE ok
    <2>1. Gone' = Gone \ ToSet(inFlight)
      <3>1. \A s \in Spans : s \in Gone' <=> s \in Gone \ ToSet(inFlight)
        BY <1>5, <1>6, <1>15 DEF Gone, how
      <3> QED  BY <3>1 DEF Gone
    <2>2. IsFiniteSet(Gone') /\ Cardinality(Gone') = Cardinality(Gone) - Len(inFlight)
      BY <1>13, <1>14, <2>1, TakenAway DEF TelInv, Balanced
    <2>3. Len(inFlight) \in Nat /\ Len(batch) \in Nat /\ Waited' \in Nat /\ Waited \in Nat
      <3>1. Len(batch') \in Nat
        BY <1>7 DEF TelTypes
      <3>2. Waited' \in {0, Len(batch')}
        BY DEF Waited
      <3>3. Len(inFlight) \in Nat /\ Len(batch) \in Nat
        BY <1>1 DEF TelInv, TelTypes
      <3> QED  BY <3>1, <3>2, <3>3, BalanceTypes
    <2>4. Waited <= Waited' + Len(inFlight)
      <3>1. CASE worker = "waiting" /\ batch = inFlight
        <4>1. Waited \in {0, Len(batch)}
          BY DEF Waited
        <4> QED  BY <2>3, <3>1, <4>1
      <3>2. CASE ~ (worker = "waiting" /\ batch = inFlight)
        <4>1. result' = result
          BY <1>2, <3>2
        <4>2. Waited' = Waited
          BY <1>4, <4>1 DEF Waited
        <4> QED  BY <2>3, <4>2
      <3> QED  BY <3>1, <3>2
    <2>5. Balanced'
      <3>1. forwarded' = forwarded /\ pendingDrops' = pendingDrops /\ raced' = raced
        BY <1>4
      <3>2. Cardinality(Gone) + Emitting <= forwarded + pendingDrops + raced + Waited + Owed
        BY DEF TelInv, Balanced
      <3>3. Cardinality(Gone') + Emitting
              <= forwarded + pendingDrops + raced + Waited' + Owed
        <4>1. \A g, e, t, w, v, o, n \in Nat :
                g + e <= t + w + o /\ w <= v + n => (g - n) + e <= t + v + o
          OBVIOUS
        <4>2. /\ forwarded + pendingDrops + raced \in Nat /\ Owed \in Nat
              /\ Cardinality(Gone) \in Nat /\ Emitting \in Nat
          BY BalanceTypes
        <4> QED  BY <2>2, <2>3, <2>4, <3>2, <4>1, <4>2
      <3> QED  BY <1>12, <2>2, <3>1, <3>3 DEF Balanced
    <2> QED  BY <1>7, <1>11, <1>12, <2>5 DEF TelInv
  <1>16. CASE ~ ok
    <2>1. Gone' = Gone
      <3>1. \A s \in Spans : s \in Gone' <=> s \in Gone
        BY <1>5, <1>6, <1>16 DEF Gone, how
      <3> QED  BY <3>1 DEF Gone
    <2>2. Waited' = Waited
      BY <1>1, <1>2, <1>4, <1>16, TelemetryAssumptions DEF Waited, TelInv, SpansPlaced
    <2>3. Balanced'
      BY <1>4, <1>12, <2>1, <2>2 DEF TelInv, Balanced
    <2> QED  BY <1>7, <1>11, <1>12, <2>3 DEF TelInv
  <1> QED  BY <1>15, <1>16

\* The worker stops waiting: what is not known to be delivered is a drop.
LEMMA ExportReturnsKeepsInv ==
  ASSUME TelInv, ExportReturns
  PROVE  TelInv'
  <1>1. worker = "waiting" /\ worker' = "idle" /\ batch' = <<>>
    BY DEF ExportReturns
  <1>2. UNCHANGED <<fate, queue, pending, ending, inFlight, shutdown, raced, reading, forwarded, untold>>
    BY DEF ExportReturns, metricVars
  <1>3. RecordDropped(Waited) /\ Waited \in Nat
    <2>1. Waited \in Nat /\ drops \in Nat /\ pendingDrops \in Nat
      BY BalanceTypes DEF TelInv, TelTypes
    <2>2. CASE result = TRUE /\ NoDrop
      BY <2>1, <2>2 DEF Waited, NoDrop, RecordDropped
    <2>3. CASE result # TRUE /\ RecordDropped(Len(batch))
      BY <1>1, <2>1, <2>3 DEF Waited
    <2> QED  BY <2>2, <2>3 DEF ExportReturns
  <1>4. DropsForwarded' /\ drops' \in Nat /\ pendingDrops' \in Nat
    BY <1>2, <1>3, DropsKeepForwarded
  <1>5. TelTypes'
    BY <1>1, <1>2, <1>4 DEF TelInv, TelTypes
  <1>6. SpansPlaced'
    BY <1>1, <1>2 DEF TelInv, SpansPlaced, Holds
  <1>7. Gone' = Gone /\ Emitting' = Emitting /\ Waited' = 0 /\ Owed' = Owed
    BY <1>1, <1>2 DEF Gone, Emitting, Waited, Owed
  <1>8. Balanced'
    BY <1>2, <1>3, <1>7, BalanceTypes DEF TelInv, Balanced, RecordDropped
  <1> QED  BY <1>4, <1>5, <1>6, <1>8 DEF TelInv

\* Closing turns the pending count into drops.
LEMMA ShutdownStepKeepsInv ==
  ASSUME TelInv, ShutdownStep
  PROVE  TelInv'
  <1>1. UNCHANGED <<fate, queue, ending, worker, batch, inFlight, result, raced, reading, forwarded, untold>>
    BY DEF ShutdownStep, metricVars
  <1>2. PICK n \in Nat :
          /\ drops' = drops + n /\ pendingDrops' = pendingDrops + n /\ pending' \in Nat
          /\ shutdown' \in {"begun", "joined", "closed"} /\ Owed <= Owed' + n
    <2>1. pending \in Nat /\ drops \in Nat /\ pendingDrops \in Nat
      BY DEF TelInv, TelTypes
    <2>2. CASE shutdown # "joined"
      <3>1. /\ shutdown \in {"no", "begun"} /\ shutdown' \in {"begun", "joined"}
            /\ pending' = pending /\ (RecordDropped(0) \/ RecordDropped(1))
        BY <2>1, <2>2 DEF ShutdownStep, NoDrop, RecordDropped
      <3>2. PICK n \in {0, 1} : RecordDropped(n)
        BY <3>1
      <3> QED  BY <2>1, <3>1, <3>2 DEF RecordDropped, Owed
    <2>3. CASE shutdown = "joined"
      BY <2>1, <2>3 DEF ShutdownStep, RecordDropped, Owed
    <2> QED  BY <2>2, <2>3
  <1>3. RecordDropped(n)
    BY <1>2 DEF RecordDropped
  <1>4. DropsForwarded' /\ drops' \in Nat /\ pendingDrops' \in Nat
    BY <1>1, <1>3, DropsKeepForwarded
  <1>5. TelTypes'
    BY <1>1, <1>2, <1>4 DEF TelInv, TelTypes
  <1>6. SpansPlaced'
    BY <1>1 DEF TelInv, SpansPlaced, Holds
  <1>7. Gone' = Gone /\ Emitting' = Emitting /\ Waited' = Waited /\ Owed' \in Nat
    BY <1>1, <1>2 DEF Gone, Emitting, Waited, Owed
  <1>8. Balanced'
    BY <1>1, <1>2, <1>7, BalanceTypes DEF TelInv, Balanced
  <1> QED  BY <1>4, <1>5, <1>6, <1>8 DEF TelInv

-----------------------------------------------------------------------------
(* Events and forwarding, which leave the spans alone. *)

\* A step that moves no span, and after which the exporter was or is to be told of as
\* many drops as before, or more.
LEMMA SpansLeftAlone ==
  ASSUME TelInv, UNCHANGED spanVars, DropsForwarded',
         drops' \in Nat, pendingDrops' \in Nat, forwarded' \in Nat, untold' \in Nat,
         reading' # None => reading' \in Nat,
         forwarded + pendingDrops <= forwarded' + pendingDrops'
  PROVE  TelInv'
  <1> USE DEF spanVars
  <1>1. TelTypes'
    BY DEF TelInv, TelTypes
  <1>2. SpansPlaced'
    BY DEF TelInv, SpansPlaced, Holds
  <1>3. Gone' = Gone /\ Emitting' = Emitting /\ Waited' = Waited /\ Owed' = Owed
    BY DEF Gone, Emitting, Waited, Owed
  <1>4. Balanced'
    BY <1>3, BalanceTypes DEF TelInv, Balanced
  <1> QED  BY <1>1, <1>2, <1>4 DEF TelInv

\* An event is refused by its full table, or its export begins.
LEMMA EventsKeepInv ==
  ASSUME TelInv, UNCHANGED <<spanVars, forwarded>>, RefuseRecord \/ StartExport
  PROVE  TelInv'
  <1>1. /\ drops' \in Nat /\ pendingDrops' \in Nat /\ untold' \in Nat /\ forwarded' \in Nat
        /\ reading' # None => reading' \in Nat
        /\ forwarded + pendingDrops <= forwarded' + pendingDrops'
    BY DEF RefuseRecord, StartExport, TelInv, TelTypes
  <1>2. DropsForwarded'
    BY DEF RefuseRecord, StartExport, TelInv, TelTypes, DropsForwarded
  <1> QED  BY <1>1, <1>2, SpansLeftAlone

\* The drops that were read are forwarded or kept, and the event may be one more.
LEMMA ForwardKeepsInv ==
  ASSUME TelInv, Forward
  PROVE  TelInv'
  <1>1. PICK told, raised \in BOOLEAN :
          /\ forwarded' = IF told THEN forwarded + reading ELSE forwarded
          /\ pendingDrops' = (IF told THEN pendingDrops - reading ELSE pendingDrops)
                               + (IF raised THEN 1 ELSE 0)
          /\ drops' = IF raised THEN drops + 1 ELSE drops
    BY DEF Forward
  <1>2. UNCHANGED <<spanVars, untold>> /\ reading' = None
    BY DEF Forward, metricVars
  <1>3. /\ reading \in Nat /\ reading <= pendingDrops /\ drops \in Nat /\ untold \in Nat
        /\ pendingDrops \in Nat /\ forwarded \in Nat /\ forwarded + pendingDrops + untold = drops
    BY DEF Forward, TelInv, TelTypes, DropsForwarded
  <1>4. PICK n \in {0, 1}, m \in {0, reading} :
          /\ forwarded' = forwarded + m /\ pendingDrops' = pendingDrops - m + n
          /\ drops' = drops + n
    <2>1. CASE told /\ raised
      BY <1>1, <1>3, <2>1
    <2>2. CASE told /\ ~ raised
      BY <1>1, <1>3, <2>2
    <2>3. CASE ~ told /\ raised
      BY <1>1, <1>3, <2>3
    <2>4. CASE ~ told /\ ~ raised
      BY <1>1, <1>3, <2>4
    <2> QED  BY <2>1, <2>2, <2>3, <2>4
  <1>5. /\ DropsForwarded' /\ drops' \in Nat /\ pendingDrops' \in Nat /\ forwarded' \in Nat
        /\ untold' \in Nat /\ forwarded + pendingDrops <= forwarded' + pendingDrops'
    BY <1>2, <1>3, <1>4 DEF DropsForwarded
  <1> QED  BY <1>2, <1>5, SpansLeftAlone

\* Another drop is recorded.
LEMMA ExporterFailsKeepsInv ==
  ASSUME TelInv, ExporterFails
  PROVE  TelInv'
  <1>1. RecordDropped(1) /\ UNCHANGED <<spanVars, reading, forwarded, untold>>
    BY DEF ExporterFails
  <1>2. DropsForwarded' /\ drops' \in Nat /\ pendingDrops' \in Nat
    BY <1>1, DropsKeepForwarded
  <1>3. /\ forwarded' \in Nat /\ untold' \in Nat /\ (reading' # None => reading' \in Nat)
        /\ forwarded + pendingDrops <= forwarded' + pendingDrops'
    BY <1>1 DEF RecordDropped, TelInv, TelTypes
  <1> QED  BY <1>1, <1>2, <1>3, SpansLeftAlone

\* LossesCounted for every queue and batch size, limit of tools and spans: what the
\* exporter was told and is still to be told is the local drop counter, but for the
\* records that full tables refused; and at the end of the pipeline it covers, with the
\* spans that raced with its closing, every span that was not delivered.
THEOREM LossesAreCounted == TelSpec => []LossesCounted
  <1>1. TelInv /\ [TelNext]_telVars => TelInv'
    <2> SUFFICES ASSUME TelInv, [TelNext]_telVars PROVE TelInv'
      OBVIOUS
    <2>1. CASE \E s \in Spans : EndSpan(s)
      BY <2>1, EndSpanKeepsInv
    <2>2. CASE AddPending \/ Emit \/ PopBatch
      BY <2>2, AddPendingKeepsInv, EmitKeepsInv, PopBatchKeepsInv
    <2>3. CASE Export \/ ExportEnds \/ ExportReturns \/ ShutdownStep
      BY <2>3, ExportKeepsInv, ExportEndsKeepsInv, ExportReturnsKeepsInv, ShutdownStepKeepsInv
    <2>4. CASE EmitLog \/ \E t \in Tools : CallStarts(t) \/ CallEnds(t) \/ Record(t)
      <3>1. UNCHANGED <<spanVars, forwarded>> /\ (RefuseRecord \/ StartExport)
        BY <2>4 DEF EmitLog, CallStarts, CallEnds, Record
      <3> QED  BY <3>1, EventsKeepInv
    <2>5. CASE Forward \/ ExporterFails
      BY <2>5, ForwardKeepsInv, ExporterFailsKeepsInv
    <2>6. CASE UNCHANGED telVars
      <3>1. /\ UNCHANGED <<spanVars, drops, pendingDrops, reading, forwarded, untold>>
        BY <2>6 DEF telVars, metricVars
      <3> QED  BY <3>1, SpansLeftAlone DEF TelInv, TelTypes, DropsForwarded
    <2> QED  BY <2>1, <2>2, <2>3, <2>4, <2>5, <2>6 DEF TelNext
  <1>2. TelInv => LossesCounted
    <2> SUFFICES ASSUME TelInv PROVE LossesCounted
      OBVIOUS
    <2>1. forwarded + pendingDrops + untold = drops
      BY DEF TelInv, DropsForwarded
    <2>2. shutdown = "closed" /\ worker = "ended" /\ ending = None =>
            Emitting = 0 /\ Waited = 0 /\ Owed = 0
      BY DEF Emitting, Waited, Owed
    <2>3. shutdown = "closed" /\ worker = "ended" /\ ending = None =>
            Cardinality(Gone) <= forwarded + pendingDrops + raced
      BY <2>2, BalanceTypes DEF TelInv, Balanced
    <2> QED  BY <2>1, <2>3 DEF LossesCounted, Gone
  <1> QED  BY <1>1, <1>2, InitTelInv, PTL DEF TelSpec
=============================================================================
