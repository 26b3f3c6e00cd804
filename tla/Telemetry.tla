------------------------------ MODULE Telemetry ------------------------------
(***************************************************************************)
(* observability.py, adapters/opentelemetry.py and                          *)
(* adapters/opentelemetry_sdk.py: local metrics behind a lock, the drop     *)
(* counter and its forwarding, and the bounded span pipeline.  The event    *)
(* loop records metrics and ends spans; the SDK's worker thread takes       *)
(* batches and hands each to an export thread of its own, waiting for it at *)
(* most the export timeout; another thread shuts the provider down.         *)
(*                                                                          *)
(* The SDK's BatchSpanProcessor is external: a deque with maxlen = Capacity *)
(* (a full one loses its oldest span), one export at a time, all of the     *)
(* deque exported at shutdown.  Metric names, labels and rendering are left *)
(* out: a series is its tool, and one table of series stands for those of   *)
(* record_call, record_retry and record_limit, which share nothing.         *)
(***************************************************************************)
EXTENDS Naturals, Sequences, FiniteSets, SequencesExt, PythonNone

CONSTANTS
  Spans,        \* sampled spans
  Tools,        \* tools calls are made of
  Capacity,     \* span_queue_size
  BatchSize,    \* span_batch_size
  MaxTools,     \* _MAX_TOOLS: the tools tracked, and the series of a table
  MaxEvents     \* bound: calls started, events recorded and faults of the exporter's spans

\* The limits the SDK runtime accepts: a batch is never larger than the queue.
OpenTelemetrySDKLimits == Capacity \in Nat \ {0} /\ BatchSize \in 1..Capacity

ASSUME TelemetryAssumptions ==
  /\ OpenTelemetrySDKLimits
  /\ MaxTools \in Nat /\ MaxEvents \in Nat /\ None \notin BOOLEAN

VARIABLES
  fate,         \* open, queued, batched, delivered or lost: what became of each span
  queue,        \* the SDK's deque, oldest first
  pending,      \* _PendingSpans._count
  accepting,    \* _accepting
  ending,       \* the span the loop is ending, or None
  worker,       \* idle, popped, waiting or ended
  batch,        \* the spans the worker holds
  inFlight,     \* _in_flight: the batch of the export thread, or None
  result,       \* result[0] of the batch the worker waits for: None until completed
  shutdown,     \* no, begun, joined or closed
  drops,        \* _dropped_events
  pendingDrops, \* _pending_drops
  reading,      \* the count _export has read and not yet taken off, or None
  forwarded,    \* what the exporter's counter was given
  gauge,        \* _tool_in_flight of the tools that are tracked
  series,       \* _requests, _retries, _limits: the series of a table
  calls,        \* calls in flight of each tool
  made,         \* events so far
  raced,        \* history: spans added to pending after it was cleared
  untold        \* history: drops no one will tell the exporter of

spanVars == <<fate, queue, pending, accepting, ending, worker, batch, inFlight, result,
              shutdown, raced>>
metricVars == <<gauge, series, calls, made, untold>>
telVars == <<spanVars, drops, pendingDrops, reading, forwarded, metricVars>>

TelInit ==
  /\ fate = [s \in Spans |-> "open"]
  /\ queue = <<>> /\ pending = 0 /\ accepting = TRUE /\ ending = None
  /\ worker = "idle" /\ batch = <<>> /\ inFlight = None /\ result = None
  /\ shutdown = "no" /\ raced = 0
  /\ drops = 0 /\ pendingDrops = 0 /\ reading = None /\ forwarded = 0
  /\ gauge = <<>> /\ series = {} /\ calls = [t \in Tools |-> 0] /\ made = 0 /\ untold = 0

\* record_dropped: the local counter, and what the exporter is still to be told.
RecordDropped(n) == /\ drops' = drops + n
                    /\ pendingDrops' = pendingDrops + n

NoDrop == UNCHANGED <<drops, pendingDrops>>

-----------------------------------------------------------------------------
(* Spans end on the event loop. *)

LoopIdle == ending = None /\ reading = None

\* on_end: the processor still accepts.
EndSpan(s) ==
  /\ LoopIdle /\ fate[s] = "open"
  /\ ending' = [span |-> s, step |-> IF accepting THEN "add" ELSE "emit"]
  /\ IF accepting THEN NoDrop ELSE RecordDropped(1)
  /\ UNCHANGED <<fate, queue, pending, accepting, worker, batch, inFlight, result, shutdown,
                 raced, reading, forwarded, metricVars>>

\* _PendingSpans.add.
AddPending ==
  /\ ending # None /\ ending.step = "add"
  /\ ending' = [ending EXCEPT !.step = "emit"]
  /\ IF pending >= Capacity
       THEN RecordDropped(1) /\ UNCHANGED <<pending, raced>>
       ELSE /\ pending' = pending + 1 /\ NoDrop
            /\ raced' = IF shutdown = "closed" THEN raced + 1 ELSE raced
  /\ UNCHANGED <<fate, queue, accepting, worker, batch, inFlight, result, shutdown,
                 reading, forwarded, metricVars>>

\* The SDK takes the span whether or not it was counted, unless it is shut down.
Emit ==
  /\ ending # None /\ ending.step = "emit"
  /\ LET s == ending.span IN
       IF shutdown # "no"
       THEN fate' = [fate EXCEPT ![s] = "lost"] /\ UNCHANGED queue
       ELSE IF Len(queue) = Capacity
       THEN /\ queue' = Append(Tail(queue), s)
            /\ fate' = [fate EXCEPT ![s] = "queued", ![Head(queue)] = "lost"]
       ELSE /\ queue' = Append(queue, s)
            /\ fate' = [fate EXCEPT ![s] = "queued"]
  /\ ending' = None
  /\ UNCHANGED <<pending, accepting, worker, batch, inFlight, result, shutdown, raced,
                 drops, pendingDrops, reading, forwarded, metricVars>>

-----------------------------------------------------------------------------
(* The worker and the export threads. *)

Settled(spans, how) == [s \in Spans |-> IF s \in ToSet(spans) THEN how ELSE fate[s]]

\* The worker takes a batch.  A worker that has been told to stop takes what is left
\* and ends.
PopBatch ==
  /\ worker = "idle"
  /\ \/ /\ queue # <<>>
        /\ LET n == IF Len(queue) < BatchSize THEN Len(queue) ELSE BatchSize IN
             /\ batch' = SubSeq(queue, 1, n)
             /\ queue' = SubSeq(queue, n + 1, Len(queue))
             /\ fate' = Settled(SubSeq(queue, 1, n), "batched")
        /\ worker' = "popped"
     \/ /\ queue = <<>> /\ shutdown # "no"
        /\ worker' = "ended"
        /\ UNCHANGED <<queue, batch, fate>>
  /\ UNCHANGED <<pending, accepting, ending, inFlight, result, shutdown, raced,
                 drops, pendingDrops, reading, forwarded, metricVars>>

\* _ResilientSpanExporter.export up to the wait: the batch is lost when another
\* export is still in flight or its thread cannot be started.
Export ==
  /\ worker = "popped"
  /\ pending' = IF Len(batch) > pending THEN 0 ELSE pending - Len(batch)
  /\ \/ /\ inFlight = None
        /\ inFlight' = batch /\ result' = None /\ worker' = "waiting"
        /\ NoDrop /\ UNCHANGED <<batch, fate>>
     \/ /\ RecordDropped(Len(batch))
        /\ fate' = Settled(batch, "lost")
        /\ worker' = "idle" /\ batch' = <<>>
        /\ UNCHANGED <<inFlight, result>>
  /\ UNCHANGED <<queue, accepting, ending, shutdown, raced, reading, forwarded, metricVars>>

\* _export: the inner exporter returns or raises in its thread.
ExportEnds ==
  /\ inFlight # None
  /\ \E ok \in BOOLEAN :
       /\ fate' = Settled(inFlight, IF ok THEN "delivered" ELSE "lost")
       /\ result' = IF worker = "waiting" /\ batch = inFlight THEN ok ELSE result
  /\ inFlight' = None
  /\ UNCHANGED <<queue, pending, accepting, ending, worker, batch, shutdown, raced,
                 drops, pendingDrops, reading, forwarded, metricVars>>

\* Mutant of ExportReturns: a batch that times out is left to its thread.
ExportReturnsQuietly ==
  /\ worker = "waiting"
  /\ worker' = "idle" /\ batch' = <<>> /\ result' = None
  /\ IF result = FALSE THEN RecordDropped(Len(batch)) ELSE NoDrop
  /\ UNCHANGED <<fate, queue, pending, accepting, ending, inFlight, shutdown, raced,
                 reading, forwarded, metricVars>>

\* export after the wait: completed, or the timeout, whose batch is counted as
\* dropped although its thread may still deliver it.
ExportReturns ==
  /\ worker = "waiting"
  /\ worker' = "idle" /\ batch' = <<>> /\ result' = None
  /\ \/ result = TRUE /\ NoDrop
     \/ result # TRUE /\ RecordDropped(Len(batch))
  /\ UNCHANGED <<fate, queue, pending, accepting, ending, inFlight, shutdown, raced,
                 reading, forwarded, metricVars>>

\* Shutdown of the provider, in a thread of its own: the processor stops accepting
\* and the SDK is told; it waits for the worker, at most for a while, and shuts the
\* exporter down, which may raise; then what is still pending counts as dropped.
ShutdownStep ==
  /\ \/ /\ shutdown = "no" /\ shutdown' = "begun" /\ accepting' = FALSE
        /\ NoDrop /\ UNCHANGED pending
     \/ /\ shutdown = "begun" /\ shutdown' = "joined"
        /\ \E raised \in BOOLEAN : IF raised THEN RecordDropped(1) ELSE NoDrop
        /\ UNCHANGED <<pending, accepting>>
     \/ /\ shutdown = "joined" /\ shutdown' = "closed"
        /\ RecordDropped(pending) /\ pending' = 0
        /\ UNCHANGED accepting
  /\ UNCHANGED <<fate, queue, ending, worker, batch, inFlight, result, raced,
                 reading, forwarded, metricVars>>

-----------------------------------------------------------------------------
(* Metrics on the event loop, and the forwarding of the drop counter. *)

Tracked == DOMAIN gauge

\* A record its full table refuses: the local counter alone knows of it.
RefuseRecord ==
  /\ drops' = drops + 1 /\ untold' = untold + 1
  /\ UNCHANGED <<pendingDrops, reading>>

\* _export: the drops the exporter is still to be told are read under the lock.
StartExport ==
  /\ reading' = pendingDrops
  /\ UNCHANGED <<drops, pendingDrops, untold>>

\* change_in_flight(+1) and (-1) around a call: a tool beyond the limit of tools is
\* not tracked, not even when its call ends.
CallStarts(t) ==
  /\ LoopIdle /\ made < MaxEvents
  /\ made' = made + 1 /\ calls' = [calls EXCEPT ![t] = @ + 1]
  /\ IF t \in Tracked THEN gauge' = [gauge EXCEPT ![t] = @ + 1] /\ StartExport
     ELSE IF Cardinality(Tracked) >= MaxTools THEN UNCHANGED gauge /\ RefuseRecord
     ELSE gauge' = [u \in Tracked \cup {t} |-> IF u = t THEN 1 ELSE gauge[u]] /\ StartExport
  /\ UNCHANGED <<spanVars, forwarded, series>>

CallEnds(t) ==
  /\ LoopIdle /\ calls[t] > 0
  /\ calls' = [calls EXCEPT ![t] = @ - 1]
  /\ IF t \in Tracked THEN gauge' = [gauge EXCEPT ![t] = @ - 1] /\ StartExport
                      ELSE UNCHANGED gauge /\ RefuseRecord
  /\ UNCHANGED <<spanVars, forwarded, series, made>>

\* record_call, record_retry or record_limit.
Record(t) ==
  /\ LoopIdle /\ made < MaxEvents
  /\ made' = made + 1
  /\ IF t \notin series /\ Cardinality(series) >= MaxTools
       THEN RefuseRecord /\ UNCHANGED series
       ELSE series' = series \cup {t} /\ StartExport
  /\ UNCHANGED <<spanVars, forwarded, gauge, calls>>

\* emit_log changes nothing of its own.
EmitLog ==
  /\ LoopIdle /\ made < MaxEvents
  /\ made' = made + 1 /\ StartExport
  /\ UNCHANGED <<spanVars, forwarded, gauge, series, calls>>

\* The rest of _export, outside the lock: what was read is forwarded and taken off
\* again, unless there is nothing or the exporter raises; then the event itself is
\* exported, and is one more drop if the exporter raises.
Forward ==
  /\ reading # None
  /\ \E told, raised \in BOOLEAN :
       /\ reading = 0 => ~ told
       /\ forwarded' = IF told THEN forwarded + reading ELSE forwarded
       /\ pendingDrops' = (IF told THEN pendingDrops - reading ELSE pendingDrops)
                            + (IF raised THEN 1 ELSE 0)
       /\ drops' = IF raised THEN drops + 1 ELSE drops
  /\ reading' = None
  /\ UNCHANGED <<spanVars, metricVars>>

\* What else records a drop: a span the exporter cannot start, activate or end, and a
\* flush that fails or times out while the loop waits or in a thread of its own.
ExporterFails ==
  /\ made < MaxEvents
  /\ made' = made + 1 /\ RecordDropped(1)
  /\ UNCHANGED <<spanVars, reading, forwarded, gauge, series, calls, untold>>

TelNext ==
  \/ \E s \in Spans : EndSpan(s)
  \/ AddPending \/ Emit \/ PopBatch \/ Export \/ ExportEnds \/ ExportReturns \/ ShutdownStep
  \/ \E t \in Tools : CallStarts(t) \/ CallEnds(t) \/ Record(t)
  \/ EmitLog \/ Forward \/ ExporterFails

TelSpec == TelInit /\ [][TelNext]_telVars

-----------------------------------------------------------------------------
(* Properties. *)

\* What the exporter's own drop counter was given and is still to be given makes up the
\* local counter, but for the records a full table refused (untold), whatever threads
\* record drops while the loop forwards them; and once the pipeline is closed and nothing
\* moves any more, what the exporter was or is to be given covers every span that was not
\* delivered, but for a span that passed the accepting check before the shutdown and was
\* added after the pending count was cleared (raced).  It may count too much: a batch that
\* timed out can still be delivered.
LossesCounted ==
  /\ forwarded + pendingDrops + untold = drops
  /\ shutdown = "closed" /\ worker = "ended" /\ inFlight = None /\ ending = None =>
       Cardinality({s \in Spans : fate[s] \notin {"open", "delivered"}})
         <= forwarded + pendingDrops + raced
=============================================================================
