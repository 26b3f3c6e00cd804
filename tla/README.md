# TLA+ models of tesserix-mcp-runtime

The runtime hosts the tools of a product behind the Model Context Protocol. An
HTTP transport accepts requests, an identity provider turns them into verified
contexts, `Application` runs each call through limits, policy and the product's
handler, and a lifecycle controller starts, drains and stops all of it. It is
one asyncio process: everything interesting happens between two `await`s. Around
it, three packages decide what may be served at all: the publisher puts a server
into the Registry and waits for its activation, the manifest package decides
which servers a Gateway routes to, and the testkit collects the evidence a
promotion needs.

The modules here describe the parts that keep state across a suspension point,
a process or a network boundary. An action is the code a task runs between two
suspension points. Data is abstracted to what the properties distinguish;
control is kept: every early return, error path and `finally`, in the order of
the code.

## Inventory

Paths are relative to `src/tesserix_mcp_runtime/` unless a package is named.

| Component | State it keeps | Operations | What is hard | Module |
|---|---|---|---|---|
| Execution controller (`execution.py`) | global, tool and tenant counters; the detached set | `admit`, `release`, `execute`, `_stop`, `retry` | deadline, caller cancellation, task cancellation, grace timer and the end of the work race; handlers may suppress cancellation | `Execution`, `Bulkhead` |
| Call pipeline (`application.py`: `invoke`, `_invoke`, `_InvocationLifecycle`) | the tracked caller tasks | `begin`, `finish`, `drain`, `stop` | a drain begins as calls register; the drain deadline cancels callers that are already being cancelled | `Execution`, `Application` |
| Lifecycle (`lifecycle.py`, `application.py`: `run`, `drain`, `stop`) | state, started components, transition lock | `start`, `drain`, `stop`, `run` | hooks that raise or hang; a deadline that cuts a loop short; several owners | `Lifecycle` |
| Transport (`adapters/streamable_http.py`) | session records and reservations, the token map, buffered responses, detached tasks | `__call__`, `admit_session`, `complete_session`, `abort_session`, `_call_tool`, `_cancel_protocol_request_id`, `flush`, `start`, `drain`, `stop` | capacity is reserved before the session exists; expiry meets use; the SDK has a registry of its own; stream time, disconnect and response race; stop clears tables under running requests | `HttpSessions`, `HttpTransport` |
| Tool policy (`policy.py`) | approval store and audit sink (both external) | `authorize` | calls interleave between fetch and consume; store or sink fails after the other has committed | `ToolPolicy` |
| Outbound HTTP client and egress policy (`adapters/outbound_http.py`, `egress.py`) | bounded table of circuits, audit failures, closed flag | `request`, `connect_tcp`, `_admit_circuit`, `_record_circuit_*`, `_follow_redirects`, `aclose` | late answers, half-open probe, cancelled requests, full table, secrets across redirects, names that resolve anew at each hop | `OutboundCircuit`, `OutboundClient` |
| Gateway identity (`adapters/gateway_identity.py`) | key cache, retry window, lock | `create`, `_key`, `_stale_key`, `fetch` | the time read before the fetch is used after it; misses queue for the lock | `JwksCache` |
| Registry discovery (`registry_discovery.py`, `adapters/registry_*.py`) | two bounded caches of leases | `resolve`, `get_*`, `put_*`, `search`, `fetch` | one cache for all identities; refs change between search and fetch; stale artifacts when the Registry is unavailable | `RegistryResolver`, `RegistryProjection` |
| Observability (`observability.py`, `adapters/opentelemetry*.py`) | span queue, pending count, batch in flight, drop counters, known tools | `on_end`, `export`, `shutdown`, `record_call`, `change_in_flight`, `record_dropped` | three threads; a queue at its limit; exports that outlive their timeout; losses must be counted | `Telemetry` |
| Tool catalog, schemas, migration (`tool.py`, `schema_compatibility.py`, `migration.py`) | the catalog | `ToolCatalog`, `classify_schema_change`, `compare_migration_surfaces` | bounds, unions, definitions: is "non-breaking" true? | `SchemaMigration` |
| Publisher (`packages/tesserix-mcp-publisher`) | one workflow and its commands; the status followed | `execute`, `ActivationWaiter.wait` | a stage fails after earlier ones committed; runs race for a ref; statuses arrive out of order | `Publication`, `Activation` |
| Gateway reconciliation (`packages/tesserix-mcp-manifest`) | snapshots and their pages | `evaluate_gateway_eligibility`, `assemble_gateway_reconciliation_pages` | pages of two generations; quotas that shrink | `GatewayAdmission` |
| Evaluation (`packages/tesserix-mcp-testkit`: `evaluation.py`) | results, report, signature | `run`, `sign`, `verify`, `assess` | attempts that fail and then pass; evidence altered or bound to something else | `EvaluationEvidence` |
| Reliability (`reliability.py` of the testkit, `benchmarks/measure_reliability.py`) | concurrent calls, the target's counters | the seven scenarios, the assessment | a target that answers well and misbehaves | `Reliability` |
| Manifest compiler and linter, contracts, redaction, health, conformance, authoring and ADK adapters, testkit security and journey, integration journey, scripts | none of their own | pure functions, thin adapters, drivers | – | not modelled |

How the parts interact: the transport admits a request to a session, registers
its cancellation token, and awaits `Application.invoke` in a task that it may
cancel. `invoke` reads the lifecycle state, registers the task with the tracker
and calls `ExecutionController.execute`, which runs `_invoke` in a second task.
`_invoke` takes the lease, asks the policy, and runs the handler, which may use
the outbound client. The tracker is a lifecycle component, so drain waits for
the calls, and its deadline cancels them. Spans end on the event loop and leave
through the SDK's worker thread. Published servers reach callers through the
Registry and the Gateway, whose decisions rest on documents the packages make
and check. PROJECT.json lists the hazards of this design with their lines.

## The modules

**Execution** (with **Bulkhead**, its abstract specification). A call has a
caller task (`caller`: idle, waiting in `asyncio.wait`, `yield` and `grace` in
`_stop`, `closing` in the `finally`, returned) and a work task (`work`: created,
authorize, handler, backoff, done). `leased`, `active`, `byTool`, `byTenant`
are the bulkhead; `token`, `linked`, `expired` are the signals a call can see;
`cancelling` holds the CancelledErrors on their way to a work task. Deadlines
and grace periods are events. Handlers and authorizers are product code: they
return, raise, raise transient errors, hang, and may suppress a CancelledError.
A caller is resumed only after its work's first step, because the loop runs
tasks in the order they were scheduled. Bulkhead says what the counters are
for: a set of holders that never exceeds any of the four limits.

**Application** composes Execution with the tracker and with `drain` and `stop`
as `Application.run` performs them. `toCancel` holds the CancelledErrors for
caller tasks; whoever cancels (transport, drain deadline, stop) adds to it, and
the caller meets the error at its next step. Hooks of other components are one
step here; Lifecycle is where hooks fail.

**Lifecycle** has components `1..N`, the transition lock, an owner that executes
`run` and others that call `drain` and `stop` directly. A hook returns, raises or
hangs until it is cancelled; it is assumed not to suppress that cancellation
(the one hook known to wait on others, the tracker, is in Application). `up` and
`drained` are history variables.

**ToolPolicy** follows one `authorize` per call. The fingerprint of an action
stands for all the fields it binds. The store's consume is atomic and its answer
may be lost; the sink may refuse any event.

**HttpSessions** is the session table. The bodies of `_session_lock` have no `await`
and are atomic; removing swept sessions from the SDK is a step per session and may
fail. The SDK is external: it creates a session at some moment while an initialization
runs. **HttpTransport** composes it with the request around it
(`_ProtocolASGIApp.__call__`): authentication, admission, the SDK task and its stream
time, the tool call with its token in `_active_protocol_requests`, cancel
notifications, disconnects, the buffered response and its flush, and `start`, `drain`
and `stop` of the transport. An SDK task ends with a complete response, without one,
or by raising; a detached one goes on after its request has ended. Either start of a
response, the SDK's or the 504, may fail to be sent. `SdkMayFail` says whether
terminating a session of the SDK may raise. `Stateless` is the configuration's flag: a
stateless transport, the only mode the documents approve for production
(`docs/streamable-http.md:104`), rejects session headers, admits every request and
keys every call by its id alone; the stateful mode is the one with a session table to
get wrong. Three variables are history: `entitled`, the requests their own side has
given up; `crossed`, the calls another caller has named by their key; `leaked`, the
requests that ended on a path that keeps their lease.

**OutboundCircuit** is the table of circuits; it abstracts `opened_at` to closed,
open or recovered. **OutboundClient** composes it with `request`: the checks before
admission, the resolution and connection of each hop under the egress policy, the
hops of `_follow_redirects` (destination, peer address, whether sensitive headers
are still sent), the audit event of every end, and `aclose`. The circuit is that
of the request's own URL, whichever hop decides its end. An audit sink is
configured; it may fail.

**JwksCache** models `create` around the key lookup. It keeps a clock, because its
properties compare ages; what signature, claims and headers of one token say is
a choice. Cancelling a request releases the lock.

**Telemetry** has the event loop, which records metrics, ends spans and forwards
drops, the SDK's worker, which pops batches, and the export thread, which the worker
waits for with a timeout. `fate` says what became of a span; the SDK's deque and
worker are external and modelled from how the adapter uses them. A drop is recorded
in both counters (`record_dropped`) or, when a full table refuses a record, in the
local one alone (`RefuseRecord`); `_export` reads the pending drops under the lock,
forwards them outside it, and may raise in either of its two calls. `ExporterFails`
is every other caller of `record_dropped`, on whichever thread it runs. `untold` and
`raced` are history. A metric is its tool; one table of series stands for the three
of `record_call`, `record_retry` and `record_limit`, which share nothing, and the
check of an unchanged capacity is left out, as the application passes constants.

**RegistryResolver** follows `resolve` over the HTTP adapter and the in-memory cache:
search, selection of the first eligible stub, fetch, verification, projection. A stub
and an artifact are the version they name (the digest covers kind, name, tag and spec,
so a version determines them); an artifact has what it claims and what its content is.
Cached data carry, as history, the identity the Registry gave them to and when. A
listing is a set of stubs; their order in the Registry's answer is that of `Ranking`,
the same for every search. The Registry and the network are external: an answer is
read at one moment and arrives later, within the transport's timeout. Cache adapters
may not answer, and may alter content. **RegistryProjection** is what the policy lets
through, as a conjunction of the checks of `_project` and `_resolve_tool`; the reason
of a rejection is left out, a fingerprint is the schema it is taken of, and
`classify_schema_change` is the relation `Breaking`.

**Publication** has publisher runs that race for one ref. Each run is at one of its
commands (validate, apply, pull, verify, and the official registry's); a command is
launched, succeeds, fails, is killed at its timeout or is cancelled, and an apply that
was sent reaches the Registry or not whatever became of its sender. A local error
(`LocalFault`: a private document, its directory, a child killed by a signal) may end
a run at any stage. `report` is what the CLI prints. **Activation** is
`ActivationWaiter.wait` over a log of statuses: replicas answer with any entry,
controllers append entries, a redeployment starts a generation. `DerivedPhase` is the
function from conditions to phase. **GatewayAdmission** evaluates candidates into
snapshots, cuts them into pages and assembles what a Gateway read; a page may come
from any snapshot. **EvaluationEvidence** runs a bundle's cases, signs the report and
assesses it; an observation is the set of its flaws, `truth` is history, and evidence
may be altered between the steps; the policy is the default one, which the code
replaces by the bundle's when it has one. **Reliability** submits plans against
targets and judges by the counters the code judges by. A target without a defect is
the documented one, which serves stale keys before it fails closed; `denies_stale` is
the benchmark's own, which refuses every identity call; the others are what a target
under qualification may do wrong, to all calls or to some of them. **SchemaMigration**
registers surfaces and compares them with the code's recursive comparison; `Accepts`,
what a schema means, is the reference. A string is its length, a number is an integer
on a grid fine enough for the bounds, and a boolean a value that `==` takes for a
number. `const` and `enum` are two keywords: registration looks at `enum` only, and
the comparison at `const` where there is one.

The `*Proofs` modules hold the proofs, `MC*` modules the constants for TLC.
`MCRuntime`, `MCGuards` and `MCRelease` put several components into one run; those of
a behaviour share no state with the rest: `subject` names the one a behaviour follows,
the others rest in their first state. `SchemaMigration` is recursive, so no theorem
may reach it.

## What is checked

| Run | Shows |
|---|---|
| `runtime` | *calls*: the counters equal the leases, a lease is held exactly while work runs, the counters implement Bulkhead (running work, detached and orphaned work included, is within every limit); `_detached` holds only live work whose caller gave up, and with no task cancellation every answered call has joined or detached its work; no retry starts after cancellation or answer; every caller is answered although handlers never end. *drain*: drain returns only when all accepted calls are answered, and none registers afterwards; shutdown ends. *hooks*: what is up is a prefix of the components and nothing once stopped; exit code 0 means stopped, and drained when `run` is alone; `run` returns although every hook hangs |
| `transport` | sessions and reservations within capacity, and exact on every path but the two that keep a lease; a sweep never removes a session in use; the token map holds live calls only and the newest call of a key; a call on a session is cancelled only by its own side, one without a session also by who names its id; a committed response is the only one, and a second one begins only after a 504 that could not be sent; every request ends |
| `guards` | *keys*: the retry interval is kept, a withdrawn key is accepted for at most the stale window plus one fetch timeout. *policy*: a one-time approval allows one call; allowed calls are exactly those audited as allowed; what runs is the approved action, and an approval is never spent on a call that is then denied. *outbound*: an open circuit has its failures and a probe flag its probe; destinations do not affect each other, also while the circuits of two are in the table; every hop is authorized and connected to a permitted address, and sensitive headers never leave, or return after leaving, their destination; every end is audited once or counted as lost. *telemetry*: every drop is forwarded, pending, or the refusal of a full table, whatever threads do while drops are forwarded; every lost span is among those the exporter is told of, but for one race that the property names |
| `registry` | a resolution rests on a search and an artifact given to the same identity; the artifact is exactly the selected one; leases are kept; the agent sees reviewed tools only |
| `release` | *publication*: reports of success are true of the Registry; between the receipt and the verification a run reports the outcome as unknown, local errors included; without a local error invalid inputs mean that nothing was written and a verified publish is reported or was cancelled; a dry run writes nothing. *activation*: verdicts rest on the published artifact and one generation, in order, and the wait ends. *admission*: a Gateway runs one whole snapshot; quotas take no route away and let nobody wait behind a newer server. *evaluation*: an approved promotion was earned on every attempt and reviewed by others than its author. *reliability*: approved evidence is true of the run, also for targets that fail some calls only; a sound target is approved unless the plan is too short for the fault to show, and refused in the identity outage the documents describe. *migration*: a review that is ready breaks no caller |

Every property has a mutant in PROJECT.json: an operator that changes one
definition the way a plausible bug would, under which TLC finds the property
violated.

### Where the code and its documents disagree

Seven runs check a statement of the documentation and find a counterexample.

* `application_orphan`: ADR 0006 says a deadline return cannot orphan handler
  tasks. A call that is being stopped because its caller cancelled waits for the
  grace period in `_stop`; the drain deadline's second cancellation interrupts
  that wait before the work is put into `_detached`, and the handler runs on
  uncounted. Its lease is kept, so the limits still hold.
* `registry_outage`: ADR 0018 says an exact fetch that times out uses a stale
  artifact when the offline policy permits it. `resolve` falls back for
  `RegistryUnavailableError` only, which the adapter raises for a status; a
  transport that times out or cannot connect raises `OutboundHTTPError`, and the
  resolution fails.
* `stale_window`: the guide to gateway identity says a withdrawn key remains usable
  for at most the stale window and an expired stale cache fails closed. `_key` reads
  the time before it fetches and decides by it after the fetch has failed, so a key
  is used up to the fetch timeout later. `guards` checks the bound the code keeps
  (`WithdrawnKeyExpires`).
* `publication_io`: the publication guide says of exit code 2 that no write occurred,
  ADR 0019 that success is never rewritten as failure. A local error that is no
  `PublicationError` (`OSError` around the private document of the apply or of the
  official publish, `ValueError` for a child killed by a signal) leaves `execute`,
  and the CLI reports an invalid manifest, exit code 2, after the ref was created.
* `evaluation_report`: ADR 0026 says a runner timeout records an incomplete case
  and reports remain verifiable. A quarantined case that times out is recorded as
  incomplete, and verification accepts only quarantined for it: the runner's own
  report is refused.
* `reliability_identity`: the reliability guide says that in an identity outage stale
  verified keys succeed before new identity fails closed. Such a target has two
  outcomes, and the runner raises unless the affected calls have one; the benchmark
  passes because its target denies the calls it counts as stale successes.
* `schema_union`: ADR 0007 and the authoring guide say a non-breaking input accepts
  every value accepted before. When a schema has `anyOf`, only the variants are
  compared; an `enum` beside it may narrow the schema unnoticed. `release` checks
  the same claim for all schemas without such a constraint.

Disagreements that have no run of their own, but are part of a property's wording
or hypotheses:

* *Cancellation without a session.* `docs/runtime-safety.md:166` says `cancelled`
  means that the originating caller cancelled, and ADR 0008 that a notification is
  matched by session and id. In the stateless mode, and for protocol versions without
  sessions, the key is the id alone (`streamable_http.py:1502`, `:1716`): a call is
  cancelled by whoever reuses its id. `CancelledByOwnCaller` allows this for those
  calls only.
* *The bounded 504.* `docs/streamable-http.md:134` promises one 504. If sending it
  fails after its start, `committed` is not set and a 500 is started
  (`streamable_http.py:1081-1090`). `AnsweredOnce` allows this case only.
* *Kept leases.* A request whose SDK task ends without a complete response counts its
  lease as completed although `complete_session` raised before it gave anything back
  (`streamable_http.py:1069`, `:761`, `:1455`); one whose sweep of expired sessions
  fails never reaches the `try`. A reservation kept in this way is lost until the
  process ends. `SessionsAccounted` has these two exceptions (`StrandedAsKnown`).
* *Local errors after a verified publish*: `ReportIsTrue` excludes them by name.
* *Drops that are not forwarded.* The records that a full table refuses are counted in
  `_dropped_events` but not in `_pending_drops` (`observability.py:365`, `:385`,
  `:399`, `:428`, `:432`, `:437`, `:442`), so the exporter never hears of them
  (`untold` in `LossesCounted`).
* *`const` beside `enum`.* The comparison reads `const` and ignores an `enum` beside
  it, and registration does not check the type of a `const`; Python's `==` also takes
  `true` for 1. A candidate that accepts nothing can so be non-breaking against
  ADR 0007's claim. `ReadyIsCompatible` leaves such schemas out (`PlainValues`);
  without that conjunct TLC finds the counterexample.
* *Unaffected calls.* ADR 0027 says they must continue in every case. The code asks
  for one (`reliability.py:1003`), and for one refusal during a drain (`:1043`);
  `VerdictIsEarned` claims no more, and its runs have two of each, one of which a
  target may fail.

More behaviours appear in the models and are part of the properties' wording:
an aborted initialization gives its reservation back and leaves the SDK's session,
which ADR 0008 counts against `max_sessions`; a probe whose task is
cancelled leaves its flag set (`CircuitIsSound`); a late failure clears the flag of
a probe in flight; a span that ends while the pipeline is shut down can be lost
uncounted (`raced` in Telemetry); the timeout of a wait may carry a status of
another generation; an approval that expires between its check and the answer of
consume is still used; and `stop` without `drain` leaves the state at ready, and calls
accepted, until the last hook.

### Bounds

* `runtime`, *calls*: three calls (two reads of two tenants, one write), two of which
  take part: the reads, or the calls of one tenant; two attempts. Calls meet only in
  the bulkhead, so of the two at most one is late or has its task cancelled, once, and
  both are cancelled by their callers only where they share the tool. Pairs are enough
  for each binary race, and the proofs cover any number of calls and limits. *drain*:
  two calls of one tenant; the transport cancels one, up to the point where drain, its
  deadline and stop have cancelled it too; the first meets only the cancellations of
  shutdown and does not retry. No fairness is assumed of the signals this excludes,
  so the liveness results are those of the behaviours without them. *hooks*: four
  components, three owners, two operations each: enough for a deadline in the middle
  of each loop and a queue at the lock.
* `transport`: stateful, capacity one, two requests in progress at a time, and five
  scenarios of two or three requests: an id reused on one session; a call and its
  cancel notification; that id used by another caller without a session; two callers
  without a session who use one id; a session deleted while another initialization
  waits for its place. Each race is between two requests; the others make the state
  they meet in. The theorems are for either mode; the calls without a session behave
  as all calls of a stateless transport do, which has no table.
* `guards`: *keys*: clock to 4 with a stale window of 2 and a timeout of 1, so that a
  key can be withdrawn and grow older than any allowed age. *policy*: any three of
  ten calls: two may compete for one approval beside a third. *outbound*: threshold
  two; two table entries, so that two circuits coexist and a third destination finds
  the table full; three requests to one destination, two to another, one to a third,
  which comes with at most two of the first; a fourth is forbidden and only redirected
  to. Two redirects (away and back), two addresses per name out of a public, a private,
  a permitted and an embedding one; only the request with sensitive headers is
  redirected or meets other addresses. At most one request is rejected and two are
  cancelled. Requests without sensitive headers to the same destination are
  interchangeable, which the run uses as a symmetry. *telemetry*: three spans, a queue
  of two, batches of one, so that the queue overflows while a batch is out; up to two
  other events (`MaxEvents`: calls of two tools with one name permitted, log records,
  faults of the exporter), one of them when the last span ends.
* `registry`: two refs, one with two versions, two identities, caches of one entry,
  one change at the Registry; leases of 1, an offline window of 2 and a clock to
  3, so that every lease can run out and be overrun. The two requests of one
  identity come in turn, the other identity's at any time.
* `release`: *publication*: two runs with one content, one with another, one dry run,
  which like one of the others goes on to the official registry. *activation*: four
  statuses of two generations, so that each can be observed late, and five sets of
  conditions. *admission*: three servers of two tenants, two snapshots, limits at and
  below the demand, pages of one route, two pages per attempt. *evaluation*: bundles
  of one and two cases, one with a quarantine, up to two attempts, four kinds of
  observation, three reviews. *reliability*: the plans of `MCPlans`, valid and invalid
  ones, against a target with one of thirteen defects or none; two late and two
  unaffected calls, so that a target can fail one of them; one stale call and a
  circuit that opens at the second, so that plans of one and of two calls are on both
  sides. *migration*: a universe of more than a hundred surfaces, every pair of which
  is compared, with values on both sides of each bound and of each type, `const` and
  `enum` included.
* The runs that find a counterexample are the smallest that have it: one lookup and
  one key (`stale_window`), two defects (`reliability_identity`), and otherwise the
  bounds of the run they belong to or smaller ones.

Runs switch deadlock checking off where the instance's requests are finite and
the system simply ends.

### Fairness

`runtime` has one weak fairness condition, over the steps of its subject that the loop
and its timers guarantee. *calls*: a created task takes its first step, a caller that
can run is resumed, and the grace timer ends (`Progress`). *drain*: the same, the steps
of the shutdown, and the drain deadline (`AppProgress`). Nothing is assumed of
authorizers and handlers, nor that deadlines of calls pass. *hooks*: the deadlines of
`run`'s own drain and stop pass and a free lock is taken (`LifeProgress`); no hook is
assumed to end. `transport` assumes that a request that can run is resumed, that the
stream time passes, and that the server takes what is sent to it or refuses it; neither
the SDK task nor the tool is assumed to end. `release` assumes that the deadline of the
wait passes, that a fetch is given up at it, and that the waiter polls and wakes; not
that the Registry answers. It assumes nothing for its other subjects, of which only
safety is checked. asyncio's loop, its timers and `Clock.sleep` justify these.

## What is proved

Eight modules hold proofs that TLAPS checks for every value of the constants; a
theorem carries the name of the property it states in PROJECT.json. All are of
the form `Spec => []Inv` or, for an action property, `Spec => [][A]_vars`. Each
rests on an inductive invariant, the conjunction of the named parts below, which
TLC checked on the instances of the runs first.

| Module | Theorems (property) | Inductive invariant |
|---|---|---|
| `ExecutionProofs` | `TypeCorrect`; `CountersAreExact` (CountersExact); `LeasesFollowWork` (LeaseFollowsWork); `ConcurrencyIsBounded`; `ImplementsBulkhead` (BulkheadRefined); `DetachedIsExact` (DetachedExact); `RetriesStop` (NoRetryAfterCancel); for Application `DrainJoinsAllCalls` (DrainJoinsCalls) and `ShutdownKeepsAccounts` | `IInv`: TaskTypes, WorkNeedsCaller, Accounting; with it `Followed` and `DrainInv` |
| `LifecycleProofs` | `StopsInReverseOrder` (StopsInReverse); `ExitsAreClean` (CleanExit) | `LifeInv`: LifeTypes, LoopInv, OwnerInv, AloneInv, ExitInv |
| `GuardsProofs` | ToolPolicy: `ApprovalsUsedOnce` (OneUsePerApproval), `AllowedAreAudited` (AllowedIsAudited), `ApprovalsBindActions` (ApprovalBindsAction); JwksCache: `WithdrawnKeysExpire` (WithdrawnKeyExpires), `RetryIntervalIsKept` (RetryIntervalKept); OutboundClient: `CircuitSound` (CircuitIsSound), `HopsSafe` (HopsAreSafe), `EveryEndAudited` (AuditedOnce), `DestinationsAreIsolated` (DestinationsIsolated) | `PolicyInv`: PolicyTypes, AllowedIsAudited, ClaimsChecked, SpendersAnswered; `JwksInv`: JwksTypes, PublishedNow, EntryDated, OneFetch, WindowOpen; `ClientInv`: CircuitInv, HopInv, AuditInv |
| `HttpTransportProofs` | `SessionTableExact` (SessionsAccounted); `SessionsInUseStay` (InUseNotPruned); `TokenMapExact` (TokensExact); `CancellationsAreOwn` (CancelledByOwnCaller); `ResponsesOnce` (AnsweredOnce) | `TransportInv`: PlaceInv, SessionInv, CountInv, PrunedUnused, TokenInv, InsideOwns |
| `RegistryProofs` | `ResolutionsAreIsolated` (IdentitiesIsolated); `ResolutionsAreExact` (ArtifactIsExact); `LeasesAreKept` (LeasesKept); `SurfacesAreReviewed` (SurfaceIsReviewed) | `ResolverInv`: RegistryInv, CachesLeased, RequestsInv |
| `TelemetryProofs` | `LossesAreCounted` (LossesCounted) | `TelInv`: TelTypes, SpansPlaced, DropsForwarded, Balanced |
| `GatewayProofs` | `GatewayRunsWholeSnapshots` (AppliedIsWhole); `AdmissionsAreFair` (AdmissionIsFair) | `GateInv` |
| `ReleaseProofs` | `ReportsAreTrue` (ReportIsTrue); `VerdictsAreCurrent` (VerdictIsCurrent); `GenerationsGoForward` (OneGenerationForward); `PromotionsAreEarned` (PromotionIsEarned); `VerdictsAreEarned` (VerdictIsEarned) | `PubInv`, `ActInv`, `EvalInv`; `RelInv`: RelTypes, CallsPlaced, SequelOver, one part per scenario, VerdictKept |

The assumptions are those named in the modules that declare the constants: types,
positive limits, and that `None` is none of the values it is told apart from. TLC
evaluates them in every run. No set of calls, requests, sessions or spans is
assumed to be finite: what is counted is finite because it grows one element at a
time. The servers a Gateway evaluation sorts are finitely many.

How the arguments go, and why the properties are not inductive alone:

* **Execution.** The counters stay exact only if `release` is called by a call that
  holds a lease (so the lease must follow the work), limits hold for running work
  only through the counters, and work in progress must belong to a call that was
  started, or `Execute` would restart it. Every step is first put in one of three
  classes (`StepCases`): it admits one call, releases one call, or leaves the set
  of leases and the running work alone. The accounting is proved once per class;
  `AddToPart` and `RemoveFromPart` give the cardinalities. The refinement uses the
  same classes: an admission is `Acquire`, a release is `Free`, everything else
  stutters. `Followed` ties a caller to the work it leaves behind. `AppStepCases`
  shows that a step of the application is, for Execution, one of its steps or a
  stutter, which carries its invariants through drain and stop; `DrainInv` says
  which calls a drain still waits for.
* **Lifecycle.** A stop that a deadline cut short begins again at the last
  component, so during a stop what is up is only known to end at the component
  whose hook runs. `AloneInv` relates the progress of `run` to what was drained
  while no other owner has asked for anything.
* **ToolPolicy.** A call that was answered yes is the call that consumed the
  approval (`SpendersAnswered`): lost answers and competing calls cannot make two.
  `ClaimsChecked` carries what `fetch` found out across the awaits.
* **HttpTransport.** `PlaceInv` ties what a request has to where it is;
  `SessionInv` follows a session from the request that makes it, so what is listed,
  leased or about to be pruned is registered, and a reserved one is none of these;
  `CountInv` counts reservations and uses, also through a stop that clears the
  tables under running requests. `TokenInv` says whose token is at a key.
  Requests that keep their lease after their end are counted among its holders, and
  `StrandedAsKnown` says which they are. `InsideOwns` is what `CancellationsAreOwn`
  needs: a request inside on a session has the owner of the session's maker, so the
  call that an end or a notification finds at its key is its own side's. It has no
  hypothesis on the mode: a call without a session, in the stateless mode or by its
  protocol version, is found by whoever names its id, which the property allows for
  those calls only. `ResponsesOnce` follows from `Replies`: a committed response leaves
  no way to start another, and an uncommitted start is a 504 that could not be sent.
* **JwksCache.** The entry is dated from before its fetch, so each of its keys was
  published at that date or later, and one request at a time fetches, no longer
  than the timeout: both are needed for the bound on the age of a withdrawn key.
* **OutboundClient.** Late answers are the hard case: one that arrives after its
  table entry was dropped must not leave a flag behind. Hops and audit events are
  independent of the table.
* **RegistryResolver.** Everything on its way or cached is dated and addressed: the
  stubs of a listing were visible when the request was sent or later, so a search
  lease ends at most `Timeout + SearchTtl` after its refs were last visible, and a
  picked stub is younger than that when its fetch is sent; an artifact's lease
  runs from when it was served. `OthersAreEntries`, `TouchedIsEntries` and
  `PutIsEntries` show that the cache operations only move or drop entries,
  `FirstIsOne` that a first eligible stub exists for any ranking. Exactness and the
  reviewed surface follow from `Verified` and `Accepted` alone, at whatever step
  the resolution is made.
* **Release.** `StageKnows` and `AnswersTrue` say what a publisher run knows while it
  waits and that an answer still holds when it is used, because the Registry never
  takes back a content. `DeedsBacked` says what a run must have done for each report,
  and which reports a local error (`localFault`) can still bring. A waiter's status is
  of the generation it pinned. Every result of an evaluation says what was observed,
  and what is signed may be altered in its verdict only, so a report that agrees with
  its signature and with itself has the verdict of the observations.
* **GatewayAdmission.** Every page carries the digest of a snapshot that was made.
  The admission loop is a recursive function over the waiting servers, oldest
  first. `InOrder` is shown to list a finite set once and in its order; then the
  loop is followed turn by turn: what is kept stays, counts stay within the limits
  or as they were, and a server passed over met a full quota, which stays full.
  The induction is over the set of turns a fact holds after (`UpTo`): a set of
  numbers that misses one misses a least one.
* **Telemetry.** `DropsForwarded` holds because the drops that are being forwarded are
  never more than the pending ones, which only `_export` lowers. Of lost spans
  LossesCounted speaks at the end of the pipeline only. `Balanced` holds at every
  moment: each span the SDK took and did not deliver is paid for by a drop forwarded
  or to be forwarded, by the pending count, or by the batch the worker waits for,
  whose loss it is still to count. `SpansPlaced` says that no span is in two places,
  so what a batch is counted for is what leaves with it.
* **Reliability.** The assessment sees a summary, so one part of `RelInv` per scenario
  relates the target's counters to the calls answered so far: which call added what,
  and what a target without the defect can never have counted. `CallsPlaced` and
  `SequelOver` say which calls are still out when the follow-up steps run. When the
  verdict is drawn all are answered, and the counters have only the values a sound
  target, or the named defect, gives them (`EvidenceIsTrue`). A defect of some calls
  only makes outcomes that differ: then there is no verdict, as the runner raises, or
  a refusal.

Proof attempts also corrected the models. `VerdictIsEarned` was false for plans of
too few calls, which the validators admit: an identity outage is served from stale
keys for its first five calls (`StaleCalls`), and an outage of DNS or of the API
opens the circuit at the third (`CircuitCall`), so shorter plans reject a sound
target for what had no time to happen (`TooFewCalls`). An outage of DNS is answered
with a timeout, not as unavailable. A session's lease can outlive its request without
a complete response or after a failed sweep (`StrandedAsKnown`), and a response can
start after an unsent 504: the exact forms of `SessionsAccounted` and `AnsweredOnce`
name these paths. `DerivedPhase` had CASE arms that overlap, where TLA+ promises no
order; it is an IF chain, as in the code.

Only model-checked:

* all liveness (`RunReturns`, `ShutdownEnds`, `CallerAnswered`, `RequestsEnd`,
  `WaitEnds`), which needs fairness and `ENABLED`, out of the prover's reach;
* `ReadyIsCompatible`: what the recursive comparison of schemas computes needs
  induction over data, and no theorem may reach a module with `RECURSIVE`.

## What is not modelled

* Validation of JSON, headers and identifiers, and the fields of documents: pure;
  where a check can end an operation it is an outcome of the action, and a digest
  is the value it is taken of.
* Jitter and the length of delays; the content of spans and log records, percentiles
  and resource figures.
* Cancelling `start` from outside; hooks that suppress cancellation.
* List cursors of the transport; Uvicorn's own connections.
* How schemas are generated from Python types; patterns and formats of strings.
* The manifest compiler, linter and validation: pure functions whose content is
  the wording of each rule. The security, journey and correlation checks of the
  testkit: predicates over finished documents. The integration journey, the other
  benchmarks, scripts and deployment files: sequential drivers of the parts above.
  Health, conformance, authoring and the ADK and in-process adapters: thin layers
  that keep nothing between calls.

## Plan

Every safety property of the runs is proved but `ReadyIsCompatible`. What is left
are models: resolutions that overlap within one identity; the policy of a bundle
in EvaluationEvidence; `Breaking` of RegistryProjection as the comparison of
SchemaMigration. A comparison by level of nesting instead of by `RECURSIVE` could
be proved about, but evaluates the deeper levels again for every pair, and
`release` would no longer finish.
