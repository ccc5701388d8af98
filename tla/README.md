# Verification of the New Relic Lambda extension

TLA+ models of the extension in `src/src`, the TLC configurations that check them on
small instances, and TLAPS proofs of the properties that matter most. Line numbers are
those of the sources; `PROJECT.json` maps every definition to the lines it stands for.

## The system

The extension is one process next to a Lambda function. It runs on a *current_thread*
tokio runtime: tasks interleave, but only where one of them awaits, so the code between
two awaits is one atomic step. It talks to Lambda (`/next`, the Telemetry API), to the
function's agent (a named pipe) and to New Relic (HTTP). Lambda freezes the sandbox when
every extension has asked for the next event, and thaws it with the next INVOKE; timers
and sockets do not run while it is frozen.

| Component | State it keeps | Operations |
|---|---|---|
| Serverless event loop (`event_loop.rs` 884-1245) | deferred task handles, cleanup counter | INVOKE, SHUTDOWN, 403 exit |
| Request processing (`event_loop.rs` 1874-2104) | one task per invocation | take payloads and report, wait for runtimeDone, join sends and flushes |
| Request registry (`request/mod.rs`) | `REQUEST_DATA` (buffer, report, notify, send handles, age), active request, orphans, prefired runtimeDone | create, route a payload, clean up stale entries |
| Agent batch (`agent/batch.rs`) | `AGENT_BATCH_BUFFER` | add, send those with reports, send everything at SHUTDOWN, clean up old entries |
| Telemetry listener (`telemetry/listener.rs`) | telemetry's current request id | platform.start, runtimeDone, report, logs |
| Pipe collector (`agent/ipc.rs`) | a channel of 100 payloads | read the pipe |
| Log pipeline (`logs/processor.rs`) | pre-invoke, pending (trace id), batch and failed buffers, trace map, auto-flush handle | process, stamp, flush, retry |
| APM loop (`event_loop.rs` 187-883, 1284-1560, 2274-2704) | failed payload buffer | INVOKE, SHUTDOWN, pending and failed payloads |
| APM session (`apm/app.rs`, `connection.rs`, `collector.rs`) | run id, endpoint, shared connection state | preconnect, connect, send, reconnect |
| Retry buffers (`apm/telemetry_buffer.rs`, `metric_api_buffer.rs`) | bounded lists of failed items | buffer, retry |
| Error synthesis (`error_synthesis.rs`, `platform/processor.rs` 256-500) | marks of errors sent since the last INVOKE, errors that failed | report once per failure, retry once |
| Managed-instance loop (`event_loop_lmi.rs`) | heartbeat task | heartbeat, final drain |
| HTTP client (`newrelic/client.rs`, `tls_fallback.rs`) | which TLS root store is active | send with retries |
| Start-up, registration, configuration, credentials, version | configuration | once per sandbox |

Interaction. The event loop creates a request's entry in the registry and spawns its
processing task; the pipe collector files payloads under the active request; the listener
attaches reports, in any order with the payloads; whoever sees both halves puts them in
the batch; a batch send posts a *copy* of the entries that have a report and removes them
afterwards by request id. Deferred tasks (`pipeline_flush`), a periodic cleanup and
detached sends share all of this with the loop, and SHUTDOWN or a 403 may come at any time
the loop is asking for the next event.

What is hard: a copy taken before an await and used after it; halves of a pair that come
in every order, on either side of the next INVOKE; tasks nobody awaits when the sandbox
freezes or ends; ages counted by a counter that other events move; a send reported Ok
though nothing was delivered; waits bounded by a deadline that may already have passed.
`PROJECT.json` lists each of these hazards at its line with the properties that cover it.

What makes each component correct:

* **delivery** - a payload or report leaves the buffers only for an answer; pairs meet;
  every send is awaited by somebody; SHUTDOWN settles what it holds and ends;
* **registry** - the active request always has an entry; an entry is removed only with
  nothing left to send;
* **end-of-invocation wait** - a runtimeDone is never missed, whatever it races with;
* **log pipeline** - a log line is sent, kept for a retry or counted as dropped; none is
  stranded waiting for a trace id that came;
* **APM delivery** - a payload taken for a send is sent or kept for a retry; the buffer it
  waits in stays within reach;
* **APM session** - a send never sees its session replaced under it, no user of the session's
  lock is held up for ever, and a session is given up only when the collector has ended it;
* **retry buffers** - an item is in one buffer or one retry, whatever they interleave;
* **managed instances** - a payload leaves its buffer though no INVOKE ever comes, the two
  flushes that may run at once take none twice, and SHUTDOWN outlives neither;
* **error synthesis** - one report per id and kind of error: not kept back for one that never
  arrives, not sent again;
* **HTTP client** - chunks cover the batch, attempts are bounded, a log is given up only when
  refused or out of retries, and a TLS hello that is swallowed costs a sender one attempt.

## Modules

| Module | What it is |
|---|---|
| `PayloadCustody` | abstract specification: what the extension promises about payloads |
| `ServerlessDelivery` | the serverless mode: event loop, processing tasks, registry, batch, listener's report arm, immediate sends, cleanup, SHUTDOWN, 403 |
| `MCServerlessDelivery` | its instances for TLC |
| `ServerlessDelivery_proofs` | theorems about it |
| `LogPipeline` | the log processor as the loop, the listener and its own tasks drive it: INIT logs, the hold for a trace.id, the batch, auto-flush, retry tasks, the grace after runtimeDone, the flushes of an invocation's end, of SHUTDOWN and of the 403 exit |
| `MCLogPipeline` | its instances for TLC |
| `LogPipeline_proofs` | theorems about it |
| `Subsequences` | the part of a sequence that meets a condition (retain, filter, partition) and the sum of its weights, as recursive functions |
| `Subsequences_proofs` | what they compute, and induction over sets and functions |
| `ApmSession` | APM mode's session with the collector: handshake, run id, shared session, reconnect flag and fatal latch |
| `ApmRetry` | the retry buffers of telemetry and of platform metrics, on top of it |
| `ApmDelivery` | APM mode: event loop, the tasks of an INVOKE, the retry of failed payloads, the listener's start and report arms, SHUTDOWN, 403; composes the two |
| `MCApmDelivery` | its instances for TLC |
| `ApmRetry_proofs` | what the operations of `ApmSession` and `ApmRetry` preserve |
| `ApmDelivery_proofs` | theorems about it |
| `LmiDelivery`, `MCLmiDelivery` | managed instances: heartbeat, reconnects, the retry of failed payloads, the listener's start and report arms, the router by embedded request id, SHUTDOWN; on top of `ApmSession` and `ApmRetry`, like `ApmDelivery` |
| `LmiDelivery_proofs` | theorems about it |
| `ErrorSynthesis` | synthesized errors: who notices a failure, the marks of those sent, the retry of those that failed |
| `InvocationEnd`, `MCInvocationEnd` | the end of an invocation in both modes: runtimeDone and the Notify, deadlines, the waits for sends and the handshake; composes `ErrorSynthesis`, whose errors runtimeDone, SHUTDOWN and INVOKE drive |
| `InvocationEnd_proofs` | theorems about it and `ErrorSynthesis` |
| `ChunkedSend`, `MCChunkedSend` | one batch on its way: cut into chunks, posted with retries and a time budget, halved after a 413, kept for a later INVOKE; the TLS latch |
| `ChunkedSend_proofs` | theorems about it |

### ServerlessDelivery

One action per stretch of code between two awaits, for every task:

* *event loop*: `Invoke`, `CapReached`, `ThresholdSendDone`, `ProcessingDone`; `Shutdown`,
  `ShutdownSweep`, `ShutdownCollect`, `ShutdownSend`, `ShutdownDone`; `Emergency`,
  `EmergencySend`, `LastSendDone`, `EmergencyDone`; `ShutdownTimeOut`. The variable `loop`
  is the await the loop is at.
* *processing task of a request* (`task[r]`): `ProcessStart`, `ProcessJoin`, `ProcessDone`.
* *pipe collector*: `route_payload_to_active_request`; *listener*: `PlatformReport`.
* *batch sends*: `StartQueuedSend` takes the snapshot, `FinishQueuedSend` clears by request
  id; a post in flight is a record of who sends it and what it carries.
* *immediate sends* (`synchronous_flush`): `FinishImmediateSend`; `handle[p]` says who holds
  the JoinHandle.
* *cleanup*: `CleanerStart` ... `CleanerDone`, one action per await of the two functions.

A payload is in one place at a time: `where[p]` (orphan, a request's buffer, the batch, a
send, the cleanup, the shutdown collection, gone) and `filed[p]`, the request it is kept
under, stand for the keyed maps of the code. `acked`, `dropped`, `reportSettled` and `due` are
history variables: what the client answered Ok for, what was given up after a failed last
attempt, the same of reports, and what an orderly SHUTDOWN found.

Data left out: payload and report contents, sizes, ARNs, timestamps. A chunk of the
shutdown send is any subset, since the split is by size; an entry is "five minutes old"
whenever the cleanup says so. The client's retries are inside one outcome: Ok (2xx, but
4xx and exhausted 5xx too) or failed (network).

The sweep of SHUTDOWN lists the handles of immediate sends once, and a 403 has none.
`NoAbandonedSend` is therefore about the sends there are when the sweep begins (`due`), and before
that about all: an entry or a task is accepted as the holder only as long as the sweep may still
come (`SweepAhead`), the sweep only while it waits, and the cleanup at any time. A send spawned
later, or in flight at a 403, is awaited by nobody (statement 10).

Environment assumptions, each from the code or from Lambda's interface: a request id is
invoked once and reported at most once; a report comes only after the loop is through with
its invocation (`event_loop.rs` 1955-1967 says so; a deferred task may still be running,
which the model allows); a spawned processing task is polled before the next `/next`
answer; at most one cleanup task runs at a time (ten invocations separate two).

`PayloadCustody` knows only what is held, detached, settled and due, and whether the extension is
open, closing or closed. Its refinement mapping is at the end of `ServerlessDelivery`:
held are the payloads filed and not gone, detached those the cleanup has taken out of their
buffer, settled those answered for or given up after a last attempt. SHUTDOWN may end with a
payload detached: nobody awaits the cleanup (below).

### LogPipeline

Again one action per stretch of code between two awaits.

* *telemetry*: `process_record`, `DiscardRecord` and `add_log_to_batch` file a record,
  `PlatformStart` moves the stream to the next request; `on_trace_id_extracted` releases what
  a request's trace.id holds back.
* *tasks of the processor*: `AutoFlushChunk`, `RetryChunk`, `FlushAutoDone`, `FlushChunk`;
  a chunk is any subset of what a task has left, and each of its logs fares by itself, which
  stands for the halving after a 413.
* *end of an invocation* (`task[r]`): `DeadlinePassed`, `RuntimeDoneNoGrace`,
  `RuntimeDoneGrace`, `GraceOver`, `ProcessDone`.
* *event loop*: `Invoke`; `Stop`, `Settling`, `ShutdownFlush`, `LastSendChunk`,
  `ShutdownPass`, `ShutdownDone`; `EmergencyFlush`, `EmergencyDone`; `ShutdownTimeOut`.

A log is held in one of `preInvoke` (`pre_invoke_buffer`), `held` (`pending_logs`, with
`holdOrder`), `batch` (`log_batch`), a task's share (`auto`, `retries`, `flush`), `failed`
(`failed_logs_buffer`) and `lastSend`. `handle` and `retrySlot` are `pending_flush_handles` and
`invocation_retry_handle`, both of which forget a task that still runs; `permit`, `waiters`
and `woken` are the tokio `Notify` `drain_notify`, a stored permit included. `origin`,
`stamp` and `trace` say which request wrote a log and what it was stamped with; `sent`,
`givenUp` and `due` are history variables.

An auto-flush task notifies before it returns, while its handle still counts as
unfinished: its own notification never fires as long as its handle is the one in the slot. A
retry that fails puts the whole chunk back, what was sent of it included; this is modelled,
and nothing is asserted about duplicates.

Left out: deduplication (logs are distinct), the waits inside INVOKE (they delay the rest of
it), the sizes of chunks, `process_pre_invoke_logs_lmi`. `is_auto_flushing` is set and cleared
inside one step, so no step ever sees it set, and `request_id_buffer` is never filled, since
an INVOKE sets ARN and request id together. The loop that waits for auto-flush handles is
never cut off by its cap of ten rounds in these instances.

### ApmSession, ApmRetry, ApmDelivery

One state machine in three layers: `ApmSession` and `ApmRetry` declare variables and actions
on them, and `ApmDelivery` conjoins those actions with its own.

* *session*: `Connect`, `ConnectFails`, `signal_handshake_fatal` end a handshake (all of
  `ApmApp::new`, its three attempts in one), `Install` writes the new session, `CollectorRestart` is
  the collector's. There is one background handshake at a time (start-up's or an INVOKE's:
  `reconnect_in_flight`) and SHUTDOWN's own. `Answers(run)` is what a send may meet: a run id the
  collector no longer knows gets 401/409 or 410, never an Ok.
* *retry buffers*: `Telemetry` and `Metric` end a first send, `SpawnTelemetryRetry` and
  `SpawnMetricRetry` take a buffer, `TelemetryRetry` and `MetricRetry` answer the next item of
  a retry in progress; the re-buffering without a limit is as in the code.
* *event loop*: `Invoke` (takes the reconnect flag), `InvokeReconnect` (invalidates the session,
  spawns the retries and the handshake), `InvokeCreate` (takes the failed payloads, makes the
  entry), `InvokeProcess`, `Joined`, `HandshakeWaited`; `Shutdown` ... `LastReportPosted`; `FatalNext`,
  `EmergencyPending`, `EmergencyDone`; `ShutdownTimeOut`.
* *tasks of an INVOKE*: `pend[n]` is `process_pending_agent_payloads` (`PendStart`, `PendSent`,
  `PendPosted`), `req[r]` is `process_apm_request` (`ReqStart`, `LateSent`, `ReqBody`, `ReqPosted`,
  `ReqDone`).
* *payload sends*: `StartSend`, `FinishSend`, for whichever task holds the payload.
* *pipe and listener*: `route_payload_to_active_request`, `PlatformStart`, `PlatformReport`,
  `PlatformReportPosted`.

The session is behind a tokio `RwLock`, which is fair: `Guards` says who holds its read
side (a send does until it is answered), `WriterWaits` who waits for the write side; a new reader
needs `MayRead`, a writer `~Guards`. The lock's queue is otherwise not modelled: two waiting
writers are served in either order.

`REQUEST_DATA` holds one entry per request, but a request may get two of them one after the
other: from platform.start and from INVOKE, which inserts a new one over it. A *slot* names
the entry, and `under[p]` the slot whose `agent_buffer` holds a payload, so a payload can be in
a buffer only a task still knows, or nobody.

A payload is held by one task at a time (`holder[p]`); once sent it is an item of `ApmRetry`.
`delivered`, `dropped` and `lost` are history variables: answered 2xx; evicted, refused or out of
retries; thrown away unsent.

Simplifications: a payload is one telemetry type (the code sends up to nine, one after
another or at once, under the same guard and into the same buffer); a spawned retry takes its buffer when it
is spawned, not at its first poll; items are not dropped for their age of an hour; the periodic cleanup is
left out because `GLOBAL_INVOCATION_COUNTER` does not count in this mode, so it finds no
old entry; logs are `LogPipeline`'s.

### LmiDelivery

Built like `ApmDelivery`, from the same two lower layers, for `event_loop_lmi.rs`. Several
requests run at once, and `flush_lmi_telemetry` may run twice at once: `flush[Heartbeat]` and
`flush[Drain]` are records of the await it is at, of the entries it still has to visit and of
the failed payloads it retries.

* *a flush*: `FlushStart`, `PendSent`, `PendPosted` go through the entries
  (`process_pending_agent_payloads` with an empty request id, `Visit`); `Invalidate` drops a dead
  session, `Check` spawns a handshake and takes the failed payloads, `RetryNext`, `RetryOver`
  retry them, `RetryLive`, `TelemetryDone`, `FlushOver` retry telemetry and metrics.
* *heartbeat and loop*: `Tick`, `HeartbeatStops`; `Shutdown` (the 403 exit is the same),
  `Joined`.
* *listener and pipe*: `route_payload_by_embedded_request_id`, `PlatformStart`; `PlatformReport`,
  `ReportPosted`, `ReportDrained`, `ReportDone` for the report's handler, which drains its
  request's buffer under the read guard it already has.
* *sends*: `StartSend`, `FinishSend`, for whichever task holds the payload.

An entry is made at platform.start or by a payload, whichever comes first, and again after it
was removed: `under[p]` names the entry by request and number. `during[p]` remembers which
flushes were at work when a payload was filed, since `Cleanup` removes an entry with what was
filed in it after the buffer was taken; `OnlyLateFilesLost` says that nothing else is lost.

Left out: the log flushes (`LogPipeline`), version tags, the age limit of 24 hours,
`LMI_SHUTDOWN_TIMEOUT_MS`, and the error event of SHUTDOWN, for which nothing on managed
instances sets the context it needs.

### ErrorSynthesis, InvocationEnd

`ErrorSynthesis` declares the variables of `error_synthesis.rs` and its actions; `InvocationEnd`
conjoins those with the telemetry records and loop events that cause them, and adds the waits.
The records are `runtimeDone`, those of a start (`initRuntimeDone`, `initReport`) or a restore
(`restoreRuntimeDone`, `restoreReport`), and the reason of SHUTDOWN: `Detections`. `at[d]` is how far the
report of one is: its task spawned, its post under way, skipped, sent, failed, retried, dropped.

`id[d]` is what it is reported under, and with the class the key of `SENT_ERRORS`. `request_ids` gives it
as the code does (`platform/processor.rs` 320-353): what the record brings, its requestId or else its
instanceId; else the request of the listener's `context`, which an INVOKE sets when it makes its
entry; else `init-` and the time in seconds, any of `ClockIds`. The records of one failed start have
therefore one id if they bring it, and otherwise any: that of the current request, or two of the clock.
`SkippedOnlyIfSent` and `NoSecondSend` are about errors of one id and kind (`SameError`), which is
what the marks can tell apart. So a start that failed is reported twice when its records get two ids
(statement 11), and one that gets the id of the current request counts as that request's: the
later of the two is kept back. The start's records are handled before or with the first invocation,
which is a bound of the model (`issued <= 1`).

`entry[r]` is the number of the Notify in the request's entry of `REQUEST_DATA`, `permits` the
Notifys with a stored permit, `held[r]` the one a task waits for: an entry may be replaced while a
task waits for the Notify of the old one. Time is what is left: `remaining[r]` of the
deadline, `wait[r]` of the task's wait, `patience` of the loop's; `Tick` takes one from each.
`bounded_wait_budget_ms` and `runtime_done_wait` are the code's arithmetic over them.

* *listener*: `PlatformStart`, `PlatformRuntimeDone` (`Signal`), `PlatformStartFailed`.
* *event loop*: `Invoke`, `create_request_processing_state`, `Joined`, `After`, `HandshakeOver`,
  `CleanupStale`; `Shutdown`, `ShutdownDrained`, `ShutdownErrorOver`.
* *tasks*: `EntryVisited` (a task of an INVOKE removes the entry of another request),
  `WaitBegins`, `WaitEnds`, `FlushBegins`, `SendsJoined`.

A *scene* is a configuration (mode, `pipeline_flush`) with the inputs to try in it; behaviours
begin in any of them. `torn` names the requests that lost an entry while they may have needed it
(a replacement by INVOKE, a cleanup), which `NoLostWakeup` leaves out: the code does lose the
wake-up then (below).

### ChunkedSend

A batch is cut (`Cut`, `LastCut`: the same loop five times in the code), its chunks are posted
one after the other (`SendChunk`, `NextChunk`), each post with retries (`Attempt`: one answer, and
what the client and then `try_send_chunk_recursive` make of it), a part that gets 413 in two halves.
`work` is the stack of that recursion, `returned` the logs it hands back. What a caller keeps of a
chunk is `Kept`; `start_invocation_retry` takes it again, filtered by its retry count, the
logs of low priority after the others (`Filter`, of `Subsequences`). `USE_CLASSICAL_TLS` is read by each attempt, and set by a
connection that fails or times out; another sender may set it too (`FlippedElsewhere`). `OneHang` is
about the sender modelled: several under way at once may each lose an attempt before one sets the latch.
`failed_logs_buffer` is one queue here, where the code has one per log type (`LogPipeline` has both);
no property of this module depends on it, since the retry takes them all and sorts them by type.

An *input* is a batch: who sends it, the sizes of its items, the time budget, whether there is a
licence key and whether something on the way swallows the post-quantum hello. An answer takes no
time unless it is a timeout (`HttpTimeout`); a backoff takes what `Delay` says, in units of 100 ms.

## Runs

| Run | Configuration | Shows |
|---|---|---|
| `delivery_batched` | default mode with `pipeline_flush`; 3 requests, 2 payloads, threshold 2, cap 1, cleanup after every invocation, stale after 2 | type, no silent loss of payloads or reports, pairs meet and are not split, active request registered |
| `delivery_synchronous` | `synchronous_flush`; 3 requests, 2 payloads, threshold 1, cleanup at the third | no immediate send spawned before the sweep is left without an awaiter |
| `delivery_shutdown` | default mode, deadlines and SHUTDOWN_TIMEOUT may expire; 2 requests, 2 payloads, cleanup after every invocation, stale after 2 | refinement of `PayloadCustody`; every INVOKE and every SHUTDOWN ends |
| `late_chunk_cleared` | `synchronous_flush`; 2 requests | statement 1 of the sources that the code does not keep (below) |
| `logs_pipelined` | `pipeline_flush`, trace collection on; 2 invocations, a function log and a platform log, every limit 1 | type, one copy of each log, no log lost, the right request id, SHUTDOWN leaves only what the code may leave |
| `logs_synchronous` | no `pipeline_flush`; 2 invocations, a function and an extension log, threshold 2, other limits 1 | trace.id stamping, no retry outlives its invocation; every flush and every SHUTDOWN ends |
| `apm_pipelined` | `pipeline_flush`, cap 2; 2 invocations, 2 payloads of which one does not parse, a report, 1 session, every limit 1 | type, one copy of each payload, nothing taken is lost |
| `apm_synchronous` | no `pipeline_flush`, blocking handshake; 2 invocations, 1 payload, 2 sessions, 2 retries; SHUTDOWN_TIMEOUT may expire | the current request keeps its entry, sends use the current session; every INVOKE and every SHUTDOWN gets past the lock |
| `managed_instances` | 1 request with a report, whose entry may be made three times, 2 payloads (one names no request, one does not parse), 1 session, every limit 1 | type, one copy of each payload, nothing lost but what is filed while its entry is visited |
| `managed_instances_end` | 1 request with a report, 1 payload that waits for its entry, 1 session | every payload leaves its buffer, SHUTDOWN ends |
| `invocation_end` | 2 invocations, 2 ids of the clock; 8 scenes: both modes with deadlines of 0 or 3 ticks; serverless with failed invocations, SHUTDOWNs that are no spindown, and starts and restores that fail, whose records bring a request's id, an instance's or none | type, no lost wake-up, waits in time, errors reported and not repeated |
| `chunked_send` | all batches of three items of size 1, 4 or 6 (limit 5) from three callers; a chunk of five, halved twice; one item under no budget and budgets of 0, 1 and 40 s, with and without key and hang | type, chunks cover, only hopeless logs given up, bounded attempts, one hang |

Bounds. The code's constants (threshold 3, cap 8, cleanup every 10, stale after 5) are
parameters: each run takes the smallest values at which every branch is reached with three
requests, and the proofs hold for all values. Two payloads are enough for a snapshot to miss
one (one posted, one appended) and for two requests to hold one each; three requests give an
active one, an earlier one and a stale one (two in `delivery_shutdown`, where SHUTDOWN ages the
first of them too: a cleanup then runs while SHUTDOWN collects). The log pipeline's limits (25 logs to a batch,
2000 held, 128 traces, 100 failed logs of a type, 3 retries) are 1 or 2, so that two logs
overflow each of them; two invocations are enough for a log of the first to be delivered,
released or retried during the second. In APM mode (limits of 500 items, 1000 batches and 500
payloads, 10 retries) the limits are 1 as well: two payloads meet in a full buffer. One session
that the collector ends, or two of which the first is replaced, give stale run ids, late
answers and a handshake during each part of an INVOKE and of SHUTDOWN; `apm_synchronous` has one payload
since what it checks is about its holder and the lock. Both managed-instance
runs have one request with a report: its entry may be made more than once (three times at most in
`managed_instances`), so a flush may
visit an old entry while a new one is filed under, and the report's handler is a third user of
the buffers beside the heartbeat and SHUTDOWN's flush, which is all the code runs at a time. A
flush over several requests is covered by the theorems (`SlotInv` and `VisitApart` hold for any
number of them) and, as an INVOKE's flush, by `apm_pipelined`. In `managed_instances_end` the
payload waits for its entry (`Harvest`), which keeps the graph small enough for liveness.
In `invocation_end` the margin is 2, the longest wait for runtimeDone 2 and the fallback 1, so a deadline
of 3 is passed, missed by less than the margin, or kept, and the cleanup comes after each event, so
that it meets every state; two ids of the clock are enough for two records to differ, and are
symmetric. In `chunked_send` MAX_SPLIT_DEPTH is 2 (4 in the code) and a chunk of
five has parts that may still be halved at that depth; retries are 3 and 20 as in the code, and the
budgets end before the first retry, amid them and after all of them. Requests and payloads are
symmetric; symmetry is not used where liveness is checked. `logs_pipelined` has a VIEW that merges the
states which differ only in registration's fallback ARN once an INVOKE has given one: no guard and no
property can tell them apart then. All tasks end with the process, so the specification
has an explicit `Terminated` step and deadlock is checked in every run.

Fairness (`FairSpec`) is that of the tokio scheduler and of the HTTP client: a task that can
run is polled, and an HTTP request ends, because the client has a timeout and a bounded number of
retries. Nothing is assumed of Lambda or the agent: no INVOKE, report, payload, runtimeDone or
SHUTDOWN need ever come. On managed instances the heartbeat's `select!` polls its two branches in
random order, so the cancellation is taken if it is ready again and again (strong fairness of
`HeartbeatStops`); its ticker is fair. The session's lock gets no fairness of its own: that readers and writers
reach it follows from the tasks' fairness and from the order the lock imposes (`MayRead`). Of the clock, `LogPipeline` assumes that the deadline of an
invocation and the grace pass, and no module that SHUTDOWN_TIMEOUT does:
in `apm_synchronous` it may expire but need not, so SHUTDOWN has to end by itself.
`apm_pipelined` leaves it out, which keeps the run small.

## Where the sources disagree with themselves

1. Under `synchronous_flush` a payload appended to a batch entry during the entry's POST is
   removed with it (`late_chunk_cleared`).
2. A processing task without deadline budget drops the handles of its immediate sends, and the
   SHUTDOWN sweep cannot wait for them, though `event_loop.rs` 1203 has it "sweep every request".
3. The grace after runtimeDone is meant to end when the processor is drained (`processor.rs`
   158), but a notification stored by an earlier drain, which nobody waited for, ends it at once.
4. In APM mode INVOKE is said to make a request's entry before platform.start is handled; if it
   is the other way round, INVOKE replaces the entry, and the payloads filed in it are out of
   reach, and so is a Notify that runtimeDone has signalled: the wait then lasts until the deadline.
5. "The cached run_id is stale" when the reconnect flag is up: the flag does not name the run
   id, and a send in flight with the old one can raise it again after it was taken, so
   that the INVOKE after next drops the new session.
6. "Prevents concurrent reconnect spawns" (`event_loop_lmi.rs` 72): SHUTDOWN's flush makes handles
   of its own (525), with a flag of its own, so its handshake and the heartbeat's may run at once.
7. "Payload is now in FAILED_TELEMETRY_BUFFER" (`listener.rs` 417) is not so for a payload that does
   not parse, which the drain of a report then gives up.
8. Two records of one failure both send it when the second looks it up while the first is under
   way, though `processor.rs` 271 promises it "without double-sending".
9. "Send ALL remaining payloads at shutdown" (`event_loop.rs` 1208), and the cleanup sends "before
   removing to prevent data loss" (`request/mod.rs` 438): but the cleanup is spawned and forgotten (1121),
   and SHUTDOWN neither finds the payloads it has taken out of a buffer nor waits for it; they end
   with the process.
10. The sweep of SHUTDOWN is there "so a send in flight when the sandbox is torn down is waited for
   rather than silently abandoned" (`request/mod.rs` 182-184): it lists the handles once, while the pipe is still
   read, and a payload routed during SHUTDOWN's own sends gets a send nobody awaits: the process
   exits with it in flight.
11. `SENT_ERRORS` goes by error type "to prevent duplicate errors from different sources" (`error_synthesis.rs`
   31), but also by id, and two records of one failed start may get two ids, from the context and the
   clock: the second is then sent after the first has been.

Statement 1 has a run; the others are behaviours of the models (2 of `ServerlessDelivery` with
deadlines that expire, 3 of `LogPipeline`, 4 of `ApmDelivery` and `InvocationEnd`, 5 of `ApmDelivery`,
6 and 7 of `LmiDelivery`, 8 and 11 of `InvocationEnd` with `ErrorSynthesis`,
9 and 10 of `ServerlessDelivery`), and the properties are stated around them.

Seen in the code while modelling, and not given a run of their own:

* a send the endpoint refuses (4xx, or 5xx on every retry) returns Ok and clears the batch,
  though `batch.rs` 208 promises removal only after a successful send;
* SHUTDOWN in the serverless mode does not send a report whose payload never came;
* "at most one auto-flush task can be in-flight" (`processor.rs` 147): the flag that should ensure it is
  cleared before the task has run;
* retries push back into the telemetry and metric buffers without the limit that first failures respect
  ("Hard cap", `telemetry_buffer.rs` 21);
* a late payload that cannot be sent is dropped by `process_apm_request`, whose message says
  it is buffered for retry; a report stored for a retry is removed unsent by the next INVOKE if there is still no session;
* with `pipeline_flush`, the deferred tasks of two INVOKEs can both post a stored report;
* on managed instances a payload filed in an entry while its buffer's payloads are being sent is
  removed with the entry; the heartbeat is awaited after SHUTDOWN's flush without a timeout;
* the retry of failed errors does not look at the marks, and errors that fail at SHUTDOWN, or fail
  again, are given up; a runtimeDone recorded for a request whose entry is gone stays recorded,
  since no cleanup of that request follows (`request/mod.rs` 410-415 removes those recorded before it);
* with a `data_collection_timeout` below the HTTP timeout, the attempt that a swallowed TLS hello
  costs is the only one, and with it the post is lost;
* a retried chunk is kept whole when part of it fails: the logs it has delivered are delivered again,
  and those the endpoint refused come back;
* a post that times out may have been accepted all the same: what is kept then is delivered twice.

## Proofs

The theorems hold for every set of requests, payloads and logs and every value of the constants
that meets the named assumptions; what each rests on is below, one paragraph per proof module.
Every invariant named here was checked by TLC first, or strengthens one a run checks.

**`ServerlessDelivery_proofs`**

* `TypeCorrect`: `TypeOK` is inductive.
* `ActiveStaysRegistered`, from `ActiveInv`: the requests the cleanup may remove were all
  created by earlier INVOKEs. `ActiveIsRegistered` alone is not inductive, since a cleanup
  holds a list of stale requests across awaits; the invariant adds that the active request's
  age is at most one (SHUTDOWN counts too) and that it is neither on the list nor current.
  `StaleAssumption` (an age of at least two) is exactly what this needs.
* `LatePairsAlwaysDrained`, on top of `ActiveInv`: the report of an earlier request and its
  payloads are never both waiting.
* `NothingSilentlyLost`, `ReportsNeverLost`, `PairsNeverSplit` for `~SynchronousFlush`, from
  `DeliveryInv`: every entry of the batch has its report, and every POST (or cleanup) in
  flight carries all that its entries hold, so clearing by request id removes only what was
  sent. The assumption is needed: run `late_chunk_cleared` is the counterexample without it.
  Each action is shown to meet four frame conditions (on places, reports, answers and
  posts), and `DeliveryFrame` shows once that they preserve the invariant.
* `SendsNeverAbandoned`, from `HandleInv`, for deadlines that do not expire (with those that do,
  statement 2 holds). `NoAbandonedSend` is not inductive: the entry that keeps a handle may be removed
  by the cleanup, the task that keeps it could be spawned again, and the sweep takes nothing from tasks.
  The invariant adds that the cleanup has taken the handles of the entry it will remove and that none is
  added since the entry is not the active request's (`HandlesTaken`, from `ActiveInv`), that a request gets
  its task once (`SpawnedOnce`), that every task spawned and not done is one the loop awaits
  before it sweeps (`TasksAwaited`), and that until the sweep nothing is due (`DueSeen`).
* `CustodyKept`, for `~SynchronousFlush`: `Custody`, the refinement of `PayloadCustody`. `CustodyInv` says
  that what was sent or is due had been taken into custody, so that nothing settled is received
  again; that a buffered payload has an entry, so that SHUTDOWN finds it; and that what is due is
  collected once SHUTDOWN sends. With `DeliveryInv` each action is a step of the promise or a
  stutter: `Invoke` and the router receive, `CleanerTake` detaches, `ShutdownSweep` closes,
  `ShutdownDone` finishes, a timeout or a 403 kills, all others settle. Without
  `detached` the promise is not kept: `ShutdownDone` ends with what the cleanup holds (statement 9).

**`LogPipeline_proofs`**

* `TypeCorrect`, from `TypeInv`: the held buckets are listed once in `holdOrder`, nothing is held
  before the first INVOKE, and no INIT log waits after it. The bound on what is held needs the count of
  the buckets to fall as the oldest is evicted, which the order gives.
* `StampedWithItsRequest`, `TracedWithItsRequest` and `KnownTraceReleases`, from `StampInv`: an undelivered log has no
  stamp, one that waits in a bucket is stamped with the bucket's request, the telemetry
  stream is at most one request ahead of the event loop, and the trace map knows only requests
  that had their INVOKE. The three properties are preserved together: whether a log is held,
  and what it is stamped with, is decided by the map when it is filed and when a trace.id comes.
* `NoRetryIsFrozen`, from `FlushInv` and `RetryInv`: a task has a flush only at its end and the loop only
  in the last part of SHUTDOWN; without `pipeline_flush` one task at most is active, the event loop awaits
  it, and a retry in flight is the one in `retrySlot`, or the one the flush has taken from it.
* `LogsNeverLost` and `OneCopyAlways`, from `PlaceInv`: a log that was received is in one place (`Apart` between
  the places, `OneHeld`, `OneAuto`, `OneRetry`, `OneFlush` within them), or was sent, or given up; and a failed log is in the
  queue of its own type, without which it could be in two of them.
  Each action is shown to move a named set of logs, and a lemma per kind of move shows once what that does.
* `ShutdownLeavesNothing`, from `DrainInv`: when SHUTDOWN's last flush begins it has emptied what was held and the
  INIT logs; past its wait for the auto-flush task nothing due is left in the batch, unless there is no ARN, nor with
  the task the handle names. `ShutdownDone` is the one step that lets the process exit in order; by `FlushInv` and `RetryInv`
  no other flush, and without `pipeline_flush` no retry, is at work then.

**`InvocationEnd_proofs`** (with the `ErrorSynthesis` it extends)

* `TypeCorrect`, from `ErrorInv` and `EndInv`: what waits to be retried is in one queue once
  (`QueueInv`), and at most one entry of a request is made by its platform.start and one by its
  INVOKE (`MadeInv`), which bounds the entries and with them the permits.
* `OnlySentSkips` and `NeverSentTwice`, from `MarkInv`: a mark in `SENT_ERRORS` stands for a report
  sent, and a report sent and not cleared has its mark. They hold of whatever ids
  the records got (`RequestIdsType`), and since no two kinds of error have one class (`ClassTellsCause`).
  `NeverSentTwice` is an action property.
* `WakeupsNeverLost`, from `NotifyInv`, which says where the permit of a handled runtimeDone is: in
  `PREFIRED_RUNTIME_DONE` as long as there is no entry, then in the Notify of the entry; and that
  the task that waits holds the Notify of the entry there is.
* `WaitsEndInTime`: `WaitsInTime` is inductive on top of the types, since `Tick` takes one from the
  deadline and from the wait alike and the arithmetic saturates at zero.

**`Subsequences_proofs`**

What `Filter` and `Total`, the prefix of a recursion (`Recursion`) and an induction up to a bound
(`UpTo`) amount to for every sequence. The theorems of induction in the library take an operator,
which the provers cannot instantiate; these lemmas say the same of a set of numbers and of a
recursion given as a function, both from the order of Nat being well founded, which the library
states without an operator. With them the proofs below reach recursive functions.

**`ChunkedSend_proofs`**

* `TypeCorrect`, `PostsAreBounded`, `HangsOnce`, from `Typed` and the stage of a post.
* `ChunksCoverBatch`, from `CutInv`: the chunks, the one being filled and what is left to cut are the
  batch in its order, and the size counted is the `Total` of what is being filled. It holds for
  all sizes and limits, which TLC samples.
* `OnlyHopelessAreLost` and `OnlyHalvedSentTwice`, by counting: `Held(i)` is how many copies of an
  item the chunks, the parts, the logs handed back and the queue have together, a sum of `Total`s.
  `PartInv` says that a part is made of the chunk's items, `LostInv` that every item is held,
  accepted, or hopeless, `WholeInv` that in a retry a chunk that was not halved is in one piece,
  and so is what is handed back of it, `OnceInv` that the copies of an item not halved are one at most.

**`ApmRetry_proofs`**: lemmas about the operations of `ApmSession` and `ApmRetry`, used by the
two modules that compose them: their types, and `CopyInv`, by which an item sent is in one of the
telemetry buffer, one retry, delivered, dropped. Each operation is shown to move a named set of
payloads into the union (`Sent`).

**`ApmDelivery_proofs`**

* `TypeCorrect`, from `TypeInv`, which adds that a payload is in FAILED_AGENT_PAYLOADS once, while its
  place says so, and that a worker is at an entry while it works on one.
* `OneCopyAlways`, from `OutInv`: a payload is out exactly when it is in `Sent` or lost, never in both.
* `TakenNeverLost` (an action property), from `OutInv` and what a step may lose (`LossStep`).
* `SessionKeptWhileSending`: a send holds the read side of the lock, and the steps that write the
  session need it free.
* `EntryKept`, from `EntryInv`: `CurrentKeepsEntry` alone is not inductive, for a worker holds the
  entries it will visit across awaits. The invariant adds that the tasks of an INVOKE have only entries of earlier
  requests ahead of them (`WorkInv`), and what `platform.start` may make before the INVOKE (`StartInv`).

**`LmiDelivery_proofs`**

* `TypeCorrect`, from `TypeInv`. How many entries a request is given is bounded because each one takes a
  payload that was never routed, or the platform.start: `EntryOK` counts them, and is why the module
  assumes finitely many payloads. `SlotInv` says that a flush has one entry per request to
  visit, `FailedInv` that a retry alone holds what it has taken of FAILED_AGENT_PAYLOADS, and `DrainInv`
  that the last flush begins once.
* `OneCopyAlways`, from `OutInv` as in `ApmDelivery_proofs`. The step that is not in APM mode is the
  visit of an entry, which removes entries with payloads in them and takes others': the two are
  apart since a flush has one entry per request (`VisitApart`).
* `OnlyLateFilesAreLost` (an action property), from `LateInv` and `ReportInv`: a payload filed before a
  flush began, in an entry there still is, is in one the flush has yet to visit; what it removes
  with an entry was therefore filed since. The handler of a report has a session for as long as it
  holds payloads, so those it does not send do not parse.

Only model-checked: the liveness properties (`EventsEnd` of both modes, `FlushEnds`,
`HeartbeatDrains`, `ShutdownEnds`), since fairness and ENABLED are out of the prover's reach. Every
invariant, every action property and the refinement that a run checks has its theorem.
`NoSilentLoss`, `ReportNotLost`, `NoSplitPair` and `Custody` need `synchronous_flush` off; what is true with
it on is `NoAbandonedSend`.

## Plan

Every component whose logic the models can tell apart has its module and the theorems of its
safety properties. What could follow: a weaker promise that `synchronous_flush` keeps (custody up to what is
appended to an entry during its POST), and abstract specifications for logs and for APM mode of the kind
`PayloadCustody` is for the serverless mode, of which `PlaceInv` and `OutInv` are the inductive part.

## Not modelled

Configuration parsing, credentials look-up, version detection, tagging, registration (a request
repeated a fixed number of times before anything else runs), payload formats and conversions (data
the models abstract from), build files and examples. Of the components that are modelled in part:
the log flushes of managed instances, `LMI_SHUTDOWN_TIMEOUT_MS` and the age limits of buffered
items; the pipe and its channel; the wording and formatting of logs, reports and errors.
