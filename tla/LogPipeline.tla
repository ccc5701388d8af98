----------------------------- MODULE LogPipeline -----------------------------
(***************************************************************************)
(* The log processor (logs/processor.rs) as the serverless event loop, the *)
(* telemetry listener and its own background tasks drive it: where a log   *)
(* record waits, which task sends it, what it is stamped with, and what    *)
(* the end-of-invocation and shutdown flushes leave behind.                *)
(*                                                                         *)
(* Tasks interleave only at an await (current_thread runtime), so          *)
(* is_auto_flushing is never seen set: it is set and cleared within one    *)
(* step of try_spawn_auto_flush.  Invocations are numbered in the order    *)
(* Lambda runs them, which is the order of INVOKE and of platform.start.   *)
(* Logs are distinct records (text, time, type, request), so the           *)
(* deduplication of a flush keeps them all.  The waits inside INVOKE only  *)
(* delay the rest of it, and are ServerlessDelivery's; the wait for        *)
(* platform.runtimeDone that comes before the grace is InvocationEnd's.    *)
(* No log waits in request_id_buffer: an INVOKE sets ARN and request id    *)
(* together, and before it a log goes to pre_invoke_buffer.                *)
(***************************************************************************)
EXTENDS Naturals, FiniteSets, SequencesExt, Subsequences

CONSTANTS
    FunctionLogs, ExtensionLogs, PlatformLogs,  \* records, by LogType
    Invocations,     \* bound: invocations of the sandbox
    CollectTraceId,  \* NEW_RELIC_COLLECT_TRACE_ID
    PipelineFlush,   \* is the end of an invocation deferred?
    HoldMax,         \* NEW_RELIC_TRACE_ID_LOG_BUFFER_MAX (2000 by default)
    TraceMapMax,     \* MAX_TRACE_ID_MAP (128 in the code)
    FlushThreshold,  \* logs that trigger an auto-flush (25 in the code)
    FailedMax,       \* MAX_FAILED_BUFFER_PER_TYPE (100 in the code)
    MaxRetries       \* MAX_RETRIES (3 in the code)

Kinds == {FunctionLogs, ExtensionLogs, PlatformLogs}
Logs  == UNION Kinds

ASSUME KindAssumption == \A j, k \in Kinds : j = k \/ j \cap k = {}
ASSUME LogAssumption  == IsFiniteSet(Logs)
ASSUME FlagAssumption == CollectTraceId \in BOOLEAN /\ PipelineFlush \in BOOLEAN
ASSUME LimitAssumption ==
    /\ Invocations \in Nat /\ MaxRetries \in Nat
    /\ HoldMax \in Nat \ {0} /\ TraceMapMax \in Nat \ {0}
    /\ FlushThreshold \in Nat \ {0} /\ FailedMax \in Nat \ {0}

None     == 0                \* no request, no task
Requests == 1..Invocations
Flushers == Requests \cup {None}  \* a request's task; None is the event loop
\* A retry task is named after what starts it: an INVOKE, or a pass of SHUTDOWN.
RetryIds == 1..(Invocations + MaxRetries)

VARIABLES
    loop,       \* where the event loop awaits
    task,       \* process_request_concurrently, per request
    fallback,   \* did registration give a fallback ARN?
    context,    \* the request id (and ARN) of invocation_context
    current,    \* TELEMETRY_CURRENT_REQUEST_ID
    seen,       \* records delivered by the Telemetry API
    preInvoke,  \* pre_invoke_buffer
    held,       \* pending_logs, per request
    holdOrder,  \* the order of its buckets
    traces,     \* request_trace_ids: the requests whose trace.id is known
    batch,      \* log_batch
    auto,       \* auto-flush tasks; `key` is what one took, `left` what it still has
    handle,     \* pending_flush_handles: the key of the task it names, or {}
    failed,     \* failed_logs_buffer, a queue per type
    retryCount, \* retry_count of a log's entry
    retries,    \* invocation retry tasks
    retrySlot,  \* invocation_retry_handle: the task it names, or None
    flush,      \* flush() calls in progress
    permit,     \* is a notification stored in drain_notify?
    waiters,    \* tasks registered on drain_notify, in order
    woken,      \* tasks it has notified that have not run yet
    lastSend,   \* pre-invoke logs being sent at SHUTDOWN
    pass,       \* retry passes of flush_on_shutdown
    origin,     \* the request a record belongs to in the telemetry stream
    stamp,      \* the request id stamped on a log
    trace,      \* the request whose trace.id is stamped on a log
    sent,       \* logs of chunks answered 2xx
    givenUp,    \* logs dropped: refused, evicted, out of retries, no ARN
    due         \* logs held when the last flush of SHUTDOWN began

streamVars == <<context, current, seen>>
stampVars  == <<origin, stamp, trace>>
holdVars   == <<held, holdOrder, traces>>
autoVars   == <<auto, handle>>
retryVars  == <<retries, retrySlot>>
drainVars  == <<permit, waiters, woken>>
shutVars   == <<lastSend, pass, due>>
vars == <<loop, task, fallback, streamVars, preInvoke, holdVars, batch, autoVars,
          failed, retryCount, retryVars, flush, drainVars, shutVars, stampVars,
          sent, givenUp>>

Ended   == {"exited", "killed"}
Stopping == {"flush", "settle", "drain"}
Stages  == {"none", "waiting", "grace", "flushing", "done"}
Flush(stage, key, logs, retry) ==
    [stage |-> stage, auto |-> key, logs |-> logs, retry |-> retry]
NoFlush == Flush("none", {}, {}, None)

TypeOK ==
    /\ loop \in {"next", "awaiting", "emergency", "lastFlush"} \cup Stopping \cup Ended
    /\ task \in [Requests -> Stages]
    /\ fallback \in BOOLEAN
    /\ context \in 0..Invocations /\ current \in 0..Invocations
    /\ seen \in SUBSET Logs /\ preInvoke \in SUBSET Logs /\ batch \in SUBSET Logs
    /\ held \in [Requests -> SUBSET Logs]
    /\ holdOrder \in Seq(Requests) /\ traces \in Seq(Requests)
    /\ auto \in SUBSET [key : SUBSET Logs, left : SUBSET Logs]
    /\ handle \in SUBSET Logs
    /\ failed \in [Kinds -> Seq(Logs)]
    /\ retryCount \in [Logs -> 0..MaxRetries]
    /\ retries \in SUBSET [id : RetryIds, left : SUBSET Logs]
    /\ retrySlot \in RetryIds \cup {None}
    /\ flush \in [Flushers -> [stage : {"none", "auto", "sending", "joining"},
                               auto : SUBSET Logs, logs : SUBSET Logs,
                               retry : RetryIds \cup {None}]]
    /\ permit \in BOOLEAN /\ waiters \in Seq(Requests) /\ woken \in SUBSET Requests
    /\ lastSend \in SUBSET Logs /\ pass \in 0..MaxRetries
    /\ origin \in [Logs -> 0..Invocations] /\ stamp \in [Logs -> 0..Invocations]
    /\ trace \in [Logs -> 0..Invocations]
    /\ sent \in SUBSET Logs /\ givenUp \in SUBSET Logs /\ due \in SUBSET Logs

Init ==
    /\ loop = "next"
    /\ task = [r \in Requests |-> "none"]
    /\ fallback \in BOOLEAN
    /\ context = None /\ current = None
    /\ seen = {} /\ preInvoke = {} /\ batch = {}
    /\ held = [r \in Requests |-> {}] /\ holdOrder = <<>> /\ traces = <<>>
    /\ auto = {} /\ handle = {}
    /\ failed = [k \in Kinds |-> <<>>]
    /\ retryCount = [l \in Logs |-> 0]
    /\ retries = {} /\ retrySlot = None
    /\ flush = [f \in Flushers |-> NoFlush]
    /\ permit = FALSE /\ waiters = <<>> /\ woken = {}
    /\ lastSend = {} /\ pass = 0
    /\ origin = [l \in Logs |-> None] /\ stamp = origin /\ trace = origin
    /\ sent = {} /\ givenUp = {} /\ due = {}

-----------------------------------------------------------------------------
(* Stamping, holding and batching a log.                                   *)

Running  == loop \notin Ended
ArnKnown == context # None \/ fallback

\* Mutant: a log is stamped with the invocation the event loop is at.
context_request_id == context

\* apply_current_invocation_metadata: the request the telemetry stream is at,
\* and only before the first platform.start the request of the last INVOKE.
effective_request_id == IF current # None THEN current ELSE context

\* RequestTraceMap::insert: past the limit the oldest association is evicted.
TraceMapInsert(r) ==
    IF r \in ToSet(traces) THEN traces
    ELSE Append(IF Len(traces) >= TraceMapMax THEN Tail(traces) ELSE traces, r)

HeldLogs(h) == UNION {h[r] : r \in Requests}

\* RequestLogBuffer::push: past the limit the oldest request's bucket is evicted;
\* one is enough, for the buffer was within its limit and no bucket is empty.
Hold(r, l) ==
    LET h     == [held EXCEPT ![r] = @ \cup {l}]
        order == IF held[r] = {} THEN Append(holdOrder, r) ELSE holdOrder
    IN  IF Cardinality(HeldLogs(h)) > HoldMax
        THEN [held |-> [h EXCEPT ![Head(order)] = {}], order |-> Tail(order),
              evicted |-> h[Head(order)]]
        ELSE [held |-> h, order |-> order, evicted |-> {}]

\* try_spawn_auto_flush, once batch holds b: a task takes all of it, and its
\* handle replaces the one in pending_flush_handles, finished or not.
try_spawn_auto_flush(b) ==
    IF Cardinality(b) >= FlushThreshold
    THEN /\ batch' = {}
         /\ auto' = auto \cup {[key |-> b, left |-> b]}
         /\ handle' = b
    ELSE /\ batch' = b
         /\ UNCHANGED autoVars

\* A record comes in from the Telemetry API, and belongs to the request its
\* stream is at.
Deliver(l) ==
    /\ Running
    /\ l \notin seen
    /\ seen' = seen \cup {l}
    /\ origin' = [origin EXCEPT ![l] = current]
    /\ UNCHANGED <<loop, task, fallback, context, current, failed, retryCount,
                   retryVars, flush, drainVars, shutVars, sent>>

Stamp(l) ==
    LET r == effective_request_id
    IN  /\ stamp' = [stamp EXCEPT ![l] = r]
        /\ trace' = IF r \in ToSet(traces) THEN [trace EXCEPT ![l] = r] ELSE trace

\* LogProcessor::process_record, a function or extension log.  The extension's own
\* logs are not forwarded during shutdown; before the first INVOKE a log waits in
\* pre_invoke_buffer; with trace collection on it waits for its request's trace.id.
DiscardRecord(l) ==
    /\ Deliver(l)
    /\ l \in ExtensionLogs
    /\ loop \in Stopping
    /\ givenUp' = givenUp \cup {l}
    /\ UNCHANGED <<preInvoke, holdVars, batch, autoVars, stamp, trace>>

process_record(l) ==
    /\ Deliver(l)
    /\ l \notin PlatformLogs
    /\ ~(l \in ExtensionLogs /\ loop \in Stopping)
    /\ \/ /\ context = None
          /\ preInvoke' = preInvoke \cup {l}
          /\ UNCHANGED <<holdVars, batch, autoVars, stamp, trace>>
       \/ /\ context # None
          /\ CollectTraceId /\ effective_request_id \notin ToSet(traces)
          /\ Stamp(l)
          /\ LET after == Hold(effective_request_id, l)
             IN  /\ held' = after.held
                 /\ holdOrder' = after.order
                 /\ IF after.evicted = {}
                    THEN UNCHANGED <<batch, autoVars>>
                    ELSE try_spawn_auto_flush(batch \cup after.evicted)
          /\ UNCHANGED <<preInvoke, traces>>
       \/ /\ context # None
          /\ ~CollectTraceId \/ effective_request_id \in ToSet(traces)
          /\ Stamp(l)
          /\ try_spawn_auto_flush(batch \cup {l})
          /\ UNCHANGED <<preInvoke, holdVars>>
    /\ UNCHANGED givenUp

\* PlatformProcessor::process_record: a platform log goes straight to the batch,
\* whatever its size.
add_log_to_batch(l) ==
    /\ Deliver(l)
    /\ l \in PlatformLogs
    /\ Stamp(l)
    /\ batch' = batch \cup {l}
    /\ UNCHANGED <<preInvoke, holdVars, autoVars, givenUp>>

\* platform.start of the next request.  It may come before its INVOKE, once the
\* previous invocation is over.
PlatformStart ==
    /\ Running
    /\ \/ current < context
       \/ current = context /\ current < Invocations /\ loop = "next"
    /\ current' = current + 1
    /\ UNCHANGED <<loop, task, fallback, context, seen, preInvoke, holdVars, batch,
                   autoVars, failed, retryCount, retryVars, flush, drainVars,
                   shutVars, stampVars, sent, givenUp>>

\* Mutant: a trace.id stamps every log held.
every_held_log(r) == HeldLogs(held)

\* Mutant: only the current invocation's logs are waited for.
held_for_current(r) == IF r = context THEN held[r] ELSE {}

\* RequestLogBuffer::take.
held_for(r) == held[r]

\* on_trace_id_extracted: the agent payload of a request is in hand.  Its trace is
\* recorded, and the logs held for the request are stamped and batched.
on_trace_id_extracted(r) ==
    /\ Running
    /\ CollectTraceId
    /\ r <= context
    /\ traces' = TraceMapInsert(r)
    /\ LET logs == held_for(r)
       IN  /\ trace' = [l \in Logs |-> IF l \in logs THEN r ELSE trace[l]]
           /\ held' = [q \in Requests |-> held[q] \ logs]
           /\ holdOrder' = Filter(holdOrder, {q \in Requests : held'[q] # {}})
           /\ IF logs = {} THEN UNCHANGED <<batch, autoVars>>
              ELSE try_spawn_auto_flush(batch \cup logs)
    /\ UNCHANGED <<loop, task, fallback, streamVars, preInvoke, failed, retryCount,
                   retryVars, flush, drainVars, shutVars, origin, stamp, sent, givenUp>>

-----------------------------------------------------------------------------
(* Sending: chunks, and the buffer of failed logs.                         *)

\* try_send_chunk: a chunk is sent, refused (4xx) or fails (5xx or the network, on
\* every retry) as a whole; after a 413 it is halved, so its logs fare separately.
Results(chunk) ==
    {out \in [chunk -> {"sent", "refused", "failed"}] : chunk # {}}
With(out, result) == {l \in DOMAIN out : out[l] = result}

\* The logs of S in some order.
Orders(S) == {s \in [1..Cardinality(S) -> S] : ToSet(s) = S}

\* FailedBuffer::push of the logs in s, one by one: past the limit of its type the
\* oldest entry of that type is evicted.
FailedBufferPush(s) ==
    [k \in Kinds |->
        LET q == failed[k] \o Filter(s, k)
        IN  IF Len(q) > FailedMax THEN SubSeq(q, Len(q) - FailedMax + 1, Len(q)) ELSE q]

FailedLogs(f) == UNION {ToSet(f[k]) : k \in Kinds}

\* What failed is kept for the next invocation's retry; what was refused, or is
\* evicted to make room, is dropped.
Settle(out) ==
    \E s \in Orders(With(out, "failed")) :
        /\ failed' = FailedBufferPush(s)
        /\ retryCount' = [l \in Logs |-> IF l \in ToSet(s) THEN 0 ELSE retryCount[l]]
        /\ sent' = sent \cup With(out, "sent")
        /\ givenUp' = givenUp \cup With(out, "refused")
                      \cup ((FailedLogs(failed) \cup ToSet(s)) \ FailedLogs(failed'))

Runs(a, key) == \E t \in a : t.key = key
RetryRuns(id) == \E t \in retries : t.id = id

\* is_drained: the batch is empty, and the task the handle names has finished.
Drained(b, a, h) == b = {} /\ ~Runs(a, h)

\* notify_if_drained: wake the first task that waits, or leave it a permit.
notify_if_drained(b, a, h) ==
    IF ~Drained(b, a, h) THEN UNCHANGED drainVars
    ELSE IF waiters = <<>> THEN permit' = TRUE /\ UNCHANGED <<waiters, woken>>
    ELSE /\ woken' = woken \cup {Head(waiters)}
         /\ waiters' = Tail(waiters)
         /\ UNCHANGED permit

\* An auto-flush task sends a chunk.  After its last one it notifies, while its own
\* handle still counts as unfinished.
AutoFlushChunk(t, out) ==
    /\ Running
    /\ t \in auto
    /\ DOMAIN out \subseteq t.left
    /\ Settle(out)
    /\ LET left == t.left \ DOMAIN out
       IN  IF left # {}
           THEN /\ auto' = (auto \ {t}) \cup {[t EXCEPT !.left = left]}
                /\ UNCHANGED drainVars
           ELSE /\ auto' = auto \ {t}
                /\ notify_if_drained(batch, auto, handle)
    /\ UNCHANGED <<loop, task, fallback, streamVars, preInvoke, holdVars, batch, handle,
                   retryVars, flush, shutVars, stampVars>>

\* Mutant: an entry is retried once more than MAX_RETRIES.
OneRetryMore(l) == retryCount[l] <= MaxRetries
MayRetry(l)     == retryCount[l] < MaxRetries

\* start_invocation_retry: take the whole buffer of failed logs, drop the entries
\* out of retries, and spawn a task for the rest.  A task still in the slot goes on
\* in the background, and nobody awaits it.
start_invocation_retry(id) ==
    LET entries == FailedLogs(failed)
        again   == {l \in entries : MayRetry(l)}
    IN  /\ failed' = [k \in Kinds |-> <<>>]
        /\ retryCount' = [l \in Logs |-> IF l \in again THEN retryCount[l] + 1
                                         ELSE retryCount[l]]
        /\ givenUp' = givenUp \cup (entries \ again)
        /\ retries' = IF again = {} THEN retries
                      ELSE retries \cup {[id |-> id, left |-> again]}

SlotAfterRetry(id) ==
    IF \E l \in FailedLogs(failed) : MayRetry(l) THEN id ELSE retrySlot

\* A retry task sends a chunk, function and platform logs before extension logs.
\* When any of it fails, all of the chunk goes back, what was sent of it included.
RetryChunk(t, out) ==
    /\ Running
    /\ t \in retries
    /\ DOMAIN out \subseteq IF t.left \subseteq ExtensionLogs THEN t.left
                             ELSE t.left \ ExtensionLogs
    /\ sent' = sent \cup With(out, "sent")
    /\ \/ /\ With(out, "failed") = {}
          /\ givenUp' = givenUp \cup With(out, "refused")
          /\ UNCHANGED failed
       \/ /\ With(out, "failed") # {}
          /\ \E s \in Orders(DOMAIN out) : failed' = FailedBufferPush(s)
          /\ givenUp' = givenUp \cup ((FailedLogs(failed) \cup DOMAIN out)
                                      \ FailedLogs(failed'))
    /\ LET left == t.left \ DOMAIN out
       IN retries' = (retries \ {t}) \cup (IF left = {} THEN {} ELSE {[t EXCEPT !.left = left]})
    /\ UNCHANGED <<loop, task, fallback, streamVars, preInvoke, holdVars, batch, autoVars,
                   retryCount, retrySlot, flush, drainVars, shutVars, stampVars>>

-----------------------------------------------------------------------------
(* flush().                                                                *)

\* Mutant: the batch is cloned, not taken.
TakeBatchCloned(f, b, retry) ==
    /\ batch' = b
    /\ flush' = [flush EXCEPT ![f] = IF b = {} \/ ~ArnKnown THEN Flush("joining", {}, {}, retry)
                                      ELSE Flush("sending", {}, b, retry)]

\* Mutant: the batch is taken before it is known that there is an ARN.
TakeBatchFirst(f, b, retry) ==
    /\ batch' = {}
    /\ flush' = [flush EXCEPT ![f] = IF b = {} \/ ~ArnKnown THEN Flush("joining", {}, {}, retry)
                                      ELSE Flush("sending", {}, b, retry)]

\* The end of the wait for auto-flush tasks: take the batch, unless it is empty or
\* there is no ARN to send it with.
TakeBatch(f, b, retry) ==
    IF b = {} \/ ~ArnKnown
    THEN /\ batch' = b
         /\ flush' = [flush EXCEPT ![f] = Flush("joining", {}, {}, retry)]
    ELSE /\ batch' = {}
         /\ flush' = [flush EXCEPT ![f] = Flush("sending", {}, b, retry)]

\* Mutant: the auto-flush task is left to itself.
DrainHandlesNot(f, b, a, h, retry) ==
    /\ handle' = h
    /\ TakeBatch(f, b, retry)

\* Wait for the auto-flush task the handle names, and again while there is one.
\* (The cap of ten rounds is not reached.)
DrainHandles(f, b, a, h, retry) ==
    /\ handle' = {}
    /\ IF Runs(a, h)
       THEN /\ flush' = [flush EXCEPT ![f] = Flush("auto", h, {}, retry)]
            /\ batch' = b
       ELSE TakeBatch(f, b, retry)

\* flush(), with the batch, the auto-flush tasks, the handle and the retry slot as
\* given: nothing to do, or take the retry task's handle and send the batch.
FlushBegin(f, b, a, h, slot) ==
    IF slot = None /\ b = {} /\ ~Runs(a, h)
    THEN /\ flush' = [flush EXCEPT ![f] = Flush("joining", {}, {}, None)]
         /\ batch' = b /\ handle' = h /\ retrySlot' = slot
    ELSE /\ retrySlot' = None
         /\ DrainHandles(f, b, a, h, slot)

FlushAutoDone(f) ==
    /\ Running
    /\ flush[f].stage = "auto"
    /\ ~Runs(auto, flush[f].auto)
    /\ DrainHandles(f, batch, auto, handle, flush[f].retry)
    /\ UNCHANGED <<loop, task, fallback, streamVars, preInvoke, holdVars, auto, failed,
                   retryCount, retryVars, drainVars, shutVars, stampVars, sent, givenUp>>

\* The next chunk of the batch; after the last one, notify.
FlushChunk(f, out) ==
    /\ Running
    /\ flush[f].stage = "sending"
    /\ DOMAIN out \subseteq flush[f].logs
    /\ Settle(out)
    /\ LET left == flush[f].logs \ DOMAIN out
       IN  IF left # {}
           THEN /\ flush' = [flush EXCEPT ![f].logs = left]
                /\ UNCHANGED drainVars
           ELSE /\ flush' = [flush EXCEPT ![f] = Flush("joining", {}, {}, @.retry)]
                /\ notify_if_drained(batch, auto, handle)
    /\ UNCHANGED <<loop, task, fallback, streamVars, preInvoke, holdVars, batch, autoVars,
                   retryVars, shutVars, stampVars>>

\* Mutants: the retry task is not awaited; the processor has to be drained as well.
JoinedSend(f)    == flush[f].stage = "joining"
JoinedDrained(f) == flush[f].stage = "joining" /\ Drained(batch, auto, handle)

\* Both halves of flush() are over: the batch is sent, the retry task has ended.
Joined(f) == flush[f].stage = "joining" /\ ~RetryRuns(flush[f].retry)

-----------------------------------------------------------------------------
(* The event loop and the end of an invocation.                            *)

\* process_pre_invoke_logs at an INVOKE: stamp the logs of the INIT phase, and batch
\* them or hold them for the request's trace.id.  Nothing is held yet, so each log
\* that overflows the buffer sends the bucket it joined to the batch.
process_pre_invoke_logs(r) ==
    /\ preInvoke' = {}
    /\ stamp' = [l \in Logs |-> IF l \in preInvoke THEN r ELSE stamp[l]]
    /\ IF CollectTraceId
       THEN \E kept \in SUBSET preInvoke :
               /\ Cardinality(kept) = Cardinality(preInvoke) % (HoldMax + 1)
               /\ held' = [held EXCEPT ![r] = @ \cup kept]
               /\ holdOrder' = IF kept = {} THEN holdOrder ELSE Append(holdOrder, r)
               /\ batch' = batch \cup (preInvoke \ kept)
       ELSE /\ batch' = batch \cup preInvoke
            /\ UNCHANGED <<held, holdOrder>>

\* INVOKE: the context is the new request's, the failed logs are retried, the INIT
\* logs stamped, and the processing task spawned.
Invoke ==
    /\ loop = "next"
    /\ context < Invocations
    /\ context' = context + 1
    /\ start_invocation_retry(context')
    /\ retrySlot' = SlotAfterRetry(context')
    /\ process_pre_invoke_logs(context')
    /\ task' = [task EXCEPT ![context'] = "waiting"]
    /\ loop' = IF PipelineFlush THEN "next" ELSE "awaiting"
    /\ UNCHANGED <<fallback, current, seen, traces, autoVars, flush, drainVars, shutVars,
                   origin, trace, sent>>

\* The end of an invocation's wait: its flush begins.
EndOfWait(r) ==
    /\ task' = [task EXCEPT ![r] = "flushing"]
    /\ FlushBegin(r, batch, auto, handle, retrySlot)
    /\ UNCHANGED <<loop, fallback, streamVars, preInvoke, holdVars, auto, failed,
                   retryCount, retries, shutVars, stampVars, sent, givenUp>>

DeadlinePassed(r) ==
    /\ Running
    /\ task[r] = "waiting"
    /\ EndOfWait(r)
    /\ UNCHANGED drainVars

\* runtimeDone, and nothing is left to drain, or drain_notify has a permit stored:
\* no grace.
RuntimeDoneNoGrace(r) ==
    /\ Running
    /\ task[r] = "waiting"
    /\ \/ /\ Drained(batch, auto, handle)
          /\ UNCHANGED permit
       \/ /\ ~Drained(batch, auto, handle)
          /\ permit
          /\ permit' = FALSE
    /\ EndOfWait(r)
    /\ UNCHANGED <<waiters, woken>>

\* runtimeDone, and the grace begins: register on drain_notify.
RuntimeDoneGrace(r) ==
    /\ Running
    /\ task[r] = "waiting"
    /\ ~Drained(batch, auto, handle)
    /\ ~permit
    /\ task' = [task EXCEPT ![r] = "grace"]
    /\ waiters' = Append(waiters, r)
    /\ UNCHANGED <<loop, fallback, streamVars, preInvoke, holdVars, batch, autoVars, failed,
                   retryCount, retryVars, flush, permit, woken, shutVars, stampVars, sent,
                   givenUp>>

\* The grace ends: its time is over, or the task has been notified.
GraceOver(r) ==
    /\ Running
    /\ task[r] = "grace"
    /\ waiters' = Filter(waiters, Requests \ {r})
    /\ woken' = woken \ {r}
    /\ EndOfWait(r)
    /\ UNCHANGED permit

ProcessDone(r) ==
    /\ Running
    /\ task[r] = "flushing"
    /\ Joined(r)
    /\ flush' = [flush EXCEPT ![r] = NoFlush]
    /\ task' = [task EXCEPT ![r] = "done"]
    /\ loop' = IF loop = "awaiting" THEN "next" ELSE loop
    /\ UNCHANGED <<fallback, streamVars, preInvoke, holdVars, batch, autoVars, failed,
                   retryCount, retryVars, drainVars, shutVars, stampVars, sent, givenUp>>

-----------------------------------------------------------------------------
(* SHUTDOWN, and the emergency exit on a 403 from /next.                   *)

AllDone == \A r \in Requests : task[r] \in {"none", "done"}

\* SHUTDOWN: wait for the deferred tasks, and on a 403 too.
Stop(where) ==
    /\ loop = "next"
    /\ loop' = where
    /\ UNCHANGED <<task, fallback, streamVars, preInvoke, holdVars, batch, autoVars, failed,
                   retryCount, retryVars, flush, drainVars, shutVars, stampVars, sent,
                   givenUp>>

\* Payloads are sent, and their traces extracted, before the logs are.
Settling ==
    /\ loop = "flush"
    /\ AllDone
    /\ loop' = "settle"
    /\ UNCHANGED <<task, fallback, streamVars, preInvoke, holdVars, batch, autoVars, failed,
                   retryCount, retryVars, flush, drainVars, shutVars, stampVars, sent,
                   givenUp>>

EmergencyFlush ==
    /\ loop = "emergency"
    /\ AllDone
    /\ loop' = "lastFlush"
    /\ FlushBegin(None, batch, auto, handle, retrySlot)
    /\ UNCHANGED <<task, fallback, streamVars, preInvoke, holdVars, auto, failed, retryCount,
                   retries, drainVars, shutVars, stampVars, sent, givenUp>>

\* Everything the process holds.
AutoLogs   == UNION {t.left : t \in auto}
RetryLogs  == UNION {t.left : t \in retries}
FlushLogs  == UNION {flush[f].logs : f \in Flushers}
InMemory   == preInvoke \cup HeldLogs(held) \cup batch \cup AutoLogs \cup RetryLogs
              \cup FlushLogs \cup FailedLogs(failed) \cup lastSend

\* flush_pending_logs_unstamped, then both shutdown flushes start: the INIT logs are
\* sent at once, or dropped without an ARN.
ShutdownFlush ==
    /\ loop = "settle"
    /\ loop' = "drain"
    /\ due' = InMemory
    /\ held' = [r \in Requests |-> {}]
    /\ holdOrder' = <<>>
    /\ LET logs   == HeldLogs(held)
           b      == batch \cup logs
           spawns == logs # {} /\ Cardinality(b) >= FlushThreshold
           a      == IF spawns THEN auto \cup {[key |-> b, left |-> b]} ELSE auto
       IN  /\ auto' = a
           /\ FlushBegin(None, IF spawns THEN {} ELSE b, a, IF spawns THEN b ELSE handle,
                         retrySlot)
    /\ preInvoke' = {}
    /\ lastSend' = IF ArnKnown THEN preInvoke ELSE {}
    /\ givenUp' = IF ArnKnown THEN givenUp ELSE givenUp \cup preInvoke
    /\ UNCHANGED <<task, fallback, streamVars, traces, failed, retryCount, retries, drainVars,
                   pass, stampVars, sent>>

\* The INIT logs have one attempt.
LastSendChunk(out) ==
    /\ loop = "drain"
    /\ DOMAIN out \subseteq lastSend
    /\ lastSend' = lastSend \ DOMAIN out
    /\ sent' = sent \cup With(out, "sent")
    /\ givenUp' = givenUp \cup (DOMAIN out \ With(out, "sent"))
    /\ UNCHANGED <<loop, task, fallback, streamVars, preInvoke, holdVars, batch, autoVars,
                   failed, retryCount, retryVars, flush, drainVars, pass, due, stampVars>>

\* flush_on_shutdown: a flush that left failed logs is followed by a retry and another
\* flush, MAX_RETRIES times at most.
ShutdownPass ==
    /\ loop = "drain"
    /\ Joined(None)
    /\ FailedLogs(failed) # {} /\ pass < MaxRetries
    /\ pass' = pass + 1
    /\ LET id == Invocations + pass'
       IN  /\ start_invocation_retry(id)
           /\ FlushBegin(None, batch, auto, handle, SlotAfterRetry(id))
    /\ UNCHANGED <<loop, task, fallback, streamVars, preInvoke, holdVars, auto, drainVars,
                   lastSend, due, stampVars, sent>>

Exit(how) ==
    /\ loop' = how
    /\ UNCHANGED <<task, fallback, streamVars, preInvoke, holdVars, batch, autoVars, failed,
                   retryCount, retryVars, flush, drainVars, shutVars, stampVars, sent,
                   givenUp>>

ShutdownDone ==
    /\ loop = "drain"
    /\ Joined(None)
    /\ FailedLogs(failed) = {} \/ pass = MaxRetries
    /\ lastSend = {}
    /\ Exit("exited")

EmergencyDone ==
    /\ loop = "lastFlush"
    /\ Joined(None)
    /\ Exit("killed")

\* SHUTDOWN_TIMEOUT_MS is over.
ShutdownTimeOut ==
    /\ loop \in Stopping \cup {"emergency", "lastFlush"}
    /\ Exit("killed")

Terminated == loop \in Ended /\ UNCHANGED vars

-----------------------------------------------------------------------------
\* The fates a send may give the logs of a chunk of S.
Fates(S) == UNION {Results(chunk) : chunk \in SUBSET S}

SendSteps ==
    \/ \E t \in auto : \E out \in Fates(t.left) : AutoFlushChunk(t, out)
    \/ \E t \in retries : \E out \in Fates(t.left) : RetryChunk(t, out)
    \/ \E f \in Flushers : \E out \in Fates(flush[f].logs) : FlushChunk(f, out)
    \/ \E out \in Fates(lastSend) : LastSendChunk(out)

TaskSteps ==
    \/ \E f \in Flushers : FlushAutoDone(f)
    \/ \E r \in Requests : DeadlinePassed(r) \/ GraceOver(r) \/ ProcessDone(r)

LoopSteps ==
    \/ Settling
    \/ ShutdownFlush
    \/ ShutdownPass
    \/ ShutdownDone
    \/ EmergencyFlush
    \/ EmergencyDone

\* What the outside world decides: Lambda, its telemetry, the payloads, the clock.
Environment ==
    \/ Invoke
    \/ PlatformStart
    \/ \E l \in Logs : process_record(l) \/ DiscardRecord(l) \/ add_log_to_batch(l)
    \/ \E r \in Requests : \/ on_trace_id_extracted(r)
                           \/ RuntimeDoneNoGrace(r)
                           \/ RuntimeDoneGrace(r)
    \/ Stop("flush")
    \/ Stop("emergency")
    \/ ShutdownTimeOut

Next == Environment \/ LoopSteps \/ TaskSteps \/ SendSteps \/ Terminated

Spec == Init /\ [][Next]_vars

\* Tasks that can run are polled, requests end (timeouts and bounded retries), the
\* deadline of an invocation and the grace pass.
Fairness ==
    /\ \A r \in Requests : WF_vars(DeadlinePassed(r)) /\ WF_vars(GraceOver(r))
                           /\ WF_vars(ProcessDone(r))
    /\ \A f \in Flushers :
          /\ WF_vars(FlushAutoDone(f))
          /\ WF_vars(\E out \in Fates(flush[f].logs) : FlushChunk(f, out))
    /\ WF_vars(\E t \in auto : \E out \in Fates(t.left) : AutoFlushChunk(t, out))
    /\ WF_vars(\E t \in retries : \E out \in Fates(t.left) : RetryChunk(t, out))
    /\ WF_vars(\E out \in Fates(lastSend) : LastSendChunk(out))
    /\ WF_vars(LoopSteps)

FairSpec == Spec /\ Fairness

-----------------------------------------------------------------------------
(* Safety.                                                                 *)

\* Where a log is held in memory.
Copies(l) ==
    {<<"one", n>> : n \in {n \in 1..3 : l \in <<preInvoke, batch, lastSend>>[n]}}
    \cup {<<"held", r>> : r \in {r \in Requests : l \in held[r]}}
    \cup {<<"auto", t>> : t \in {t \in auto : l \in t.left}}
    \cup {<<"retry", t>> : t \in {t \in retries : l \in t.left}}
    \cup {<<"flush", f>> : f \in {f \in Flushers : l \in flush[f].logs}}
    \cup {<<"failed", k>> : k \in {k \in Kinds : l \in ToSet(failed[k])}}

\* "No log appears in both": whatever tasks run at once, one of them at most has a
\* log, and it is in no buffer meanwhile.
OneCopy == \A l \in Logs : Cardinality(Copies(l)) <= 1

\* A log the process has received and no longer holds was sent, or was dropped for a
\* reason the code gives (refused, evicted, out of retries, no ARN).
NoLogLost == seen \subseteq InMemory \cup sent \cup givenUp

\* A log carries the request id of the request that wrote it, also when it is
\* delivered after the event loop has gone on to a later invocation.
StampedRight ==
    \A l \in Logs : stamp[l] # None /\ origin[l] # None => stamp[l] = origin[l]

\* No log carries the trace.id of another request than the one it is stamped with.
TraceOfOwnRequest == \A l \in Logs : trace[l] # None => trace[l] = stamp[l]

\* No log waits for a trace.id that is already known.
HeldAwaitsTrace == \A r \in Requests : held[r] # {} => r \notin ToSet(traces)

\* Without pipeline_flush the extension never asks for the next event while a retry
\* task is in flight, to be frozen with the sandbox.
RetryEndsWithInvocation == ~PipelineFlush /\ loop = "next" => retries = {}

\* An orderly SHUTDOWN leaves nothing of what it found: only failures of its last
\* retry pass, logs without an ARN, and those of a task nobody awaits any more.
ShutdownFlushesAll ==
    loop = "exited" =>
        due \cap InMemory \subseteq
            FailedLogs(failed)
            \cup (UNION {t.left : t \in {t \in auto : t.key # handle}})
            \cup (IF PipelineFlush THEN RetryLogs ELSE {})
            \cup (IF ArnKnown THEN {} ELSE batch)

-----------------------------------------------------------------------------
(* Liveness.                                                               *)

\* Every invocation's flush ends, whatever auto-flushes and retries are in flight, and so
\* does SHUTDOWN: its retry passes terminate.
FlushEnds ==
    /\ \A r \in Requests : task[r] = "waiting" ~> (task[r] = "done" \/ loop \in Ended)
    /\ (loop \in {"flush", "emergency"}) ~> (loop \in Ended)
=============================================================================
