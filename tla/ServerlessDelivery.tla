------------------------- MODULE ServerlessDelivery -------------------------
(***************************************************************************)
(* Delivery of agent payloads and platform.report lines in serverless mode *)
(* (execute_standard_mode_event_loop and everything it shares with the     *)
(* pipe collector, the telemetry listener and the background tasks).       *)
(*                                                                         *)
(* The extension runs on a current_thread tokio runtime, so tasks          *)
(* interleave only where one of them awaits: an action below is the code   *)
(* between two awaits.  A payload is in one buffer or task at a time:      *)
(* `where` names it and `filed` names the request it is kept under, so     *)
(* REQUEST_DATA[r].agent_buffer is the set of payloads whose `where` is    *)
(* "buffer" and `filed` is r, and AGENT_BATCH_BUFFER[r] the same with      *)
(* "batch".  A POST in flight holds a copy (a snapshot) of what it sends.  *)
(***************************************************************************)
EXTENDS Naturals, FiniteSets

CONSTANTS
    Requests,          \* invocations of the sandbox, by request id
    Payloads,          \* payloads the function's agent writes to the pipe
    NoRequest,         \* no request id
    SynchronousFlush,  \* NEW_RELIC_EXTENSION_SYNCHRONOUS_FLUSH
    PipelineFlush,     \* NEW_RELIC_EXTENSION_PIPELINE_FLUSH
    BatchThreshold,    \* paired entries that trigger a send (3 in the code)
    PipelineCap,       \* deferred processing tasks kept (8 in the code)
    CleanupInterval,   \* invocations between two cleanups (10 in the code)
    StaleAge,          \* invocations a request entry survives (5 in the code)
    DeadlineMayExpire, \* may an invocation's deadline cut a wait short?
    ShutdownMayTimeOut \* may SHUTDOWN_TIMEOUT_MS (or the 403 path) end it?

ASSUME NoRequestAssumption == NoRequest \notin Requests
ASSUME FlagAssumption ==
    /\ SynchronousFlush \in BOOLEAN /\ PipelineFlush \in BOOLEAN
    /\ DeadlineMayExpire \in BOOLEAN /\ ShutdownMayTimeOut \in BOOLEAN

ASSUME LimitAssumption ==
    /\ BatchThreshold \in Nat \ {0} /\ PipelineCap \in Nat \ {0}
    /\ CleanupInterval \in Nat \ {0}

\* The counter that ages a request entry also counts SHUTDOWN: at an age of one
\* the cleanup could remove the entry of the active request.
ASSUME StaleAssumption == StaleAge \in Nat \ {0, 1}

VARIABLES
    loop,         \* where the event loop awaits
    active,       \* CURRENT_ACTIVE_REQUEST_ID
    invocations,  \* GLOBAL_INVOCATION_COUNTER
    registered,   \* the keys of REQUEST_DATA
    created,      \* creation_invocation, 0 before the request's INVOKE
    task,         \* process_request_concurrently, per request
    flushing,     \* pending_flush_handles (pipeline_flush)
    report,       \* where the platform.report line of a request is
    where,        \* where a payload is
    filed,        \* the request id a payload is kept under
    handle,       \* who holds the JoinHandle of a payload's immediate send
    queued,       \* batch sends spawned and not yet started
    posts,        \* batch POSTs in flight
    cleaner,      \* the periodic cleanup task
    acked,        \* payloads of POSTs for which the client returned Ok
    dropped,      \* payloads given up after a failed last attempt
    reportSettled,\* report lines posted, or given up with their request
    due           \* payloads the orderly shutdown in progress must settle

requestVars == <<active, invocations, registered, created>>
answerVars  == <<acked, dropped, reportSettled>>
payloadVars == <<where, filed, handle>>
vars == <<loop, requestVars, task, flushing, report, payloadVars, queued,
          posts, cleaner, answerVars, due>>

Places == {"unseen", "orphan", "buffer", "batch", "immediate", "task",
           "cleaner", "shutdown", "gone"}
Ended  == {"exited", "killed"}
Waits  == {"next", "cap", "threshold", "awaiting", "flush", "sweep", "send",
           "emergency", "lastSend"} \cup Ended
Stages == {"none", "spawned", "waiting", "joining", "done"}
\* Who awaits a batch send: the event loop, a request's processing task, or
\* nobody (the telemetry listener detaches it).
Senders == [by : {"loop", "task", "listener"}, request : Requests \cup {NoRequest}]
Posts  == [sender : Senders, payloads : SUBSET Payloads, reports : SUBSET Requests]
\* The cleanup task: the batch entries its POST carries, then the stale requests
\* left to handle and the one it is at.
Cleaner(phase, keys, payloads, reports, stale) ==
    [phase |-> phase, keys |-> keys, payloads |-> payloads, reports |-> reports,
     stale |-> stale, current |-> NoRequest]
Cleanups == [phase : {"idle", "spawned", "batch", "buffers", "sending", "handles"},
             keys : SUBSET Requests, payloads : SUBSET Payloads,
             reports : SUBSET Requests, stale : SUBSET Requests,
             current : Requests \cup {NoRequest}]
IdleCleaner == Cleaner("idle", {}, {}, {}, {})

TypeOK ==
    /\ loop \in Waits
    /\ active \in Requests \cup {NoRequest}
    /\ loop \in {"cap", "threshold", "awaiting"} => active # NoRequest
    /\ invocations \in Nat
    /\ registered \in SUBSET Requests
    /\ created \in [Requests -> Nat]
    /\ task \in [Requests -> Stages]
    /\ flushing \in SUBSET Requests
    /\ report \in [Requests -> {"absent", "pending", "batch", "shutdown", "gone"}]
    /\ where \in [Payloads -> Places]
    /\ filed \in [Payloads -> Requests \cup {NoRequest}]
    /\ handle \in [Payloads -> {"none", "entry", "task", "sweep", "cleaner",
                                "abandoned"}]
    /\ queued \in SUBSET Senders
    /\ posts \in SUBSET Posts
    /\ cleaner \in Cleanups
    /\ cleaner.phase \in {"sending", "handles"} => cleaner.current # NoRequest
    /\ acked \in SUBSET Payloads
    /\ dropped \in SUBSET Payloads
    /\ reportSettled \in SUBSET Requests
    /\ due \in SUBSET Payloads

Init ==
    /\ loop = "next"
    /\ active = NoRequest
    /\ invocations = 0
    /\ registered = {}
    /\ created = [r \in Requests |-> 0]
    /\ task = [r \in Requests |-> "none"]
    /\ flushing = {}
    /\ report = [r \in Requests |-> "absent"]
    /\ where = [p \in Payloads |-> "unseen"]
    /\ filed = [p \in Payloads |-> NoRequest]
    /\ handle = [p \in Payloads |-> "none"]
    /\ queued = {}
    /\ posts = {}
    /\ cleaner = IdleCleaner
    /\ acked = {} /\ dropped = {} /\ reportSettled = {}
    /\ due = {}

-----------------------------------------------------------------------------
(* The buffers, and the operations of agent/batch.rs on them.              *)

Running == loop \notin Ended

At(place, r) == {p \in Payloads : where[p] = place /\ filed[p] = r}
agent_buffer(r) == At("buffer", r)
batch_entry(r)  == At("batch", r)

\* Move the payloads of S to a place.
Moved(S, place) == [p \in Payloads |-> IF p \in S THEN place ELSE where[p]]

\* Send results as the client reports them: Ok for 2xx, but also for a 4xx and
\* for a 5xx on every retry; Err only when the network failed on every retry.
Outcomes == {"ok", "failed"}

Answered(o, S) == acked' = IF o = "ok" THEN acked \cup S ELSE acked

\* A failed attempt after which the code keeps no copy.
AnsweredForGood(o, S) ==
    /\ Answered(o, S)
    /\ dropped' = IF o = "failed" THEN dropped \cup S ELSE dropped

should_send_batch_by_threshold(rp) ==
    Cardinality({r \in Requests : rp[r] = "batch"}) >= BatchThreshold

\* The snapshot a batch send takes: entries with a report line, cloned.
get_batch_with_reports_only(sender, wh, rp) ==
    [sender |-> sender,
     payloads |-> {p \in Payloads : wh[p] = "batch" /\ rp[filed[p]] = "batch"},
     reports  |-> {q \in Requests : rp[q] = "batch"}]

\* Remove the entries of the given request ids from AGENT_BATCH_BUFFER.
RemoveEntries(keys) ==
    /\ where' = [p \in Payloads |-> IF where[p] = "batch" /\ filed[p] \in keys
                                    THEN "gone" ELSE where[p]]
    /\ report' = [r \in Requests |-> IF report[r] = "batch" /\ r \in keys
                                     THEN "gone" ELSE report[r]]

\* Mutant: the whole buffer is cleared after a send.
clear_batch_all(post) == RemoveEntries(Requests)

\* The end of send_batched_payloads_with_reports_only: on Ok the entries named
\* by the snapshot are removed, by request id; on Err everything is kept.
clear_batch_with_reports(post) == RemoveEntries(post.reports)

FinishPost(post, o) ==
    /\ posts' = posts \ {post}
    /\ Answered(o, post.payloads)
    /\ IF o # "failed"
       THEN /\ clear_batch_with_reports(post)
            /\ reportSettled' = reportSettled \cup post.reports
       ELSE UNCHANGED <<where, report, reportSettled>>
    /\ UNCHANGED <<dropped, filed, handle>>

\* A send task spawned by maybe_spawn_batch_send starts: it takes its snapshot
\* now, and returns at once if no entry has a report line.
StartQueuedSend(sender) ==
    /\ Running
    /\ sender \in queued
    /\ queued' = queued \ {sender}
    /\ LET post == get_batch_with_reports_only(sender, where, report)
       IN posts' = IF post.reports = {} THEN posts ELSE posts \cup {post}
    /\ UNCHANGED <<loop, requestVars, task, flushing, report, payloadVars,
                   cleaner, answerVars, due>>

\* A send task's POST ends.
FinishQueuedSend(post, o) ==
    /\ Running
    /\ post \in posts
    /\ post.sender.by # "loop"
    /\ FinishPost(post, o)
    /\ UNCHANGED <<loop, requestVars, task, flushing, queued, cleaner, due>>

-----------------------------------------------------------------------------
(* The pipe collector and the immediate sends of synchronous_flush.        *)

\* route_payload_to_active_request: a payload carries no request id, so it goes
\* to the active request, or else to any request there is, or else it waits for
\* the first one.  Under synchronous_flush a payload of the active request is
\* sent at once by a task of its own, whose handle the request keeps.
route_payload_to_active_request(p) ==
    /\ Running
    /\ where[p] = "unseen"
    /\ \/ /\ active = NoRequest
          /\ registered = {}
          /\ where' = Moved({p}, "orphan")
          /\ UNCHANGED <<filed, handle>>
       \/ \E r \in IF active # NoRequest THEN {active} ELSE registered :
             /\ filed' = [filed EXCEPT ![p] = r]
             /\ IF active # NoRequest /\ SynchronousFlush
                THEN /\ where' = Moved({p}, "immediate")
                     /\ handle' = [handle EXCEPT ![p] =
                                     IF r \in registered THEN "entry" ELSE "abandoned"]
                ELSE /\ where' = Moved({p}, IF r \in registered THEN "buffer" ELSE "gone")
                     /\ UNCHANGED handle
    /\ UNCHANGED <<loop, requestVars, task, flushing, report, queued, posts,
                   cleaner, answerVars, due>>

\* An immediate send ends (spawn_immediate_agent_payload_send, and the task that
\* sends orphans one by one): on Err the payload joins the batch, unpaired.
FinishImmediateSend(p, o) ==
    /\ Running
    /\ where[p] \in {"immediate", "task"}
    /\ where' = Moved({p}, IF o # "failed" THEN "gone" ELSE "batch")
    /\ handle' = [handle EXCEPT ![p] = "none"]
    /\ Answered(o, {p})
    /\ UNCHANGED <<loop, requestVars, task, flushing, report, filed, queued, posts,
                   cleaner, dropped, reportSettled, due>>

-----------------------------------------------------------------------------
(* The telemetry listener's platform.report handler.                       *)

\* AWS emits a request's report only after the extension has asked for the next
\* event, that is, once the event loop is through with the invocation.  A task
\* deferred by pipeline_flush may not have run by then: "in practice" it has, but
\* process_request_concurrently has a branch for it, so the model lets it happen.
ReportMayArrive(r) ==
    /\ created[r] # 0
    /\ report[r] = "absent"
    /\ active = r => loop \notin {"cap", "threshold", "awaiting"}

\* Attach the report to the request's batch entry, or batch what its buffer
\* holds with it, or keep it pending; a request no longer registered loses it.
PlatformReport(r) ==
    /\ Running
    /\ ReportMayArrive(r)
    /\ LET paired == batch_entry(r) # {} \/ (r \in registered /\ agent_buffer(r) # {})
       IN  /\ report' = [report EXCEPT ![r] = IF paired THEN "batch"
                                              ELSE IF r \in registered THEN "pending"
                                              ELSE "gone"]
           /\ where' = IF paired /\ batch_entry(r) = {}
                       THEN Moved(agent_buffer(r), "batch") ELSE where
           /\ queued' = IF paired /\ SynchronousFlush
                        THEN queued \cup {[by |-> "listener", request |-> r]} ELSE queued
           /\ reportSettled' = IF paired \/ r \in registered THEN reportSettled
                               ELSE reportSettled \cup {r}
    /\ UNCHANGED <<loop, requestVars, task, flushing, filed, handle, posts, cleaner,
                   acked, dropped, due>>

-----------------------------------------------------------------------------
(* The event loop: INVOKE.                                                 *)

\* Mutant: late pairs are left to the listener.
LatePairsIgnored(current) == {}

\* drain_late_paired_payloads_serverless: the earlier requests that have both a
\* report pending and payloads buffered.
LatePairs(current) ==
    {r \in registered \ {current} : report[r] = "pending" /\ agent_buffer(r) # {}}

\* The end of an INVOKE: back to /next, and every CleanupInterval invocations
\* spawn the cleanup.  Bound: one cleanup task at a time.
EndInvocation(n) ==
    /\ loop' = "next"
    /\ IF n % CleanupInterval = 0
       THEN /\ cleaner.phase = "idle"
            /\ cleaner' = [cleaner EXCEPT !.phase = "spawned"]
       ELSE UNCHANGED cleaner

\* Mutant: the future is queued without being spawned, and nobody polls it.
NotSpawned(r) == task

Spawned(r) == [task EXCEPT ![r] = "spawned"]

\* Spawn process_request_concurrently; pipeline_flush defers it, unless
\* synchronous_flush wins (should_defer_via_pipeline_flush).
SpawnProcessing(r, n, handles) ==
    /\ task' = Spawned(r)
    /\ IF PipelineFlush /\ ~SynchronousFlush
       THEN /\ flushing' = handles \cup {r}
            /\ EndInvocation(n)
       ELSE /\ flushing' = handles
            /\ loop' = "awaiting"
            /\ UNCHANGED cleaner

\* Past the cap on deferred tasks: send the batch first if it is large enough.
SendThenSpawn(r, n, handles, wh, rp) ==
    IF should_send_batch_by_threshold(rp)
    THEN /\ loop' = "threshold"
         /\ posts' = posts \cup {get_batch_with_reports_only([by |-> "loop", request |-> r], wh, rp)}
         /\ flushing' = handles
         /\ UNCHANGED <<task, cleaner>>
    ELSE /\ SpawnProcessing(r, n, handles)
         /\ UNCHANGED posts

\* Mutant: the invocation before is counted too, deferred or not.
UnfinishedOrActive == {r \in flushing : task[r] # "done"} \cup {active}

\* pending_flush_handles, the finished ones removed.
Unfinished == {r \in flushing : task[r] # "done"}

\* INVOKE: name the active request, batch late pairs of earlier requests, create
\* the request's entry with the orphans in its buffer.  A spawned processing task
\* is polled before the next /next response can be: no INVOKE overtakes it.
Invoke(r) ==
    /\ loop = "next"
    /\ created[r] = 0
    /\ \A q \in Requests : task[q] # "spawned"
    /\ LET late == LatePairs(r)
           wh == [p \in Payloads |->
                    IF where[p] = "buffer" /\ filed[p] \in late THEN "batch"
                    ELSE IF where[p] = "orphan" THEN "buffer" ELSE where[p]]
           rp == [q \in Requests |-> IF q \in late THEN "batch" ELSE report[q]]
       IN  /\ where' = wh
           /\ report' = rp
           /\ filed' = [p \in Payloads |-> IF where[p] = "orphan" THEN r ELSE filed[p]]
           /\ IF Cardinality(Unfinished) >= PipelineCap
              THEN /\ loop' = "cap"
                   /\ flushing' = Unfinished
                   /\ UNCHANGED <<task, posts, cleaner>>
              ELSE SendThenSpawn(r, invocations + 1, Unfinished, wh, rp)
    /\ active' = r
    /\ invocations' = invocations + 1
    /\ registered' = registered \cup {r}
    /\ created' = [created EXCEPT ![r] = invocations + 1]
    /\ UNCHANGED <<handle, queued, answerVars, due>>

\* The oldest deferred task the loop waits for at the cap has ended.
CapReached(r) ==
    /\ loop = "cap"
    /\ r \in flushing
    /\ \A q \in flushing : created[r] <= created[q]
    /\ task[r] = "done"
    /\ SendThenSpawn(active, invocations, flushing \ {r}, where, report)
    /\ UNCHANGED <<requestVars, report, payloadVars, queued, answerVars, due>>

\* The threshold send the loop awaits ends; the invocation's task is spawned.
ThresholdSendDone(post, o) ==
    /\ loop = "threshold"
    /\ post \in posts
    /\ post.sender.by = "loop"
    /\ FinishPost(post, o)
    /\ SpawnProcessing(active, invocations, flushing)
    /\ UNCHANGED <<requestVars, queued, due>>

\* The processing task the loop awaits has ended.
ProcessingDone ==
    /\ loop = "awaiting"
    /\ task[active] = "done"
    /\ EndInvocation(invocations)
    /\ UNCHANGED <<requestVars, task, flushing, report, payloadVars, queued, posts,
                   answerVars, due>>

-----------------------------------------------------------------------------
(* process_request_concurrently.                                           *)

\* Payloads and report are both there, and pair (synchronous_flush keeps them apart).
Pairs(r, taken) == taken # {} /\ ~SynchronousFlush /\ report[r] = "pending"

\* Mutant: a report without payloads is not restored.
ReportDropped(r, taken) == IF Pairs(r, taken) THEN "batch"
                           ELSE IF report[r] = "pending" THEN "gone" ELSE report[r]

\* Mutant: the report is restored even when the payloads are batched.
ReportRestored(r, taken) == report[r]

\* The report taken at the start: batched with the payloads, or restored.
ReportAfterTaking(r, taken) == IF Pairs(r, taken) THEN "batch" ELSE report[r]

\* Take what the request's buffer holds: nothing, or send it now (synchronous_flush),
\* or batch it with the report, or put it back until the report comes.
ProcessStart(r) ==
    /\ Running
    /\ task[r] = "spawned"
    /\ task' = [task EXCEPT ![r] = "waiting"]
    /\ LET taken == agent_buffer(r)
       IN  /\ where' = IF taken # {} /\ SynchronousFlush THEN Moved(taken, "task")
                       ELSE IF Pairs(r, taken) THEN Moved(taken, "batch") ELSE where
           /\ report' = [report EXCEPT ![r] = ReportAfterTaking(r, taken)]
           /\ queued' = IF Pairs(r, taken) /\ should_send_batch_by_threshold(report')
                        THEN queued \cup {[by |-> "task", request |-> r]} ELSE queued
    /\ UNCHANGED <<loop, requestVars, flushing, filed, handle, posts, cleaner,
                   answerVars, due>>

\* The wait for platform.runtimeDone is over (InvocationEnd models it): take the
\* handles of the request's immediate sends, or with no deadline budget left drop
\* them, which detaches the sends.
ProcessJoin(r) ==
    /\ Running
    /\ task[r] = "waiting"
    /\ task' = [task EXCEPT ![r] = "joining"]
    /\ \E holder \in {"task"} \cup (IF DeadlineMayExpire THEN {"abandoned"} ELSE {}) :
          handle' = [p \in Payloads |-> IF handle[p] = "entry" /\ filed[p] = r
                                        THEN holder ELSE handle[p]]
    /\ UNCHANGED <<loop, requestVars, flushing, report, where, filed, queued, posts,
                   cleaner, answerVars, due>>

\* Mutant: nobody joins the immediate sends.
AwaitedNone(r, holder) == {}

\* The immediate sends of r whose handles the holder has to await.
Awaited(r, holder) == {p \in Payloads : handle[p] = holder /\ filed[p] = r}

\* Everything the task joins is over; the immediate sends may be cut by the deadline.
ProcessDone(r) ==
    /\ Running
    /\ task[r] = "joining"
    /\ [by |-> "task", request |-> r] \notin queued
    /\ \A post \in posts : post.sender # [by |-> "task", request |-> r]
    /\ At("task", r) = {}
    /\ Awaited(r, "task") = {} \/ DeadlineMayExpire
    /\ task' = [task EXCEPT ![r] = "done"]
    /\ handle' = [p \in Payloads |-> IF p \in Awaited(r, "task") THEN "abandoned"
                                      ELSE handle[p]]
    /\ UNCHANGED <<loop, requestVars, flushing, report, where, filed, queued, posts,
                   cleaner, answerVars, due>>

-----------------------------------------------------------------------------
(* The periodic cleanup: cleanup_old_batch_entries, then                   *)
(* cleanup_old_request_buffers.                                            *)

\* Mutant: a request is stale as soon as its processing task is done.
ProcessedRequests == {r \in registered : task[r] = "done"}

\* The request entries that have outlived StaleAge invocations.
StaleRequests == {r \in registered : created[r] + StaleAge <= invocations}

ToBuffers == Cleaner("buffers", {}, {}, {}, StaleRequests)

\* Entries five minutes old (any of them may be) are sent, report or not.
CleanerStart ==
    /\ Running
    /\ cleaner.phase = "spawned"
    /\ \E old \in SUBSET {r \in Requests : batch_entry(r) # {}} :
          cleaner' = IF old = {} THEN ToBuffers
                     ELSE Cleaner("batch", old, {p \in Payloads : where[p] = "batch"
                                                                  /\ filed[p] \in old},
                                  {r \in old : report[r] = "batch"}, {})
    /\ UNCHANGED <<loop, requestVars, task, flushing, report, payloadVars, queued,
                   posts, answerVars, due>>

\* The send ends: the entries are removed whether it succeeded or not.
CleanerBatchDone(o) ==
    /\ Running
    /\ cleaner.phase = "batch"
    /\ AnsweredForGood(o, cleaner.payloads)
    /\ RemoveEntries(cleaner.keys)
    /\ reportSettled' = reportSettled \cup cleaner.reports
    /\ cleaner' = ToBuffers
    /\ UNCHANGED <<loop, requestVars, task, flushing, filed, handle, queued, posts, due>>

\* The next stale request: its payloads are drained, to be sent one by one.
CleanerTake(r) ==
    /\ Running
    /\ cleaner.phase = "buffers"
    /\ r \in cleaner.stale
    /\ where' = Moved(agent_buffer(r), "cleaner")
    /\ cleaner' = [cleaner EXCEPT !.phase = "sending", !.current = r]
    /\ UNCHANGED <<loop, requestVars, task, flushing, report, filed, handle, queued,
                   posts, answerVars, due>>

CleanerSend(p, o) ==
    /\ Running
    /\ where[p] = "cleaner"
    /\ where' = Moved({p}, "gone")
    /\ AnsweredForGood(o, {p})
    /\ UNCHANGED <<loop, requestVars, task, flushing, report, filed, handle, queued,
                   posts, cleaner, reportSettled, due>>

\* Then the handles of its immediate sends are taken, to be awaited.
CleanerHandles ==
    /\ Running
    /\ cleaner.phase = "sending"
    /\ At("cleaner", cleaner.current) = {}
    /\ handle' = [p \in Payloads |-> IF p \in Awaited(cleaner.current, "entry")
                                      THEN "cleaner" ELSE handle[p]]
    /\ cleaner' = [cleaner EXCEPT !.phase = "handles"]
    /\ UNCHANGED <<loop, requestVars, task, flushing, report, where, filed, queued,
                   posts, answerVars, due>>

\* cleanup_request_processing_state: the entry goes, with what it still holds.
CleanerRemove ==
    /\ Running
    /\ cleaner.phase = "handles"
    /\ LET r == cleaner.current
       IN  /\ Awaited(r, "cleaner") = {}
           /\ registered' = registered \ {r}
           /\ where' = Moved(agent_buffer(r), "gone")
           /\ handle' = [p \in Payloads |-> IF p \in Awaited(r, "entry")
                                             THEN "abandoned" ELSE handle[p]]
           /\ report' = IF report[r] = "pending" THEN [report EXCEPT ![r] = "gone"]
                        ELSE report
           /\ reportSettled' = IF report[r] = "pending" THEN reportSettled \cup {r}
                               ELSE reportSettled
           /\ cleaner' = [cleaner EXCEPT !.phase = "buffers", !.stale = @ \ {r},
                                         !.current = NoRequest]
    /\ UNCHANGED <<loop, active, invocations, created, task, flushing, filed, queued,
                   posts, acked, dropped, due>>

CleanerDone ==
    /\ Running
    /\ cleaner.phase = "buffers"
    /\ cleaner.stale = {}
    /\ cleaner' = IdleCleaner
    /\ UNCHANGED <<loop, requestVars, task, flushing, report, payloadVars, queued,
                   posts, answerVars, due>>

-----------------------------------------------------------------------------
(* SHUTDOWN, and the emergency exit on a 403 from /next.                   *)

InCustody == {p \in Payloads : where[p] \notin {"unseen", "orphan", "gone"}}

AllFlushed == \A r \in flushing : task[r] = "done"

\* SHUTDOWN is delivered: first the deferred processing tasks are awaited.
Shutdown ==
    /\ loop = "next"
    /\ \A q \in Requests : task[q] # "spawned"
    /\ loop' = "flush"
    /\ invocations' = invocations + 1
    /\ UNCHANGED <<active, registered, created, task, flushing, report, payloadVars,
                   queued, posts, cleaner, answerVars, due>>

\* Then every immediate send whose handle a request still keeps (drain_and_await_
\* all_pending_send_handles).  From here on a shutdown must settle what it holds.
ShutdownSweep ==
    /\ loop = "flush"
    /\ AllFlushed
    /\ loop' = "sweep"
    /\ flushing' = {}
    /\ handle' = [p \in Payloads |-> IF handle[p] = "entry" /\ filed[p] \in registered
                                     THEN "sweep" ELSE handle[p]]
    /\ due' = InCustody
    /\ UNCHANGED <<requestVars, task, report, where, filed, queued, posts, cleaner,
                   answerVars>>

\* Mutant: payloads that wait for their report are not collected.
CollectedPaired == {p \in Payloads : where[p] = "batch"}

Collected == {p \in Payloads : \/ where[p] = "batch"
                               \/ where[p] = "buffer" /\ filed[p] \in registered}

\* Collect the whole batch, paired or not, and every registered request's buffer
\* with the report pending for it, if any; a report without payloads stays behind.
ShutdownCollect ==
    /\ loop = "sweep"
    /\ \A p \in Payloads : handle[p] # "sweep"
    /\ loop' = "send"
    /\ where' = Moved(Collected, "shutdown")
    /\ report' = [r \in Requests |->
                    IF \/ report[r] = "batch"
                       \/ report[r] = "pending" /\ r \in registered /\ agent_buffer(r) # {}
                    THEN "shutdown" ELSE report[r]]
    /\ UNCHANGED <<requestVars, task, flushing, filed, handle, queued, posts, cleaner,
                   answerVars, due>>

\* The next chunk is sent, once; chunks are cut by size, so any may be next.
ShutdownSend(chunk, o) ==
    /\ loop = "send"
    /\ chunk # {}
    /\ \A p \in chunk : where[p] = "shutdown"
    /\ LET reports == {r \in Requests : report[r] = "shutdown"
                                        /\ \E p \in chunk : filed[p] = r}
       IN  /\ report' = [r \in Requests |-> IF r \in reports THEN "gone" ELSE report[r]]
           /\ reportSettled' = reportSettled \cup reports
    /\ where' = Moved(chunk, "gone")
    /\ AnsweredForGood(o, chunk)
    /\ UNCHANGED <<loop, requestVars, task, flushing, filed, handle, queued, posts,
                   cleaner, due>>

ShutdownDone ==
    /\ loop = "send"
    /\ \A p \in Payloads : where[p] # "shutdown"
    /\ loop' = "exited"
    /\ UNCHANGED <<requestVars, task, flushing, report, payloadVars, queued, posts,
                   cleaner, answerVars, due>>

\* A 403 from /next: the sandbox is going; send what is paired, and leave.
Emergency ==
    /\ loop = "next"
    /\ loop' = "emergency"
    /\ UNCHANGED <<requestVars, task, flushing, report, payloadVars, queued, posts,
                   cleaner, answerVars, due>>

EmergencySend ==
    /\ loop = "emergency"
    /\ AllFlushed
    /\ flushing' = {}
    /\ loop' = "lastSend"
    /\ LET post == get_batch_with_reports_only([by |-> "loop", request |-> NoRequest],
                                               where, report)
       IN posts' = IF post.reports = {} THEN posts ELSE posts \cup {post}
    /\ UNCHANGED <<requestVars, task, report, payloadVars, queued, cleaner, answerVars, due>>

LastSendDone(post, o) ==
    /\ loop = "lastSend"
    /\ post \in posts
    /\ post.sender.by = "loop"
    /\ FinishPost(post, o)
    /\ UNCHANGED <<loop, requestVars, task, flushing, queued, cleaner, due>>

\* The logs are flushed, and the loop is left.
EmergencyDone ==
    /\ loop = "lastSend"
    /\ \A post \in posts : post.sender.by # "loop"
    /\ loop' = "killed"
    /\ due' = {}
    /\ UNCHANGED <<requestVars, task, flushing, report, payloadVars, queued, posts,
                   cleaner, answerVars>>

\* SHUTDOWN_TIMEOUT_MS is over: the loop exits and the sandbox takes the rest.
ShutdownTimeOut ==
    /\ ShutdownMayTimeOut
    /\ loop \in {"flush", "sweep", "send", "emergency", "lastSend"}
    /\ loop' = "killed"
    /\ due' = {}
    /\ UNCHANGED <<requestVars, task, flushing, report, payloadVars, queued, posts,
                   cleaner, answerVars>>

\* The process is over: all its tasks ended with the runtime.
Terminated == loop \in Ended /\ UNCHANGED vars

-----------------------------------------------------------------------------
SendSteps ==
    \E o \in Outcomes :
        \/ \E post \in posts : \/ FinishQueuedSend(post, o)
                               \/ ThresholdSendDone(post, o)
                               \/ LastSendDone(post, o)
        \/ \E p \in Payloads : FinishImmediateSend(p, o) \/ CleanerSend(p, o)
        \/ CleanerBatchDone(o)
        \/ \E chunk \in SUBSET Payloads : ShutdownSend(chunk, o)

TaskSteps ==
    \/ \E sender \in queued : StartQueuedSend(sender)
    \/ \E r \in Requests : ProcessStart(r) \/ ProcessJoin(r) \/ ProcessDone(r)

CleanerSteps ==
    \/ CleanerStart
    \/ \E r \in Requests : CleanerTake(r)
    \/ CleanerHandles
    \/ CleanerRemove
    \/ CleanerDone

LoopSteps ==
    \/ \E r \in Requests : CapReached(r)
    \/ ProcessingDone
    \/ ShutdownSweep
    \/ ShutdownCollect
    \/ ShutdownDone
    \/ EmergencySend
    \/ EmergencyDone

\* What the outside world decides: Lambda, the function's agent, the clock.
Environment ==
    \/ \E r \in Requests : Invoke(r) \/ PlatformReport(r)
    \/ \E p \in Payloads : route_payload_to_active_request(p)
    \/ Shutdown
    \/ Emergency
    \/ ShutdownTimeOut

Next == Environment \/ LoopSteps \/ TaskSteps \/ SendSteps \/ CleanerSteps \/ Terminated

Spec == Init /\ [][Next]_vars

\* Every task that can run is polled, and every request ends: the HTTP client
\* has a timeout and a bounded number of retries.  Nothing is assumed of the
\* environment: no further INVOKE, report, payload or SHUTDOWN need come.
Fairness ==
    /\ \A r \in Requests : WF_vars(ProcessStart(r)) /\ WF_vars(ProcessJoin(r))
                           /\ WF_vars(ProcessDone(r)) /\ WF_vars(CapReached(r))
    /\ \A s \in Senders :
          /\ WF_vars(StartQueuedSend(s))
          /\ WF_vars(\E post \in posts, o \in Outcomes :
                        post.sender = s /\ FinishQueuedSend(post, o))
    /\ WF_vars(\E post \in posts, o \in Outcomes :
                  ThresholdSendDone(post, o) \/ LastSendDone(post, o))
    /\ \A p \in Payloads :
          /\ WF_vars(\E o \in Outcomes : FinishImmediateSend(p, o))
          /\ WF_vars(\E o \in Outcomes : CleanerSend(p, o))
    /\ WF_vars(CleanerSteps) /\ WF_vars(\E o \in Outcomes : CleanerBatchDone(o))
    /\ WF_vars(ProcessingDone)
    /\ WF_vars(ShutdownSweep \/ ShutdownCollect \/ ShutdownDone
                \/ EmergencySend \/ EmergencyDone)
    /\ WF_vars(\E chunk \in SUBSET Payloads, o \in Outcomes : ShutdownSend(chunk, o))

FairSpec == Spec /\ Fairness

-----------------------------------------------------------------------------
(* Safety.                                                                 *)

\* A payload the code no longer holds anywhere was answered for by the endpoint,
\* or given up after a failed last attempt: none leaves a buffer unsent.
NoSilentLoss ==
    \A p \in Payloads : where[p] = "gone" => p \in acked \cup dropped

\* A report line the code no longer holds was posted, or dropped with a request
\* that had nothing to send with it: none is overwritten or removed by a send
\* that had not read it.
ReportNotLost ==
    \A r \in Requests : report[r] = "gone" => r \in reportSettled

\* Both halves of an earlier request never wait side by side: the INVOKE that
\* follows, the report's arrival or the processing task puts them together.
LatePairsDrained ==
    \A r \in registered \ {active} : ~(report[r] = "pending" /\ agent_buffer(r) # {})

\* The request a payload is routed to has an entry in REQUEST_DATA, whatever the
\* cleanup removes: the "payload lost!" branch of the router cannot be reached.
ActiveIsRegistered == active # NoRequest => active \in registered

\* While synchronous_flush is off, a report never waits in REQUEST_DATA when its
\* payloads are in the batch, where only SHUTDOWN would send them, without it.
NoSplitPair ==
    ~SynchronousFlush =>
        \A r \in Requests : ~(report[r] = "pending" /\ batch_entry(r) # {})

\* SHUTDOWN, if it comes, still comes back for the handles that requests and tasks keep.
SweepAhead == loop \in {"next", "cap", "threshold", "awaiting", "flush"}

\* An immediate send spawned before SHUTDOWN's sweep is awaited by someone until it ends, as
\* long as no deadline has expired: by its request's processing task, if the handle was
\* there when the task took them, else by the sweep, which ends with the last of them; or
\* by the cleanup, which SHUTDOWN does not wait for.  What is spawned after the sweep, or in
\* flight at a 403, which has none, is awaited by nobody and outside of this.
NoAbandonedSend ==
    ~DeadlineMayExpire =>
        \A p \in Payloads : where[p] = "immediate" /\ (SweepAhead \/ p \in due) =>
            \/ SweepAhead /\ handle[p] = "entry" /\ filed[p] \in registered
            \/ SweepAhead /\ handle[p] = "task" /\ task[filed[p]] = "joining"
            \/ loop = "sweep" /\ handle[p] = "sweep"
            \/ handle[p] = "cleaner"

-----------------------------------------------------------------------------
(* Liveness.                                                               *)

\* An INVOKE never holds the event loop for ever: it asks for the next event.  SHUTDOWN
\* and the emergency exit end, even if their timeout never fires.
EventsEnd ==
    /\ (loop \in {"cap", "threshold", "awaiting"}) ~> (loop = "next")
    /\ (loop \in {"flush", "emergency"}) ~> (loop \in Ended)

-----------------------------------------------------------------------------
(* The promise kept: PayloadCustody.                                       *)

phaseOfLoop == IF loop \in Ended THEN "closed"
               ELSE IF loop \in {"sweep", "send"} THEN "closing" ELSE "open"

\* The cleanup is spawned and forgotten (event_loop.rs 1121): the process may end
\* while it sends what it took.
WithCleaner == {p \in Payloads : where[p] = "cleaner"}

Promise == INSTANCE PayloadCustody WITH
    held <- InCustody, detached <- WithCleaner, settled <- acked \cup dropped,
    due <- due, phase <- phaseOfLoop

\* Custody of payloads is never given up but for an answer, and an orderly
\* SHUTDOWN settles what it found, save what the cleanup has taken.
Custody == Promise!Spec
=============================================================================
