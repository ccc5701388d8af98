------------------------------ MODULE ApmDelivery ------------------------------
(***************************************************************************)
(* Delivery of agent payloads and platform.report metrics in APM mode      *)
(* (execute_apm_mode_event_loop and what it shares with the pipe, the      *)
(* telemetry listener and the tasks it spawns).                            *)
(*                                                                         *)
(* As in ServerlessDelivery, an action is the code between two awaits.  A  *)
(* send holds the read side of the session's RwLock until it is answered,  *)
(* and a writer that waits for the lock holds new readers back.            *)
(*                                                                         *)
(* A payload is in one place: a buffer of REQUEST_DATA, a task that took   *)
(* it, FAILED_AGENT_PAYLOADS, or, once sent, the buffers of ApmRetry.  A   *)
(* request may get two entries in REQUEST_DATA, one at its platform.start  *)
(* and one at its INVOKE: a slot names the entry and its agent_buffer.     *)
(* Left out: logs (LogPipeline), disabled telemetry types, and the         *)
(* periodic cleanup, which does nothing here: GLOBAL_INVOCATION_COUNTER    *)
(* does not count in this mode, so no entry is ever old.                   *)
(***************************************************************************)
EXTENDS ApmRetry, FiniteSets

CONSTANTS
    Unparsable,         \* payloads parse_agent_payload refuses
    Reported,           \* requests AWS sends a platform.report of
    PipelineFlush,      \* NEW_RELIC_EXTENSION_PIPELINE_FLUSH
    BlockingHandshake,  \* NEW_RELIC_APM_BLOCKING_HANDSHAKE
    FlushCap,           \* deferred processing tasks kept (8 in the code)
    PayloadMax,         \* MAX_FAILED_AGENT_PAYLOADS (500 in the code)
    ShutdownMayTimeOut  \* may the budget of SHUTDOWN, or of the 403 path, end it?

ASSUME DeliveryAssumption ==
    /\ Unparsable \subseteq Payloads /\ Reported \subseteq Requests
    /\ PipelineFlush \in BOOLEAN /\ BlockingHandshake \in BOOLEAN
    /\ ShutdownMayTimeOut \in BOOLEAN
    /\ FlushCap \in Nat \ {0} /\ PayloadMax \in Nat \ {0}
    /\ Handshakes = {"background", "shutdown"}

VARIABLES
    loop,      \* where the event loop awaits
    invoked,   \* the request of the last INVOKE (LAST_REQUEST_CONTEXT), or None
    stale,     \* what take_reconnect_needed returned to the INVOKE in progress
    active,    \* CURRENT_ACTIVE_REQUEST_ID
    started,   \* the request of the last platform.start
    slot,      \* REQUEST_DATA: what made a request's entry, or "none"
    processor, \* REQUEST_PROCESSORS
    place,     \* where a payload is
    under,     \* the slot of the buffer a payload is in, or was taken from
    holder,    \* the task that has taken it
    sentWith,  \* the run id a payload in flight is sent with
    failed,    \* FAILED_AGENT_PAYLOADS
    pend,      \* process_pending_agent_payloads, per INVOKE (None: after a 403)
    req,       \* process_apm_request, per INVOKE
    report,    \* where the platform.report of a request is
    sweep,     \* requests SHUTDOWN has yet to go through
    lost       \* payloads and reports thrown away unsent

loopVars    == <<loop, invoked, stale>>
requestVars == <<active, started, slot, processor>>
payloadVars == <<place, under, holder, sentWith, failed>>
workerVars  == <<pend, req>>
vars == <<sessionVars, retryVars, loopVars, requestVars, payloadVars, workerVars,
          report, sweep, lost>>

Ended     == {"exited", "killed"}
InInvoke  == {"reconnect", "errors", "cap", "join", "handshake"}
Stopping  == {"drain", "errorSend", "lastHandshake", "lastError", "lastInstall",
              "sweep", "telemetry", "metrics", "payloads", "reports"}
Emergency == {"emergency", "emergencyPend"}

\* A retry task is named after the INVOKE that spawns it; None is SHUTDOWN's.
RetryIds == 0..Invocations

Slots  == [of : Requests, made : {"INVOKE", "start"}]
NoSlot == [of |-> None, made |-> "none"]

\* Who may hold a payload: the tasks of an INVOKE that go through the buffers of other
\* requests ("pending", "late"), send its own payloads ("flow") or retry the failed
\* ones ("retry"); SHUTDOWN itself ("sweep").
Tasks  == [kind : {"pending", "late", "flow", "retry", "sweep"}, of : RetryIds]
Nobody == [kind |-> "nobody", of |-> None]
Task(k, n) == [kind |-> k, of |-> n]

\* What pend and req do: the slots left to visit and the one they are at.
Workers == [stage : {"none", "spawned", "sending", "posting", "body", "wait", "done"},
            todo : SUBSET Slots, now : Slots \cup {NoSlot}]
Worker(stage) == [stage |-> stage, todo |-> {}, now |-> NoSlot]

TypeOK ==
    /\ SessionTypeOK /\ RetryTypeOK(RetryIds)
    /\ loop \in {"next"} \cup InInvoke \cup Stopping \cup Emergency \cup Ended
    /\ invoked \in 0..Invocations /\ started \in 0..Invocations
    /\ active \in 0..Invocations
    /\ stale \in BOOLEAN
    /\ slot \in [Requests -> {"none", "INVOKE", "start"}]
    /\ processor \in SUBSET Requests
    /\ place \in [Payloads -> {"away", "orphan", "buffer", "taken", "sending", "failed", "out"}]
    /\ under \in [Payloads -> Slots \cup {NoSlot}]
    /\ holder \in [Payloads -> Tasks \cup {Nobody}]
    /\ sentWith \in [Payloads -> 0..MaxRuns]
    /\ \A p \in Payloads : (holder[p] # Nobody) <=> (place[p] \in {"taken", "sending"})
    /\ failed \in Seq(Payloads)
    /\ pend \in [RetryIds -> Workers]
    /\ req \in [Requests -> Workers]
    /\ report \in [Requests -> {"none", "listener", "pending", "gone"}]
    /\ sweep \in SUBSET Requests
    /\ lost \in SUBSET (Payloads \cup Requests)

Init ==
    /\ SessionInit /\ RetryInit
    /\ loop = "next" /\ stale = FALSE
    /\ invoked = None /\ active = None /\ started = None
    /\ slot = [r \in Requests |-> "none"]
    /\ processor = {}
    /\ place = [p \in Payloads |-> "away"]
    /\ under = [p \in Payloads |-> NoSlot]
    /\ holder = [p \in Payloads |-> Nobody]
    /\ sentWith = [p \in Payloads |-> None]
    /\ failed = <<>>
    /\ pend = [n \in RetryIds |-> Worker("none")]
    /\ req = [r \in Requests |-> Worker("none")]
    /\ report = [r \in Requests |-> "none"]
    /\ sweep = {} /\ lost = {}

-----------------------------------------------------------------------------
(* The lock, the buffers and the entries.                                  *)

Running == loop \notin Ended

registered == {r \in Requests : slot[r] # "none"}
SlotOf(r)  == [of |-> r, made |-> slot[r]]
buffer(s)  == {p \in Payloads : place[p] = "buffer" /\ under[p] = s}
Held(t)    == {p \in Payloads : holder[p] = t}
get_pending_report(r) == slot[r] # "none" /\ report[r] = "pending"

\* Mutant: a guard that is read through (`if let Some(_) = *app.read().await`) lives
\* on to the write that follows it.
GuardsKept ==
    \/ \E p \in Payloads : place[p] = "sending"
    \/ \E r \in Requests : report[r] = "listener" \/ req[r].stage = "posting"
    \/ \E n \in RetryIds : pend[n].stage = "posting"
    \/ loop \in {"errorSend", "reports", "lastInstall"}
    \/ loop = "reconnect" /\ stale /\ app # None

\* Mutant: the session is cloned and the guard dropped before the send.
GuardsDropped ==
    \/ \E r \in Requests : report[r] = "listener" \/ req[r].stage = "posting"
    \/ \E n \in RetryIds : pend[n].stage = "posting"
    \/ loop \in {"errorSend", "reports"}

\* Someone holds the read side of the session's lock.
Guards ==
    \/ \E p \in Payloads : place[p] = "sending"
    \/ \E r \in Requests : report[r] = "listener" \/ req[r].stage = "posting"
    \/ \E n \in RetryIds : pend[n].stage = "posting"
    \/ loop \in {"errorSend", "reports"}

\* Someone waits for the write side.
WriterWaits ==
    \/ loop = "reconnect" /\ stale /\ app # None
    \/ Connected("background")
    \/ loop = "lastInstall"

MayRead == ~WriterWaits

Finished(r) == pend[r].stage \in {"none", "done"} /\ req[r].stage \in {"none", "done"}
Unfinished  == {r \in Requests : ~Finished(r)}

\* The next event comes once the tasks just spawned have been polled.
Polled == \A r \in Requests : pend[r].stage # "spawned" /\ req[r].stage # "spawned"

\* Mutant: the buffer is cloned, not taken.
TookClone(S, t) ==
    /\ UNCHANGED place
    /\ holder' = [p \in Payloads |-> IF p \in S THEN t ELSE holder[p]]

\* mem::take of a buffer by a task.
Took(S, t) ==
    /\ place' = [p \in Payloads |-> IF p \in S THEN "taken" ELSE place[p]]
    /\ holder' = [p \in Payloads |-> IF p \in S THEN t ELSE holder[p]]

\* The report of r is being posted by one of the tasks that go through the entries.
Posting(r) ==
    \/ req[r].stage = "posting"
    \/ \E n \in RetryIds : pend[n].stage = "posting" /\ pend[n].now.of = r

\* cleanup_request_processing_state_internal(.., false) of the requests of Q: their
\* entries go (and their REQUEST_PROCESSORS state, see the callers), with the reports
\* pending in them.  One that is not being posted is lost.
Cleanup(Q) ==
    /\ slot' = [r \in Requests |-> IF r \in Q THEN "none" ELSE slot[r]]
    /\ report' = [r \in Requests |-> IF r \in Q /\ get_pending_report(r) THEN "gone" ELSE report[r]]
    /\ lost' = lost \cup {r \in Q : get_pending_report(r) /\ ~Posting(r)}
    /\ UNCHANGED <<active, started>>

-----------------------------------------------------------------------------
(* What the pipe and the telemetry listener bring.                         *)

\* A new entry drains ORPHANED_PAYLOADS into its buffer.
DrainOrphans(s) ==
    LET orphans == {p \in Payloads : place[p] = "orphan"}
    IN  /\ place' = [p \in Payloads |-> IF p \in orphans THEN "buffer" ELSE place[p]]
        /\ under' = [p \in Payloads |-> IF p \in orphans THEN s ELSE under[p]]
        /\ UNCHANGED <<holder, sentWith, failed>>

\* A payload is read from the pipe, once a function has run.  An active request means
\* that an entry was made: no payload is routed to "any" entry.
route_payload_to_active_request(p) ==
    /\ Running
    /\ place[p] = "away"
    /\ IF active = None
       THEN place' = [place EXCEPT ![p] = "orphan"] /\ UNCHANGED <<under, lost>>
       ELSE IF active \in registered
       THEN /\ place' = [place EXCEPT ![p] = "buffer"]
            /\ under' = [under EXCEPT ![p] = SlotOf(active)]
            /\ UNCHANGED lost
       ELSE /\ place' = [place EXCEPT ![p] = "out"]
            /\ lost' = lost \cup {p}
            /\ UNCHANGED under
    /\ UNCHANGED <<sessionVars, retryVars, loopVars, requestVars, holder, sentWith, failed,
                   workerVars, report, sweep>>

\* platform.start of the next request makes it the active one, and makes an entry if
\* there is none.  It may come before the INVOKE, once the previous one is over.
PlatformStart ==
    /\ Running
    /\ started < invoked \/ (started = invoked /\ started < Invocations /\ loop = "next" /\ Polled)
    /\ started' = started + 1
    /\ active' = started'
    /\ IF started' \in registered
       THEN UNCHANGED <<slot, payloadVars>>
       ELSE /\ slot' = [slot EXCEPT ![started'] = "start"]
            /\ DrainOrphans([of |-> started', made |-> "start"])
    /\ UNCHANGED <<sessionVars, retryVars, loopVars, processor, workerVars, report, sweep, lost>>

\* platform.report, after the event loop is through with the request: posted, or kept
\* in the request's entry while there is no session.
PlatformReport(r) ==
    /\ Running
    /\ r \in Reported /\ report[r] = "none"
    /\ r < invoked \/ (r = invoked /\ loop \notin InInvoke)
    /\ MayRead
    /\ report' = [report EXCEPT ![r] = IF app # None THEN "listener"
                                       ELSE IF r \in registered THEN "pending" ELSE "gone"]
    /\ lost' = IF report'[r] = "gone" THEN lost \cup {r} ELSE lost
    /\ UNCHANGED <<sessionVars, retryVars, loopVars, requestVars, payloadVars, workerVars, sweep>>

PlatformReportPosted(r, answer) ==
    /\ Running
    /\ report[r] = "listener"
    /\ Metric(r, answer)
    /\ report' = [report EXCEPT ![r] = "gone"]
    /\ UNCHANGED <<sessionVars, telemetryVars, metricRetries, loopVars, requestVars,
                   payloadVars, workerVars, sweep, lost>>

-----------------------------------------------------------------------------
(* Sending a payload (process_agent_payload, under the read guard).        *)

\* The payload of a task that is sent next: all of the slot a visiting task is at, one
\* by one in the tasks that send in sequence.
Next2Send(p) ==
    LET t == holder[p]
    IN  /\ place[p] = "taken"
        /\ t.kind = "late" => under[p] = req[t.of].now
        /\ t.kind \in {"flow", "retry", "sweep"} => \A q \in Held(t) : place[q] # "sending"

\* Mutant: Flow 1 sends as the late path does.
KeepsNothingOfFlow1(t) == t.kind \in {"late", "flow"}

\* send_to_apm_collector, unlike send_agent_payload_or_buffer and
\* process_and_send_agent_payload, keeps no copy of what it could not send.
KeepsNothing(t) == t.kind = "late"

\* There is no session, or nothing to send in the payload.
NotSent(p) ==
    /\ holder' = [holder EXCEPT ![p] = Nobody]
    /\ IF KeepsNothing(holder[p])
       THEN /\ place' = [place EXCEPT ![p] = "out"]
            /\ lost' = lost \cup {p}
            /\ UNCHANGED <<failed, dropped>>
       ELSE LET evicted == Evicted(failed, PayloadMax)
            IN  /\ failed' = PushCapped(failed, p, PayloadMax)
                /\ place' = [q \in Payloads |-> IF q = p THEN "failed"
                                                ELSE IF q \in evicted THEN "out" ELSE place[q]]
                /\ dropped' = dropped \cup evicted
                /\ UNCHANGED lost
    /\ UNCHANGED sentWith

StartSend(p) ==
    /\ Running
    /\ Next2Send(p)
    /\ MayRead
    /\ IF app = None \/ p \in Unparsable
       THEN NotSent(p)
       ELSE /\ place' = [place EXCEPT ![p] = "sending"]
            /\ sentWith' = [sentWith EXCEPT ![p] = app]
            /\ UNCHANGED <<holder, failed, dropped, lost>>
    /\ UNCHANGED <<sessionVars, telemetryVars, metricVars, delivered, loopVars, requestVars,
                   under, workerVars, report, sweep>>

FinishSend(p, answer) ==
    /\ Running
    /\ place[p] = "sending"
    /\ answer \in Answers(sentWith[p])
    /\ Telemetry(p, sentWith[p], answer)
    /\ place' = [place EXCEPT ![p] = "out"]
    /\ holder' = [holder EXCEPT ![p] = Nobody]
    /\ sentWith' = [sentWith EXCEPT ![p] = None]
    /\ UNCHANGED <<app, fatal, handshake, issued, valid, telemetryRetries, metricVars,
                   loopVars, requestVars, under, failed, workerVars, report, sweep, lost>>

-----------------------------------------------------------------------------
(* process_pending_agent_payloads: the entries of the other requests.      *)

Quiet(s) == buffer(s) = {} /\ ~get_pending_report(s.of)

\* Clean up the request just gone through, and the next ones as long as there is
\* nothing to send; take what the first other one holds.
Visit(n, todo, finished) ==
    \E skip \in SUBSET {s \in todo : Quiet(s)} :
        /\ Cleanup(finished \cup {s.of : s \in skip})
        /\ processor' = processor \ (finished \cup {s.of : s \in skip})
        /\ \/ /\ skip = todo
              /\ pend' = [pend EXCEPT ![n] = Worker("done")]
              /\ UNCHANGED <<place, holder>>
           \/ \E s \in todo :
                /\ ~Quiet(s)
                /\ Took(buffer(s), Task("pending", n))
                /\ pend' = [pend EXCEPT ![n] = [stage |-> "sending",
                                                todo |-> todo \ (skip \cup {s}), now |-> s]]
        /\ UNCHANGED <<under, sentWith, failed>>

\* Mutant: the INVOKE's own request is not left out.
AllSlots(n) == {SlotOf(r) : r \in registered}

OtherSlots(n) == {SlotOf(r) : r \in registered \ {n}}

PendStart(n) ==
    /\ Running
    /\ pend[n].stage = "spawned"
    /\ Visit(n, OtherSlots(n), {})
    /\ UNCHANGED <<sessionVars, retryVars, loopVars, req, sweep>>

\* The payloads of the entry are sent: its report is posted under a read guard, or,
\* without a session, removed.
PendSent(n) ==
    /\ Running
    /\ pend[n].stage = "sending"
    /\ Held(Task("pending", n)) = {}
    /\ get_pending_report(pend[n].now.of) => MayRead
    /\ IF get_pending_report(pend[n].now.of) /\ app # None
       THEN /\ pend' = [pend EXCEPT ![n].stage = "posting"]
            /\ UNCHANGED <<requestVars, payloadVars, report, lost>>
       ELSE Visit(n, pend[n].todo, {pend[n].now.of})
    /\ UNCHANGED <<sessionVars, retryVars, loopVars, req, sweep>>

PendPosted(n, answer) ==
    /\ Running
    /\ pend[n].stage = "posting"
    /\ Metric(pend[n].now.of, answer)
    /\ Visit(n, pend[n].todo, {pend[n].now.of})
    /\ UNCHANGED <<sessionVars, telemetryVars, metricRetries, loopVars, req, sweep>>

-----------------------------------------------------------------------------
(* process_apm_request.                                                    *)

\* The request's own part begins with its state in REQUEST_PROCESSORS, if it is there.
ToBody(r) == req' = [req EXCEPT ![r] = Worker(IF r \in processor THEN "body" ELSE "done")]

\* On a warm start, every other buffer that is not empty is taken, all at once.
ReqStart(r) ==
    LET late == IF r = 1 THEN {} ELSE {s \in OtherSlots(r) : buffer(s) # {}}
    IN  /\ Running
        /\ req[r].stage = "spawned" /\ pend[r].stage # "spawned"
        /\ Took(UNION {buffer(s) : s \in late}, Task("late", r))
        /\ \/ late = {} /\ ToBody(r) /\ processor' = processor \ {r}
           \/ /\ \E s \in late : req' = [req EXCEPT ![r] = [stage |-> "sending",
                                                            todo |-> late \ {s}, now |-> s]]
              /\ UNCHANGED processor
        /\ UNCHANGED <<sessionVars, retryVars, loopVars, active, started, slot, under, sentWith,
                       failed, pend, report, sweep, lost>>

\* The late payloads of one request are sent.
LateSent(r) ==
    LET now == req[r].now
    IN  /\ Running
        /\ req[r].stage = "sending"
        /\ \A p \in Held(Task("late", r)) : under[p] # now
        /\ Cleanup({now.of})
        /\ \/ /\ req[r].todo = {}
              /\ ToBody(r)
              /\ processor' = processor \ {now.of, r}
           \/ /\ \E s \in req[r].todo : req' = [req EXCEPT ![r].todo = @ \ {s}, ![r].now = s]
              /\ processor' = processor \ {now.of}
        /\ UNCHANGED <<sessionVars, retryVars, loopVars, payloadVars, pend, sweep>>

\* Its own payloads: sent by a task of their own, or put back until there is a session.
OwnPayloads(r) ==
    LET own == buffer([of |-> r, made |-> "INVOKE"])
    IN  IF app # None
        THEN Took(own, Task("flow", r)) /\ UNCHANGED <<under, sentWith, failed>>
        ELSE /\ place' = [p \in Payloads |-> IF p \in own /\ r \notin registered
                                             THEN "out" ELSE place[p]]
             /\ under' = [p \in Payloads |-> IF p \in own /\ r \in registered
                                             THEN SlotOf(r) ELSE under[p]]
             /\ UNCHANGED <<holder, sentWith, failed>>

\* Then its report, if it is pending.
ReqBody(r) ==
    LET pending == get_pending_report(r)
        thrown  == buffer([of |-> r, made |-> "INVOKE"])
    IN  /\ Running
        /\ req[r].stage = "body"
        /\ MayRead
        /\ OwnPayloads(r)
        /\ req' = [req EXCEPT ![r] = Worker(IF pending /\ app # None THEN "posting" ELSE "wait")]
        /\ report' = IF pending /\ app = None THEN [report EXCEPT ![r] = "gone"] ELSE report
        /\ lost' = lost \cup (IF pending /\ app = None THEN {r} ELSE {})
                        \cup (IF app = None /\ r \notin registered THEN thrown ELSE {})
        /\ UNCHANGED <<sessionVars, retryVars, loopVars, requestVars, pend, sweep>>

ReqPosted(r, answer) ==
    /\ Running
    /\ req[r].stage = "posting"
    /\ Metric(r, answer)
    /\ req' = [req EXCEPT ![r] = Worker("wait")]
    /\ report' = IF get_pending_report(r) THEN [report EXCEPT ![r] = "gone"] ELSE report
    /\ UNCHANGED <<sessionVars, telemetryVars, metricRetries, loopVars, requestVars,
                   payloadVars, pend, sweep, lost>>

\* runtimeDone, or the deadline; the logs are flushed.  The entry stays.
ReqDone(r) ==
    /\ Running
    /\ req[r].stage = "wait"
    /\ req' = [req EXCEPT ![r] = Worker("done")]
    /\ processor' = processor \ {r}
    /\ UNCHANGED <<sessionVars, retryVars, loopVars, active, started, slot, payloadVars, pend,
                   report, sweep, lost>>

-----------------------------------------------------------------------------
(* INVOKE.                                                                 *)

Invoke ==
    /\ loop = "next" /\ Polled
    /\ invoked < Invocations
    /\ invoked' = invoked + 1
    /\ stale' = reconnect
    /\ reconnect' = FALSE
    /\ loop' = "reconnect"
    /\ UNCHANGED <<app, fatal, handshake, issued, valid, retryVars, requestVars, payloadVars,
                   workerVars, report, sweep, lost>>

\* The session is dropped if it was reported as ended; a session still there retries
\* the telemetry, none starts a handshake.
InvokeReconnect ==
    /\ loop = "reconnect"
    /\ IF stale /\ app # None
       THEN /\ ~Guards
            /\ app' = None
            /\ UNCHANGED <<telemetry, telemetryRetries>>
       ELSE /\ MayRead
            /\ UNCHANGED app
            /\ IF app # None THEN SpawnTelemetryRetry(invoked)
                             ELSE UNCHANGED <<telemetry, telemetryRetries>>
    /\ SpawnMetricRetry(invoked)
    /\ handshake' = IF app' = None /\ ~fatal /\ ~reconnect_in_flight
                    THEN [handshake EXCEPT !["background"] = Trying] ELSE handshake
    /\ stale' = FALSE
    /\ loop' = "errors"
    /\ UNCHANGED <<reconnect, fatal, issued, valid, delivered, dropped, invoked, requestVars,
                   payloadVars, workerVars, report, sweep, lost>>

\* retry_failed_agent_payloads takes what failed; the request's entry and state are
\* made, over what platform.start may have made.
InvokeCreate ==
    LET retried == {failed[i] : i \in DOMAIN failed}
        orphans == {p \in Payloads : place[p] = "orphan"}
    IN  /\ loop = "errors"
        /\ active' = invoked
        /\ failed' = <<>>
        /\ place' = [p \in Payloads |-> IF p \in retried THEN "taken"
                                        ELSE IF p \in orphans THEN "buffer" ELSE place[p]]
        /\ holder' = [p \in Payloads |-> IF p \in retried THEN Task("retry", invoked)
                                         ELSE holder[p]]
        /\ under' = [p \in Payloads |-> IF p \in orphans THEN [of |-> invoked, made |-> "INVOKE"]
                                        ELSE under[p]]
        /\ slot' = [slot EXCEPT ![invoked] = "INVOKE"]
        /\ loop' = "cap"
        /\ UNCHANGED <<sessionVars, retryVars, invoked, stale, started, processor, sentWith,
                       workerVars, report, sweep, lost>>

\* With pipeline_flush, FlushCap deferred tasks are waited out, oldest first.
InvokeProcess ==
    /\ loop = "cap"
    /\ PipelineFlush => Cardinality(Unfinished) < FlushCap
    /\ processor' = processor \cup {invoked}
    /\ pend' = [pend EXCEPT ![invoked] = Worker("spawned")]
    /\ req' = [req EXCEPT ![invoked] = Worker("spawned")]
    /\ loop' = IF ~PipelineFlush THEN "join"
               ELSE IF BlockingHandshake /\ reconnect_in_flight THEN "handshake" ELSE "next"
    /\ UNCHANGED <<sessionVars, retryVars, invoked, stale, active, started, slot, payloadVars,
                   report, sweep, lost>>

Joined ==
    /\ loop = "join"
    /\ Finished(invoked)
    /\ loop' = IF BlockingHandshake /\ reconnect_in_flight THEN "handshake" ELSE "next"
    /\ UNCHANGED <<sessionVars, retryVars, invoked, stale, requestVars, payloadVars, workerVars,
                   report, sweep, lost>>

\* wait_for_apm_handshake_within_budget: the handshake has ended, or the budget has.
HandshakeWaited ==
    /\ loop = "handshake"
    /\ loop' = "next"
    /\ UNCHANGED <<sessionVars, retryVars, invoked, stale, requestVars, payloadVars, workerVars,
                   report, sweep, lost>>

-----------------------------------------------------------------------------
(* SHUTDOWN, and a 403 from /next.                                         *)

Unmoved == <<invoked, stale, workerVars>>

Shutdown ==
    /\ loop = "next" /\ Polled
    /\ loop' = "drain"
    /\ UNCHANGED <<sessionVars, retryVars, requestVars, payloadVars, Unmoved, report, sweep, lost>>

\* On to the buffers of every request registered at that time.
ToSweep ==
    /\ loop' = "sweep"
    /\ sweep' = registered

\* The deferred tasks are over.  The error event of the last request goes out (none for a
\* spindown); without a session a last handshake is tried first.
ShutdownDrained ==
    /\ loop = "drain"
    /\ Unfinished = {}
    /\ MayRead
    /\ \/ /\ invoked = None \/ app # None \/ fatal
          /\ ToSweep
          /\ UNCHANGED handshake
       \/ /\ invoked # None /\ app # None
          /\ loop' = "errorSend"
          /\ UNCHANGED <<handshake, sweep>>
       \/ /\ invoked # None /\ app = None /\ ~fatal
          /\ handshake' = [handshake EXCEPT !["shutdown"] = Trying]
          /\ loop' = "lastHandshake"
          /\ UNCHANGED sweep
    /\ UNCHANGED <<app, reconnect, fatal, issued, valid, telemetryVars, metricVars, delivered,
                   dropped, requestVars, payloadVars, Unmoved, report, lost>>

\* The error event is answered, with the session's guard held or, after the last
\* handshake, before the session is shared.
ErrorSent(answer) ==
    LET run == IF loop = "errorSend" THEN app ELSE handshake["shutdown"].run
    IN  /\ loop \in {"errorSend", "lastError"}
        /\ answer \in Answers(run)
        /\ Telemetry(ErrorEvent, run, answer)
        /\ IF loop = "errorSend" THEN ToSweep ELSE loop' = "lastInstall" /\ UNCHANGED sweep
        /\ UNCHANGED <<app, fatal, handshake, issued, valid, telemetryRetries, metricVars,
                       requestVars, payloadVars, Unmoved, report, lost>>

LastHandshakeOver ==
    /\ loop = "lastHandshake"
    /\ \/ handshake["shutdown"] = Idle /\ ToSweep
       \/ /\ Connected("shutdown")
          /\ loop' \in {"lastError", "lastInstall"}
          /\ UNCHANGED sweep
    /\ UNCHANGED <<sessionVars, telemetryVars, metricVars, delivered, dropped, requestVars,
                   payloadVars, Unmoved, report, lost>>

LastInstall ==
    /\ loop = "lastInstall"
    /\ ~Guards
    /\ Install("shutdown")
    /\ ToSweep
    /\ UNCHANGED <<retryVars, requestVars, payloadVars, Unmoved, report, lost>>

\* The buffer of the next request is taken and sent.
SweepTake(r) ==
    /\ loop = "sweep" /\ Held(Task("sweep", None)) = {}
    /\ r \in sweep
    /\ sweep' = sweep \ {r}
    /\ Took(IF r \in registered THEN buffer(SlotOf(r)) ELSE {}, Task("sweep", None))
    /\ UNCHANGED <<sessionVars, retryVars, requestVars, under, sentWith, failed, loop, Unmoved,
                   report, lost>>

\* Then telemetry, metrics and failed payloads get a last try each.
SweepDone ==
    /\ loop = "sweep" /\ Held(Task("sweep", None)) = {}
    /\ sweep = {}
    /\ MayRead
    /\ SpawnTelemetryRetry(None)
    /\ loop' = "telemetry"
    /\ UNCHANGED <<sessionVars, metricVars, delivered, dropped, requestVars,
                   payloadVars, Unmoved, report, sweep, lost>>

LastTelemetryDone ==
    /\ loop = "telemetry"
    /\ \A t \in telemetryRetries : t.id # None
    /\ SpawnMetricRetry(None)
    /\ loop' = "metrics"
    /\ UNCHANGED <<sessionVars, telemetryVars, delivered, dropped,
                   requestVars, payloadVars, Unmoved, report, sweep, lost>>

LastMetricsDone ==
    /\ loop = "metrics"
    /\ \A t \in metricRetries : t.id # None
    /\ Took({failed[i] : i \in DOMAIN failed}, Task("retry", None))
    /\ failed' = <<>>
    /\ loop' = "payloads"
    /\ UNCHANGED <<sessionVars, retryVars, requestVars, under, sentWith, Unmoved, report, sweep,
                   lost>>

\* The reports still pending are posted, if there is a session.
LastPayloadsDone ==
    LET pending == {r \in Requests : get_pending_report(r)}
    IN  /\ loop = "payloads"
        /\ Held(Task("retry", None)) = {}
        /\ pending # {} => MayRead
        /\ IF pending # {} /\ app # None THEN loop' = "reports" /\ sweep' = pending
                                         ELSE loop' = "exited" /\ UNCHANGED sweep
        /\ UNCHANGED <<sessionVars, retryVars, requestVars, payloadVars, Unmoved, report, lost>>

LastReportPosted(r, answer) ==
    /\ loop = "reports"
    /\ r \in sweep
    /\ Metric(r, answer)
    /\ report' = [report EXCEPT ![r] = "gone"]
    /\ sweep' = sweep \ {r}
    /\ loop' = IF sweep' = {} THEN "exited" ELSE "reports"
    /\ UNCHANGED <<sessionVars, telemetryVars, metricRetries, requestVars, payloadVars,
                   Unmoved, lost>>

\* The budget of SHUTDOWN, or of the 403 path, runs out.
ShutdownTimeOut ==
    /\ ShutdownMayTimeOut
    /\ loop \in Stopping \cup Emergency
    /\ loop' = "killed"
    /\ UNCHANGED <<sessionVars, retryVars, requestVars, payloadVars, Unmoved, report, sweep, lost>>

\* A 403: the deferred tasks are waited for, then every entry is gone through.
FatalNext ==
    /\ loop = "next" /\ Polled
    /\ loop' = "emergency"
    /\ UNCHANGED <<sessionVars, retryVars, requestVars, payloadVars, Unmoved, report, sweep, lost>>

EmergencyPending ==
    /\ loop = "emergency"
    /\ Unfinished = {}
    /\ pend' = [pend EXCEPT ![None] = Worker("spawned")]
    /\ loop' = "emergencyPend"
    /\ UNCHANGED <<sessionVars, retryVars, requestVars, payloadVars, invoked, stale, req, report,
                   sweep, lost>>

EmergencyDone ==
    /\ loop = "emergencyPend"
    /\ pend[None].stage = "done"
    /\ loop' = "killed"
    /\ UNCHANGED <<sessionVars, retryVars, requestVars, payloadVars, Unmoved, report, sweep, lost>>

-----------------------------------------------------------------------------
(* The session and the retries, with the rest unchanged.                   *)

restVars == <<loopVars, requestVars, payloadVars, workerVars, report, sweep, lost>>

HandshakeEnds(h) ==
    /\ Running
    /\ Connect(h) \/ ConnectFails(h) \/ signal_handshake_fatal(h)
    /\ UNCHANGED <<retryVars, restVars>>

BackgroundInstall ==
    /\ Running
    /\ ~Guards
    /\ Install("background")
    /\ UNCHANGED <<retryVars, restVars>>

SessionEnds == Running /\ CollectorRestart /\ UNCHANGED <<retryVars, restVars>>

Outcomes == {"ok", "permanent", "transient"}

TelemetryRetried == \E t \in telemetryRetries, a \in {"ok", "failed", "restart", "disconnect"} :
                        Running /\ TelemetryRetry(t, a) /\ UNCHANGED restVars
MetricRetried    == \E t \in metricRetries, a \in Outcomes \cup {"early"} :
                        Running /\ MetricRetry(t, a) /\ UNCHANGED restVars

Sends(p)  == \E a \in {"ok", "failed", "restart", "disconnect"} : FinishSend(p, a)
Posts(r)  == \E a \in Outcomes : PlatformReportPosted(r, a)
PendStep(n) == PendStart(n) \/ PendSent(n) \/ \E a \in Outcomes : PendPosted(n, a)
ReqStep(r)  == ReqStart(r) \/ LateSent(r) \/ ReqBody(r) \/ ReqDone(r)
                  \/ \E a \in Outcomes : ReqPosted(r, a)
InvokeStep  == InvokeReconnect \/ InvokeCreate \/ InvokeProcess \/ Joined \/ HandshakeWaited
ShutdownStep ==
    \/ ShutdownDrained \/ LastHandshakeOver \/ LastInstall
    \/ \E a \in {"ok", "failed", "restart", "disconnect"} : ErrorSent(a)
    \/ \E r \in Requests : SweepTake(r)
    \/ SweepDone \/ LastTelemetryDone \/ LastMetricsDone \/ LastPayloadsDone
    \/ \E r \in Requests, a \in Outcomes : LastReportPosted(r, a)
    \/ EmergencyPending \/ EmergencyDone

Terminated == loop \in Ended /\ UNCHANGED vars

Next ==
    \/ Invoke \/ InvokeStep
    \/ \E p \in Payloads : route_payload_to_active_request(p) \/ StartSend(p) \/ Sends(p)
    \/ PlatformStart
    \/ \E r \in Requests : PlatformReport(r) \/ Posts(r) \/ ReqStep(r)
    \/ \E n \in RetryIds : PendStep(n)
    \/ TelemetryRetried \/ MetricRetried
    \/ \E h \in Handshakes : HandshakeEnds(h)
    \/ BackgroundInstall \/ SessionEnds
    \/ Shutdown \/ ShutdownStep \/ ShutdownTimeOut \/ FatalNext
    \/ Terminated

Spec == Init /\ [][Next]_vars

Fairness ==
    /\ WF_vars(InvokeStep) /\ WF_vars(ShutdownStep)
    /\ WF_vars(BackgroundInstall)
    /\ \A h \in Handshakes : WF_vars(HandshakeEnds(h))
    /\ \A p \in Payloads : WF_vars(StartSend(p)) /\ WF_vars(Sends(p))
    /\ \A r \in Requests : WF_vars(Posts(r)) /\ WF_vars(ReqStep(r))
    /\ \A n \in RetryIds : WF_vars(PendStep(n))
    /\ WF_vars(TelemetryRetried) /\ WF_vars(MetricRetried)

FairSpec == Spec /\ Fairness

-----------------------------------------------------------------------------
(* Properties.                                                             *)

Times(x, s) == Cardinality({i \in DOMAIN s : s[i] = x})
ItemsOf(s)   == [i \in DOMAIN s |-> s[i].item]

\* An agent payload is in one place only, whatever takes, retries and re-buffers
\* interleave: once in FAILED_AGENT_PAYLOADS while it waits there; once it was sent,
\* either in the telemetry buffer, or in one retry, or delivered, or given up.
OneCopy ==
    \A p \in Payloads :
        /\ Times(p, failed) = IF place[p] = "failed" THEN 1 ELSE 0
        /\ Times(p, ItemsOf(telemetry))
             + Cardinality({t \in telemetryRetries : Times(p, ItemsOf(t.left)) > 0})
             + Cardinality({S \in {<<1, delivered>>, <<2, dropped>>, <<3, lost>>} : p \in S[2]})
           = IF place[p] = "out" THEN 1 ELSE 0

\* "Never silently dropped": a task that took a payload out of a buffer sends it or puts
\* it in FAILED_AGENT_PAYLOADS, with a session, without one, or when the session changes
\* under way.  The tasks of the late path are the exception (send_to_apm_collector).
TakenIsKept ==
    [][\A p \in Payloads :
         holder[p].kind \in {"pending", "flow", "retry", "sweep"} => p \notin lost']_vars

\* The request of the last INVOKE keeps its entry until the next one: neither the tasks
\* of its own INVOKE nor those of earlier ones clean it up, so its payloads have a buffer.
CurrentKeepsEntry ==
    loop \in {"cap", "join", "handshake", "next"} /\ invoked # None => invoked \in registered

\* While a send of a payload is in flight the session it uses stays the shared one:
\* neither INVOKE's invalidation nor a handshake changes it under the read guard.
SendUsesCurrentSession == \A p \in Payloads : place[p] = "sending" => sentWith[p] = app

\* Every INVOKE gives the event loop back, whatever holds or waits for the session's lock,
\* and SHUTDOWN and the path of a 403 come to their end without the help of a timeout.
EventsEnd ==
    /\ loop \in InInvoke ~> loop \notin InInvoke
    /\ loop \in Stopping \cup Emergency ~> loop \in Ended
=============================================================================
