------------------------------ MODULE LmiDelivery ------------------------------
(***************************************************************************)
(* Delivery on Lambda Managed Instances (event_loop_lmi.rs and what it     *)
(* shares with the pipe and the telemetry listener).  No INVOKE comes:     *)
(* several invocations run at once, a heartbeat flushes every request's    *)
(* buffer from time to time, platform.report flushes its own request's,    *)
(* and SHUTDOWN runs the same flush once more, beside a heartbeat that may *)
(* still be at work.                                                       *)
(*                                                                         *)
(* As in ApmDelivery, an action is the code between two awaits, a send     *)
(* holds the read side of the session's lock until it is answered, and a   *)
(* writer that waits for the lock holds new readers back.                  *)
(*                                                                         *)
(* Left out: logs (LogPipeline), version tags, the age limit of 24 hours,  *)
(* LMI_SHUTDOWN_TIMEOUT_MS, after which the process ends with what it has, *)
(* a stray INVOKE and errors of /next other than 403 (both change nothing) *)
(* and the error event of SHUTDOWN, which needs a LAST_REQUEST_CONTEXT     *)
(* that only an INVOKE sets.                                               *)
(***************************************************************************)
EXTENDS ApmRetry, FiniteSets

CONSTANTS
    Harvest,       \* payloads without a transaction, which embed no request id
    Unparsable,    \* payloads parse_agent_payload refuses
    Reported,      \* requests AWS sends a platform.report of
    PayloadMax,    \* MAX_FAILED_AGENT_PAYLOADS (500 in the code)
    AgentRetryMax  \* LMI_AGENT_RETRY_MAX (10 in the code)

ASSUME LmiAssumption ==
    /\ IsFiniteSet(Payloads)
    /\ Harvest \subseteq Payloads /\ Unparsable \subseteq Payloads
    /\ Reported \subseteq Requests
    /\ PayloadMax \in Nat \ {0} /\ AgentRetryMax \in Nat
    /\ Handshakes = {"background", "heartbeat", "drain"}

\* The two runs of flush_lmi_telemetry there may be at a time, and the retries of the
\* buffers: theirs, and those of the reports' handlers, named after the request.
Heartbeat == 0
Drain     == Invocations + 1
Flushers  == {Heartbeat, Drain}
RetryIds  == 0..Drain

VARIABLES
    loop,     \* where execute_lmi_mode_event_loop awaits
    beating,  \* the heartbeat task has not ended
    started,  \* requests whose platform.start has been handled
    entry,    \* requests in REQUEST_DATA
    made,     \* entries made for a request so far
    place,    \* where a payload is
    under,    \* the entry whose buffer a payload is in
    holder,   \* the task that has taken it
    failed,   \* FAILED_AGENT_PAYLOADS
    flush,    \* flush_lmi_telemetry, of the heartbeat and of SHUTDOWN
    report,   \* where the platform.report of a request is
    during,   \* history: flushes going on since before a buffered payload was filed
    lost      \* payloads and reports thrown away unsent

payloadVars == <<place, under, holder, failed>>
entryVars   == <<started, entry, made>>
vars == <<sessionVars, retryVars, loop, beating, entryVars, payloadVars, flush, report,
          during, lost>>

\* An entry is made at platform.start, or by a payload.
Slots  == [of : Requests, nth : 1..(Cardinality(Payloads) + 1)]
NoSlot == [of |-> None, nth |-> None]

Tasks  == [kind : {"pending", "retry", "report"}, of : RetryIds]
Nobody == [kind |-> "nobody", of |-> None]
Task(k, n) == [kind |-> k, of |-> n]

FailedItems == [item : Payloads, tried : 0..(AgentRetryMax + 1)]

\* A flush: the entries left to visit and the one it is at, then the failed payloads it
\* retries and those it keeps.
Stages == {"idle", "pending", "posting", "invalidate", "check", "retry", "live",
           "telemetry", "metrics"}
Idling == [stage |-> "idle", todo |-> {}, now |-> NoSlot, left |-> <<>>, kept |-> <<>>]
At(stage) == [Idling EXCEPT !.stage = stage]

TypeOK ==
    /\ SessionTypeOK /\ RetryTypeOK(RetryIds)
    /\ loop \in {"next", "drain", "join", "exited"}
    /\ beating \in BOOLEAN
    /\ started \in SUBSET Requests /\ entry \in SUBSET Requests
    /\ made \in [Requests -> 0..(Cardinality(Payloads) + 1)]
    /\ place \in [Payloads -> {"away", "orphan", "buffer", "taken", "sending", "failed", "out"}]
    /\ under \in [Payloads -> Slots \cup {NoSlot}]
    /\ holder \in [Payloads -> Tasks \cup {Nobody}]
    /\ \A p \in Payloads : (holder[p] # Nobody) <=> (place[p] \in {"taken", "sending"})
    /\ failed \in Seq(FailedItems)
    /\ flush \in [Flushers -> [stage : Stages, todo : SUBSET Slots, now : Slots \cup {NoSlot},
                               left : Seq(FailedItems), kept : Seq(FailedItems)]]
    /\ report \in [Requests -> {"none", "posting", "sending", "retrying", "pending", "gone"}]
    /\ during \in [Payloads -> SUBSET Flushers]
    /\ \A p \in Payloads : (under[p] # NoSlot) <=> (place[p] = "buffer")
    /\ lost \in SUBSET (Payloads \cup Requests)

Init ==
    /\ SessionInit /\ RetryInit
    /\ loop = "next" /\ beating = TRUE
    /\ started = {} /\ entry = {} /\ made = [r \in Requests |-> 0]
    /\ place = [p \in Payloads |-> "away"]
    /\ under = [p \in Payloads |-> NoSlot]
    /\ holder = [p \in Payloads |-> Nobody]
    /\ failed = <<>>
    /\ flush = [f \in Flushers |-> Idling]
    /\ report = [r \in Requests |-> "none"]
    /\ during = [p \in Payloads |-> {}]
    /\ lost = {}

-----------------------------------------------------------------------------
(* The lock, the buffers and the entries.                                  *)

Running == loop # "exited"

SlotOf(r) == [of |-> r, nth |-> made[r]]
buffer(s) == {p \in Payloads : place[p] = "buffer" /\ under[p] = s}
Held(t)   == {p \in Payloads : holder[p] = t}
get_pending_report(r) == r \in entry /\ report[r] = "pending"
InFlight == {f \in Flushers : flush[f].stage # "idle"}

\* Someone holds the read side of the session's lock.  The handler of a report keeps it
\* through everything it does.
Guards ==
    \/ \E p \in Payloads : place[p] = "sending"
    \/ \E r \in Requests : report[r] \in {"posting", "sending", "retrying"}
    \/ \E f \in Flushers : flush[f].stage \in {"posting", "retry"}

WriterWaits ==
    \/ \E h \in Handshakes : Connected(h)
    \/ \E f \in Flushers : flush[f].stage = "invalidate"

MayRead == ~WriterWaits

\* Mutant: a buffer is cloned, not taken.
LeaveCloned(S, taken, t) ==
    /\ place' = [p \in Payloads |-> IF p \in S THEN "out" ELSE place[p]]
    /\ holder' = [p \in Payloads |-> IF p \in taken THEN t ELSE holder[p]]
    /\ UNCHANGED <<under, during>>

\* The payloads of S leave their buffers: for good, or taken (mem::take) by the task t.
Leave(S, taken, t) ==
    /\ place' = [p \in Payloads |-> IF p \in taken THEN "taken"
                                    ELSE IF p \in S THEN "out" ELSE place[p]]
    /\ holder' = [p \in Payloads |-> IF p \in taken THEN t ELSE holder[p]]
    /\ under' = [p \in Payloads |-> IF p \in S \cup taken THEN NoSlot ELSE under[p]]
    /\ during' = [p \in Payloads |-> IF p \in S \cup taken THEN {} ELSE during[p]]

\* ensure_lmi_request_slot(r): an entry that is made takes the orphans in, and `also`,
\* what the caller files under r.
EnsureSlot(r, also) ==
    LET orphans == IF r \in entry THEN {} ELSE {p \in Payloads : place[p] = "orphan"}
        filed   == orphans \cup also
    IN  /\ entry' = entry \cup {r}
        /\ made' = IF r \in entry THEN made ELSE [made EXCEPT ![r] = @ + 1]
        /\ place' = [p \in Payloads |-> IF p \in filed THEN "buffer" ELSE place[p]]
        /\ under' = [p \in Payloads |-> IF p \in filed THEN [of |-> r, nth |-> made'[r]]
                                        ELSE under[p]]
        /\ during' = [p \in Payloads |-> IF p \in filed THEN InFlight ELSE during[p]]
        /\ UNCHANGED <<holder, failed>>

-----------------------------------------------------------------------------
(* What the pipe and the telemetry listener bring.                         *)

restOfListener == <<sessionVars, retryVars, loop, beating, flush, report, lost>>

\* A payload is filed under the request it names, at any time before or after its
\* platform.start; one that names none waits for the next entry.
route_payload_by_embedded_request_id(p) ==
    /\ Running
    /\ place[p] = "away"
    /\ IF p \in Harvest
       THEN /\ place' = [place EXCEPT ![p] = "orphan"]
            /\ UNCHANGED <<entry, made, under, holder, failed, during>>
       ELSE \E r \in Requests : EnsureSlot(r, {p})
    /\ UNCHANGED <<started, restOfListener>>

PlatformStart(r) ==
    /\ Running
    /\ r \notin started
    /\ started' = started \cup {r}
    /\ EnsureSlot(r, {})
    /\ UNCHANGED restOfListener

\* platform.report: its metrics are posted under a read guard, or, without a session, it
\* is kept in the request's entry if there is one.
PlatformReport(r) ==
    /\ Running
    /\ r \in Reported \cap started
    /\ report[r] = "none"
    /\ MayRead
    /\ report' = [report EXCEPT ![r] = IF app # None THEN "posting"
                                       ELSE IF r \in entry THEN "pending" ELSE "gone"]
    /\ lost' = IF report'[r] = "gone" THEN lost \cup {r} ELSE lost
    /\ UNCHANGED <<sessionVars, retryVars, loop, beating, entryVars, payloadVars, flush, during>>

\* Then, with the guard still held, drain_lmi_request_on_report takes the buffer of the
\* request's entry.
ReportPosted(r, answer) ==
    /\ Running
    /\ report[r] = "posting"
    /\ Metric(r, answer)
    /\ report' = [report EXCEPT ![r] = IF r \in entry THEN "sending" ELSE "gone"]
    /\ Leave({}, IF r \in entry THEN buffer(SlotOf(r)) ELSE {}, Task("report", r))
    /\ UNCHANGED <<sessionVars, telemetryVars, metricRetries, loop, beating, entryVars,
                   failed, flush, lost>>

\* Its payloads are sent: the telemetry that failed before, if any, is retried.
ReportDrained(r) ==
    /\ Running
    /\ report[r] = "sending"
    /\ Held(Task("report", r)) = {}
    /\ SpawnTelemetryRetry(r)
    /\ report' = [report EXCEPT ![r] = IF telemetry = <<>> THEN "gone" ELSE "retrying"]
    /\ UNCHANGED <<sessionVars, metricVars, delivered, dropped, loop, beating, entryVars,
                   payloadVars, flush, during, lost>>

ReportDone(r) ==
    /\ Running
    /\ report[r] = "retrying"
    /\ \A t \in telemetryRetries : t.id # r
    /\ report' = [report EXCEPT ![r] = "gone"]
    /\ UNCHANGED <<sessionVars, retryVars, loop, beating, entryVars, payloadVars, flush, during,
                   lost>>

-----------------------------------------------------------------------------
(* Sending a payload (process_agent_payload, under a read guard).          *)

\* One that cannot be sent, for lack of a session or because it does not parse, is kept
\* in FAILED_AGENT_PAYLOADS; the handler of a report only logs it.
NotSent(p) ==
    LET evicted == {e.item : e \in Evicted(failed, PayloadMax)}
    IN  /\ holder' = [holder EXCEPT ![p] = Nobody]
        /\ IF holder[p].kind = "report"
           THEN /\ place' = [place EXCEPT ![p] = "out"]
                /\ lost' = lost \cup {p}
                /\ UNCHANGED <<failed, dropped>>
           ELSE /\ failed' = PushCapped(failed, [item |-> p, tried |-> 0], PayloadMax)
                /\ place' = [q \in Payloads |-> IF q = p THEN "failed"
                                                ELSE IF q \in evicted THEN "out" ELSE place[q]]
                /\ dropped' = dropped \cup evicted
                /\ UNCHANGED lost

\* A flush sends the payloads of an entry all at once, each under a guard of its own; the
\* handler of a report sends them one by one under the guard it has.
StartSend(p) ==
    LET t == holder[p]
    IN  /\ Running
        /\ place[p] = "taken"
        /\ \/ t.kind = "pending" /\ MayRead
           \/ t.kind = "report" /\ \A q \in Held(t) : place[q] # "sending"
        /\ IF app = None \/ p \in Unparsable
           THEN NotSent(p)
           ELSE /\ place' = [place EXCEPT ![p] = "sending"]
                /\ UNCHANGED <<holder, failed, dropped, lost>>
        /\ UNCHANGED <<sessionVars, telemetryVars, metricVars, delivered, loop, beating,
                       entryVars, under, flush, report, during>>

\* The session cannot have changed since: its lock is held.
FinishSend(p, answer) ==
    /\ Running
    /\ place[p] = "sending"
    /\ answer \in Answers(app)
    /\ Telemetry(p, app, answer)
    /\ place' = [place EXCEPT ![p] = "out"]
    /\ holder' = [holder EXCEPT ![p] = Nobody]
    /\ UNCHANGED <<app, fatal, handshake, issued, valid, telemetryRetries, metricVars, loop,
                   beating, entryVars, under, failed, flush, report, during, lost>>

-----------------------------------------------------------------------------
(* flush_lmi_telemetry: process_pending_agent_payloads of every entry.     *)

\* Mutant: an entry is passed over, and removed, when only a report of its request is
\* missing.
ReportQuiet(s) == ~get_pending_report(s.of)

Quiet(s) == buffer(s) = {} /\ ~get_pending_report(s.of)

\* cleanup_request_processing_state_internal of the requests of Q: their entries go, with
\* the payloads filed in them that no flush has listed, and the reports pending in them
\* that are not being posted.
Cleanup(f, Q) ==
    LET listed == UNION {flush[g].todo : g \in Flushers \ {f}}
        gone   == {p \in Payloads : /\ place[p] = "buffer"
                                    /\ under[p].of \in Q \cap entry
                                    /\ under[p] = SlotOf(under[p].of)
                                    /\ under[p] \notin listed}
        pended == {r \in Q : get_pending_report(r)}
        posted == {flush[g].now.of : g \in {h \in Flushers : flush[h].stage = "posting"}}
    IN  /\ entry' = entry \ Q
        /\ report' = [r \in Requests |-> IF r \in pended THEN "gone" ELSE report[r]]
        /\ lost' = lost \cup gone \cup (pended \ posted)
        /\ UNCHANGED <<started, made>>

\* Clean up the request just gone through, and the next ones as long as they have nothing
\* to send; take what the first other one holds, or have the flush go on, with what
\* take_reconnect_needed returns.
Visit(f, todo, finished) ==
    \E skip \in SUBSET {s \in todo : Quiet(s)} :
        LET gone == Payloads \cap (lost' \ lost)
        IN  /\ Cleanup(f, finished \cup {s.of : s \in skip})
            /\ \/ /\ skip = todo
                  /\ Leave(gone, {}, Nobody)
                  /\ flush' = [flush EXCEPT ![f] = At(IF reconnect THEN "invalidate" ELSE "check")]
                  /\ reconnect' = FALSE
               \/ \E s \in todo \ skip :
                      /\ ~Quiet(s)
                      /\ Leave(gone, buffer(s), Task("pending", f))
                      /\ flush' = [flush EXCEPT ![f] = [At("pending") EXCEPT
                                        !.todo = todo \ (skip \cup {s}), !.now = s]]
                      /\ UNCHANGED reconnect
            /\ UNCHANGED failed

\* Mutant: requests still running are left out, as the current one is in APM mode.
OverOnly == {SlotOf(r) : r \in {q \in entry : report[q] # "none"}}

\* Every entry, those of the requests that run included.
Listed == {SlotOf(r) : r \in entry}

FlushStart(f) == Visit(f, Listed, {})

\* The payloads of the entry are sent: its report is posted under a read guard, or,
\* without a session, removed.
PendSent(f) ==
    LET r == flush[f].now.of
    IN  /\ Running
        /\ flush[f].stage = "pending"
        /\ Held(Task("pending", f)) = {}
        /\ get_pending_report(r) => MayRead
        /\ IF get_pending_report(r) /\ app # None
           THEN /\ flush' = [flush EXCEPT ![f].stage = "posting"]
                /\ UNCHANGED <<reconnect, entryVars, payloadVars, report, during, lost>>
           ELSE Visit(f, flush[f].todo, {r})
        /\ UNCHANGED <<app, fatal, handshake, issued, valid, retryVars, loop, beating>>

PendPosted(f, answer) ==
    /\ Running
    /\ flush[f].stage = "posting"
    /\ Metric(flush[f].now.of, answer)
    /\ Visit(f, flush[f].todo, {flush[f].now.of})
    /\ UNCHANGED <<app, fatal, handshake, issued, valid, telemetryVars, metricRetries, loop,
                   beating>>

-----------------------------------------------------------------------------
(* flush_lmi_telemetry: the session, and what failed before.               *)

restOfFlush == <<loop, beating, entryVars, report, lost>>

\* A session the collector has ended is dropped.
Invalidate(f) ==
    /\ Running
    /\ flush[f].stage = "invalidate"
    /\ ~Guards
    /\ app' = None
    /\ flush' = [flush EXCEPT ![f] = At("check")]
    /\ UNCHANGED <<reconnect, fatal, handshake, issued, valid, retryVars, payloadVars, during,
                   restOfFlush>>

\* Each flusher has a reconnect_in_flight of its own.
HandshakeOf(f) == IF f = Heartbeat THEN "heartbeat" ELSE "drain"

\* Telemetry is retried with the run id of the live session, if there is one; without any
\* to retry it is the metrics' turn at once.
RetryTelemetry(f) ==
    /\ SpawnTelemetryRetry(f)
    /\ IF telemetry = <<>> THEN SpawnMetricRetry(f) ELSE UNCHANGED metricVars
    /\ flush' = [flush EXCEPT ![f] = At(IF telemetry = <<>> THEN "metrics" ELSE "telemetry")]

\* Without a session a handshake is spawned.  With one, retry_lmi_failed_agent_payloads
\* takes what failed and keeps the guard.
Check(f) ==
    LET spawned == app = None /\ ~fatal /\ handshake[HandshakeOf(f)] = Idle
        retried == {failed[i].item : i \in DOMAIN failed}
    IN  /\ Running
        /\ flush[f].stage = "check"
        /\ MayRead
        /\ handshake' = IF spawned THEN [handshake EXCEPT ![HandshakeOf(f)] = Trying] ELSE handshake
        /\ IF app = None \/ failed = <<>>
           THEN /\ RetryTelemetry(f)
                /\ UNCHANGED <<payloadVars, during>>
           ELSE /\ flush' = [flush EXCEPT ![f] = [At("retry") EXCEPT !.left = failed]]
                /\ failed' = <<>>
                /\ Leave({}, retried, Task("retry", f))
                /\ UNCHANGED <<telemetryVars, metricVars>>
        /\ UNCHANGED <<app, reconnect, fatal, issued, valid, delivered, dropped, restOfFlush>>

\* The next failed payload is given up, kept for the next time, or sent.
RetryNext(f) ==
    LET next == Head(flush[f].left)
        p    == next.item
    IN  /\ Running
        /\ flush[f].stage = "retry"
        /\ flush[f].left # <<>>
        /\ \A q \in Held(Task("retry", f)) : place[q] # "sending"
        /\ \/ /\ next.tried >= AgentRetryMax
              /\ dropped' = dropped \cup {p}
              /\ place' = [place EXCEPT ![p] = "out"]
              /\ holder' = [holder EXCEPT ![p] = Nobody]
              /\ flush' = [flush EXCEPT ![f].left = Tail(@)]
           \/ /\ next.tried < AgentRetryMax
              /\ p \in Unparsable
              /\ flush' = [flush EXCEPT ![f].left = Tail(@),
                                        ![f].kept = Append(@, [next EXCEPT !.tried = @ + 1])]
              /\ UNCHANGED <<place, holder, dropped>>
           \/ /\ next.tried < AgentRetryMax
              /\ p \notin Unparsable
              /\ place' = [place EXCEPT ![p] = "sending"]
              /\ flush' = [flush EXCEPT ![f].left = Tail(@)]
              /\ UNCHANGED <<holder, dropped>>
        /\ UNCHANGED <<sessionVars, telemetryVars, metricVars, delivered, under, failed,
                       during, restOfFlush>>

\* What is kept goes back in front of what has failed meanwhile.
RetryOver(f) ==
    LET kept == {flush[f].kept[i].item : i \in DOMAIN flush[f].kept}
    IN  /\ Running
        /\ flush[f].stage = "retry"
        /\ flush[f].left = <<>>
        /\ \A q \in Held(Task("retry", f)) : place[q] # "sending"
        /\ failed' = flush[f].kept \o failed
        /\ place' = [p \in Payloads |-> IF p \in kept THEN "failed" ELSE place[p]]
        /\ holder' = [p \in Payloads |-> IF p \in kept THEN Nobody ELSE holder[p]]
        /\ flush' = [flush EXCEPT ![f] = At("live")]
        /\ UNCHANGED <<sessionVars, retryVars, under, during, restOfFlush>>

RetryLive(f) ==
    /\ Running
    /\ flush[f].stage = "live"
    /\ MayRead
    /\ RetryTelemetry(f)
    /\ UNCHANGED <<sessionVars, delivered, dropped, payloadVars, during, restOfFlush>>

TelemetryDone(f) ==
    /\ Running
    /\ flush[f].stage = "telemetry"
    /\ \A t \in telemetryRetries : t.id # f
    /\ SpawnMetricRetry(f)
    /\ flush' = [flush EXCEPT ![f] = At("metrics")]
    /\ UNCHANGED <<sessionVars, telemetryVars, delivered, dropped, payloadVars, during,
                   restOfFlush>>

\* The end of a flush, its logs included.
FlushOver(f) ==
    /\ Running
    /\ flush[f].stage = "metrics"
    /\ \A t \in metricRetries : t.id # f
    /\ flush' = [flush EXCEPT ![f] = Idling]
    /\ during' = [p \in Payloads |-> during[p] \ {f}]
    /\ loop' = IF f = Drain THEN "join" ELSE loop
    /\ UNCHANGED <<sessionVars, retryVars, payloadVars, beating, entryVars, report, lost>>

-----------------------------------------------------------------------------
(* The heartbeat, SHUTDOWN and the session.                                *)

\* The select of the heartbeat: a tick, or the cancellation; when both are ready either
\* may be chosen.
Tick ==
    /\ Running
    /\ beating
    /\ flush[Heartbeat].stage = "idle"
    /\ FlushStart(Heartbeat)
    /\ UNCHANGED <<app, fatal, handshake, issued, valid, retryVars, loop, beating>>

\* Mutant: a cancellation is not remembered for a heartbeat at work.
HeartbeatStopsMissed ==
    /\ loop = "drain"
    /\ beating
    /\ flush[Heartbeat].stage = "idle"
    /\ beating' = FALSE
    /\ UNCHANGED <<sessionVars, retryVars, loop, entryVars, payloadVars, flush, report, during,
                   lost>>

HeartbeatStops ==
    /\ loop \in {"drain", "join"}
    /\ beating
    /\ flush[Heartbeat].stage = "idle"
    /\ beating' = FALSE
    /\ UNCHANGED <<sessionVars, retryVars, loop, entryVars, payloadVars, flush, report, during,
                   lost>>

\* SHUTDOWN, or a 403 from /next: the heartbeat is cancelled, and the last flush begins
\* whatever the heartbeat is at.
Shutdown ==
    /\ loop = "next"
    /\ loop' = "drain"
    /\ FlushStart(Drain)
    /\ UNCHANGED <<app, fatal, handshake, issued, valid, retryVars, beating>>

Joined ==
    /\ loop = "join"
    /\ ~beating
    /\ loop' = "exited"
    /\ UNCHANGED <<sessionVars, retryVars, beating, entryVars, payloadVars, flush, report,
                   during, lost>>

restOfSession == <<retryVars, loop, beating, entryVars, payloadVars, flush, report, during, lost>>

HandshakeEnds(h) ==
    /\ Running
    /\ Connect(h) \/ ConnectFails(h) \/ signal_handshake_fatal(h)
    /\ UNCHANGED restOfSession

SessionInstalled(h) ==
    /\ Running
    /\ ~Guards
    /\ Install(h)
    /\ UNCHANGED restOfSession

SessionEnds == Running /\ CollectorRestart /\ UNCHANGED restOfSession

restOfRetries == <<loop, beating, entryVars, payloadVars, flush, report, during, lost>>

AnyAnswer == {"ok", "failed", "restart", "disconnect"}
Outcomes  == {"ok", "permanent", "transient"}

TelemetryRetried == \E t \in telemetryRetries, a \in AnyAnswer :
                        Running /\ TelemetryRetry(t, a) /\ UNCHANGED restOfRetries
MetricRetried    == \E t \in metricRetries, a \in Outcomes \cup {"early"} :
                        Running /\ MetricRetry(t, a) /\ UNCHANGED restOfRetries

Sends(p) == \E a \in AnyAnswer : FinishSend(p, a)
ReportStep(r) == ReportDrained(r) \/ ReportDone(r) \/ \E a \in Outcomes : ReportPosted(r, a)
FlushStep(f) ==
    \/ PendSent(f) \/ \E a \in Outcomes : PendPosted(f, a)
    \/ Invalidate(f) \/ Check(f) \/ RetryNext(f) \/ RetryOver(f)
    \/ RetryLive(f) \/ TelemetryDone(f) \/ FlushOver(f)

Terminated == loop = "exited" /\ UNCHANGED vars

Next ==
    \/ \E p \in Payloads :
            route_payload_by_embedded_request_id(p) \/ StartSend(p) \/ Sends(p)
    \/ \E r \in Requests : PlatformStart(r) \/ PlatformReport(r) \/ ReportStep(r)
    \/ \E f \in Flushers : FlushStep(f)
    \/ Tick \/ HeartbeatStops \/ Shutdown \/ Joined
    \/ TelemetryRetried \/ MetricRetried
    \/ \E h \in Handshakes : HandshakeEnds(h) \/ SessionInstalled(h)
    \/ SessionEnds
    \/ Terminated

Spec == Init /\ [][Next]_vars

\* What comes from outside, SHUTDOWN included, is not fair.  The select of the heartbeat
\* polls in random order: a cancellation cannot lose to a tick for ever.
Fairness ==
    /\ WF_vars(Tick) /\ SF_vars(HeartbeatStops) /\ WF_vars(Joined)
    /\ \A f \in Flushers : WF_vars(FlushStep(f))
    /\ WF_vars(\E p \in Payloads : StartSend(p) \/ Sends(p))
    /\ WF_vars(\E r \in Requests : ReportStep(r))
    /\ WF_vars(\E h \in Handshakes : HandshakeEnds(h) \/ SessionInstalled(h))
    /\ WF_vars(TelemetryRetried \/ MetricRetried)

FairSpec == Spec /\ Fairness

-----------------------------------------------------------------------------
(* Properties.                                                             *)

Times(x, s) == Cardinality({i \in DOMAIN s : s[i].item = x})

\* An agent payload is in one place only, however the heartbeat, the last flush and the
\* handlers of reports interleave on the buffers: once in FAILED_AGENT_PAYLOADS while it
\* waits there; once it was sent, either in the telemetry buffer, or in one retry, or
\* delivered, or given up, or lost.
OneCopy ==
    \A p \in Payloads :
        /\ Times(p, failed) = IF place[p] = "failed" THEN 1 ELSE 0
        /\ Times(p, telemetry)
             + Cardinality({t \in telemetryRetries : Times(p, t.left) > 0})
             + Cardinality({S \in {<<1, delivered>>, <<2, dropped>>, <<3, lost>>} : p \in S[2]})
           = IF place[p] = "out" THEN 1 ELSE 0

\* A payload read from the pipe while no flush is at work is not lost: entries are made
\* and removed around it, but it is sent, or kept by what could not send it.  (One filed
\* during a flush may go with the entry the flush removes, and the handler of a report
\* keeps nothing of a payload that does not parse.)
OnlyLateFilesLost ==
    [][\A p \in Payloads \cap (lost' \ lost) :
         \/ place[p] = "buffer" /\ during[p] # {}
         \/ holder[p].kind = "report" /\ p \in Unparsable]_vars

\* No invocation has to come for a payload to leave its buffer: the heartbeat sees to it,
\* as long as the process lives.
HeartbeatDrains ==
    \A p \in Payloads : place[p] = "buffer" ~> (place[p] # "buffer" \/ ~Running)

\* SHUTDOWN comes to its end, the last flush first and the heartbeat after it, whatever
\* they wait for at the session's lock, and without being killed.
ShutdownEnds == loop \in {"drain", "join"} ~> ~Running
=============================================================================
