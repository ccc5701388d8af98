------------------------------- MODULE ApmRetry -------------------------------
(***************************************************************************)
(* The retry buffers of APM mode: FAILED_TELEMETRY_BUFFER of               *)
(* apm/telemetry_buffer.rs and FAILED_METRIC_API_BUFFER of                 *)
(* apm/metric_api_buffer.rs.  A retry takes the whole buffer, sends its    *)
(* items one by one, and pushes back what failed, while new failures and   *)
(* other retries use the buffer.                                           *)
(*                                                                         *)
(* An agent payload is one item of telemetry (one type), a platform.report *)
(* one batch of metrics.  Left out: items dropped for their age (one hour, *)
(* more than a sandbox lives).                                             *)
(***************************************************************************)
EXTENDS ApmSession, Sequences

CONSTANTS
    Payloads,      \* agent payloads
    ErrorEvent,    \* the error event synthesized at SHUTDOWN
    Invocations,   \* bound: invocations of the sandbox
    TelemetryMax,  \* MAX_BUFFERED_ITEMS (500 in the code)
    MetricMax,     \* MAX_BUFFERED_BATCHES (1000 in the code)
    MaxRetries     \* retries of an item (10 in the code)

ASSUME RetryAssumption ==
    /\ Invocations \in Nat
    /\ TelemetryMax \in Nat \ {0} /\ MetricMax \in Nat \ {0} /\ MaxRetries \in Nat \ {0}
    /\ ErrorEvent \notin Payloads /\ (Payloads \cup {ErrorEvent}) \cap Nat = {}

Items    == Payloads \cup {ErrorEvent}
Requests == 1..Invocations

\* What the buffers keep: an item with the run id it was sent with, or the metrics of a
\* request's report; and the retries it has used up.
TelemetryItems == [item : Items, run : 0..MaxRuns, tried : 0..(MaxRetries - 1)]
MetricBatches  == [of : Requests, tried : 0..(MaxRetries - 1)]

VARIABLES
    telemetry,        \* FAILED_TELEMETRY_BUFFER
    telemetryRetries, \* retry_buffered_telemetry in progress; `left` to be sent
    metrics,          \* FAILED_METRIC_API_BUFFER
    metricRetries,    \* retry_buffered_metric_api in progress
    delivered,        \* items and reports answered 2xx
    dropped           \* items and reports evicted, refused or out of retries

telemetryVars == <<telemetry, telemetryRetries>>
metricVars    == <<metrics, metricRetries>>
retryVars     == <<telemetryVars, metricVars, delivered, dropped>>

\* ids: who may run a retry.
RetryTypeOK(ids) ==
    /\ telemetry \in Seq(TelemetryItems)
    /\ telemetryRetries \in SUBSET [id : ids, run : 0..MaxRuns, left : Seq(TelemetryItems)]
    /\ metrics \in Seq(MetricBatches)
    /\ metricRetries \in SUBSET [id : ids, left : Seq(MetricBatches)]
    /\ delivered \in SUBSET (Items \cup Requests)
    /\ dropped \in SUBSET (Items \cup Requests)

RetryInit ==
    /\ telemetry = <<>> /\ metrics = <<>>
    /\ telemetryRetries = {} /\ metricRetries = {}
    /\ delivered = {} /\ dropped = {}

\* A push into a buffer of max items: at the limit the oldest one goes.
PushCapped(q, x, max) == IF Len(q) >= max THEN Append(Tail(q), x) ELSE Append(q, x)
Evicted(q, max)       == IF Len(q) >= max THEN {Head(q)} ELSE {}

\* The end of an item's first send.  buffer_failed_telemetry keeps what failed.
Telemetry(item, run, answer) ==
    /\ signal_reconnect_needed(answer)
    /\ IF answer = "ok"
       THEN /\ delivered' = delivered \cup {item}
            /\ UNCHANGED <<telemetry, dropped>>
       ELSE /\ telemetry' = PushCapped(telemetry, [item |-> item, run |-> run, tried |-> 0],
                                       TelemetryMax)
            /\ dropped' = dropped \cup {e.item : e \in Evicted(telemetry, TelemetryMax)}
            /\ UNCHANGED delivered

\* The end of a report's first send.  buffer_failed_metric_api keeps it after a
\* transient error; a permanent one drops it.
Metric(r, answer) ==
    \/ /\ answer = "ok"
       /\ delivered' = delivered \cup {r}
       /\ UNCHANGED <<metrics, dropped>>
    \/ /\ answer = "permanent"
       /\ dropped' = dropped \cup {r}
       /\ UNCHANGED <<metrics, delivered>>
    \/ /\ answer = "transient"
       /\ metrics' = PushCapped(metrics, [of |-> r, tried |-> 0], MetricMax)
       /\ dropped' = dropped \cup {e.of : e \in Evicted(metrics, MetricMax)}
       /\ UNCHANGED delivered

\* Mutant: the retry reads the buffer without emptying it.
SpawnTelemetryRetryCloned(id) ==
    /\ UNCHANGED telemetry
    /\ telemetryRetries' = telemetryRetries \cup
            (IF telemetry = <<>> THEN {} ELSE {[id |-> id, run |-> app, left |-> telemetry]})

\* A retry is spawned, or SHUTDOWN's begins: it takes the buffer, and keeps the run id
\* the session has at that time.  (A spawned one takes it at its first poll, which is
\* the next thing to run: only what ends in between would be taken as well.)
SpawnTelemetryRetry(id) ==
    /\ telemetry' = <<>>
    /\ telemetryRetries' = telemetryRetries \cup
            (IF telemetry = <<>> THEN {} ELSE {[id |-> id, run |-> app, left |-> telemetry]})

SpawnMetricRetry(id) ==
    /\ metrics' = <<>>
    /\ metricRetries' = metricRetries \cup
            (IF metrics = <<>> THEN {} ELSE {[id |-> id, left |-> metrics]})

Shorter(tasks, t) ==
    (tasks \ {t}) \cup (IF Len(t.left) = 1 THEN {} ELSE {[t EXCEPT !.left = Tail(@)]})

\* retry_buffered_telemetry: the next item is answered.  What failed goes back at the
\* end: within the limit of the buffer after a restart, which uses up no retry, and
\* regardless of the limit otherwise.
TelemetryRetry(t, answer) ==
    LET next  == Head(t.left)
        tried == next.tried + 1
    IN  /\ t \in telemetryRetries
        /\ answer \in Answers(IF t.run = None THEN next.run ELSE t.run)
        /\ telemetryRetries' = Shorter(telemetryRetries, t)
        /\ signal_reconnect_needed(answer)
        /\ \/ /\ answer = "ok"
              /\ delivered' = delivered \cup {next.item}
              /\ UNCHANGED <<telemetry, dropped>>
           \/ /\ answer = "restart"
              /\ telemetry' = PushCapped(telemetry, next, TelemetryMax)
              /\ dropped' = dropped \cup {e.item : e \in Evicted(telemetry, TelemetryMax)}
              /\ UNCHANGED delivered
           \/ /\ answer \in {"failed", "disconnect"}
              /\ IF tried < MaxRetries
                 THEN telemetry' = Append(telemetry, [next EXCEPT !.tried = tried]) /\ UNCHANGED dropped
                 ELSE dropped' = dropped \cup {next.item} /\ UNCHANGED telemetry
              /\ UNCHANGED delivered
        /\ UNCHANGED <<app, fatal, handshake, issued, valid, metricVars>>

\* retry_buffered_metric_api: the next batch is not due yet (Retry-After), or answered.
MetricRetry(t, answer) ==
    LET next  == Head(t.left)
        tried == next.tried + 1
    IN  /\ t \in metricRetries
        /\ metricRetries' = Shorter(metricRetries, t)
        /\ \/ /\ answer = "early"
              /\ metrics' = Append(metrics, next)
              /\ UNCHANGED <<delivered, dropped>>
           \/ /\ answer = "ok"
              /\ delivered' = delivered \cup {next.of}
              /\ UNCHANGED <<metrics, dropped>>
           \/ /\ answer = "permanent" \/ (answer = "transient" /\ tried >= MaxRetries)
              /\ dropped' = dropped \cup {next.of}
              /\ UNCHANGED <<metrics, delivered>>
           \/ /\ answer = "transient" /\ tried < MaxRetries
              /\ metrics' = Append(metrics, [next EXCEPT !.tried = tried])
              /\ UNCHANGED <<delivered, dropped>>
        /\ UNCHANGED <<sessionVars, telemetryVars>>
=============================================================================
