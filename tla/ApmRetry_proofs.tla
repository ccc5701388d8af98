--------------------------- MODULE ApmRetry_proofs ---------------------------
(***************************************************************************)
(* What the operations of ApmSession and ApmRetry preserve, for the proofs *)
(* about the modules that compose them: the types of their variables, and  *)
(* that an item sent is in one place only, the telemetry buffer, one       *)
(* retry, or what was answered for or given up (CopyInv).                  *)
(***************************************************************************)
EXTENDS ApmRetry, Subsequences_proofs, FiniteSetTheorems

-----------------------------------------------------------------------------
(* A buffer with a limit.                                                  *)

\* A push makes room at the front if it has to.
LEMMA PushCappedIs ==
    ASSUME NEW S, NEW q \in Seq(S), NEW x \in S, NEW max \in Nat \ {0}
    PROVE  /\ PushCapped(q, x, max) \in Seq(S) /\ Evicted(q, max) \subseteq S
           /\ \/ PushCapped(q, x, max) = Append(q, x) /\ Evicted(q, max) = {}
              \/ /\ q # <<>> /\ Tail(q) \in Seq(S)
                 /\ PushCapped(q, x, max) = Append(Tail(q), x) /\ Evicted(q, max) = {Head(q)}
  <1>1. CASE Len(q) >= max
    <2>1. q # <<>>
      BY <1>1
    <2>2. Tail(q) \in Seq(S) /\ Head(q) \in S
      BY <2>1
    <2> QED
      BY <1>1, <2>1, <2>2 DEF PushCapped, Evicted
  <1>2. CASE ~(Len(q) >= max)
    BY <1>2 DEF PushCapped, Evicted
  <1> QED
    BY <1>1, <1>2

-----------------------------------------------------------------------------
(* Types.                                                                  *)

\* Every retry in progress has something left to send.
RetryOK(ids) ==
    /\ RetryTypeOK(ids)
    /\ \A t \in telemetryRetries : t.left # <<>>
    /\ \A t \in metricRetries : t.left # <<>>

\* The session's initial state.
LEMMA SessionStarts == SessionInit => SessionTypeOK
  <1> SUFFICES ASSUME SessionInit PROVE SessionTypeOK
    OBVIOUS
  <1>1. Trying \in [stage : {"idle", "trying", "connected"}, run : 0..MaxRuns]
        /\ Idle \in [stage : {"idle", "trying", "connected"}, run : 0..MaxRuns]
    BY RunsAssumption DEF Trying, Idle, None
  <1>2. /\ app \in 0..MaxRuns /\ reconnect \in BOOLEAN /\ fatal \in BOOLEAN
        /\ issued \in 0..MaxRuns /\ valid \in SUBSET Runs
    <2>1. reconnect \in BOOLEAN /\ fatal \in BOOLEAN
      BY Zenon DEF SessionInit
    <2>2. app \in 0..MaxRuns /\ issued \in 0..MaxRuns /\ valid \in SUBSET Runs
      BY RunsAssumption DEF SessionInit, None
    <2> QED
      BY <2>1, <2>2
  <1>3. handshake \in [Handshakes -> [stage : {"idle", "trying", "connected"}, run : 0..MaxRuns]]
    BY <1>1 DEF SessionInit
  <1> QED
    BY <1>2, <1>3 DEF SessionTypeOK

\* The operations on the session keep its types.
LEMMA SessionTypes ==
    ASSUME SessionTypeOK, NEW h \in Handshakes,
           \/ Connect(h) \/ ConnectFails(h) \/ signal_handshake_fatal(h)
           \/ Install(h) \/ CollectorRestart
    PROVE  SessionTypeOK'
  <1>1. CASE Connect(h)
    BY <1>1, RunsAssumption DEF SessionTypeOK, Connect, Runs
  <1>2. CASE ConnectFails(h)
    BY <1>2, RunsAssumption DEF SessionTypeOK, ConnectFails, Idle, None
  <1>3. CASE signal_handshake_fatal(h)
    BY <1>3, RunsAssumption DEF SessionTypeOK, signal_handshake_fatal, Idle, None
  <1>4. CASE Install(h)
    BY <1>4, RunsAssumption DEF SessionTypeOK, Install, Idle, None
  <1>5. CASE CollectorRestart
    BY <1>5 DEF SessionTypeOK, CollectorRestart
  <1> QED
    BY <1>1, <1>2, <1>3, <1>4, <1>5

\* The end of a first send of telemetry keeps the types of what it changes.
LEMMA TelemetryTypes ==
    ASSUME NEW ids, RetryOK(ids), SessionTypeOK, NEW item \in Items, NEW run \in 0..MaxRuns,
           NEW answer, Telemetry(item, run, answer)
    PROVE  /\ telemetry' \in Seq(TelemetryItems) /\ reconnect' \in BOOLEAN
           /\ delivered' \in SUBSET (Items \cup Requests)
           /\ dropped' \in SUBSET (Items \cup Requests)
  <1> DEFINE new == [item |-> item, run |-> run, tried |-> 0]
  <1>1. new \in TelemetryItems
    BY RetryAssumption DEF TelemetryItems
  <1>2. /\ PushCapped(telemetry, new, TelemetryMax) \in Seq(TelemetryItems)
        /\ Evicted(telemetry, TelemetryMax) \subseteq TelemetryItems
    BY <1>1, PushCappedIs, RetryAssumption DEF RetryOK, RetryTypeOK
  <1>3. {e.item : e \in Evicted(telemetry, TelemetryMax)} \subseteq Items
    BY <1>2 DEF TelemetryItems
  <1>4. reconnect' \in BOOLEAN
    BY DEF SessionTypeOK, Telemetry, signal_reconnect_needed
  <1>5. CASE answer = "ok"
    BY <1>4, <1>5 DEF RetryOK, RetryTypeOK, Telemetry
  <1>6. CASE answer # "ok"
    BY <1>2, <1>3, <1>4, <1>6 DEF RetryOK, RetryTypeOK, Telemetry
  <1> QED
    BY <1>5, <1>6

\* The end of a first send of a report, likewise.
LEMMA MetricTypes ==
    ASSUME NEW ids, RetryOK(ids), NEW r \in Requests, NEW answer, Metric(r, answer)
    PROVE  /\ metrics' \in Seq(MetricBatches)
           /\ delivered' \in SUBSET (Items \cup Requests)
           /\ dropped' \in SUBSET (Items \cup Requests)
  <1> DEFINE new == [of |-> r, tried |-> 0]
  <1>1. new \in MetricBatches
    BY RetryAssumption DEF MetricBatches
  <1>2. /\ PushCapped(metrics, new, MetricMax) \in Seq(MetricBatches)
        /\ Evicted(metrics, MetricMax) \subseteq MetricBatches
    BY <1>1, PushCappedIs, RetryAssumption DEF RetryOK, RetryTypeOK
  <1>3. {e.of : e \in Evicted(metrics, MetricMax)} \subseteq Requests
    BY <1>2 DEF MetricBatches
  <1> QED
    BY <1>2, <1>3 DEF RetryOK, RetryTypeOK, Metric

\* Taking a buffer for a retry.
LEMMA SpawnTypes ==
    ASSUME NEW ids, RetryOK(ids), SessionTypeOK, NEW id \in ids
    PROVE  /\ SpawnTelemetryRetry(id) =>
                /\ telemetry' \in Seq(TelemetryItems)
                /\ telemetryRetries' \in SUBSET [id : ids, run : 0..MaxRuns, left : Seq(TelemetryItems)]
                /\ \A t \in telemetryRetries' : t.left # <<>>
           /\ SpawnMetricRetry(id) =>
                /\ metrics' \in Seq(MetricBatches)
                /\ metricRetries' \in SUBSET [id : ids, left : Seq(MetricBatches)]
                /\ \A t \in metricRetries' : t.left # <<>>
  <1>1. ASSUME SpawnTelemetryRetry(id)
        PROVE  /\ telemetry' \in Seq(TelemetryItems)
               /\ telemetryRetries' \in SUBSET [id : ids, run : 0..MaxRuns, left : Seq(TelemetryItems)]
               /\ \A t \in telemetryRetries' : t.left # <<>>
    BY <1>1, EmptySeq DEF SpawnTelemetryRetry, RetryOK, RetryTypeOK, SessionTypeOK
  <1>2. ASSUME SpawnMetricRetry(id)
        PROVE  /\ metrics' \in Seq(MetricBatches)
               /\ metricRetries' \in SUBSET [id : ids, left : Seq(MetricBatches)]
               /\ \A t \in metricRetries' : t.left # <<>>
    BY <1>2, EmptySeq DEF SpawnMetricRetry, RetryOK, RetryTypeOK
  <1> QED
    BY <1>1, <1>2

\* The first of a sequence, and the others.
LEMMA HeadTail ==
    ASSUME NEW S, NEW s \in Seq(S), s # <<>>
    PROVE  /\ Head(s) \in S /\ Tail(s) \in Seq(S)
           /\ Len(s) # 1 => Tail(s) # <<>>
  <1>1. Head(s) \in S /\ Tail(s) \in Seq(S) /\ Len(Tail(s)) = Len(s) - 1 /\ Len(s) \in Nat
    BY HeadTailProperties
  <1>2. Len(<<>>) = 0
    OBVIOUS
  <1> QED
    BY <1>1, <1>2

\* What is left of a retry after an answer.
LEMMA ShorterTypes ==
    ASSUME NEW ids, RetryOK(ids)
    PROVE  /\ \A t \in telemetryRetries :
                /\ Head(t.left) \in TelemetryItems
                /\ Shorter(telemetryRetries, t)
                     \in SUBSET [id : ids, run : 0..MaxRuns, left : Seq(TelemetryItems)]
                /\ \A u \in Shorter(telemetryRetries, t) : u.left # <<>>
           /\ \A t \in metricRetries :
                /\ Head(t.left) \in MetricBatches
                /\ Shorter(metricRetries, t) \in SUBSET [id : ids, left : Seq(MetricBatches)]
                /\ \A u \in Shorter(metricRetries, t) : u.left # <<>>
  <1>1. ASSUME NEW t \in telemetryRetries
        PROVE  /\ Head(t.left) \in TelemetryItems
               /\ Shorter(telemetryRetries, t)
                     \in SUBSET [id : ids, run : 0..MaxRuns, left : Seq(TelemetryItems)]
               /\ \A u \in Shorter(telemetryRetries, t) : u.left # <<>>
    <2>1. t.left \in Seq(TelemetryItems) /\ t.left # <<>> /\ t.id \in ids /\ t.run \in 0..MaxRuns
          /\ t = [id |-> t.id, run |-> t.run, left |-> t.left]
      BY DEF RetryOK, RetryTypeOK
    <2>2. Head(t.left) \in TelemetryItems /\ Tail(t.left) \in Seq(TelemetryItems)
          /\ (Len(t.left) # 1 => Tail(t.left) # <<>>)
      BY <2>1, HeadTail
    <2>3. [t EXCEPT !.left = Tail(@)] = [id |-> t.id, run |-> t.run, left |-> Tail(t.left)]
      BY <2>1
    <2> QED
      BY <2>1, <2>2, <2>3 DEF RetryOK, RetryTypeOK, Shorter
  <1>2. ASSUME NEW t \in metricRetries
        PROVE  /\ Head(t.left) \in MetricBatches
               /\ Shorter(metricRetries, t) \in SUBSET [id : ids, left : Seq(MetricBatches)]
               /\ \A u \in Shorter(metricRetries, t) : u.left # <<>>
    <2>1. t.left \in Seq(MetricBatches) /\ t.left # <<>> /\ t.id \in ids
          /\ t = [id |-> t.id, left |-> t.left]
      BY DEF RetryOK, RetryTypeOK
    <2>2. Head(t.left) \in MetricBatches /\ Tail(t.left) \in Seq(MetricBatches)
          /\ (Len(t.left) # 1 => Tail(t.left) # <<>>)
      BY <2>1, HeadTail
    <2>3. [t EXCEPT !.left = Tail(@)] = [id |-> t.id, left |-> Tail(t.left)]
      BY <2>1, SMTT(20)
    <2> QED
      BY <2>1, <2>2, <2>3 DEF RetryOK, RetryTypeOK, Shorter
  <1> QED
    BY <1>1, <1>2

\* An answer to a retry keeps all types.
LEMMA RetryTypes ==
    ASSUME NEW ids, RetryOK(ids), SessionTypeOK, NEW answer,
           \/ \E t \in telemetryRetries : TelemetryRetry(t, answer)
           \/ \E t \in metricRetries : MetricRetry(t, answer)
    PROVE  RetryOK(ids)' /\ SessionTypeOK'
  <1>1. ASSUME NEW t \in telemetryRetries, TelemetryRetry(t, answer)
        PROVE  RetryOK(ids)' /\ SessionTypeOK'
    <2> DEFINE next == Head(t.left)
               again == [next EXCEPT !.tried = next.tried + 1]
    <2>1. next \in TelemetryItems
      BY ShorterTypes
    <2>2. /\ telemetryRetries' \in SUBSET [id : ids, run : 0..MaxRuns, left : Seq(TelemetryItems)]
          /\ \A u \in telemetryRetries' : u.left # <<>>
      BY <1>1, ShorterTypes DEF TelemetryRetry
    <2>3. next.item \in Items /\ next.tried \in 0..(MaxRetries - 1)
      BY <2>1 DEF TelemetryItems
    <2>4. next.tried + 1 < MaxRetries => again \in TelemetryItems
      BY <2>1, RetryAssumption DEF TelemetryItems
    <2>5. /\ PushCapped(telemetry, next, TelemetryMax) \in Seq(TelemetryItems)
          /\ {e.item : e \in Evicted(telemetry, TelemetryMax)} \subseteq Items
      <3>1. /\ PushCapped(telemetry, next, TelemetryMax) \in Seq(TelemetryItems)
            /\ Evicted(telemetry, TelemetryMax) \subseteq TelemetryItems
        BY <2>1, PushCappedIs, RetryAssumption DEF RetryOK, RetryTypeOK
      <3> QED
        BY <3>1 DEF TelemetryItems
    <2>6. SessionTypeOK'
      BY <1>1 DEF SessionTypeOK, TelemetryRetry, signal_reconnect_needed
    <2>7. telemetry' \in Seq(TelemetryItems)
      <3> HIDE DEF next, again
      <3>1. telemetry \in Seq(TelemetryItems)
        BY DEF RetryOK, RetryTypeOK
      <3>2. \/ telemetry' = telemetry
            \/ telemetry' = PushCapped(telemetry, next, TelemetryMax)
            \/ next.tried + 1 < MaxRetries /\ telemetry' = Append(telemetry, again)
        BY <1>1 DEF TelemetryRetry, next, again
      <3> QED
        BY <2>4, <2>5, <3>1, <3>2, SMTT(20)
    <2>8. /\ delivered' \in SUBSET (Items \cup Requests)
          /\ dropped' \in SUBSET (Items \cup Requests)
      BY <1>1, <2>3, <2>5 DEF RetryOK, RetryTypeOK, TelemetryRetry
    <2>9. UNCHANGED metricVars
      BY <1>1 DEF TelemetryRetry
    <2> QED
      BY <2>2, <2>6, <2>7, <2>8, <2>9 DEF RetryOK, RetryTypeOK, metricVars
  <1>2. ASSUME NEW t \in metricRetries, MetricRetry(t, answer)
        PROVE  RetryOK(ids)' /\ SessionTypeOK'
    <2> DEFINE next == Head(t.left)
               again == [next EXCEPT !.tried = next.tried + 1]
    <2>1. next \in MetricBatches
      BY ShorterTypes
    <2>2. /\ metricRetries' \in SUBSET [id : ids, left : Seq(MetricBatches)]
          /\ \A u \in metricRetries' : u.left # <<>>
      BY <1>2, ShorterTypes DEF MetricRetry
    <2>3. next.of \in Requests /\ next.tried \in 0..(MaxRetries - 1)
      BY <2>1 DEF MetricBatches
    <2>4. next.tried + 1 < MaxRetries => again \in MetricBatches
      BY <2>1, RetryAssumption DEF MetricBatches
    <2>6. SessionTypeOK'
      BY <1>2 DEF SessionTypeOK, MetricRetry, sessionVars
    <2>7. metrics' \in Seq(MetricBatches)
      <3> HIDE DEF next, again
      <3>1. metrics \in Seq(MetricBatches)
        BY DEF RetryOK, RetryTypeOK
      <3>2. \/ metrics' = metrics
            \/ metrics' = Append(metrics, next)
            \/ next.tried + 1 < MaxRetries /\ metrics' = Append(metrics, again)
        BY <1>2 DEF MetricRetry, next, again
      <3> QED
        BY <2>1, <2>4, <3>1, <3>2
    <2>8. /\ delivered' \in SUBSET (Items \cup Requests)
          /\ dropped' \in SUBSET (Items \cup Requests)
      BY <1>2, <2>3 DEF RetryOK, RetryTypeOK, MetricRetry
    <2>9. UNCHANGED telemetryVars
      BY <1>2 DEF MetricRetry
    <2> QED
      BY <2>2, <2>6, <2>7, <2>8, <2>9 DEF RetryOK, RetryTypeOK, telemetryVars
  <1> QED
    BY <1>1, <1>2

\* What is unchanged keeps its type.
LEMMA SessionSame ==
    ASSUME SessionTypeOK, UNCHANGED <<app, reconnect, fatal, handshake, issued, valid>>
    PROVE  SessionTypeOK'
  BY DEF SessionTypeOK

\* See SessionSame.
LEMMA RetrySame ==
    ASSUME NEW ids, RetryOK(ids), UNCHANGED retryVars
    PROVE  RetryOK(ids)'
  BY DEF RetryOK, RetryTypeOK, retryVars, telemetryVars, metricVars

\* What the buffers of ApmRetry are after the end of a first send, and after a retry takes
\* one of them.
LEMMA AfterTelemetry ==
    ASSUME NEW ids, RetryOK(ids), SessionTypeOK, NEW item \in Items, NEW run \in 0..MaxRuns,
           NEW answer, Telemetry(item, run, answer),
           UNCHANGED <<app, fatal, handshake, issued, valid, telemetryRetries, metricVars>>
    PROVE  RetryOK(ids)' /\ SessionTypeOK'
  <1>1. /\ telemetry' \in Seq(TelemetryItems) /\ reconnect' \in BOOLEAN
        /\ delivered' \in SUBSET (Items \cup Requests)
        /\ dropped' \in SUBSET (Items \cup Requests)
    BY TelemetryTypes
  <1>2. RetryOK(ids)'
    BY <1>1 DEF RetryOK, RetryTypeOK, metricVars
  <1>3. SessionTypeOK'
    BY <1>1 DEF SessionTypeOK
  <1> QED
    BY <1>2, <1>3

\* See AfterTelemetry.
LEMMA AfterMetric ==
    ASSUME NEW ids, RetryOK(ids), NEW r \in Requests, NEW answer, Metric(r, answer),
           UNCHANGED <<telemetryVars, metricRetries>>
    PROVE  RetryOK(ids)'
  <1>1. /\ metrics' \in Seq(MetricBatches)
        /\ delivered' \in SUBSET (Items \cup Requests)
        /\ dropped' \in SUBSET (Items \cup Requests)
    BY MetricTypes
  <1> QED
    BY <1>1 DEF RetryOK, RetryTypeOK, telemetryVars

\* See AfterTelemetry.
LEMMA AfterSpawn ==
    ASSUME NEW ids, RetryOK(ids), SessionTypeOK, NEW id \in ids,
           \/ SpawnTelemetryRetry(id) \/ UNCHANGED telemetryVars,
           \/ SpawnMetricRetry(id) \/ UNCHANGED metricVars,
           UNCHANGED <<delivered, dropped>>
    PROVE  RetryOK(ids)'
  <1>1. /\ telemetry' \in Seq(TelemetryItems)
        /\ telemetryRetries' \in SUBSET [id : ids, run : 0..MaxRuns, left : Seq(TelemetryItems)]
        /\ \A t \in telemetryRetries' : t.left # <<>>
    <2>1. CASE SpawnTelemetryRetry(id)
      BY <2>1, SpawnTypes
    <2>2. CASE UNCHANGED telemetryVars
      BY <2>2 DEF RetryOK, RetryTypeOK, telemetryVars
    <2> QED
      BY <2>1, <2>2
  <1>2. /\ metrics' \in Seq(MetricBatches)
        /\ metricRetries' \in SUBSET [id : ids, left : Seq(MetricBatches)]
        /\ \A t \in metricRetries' : t.left # <<>>
    <2>1. CASE SpawnMetricRetry(id)
      BY <2>1, SpawnTypes
    <2>2. CASE UNCHANGED metricVars
      BY <2>2 DEF RetryOK, RetryTypeOK, metricVars
    <2> QED
      BY <2>1, <2>2
  <1> QED
    BY <1>1, <1>2 DEF RetryOK, RetryTypeOK

-----------------------------------------------------------------------------
(* One copy of every payload sent.                                         *)

\* The payloads in a sequence of telemetry items; it has none of them twice.
Of(q)   == {p \in Payloads : \E i \in 1..Len(q) : q[i].item = p}
Once(q) == \A i, j \in 1..Len(q) : q[i].item = q[j].item /\ q[i].item \in Payloads => i = j

\* The payloads sent are in the buffer q, in a retry of R, or among the delivered and the
\* dropped ones, and in one of these only.
InRetries(R) == UNION {Of(t.left) : t \in R}

Everywhere(q, R, done, gone) == Of(q) \cup InRetries(R) \cup (Payloads \cap (done \cup gone))

Apart(q, R, done, gone) ==
    /\ Once(q)
    /\ \A t \in R : Once(t.left)
    /\ Of(q) \cap (done \cup gone) = {}
    /\ \A t \in R : Of(t.left) \cap (Of(q) \cup done \cup gone) = {}
    /\ \A t, u \in R : t # u => Of(t.left) \cap Of(u.left) = {}
    /\ Payloads \cap done \cap gone = {}

Sent    == Everywhere(telemetry, telemetryRetries, delivered, dropped)
CopyInv == Apart(telemetry, telemetryRetries, delivered, dropped)

\* One step of them: payloads of G join those that were sent.
Becomes(q, R, d, g, q2, R2, d2, g2, G) ==
    /\ Apart(q2, R2, d2, g2)
    /\ Everywhere(q2, R2, d2, g2) = Everywhere(q, R, d, g) \cup (Payloads \cap G)

\* What they are after a step.
LEMMA AfterStep ==
    /\ Sent' = Everywhere(telemetry', telemetryRetries', delivered', dropped')
    /\ CopyInv' <=> Apart(telemetry', telemetryRetries', delivered', dropped')
  BY DEF Sent, CopyInv, Everywhere, InRetries, Apart, Of, Once

\* The items of an empty sequence, of one with an item more and of one with an item less.
LEMMA OfEmpty == Of(<<>>) = {} /\ Once(<<>>)
  BY DEF Of, Once

\* See OfEmpty.
LEMMA OfMore ==
    ASSUME NEW S, NEW q \in Seq(S), NEW x \in S
    PROVE  /\ Of(Append(q, x)) = Of(q) \cup ({x.item} \cap Payloads)
           /\ Once(q) /\ x.item \notin Of(q) => Once(Append(q, x))
  <1>1. Len(Append(q, x)) = Len(q) + 1 /\ Len(q) \in Nat
    OBVIOUS
  <1>2. \A i \in 1..Len(q) : Append(q, x)[i] = q[i]
    OBVIOUS
  <1>3. Append(q, x)[Len(q) + 1] = x
    OBVIOUS
  <1>4. \A i \in 1..(Len(q) + 1) : i \in 1..Len(q) \/ i = Len(q) + 1
    BY <1>1
  <1>5. 1..Len(q) \subseteq 1..(Len(q) + 1) /\ Len(q) + 1 \in 1..(Len(q) + 1)
    BY <1>1
  <1>6. Of(Append(q, x)) = Of(q) \cup ({x.item} \cap Payloads)
    BY <1>1, <1>2, <1>3, <1>4, <1>5, Zenon DEF Of
  <1>7. ASSUME Once(q), x.item \notin Of(q) PROVE Once(Append(q, x))
    BY <1>1, <1>2, <1>3, <1>4, <1>7, Zenon DEF Of, Once
  <1> QED
    BY <1>6, <1>7

\* See OfEmpty.
LEMMA OfLess ==
    ASSUME NEW S, NEW q \in Seq(S), q # <<>>
    PROVE  /\ Of(q) = Of(Tail(q)) \cup ({Head(q).item} \cap Payloads)
           /\ Once(q) => Once(Tail(q)) /\ Head(q).item \notin Of(Tail(q))
  <1>1. Len(Tail(q)) = Len(q) - 1 /\ 1 \in 1..Len(q) /\ Head(q) = q[1]
    OBVIOUS
  <1>2. \A i \in 1..Len(Tail(q)) : i + 1 \in 1..Len(q) /\ Tail(q)[i] = q[i + 1] /\ i + 1 # 1
    BY <1>1
  <1>3. \A i \in 1..Len(q) : i = 1 \/ \E j \in 1..Len(Tail(q)) : i = j + 1
    <2>1. TAKE i \in 1..Len(q)
    <2>2. CASE i # 1
      <3>1. i - 1 \in 1..Len(Tail(q)) /\ i = (i - 1) + 1
        BY <1>1, <2>2
      <3> QED
        BY <3>1
    <2> QED
      BY <2>2
  <1>4. \A i, j \in 1..Len(Tail(q)) : i + 1 = j + 1 => i = j
    OBVIOUS
  <1>5. Of(q) = Of(Tail(q)) \cup ({Head(q).item} \cap Payloads)
    <2>1. ASSUME NEW p \in Of(q) PROVE p \in Of(Tail(q)) \/ p = Head(q).item
      <3>1. PICK i \in 1..Len(q) : q[i].item = p
        BY <2>1 DEF Of
      <3>2. ASSUME NEW j \in 1..Len(Tail(q)), i = j + 1 PROVE p \in Of(Tail(q))
        BY <1>2, <2>1, <3>1, <3>2 DEF Of
      <3> QED
        BY <1>1, <1>3, <3>1, <3>2
    <2>2. ASSUME NEW p \in Of(Tail(q)) PROVE p \in Of(q)
      BY <1>2, <2>2, Zenon DEF Of
    <2>3. Head(q).item \in Payloads => Head(q).item \in Of(q)
      BY <1>1 DEF Of
    <2>4. Of(q) \subseteq Payloads
      BY DEF Of
    <2> QED
      BY <2>1, <2>2, <2>3, <2>4
  <1>6. ASSUME Once(q) PROVE Once(Tail(q)) /\ Head(q).item \notin Of(Tail(q))
    BY <1>1, <1>2, <1>4, <1>6, Zenon DEF Of, Once
  <1> QED
    BY <1>5, <1>6

\* OfMore and OfLess, of the telemetry.
LEMMA OfAppend ==
    ASSUME NEW q \in Seq(TelemetryItems), NEW x \in TelemetryItems
    PROVE  /\ Of(Append(q, x)) = Of(q) \cup ({x.item} \cap Payloads)
           /\ Once(q) /\ x.item \notin Of(q) => Once(Append(q, x))
  BY OfMore

\* See OfAppend.
LEMMA OfTail ==
    ASSUME NEW q \in Seq(TelemetryItems), q # <<>>
    PROVE  /\ Of(q) = Of(Tail(q)) \cup ({Head(q).item} \cap Payloads)
           /\ Once(q) => Once(Tail(q)) /\ Head(q).item \notin Of(Tail(q))
  BY OfLess

\* A push into a buffer with a limit: what it evicts was in it, and leaves it.
LEMMA OfCapped ==
    ASSUME NEW S, NEW q \in Seq(S), NEW x \in S, NEW max \in Nat \ {0},
           Once(q), x.item \notin Of(q), NEW E, E = {e.item : e \in Evicted(q, max)}
    PROVE  /\ Once(PushCapped(q, x, max))
           /\ Of(PushCapped(q, x, max)) = (Of(q) \ E) \cup ({x.item} \cap Payloads)
           /\ E \cap Payloads \subseteq Of(q)
  <1>1. CASE PushCapped(q, x, max) = Append(q, x) /\ Evicted(q, max) = {}
    BY <1>1, OfMore
  <1>2. CASE /\ q # <<>> /\ Tail(q) \in Seq(S)
             /\ PushCapped(q, x, max) = Append(Tail(q), x) /\ Evicted(q, max) = {Head(q)}
    <2>1. E = {Head(q).item}
      BY <1>2
    <2>2. /\ Of(q) = Of(Tail(q)) \cup ({Head(q).item} \cap Payloads)
          /\ Once(Tail(q)) /\ Head(q).item \notin Of(Tail(q))
      BY <1>2, OfLess
    <2>3. /\ Of(Append(Tail(q), x)) = Of(Tail(q)) \cup ({x.item} \cap Payloads)
          /\ Once(Append(Tail(q), x))
      <3>1. PICK rest \in Seq(S) : rest = Tail(q)
        BY <1>2
      <3>2. Once(rest) /\ x.item \notin Of(rest)
        BY <2>2, <3>1
      <3>3. Of(Append(rest, x)) = Of(rest) \cup ({x.item} \cap Payloads) /\ Once(Append(rest, x))
        BY <3>2, OfMore
      <3> QED
        BY <3>1, <3>3
    <2>4. Of(q) \ E = Of(Tail(q)) /\ E \cap Payloads \subseteq Of(q)
      BY <2>1, <2>2
    <2> HIDE DEF Of, Once
    <2> QED
      BY <1>2, <2>3, <2>4
  <1>3. \/ PushCapped(q, x, max) = Append(q, x) /\ Evicted(q, max) = {}
        \/ /\ q # <<>> /\ Tail(q) \in Seq(S)
           /\ PushCapped(q, x, max) = Append(Tail(q), x) /\ Evicted(q, max) = {Head(q)}
    BY PushCappedIs
  <1> QED
    BY <1>1, <1>2, <1>3

\* OfCapped, of the telemetry.
LEMMA OfPush ==
    ASSUME NEW q \in Seq(TelemetryItems), NEW x \in TelemetryItems, NEW max \in Nat \ {0},
           Once(q), x.item \notin Of(q), NEW E, E = {e.item : e \in Evicted(q, max)}
    PROVE  /\ Once(PushCapped(q, x, max))
           /\ Of(PushCapped(q, x, max)) = (Of(q) \ E) \cup ({x.item} \cap Payloads)
           /\ E \cap Payloads \subseteq Of(q)
  BY OfCapped

\* A payload is in a retry of R if it is left in one of them.
LEMMA InRetriesIs ==
    ASSUME NEW R
    PROVE  /\ InRetries(R) \subseteq Payloads
           /\ \A t \in R : Of(t.left) \subseteq InRetries(R)
           /\ \A p \in InRetries(R) : \E t \in R : p \in Of(t.left)
  <1>1. \A s : Of(s) \subseteq Payloads
    BY DEF Of
  <1> QED
    BY <1>1, Zenon DEF InRetries

\* A delivered item, or one given up, that was nowhere else.
Settles(q, R, d, g, d2, g2, G) ==
    /\ Apart(q, R, d, g)
    /\ G \cap Everywhere(q, R, d, g) = {}
    /\ Payloads \cap d2 \cap g2 = {}
    /\ Payloads \cap (d2 \cup g2) = Payloads \cap (d \cup g \cup G)

\* See Settles.
LEMMA ApartSettled ==
    ASSUME NEW q, NEW R, NEW d, NEW g, NEW d2, NEW g2, NEW G, Settles(q, R, d, g, d2, g2, G)
    PROVE  Becomes(q, R, d, g, q, R, d2, g2, G)
  <1> USE DEF Settles, Becomes
  <1>1. \A s : Of(s) \subseteq Payloads
    BY DEF Of
  <1>2. Everywhere(q, R, d2, g2) = Everywhere(q, R, d, g) \cup (Payloads \cap G)
    BY DEF Everywhere
  <1>3. Of(q) \cap (d2 \cup g2) = {}
    BY <1>1 DEF Apart, Everywhere
  <1>4. ASSUME NEW t \in R PROVE Of(t.left) \cap (Of(q) \cup d2 \cup g2) = {}
    <2>1. Of(t.left) \subseteq Payloads /\ Of(t.left) \subseteq Everywhere(q, R, d, g)
          /\ Of(t.left) \cap (Of(q) \cup d \cup g) = {}
      BY <1>1, InRetriesIs DEF Apart, Everywhere
    <2> QED
      BY <2>1
  <1> QED
    BY <1>2, <1>3, <1>4 DEF Apart

\* A buffer with a new item, from which another may have been evicted.
Pushes(q, R, d, g, q2, E, item) ==
    /\ Apart(q, R, d, g)
    /\ item \notin Everywhere(q, R, d, g)
    /\ Once(q2)
    /\ Of(q2) = (Of(q) \ E) \cup ({item} \cap Payloads)
    /\ E \cap Payloads \subseteq Of(q)

\* See Pushes.
LEMMA ApartPushed ==
    ASSUME NEW q, NEW R, NEW d, NEW g, NEW q2, NEW E, NEW item, Pushes(q, R, d, g, q2, E, item)
    PROVE  Becomes(q, R, d, g, q2, R, d, g \cup E, {item})
  <1> USE DEF Pushes, Becomes
  <1>1. \A s : Of(s) \subseteq Payloads
    BY DEF Of
  <1>2. Everywhere(q2, R, d, g \cup E) = Everywhere(q, R, d, g) \cup ({item} \cap Payloads)
    BY <1>1 DEF Everywhere
  <1>3. Of(q2) \cap (d \cup g \cup E) = {}
    BY <1>1 DEF Apart, Everywhere
  <1>4. ASSUME NEW t \in R PROVE Of(t.left) \cap (Of(q2) \cup d \cup g \cup E) = {}
    <2>1. Of(t.left) \subseteq Payloads /\ Of(t.left) \subseteq Everywhere(q, R, d, g)
          /\ Of(t.left) \cap (Of(q) \cup d \cup g) = {}
      BY <1>1, InRetriesIs DEF Apart, Everywhere
    <2> QED
      BY <2>1
  <1>5. Payloads \cap d \cap (g \cup E) = {}
    BY DEF Apart
  <1> QED
    BY <1>2, <1>3, <1>4, <1>5 DEF Apart

\* A retry that takes the buffer.
LEMMA ApartTaken ==
    ASSUME NEW R, NEW d, NEW g, NEW t, Apart(t.left, R, d, g)
    PROVE  Becomes(t.left, R, d, g, <<>>, R \cup {t}, d, g, {})
  <1> USE DEF Becomes
  <1>1. Everywhere(<<>>, R \cup {t}, d, g) = Everywhere(t.left, R, d, g)
    <2>1. InRetries(R \cup {t}) = InRetries(R) \cup Of(t.left)
      BY Zenon DEF InRetries
    <2> QED
      BY <2>1, OfEmpty DEF Everywhere
  <1>2. ASSUME NEW u \in R \cup {t} PROVE Once(u.left) /\ Of(u.left) \cap (d \cup g) = {}
    BY <1>2 DEF Apart
  <1>3. ASSUME NEW u \in R \cup {t}, NEW v \in R \cup {t}, u # v
        PROVE  Of(u.left) \cap Of(v.left) = {}
    BY <1>3 DEF Apart
  <1> QED
    BY <1>1, <1>2, <1>3, OfEmpty DEF Apart

\* A retry that has handed its first item on: until that is somewhere, it is nowhere.
LEMMA ApartShorter ==
    ASSUME NEW ids, RetryOK(ids), CopyInv, NEW t \in telemetryRetries
    PROVE  /\ Apart(telemetry, Shorter(telemetryRetries, t), delivered, dropped)
           /\ Head(t.left).item \notin
                Everywhere(telemetry, Shorter(telemetryRetries, t), delivered, dropped)
           /\ Sent = Everywhere(telemetry, Shorter(telemetryRetries, t), delivered, dropped)
                       \cup ({Head(t.left).item} \cap Payloads)
  <1> DEFINE R == telemetryRetries
             u == [t EXCEPT !.left = Tail(t.left)]
             item == Head(t.left).item
  <1>1. t.left \in Seq(TelemetryItems) /\ t.left # <<>> /\ u.left = Tail(t.left)
    BY DEF RetryOK, RetryTypeOK
  <1>2. /\ Of(t.left) = Of(u.left) \cup ({item} \cap Payloads)
        /\ Once(u.left) /\ item \notin Of(u.left)
    BY <1>1, OfTail DEF CopyInv, Apart
  <1>3. Len(t.left) = 1 => Of(u.left) = {}
    BY <1>1 DEF Of
  <1>4. Shorter(R, t) = (R \ {t}) \cup (IF Len(t.left) = 1 THEN {} ELSE {u})
    BY DEF Shorter
  <1> HIDE DEF R, u, item
  <1>5. \A x : Of(x) \subseteq Payloads
    BY DEF Of
  <1>6. InRetries(Shorter(R, t)) = InRetries(R \ {t}) \cup Of(u.left)
    <2>1. CASE Len(t.left) = 1
      <3>1. Shorter(R, t) = R \ {t} /\ Of(u.left) = {}
        BY <1>3, <1>4, <2>1
      <3> QED
        BY <3>1
    <2>2. CASE Len(t.left) # 1
      <3>1. Shorter(R, t) = (R \ {t}) \cup {u}
        BY <1>4, <2>2
      <3> QED
        BY <3>1, Zenon DEF InRetries
    <2> QED
      BY <2>1, <2>2
  <1>7. /\ \A x \in R : Of(x.left) \cap (Of(telemetry) \cup delivered \cup dropped) = {}
        /\ \A x, y \in R : x # y => Of(x.left) \cap Of(y.left) = {}
        /\ \A x \in R : Once(x.left)
        /\ t \in R
    BY DEF CopyInv, Apart, R
  <1>8. InRetries(R) = InRetries(R \ {t}) \cup Of(t.left)
    BY <1>7, Zenon DEF InRetries
  <1>9. Everywhere(telemetry, Shorter(R, t), delivered, dropped) =
          Of(telemetry) \cup InRetries(R \ {t}) \cup Of(u.left)
             \cup (Payloads \cap (delivered \cup dropped))
    BY <1>6 DEF Everywhere
  <1>10. Sent = Of(telemetry) \cup InRetries(R \ {t}) \cup Of(t.left)
             \cup (Payloads \cap (delivered \cup dropped))
    BY <1>8 DEF Everywhere, Sent, R
  <1>11. item \notin Everywhere(telemetry, Shorter(R, t), delivered, dropped)
    <2>1. CASE item \in Payloads
      <3>1. item \in Of(t.left)
        BY <1>2, <2>1
      <3>2. item \notin InRetries(R \ {t})
        <4>1. ASSUME NEW x \in R \ {t} PROVE item \notin Of(x.left)
          BY <1>7, <3>1, <4>1
        <4> QED
          BY <4>1, InRetriesIs
      <3>3. item \notin Of(telemetry) \cup delivered \cup dropped
        BY <1>7, <3>1
      <3> QED
        BY <1>2, <1>9, <3>2, <3>3
    <2>2. CASE item \notin Payloads
      BY <1>5, <1>9, <2>2, InRetriesIs
    <2> QED
      BY <2>1, <2>2
  <1>12. \A x \in Shorter(R, t) : x = u \/ x \in R \ {t}
    BY <1>4
  <1>13. ASSUME NEW x \in Shorter(R, t)
         PROVE  Once(x.left) /\ Of(x.left) \cap (Of(telemetry) \cup delivered \cup dropped) = {}
    BY <1>2, <1>7, <1>12
  <1>14. ASSUME NEW x \in Shorter(R, t), NEW y \in Shorter(R, t), x # y
         PROVE  Of(x.left) \cap Of(y.left) = {}
    BY <1>2, <1>7, <1>12, <1>14
  <1>15. Apart(telemetry, Shorter(R, t), delivered, dropped)
    BY <1>13, <1>14 DEF Apart, CopyInv
  <1> QED
    BY <1>2, <1>9, <1>10, <1>11, <1>15 DEF R, item

\* The end of a first send: the item is in the buffer, or delivered.
LEMMA TelemetryCopies ==
    ASSUME NEW ids, RetryOK(ids), CopyInv, NEW item \in Items, item \notin Sent,
           NEW run \in 0..MaxRuns, NEW answer, Telemetry(item, run, answer),
           UNCHANGED telemetryRetries
    PROVE  CopyInv' /\ Sent' = Sent \cup ({item} \cap Payloads)
  <1>1. CASE answer = "ok"
    <2>1. telemetry' = telemetry /\ delivered' = delivered \cup {item} /\ dropped' = dropped
      BY <1>1 DEF Telemetry
    <2>2. {item} \cap Sent = {} /\ Payloads \cap delivered' \cap dropped = {}
      BY <2>1 DEF Sent, CopyInv, Everywhere, Apart
    <2>3. Payloads \cap (delivered' \cup dropped) = Payloads \cap (delivered \cup dropped \cup {item})
      BY <2>1
    <2>4. /\ Apart(telemetry, telemetryRetries, delivered', dropped)
          /\ Everywhere(telemetry, telemetryRetries, delivered', dropped)
               = Everywhere(telemetry, telemetryRetries, delivered, dropped) \cup (Payloads \cap {item})
      <3>1. Settles(telemetry, telemetryRetries, delivered, dropped, delivered', dropped, {item})
        BY <2>2, <2>3 DEF CopyInv, Sent, Settles
      <3> QED
        BY <3>1, ApartSettled DEF Becomes
    <2>5. Sent = Everywhere(telemetry, telemetryRetries, delivered, dropped)
      BY DEF Sent
    <2> QED
      BY <2>1, <2>4, <2>5, AfterStep
  <1>2. CASE answer # "ok"
    <2> DEFINE new == [item |-> item, run |-> run, tried |-> 0]
               E == {e.item : e \in Evicted(telemetry, TelemetryMax)}
    <2>1. telemetry' = PushCapped(telemetry, new, TelemetryMax) /\ delivered' = delivered
          /\ dropped' = dropped \cup E
      BY <1>2 DEF Telemetry
    <2>2. new \in TelemetryItems /\ new.item = item
      BY RetryAssumption DEF TelemetryItems
    <2>3. telemetry \in Seq(TelemetryItems) /\ Once(telemetry) /\ item \notin Of(telemetry)
      BY DEF RetryOK, RetryTypeOK, CopyInv, Sent, Apart, Everywhere
    <2> HIDE DEF new, E
    <2>4. /\ Once(telemetry')
          /\ Of(telemetry') = (Of(telemetry) \ E) \cup ({item} \cap Payloads)
          /\ E \cap Payloads \subseteq Of(telemetry)
      BY <2>1, <2>2, <2>3, OfPush, RetryAssumption DEF E
    <2>5. /\ Apart(telemetry', telemetryRetries, delivered, dropped \cup E)
          /\ Everywhere(telemetry', telemetryRetries, delivered, dropped \cup E)
               = Sent \cup ({item} \cap Payloads)
      <3>1. Pushes(telemetry, telemetryRetries, delivered, dropped, telemetry', E, item)
        BY <2>4 DEF CopyInv, Sent, Pushes
      <3> QED
        <4>1. Becomes(telemetry, telemetryRetries, delivered, dropped,
                      telemetry', telemetryRetries, delivered, dropped \cup E, {item})
          BY <3>1, ApartPushed
        <4> QED
          BY <4>1 DEF Becomes, Sent
    <2> QED
      BY <2>1, <2>5, AfterStep
  <1> QED
    BY <1>1, <1>2

\* Payloads given up without a send.
GivesUp(G) ==
    /\ UNCHANGED telemetryVars
    /\ G \cap Sent = {}
    /\ Payloads \cap delivered' = Payloads \cap delivered
    /\ Payloads \cap dropped' = Payloads \cap (dropped \cup G)

\* See GivesUp.
LEMMA OtherCopies ==
    ASSUME CopyInv, NEW G, GivesUp(G)
    PROVE  CopyInv' /\ Sent' = Sent \cup (Payloads \cap G)
  <1> USE DEF GivesUp
  <1>1. telemetry' = telemetry /\ telemetryRetries' = telemetryRetries
    BY DEF telemetryVars
  <1>2. Payloads \cap delivered' \cap dropped' = {}
    BY DEF CopyInv, Apart, Sent, Everywhere
  <1>3. Payloads \cap (delivered' \cup dropped') = Payloads \cap (delivered \cup dropped \cup G)
    OBVIOUS
  <1>4. /\ Apart(telemetry, telemetryRetries, delivered', dropped')
        /\ Everywhere(telemetry, telemetryRetries, delivered', dropped') = Sent \cup (Payloads \cap G)
    <2>1. Settles(telemetry, telemetryRetries, delivered, dropped, delivered', dropped', G)
      BY <1>2, <1>3 DEF CopyInv, Sent, Settles
    <2> QED
      BY <2>1, ApartSettled DEF Becomes, Sent
  <1> QED
    BY <1>1, <1>4, AfterStep

\* Reports are not payloads.
LEMMA MetricCopies ==
    ASSUME NEW ids, RetryOK(ids), CopyInv, NEW r \in Requests, NEW answer, Metric(r, answer),
           UNCHANGED telemetryVars
    PROVE  CopyInv' /\ Sent' = Sent
  <1>1. Payloads \cap Requests = {}
    BY RetryAssumption DEF Requests
  <1>2. {e.of : e \in Evicted(metrics, MetricMax)} \subseteq Requests
    <2>1. [of |-> r, tried |-> 0] \in MetricBatches
      BY RetryAssumption DEF MetricBatches
    <2>2. Evicted(metrics, MetricMax) \subseteq MetricBatches
      BY <2>1, PushCappedIs, RetryAssumption DEF RetryOK, RetryTypeOK
    <2> QED
      BY <2>2 DEF MetricBatches
  <1>3. Payloads \cap delivered' = Payloads \cap delivered
    BY <1>1 DEF Metric
  <1>4. Payloads \cap dropped' = Payloads \cap (dropped \cup {})
    BY <1>1, <1>2 DEF Metric
  <1>5. GivesUp({})
    BY <1>3, <1>4 DEF GivesUp
  <1> QED
    BY <1>5, OtherCopies

\* Taking the buffer for a retry moves what is in it.
LEMMA SpawnCopies ==
    ASSUME CopyInv, NEW id, SpawnTelemetryRetry(id), UNCHANGED <<delivered, dropped>>
    PROVE  CopyInv' /\ Sent' = Sent
  <1>1. CASE telemetry = <<>>
    <2>1. telemetry' = telemetry /\ telemetryRetries' = telemetryRetries
      BY <1>1 DEF SpawnTelemetryRetry
    <2> QED
      BY <2>1, AfterStep DEF Sent, CopyInv
  <1>2. CASE telemetry # <<>>
    <2>0. PICK new : new = [id |-> id, run |-> app, left |-> telemetry]
      OBVIOUS
    <2>1. telemetryRetries' = telemetryRetries \cup {new} /\ telemetry' = <<>>
      BY <1>2, <2>0 DEF SpawnTelemetryRetry
    <2>2. new.left = telemetry
      BY <2>0
    <2>3. /\ Apart(<<>>, telemetryRetries \cup {new}, delivered, dropped)
          /\ Everywhere(<<>>, telemetryRetries \cup {new}, delivered, dropped) = Sent
      <3>1. Apart(new.left, telemetryRetries, delivered, dropped)
        BY <2>2 DEF CopyInv
      <3>2. /\ Apart(<<>>, telemetryRetries \cup {new}, delivered, dropped)
            /\ Everywhere(<<>>, telemetryRetries \cup {new}, delivered, dropped)
                 = Everywhere(new.left, telemetryRetries, delivered, dropped)
        <4>1. Becomes(new.left, telemetryRetries, delivered, dropped,
                      <<>>, telemetryRetries \cup {new}, delivered, dropped, {})
          BY <3>1, ApartTaken
        <4> QED
          BY <4>1 DEF Becomes
      <3> QED
        BY <2>2, <3>2 DEF Sent
    <2> QED
      BY <2>1, <2>3, AfterStep
  <1> QED
    BY <1>1, <1>2

\* An answer to a retry moves its first item.
LEMMA RetryCopies ==
    ASSUME NEW ids, RetryOK(ids), CopyInv, NEW answer,
           \/ \E t \in telemetryRetries : TelemetryRetry(t, answer)
           \/ \E t \in metricRetries : MetricRetry(t, answer)
    PROVE  CopyInv' /\ Sent' = Sent
  <1>1. ASSUME NEW t \in telemetryRetries, TelemetryRetry(t, answer)
        PROVE  CopyInv' /\ Sent' = Sent
    <2> DEFINE next == Head(t.left)
               item == next.item
               again == [next EXCEPT !.tried = next.tried + 1]
               R == Shorter(telemetryRetries, t)
               E == {e.item : e \in Evicted(telemetry, TelemetryMax)}
    <2>1. next \in TelemetryItems
      BY ShorterTypes
    <2>2. again \in [item : Items, run : 0..MaxRuns, tried : Nat] /\ again.item = item
      BY <2>1, RetryAssumption DEF TelemetryItems
    <2>3. next.tried + 1 < MaxRetries => again \in TelemetryItems
      BY <2>1, RetryAssumption DEF TelemetryItems
    <2>4. /\ Apart(telemetry, R, delivered, dropped)
          /\ item \notin Everywhere(telemetry, R, delivered, dropped)
          /\ Sent = Everywhere(telemetry, R, delivered, dropped) \cup ({item} \cap Payloads)
      BY ApartShorter
    <2>5. telemetryRetries' = R
      BY <1>1 DEF TelemetryRetry
    <2>6. \/ telemetry' = telemetry /\ dropped' = dropped /\ delivered' = delivered \cup {item}
          \/ /\ telemetry' = PushCapped(telemetry, next, TelemetryMax)
             /\ dropped' = dropped \cup E /\ delivered' = delivered
          \/ /\ next.tried + 1 < MaxRetries /\ telemetry' = Append(telemetry, again)
             /\ dropped' = dropped /\ delivered' = delivered
          \/ telemetry' = telemetry /\ dropped' = dropped \cup {item} /\ delivered' = delivered
      BY <1>1 DEF TelemetryRetry
    <2>7. telemetry \in Seq(TelemetryItems) /\ Once(telemetry) /\ item \notin Of(telemetry)
      BY <2>4 DEF RetryOK, RetryTypeOK, Apart, Everywhere
    <2>8. next.item = item
      OBVIOUS
    <2> HIDE DEF next, item, again, R, E
    <2>9. CASE \/ telemetry' = telemetry /\ dropped' = dropped /\ delivered' = delivered \cup {item}
               \/ telemetry' = telemetry /\ dropped' = dropped \cup {item} /\ delivered' = delivered
      <3>1. {item} \cap Everywhere(telemetry, R, delivered, dropped) = {}
        BY <2>4
      <3>2. Payloads \cap delivered' \cap dropped' = {}
        BY <2>4, <2>9 DEF Apart, Everywhere
      <3>3. Payloads \cap (delivered' \cup dropped') = Payloads \cap (delivered \cup dropped \cup {item})
        BY <2>9
      <3>4. /\ Apart(telemetry, R, delivered', dropped')
            /\ Everywhere(telemetry, R, delivered', dropped') = Sent
        <4>1. Settles(telemetry, R, delivered, dropped, delivered', dropped', {item})
          BY <2>4, <3>1, <3>2, <3>3 DEF Settles
        <4> QED
          BY <2>4, <4>1, ApartSettled DEF Becomes
      <3> QED
        BY <2>5, <2>9, <3>4, AfterStep
    <2>10. CASE /\ telemetry' = PushCapped(telemetry, next, TelemetryMax)
                /\ dropped' = dropped \cup E /\ delivered' = delivered
      <3>1. /\ Once(telemetry')
            /\ Of(telemetry') = (Of(telemetry) \ E) \cup ({item} \cap Payloads)
            /\ E \cap Payloads \subseteq Of(telemetry)
        BY <2>1, <2>7, <2>8, <2>10, OfPush, RetryAssumption DEF E
      <3>2. /\ Apart(telemetry', R, delivered, dropped \cup E)
            /\ Everywhere(telemetry', R, delivered, dropped \cup E) = Sent
        <4>1. Pushes(telemetry, R, delivered, dropped, telemetry', E, item)
          BY <2>4, <3>1 DEF Pushes
        <4> QED
          BY <2>4, <4>1, ApartPushed DEF Becomes
      <3> QED
        BY <2>5, <2>10, <3>2, AfterStep
    <2>11. CASE /\ next.tried + 1 < MaxRetries /\ telemetry' = Append(telemetry, again)
                /\ dropped' = dropped /\ delivered' = delivered
      <3>0. PICK none : none = {}
        OBVIOUS
      <3>1. /\ Once(telemetry')
            /\ Of(telemetry') = Of(telemetry) \cup ({item} \cap Payloads)
        BY <2>2, <2>3, <2>7, <2>11, OfAppend
      <3>2. /\ Of(telemetry') = (Of(telemetry) \ none) \cup ({item} \cap Payloads)
            /\ none \cap Payloads \subseteq Of(telemetry)
            /\ dropped \cup none = dropped
        BY <3>0, <3>1
      <3>3. Pushes(telemetry, R, delivered, dropped, telemetry', none, item)
        BY <2>4, <3>1, <3>2 DEF Pushes
      <3>4. /\ Apart(telemetry', R, delivered, dropped \cup none)
            /\ Everywhere(telemetry', R, delivered, dropped \cup none) = Sent
        <4>1. /\ Apart(telemetry', R, delivered, dropped \cup none)
              /\ Everywhere(telemetry', R, delivered, dropped \cup none)
                   = Everywhere(telemetry, R, delivered, dropped) \cup ({item} \cap Payloads)
          <5>1. Becomes(telemetry, R, delivered, dropped,
                        telemetry', R, delivered, dropped \cup none, {item})
            BY <3>3, ApartPushed
          <5> QED
            BY <5>1 DEF Becomes
        <4> QED
          BY <2>4, <4>1, Zenon
      <3> QED
        BY <2>5, <2>11, <3>2, <3>4, AfterStep
    <2> QED
      BY <2>6, <2>9, <2>10, <2>11
  <1>2. ASSUME NEW t \in metricRetries, MetricRetry(t, answer)
        PROVE  CopyInv' /\ Sent' = Sent
    <2>1. Head(t.left) \in MetricBatches
      BY ShorterTypes
    <2>2. Head(t.left).of \notin Payloads
      BY <2>1, RetryAssumption DEF MetricBatches, Requests
    <2>3. UNCHANGED telemetryVars
      BY <1>2 DEF MetricRetry
    <2>4. /\ Payloads \cap delivered' = Payloads \cap delivered
          /\ Payloads \cap dropped' = Payloads \cap (dropped \cup {})
      BY <1>2, <2>2 DEF MetricRetry
    <2>5. GivesUp({})
      BY <2>3, <2>4 DEF GivesUp
    <2> QED
      BY <2>5, OtherCopies
  <1> QED
    BY <1>1, <1>2

\* Payloads are all there is in Sent, and no request is one.
LEMMA PayloadsOnly == Sent \subseteq Payloads /\ Payloads \cap Requests = {}
  <1>1. Payloads \cap Requests = {}
    BY RetryAssumption DEF Requests
  <1>2. \A s : Of(s) \subseteq Payloads
    BY DEF Of
  <1>3. InRetries(telemetryRetries) \subseteq Payloads
    BY <1>2, InRetriesIs
  <1> QED
    BY <1>1, <1>2, <1>3 DEF Sent, Everywhere

\* The buffers of ApmRetry are left alone.
LEMMA SentSame ==
    ASSUME CopyInv, UNCHANGED <<telemetryVars, delivered, dropped>>
    PROVE  CopyInv' /\ Sent' = Sent
  BY AfterStep DEF CopyInv, Sent, telemetryVars

\* One of three sets that are apart.
LEMMA OneOfThree ==
    ASSUME NEW A, NEW B, NEW C, NEW p, ~(p \in A /\ p \in B), ~(p \in A \cup B /\ p \in C)
    PROVE  Cardinality({S \in {<<1, A>>, <<2, B>>, <<3, C>>} : p \in S[2]})
             = IF p \in A \cup B \cup C THEN 1 ELSE 0
  <1> DEFINE D == {S \in {<<1, A>>, <<2, B>>, <<3, C>>} : p \in S[2]}
  <1>1. CASE p \in A
    <2>1. D = {<<1, A>>}
      BY <1>1
    <2> HIDE DEF D
    <2>2. Cardinality(D) = 1
      BY <2>1, FS_Singleton
    <2> QED
      BY <1>1, <2>2 DEF D
  <1>2. CASE p \in B
    <2>1. D = {<<2, B>>}
      BY <1>2
    <2> HIDE DEF D
    <2>2. Cardinality(D) = 1
      BY <2>1, FS_Singleton
    <2> QED
      BY <1>2, <2>2 DEF D
  <1>3. CASE p \in C
    <2>1. D = {<<3, C>>}
      BY <1>3
    <2> HIDE DEF D
    <2>2. Cardinality(D) = 1
      BY <2>1, FS_Singleton
    <2> QED
      BY <1>3, <2>2 DEF D
  <1>4. CASE p \notin A \cup B \cup C
    <2>1. D = {}
      BY <1>4
    <2> HIDE DEF D
    <2>2. Cardinality(D) = 0
      BY <2>1, FS_EmptySet
    <2> QED
      BY <1>4, <2>2 DEF D
  <1> QED
    BY <1>1, <1>2, <1>3, <1>4
=============================================================================
