-------------------------- MODULE ApmDelivery_proofs --------------------------
(***************************************************************************)
(* Proofs about ApmDelivery, on top of what the operations of ApmSession   *)
(* and ApmRetry preserve:                                                  *)
(*   - its types (TypeInv);                                                *)
(*   - a payload is in one place only (OutInv), and what a task took is    *)
(*     kept (LossStep);                                                    *)
(*   - the session stays the same under a send;                            *)
(*   - the last INVOKE's request keeps its entry (EntryInv).               *)
(***************************************************************************)
EXTENDS ApmDelivery, ApmRetry_proofs

-----------------------------------------------------------------------------
(* Types.                                                                  *)

\* A payload is in FAILED_AGENT_PAYLOADS once, and there only, while its place is "failed".
FailedInv ==
    /\ IsInjective(failed)
    /\ \A p \in Payloads : place[p] = "failed" <=> p \in ToSet(failed)

\* The conjuncts of TypeOK about payloads.
Places == {"away", "orphan", "buffer", "taken", "sending", "failed", "out"}
PlaceOK ==
    /\ place \in [Payloads -> Places]
    /\ under \in [Payloads -> Slots \cup {NoSlot}]
    /\ holder \in [Payloads -> Tasks \cup {Nobody}]
    /\ sentWith \in [Payloads -> 0..MaxRuns]
    /\ \A p \in Payloads : (holder[p] # Nobody) <=> (place[p] \in {"taken", "sending"})
    /\ failed \in Seq(Payloads)
    /\ FailedInv

\* Those about the loop, the entries and the tasks.  An INVOKE is one of a request.
LoopOK ==
    /\ loop \in {"next"} \cup InInvoke \cup Stopping \cup Emergency \cup Ended
    /\ invoked \in 0..Invocations /\ started \in 0..Invocations
    /\ active \in 0..Invocations
    /\ stale \in BOOLEAN
    /\ loop \in InInvoke => invoked # None
\* A task that sends the payloads of an entry, or posts its report, is at its slot.
PendWorkers == {w \in Workers : w.stage \in {"sending", "posting"} => w.now \in Slots}
ReqWorkers  == {w \in Workers : w.stage = "sending" => w.now \in Slots}

RestOK ==
    /\ slot \in [Requests -> {"none", "INVOKE", "start"}]
    /\ processor \in SUBSET Requests
    /\ pend \in [RetryIds -> PendWorkers]
    /\ req \in [Requests -> ReqWorkers]
    /\ report \in [Requests -> {"none", "listener", "pending", "gone"}]
    /\ sweep \in SUBSET Requests
    /\ lost \in SUBSET (Payloads \cup Requests)

TypeInv == SessionTypeOK /\ RetryOK(RetryIds) /\ LoopOK /\ RestOK /\ PlaceOK

\* TypeInv is TypeOK, and a little more.
LEMMA TypeInvIsMore == TypeInv => TypeOK
  <1> SUFFICES ASSUME TypeInv PROVE TypeOK
    OBVIOUS
  <1>1. SessionTypeOK /\ RetryTypeOK(RetryIds)
    BY DEF TypeInv, RetryOK
  <1>2. /\ loop \in {"next"} \cup InInvoke \cup Stopping \cup Emergency \cup Ended
        /\ invoked \in 0..Invocations /\ started \in 0..Invocations
        /\ active \in 0..Invocations
        /\ stale \in BOOLEAN
    BY DEF TypeInv, LoopOK
  <1>3. /\ slot \in [Requests -> {"none", "INVOKE", "start"}]
        /\ processor \in SUBSET Requests
        /\ pend \in [RetryIds -> Workers]
        /\ req \in [Requests -> Workers]
        /\ report \in [Requests -> {"none", "listener", "pending", "gone"}]
        /\ sweep \in SUBSET Requests
        /\ lost \in SUBSET (Payloads \cup Requests)
    BY DEF TypeInv, RestOK, PendWorkers, ReqWorkers
  <1>4. /\ place \in [Payloads -> {"away", "orphan", "buffer", "taken", "sending", "failed", "out"}]
        /\ under \in [Payloads -> Slots \cup {NoSlot}]
        /\ holder \in [Payloads -> Tasks \cup {Nobody}]
        /\ sentWith \in [Payloads -> 0..MaxRuns]
        /\ \A p \in Payloads : (holder[p] # Nobody) <=> (place[p] \in {"taken", "sending"})
        /\ failed \in Seq(Payloads)
    BY DEF TypeInv, PlaceOK, Places
  <1> QED
    BY <1>1, <1>2, <1>3, <1>4, Zenon DEF TypeOK

\* The initial states.
LEMMA TypeInit == Init => TypeInv
  <1> SUFFICES ASSUME Init PROVE TypeInv
    OBVIOUS
  <1>1. SessionTypeOK
    BY SessionStarts DEF Init
  <1>2. RetryOK(RetryIds)
    BY EmptySeq DEF Init, RetryInit, RetryOK, RetryTypeOK
  <1>3. LoopOK
    <2>1. stale \in BOOLEAN
      BY Zenon DEF Init
    <2>2. /\ invoked \in 0..Invocations /\ started \in 0..Invocations /\ active \in 0..Invocations
          /\ loop = "next"
      BY RetryAssumption DEF Init, None
    <2> QED
      BY <2>1, <2>2 DEF LoopOK, InInvoke
  <1>4. RestOK
    <2>1. Worker("none") \in PendWorkers \cap ReqWorkers
      BY DEF Worker, Workers, PendWorkers, ReqWorkers
    <2> QED
      BY <2>1 DEF Init, RestOK
  <1>5. PlaceOK
    <2>1. <<>> \in Seq(Payloads) /\ IsInjective(<<>>) /\ ToSet(<<>>) = {}
      BY EmptySeq DEF IsInjective, ToSet
    <2>2. None \in 0..MaxRuns
      BY RunsAssumption DEF None
    <2> QED
      BY <2>1, <2>2 DEF Init, PlaceOK, FailedInv, Places
  <1> QED
    BY <1>1, <1>2, <1>3, <1>4, <1>5 DEF TypeInv

\* What is unchanged keeps its type.
LEMMA LoopSame ==
    ASSUME LoopOK, UNCHANGED <<loopVars, active, started>>
    PROVE  LoopOK'
  BY DEF LoopOK, loopVars

\* See LoopSame.
LEMMA RestSame ==
    ASSUME RestOK, UNCHANGED <<slot, processor, workerVars, report, sweep, lost>>
    PROVE  RestOK'
  BY DEF RestOK, workerVars

\* See LoopSame.
LEMMA PlaceSame ==
    ASSUME PlaceOK, UNCHANGED payloadVars
    PROVE  PlaceOK'
  BY DEF PlaceOK, FailedInv, payloadVars, IsInjective, ToSet

\* Payloads that move, but neither into nor out of FAILED_AGENT_PAYLOADS.
LEMMA PlaceMoved ==
    ASSUME PlaceOK, UNCHANGED failed,
           place' \in [Payloads -> Places],
           under' \in [Payloads -> Slots \cup {NoSlot}],
           holder' \in [Payloads -> Tasks \cup {Nobody}],
           sentWith' \in [Payloads -> 0..MaxRuns],
           \A p \in Payloads : (holder'[p] # Nobody) <=> (place'[p] \in {"taken", "sending"}),
           \A p \in Payloads : place'[p] = "failed" <=> place[p] = "failed"
    PROVE  PlaceOK'
  BY DEF PlaceOK, FailedInv, IsInjective, ToSet

\* A task that takes buffers.
LEMMA TookTypes ==
    ASSUME PlaceOK, NEW S, NEW t \in Tasks, Took(S, t), \A p \in S : place[p] = "buffer",
           UNCHANGED <<under, sentWith, failed>>
    PROVE  PlaceOK'
  <1>1. t # Nobody
    BY DEF Tasks, Nobody
  <1>2. \A p \in Payloads :
           /\ place'[p] = IF p \in S THEN "taken" ELSE place[p]
           /\ holder'[p] = IF p \in S THEN t ELSE holder[p]
    BY DEF Took
  <1>3. place' \in [Payloads -> Places] /\ holder' \in [Payloads -> Tasks \cup {Nobody}]
    BY DEF PlaceOK, Took, Places
  <1>4. \A p \in Payloads : (holder'[p] # Nobody) <=> (place'[p] \in {"taken", "sending"})
    BY <1>1, <1>2 DEF PlaceOK
  <1>5. \A p \in Payloads : place'[p] = "failed" <=> place[p] = "failed"
    BY <1>2
  <1>6. under' \in [Payloads -> Slots \cup {NoSlot}] /\ sentWith' \in [Payloads -> 0..MaxRuns]
    BY DEF PlaceOK
  <1> QED
    BY <1>3, <1>4, <1>5, <1>6, PlaceMoved

\* The tasks are ones.
LEMMA TaskTypes ==
    /\ \A n \in RetryIds : Task("pending", n) \in Tasks /\ Task("retry", n) \in Tasks
    /\ \A r \in Requests : Task("late", r) \in Tasks /\ Task("flow", r) \in Tasks
    /\ Task("sweep", None) \in Tasks /\ Task("retry", None) \in Tasks
    /\ Requests \subseteq RetryIds /\ None \in RetryIds
  BY RetryAssumption DEF Task, Tasks, RetryIds, Requests, None

\* A cleanup of entries.
LEMMA CleanupTypes ==
    ASSUME RestOK, NEW Q \in SUBSET Requests, Cleanup(Q)
    PROVE  /\ slot' \in [Requests -> {"none", "INVOKE", "start"}]
           /\ report' \in [Requests -> {"none", "listener", "pending", "gone"}]
           /\ lost' \in SUBSET (Payloads \cup Requests)
           /\ UNCHANGED <<active, started>>
  BY DEF RestOK, Cleanup

\* The next entry of process_pending_agent_payloads.
LEMMA VisitTypes ==
    ASSUME RestOK, PlaceOK, NEW n \in RetryIds, NEW todo \in SUBSET Slots,
           NEW finished \in SUBSET Requests, Visit(n, todo, finished), UNCHANGED <<req, sweep>>
    PROVE  RestOK' /\ PlaceOK' /\ UNCHANGED <<active, started>>
  <1>1. PICK skip \in SUBSET {s \in todo : Quiet(s)} :
            /\ Cleanup(finished \cup {s.of : s \in skip})
            /\ processor' = processor \ (finished \cup {s.of : s \in skip})
            /\ \/ /\ skip = todo
                  /\ pend' = [pend EXCEPT ![n] = Worker("done")]
                  /\ UNCHANGED <<place, holder>>
               \/ \E s \in todo :
                    /\ ~Quiet(s)
                    /\ Took(buffer(s), Task("pending", n))
                    /\ pend' = [pend EXCEPT ![n] = [stage |-> "sending",
                                                    todo |-> todo \ (skip \cup {s}), now |-> s]]
            /\ UNCHANGED <<under, sentWith, failed>>
    BY DEF Visit
  <1>2. finished \cup {s.of : s \in skip} \subseteq Requests
    BY DEF Slots
  <1>3. /\ slot' \in [Requests -> {"none", "INVOKE", "start"}]
        /\ report' \in [Requests -> {"none", "listener", "pending", "gone"}]
        /\ lost' \in SUBSET (Payloads \cup Requests)
        /\ UNCHANGED <<active, started>>
    BY <1>1, <1>2, CleanupTypes
  <1>4. processor' \in SUBSET Requests
    BY <1>1 DEF RestOK
  <1>5. CASE skip = todo /\ pend' = [pend EXCEPT ![n] = Worker("done")] /\ UNCHANGED <<place, holder>>
    <2>1. Worker("done") \in PendWorkers
      BY DEF Worker, Workers, PendWorkers
    <2>2. pend' \in [RetryIds -> PendWorkers]
      BY <1>5, <2>1 DEF RestOK
    <2>3. PlaceOK'
      BY <1>1, <1>5, PlaceSame DEF payloadVars
    <2> QED
      BY <1>3, <1>4, <2>2, <2>3 DEF RestOK
  <1>6. ASSUME NEW s \in todo, Took(buffer(s), Task("pending", n)),
               pend' = [pend EXCEPT ![n] = [stage |-> "sending",
                                            todo |-> todo \ (skip \cup {s}), now |-> s]]
        PROVE  RestOK' /\ PlaceOK'
    <2>1. [stage |-> "sending", todo |-> todo \ (skip \cup {s}), now |-> s] \in PendWorkers
      BY DEF Workers, PendWorkers
    <2>2. pend' \in [RetryIds -> PendWorkers]
      BY <1>6, <2>1 DEF RestOK
    <2>3. PlaceOK'
      BY <1>1, <1>6, TookTypes, TaskTypes DEF buffer
    <2> QED
      BY <1>3, <1>4, <2>2, <2>3 DEF RestOK
  <1> QED
    BY <1>1, <1>3, <1>5, <1>6

\* A payload that could not be sent is kept in FAILED_AGENT_PAYLOADS, or given up.
LEMMA NotSentTypes ==
    ASSUME RestOK, PlaceOK, NEW p \in Payloads, place[p] = "taken", NotSent(p), UNCHANGED under
    PROVE  /\ PlaceOK' /\ lost' \in SUBSET (Payloads \cup Requests)
           /\ \E G \in SUBSET Payloads :
                 /\ dropped' = dropped \cup G
                 /\ \A q \in G : place[q] = "failed" /\ place'[q] = "out"
  <1>1. p \notin ToSet(failed) /\ failed \in Seq(Payloads) /\ IsInjective(failed)
    BY DEF PlaceOK, FailedInv
  <1>2. /\ sentWith' = sentWith /\ under' = under
        /\ holder' \in [Payloads -> Tasks \cup {Nobody}]
        /\ \A q \in Payloads : holder'[q] = IF q = p THEN Nobody ELSE holder[q]
    BY DEF NotSent, PlaceOK
  <1>3. CASE KeepsNothing(holder[p])
    <2>1. place' = [place EXCEPT ![p] = "out"] /\ lost' = lost \cup {p} /\ UNCHANGED <<failed, dropped>>
      BY <1>3 DEF NotSent
    <2>2. PlaceOK'
      <3>1. /\ place' \in [Payloads -> Places] /\ under' \in [Payloads -> Slots \cup {NoSlot}]
            /\ sentWith' \in [Payloads -> 0..MaxRuns]
        BY <1>2, <2>1 DEF PlaceOK, Places
      <3>2. \A q \in Payloads : (holder'[q] # Nobody) <=> (place'[q] \in {"taken", "sending"})
        BY <1>2, <2>1 DEF PlaceOK
      <3>3. \A q \in Payloads : place'[q] = "failed" <=> place[q] = "failed"
        BY <2>1 DEF PlaceOK
      <3> QED
        BY <1>2, <2>1, <3>1, <3>2, <3>3, PlaceMoved
    <2>3. lost' \in SUBSET (Payloads \cup Requests)
      BY <2>1 DEF RestOK
    <2>4. dropped' = dropped \cup {} /\ {} \in SUBSET Payloads
      BY <2>1
    <2> QED
      BY <2>2, <2>3, <2>4
  <1>4. CASE ~KeepsNothing(holder[p])
    <2> DEFINE E == Evicted(failed, PayloadMax)
    <2>1. /\ failed' = PushCapped(failed, p, PayloadMax) /\ lost' = lost
          /\ place' = [q \in Payloads |-> IF q = p THEN "failed" ELSE IF q \in E THEN "out" ELSE place[q]]
          /\ dropped' = dropped \cup E
      BY <1>4 DEF NotSent
    <2>2. /\ failed' \in Seq(Payloads) /\ E \subseteq Payloads
          /\ \/ failed' = Append(failed, p) /\ E = {}
             \/ /\ failed # <<>> /\ Tail(failed) \in Seq(Payloads)
                /\ failed' = Append(Tail(failed), p) /\ E = {Head(failed)}
      <3>1. PayloadMax \in Nat \ {0}
        BY DeliveryAssumption
      <3>2. /\ PushCapped(failed, p, PayloadMax) \in Seq(Payloads)
            /\ Evicted(failed, PayloadMax) \subseteq Payloads
            /\ \/ /\ PushCapped(failed, p, PayloadMax) = Append(failed, p)
                  /\ Evicted(failed, PayloadMax) = {}
               \/ /\ failed # <<>> /\ Tail(failed) \in Seq(Payloads)
                  /\ PushCapped(failed, p, PayloadMax) = Append(Tail(failed), p)
                  /\ Evicted(failed, PayloadMax) = {Head(failed)}
        BY <1>1, <3>1, PushCappedIs
      <3> QED
        BY <2>1, <3>2
    <2> HIDE DEF E
    <2>3. /\ IsInjective(failed') /\ ToSet(failed') = (ToSet(failed) \ E) \cup {p}
          /\ E \subseteq ToSet(failed)
      <3>1. CASE failed' = Append(failed, p) /\ E = {}
        BY <1>1, <3>1, AppendNew, AppendElements
      <3>2. CASE /\ failed # <<>> /\ Tail(failed) \in Seq(Payloads)
                 /\ failed' = Append(Tail(failed), p) /\ E = {Head(failed)}
        <4>1. /\ IsInjective(Tail(failed)) /\ Head(failed) \notin ToSet(Tail(failed))
              /\ ToSet(failed) = {Head(failed)} \cup ToSet(Tail(failed))
          BY <1>1, <3>2, TailDistinct, HeadTailElements
        <4>2. p \notin ToSet(Tail(failed))
          BY <1>1, <4>1
        <4>3. IsInjective(failed') /\ ToSet(failed') = ToSet(Tail(failed)) \cup {p}
          <5>1. IsInjective(Append(Tail(failed), p))
            BY <3>2, <4>1, <4>2, AppendNew
          <5>2. ToSet(Append(Tail(failed), p)) = ToSet(Tail(failed)) \cup {p}
            <6>1. PICK rest \in Seq(Payloads) : rest = Tail(failed)
              BY <3>2
            <6>2. ToSet(Append(rest, p)) = ToSet(rest) \cup {p}
              BY AppendElements
            <6> QED
              BY <6>1, <6>2
          <5> QED
            BY <3>2, <5>1, <5>2
        <4> QED
          BY <3>2, <4>1, <4>3
      <3> QED
        BY <2>2, <3>1, <3>2
    <2>4. \A q \in Payloads :
             place'[q] = IF q = p THEN "failed" ELSE IF q \in E THEN "out" ELSE place[q]
      BY <2>1
    <2>5. \A q \in E : place[q] = "failed" /\ q # p /\ holder[q] = Nobody
      BY <1>1, <2>2, <2>3 DEF PlaceOK, FailedInv
    <2>6. place' \in [Payloads -> Places]
      BY <2>1 DEF PlaceOK, Places
    <2>7. \A q \in Payloads : (holder'[q] # Nobody) <=> (place'[q] \in {"taken", "sending"})
      BY <1>2, <2>4, <2>5 DEF PlaceOK
    <2>8. \A q \in Payloads : place'[q] = "failed" <=> q \in ToSet(failed')
      BY <2>3, <2>4, <2>5 DEF PlaceOK, FailedInv
    <2>9. PlaceOK'
      BY <1>2, <2>2, <2>3, <2>6, <2>7, <2>8 DEF PlaceOK, FailedInv
    <2>10. \A q \in E : place[q] = "failed" /\ place'[q] = "out"
      BY <2>2, <2>4, <2>5
    <2> QED
      BY <2>1, <2>2, <2>9, <2>10 DEF RestOK
  <1> QED
    BY <1>3, <1>4

\* One lemma per group of actions.  The session, and the retries.
LEMMA TypeRetries ==
    ASSUME TypeInv,
           \/ TelemetryRetried \/ MetricRetried \/ BackgroundInstall \/ SessionEnds
           \/ \E h \in Handshakes : HandshakeEnds(h)
    PROVE  TypeInv'
  <1> USE DEF TypeInv
  <1>1. UNCHANGED restVars
    BY DEF TelemetryRetried, MetricRetried, BackgroundInstall, SessionEnds, HandshakeEnds
  <1>2. LoopOK' /\ RestOK' /\ PlaceOK'
    BY <1>1, LoopSame, RestSame, PlaceSame DEF restVars, requestVars
  <1>3. RetryOK(RetryIds)' /\ SessionTypeOK'
    <2>1. CASE \/ BackgroundInstall \/ SessionEnds \/ \E h \in Handshakes : HandshakeEnds(h)
      <3>1. UNCHANGED retryVars
        BY <2>1 DEF BackgroundInstall, SessionEnds, HandshakeEnds
      <3>2. "background" \in Handshakes
        BY RunsAssumption
      <3>3. PICK h \in Handshakes :
               \/ Connect(h) \/ ConnectFails(h) \/ signal_handshake_fatal(h)
               \/ Install(h) \/ CollectorRestart
        BY <2>1, <3>2 DEF BackgroundInstall, SessionEnds, HandshakeEnds
      <3> QED
        BY <3>1, <3>3, RetrySame, SessionTypes
    <2>2. CASE TelemetryRetried
      BY <2>2, RetryTypes DEF TelemetryRetried
    <2>3. CASE MetricRetried
      BY <2>3, RetryTypes DEF MetricRetried
    <2> QED
      BY <2>1, <2>2, <2>3
  <1> QED
    BY <1>2, <1>3

\* INVOKE.
LEMMA TypeInvoke ==
    ASSUME TypeInv, Invoke \/ InvokeStep
    PROVE  TypeInv'
  <1> USE DEF TypeInv
  <1>1. CASE Invoke
    <2>1. LoopOK'
      <3>1. stale' \in BOOLEAN
        BY <1>1 DEF Invoke, SessionTypeOK
      <3>2. invoked' \in 0..Invocations /\ invoked' # None
        BY <1>1, RetryAssumption DEF Invoke, LoopOK, None
      <3>3. loop' = "reconnect" /\ UNCHANGED <<started, active>>
        BY <1>1 DEF Invoke, requestVars
      <3> QED
        BY <3>1, <3>2, <3>3 DEF LoopOK, InInvoke
    <2>2. SessionTypeOK'
      BY <1>1 DEF Invoke, SessionTypeOK
    <2>3. UNCHANGED <<retryVars, requestVars, payloadVars, workerVars, report, sweep, lost>>
      BY <1>1 DEF Invoke
    <2> QED
      BY <2>1, <2>2, <2>3, RetrySame, RestSame, PlaceSame DEF requestVars
  <1>2. CASE InvokeReconnect
    <2>1. invoked \in RetryIds
      BY DEF LoopOK, RetryIds
    <2>2. RetryOK(RetryIds)'
      <3>1. \/ SpawnTelemetryRetry(invoked) \/ UNCHANGED telemetryVars
        BY <1>2 DEF InvokeReconnect, telemetryVars
      <3>2. SpawnMetricRetry(invoked) /\ UNCHANGED <<delivered, dropped>>
        BY <1>2 DEF InvokeReconnect
      <3> QED
        BY <2>1, <3>1, <3>2, AfterSpawn
    <2>3. SessionTypeOK'
      <3>1. app' \in 0..MaxRuns /\ None \in 0..MaxRuns
        BY <1>2, RunsAssumption DEF InvokeReconnect, SessionTypeOK, None
      <3>2. Trying \in [stage : {"idle", "trying", "connected"}, run : 0..MaxRuns]
        BY <3>1 DEF Trying
      <3>3. handshake' \in [Handshakes -> [stage : {"idle", "trying", "connected"}, run : 0..MaxRuns]]
        BY <1>2, <3>2 DEF InvokeReconnect, SessionTypeOK
      <3> QED
        BY <1>2, <3>1, <3>3 DEF InvokeReconnect, SessionTypeOK
    <2>4. LoopOK'
      BY <1>2 DEF InvokeReconnect, LoopOK, InInvoke, requestVars
    <2>5. UNCHANGED <<requestVars, payloadVars, workerVars, report, sweep, lost>>
      BY <1>2 DEF InvokeReconnect
    <2> QED
      BY <2>2, <2>3, <2>4, <2>5, RestSame, PlaceSame DEF requestVars
  <1>3. CASE InvokeCreate
    <2> DEFINE orphans == {p \in Payloads : place[p] = "orphan"}
    <2>1. invoked \in Requests /\ Requests \subseteq RetryIds
      BY <1>3, RetryAssumption DEF InvokeCreate, LoopOK, InInvoke, None, Requests, RetryIds
    <2>2. Task("retry", invoked) \in Tasks /\ Task("retry", invoked) # Nobody
      BY <2>1 DEF Task, Tasks, Nobody
    <2>3. {failed[i] : i \in DOMAIN failed} = ToSet(failed)
      BY Zenon DEF ToSet
    <2>4. /\ failed' = <<>> /\ UNCHANGED sentWith
          /\ place' = [p \in Payloads |-> IF p \in ToSet(failed) THEN "taken"
                                          ELSE IF p \in orphans THEN "buffer" ELSE place[p]]
          /\ holder' = [p \in Payloads |-> IF p \in ToSet(failed) THEN Task("retry", invoked)
                                           ELSE holder[p]]
          /\ under' = [p \in Payloads |-> IF p \in orphans THEN [of |-> invoked, made |-> "INVOKE"]
                                          ELSE under[p]]
      BY <1>3, <2>3 DEF InvokeCreate
    <2>5. \A p \in Payloads : (holder'[p] # Nobody) <=> (place'[p] \in {"taken", "sending"})
      BY <2>2, <2>4 DEF PlaceOK
    <2>6. /\ place' \in [Payloads -> Places] /\ holder' \in [Payloads -> Tasks \cup {Nobody}]
          /\ sentWith' \in [Payloads -> 0..MaxRuns]
      BY <2>2, <2>4 DEF PlaceOK, Places
    <2>7. under' \in [Payloads -> Slots \cup {NoSlot}]
      <3>1. [of |-> invoked, made |-> "INVOKE"] \in Slots
        BY <2>1 DEF Slots
      <3> QED
        BY <2>4, <3>1 DEF PlaceOK
    <2>8. \A p \in Payloads : place'[p] # "failed"
      BY <2>4 DEF PlaceOK, FailedInv
    <2>9. failed' \in Seq(Payloads) /\ IsInjective(failed') /\ ToSet(failed') = {}
      BY <2>4, EmptySeq DEF IsInjective, ToSet
    <2>10. PlaceOK'
      BY <2>5, <2>6, <2>7, <2>8, <2>9 DEF PlaceOK, FailedInv
    <2>11. LoopOK'
      BY <1>3 DEF InvokeCreate, LoopOK, InInvoke
    <2>12. RestOK'
      <3>1. slot' \in [Requests -> {"none", "INVOKE", "start"}]
        BY <1>3 DEF InvokeCreate, RestOK
      <3>2. UNCHANGED <<processor, workerVars, report, sweep, lost>>
        BY <1>3 DEF InvokeCreate
      <3> QED
        BY <3>1, <3>2 DEF RestOK, workerVars
    <2>13. UNCHANGED <<sessionVars, retryVars>>
      BY <1>3 DEF InvokeCreate
    <2> QED
      BY <2>10, <2>11, <2>12, <2>13, SessionSame, RetrySame DEF sessionVars
  <1>4. CASE InvokeProcess
    <2>1. invoked \in Requests
      BY <1>4, RetryAssumption DEF InvokeProcess, LoopOK, InInvoke, None, Requests
    <2>2. Worker("spawned") \in PendWorkers \cap ReqWorkers
      BY DEF Worker, Workers, PendWorkers, ReqWorkers
    <2>3. RestOK'
      BY <1>4, <2>1, <2>2 DEF InvokeProcess, RestOK
    <2>4. LoopOK'
      BY <1>4 DEF InvokeProcess, LoopOK, InInvoke
    <2>5. UNCHANGED <<sessionVars, retryVars, payloadVars>>
      BY <1>4 DEF InvokeProcess
    <2> QED
      BY <2>3, <2>4, <2>5, SessionSame, RetrySame, PlaceSame DEF sessionVars
  <1>5. CASE Joined \/ HandshakeWaited
    <2>1. LoopOK'
      BY <1>5 DEF Joined, HandshakeWaited, LoopOK, InInvoke, requestVars
    <2>2. UNCHANGED <<sessionVars, retryVars, requestVars, payloadVars, workerVars, report,
                      sweep, lost>>
      BY <1>5 DEF Joined, HandshakeWaited
    <2> QED
      BY <2>1, <2>2, SessionSame, RetrySame, RestSame, PlaceSame DEF sessionVars, requestVars
  <1> QED
    BY <1>1, <1>2, <1>3, <1>4, <1>5 DEF InvokeStep

\* The pipe, the listener and the sends.
LEMMA TypeSends ==
    ASSUME TypeInv,
           \E p \in Payloads : route_payload_to_active_request(p) \/ StartSend(p) \/ Sends(p)
    PROVE  TypeInv'
  <1> USE DEF TypeInv
  <1>1. PICK p \in Payloads : route_payload_to_active_request(p) \/ StartSend(p) \/ Sends(p)
    OBVIOUS
  <1>2. CASE route_payload_to_active_request(p)
    <2>1. UNCHANGED <<sessionVars, retryVars, loopVars, requestVars, holder, sentWith, failed,
                      workerVars, report, sweep>>
      BY <1>2 DEF route_payload_to_active_request
    <2>2. place[p] = "away" /\ holder[p] = Nobody
      BY <1>2 DEF route_payload_to_active_request, PlaceOK
    <2>3. \/ place' = [place EXCEPT ![p] = "orphan"] /\ UNCHANGED <<under, lost>>
          \/ /\ active \in Requests /\ slot[active] # "none"
             /\ place' = [place EXCEPT ![p] = "buffer"]
             /\ under' = [under EXCEPT ![p] = SlotOf(active)]
             /\ UNCHANGED lost
          \/ /\ place' = [place EXCEPT ![p] = "out"]
             /\ lost' = lost \cup {p}
             /\ UNCHANGED under
      BY <1>2 DEF route_payload_to_active_request, registered
    <2>4. active \in Requests /\ slot[active] # "none" => SlotOf(active) \in Slots
      BY DEF RestOK, SlotOf, Slots
    <2>5. place' \in [Payloads -> Places] /\ under' \in [Payloads -> Slots \cup {NoSlot}]
          /\ lost' \in SUBSET (Payloads \cup Requests)
      BY <2>3, <2>4 DEF PlaceOK, Places, RestOK
    <2>6. \A q \in Payloads : /\ (holder'[q] # Nobody) <=> (place'[q] \in {"taken", "sending"})
                              /\ place'[q] = "failed" <=> place[q] = "failed"
      BY <2>1, <2>2, <2>3 DEF PlaceOK
    <2>7. PlaceOK'
      <3>1. /\ UNCHANGED failed /\ holder' \in [Payloads -> Tasks \cup {Nobody}]
            /\ sentWith' \in [Payloads -> 0..MaxRuns]
        BY <2>1 DEF PlaceOK
      <3> QED
        BY <2>5, <2>6, <3>1, PlaceMoved
    <2>8. RestOK'
      BY <2>1, <2>5 DEF RestOK, requestVars, workerVars
    <2> QED
      BY <2>1, <2>7, <2>8, SessionSame, RetrySame, LoopSame DEF sessionVars, requestVars
  <1>3. CASE StartSend(p)
    <2>1. /\ UNCHANGED <<sessionVars, telemetryVars, metricVars, delivered, loopVars, requestVars,
                         under, workerVars, report, sweep>>
          /\ place[p] = "taken"
      BY <1>3 DEF StartSend, Next2Send
    <2>2. PlaceOK' /\ lost' \in SUBSET (Payloads \cup Requests)
          /\ dropped' \in SUBSET (Items \cup Requests)
      <3>1. CASE NotSent(p)
        <4>1. /\ PlaceOK' /\ lost' \in SUBSET (Payloads \cup Requests)
              /\ \E G \in SUBSET Payloads : dropped' = dropped \cup G
          BY <2>1, <3>1, NotSentTypes
        <4> QED
          BY <4>1 DEF RetryOK, RetryTypeOK, Items
      <3>2. CASE ~NotSent(p)
        <4>1. /\ place' = [place EXCEPT ![p] = "sending"]
              /\ sentWith' = [sentWith EXCEPT ![p] = app]
              /\ UNCHANGED <<holder, failed, dropped, lost>>
          BY <1>3, <3>2 DEF StartSend
        <4>2. /\ place' \in [Payloads -> Places] /\ sentWith' \in [Payloads -> 0..MaxRuns]
              /\ under' \in [Payloads -> Slots \cup {NoSlot}]
              /\ holder' \in [Payloads -> Tasks \cup {Nobody}]
          BY <2>1, <4>1 DEF PlaceOK, Places, SessionTypeOK
        <4>3. \A q \in Payloads : /\ (holder'[q] # Nobody) <=> (place'[q] \in {"taken", "sending"})
                                  /\ place'[q] = "failed" <=> place[q] = "failed"
          BY <2>1, <4>1 DEF PlaceOK
        <4>4. PlaceOK'
          BY <4>1, <4>2, <4>3, PlaceMoved
        <4> QED
          BY <4>1, <4>4 DEF RestOK, RetryOK, RetryTypeOK
      <3> QED
        BY <3>1, <3>2
    <2>3. RestOK'
      BY <2>1, <2>2 DEF RestOK, requestVars, workerVars
    <2>4. RetryOK(RetryIds)'
      BY <2>1, <2>2 DEF RetryOK, RetryTypeOK, telemetryVars, metricVars
    <2> QED
      BY <2>1, <2>2, <2>3, <2>4, SessionSame, LoopSame DEF sessionVars, requestVars
  <1>4. CASE Sends(p)
    <2>1. PICK a \in {"ok", "failed", "restart", "disconnect"} : FinishSend(p, a)
      BY <1>4 DEF Sends
    <2>2. /\ UNCHANGED <<app, fatal, handshake, issued, valid, telemetryRetries, metricVars,
                         loopVars, requestVars, under, failed, workerVars, report, sweep, lost>>
          /\ Telemetry(p, sentWith[p], a)
          /\ place' = [place EXCEPT ![p] = "out"]
          /\ holder' = [holder EXCEPT ![p] = Nobody]
          /\ sentWith' = [sentWith EXCEPT ![p] = None]
          /\ place[p] = "sending"
      BY <2>1 DEF FinishSend
    <2>3. p \in Items /\ sentWith[p] \in 0..MaxRuns /\ None \in 0..MaxRuns
      BY RunsAssumption DEF Items, PlaceOK, None
    <2>4. RetryOK(RetryIds)' /\ SessionTypeOK'
      BY <2>2, <2>3, AfterTelemetry
    <2>5. PlaceOK'
      <3>1. /\ place' \in [Payloads -> Places] /\ sentWith' \in [Payloads -> 0..MaxRuns]
            /\ under' \in [Payloads -> Slots \cup {NoSlot}]
            /\ holder' \in [Payloads -> Tasks \cup {Nobody}]
        BY <2>2, <2>3 DEF PlaceOK, Places
      <3>2. \A q \in Payloads : /\ (holder'[q] # Nobody) <=> (place'[q] \in {"taken", "sending"})
                                /\ place'[q] = "failed" <=> place[q] = "failed"
        BY <2>2 DEF PlaceOK
      <3> QED
        BY <2>2, <3>1, <3>2, PlaceMoved
    <2> QED
      BY <2>2, <2>4, <2>5, LoopSame, RestSame DEF requestVars
  <1> QED
    BY <1>1, <1>2, <1>3, <1>4

\* The telemetry listener.
LEMMA TypePlatform ==
    ASSUME TypeInv, PlatformStart \/ \E r \in Requests : PlatformReport(r) \/ Posts(r)
    PROVE  TypeInv'
  <1> USE DEF TypeInv
  <1>1. CASE PlatformStart
    <2>1. /\ UNCHANGED <<sessionVars, retryVars, loopVars, processor, workerVars, report, sweep, lost>>
          /\ active' = started' /\ started' = started + 1
          /\ started < invoked \/ started < Invocations
      BY <1>1 DEF PlatformStart
    <2>2. started' \in Requests /\ started' \in 0..Invocations
      BY <2>1, RetryAssumption DEF LoopOK, Requests
    <2>3. LoopOK'
      BY <2>1, <2>2 DEF LoopOK, loopVars
    <2>4. CASE UNCHANGED <<slot, payloadVars>>
      BY <2>1, <2>3, <2>4, SessionSame, RetrySame, RestSame, PlaceSame DEF sessionVars
    <2>5. CASE /\ slot' = [slot EXCEPT ![started'] = "start"]
               /\ DrainOrphans([of |-> started', made |-> "start"])
      <3>1. RestOK'
        BY <2>1, <2>5 DEF RestOK, workerVars
      <3> DEFINE orphans == {p \in Payloads : place[p] = "orphan"}
      <3>2. [of |-> started', made |-> "start"] \in Slots
        BY <2>2 DEF Slots
      <3>3. /\ place' = [p \in Payloads |-> IF p \in orphans THEN "buffer" ELSE place[p]]
            /\ under' = [p \in Payloads |-> IF p \in orphans THEN [of |-> started', made |-> "start"]
                                            ELSE under[p]]
            /\ UNCHANGED <<holder, sentWith, failed>>
        BY <2>5 DEF DrainOrphans
      <3>4. /\ place' \in [Payloads -> Places] /\ sentWith' \in [Payloads -> 0..MaxRuns]
            /\ under' \in [Payloads -> Slots \cup {NoSlot}]
            /\ holder' \in [Payloads -> Tasks \cup {Nobody}]
        BY <3>2, <3>3 DEF PlaceOK, Places
      <3>5. \A q \in Payloads : /\ (holder'[q] # Nobody) <=> (place'[q] \in {"taken", "sending"})
                                /\ place'[q] = "failed" <=> place[q] = "failed"
        BY <3>3 DEF PlaceOK
      <3>6. PlaceOK'
        BY <3>3, <3>4, <3>5, PlaceMoved
      <3> QED
        BY <2>1, <2>3, <3>1, <3>6, SessionSame, RetrySame DEF sessionVars
    <2> QED
      BY <1>1, <2>4, <2>5 DEF PlatformStart
  <1>2. ASSUME NEW r \in Requests, PlatformReport(r)
        PROVE  TypeInv'
    <2>1. UNCHANGED <<sessionVars, retryVars, loopVars, requestVars, payloadVars, workerVars, sweep>>
      BY <1>2 DEF PlatformReport
    <2>2. report' \in [Requests -> {"none", "listener", "pending", "gone"}]
          /\ lost' \in SUBSET (Payloads \cup Requests)
      BY <1>2 DEF PlatformReport, RestOK
    <2>3. RestOK'
      BY <2>1, <2>2 DEF RestOK, requestVars, workerVars
    <2> QED
      BY <2>1, <2>3, SessionSame, RetrySame, LoopSame, PlaceSame DEF sessionVars, requestVars
  <1>3. ASSUME NEW r \in Requests, Posts(r)
        PROVE  TypeInv'
    <2>1. PICK a \in Outcomes : PlatformReportPosted(r, a)
      BY <1>3 DEF Posts
    <2>2. /\ UNCHANGED <<sessionVars, telemetryVars, metricRetries, loopVars, requestVars,
                         payloadVars, workerVars, sweep, lost>>
          /\ Metric(r, a)
      BY <2>1 DEF PlatformReportPosted
    <2>3. RestOK'
      <3>1. report' \in [Requests -> {"none", "listener", "pending", "gone"}]
        BY <2>1 DEF PlatformReportPosted, RestOK
      <3> QED
        BY <2>2, <3>1 DEF RestOK, requestVars, workerVars
    <2>4. RetryOK(RetryIds)'
      BY <2>2, AfterMetric
    <2> QED
      BY <2>2, <2>3, <2>4, SessionSame, LoopSame, PlaceSame DEF sessionVars, requestVars
  <1> QED
    BY <1>1, <1>2, <1>3

\* process_pending_agent_payloads.
LEMMA TypePend ==
    ASSUME TypeInv, \E n \in RetryIds : PendStep(n)
    PROVE  TypeInv'
  <1> USE DEF TypeInv
  <1>0. PICK n \in RetryIds : PendStep(n)
    OBVIOUS
  <1>1. CASE PendStart(n)
    <2>1. Visit(n, OtherSlots(n), {}) /\ UNCHANGED <<sessionVars, retryVars, loopVars, req, sweep>>
      BY <1>1 DEF PendStart
    <2>2. OtherSlots(n) \subseteq Slots
      BY DEF OtherSlots, SlotOf, registered, Slots, RestOK
    <2>3. RestOK' /\ PlaceOK' /\ UNCHANGED <<active, started>>
      BY <2>1, <2>2, VisitTypes
    <2> QED
      BY <2>1, <2>3, SessionSame, RetrySame, LoopSame DEF sessionVars
  <1>2. ASSUME pend[n].stage \in {"sending", "posting"}
        PROVE  pend[n].now.of \in Requests /\ pend[n].todo \subseteq Slots
    BY <1>2 DEF RestOK, PendWorkers, Workers, Slots
  <1>3. CASE PendSent(n)
    <2>1. UNCHANGED <<sessionVars, retryVars, loopVars, req, sweep>> /\ pend[n].stage = "sending"
      BY <1>3 DEF PendSent
    <2>2. CASE /\ pend' = [pend EXCEPT ![n].stage = "posting"]
               /\ UNCHANGED <<requestVars, payloadVars, report, lost>>
      <3>1. [pend[n] EXCEPT !.stage = "posting"] \in PendWorkers
        BY <2>1 DEF RestOK, PendWorkers, Workers
      <3>2. pend' \in [RetryIds -> PendWorkers]
        BY <2>2, <3>1 DEF RestOK
      <3>3. RestOK'
        BY <2>1, <2>2, <3>2 DEF RestOK, requestVars
      <3> QED
        BY <2>1, <2>2, <3>3, SessionSame, RetrySame, LoopSame, PlaceSame DEF sessionVars, requestVars
    <2>3. CASE Visit(n, pend[n].todo, {pend[n].now.of})
      <3>1. RestOK' /\ PlaceOK' /\ UNCHANGED <<active, started>>
        BY <1>2, <2>1, <2>3, VisitTypes
      <3> QED
        BY <2>1, <3>1, SessionSame, RetrySame, LoopSame DEF sessionVars
    <2> QED
      BY <1>3, <2>2, <2>3 DEF PendSent
  <1>4. ASSUME NEW a \in Outcomes, PendPosted(n, a)
        PROVE  TypeInv'
    <2>1. /\ UNCHANGED <<sessionVars, telemetryVars, metricRetries, loopVars, req, sweep>>
          /\ pend[n].stage = "posting" /\ Metric(pend[n].now.of, a)
          /\ Visit(n, pend[n].todo, {pend[n].now.of})
      BY <1>4 DEF PendPosted
    <2>2. RestOK' /\ PlaceOK' /\ UNCHANGED <<active, started>>
      BY <1>2, <2>1, VisitTypes
    <2>3. RetryOK(RetryIds)'
      BY <1>2, <2>1, AfterMetric
    <2> QED
      BY <2>1, <2>2, <2>3, SessionSame, LoopSame DEF sessionVars
  <1> QED
    BY <1>0, <1>1, <1>3, <1>4 DEF PendStep

\* A worker that goes on to another slot.
LEMMA WorkerGoesOn ==
    ASSUME NEW w \in Workers, NEW todo, NEW now
    PROVE  [w EXCEPT !.todo = todo, !.now = now] = [stage |-> w.stage, todo |-> todo, now |-> now]
  <1>1. PICK v : v = [w EXCEPT !.todo = todo]
    OBVIOUS
  <1>2. v = [stage |-> w.stage, todo |-> todo, now |-> w.now]
    BY <1>1 DEF Workers
  <1>3. [w EXCEPT !.todo = todo, !.now = now] = [v EXCEPT !.now = now]
    BY <1>1
  <1>4. [v EXCEPT !.now = now] = [stage |-> w.stage, todo |-> todo, now |-> now]
    BY <1>2
  <1> QED
    BY <1>3, <1>4

\* process_apm_request.
LEMMA TypeReq ==
    ASSUME TypeInv, \E r \in Requests : ReqStep(r)
    PROVE  TypeInv'
  <1> USE DEF TypeInv
  <1>0. PICK r \in Requests : ReqStep(r)
    OBVIOUS
  <1>1. Worker("body") \in ReqWorkers /\ Worker("done") \in ReqWorkers
        /\ Worker("posting") \in ReqWorkers /\ Worker("wait") \in ReqWorkers
    BY DEF Worker, ReqWorkers, Workers
  <1>2. ToBody(r) => req' \in [Requests -> ReqWorkers]
    BY <1>1 DEF ToBody, RestOK
  <1>3. CASE ReqStart(r)
    <2> DEFINE late == IF r = 1 THEN {} ELSE {s \in OtherSlots(r) : buffer(s) # {}}
               S == UNION {buffer(s) : s \in late}
    <2>1. /\ Took(S, Task("late", r))
          /\ \/ late = {} /\ ToBody(r) /\ processor' = processor \ {r}
             \/ /\ \E s \in late : req' = [req EXCEPT ![r] = [stage |-> "sending",
                                                              todo |-> late \ {s}, now |-> s]]
                /\ UNCHANGED processor
          /\ UNCHANGED <<sessionVars, retryVars, loopVars, active, started, slot, under, sentWith,
                         failed, pend, report, sweep, lost>>
      BY <1>3 DEF ReqStart
    <2>2. late \subseteq Slots
      <3>1. OtherSlots(r) \subseteq Slots
        BY DEF OtherSlots, SlotOf, registered, Slots, RestOK
      <3> QED
        BY <3>1
    <2>3. \A p \in S : place[p] = "buffer"
      BY DEF buffer
    <2> HIDE DEF S, late
    <2>4. PlaceOK'
      <3>1. Task("late", r) \in Tasks
        BY TaskTypes
      <3> QED
        BY <2>1, <2>3, <3>1, TookTypes
    <2>5. req' \in [Requests -> ReqWorkers]
      <3>1. \A s \in late : [stage |-> "sending", todo |-> late \ {s}, now |-> s] \in ReqWorkers
        BY <2>2 DEF ReqWorkers, Workers
      <3> QED
        BY <1>2, <2>1, <3>1 DEF RestOK
    <2>6. processor' \in SUBSET Requests
      BY <2>1 DEF RestOK
    <2>7. RestOK'
      BY <2>1, <2>5, <2>6 DEF RestOK
    <2> QED
      BY <2>1, <2>4, <2>7, SessionSame, RetrySame, LoopSame DEF sessionVars
  <1>4. CASE LateSent(r)
    <2> DEFINE now == req[r].now
    <2>1. /\ Cleanup({now.of})
          /\ \/ /\ req[r].todo = {}
                /\ ToBody(r)
                /\ processor' = processor \ {now.of, r}
             \/ /\ \E s \in req[r].todo : req' = [req EXCEPT ![r].todo = @ \ {s}, ![r].now = s]
                /\ processor' = processor \ {now.of}
          /\ UNCHANGED <<sessionVars, retryVars, loopVars, payloadVars, pend, sweep>>
          /\ req[r].stage = "sending"
      BY <1>4 DEF LateSent
    <2>2. now.of \in Requests /\ req[r].todo \subseteq Slots
      BY <2>1 DEF RestOK, ReqWorkers, Workers, Slots
    <2>3. req' \in [Requests -> ReqWorkers]
      <3>1. PICK w \in Workers : w = req[r] /\ w.todo \subseteq Slots /\ w.stage = "sending"
        BY <2>1, <2>2 DEF RestOK, ReqWorkers
      <3>2. ASSUME NEW s \in w.todo
            PROVE  [w EXCEPT !.todo = w.todo \ {s}, !.now = s] \in ReqWorkers
        <4>1. s \in Slots
          BY <3>1
        <4>2. [w EXCEPT !.todo = w.todo \ {s}, !.now = s]
                = [stage |-> "sending", todo |-> w.todo \ {s}, now |-> s]
          <5>1. PICK rest : rest = w.todo \ {s}
            OBVIOUS
          <5>2. [w EXCEPT !.todo = rest, !.now = s] = [stage |-> w.stage, todo |-> rest, now |-> s]
            BY WorkerGoesOn, Zenon
          <5> QED
            BY <3>1, <5>1, <5>2
        <4> QED
          BY <3>1, <4>1, <4>2 DEF ReqWorkers, Workers
      <3>3. ASSUME NEW s \in w.todo, req' = [req EXCEPT ![r].todo = @ \ {s}, ![r].now = s]
            PROVE  req' \in [Requests -> ReqWorkers]
        <4>1. req' = [req EXCEPT ![r] = [w EXCEPT !.todo = w.todo \ {s}, !.now = s]]
          BY <3>1, <3>3 DEF RestOK
        <4> QED
          BY <3>2, <4>1 DEF RestOK
      <3> QED
        BY <1>2, <2>1, <3>1, <3>3
    <2>4. /\ slot' \in [Requests -> {"none", "INVOKE", "start"}]
          /\ report' \in [Requests -> {"none", "listener", "pending", "gone"}]
          /\ lost' \in SUBSET (Payloads \cup Requests)
          /\ UNCHANGED <<active, started>>
      BY <2>1, <2>2, CleanupTypes
    <2>5. processor' \in SUBSET Requests
      BY <2>1 DEF RestOK
    <2>6. RestOK'
      BY <2>1, <2>3, <2>4, <2>5 DEF RestOK
    <2> QED
      BY <2>1, <2>4, <2>6, SessionSame, RetrySame, LoopSame, PlaceSame DEF sessionVars
  <1>5. CASE ReqBody(r)
    <2> DEFINE own == buffer([of |-> r, made |-> "INVOKE"])
    <2>1. /\ UNCHANGED <<sessionVars, retryVars, loopVars, requestVars, pend, sweep>>
          /\ OwnPayloads(r)
          /\ \/ req' = [req EXCEPT ![r] = Worker("posting")]
             \/ req' = [req EXCEPT ![r] = Worker("wait")]
          /\ \/ report' = [report EXCEPT ![r] = "gone"] \/ report' = report
          /\ lost' \subseteq lost \cup {r} \cup own
      BY <1>5 DEF ReqBody
    <2>2. own \subseteq Payloads /\ \A p \in own : place[p] = "buffer"
      BY DEF buffer
    <2> HIDE DEF own
    <2>3. PlaceOK'
      <3>1. CASE app # None
        <4>1. Took(own, Task("flow", r)) /\ UNCHANGED <<under, sentWith, failed>>
          BY <2>1, <3>1 DEF OwnPayloads, own
        <4>2. Task("flow", r) \in Tasks
          BY TaskTypes
        <4> QED
          BY <2>2, <4>1, <4>2, TookTypes
      <3>2. CASE app = None
        <4>1. /\ place' = [p \in Payloads |-> IF p \in own /\ r \notin registered
                                              THEN "out" ELSE place[p]]
              /\ under' = [p \in Payloads |-> IF p \in own /\ r \in registered
                                              THEN SlotOf(r) ELSE under[p]]
              /\ UNCHANGED <<holder, sentWith, failed>>
          BY <2>1, <3>2 DEF OwnPayloads, own
        <4>2. r \in registered => SlotOf(r) \in Slots
          BY DEF SlotOf, registered, Slots, RestOK
        <4>3. /\ place' \in [Payloads -> Places] /\ sentWith' \in [Payloads -> 0..MaxRuns]
              /\ under' \in [Payloads -> Slots \cup {NoSlot}]
              /\ holder' \in [Payloads -> Tasks \cup {Nobody}]
          BY <4>1, <4>2 DEF PlaceOK, Places
        <4>4. \A q \in Payloads : /\ (holder'[q] # Nobody) <=> (place'[q] \in {"taken", "sending"})
                                  /\ place'[q] = "failed" <=> place[q] = "failed"
          BY <2>2, <4>1 DEF PlaceOK
        <4> QED
          BY <4>1, <4>3, <4>4, PlaceMoved
      <3> QED
        BY <3>1, <3>2
    <2>4. RestOK'
      <3>1. req' \in [Requests -> ReqWorkers]
        BY <1>1, <2>1 DEF RestOK
      <3>2. report' \in [Requests -> {"none", "listener", "pending", "gone"}]
            /\ lost' \in SUBSET (Payloads \cup Requests)
        BY <2>1, <2>2 DEF RestOK
      <3> QED
        BY <2>1, <3>1, <3>2 DEF RestOK, requestVars
    <2> QED
      BY <2>1, <2>3, <2>4, SessionSame, RetrySame, LoopSame DEF sessionVars, requestVars
  <1>6. CASE ReqDone(r)
    <2>1. /\ UNCHANGED <<sessionVars, retryVars, loopVars, active, started, slot, payloadVars, pend,
                         report, sweep, lost>>
          /\ req' = [req EXCEPT ![r] = Worker("done")] /\ processor' = processor \ {r}
      BY <1>6 DEF ReqDone
    <2>2. RestOK'
      BY <1>1, <2>1 DEF RestOK
    <2> QED
      BY <2>1, <2>2, SessionSame, RetrySame, LoopSame, PlaceSame DEF sessionVars
  <1>7. ASSUME NEW a \in Outcomes, ReqPosted(r, a)
        PROVE  TypeInv'
    <2>1. /\ UNCHANGED <<sessionVars, telemetryVars, metricRetries, loopVars, requestVars,
                         payloadVars, pend, sweep, lost>>
          /\ Metric(r, a)
          /\ req' = [req EXCEPT ![r] = Worker("wait")]
          /\ report' = [report EXCEPT ![r] = "gone"] \/ report' = report
      BY <1>7 DEF ReqPosted
    <2>2. RetryOK(RetryIds)'
      BY <2>1, AfterMetric
    <2>3. RestOK'
      BY <1>1, <2>1 DEF RestOK, requestVars
    <2> QED
      BY <2>1, <2>2, <2>3, SessionSame, LoopSame, PlaceSame DEF sessionVars, requestVars
  <1> QED
    BY <1>0, <1>3, <1>4, <1>5, <1>6, <1>7 DEF ReqStep

\* A step of the loop that moves nothing else than requests left to go through.
LEMMA TypeUnmoved ==
    ASSUME TypeInv, UNCHANGED <<requestVars, payloadVars, Unmoved, report, lost>>,
           loop' \in {"next"} \cup Stopping \cup Emergency \cup Ended,
           sweep' \in SUBSET Requests, RetryOK(RetryIds)', SessionTypeOK'
    PROVE  TypeInv'
  <1> USE DEF TypeInv
  <1>1. LoopOK'
    BY DEF LoopOK, Unmoved, requestVars, InInvoke, Stopping, Emergency, Ended
  <1>2. RestOK'
    BY DEF RestOK, Unmoved, requestVars, workerVars
  <1> QED
    BY <1>1, <1>2, PlaceSame

\* SHUTDOWN, and a 403.
LEMMA TypeShutdown ==
    ASSUME TypeInv, Shutdown \/ ShutdownStep \/ ShutdownTimeOut \/ FatalNext
    PROVE  TypeInv'
  <1> USE DEF TypeInv
  <1>1. sweep \in SUBSET Requests /\ registered \in SUBSET Requests
    BY DEF RestOK, registered
  <1> DEFINE Loops == {"next"} \cup Stopping \cup Emergency \cup Ended
  <1>2. CASE \/ Shutdown \/ ShutdownTimeOut \/ FatalNext \/ EmergencyDone
             \/ LastHandshakeOver \/ LastPayloadsDone
    <2>1. /\ UNCHANGED <<sessionVars, requestVars, payloadVars, Unmoved, report, lost>>
          /\ UNCHANGED retryVars
      BY <1>2 DEF Shutdown, ShutdownTimeOut, FatalNext, EmergencyDone, LastHandshakeOver,
                  LastPayloadsDone, retryVars
    <2>2. loop' \in Loops /\ sweep' \in SUBSET Requests
      BY <1>1, <1>2 DEF Shutdown, ShutdownTimeOut, FatalNext, EmergencyDone, LastHandshakeOver,
                  LastPayloadsDone, ToSweep, Stopping, Emergency, Ended
    <2> QED
      BY <2>1, <2>2, SessionSame, RetrySame, TypeUnmoved DEF sessionVars
  <1>3. CASE ShutdownDrained
    <2>1. /\ UNCHANGED <<requestVars, payloadVars, Unmoved, report, lost>>
          /\ UNCHANGED retryVars /\ UNCHANGED <<app, reconnect, fatal, issued, valid>>
      BY <1>3 DEF ShutdownDrained, retryVars
    <2>2. loop' \in Loops /\ sweep' \in SUBSET Requests
      BY <1>1, <1>3 DEF ShutdownDrained, ToSweep, Stopping
    <2>3. SessionTypeOK'
      <3>1. Trying \in [stage : {"idle", "trying", "connected"}, run : 0..MaxRuns]
        BY RunsAssumption DEF Trying, None
      <3>2. handshake' = [handshake EXCEPT !["shutdown"] = Trying] \/ handshake' = handshake
        BY <1>3 DEF ShutdownDrained
      <3> QED
        BY <2>1, <3>1, <3>2 DEF SessionTypeOK
    <2> QED
      BY <2>1, <2>2, <2>3, RetrySame, TypeUnmoved
  <1>4. CASE LastInstall
    <2>1. UNCHANGED <<retryVars, requestVars, payloadVars, Unmoved, report, lost>>
      BY <1>4 DEF LastInstall
    <2>2. loop' \in Loops /\ sweep' \in SUBSET Requests
      BY <1>1, <1>4 DEF LastInstall, ToSweep, Stopping
    <2>3. SessionTypeOK'
      <3>1. "shutdown" \in Handshakes
        BY DeliveryAssumption
      <3>2. Install("shutdown")
        BY <1>4 DEF LastInstall
      <3> QED
        BY <3>1, <3>2, SessionTypes
    <2> QED
      BY <2>1, <2>2, <2>3, RetrySame, TypeUnmoved
  <1>5. ASSUME NEW a \in {"ok", "failed", "restart", "disconnect"}, ErrorSent(a)
        PROVE  TypeInv'
    <2> DEFINE run == IF loop = "errorSend" THEN app ELSE handshake["shutdown"].run
    <2>1. /\ UNCHANGED <<app, fatal, handshake, issued, valid, telemetryRetries, metricVars,
                         requestVars, payloadVars, Unmoved, report, lost>>
          /\ Telemetry(ErrorEvent, run, a)
      BY <1>5 DEF ErrorSent
    <2>2. loop' \in Loops /\ sweep' \in SUBSET Requests
      BY <1>1, <1>5 DEF ErrorSent, ToSweep, Stopping
    <2>3. run \in 0..MaxRuns /\ ErrorEvent \in Items
      BY DeliveryAssumption DEF SessionTypeOK, Items
    <2> HIDE DEF run
    <2>4. RetryOK(RetryIds)' /\ SessionTypeOK'
      BY <2>1, <2>3, AfterTelemetry
    <2> QED
      BY <2>1, <2>2, <2>4, TypeUnmoved
  <1>6. CASE SweepDone \/ LastTelemetryDone
    <2>1. /\ UNCHANGED <<sessionVars, requestVars, payloadVars, Unmoved, report, lost, sweep,
                         delivered, dropped>>
          /\ SpawnTelemetryRetry(None) \/ UNCHANGED telemetryVars
          /\ SpawnMetricRetry(None) \/ UNCHANGED metricVars
      BY <1>6 DEF SweepDone, LastTelemetryDone
    <2>2. loop' \in Loops
      BY <1>6 DEF SweepDone, LastTelemetryDone, Stopping
    <2>3. RetryOK(RetryIds)'
      BY <2>1, TaskTypes, AfterSpawn
    <2> QED
      BY <1>1, <2>1, <2>2, <2>3, SessionSame, TypeUnmoved DEF sessionVars
  <1>7. ASSUME NEW r \in Requests, SweepTake(r)
        PROVE  TypeInv'
    <2> DEFINE S == IF r \in registered THEN buffer(SlotOf(r)) ELSE {}
    <2>1. /\ UNCHANGED <<sessionVars, retryVars, requestVars, under, sentWith, failed, loop, Unmoved,
                         report, lost>>
          /\ Took(S, Task("sweep", None)) /\ sweep' = sweep \ {r}
      BY <1>7 DEF SweepTake
    <2>2. \A p \in S : place[p] = "buffer"
      BY DEF buffer
    <2> HIDE DEF S
    <2>3. PlaceOK'
      BY <2>1, <2>2, TaskTypes, TookTypes
    <2>4. RestOK'
      BY <2>1 DEF RestOK, Unmoved, requestVars, workerVars
    <2> QED
      BY <2>1, <2>3, <2>4, SessionSame, RetrySame, LoopSame
         DEF sessionVars, loopVars, Unmoved, requestVars
  <1>8. CASE LastMetricsDone
    <2>1. {failed[i] : i \in DOMAIN failed} = ToSet(failed)
      BY Zenon DEF ToSet
    <2>2. /\ UNCHANGED <<sessionVars, retryVars, requestVars, under, sentWith, Unmoved, report, sweep,
                         lost>>
          /\ failed' = <<>> /\ loop' = "payloads"
          /\ place' = [p \in Payloads |-> IF p \in ToSet(failed) THEN "taken" ELSE place[p]]
          /\ holder' = [p \in Payloads |-> IF p \in ToSet(failed) THEN Task("retry", None)
                                           ELSE holder[p]]
      BY <1>8, <2>1 DEF LastMetricsDone, Took
    <2>3. Task("retry", None) \in Tasks /\ Task("retry", None) # Nobody
      BY TaskTypes DEF Tasks, Nobody
    <2>4. \A p \in Payloads : (holder'[p] # Nobody) <=> (place'[p] \in {"taken", "sending"})
      BY <2>2, <2>3 DEF PlaceOK
    <2>5. /\ place' \in [Payloads -> Places] /\ holder' \in [Payloads -> Tasks \cup {Nobody}]
          /\ sentWith' \in [Payloads -> 0..MaxRuns] /\ under' \in [Payloads -> Slots \cup {NoSlot}]
      BY <2>2, <2>3 DEF PlaceOK, Places
    <2>6. \A p \in Payloads : place'[p] # "failed"
      BY <2>2 DEF PlaceOK, FailedInv
    <2>7. failed' \in Seq(Payloads) /\ IsInjective(failed') /\ ToSet(failed') = {}
      BY <2>2, EmptySeq DEF IsInjective, ToSet
    <2>8. PlaceOK'
      BY <2>4, <2>5, <2>6, <2>7 DEF PlaceOK, FailedInv
    <2>9. LoopOK'
      BY <2>2 DEF LoopOK, Unmoved, requestVars, InInvoke, Stopping
    <2> QED
      BY <2>2, <2>8, <2>9, SessionSame, RetrySame, RestSame DEF sessionVars, requestVars, Unmoved
  <1>9. ASSUME NEW r \in Requests, NEW a \in Outcomes, LastReportPosted(r, a)
        PROVE  TypeInv'
    <2>1. /\ UNCHANGED <<sessionVars, telemetryVars, metricRetries, requestVars, payloadVars,
                         Unmoved, lost>>
          /\ Metric(r, a) /\ report' = [report EXCEPT ![r] = "gone"] /\ sweep' = sweep \ {r}
          /\ loop' \in {"exited", "reports"}
      BY <1>9 DEF LastReportPosted
    <2>2. RetryOK(RetryIds)'
      BY <2>1, AfterMetric
    <2>3. RestOK'
      BY <2>1 DEF RestOK, Unmoved, requestVars, workerVars
    <2>4. LoopOK'
      BY <2>1 DEF LoopOK, Unmoved, requestVars, InInvoke, Stopping, Ended
    <2> QED
      BY <2>1, <2>2, <2>3, <2>4, SessionSame, PlaceSame DEF sessionVars
  <1>10. CASE EmergencyPending
    <2>1. /\ UNCHANGED <<sessionVars, retryVars, requestVars, payloadVars, invoked, stale, req,
                         report, sweep, lost>>
          /\ pend' = [pend EXCEPT ![None] = Worker("spawned")] /\ loop' = "emergencyPend"
      BY <1>10 DEF EmergencyPending
    <2>2. Worker("spawned") \in PendWorkers
      BY DEF Worker, Workers, PendWorkers
    <2>3. RestOK'
      BY <2>1, <2>2 DEF RestOK, requestVars
    <2>4. LoopOK'
      BY <2>1 DEF LoopOK, requestVars, InInvoke, Emergency
    <2> QED
      BY <2>1, <2>3, <2>4, SessionSame, RetrySame, PlaceSame DEF sessionVars
  <1> QED
    BY <1>2, <1>3, <1>4, <1>5, <1>6, <1>7, <1>8, <1>9, <1>10 DEF ShutdownStep

\* Every step keeps the types.
LEMMA TypeStep == TypeInv /\ [Next]_vars => TypeInv'
  <1> SUFFICES ASSUME TypeInv, [Next]_vars PROVE TypeInv'
    OBVIOUS
  <1>1. CASE UNCHANGED vars
    BY <1>1, SessionSame, RetrySame, LoopSame, RestSame, PlaceSame
       DEF TypeInv, vars, sessionVars, requestVars
  <1>2. CASE Terminated
    BY <1>1, <1>2 DEF Terminated
  <1> QED
    BY <1>1, <1>2, TypeRetries, TypeInvoke, TypeSends, TypePlatform, TypePend, TypeReq,
       TypeShutdown DEF Next

\* Every variable keeps its type, a payload with a holder is one taken or in flight, and
\* FAILED_AGENT_PAYLOADS has no payload twice.
THEOREM TypeAlways == Spec => []TypeInv
  <1>1. Init => TypeInv
    BY TypeInit
  <1>2. TypeInv /\ [Next]_vars => TypeInv'
    BY TypeStep
  <1> QED
    BY <1>1, <1>2, PTL DEF Spec

\* The types of ApmDelivery.
THEOREM TypeCorrect == Spec => []TypeOK
  <1>1. Spec => []TypeInv
    BY TypeAlways
  <1>2. TypeInv => TypeOK
    BY TypeInvIsMore
  <1> QED
    BY <1>1, <1>2, PTL

-----------------------------------------------------------------------------
(* One copy of every payload.                                              *)

\* A payload is out when it was sent or lost, never both; what was sent is in one place.
OutInv ==
    /\ CopyInv
    /\ Sent \cap lost = {}
    /\ \A p \in Payloads : place[p] = "out" <=> p \in Sent \cup lost

\* What a step loses was with nobody, or with a task of the late path.
LossStep == \A p \in Payloads : p \in lost' =>
                p \in lost \/ place[p] \in {"away", "buffer"} \/ holder[p].kind = "late"

\* Nothing is sent or lost.
LEMMA Kept ==
    ASSUME OutInv, CopyInv', Sent' = Sent, Payloads \cap lost' = Payloads \cap lost,
           \A p \in Payloads : place'[p] = "out" <=> place[p] = "out"
    PROVE  OutInv' /\ LossStep
  BY PayloadsOnly DEF OutInv, LossStep

\* The payloads of G are sent, those of L are lost.
LEMMA Leaves ==
    ASSUME OutInv, CopyInv', NEW G \in SUBSET Payloads, NEW L \in SUBSET Payloads,
           G \cap L = {}, Sent' = Sent \cup G, lost' = lost \cup L,
           \A p \in G \cup L : place[p] # "out",
           \A p \in Payloads : place'[p] = "out" <=> place[p] = "out" \/ p \in G \cup L
    PROVE  OutInv'
  BY DEF OutInv

\* Payloads of G are in none of them.
LEMMA NotSentYet ==
    ASSUME OutInv, NEW G \in SUBSET Payloads, \A p \in G : place[p] # "out"
    PROVE  G \cap Sent = {} /\ G \cap lost = {}
  BY DEF OutInv

\* The initial states.
LEMMA OutInit == Init => OutInv
  <1> SUFFICES ASSUME Init PROVE OutInv
    OBVIOUS
  <1>1. telemetry = <<>> /\ telemetryRetries = {} /\ delivered = {} /\ dropped = {}
    BY DEF Init, RetryInit
  <1>2. CopyInv /\ Sent = {}
    BY <1>1, OfEmpty, InRetriesIs DEF CopyInv, Apart, Sent, Everywhere
  <1> QED
    BY <1>2 DEF Init, OutInv

\* One lemma per group of actions, as for the types.
LEMMA OutRetries ==
    ASSUME TypeInv, OutInv,
           \/ TelemetryRetried \/ MetricRetried \/ BackgroundInstall \/ SessionEnds
           \/ \E h \in Handshakes : HandshakeEnds(h)
    PROVE  OutInv' /\ LossStep
  <1>1. UNCHANGED <<place, lost>>
    BY DEF TelemetryRetried, MetricRetried, BackgroundInstall, SessionEnds, HandshakeEnds,
           restVars, payloadVars
  <1>2. CopyInv' /\ Sent' = Sent
    <2>1. CASE \/ BackgroundInstall \/ SessionEnds \/ \E h \in Handshakes : HandshakeEnds(h)
      <3>1. UNCHANGED retryVars
        BY <2>1 DEF BackgroundInstall, SessionEnds, HandshakeEnds
      <3> QED
        BY <3>1, SentSame DEF OutInv, retryVars
    <2>2. CASE TelemetryRetried
      <3>1. PICK a : \E t \in telemetryRetries : TelemetryRetry(t, a)
        BY <2>2 DEF TelemetryRetried
      <3> QED
        BY <3>1, RetryCopies DEF OutInv, TypeInv
    <2>3. CASE MetricRetried
      <3>1. PICK a : \E t \in metricRetries : MetricRetry(t, a)
        BY <2>3 DEF MetricRetried
      <3> QED
        BY <3>1, RetryCopies DEF OutInv, TypeInv
    <2> QED
      BY <2>1, <2>2, <2>3
  <1> QED
    BY <1>1, <1>2, Kept

\* See OutRetries.
LEMMA OutInvoke ==
    ASSUME TypeInv, OutInv, Invoke \/ InvokeStep
    PROVE  OutInv' /\ LossStep
  <1>1. CopyInv' /\ Sent' = Sent
    <2>1. CASE InvokeReconnect
      <3>1. \/ SpawnTelemetryRetry(invoked) \/ UNCHANGED telemetryVars
        BY <2>1 DEF InvokeReconnect, telemetryVars
      <3>2. UNCHANGED <<delivered, dropped>>
        BY <2>1 DEF InvokeReconnect
      <3> QED
        BY <3>1, <3>2, SpawnCopies, SentSame DEF OutInv
    <2>2. CASE ~InvokeReconnect
      <3>1. UNCHANGED retryVars
        BY <2>2 DEF Invoke, InvokeStep, InvokeCreate, InvokeProcess, Joined, HandshakeWaited
      <3> QED
        BY <3>1, SentSame DEF OutInv, retryVars
    <2> QED
      BY <2>1, <2>2
  <1>2. UNCHANGED lost
    BY DEF Invoke, InvokeStep, InvokeReconnect, InvokeCreate, InvokeProcess, Joined,
           HandshakeWaited
  <1>3. \A p \in Payloads : place'[p] = "out" <=> place[p] = "out"
    <2>1. CASE InvokeCreate
      <3>1. {failed[i] : i \in DOMAIN failed} = ToSet(failed)
        BY Zenon DEF ToSet
      <3>2. \A p \in Payloads :
               place'[p] = IF p \in ToSet(failed) THEN "taken"
                           ELSE IF place[p] = "orphan" THEN "buffer" ELSE place[p]
        BY <2>1, <3>1 DEF InvokeCreate
      <3>3. \A p \in Payloads : p \in ToSet(failed) => place[p] = "failed"
        BY DEF TypeInv, PlaceOK, FailedInv
      <3> QED
        BY <3>2, <3>3
    <2>2. CASE ~InvokeCreate
      BY <2>2 DEF Invoke, InvokeStep, InvokeReconnect, InvokeProcess, Joined, HandshakeWaited,
                  payloadVars
    <2> QED
      BY <2>1, <2>2
  <1> QED
    BY <1>1, <1>2, <1>3, Kept

\* See OutRetries.
LEMMA OutSends ==
    ASSUME TypeInv, OutInv,
           \E p \in Payloads : route_payload_to_active_request(p) \/ StartSend(p) \/ Sends(p)
    PROVE  OutInv' /\ LossStep
  <1>1. PICK p \in Payloads : route_payload_to_active_request(p) \/ StartSend(p) \/ Sends(p)
    OBVIOUS
  <1>2. place \in [Payloads -> Places] /\ RetryOK(RetryIds) /\ CopyInv
    BY DEF TypeInv, PlaceOK, OutInv
  <1>3. CASE route_payload_to_active_request(p)
    <2>1. /\ UNCHANGED retryVars /\ place[p] = "away"
          /\ \/ \E x \in {"orphan", "buffer"} : place' = [place EXCEPT ![p] = x] /\ lost' = lost
             \/ place' = [place EXCEPT ![p] = "out"] /\ lost' = lost \cup {p}
      BY <1>3 DEF route_payload_to_active_request
    <2>2. CopyInv' /\ Sent' = Sent
      BY <1>2, <2>1, SentSame DEF retryVars
    <2>3. CASE \E x \in {"orphan", "buffer"} : place' = [place EXCEPT ![p] = x] /\ lost' = lost
      <3>1. \A q \in Payloads : place'[q] = "out" <=> place[q] = "out"
        BY <1>2, <2>1, <2>3
      <3> QED
        BY <2>2, <2>3, <3>1, Kept
    <2>4. CASE place' = [place EXCEPT ![p] = "out"] /\ lost' = lost \cup {p}
      <3>1. \A q \in Payloads : place'[q] = "out" <=> place[q] = "out" \/ q \in {} \cup {p}
        BY <1>2, <2>1, <2>4
      <3>2. Sent' = Sent \cup {} /\ \A q \in {} \cup {p} : place[q] # "out"
        BY <2>1, <2>2
      <3>3. {} \in SUBSET Payloads /\ {p} \in SUBSET Payloads /\ {} \cap {p} = {}
        OBVIOUS
      <3>4. OutInv'
        BY <2>2, <2>4, <3>1, <3>2, <3>3, Leaves
      <3>5. LossStep
        BY <2>1, <2>4 DEF LossStep
      <3> QED
        BY <3>4, <3>5
    <2> QED
      BY <2>1, <2>3, <2>4
  <1>4. CASE StartSend(p)
    <2>1. UNCHANGED <<telemetryVars, delivered, under>> /\ place[p] = "taken"
      BY <1>4 DEF StartSend, Next2Send
    <2>2. CASE NotSent(p) /\ KeepsNothing(holder[p])
      <3>1. /\ place' = [place EXCEPT ![p] = "out"] /\ lost' = lost \cup {p} /\ dropped' = dropped
            /\ holder[p].kind = "late"
        BY <2>2 DEF NotSent, KeepsNothing
      <3>2. CopyInv' /\ Sent' = Sent
        BY <1>2, <2>1, <3>1, SentSame
      <3>3. \A q \in Payloads : place'[q] = "out" <=> place[q] = "out" \/ q \in {} \cup {p}
        BY <1>2, <2>1, <3>1
      <3>4. Sent' = Sent \cup {} /\ \A q \in {} \cup {p} : place[q] # "out"
        BY <2>1, <3>2
      <3>5. {} \in SUBSET Payloads /\ {p} \in SUBSET Payloads /\ {} \cap {p} = {}
        OBVIOUS
      <3>6. OutInv'
        BY <3>1, <3>2, <3>3, <3>4, <3>5, Leaves
      <3>7. LossStep
        BY <3>1 DEF LossStep
      <3> QED
        BY <3>6, <3>7
    <2>3. CASE NotSent(p) /\ ~KeepsNothing(holder[p])
      <3>1. PICK E : /\ E = Evicted(failed, PayloadMax) /\ lost' = lost /\ dropped' = dropped \cup E
                     /\ place' = [q \in Payloads |-> IF q = p THEN "failed"
                                                     ELSE IF q \in E THEN "out" ELSE place[q]]
        BY <2>3 DEF NotSent
      <3>2. E \in SUBSET Payloads /\ \A q \in E : place[q] = "failed"
        <4>1. Evicted(failed, PayloadMax) \subseteq ToSet(failed)
          <5>1. failed \in Seq(Payloads) /\ PayloadMax \in Nat \ {0}
            BY DeliveryAssumption DEF TypeInv, PlaceOK
          <5> QED
            BY <5>1 DEF Evicted, ToSet
        <4>2. ToSet(failed) \subseteq Payloads /\ \A q \in ToSet(failed) : place[q] = "failed"
          BY DEF TypeInv, PlaceOK, FailedInv, ToSet
        <4> QED
          BY <3>1, <4>1, <4>2
      <3>3. E \cap Sent = {}
        BY <3>2, NotSentYet
      <3>4. GivesUp(E)
        BY <2>1, <3>1, <3>3 DEF GivesUp
      <3>5. CopyInv' /\ Sent' = Sent \cup E
        BY <1>2, <3>2, <3>4, OtherCopies
      <3>6. \A q \in Payloads : place'[q] = "out" <=> place[q] = "out" \/ q \in E \cup {}
        BY <2>1, <3>1, <3>2
      <3>7. lost' = lost \cup {} /\ E \cap {} = {} /\ {} \in SUBSET Payloads
            /\ \A q \in E \cup {} : place[q] # "out"
        BY <3>1, <3>2
      <3>8. OutInv'
        BY <3>2, <3>5, <3>6, <3>7, Leaves
      <3> QED
        BY <3>1, <3>8 DEF LossStep
    <2>4. CASE ~NotSent(p)
      <3>1. place' = [place EXCEPT ![p] = "sending"] /\ UNCHANGED <<dropped, lost>>
        BY <1>4, <2>4 DEF StartSend
      <3>2. CopyInv' /\ Sent' = Sent
        BY <1>2, <2>1, <3>1, SentSame
      <3>3. \A q \in Payloads : place'[q] = "out" <=> place[q] = "out"
        BY <1>2, <2>1, <3>1
      <3> QED
        BY <3>1, <3>2, <3>3, Kept
    <2> QED
      BY <2>2, <2>3, <2>4
  <1>5. CASE Sends(p)
    <2>1. PICK a \in {"ok", "failed", "restart", "disconnect"} : FinishSend(p, a)
      BY <1>5 DEF Sends
    <2>2. /\ Telemetry(p, sentWith[p], a) /\ UNCHANGED <<telemetryRetries, lost>>
          /\ place[p] = "sending" /\ place' = [place EXCEPT ![p] = "out"]
      BY <2>1 DEF FinishSend
    <2>3. p \in Items /\ sentWith[p] \in 0..MaxRuns /\ {p} \in SUBSET Payloads
      BY DEF TypeInv, PlaceOK, Items
    <2>4. p \notin Sent
      BY <2>2, <2>3 DEF OutInv
    <2>5. CopyInv' /\ Sent' = Sent \cup {p}
      <3>1. CopyInv' /\ Sent' = Sent \cup ({p} \cap Payloads)
        BY <1>2, <2>2, <2>3, <2>4, TelemetryCopies
      <3> QED
        BY <3>1
    <2>6. \A q \in Payloads : place'[q] = "out" <=> place[q] = "out" \/ q \in {p} \cup {}
      BY <1>2, <2>2
    <2>7. lost' = lost \cup {} /\ {p} \cap {} = {} /\ {} \in SUBSET Payloads
          /\ \A q \in {p} \cup {} : place[q] # "out"
      BY <2>2
    <2>8. OutInv'
      BY <2>3, <2>5, <2>6, <2>7, Leaves
    <2> QED
      BY <2>2, <2>8 DEF LossStep
  <1> QED
    BY <1>1, <1>3, <1>4, <1>5

\* Taking what is in a buffer, and a cleanup of entries, move no payload out.
LEMMA TookKeeps ==
    ASSUME NEW S, NEW t, Took(S, t), \A p \in S : place[p] = "buffer"
    PROVE  \A p \in Payloads : place'[p] = "out" <=> place[p] = "out"
  BY DEF Took

\* See TookKeeps.
LEMMA CleanupKeeps ==
    ASSUME NEW Q \in SUBSET Requests, Cleanup(Q)
    PROVE  Payloads \cap lost' = Payloads \cap lost
  BY PayloadsOnly DEF Cleanup

\* See TookKeeps.
LEMMA VisitKeeps ==
    ASSUME TypeInv, NEW n, NEW todo \in SUBSET Slots, NEW finished \in SUBSET Requests,
           Visit(n, todo, finished)
    PROVE  /\ Payloads \cap lost' = Payloads \cap lost
           /\ \A p \in Payloads : place'[p] = "out" <=> place[p] = "out"
  <1>1. PICK skip \in SUBSET {s \in todo : Quiet(s)} :
            /\ Cleanup(finished \cup {s.of : s \in skip})
            /\ \/ UNCHANGED place
               \/ \E s \in todo : Took(buffer(s), Task("pending", n))
    BY DEF Visit
  <1>2. finished \cup {s.of : s \in skip} \subseteq Requests
    BY DEF Slots
  <1>3. Payloads \cap lost' = Payloads \cap lost
    BY <1>1, <1>2, CleanupKeeps
  <1>4. ASSUME NEW s \in todo, Took(buffer(s), Task("pending", n))
        PROVE  \A p \in Payloads : place'[p] = "out" <=> place[p] = "out"
    <2>1. \A p \in buffer(s) : place[p] = "buffer"
      BY DEF buffer
    <2> QED
      BY <1>4, <2>1, TookKeeps
  <1> QED
    BY <1>1, <1>3, <1>4

\* See OutRetries.
LEMMA OutPlatform ==
    ASSUME TypeInv, OutInv, PlatformStart \/ \E r \in Requests : PlatformReport(r) \/ Posts(r)
    PROVE  OutInv' /\ LossStep
  <1>1. CASE PlatformStart
    <2>1. UNCHANGED <<retryVars, lost>>
      BY <1>1 DEF PlatformStart
    <2>2. CopyInv' /\ Sent' = Sent
      BY <2>1, SentSame DEF OutInv, retryVars
    <2>3. \A p \in Payloads : place'[p] = "out" <=> place[p] = "out"
      BY <1>1 DEF PlatformStart, payloadVars, DrainOrphans
    <2> QED
      BY <2>1, <2>2, <2>3, Kept
  <1>2. ASSUME NEW r \in Requests, PlatformReport(r)
        PROVE  OutInv' /\ LossStep
    <2>1. UNCHANGED <<retryVars, place>> /\ lost \subseteq lost' /\ lost' \subseteq lost \cup {r}
      BY <1>2 DEF PlatformReport, payloadVars
    <2>2. CopyInv' /\ Sent' = Sent
      BY <2>1, SentSame DEF OutInv, retryVars
    <2>3. Payloads \cap lost' = Payloads \cap lost
      BY <2>1, PayloadsOnly
    <2> QED
      BY <2>1, <2>2, <2>3, Kept
  <1>3. ASSUME NEW r \in Requests, Posts(r)
        PROVE  OutInv' /\ LossStep
    <2>1. PICK a \in Outcomes : PlatformReportPosted(r, a)
      BY <1>3 DEF Posts
    <2>2. UNCHANGED <<telemetryVars, place, lost>> /\ Metric(r, a)
      BY <2>1 DEF PlatformReportPosted, payloadVars
    <2>3. CopyInv' /\ Sent' = Sent
      BY <2>2, MetricCopies DEF OutInv, TypeInv
    <2> QED
      BY <2>2, <2>3, Kept
  <1> QED
    BY <1>1, <1>2, <1>3

\* See OutRetries.
LEMMA OutPend ==
    ASSUME TypeInv, OutInv, \E n \in RetryIds : PendStep(n)
    PROVE  OutInv' /\ LossStep
  <1>1. PICK n \in RetryIds : PendStep(n)
    OBVIOUS
  <1>2. CASE PendStart(n)
    <2>1. Visit(n, OtherSlots(n), {}) /\ UNCHANGED retryVars
      BY <1>2 DEF PendStart
    <2>2. OtherSlots(n) \subseteq Slots
      BY DEF OtherSlots, SlotOf, registered, Slots, TypeInv, RestOK
    <2>3. CopyInv' /\ Sent' = Sent
      BY <2>1, SentSame DEF OutInv, retryVars
    <2>4. /\ Payloads \cap lost' = Payloads \cap lost
          /\ \A p \in Payloads : place'[p] = "out" <=> place[p] = "out"
      BY <2>1, <2>2, VisitKeeps
    <2> QED
      BY <2>3, <2>4, Kept
  <1>3. ASSUME pend[n].stage \in {"sending", "posting"}
        PROVE  pend[n].now.of \in Requests /\ pend[n].todo \subseteq Slots
    BY <1>3 DEF TypeInv, RestOK, PendWorkers, Workers, Slots
  <1>4. CASE PendSent(n)
    <2>1. UNCHANGED retryVars /\ pend[n].stage = "sending"
      BY <1>4 DEF PendSent
    <2>2. CopyInv' /\ Sent' = Sent
      BY <2>1, SentSame DEF OutInv, retryVars
    <2>3. /\ Payloads \cap lost' = Payloads \cap lost
          /\ \A p \in Payloads : place'[p] = "out" <=> place[p] = "out"
      <3>1. CASE Visit(n, pend[n].todo, {pend[n].now.of})
        BY <1>3, <2>1, <3>1, VisitKeeps
      <3>2. CASE ~Visit(n, pend[n].todo, {pend[n].now.of})
        BY <1>4, <3>2 DEF PendSent, payloadVars
      <3> QED
        BY <3>1, <3>2
    <2> QED
      BY <2>2, <2>3, Kept
  <1>5. ASSUME NEW a \in Outcomes, PendPosted(n, a)
        PROVE  OutInv' /\ LossStep
    <2>1. /\ pend[n].stage = "posting" /\ Metric(pend[n].now.of, a)
          /\ Visit(n, pend[n].todo, {pend[n].now.of}) /\ UNCHANGED telemetryVars
      BY <1>5 DEF PendPosted
    <2>2. CopyInv' /\ Sent' = Sent
      BY <1>3, <2>1, MetricCopies DEF OutInv, TypeInv
    <2>3. /\ Payloads \cap lost' = Payloads \cap lost
          /\ \A p \in Payloads : place'[p] = "out" <=> place[p] = "out"
      BY <1>3, <2>1, VisitKeeps
    <2> QED
      BY <2>2, <2>3, Kept
  <1> QED
    BY <1>1, <1>2, <1>4, <1>5 DEF PendStep

\* See OutRetries.
LEMMA OutReq ==
    ASSUME TypeInv, OutInv, \E r \in Requests : ReqStep(r)
    PROVE  OutInv' /\ LossStep
  <1>1. PICK r \in Requests : ReqStep(r)
    OBVIOUS
  <1>2. CASE ReqStart(r)
    <2> DEFINE late == IF r = 1 THEN {} ELSE {s \in OtherSlots(r) : buffer(s) # {}}
               S == UNION {buffer(s) : s \in late}
    <2>1. Took(S, Task("late", r)) /\ UNCHANGED <<retryVars, lost>>
      BY <1>2 DEF ReqStart
    <2>2. \A p \in S : place[p] = "buffer"
      BY DEF buffer
    <2> HIDE DEF S
    <2>3. \A p \in Payloads : place'[p] = "out" <=> place[p] = "out"
      BY <2>1, <2>2, TookKeeps
    <2>4. CopyInv' /\ Sent' = Sent
      BY <2>1, SentSame DEF OutInv, retryVars
    <2> QED
      BY <2>1, <2>3, <2>4, Kept
  <1>3. CASE LateSent(r)
    <2>1. /\ UNCHANGED <<retryVars, place>> /\ req[r].stage = "sending"
          /\ Cleanup({req[r].now.of})
      BY <1>3 DEF LateSent, payloadVars
    <2>2. req[r].now.of \in Requests
      BY <2>1 DEF TypeInv, RestOK, ReqWorkers, Slots
    <2>3. Payloads \cap lost' = Payloads \cap lost
      BY <2>1, <2>2, CleanupKeeps
    <2>4. CopyInv' /\ Sent' = Sent
      BY <2>1, SentSame DEF OutInv, retryVars
    <2> QED
      BY <2>1, <2>3, <2>4, Kept
  <1>4. CASE ReqBody(r)
    <2> DEFINE own == buffer([of |-> r, made |-> "INVOKE"])
               away == app = None /\ r \notin registered
    <2>1. UNCHANGED retryVars /\ OwnPayloads(r)
      BY <1>4 DEF ReqBody
    <2>2. own \in SUBSET Payloads /\ \A p \in own : place[p] = "buffer"
      BY DEF buffer
    <2>3. CopyInv' /\ Sent' = Sent
      BY <2>1, SentSame DEF OutInv, retryVars
    <2>4. CASE away
      <3>1. lost' = lost \cup own \/ lost' = lost \cup {r} \cup own
        BY <1>4, <2>4 DEF ReqBody
      <3>2. place' = [p \in Payloads |-> IF p \in own THEN "out" ELSE place[p]]
        BY <2>1, <2>4 DEF OwnPayloads
      <3> HIDE DEF own
      <3>3. \A p \in Payloads : place'[p] = "out" <=> place[p] = "out" \/ p \in own
        BY <3>2
      <3>4. Payloads \cap lost' = Payloads \cap (lost \cup own)
        BY <3>1, PayloadsOnly
      <3>5. OutInv'
        BY <2>2, <2>3, <3>3, <3>4, PayloadsOnly DEF OutInv
      <3>6. LossStep
        BY <2>2, <3>4 DEF LossStep
      <3> QED
        BY <3>5, <3>6
    <2>5. CASE ~away
      <3>1. Payloads \cap lost' = Payloads \cap lost
        <4>1. lost' = lost \/ lost' = lost \cup {r}
          BY <1>4, <2>5 DEF ReqBody
        <4> QED
          BY <4>1, PayloadsOnly
      <3>2. \A p \in Payloads : place'[p] = "out" <=> place[p] = "out"
        <4>1. CASE app # None
          <5>1. Took(own, Task("flow", r))
            BY <2>1, <4>1 DEF OwnPayloads
          <5> HIDE DEF own
          <5> QED
            BY <2>2, <5>1, TookKeeps
        <4>2. CASE app = None /\ r \in registered
          BY <2>1, <4>2 DEF OwnPayloads
        <4> QED
          BY <2>5, <4>1, <4>2
      <3> QED
        BY <2>3, <3>1, <3>2, Kept
    <2> QED
      BY <2>4, <2>5
  <1>5. CASE ReqDone(r)
    <2>1. UNCHANGED <<retryVars, place, lost>>
      BY <1>5 DEF ReqDone, payloadVars
    <2> QED
      BY <2>1, SentSame, Kept DEF OutInv, retryVars
  <1>6. ASSUME NEW a \in Outcomes, ReqPosted(r, a)
        PROVE  OutInv' /\ LossStep
    <2>1. UNCHANGED <<telemetryVars, place, lost>> /\ Metric(r, a)
      BY <1>6 DEF ReqPosted, payloadVars
    <2>2. CopyInv' /\ Sent' = Sent
      BY <2>1, MetricCopies DEF OutInv, TypeInv
    <2> QED
      BY <2>1, <2>2, Kept
  <1> QED
    BY <1>1, <1>2, <1>3, <1>4, <1>5, <1>6 DEF ReqStep

\* See OutRetries.
LEMMA OutShutdown ==
    ASSUME TypeInv, OutInv, Shutdown \/ ShutdownStep \/ ShutdownTimeOut \/ FatalNext
    PROVE  OutInv' /\ LossStep
  <1>1. UNCHANGED lost
    BY DEF Shutdown, ShutdownStep, ShutdownTimeOut, FatalNext, ShutdownDrained, LastHandshakeOver,
           LastInstall, ErrorSent, SweepTake, SweepDone, LastTelemetryDone, LastMetricsDone,
           LastPayloadsDone, LastReportPosted, EmergencyPending, EmergencyDone
  <1>2. \A p \in Payloads : place'[p] = "out" <=> place[p] = "out"
    <2>1. ASSUME NEW r \in Requests, SweepTake(r)
          PROVE  \A p \in Payloads : place'[p] = "out" <=> place[p] = "out"
      <3> DEFINE S == IF r \in registered THEN buffer(SlotOf(r)) ELSE {}
      <3>1. Took(S, Task("sweep", None)) /\ \A p \in S : place[p] = "buffer"
        BY <2>1 DEF SweepTake, buffer
      <3> HIDE DEF S
      <3> QED
        BY <3>1, TookKeeps
    <2>2. CASE LastMetricsDone
      <3>1. {failed[i] : i \in DOMAIN failed} = ToSet(failed)
        BY Zenon DEF ToSet
      <3>2. \A p \in Payloads : place'[p] = IF p \in ToSet(failed) THEN "taken" ELSE place[p]
        BY <2>2, <3>1 DEF LastMetricsDone, Took
      <3>3. \A p \in Payloads : p \in ToSet(failed) => place[p] = "failed"
        BY DEF TypeInv, PlaceOK, FailedInv
      <3> QED
        BY <3>2, <3>3
    <2>3. CASE ~LastMetricsDone /\ ~\E r \in Requests : SweepTake(r)
      <3>1. UNCHANGED payloadVars
        BY <2>3 DEF Shutdown, ShutdownStep, ShutdownTimeOut, FatalNext, ShutdownDrained,
             LastHandshakeOver, LastInstall, ErrorSent, SweepDone, LastTelemetryDone,
             LastPayloadsDone, LastReportPosted, EmergencyPending, EmergencyDone
      <3> QED
        BY <3>1 DEF payloadVars
    <2> QED
      BY <2>1, <2>2, <2>3
  <1>3. CopyInv' /\ Sent' = Sent
    <2>1. ASSUME NEW a \in {"ok", "failed", "restart", "disconnect"}, ErrorSent(a)
          PROVE  CopyInv' /\ Sent' = Sent
      <3> DEFINE run == IF loop = "errorSend" THEN app ELSE handshake["shutdown"].run
      <3>1. Telemetry(ErrorEvent, run, a) /\ UNCHANGED telemetryRetries
        BY <2>1 DEF ErrorSent
      <3>2. run \in 0..MaxRuns /\ ErrorEvent \in Items
        BY DeliveryAssumption DEF TypeInv, SessionTypeOK, Items
      <3> HIDE DEF run
      <3>3. ErrorEvent \notin Sent /\ {ErrorEvent} \cap Payloads = {}
        BY PayloadsOnly, RetryAssumption
      <3>4. CopyInv' /\ Sent' = Sent \cup ({ErrorEvent} \cap Payloads)
        BY <3>1, <3>2, <3>3, TelemetryCopies DEF OutInv, TypeInv
      <3> QED
        BY <3>3, <3>4
    <2>2. CASE SweepDone
      <3>1. SpawnTelemetryRetry(None) /\ UNCHANGED <<delivered, dropped>>
        BY <2>2 DEF SweepDone
      <3> QED
        BY <3>1, SpawnCopies DEF OutInv
    <2>3. ASSUME NEW r \in Requests, NEW a \in Outcomes, LastReportPosted(r, a)
          PROVE  CopyInv' /\ Sent' = Sent
      <3>1. Metric(r, a) /\ UNCHANGED telemetryVars
        BY <2>3 DEF LastReportPosted
      <3> QED
        BY <3>1, MetricCopies DEF OutInv, TypeInv
    <2>4. CASE /\ ~\E a \in {"ok", "failed", "restart", "disconnect"} : ErrorSent(a)
               /\ ~SweepDone
               /\ ~\E r \in Requests, a \in Outcomes : LastReportPosted(r, a)
      <3>1. UNCHANGED <<telemetryVars, delivered, dropped>>
        BY <2>4 DEF Shutdown, ShutdownStep, ShutdownTimeOut, FatalNext, ShutdownDrained,
             LastHandshakeOver, LastInstall, SweepTake, LastTelemetryDone, LastMetricsDone,
             LastPayloadsDone, EmergencyPending, EmergencyDone, retryVars
      <3> QED
        BY <3>1, SentSame DEF OutInv
    <2> QED
      BY <2>1, <2>2, <2>3, <2>4
  <1> QED
    BY <1>1, <1>2, <1>3, Kept

\* Every step keeps it, and loses no payload of the other tasks.
LEMMA OutStep == TypeInv /\ OutInv /\ [Next]_vars => OutInv' /\ LossStep
  <1> SUFFICES ASSUME TypeInv, OutInv, [Next]_vars PROVE OutInv' /\ LossStep
    OBVIOUS
  <1>1. ASSUME UNCHANGED vars PROVE OutInv' /\ LossStep
    <2>1. UNCHANGED <<retryVars, place, lost>>
      BY <1>1 DEF vars, payloadVars
    <2> QED
      BY <2>1, SentSame, Kept DEF OutInv, retryVars
  <1>2. CASE Terminated
    BY <1>1, <1>2 DEF Terminated
  <1> QED
    BY <1>1, <1>2, OutRetries, OutInvoke, OutSends, OutPlatform, OutPend, OutReq, OutShutdown
       DEF Next

\* It always holds.
LEMMA OutAlways == Spec => [](TypeInv /\ OutInv)
  <1>1. Init => TypeInv /\ OutInv
    BY TypeInit, OutInit
  <1>2. TypeInv /\ OutInv /\ [Next]_vars => (TypeInv /\ OutInv)'
    BY TypeStep, OutStep
  <1> QED
    BY <1>1, <1>2, PTL DEF Spec

\* "Never silently dropped": what a task other than the late path's took is sent or kept.
THEOREM TakenNeverLost == Spec => TakenIsKept
  <1>1. TypeInv /\ OutInv /\ [Next]_vars =>
          [\A p \in Payloads :
             holder[p].kind \in {"pending", "flow", "retry", "sweep"} => p \notin lost']_vars
    <2> SUFFICES ASSUME TypeInv, OutInv, [Next]_vars, NEW p \in Payloads,
                        holder[p].kind \in {"pending", "flow", "retry", "sweep"}, p \in lost'
                 PROVE  FALSE
      BY Zenon
    <2>1. holder[p] # Nobody
      BY DEF Nobody
    <2>2. place[p] \in {"taken", "sending"}
      BY <2>1 DEF TypeInv, PlaceOK
    <2>3. p \notin lost
      BY <2>2 DEF OutInv
    <2>4. p \in lost \/ place[p] \in {"away", "buffer"} \/ holder[p].kind = "late"
      BY OutStep DEF LossStep
    <2> QED
      BY <2>2, <2>3, <2>4
  <1> QED
    BY <1>1, OutAlways, PTL DEF Spec, TakenIsKept

\* A sequence of items has a payload once or never.
LEMMA TimesOf ==
    ASSUME NEW q \in Seq(TelemetryItems), Once(q), NEW p \in Payloads
    PROVE  Times(p, ItemsOf(q)) = IF p \in Of(q) THEN 1 ELSE 0
  <1> DEFINE I == {i \in DOMAIN ItemsOf(q) : ItemsOf(q)[i] = p}
  <1>1. DOMAIN ItemsOf(q) = 1..Len(q) /\ \A i \in 1..Len(q) : ItemsOf(q)[i] = q[i].item
    BY DEF ItemsOf
  <1>2. I = {i \in 1..Len(q) : q[i].item = p}
    BY <1>1
  <1>3. Times(p, ItemsOf(q)) = Cardinality(I)
    BY Zenon DEF Times
  <1> HIDE DEF I
  <1>4. CASE p \in Of(q)
    <2>1. PICK i \in 1..Len(q) : q[i].item = p
      BY <1>4 DEF Of
    <2>2. I = {i}
      BY <1>2, <2>1 DEF Once
    <2> QED
      BY <1>3, <1>4, <2>2, FS_Singleton
  <1>5. CASE p \notin Of(q)
    <2>1. I = {}
      BY <1>2, <1>5 DEF Of
    <2> QED
      BY <1>3, <1>5, <2>1, FS_EmptySet
  <1> QED
    BY <1>4, <1>5

\* A sequence without repetition, likewise.
LEMMA TimesIn ==
    ASSUME NEW q \in Seq(Payloads), IsInjective(q), NEW p \in Payloads
    PROVE  Times(p, q) = IF p \in ToSet(q) THEN 1 ELSE 0
  <1> DEFINE I == {i \in DOMAIN q : q[i] = p}
  <1>1. Times(p, q) = Cardinality(I)
    BY Zenon DEF Times
  <1>2. CASE p \in ToSet(q)
    <2>1. PICK i \in DOMAIN q : q[i] = p
      BY <1>2 DEF ToSet
    <2>2. I = {i}
      BY <2>1 DEF IsInjective
    <2> HIDE DEF I
    <2> QED
      BY <1>1, <1>2, <2>2, FS_Singleton
  <1>3. CASE p \notin ToSet(q)
    <2>1. I = {}
      BY <1>3 DEF ToSet
    <2> HIDE DEF I
    <2> QED
      BY <1>1, <1>3, <2>1, FS_EmptySet
  <1> QED
    BY <1>2, <1>3

\* The invariants are OneCopy.
LEMMA OneCopyIs == TypeInv /\ OutInv => OneCopy
  <1> SUFFICES ASSUME TypeInv, OutInv PROVE OneCopy
    OBVIOUS
  <1> DEFINE Carrying(p) == {t \in telemetryRetries : Times(p, ItemsOf(t.left)) > 0}
             Ends(p) == {S \in {<<1, delivered>>, <<2, dropped>>, <<3, lost>>} : p \in S[2]}
  <1>1. ASSUME NEW p \in Payloads
        PROVE  Times(p, failed) = IF place[p] = "failed" THEN 1 ELSE 0
    BY TimesIn DEF TypeInv, PlaceOK, FailedInv
  <1>2. ASSUME NEW p \in Payloads
        PROVE  Times(p, ItemsOf(telemetry)) + Cardinality(Carrying(p)) + Cardinality(Ends(p))
                 = IF place[p] = "out" THEN 1 ELSE 0
    <2>1. /\ telemetry \in Seq(TelemetryItems) /\ Once(telemetry)
          /\ \A t \in telemetryRetries : t.left \in Seq(TelemetryItems) /\ Once(t.left)
      BY DEF TypeInv, RetryOK, RetryTypeOK, OutInv, CopyInv, Apart
    <2>2. Times(p, ItemsOf(telemetry)) = IF p \in Of(telemetry) THEN 1 ELSE 0
      BY <2>1, TimesOf
    <2>3. \A t \in telemetryRetries : Times(p, ItemsOf(t.left)) = IF p \in Of(t.left) THEN 1 ELSE 0
      BY <2>1, TimesOf
    <2>4. Carrying(p) = {t \in telemetryRetries : p \in Of(t.left)}
      BY <2>3
    <2>5. Cardinality(Carrying(p)) = IF p \in InRetries(telemetryRetries) THEN 1 ELSE 0
      <3> HIDE DEF Carrying
      <3>1. CASE p \in InRetries(telemetryRetries)
        <4>1. PICK t \in telemetryRetries : p \in Of(t.left)
          BY <3>1, InRetriesIs
        <4>2. \A u \in telemetryRetries : p \in Of(u.left) => u = t
          BY <4>1 DEF OutInv, CopyInv, Apart
        <4>3. Carrying(p) = {t}
          BY <2>4, <4>1, <4>2
        <4> QED
          BY <3>1, <4>3, FS_Singleton
      <3>2. CASE p \notin InRetries(telemetryRetries)
        <4>1. Carrying(p) = {}
          BY <2>4, <3>2, InRetriesIs
        <4> QED
          BY <3>2, <4>1, FS_EmptySet
      <3> QED
        BY <3>1, <3>2
    <2>6. Cardinality(Ends(p)) = IF p \in delivered \cup dropped \cup lost THEN 1 ELSE 0
      <3>1. ~(p \in delivered /\ p \in dropped) /\ ~(p \in delivered \cup dropped /\ p \in lost)
        BY DEF OutInv, CopyInv, Apart, Sent, Everywhere
      <3> QED
        BY <3>1, OneOfThree
    <2>7. /\ p \in Of(telemetry) => p \notin InRetries(telemetryRetries)
          /\ p \in Of(telemetry) \cup InRetries(telemetryRetries)
               => p \notin delivered \cup dropped \cup lost
      <3>1. \A t \in telemetryRetries :
               Of(t.left) \cap (Of(telemetry) \cup delivered \cup dropped) = {}
        BY DEF OutInv, CopyInv, Apart
      <3>2. Of(telemetry) \cap (delivered \cup dropped) = {}
        BY DEF OutInv, CopyInv, Apart
      <3>3. p \in Of(telemetry) \cup InRetries(telemetryRetries) => p \notin lost
        BY DEF OutInv, Sent, Everywhere
      <3> QED
        BY <3>1, <3>2, <3>3, InRetriesIs
    <2>8. place[p] = "out" <=>
            p \in Of(telemetry) \cup InRetries(telemetryRetries) \cup delivered \cup dropped \cup lost
      BY DEF OutInv, Sent, Everywhere
    <2> HIDE DEF Carrying, Ends
    <2> QED
      BY <2>2, <2>5, <2>6, <2>7, <2>8
  <1> QED
    BY <1>1, <1>2 DEF OneCopy

\* A payload is in one place, whatever takes, retries and re-buffers interleave.
THEOREM OneCopyAlways == Spec => []OneCopy
  BY OutAlways, OneCopyIs, PTL

-----------------------------------------------------------------------------
(* The session a payload is sent with.                                     *)

\* Nothing starts to be sent, and the session stays.
LEMMA SendKept ==
    ASSUME SendUsesCurrentSession, UNCHANGED <<app, sentWith>>,
           \A p \in Payloads : place'[p] = "sending" => place[p] = "sending"
    PROVE  SendUsesCurrentSession'
  BY DEF SendUsesCurrentSession

\* Without a read guard held, nothing is being sent.
LEMMA SendFree ==
    ASSUME ~Guards, UNCHANGED place
    PROVE  SendUsesCurrentSession'
  BY DEF SendUsesCurrentSession, Guards

\* Every step keeps the property: those that change the session wait for its lock, and a
\* send begins with the one there is.
LEMMA SendStep ==
    TypeInv /\ SendUsesCurrentSession /\ [Next]_vars => SendUsesCurrentSession'
  <1> SUFFICES ASSUME TypeInv, SendUsesCurrentSession, [Next]_vars
               PROVE  SendUsesCurrentSession'
    OBVIOUS
  <1>1. CASE UNCHANGED vars
    BY <1>1, SendKept DEF vars, sessionVars, payloadVars
  <1>2. CASE Terminated
    BY <1>1, <1>2 DEF Terminated
  <1>3. CASE \/ TelemetryRetried \/ MetricRetried \/ SessionEnds
             \/ \E h \in Handshakes : HandshakeEnds(h)
    <2>1. UNCHANGED restVars
      BY <1>3 DEF TelemetryRetried, MetricRetried, SessionEnds, HandshakeEnds
    <2>2. UNCHANGED app
      <3>1. CASE TelemetryRetried
        BY <3>1 DEF TelemetryRetried, TelemetryRetry
      <3>2. CASE MetricRetried
        BY <3>2 DEF MetricRetried, MetricRetry, sessionVars
      <3>3. CASE SessionEnds
        BY <3>3 DEF SessionEnds, CollectorRestart
      <3>4. CASE \E h \in Handshakes : HandshakeEnds(h)
        BY <3>4 DEF HandshakeEnds, Connect, ConnectFails, signal_handshake_fatal
      <3> QED
        BY <1>3, <3>1, <3>2, <3>3, <3>4
    <2> QED
      BY <2>1, <2>2, SendKept DEF restVars, payloadVars
  <1>4. CASE BackgroundInstall
    BY <1>4, SendFree DEF BackgroundInstall, restVars, payloadVars
  <1>5. CASE Invoke \/ InvokeStep
    <2>1. CASE InvokeReconnect
      <3>1. UNCHANGED <<place, sentWith>> /\ (~Guards \/ app' = app)
        BY <2>1 DEF InvokeReconnect, payloadVars
      <3> QED
        BY <3>1, SendFree, SendKept
    <2>2. CASE InvokeCreate
      <3>1. UNCHANGED <<app, sentWith>>
        BY <2>2 DEF InvokeCreate, sessionVars
      <3>2. \A p \in Payloads : place'[p] = "sending" => place[p] = "sending"
        BY <2>2 DEF InvokeCreate
      <3> QED
        BY <3>1, <3>2, SendKept
    <2>3. CASE Invoke \/ InvokeProcess \/ Joined \/ HandshakeWaited
      <3>1. UNCHANGED <<app, place, sentWith>>
        BY <2>3 DEF Invoke, InvokeProcess, Joined, HandshakeWaited, sessionVars, payloadVars
      <3> QED
        BY <3>1, SendKept
    <2> QED
      BY <1>5, <2>1, <2>2, <2>3 DEF InvokeStep
  <1>6. ASSUME NEW p \in Payloads, route_payload_to_active_request(p) \/ StartSend(p) \/ Sends(p)
        PROVE  SendUsesCurrentSession'
    <2>1. place \in [Payloads -> Places] /\ sentWith \in [Payloads -> 0..MaxRuns]
      BY DEF TypeInv, PlaceOK
    <2>2. CASE route_payload_to_active_request(p)
      <3>1. UNCHANGED <<app, sentWith>> /\ \E x \in {"orphan", "buffer", "out"} :
                                              place' = [place EXCEPT ![p] = x]
        BY <2>2 DEF route_payload_to_active_request, sessionVars
      <3>2. \A q \in Payloads : place'[q] = "sending" => place[q] = "sending"
        BY <2>1, <3>1
      <3> QED
        BY <3>1, <3>2, SendKept
    <2>3. CASE StartSend(p) /\ NotSent(p)
      <3>1. UNCHANGED <<app, sentWith>>
        BY <2>3 DEF StartSend, NotSent, sessionVars
      <3>2. \A q \in Payloads : place'[q] = "sending" => place[q] = "sending"
        BY <2>1, <2>3 DEF NotSent
      <3> QED
        BY <3>1, <3>2, SendKept
    <2>4. CASE StartSend(p) /\ ~NotSent(p)
      <3>1. /\ UNCHANGED app /\ place' = [place EXCEPT ![p] = "sending"]
            /\ sentWith' = [sentWith EXCEPT ![p] = app]
        BY <2>4 DEF StartSend, sessionVars
      <3> QED
        BY <2>1, <3>1 DEF SendUsesCurrentSession
    <2>5. CASE Sends(p)
      <3>1. /\ UNCHANGED app /\ place' = [place EXCEPT ![p] = "out"]
            /\ sentWith' = [sentWith EXCEPT ![p] = None]
        BY <2>5 DEF Sends, FinishSend
      <3> QED
        BY <2>1, <3>1 DEF SendUsesCurrentSession
    <2> QED
      BY <1>6, <2>2, <2>3, <2>4, <2>5
  <1>7. CASE PlatformStart \/ \E r \in Requests : PlatformReport(r) \/ Posts(r)
    <2>1. UNCHANGED <<app, sentWith>>
      BY <1>7 DEF PlatformStart, PlatformReport, Posts, PlatformReportPosted, DrainOrphans,
                  sessionVars, payloadVars
    <2>2. \A p \in Payloads : place'[p] = "sending" => place[p] = "sending"
      BY <1>7 DEF PlatformStart, PlatformReport, Posts, PlatformReportPosted, DrainOrphans,
                  payloadVars
    <2> QED
      BY <2>1, <2>2, SendKept
  <1>8. ASSUME NEW n \in RetryIds, PendStep(n) PROVE SendUsesCurrentSession'
    <2>1. UNCHANGED <<app, sentWith>>
      BY <1>8 DEF PendStep, PendStart, PendSent, PendPosted, Visit, sessionVars, payloadVars
    <2>2. \A p \in Payloads : place'[p] = "sending" => place[p] = "sending"
      <3>1. UNCHANGED place \/ \E S, t : Took(S, t)
        BY <1>8 DEF PendStep, PendStart, PendSent, PendPosted, Visit, payloadVars
      <3> QED
        BY <3>1 DEF Took
    <2> QED
      BY <2>1, <2>2, SendKept
  <1>9. ASSUME NEW r \in Requests, ReqStep(r) PROVE SendUsesCurrentSession'
    <2>1. UNCHANGED <<app, sentWith>>
      BY <1>9 DEF ReqStep, ReqStart, LateSent, ReqBody, ReqDone, ReqPosted, OwnPayloads,
                  sessionVars, payloadVars
    <2>2. \A p \in Payloads : place'[p] = "sending" => place[p] = "sending"
      <3>1. CASE ReqBody(r)
        BY <3>1 DEF ReqBody, OwnPayloads, Took
      <3>2. CASE ReqStart(r)
        <4>1. \E S, t : Took(S, t)
          BY <3>2 DEF ReqStart
        <4> QED
          BY <4>1 DEF Took
      <3>3. CASE ~ReqBody(r) /\ ~ReqStart(r)
        BY <1>9, <3>3 DEF ReqStep, LateSent, ReqDone, ReqPosted, payloadVars
      <3> QED
        BY <3>1, <3>2, <3>3
    <2> QED
      BY <2>1, <2>2, SendKept
  <1>10. CASE Shutdown \/ ShutdownStep \/ ShutdownTimeOut \/ FatalNext
    <2>1. CASE LastInstall
      BY <2>1, SendFree DEF LastInstall, payloadVars
    <2>2. CASE ~LastInstall
      <3>1. UNCHANGED app
        BY <1>10, <2>2 DEF Shutdown, ShutdownStep, ShutdownTimeOut, FatalNext, ShutdownDrained,
           LastHandshakeOver, ErrorSent, SweepTake, SweepDone, LastTelemetryDone, LastMetricsDone,
           LastPayloadsDone, LastReportPosted, EmergencyPending, EmergencyDone, sessionVars
      <3>2. UNCHANGED sentWith
        BY <1>10, <2>2 DEF Shutdown, ShutdownStep, ShutdownTimeOut, FatalNext, ShutdownDrained,
           LastHandshakeOver, ErrorSent, SweepTake, SweepDone, LastTelemetryDone, LastMetricsDone,
           LastPayloadsDone, LastReportPosted, EmergencyPending, EmergencyDone, payloadVars
      <3>3. UNCHANGED place \/ \E S, t : Took(S, t)
        BY <1>10, <2>2 DEF Shutdown, ShutdownStep, ShutdownTimeOut, FatalNext, ShutdownDrained,
           LastHandshakeOver, ErrorSent, SweepTake, SweepDone, LastTelemetryDone, LastMetricsDone,
           LastPayloadsDone, LastReportPosted, EmergencyPending, EmergencyDone, payloadVars
      <3>4. \A p \in Payloads : place'[p] = "sending" => place[p] = "sending"
        BY <3>3 DEF Took
      <3> QED
        BY <3>1, <3>2, <3>4, SendKept
    <2> QED
      BY <2>1, <2>2
  <1> QED
    BY <1>1, <1>2, <1>3, <1>4, <1>5, <1>6, <1>7, <1>8, <1>9, <1>10 DEF Next

\* While a payload is in flight the session it uses stays the shared one.
THEOREM SessionKeptWhileSending == Spec => []SendUsesCurrentSession
  <1>1. Init => SendUsesCurrentSession
    BY DEF Init, SendUsesCurrentSession
  <1>2. TypeInv /\ SendUsesCurrentSession /\ [Next]_vars => SendUsesCurrentSession'
    BY SendStep
  <1> QED
    BY <1>1, <1>2, TypeAlways, PTL DEF Spec

-----------------------------------------------------------------------------
(* The entry of the last INVOKE's request.                                 *)

\* The tasks of an INVOKE go through the entries of earlier requests only: platform.start
\* makes one of the next request when every task spawned so far has looked at them.
Before(w, n) == \A s \in w.todo \cup {w.now} : s.of < n

StartInv ==
    /\ started <= invoked + 1
    /\ started > invoked => Polled /\ loop \notin InInvoke
    /\ \A r \in Requests : slot[r] # "none" => r <= invoked \/ r <= started
WorkInv ==
    /\ \A n \in Requests :
         /\ pend[n].stage = "spawned" \/ req[n].stage = "spawned" => n = invoked
         /\ pend[n].stage # "none" \/ req[n].stage # "none" => n <= invoked
         /\ Before(pend[n], n) /\ Before(req[n], n)
    /\ pend[None].stage # "none" => loop \in {"emergencyPend"} \cup Ended
EntryInv == CurrentKeepsEntry /\ StartInv /\ WorkInv

entryVars == <<loop, invoked, started, slot, pend, req>>

\* The initial states.
LEMMA EntryInit == Init => EntryInv
  <1> SUFFICES ASSUME Init PROVE EntryInv
    OBVIOUS
  <1>1. invoked = 0 /\ started = 0 /\ loop = "next" /\ slot = [r \in Requests |-> "none"]
    BY DEF Init, None
  <1>2. /\ \A n \in RetryIds : pend[n] = Worker("none")
        /\ \A r \in Requests : req[r] = Worker("none")
    BY DEF Init
  <1>3. \A n \in Requests : n > 0 /\ n \in RetryIds
    BY RetryAssumption DEF Requests, RetryIds
  <1>4. Worker("none").stage = "none" /\ \A n \in Requests : Before(Worker("none"), n)
    BY <1>3 DEF Worker, Before, NoSlot, None
  <1>5. CurrentKeepsEntry
    BY <1>1 DEF CurrentKeepsEntry, None
  <1>6. StartInv
    BY <1>1 DEF StartInv
  <1>7. WorkInv
    BY <1>2, <1>3, <1>4, TaskTypes DEF WorkInv
  <1> QED
    BY <1>5, <1>6, <1>7 DEF EntryInv

\* What concerns it is unchanged.
LEMMA EntrySame ==
    ASSUME EntryInv, UNCHANGED entryVars
    PROVE  EntryInv'
  BY DEF EntryInv, CurrentKeepsEntry, StartInv, WorkInv, Before, Polled, registered, entryVars

\* The loop goes on, with nothing spawned.
LEMMA EntryGoesOn ==
    ASSUME EntryInv, UNCHANGED <<invoked, started, slot, pend, req>>,
           loop' \in InInvoke => loop \in InInvoke,
           loop' \in {"cap", "join", "handshake", "next"} =>
              loop \in {"cap", "join", "handshake", "next"},
           loop \in {"emergencyPend"} \cup Ended => loop' \in {"emergencyPend"} \cup Ended
    PROVE  EntryInv'
  BY DEF EntryInv, CurrentKeepsEntry, StartInv, WorkInv, Before, Polled, registered

\* A task of an INVOKE is at the entries of earlier requests.
LEMMA EarlierOnly ==
    ASSUME TypeInv, EntryInv, NEW n \in Requests, n = invoked,
           pend[n].stage = "spawned" \/ req[n].stage = "spawned"
    PROVE  \A s \in OtherSlots(n) : s.of < n
  <1>1. invoked \in Nat /\ started \in Nat /\ Requests \subseteq Nat
    BY RetryAssumption DEF TypeInv, LoopOK, Requests
  <1>2. started <= invoked
    BY <1>1 DEF EntryInv, StartInv, Polled
  <1>3. \A r \in registered : r <= n
    BY <1>1, <1>2 DEF EntryInv, StartInv, registered
  <1>4. \A s \in OtherSlots(n) : \E r \in registered \ {n} : s.of = r
    BY DEF OtherSlots, SlotOf
  <1>5. registered \subseteq Requests
    BY DEF registered
  <1> QED
    BY <1>1, <1>3, <1>4, <1>5

\* A cleanup of entries of earlier requests, or of any once no request can come.
LEMMA EntryCleaned ==
    ASSUME TypeInv, EntryInv, NEW Q, Cleanup(Q), UNCHANGED <<loop, invoked, started>>,
           \/ loop \in {"emergencyPend"} \cup Ended
           \/ \A q \in Q : q < invoked,
           Polled => Polled', WorkInv'
    PROVE  EntryInv'
  <1>1. \A r \in Requests : slot'[r] = IF r \in Q THEN "none" ELSE slot[r]
    BY DEF Cleanup
  <1>2. StartInv'
    BY <1>1 DEF EntryInv, StartInv
  <1>3. CurrentKeepsEntry'
    <2> SUFFICES ASSUME loop \in {"cap", "join", "handshake", "next"}, invoked # None
                 PROVE  invoked \in registered'
      BY DEF CurrentKeepsEntry
    <2>1. invoked \in registered
      BY DEF EntryInv, CurrentKeepsEntry
    <2>2. invoked \notin Q
      <3>1. \A q \in Q : q < invoked
        BY DEF Ended
      <3>2. invoked \in Nat
        BY RetryAssumption DEF TypeInv, LoopOK
      <3> QED
        BY <3>1, <3>2
    <2> QED
      BY <1>1, <2>1, <2>2 DEF registered
  <1> QED
    BY <1>2, <1>3 DEF EntryInv

\* A step of one task that spawns none.
LEMMA WorkStep ==
    ASSUME TypeInv, EntryInv, NEW n \in RetryIds, NEW w,
           UNCHANGED <<loop, invoked>>, w.stage # "spawned", n \in Requests => Before(w, n),
           \/ pend' = [pend EXCEPT ![n] = w] /\ req' = req /\ pend[n].stage # "none"
           \/ req' = [req EXCEPT ![n] = w] /\ pend' = pend /\ n \in Requests /\ req[n].stage # "none"
    PROVE  WorkInv' /\ (Polled => Polled')
  <1>1. pend \in [RetryIds -> PendWorkers] /\ req \in [Requests -> ReqWorkers]
    BY DEF TypeInv, RestOK
  <1>2. Requests \subseteq RetryIds /\ None \in RetryIds /\ None \notin Requests
    BY TaskTypes DEF Requests, None
  <1>3. \/ pend' = [pend EXCEPT ![n] = w] /\ req' = req
        \/ req' = [req EXCEPT ![n] = w] /\ pend' = pend /\ n \in Requests
    OBVIOUS
  <1>4. n \in Requests => n <= invoked
    BY DEF EntryInv, WorkInv
  <1>5. ASSUME NEW m \in Requests
        PROVE  /\ pend'[m].stage = "spawned" => pend[m].stage = "spawned"
               /\ req'[m].stage = "spawned" => req[m].stage = "spawned"
               /\ pend'[m].stage # "none" \/ req'[m].stage # "none" => m <= invoked
               /\ Before(pend'[m], m) /\ Before(req'[m], m)
    <2>1. /\ pend[m].stage # "none" \/ req[m].stage # "none" => m <= invoked
          /\ Before(pend[m], m) /\ Before(req[m], m)
      BY DEF EntryInv, WorkInv
    <2>2. pend'[m] = pend[m] \/ (m = n /\ pend'[m] = w)
      BY <1>1, <1>2, <1>3
    <2>3. req'[m] = req[m] \/ (m = n /\ req'[m] = w)
      BY <1>1, <1>3
    <2> QED
      BY <1>4, <2>1, <2>2, <2>3
  <1>6. pend'[None].stage # "none" => pend[None].stage # "none"
    BY <1>1, <1>2
  <1>7. WorkInv'
    BY <1>5, <1>6 DEF EntryInv, WorkInv, Before
  <1> QED
    BY <1>5, <1>7 DEF Polled

\* process_pending_agent_payloads goes on.
LEMMA EntryVisit ==
    ASSUME TypeInv, EntryInv, NEW n \in RetryIds, NEW todo \in SUBSET Slots,
           NEW finished \in SUBSET Requests, Visit(n, todo, finished),
           UNCHANGED <<loop, invoked, req>>, pend[n].stage # "none",
           n \in Requests => (\A s \in todo : s.of < n) /\ (\A q \in finished : q < n)
    PROVE  EntryInv'
  <1>1. PICK skip \in SUBSET {s \in todo : Quiet(s)} :
            /\ Cleanup(finished \cup {s.of : s \in skip})
            /\ \/ pend' = [pend EXCEPT ![n] = Worker("done")]
               \/ \E s \in todo :
                    pend' = [pend EXCEPT ![n] = [stage |-> "sending",
                                                 todo |-> todo \ (skip \cup {s}), now |-> s]]
    BY DEF Visit
  <1> DEFINE Q == finished \cup {s.of : s \in skip}
  <1>2. Cleanup(Q) /\ UNCHANGED started
    BY <1>1 DEF Cleanup
  <1>3. n = None \/ n \in Requests
    BY RetryAssumption DEF RetryIds, Requests, None
  <1>4. PICK w : /\ pend' = [pend EXCEPT ![n] = w] /\ w.stage # "spawned"
                 /\ n \in Requests => Before(w, n)
    <2>1. CASE pend' = [pend EXCEPT ![n] = Worker("done")]
      <3>1. Worker("done").stage = "done" /\ Worker("done").todo = {} /\ Worker("done").now.of = 0
        BY DEF Worker, NoSlot, None
      <3>2. n \in Requests => 0 < n
        BY RetryAssumption DEF Requests
      <3> QED
        BY <2>1, <3>1, <3>2 DEF Before
    <2>2. ASSUME NEW s \in todo,
                 pend' = [pend EXCEPT ![n] = [stage |-> "sending",
                                              todo |-> todo \ (skip \cup {s}), now |-> s]]
          PROVE  \E w : /\ pend' = [pend EXCEPT ![n] = w] /\ w.stage # "spawned"
                        /\ n \in Requests => Before(w, n)
      <3>1. PICK w : w = [stage |-> "sending", todo |-> todo \ (skip \cup {s}), now |-> s]
        OBVIOUS
      <3>2. w.stage = "sending" /\ w.todo \subseteq todo /\ w.now = s
        BY <3>1
      <3>3. n \in Requests => Before(w, n)
        BY <3>2 DEF Before
      <3> QED
        BY <2>2, <3>1, <3>2, <3>3
    <2> QED
      BY <1>1, <2>1, <2>2
  <1>5. WorkInv' /\ (Polled => Polled')
    BY <1>4, WorkStep
  <1>6. \/ loop \in {"emergencyPend"} \cup Ended
        \/ \A q \in Q : q < invoked
    <2>1. CASE n = None
      BY <2>1 DEF EntryInv, WorkInv
    <2>2. CASE n \in Requests
      <3>1. n <= invoked /\ n \in Nat /\ invoked \in Nat
        BY <2>2, RetryAssumption DEF EntryInv, WorkInv, TypeInv, LoopOK, Requests
      <3>2. \A q \in Q : q \in Requests /\ q < n
        BY <2>2 DEF Slots
      <3> HIDE DEF Q
      <3>3. ASSUME NEW q \in Q PROVE q < invoked
        <4>1. q < n /\ q \in Nat
          BY <3>2, RetryAssumption DEF Requests
        <4> QED
          BY <3>1, <4>1
      <3> QED
        BY <3>3
    <2> QED
      BY <1>3, <2>1, <2>2
  <1> HIDE DEF Q
  <1> QED
    BY <1>2, <1>5, <1>6, EntryCleaned

\* One lemma per group of actions: INVOKE.
LEMMA EntryInvoke ==
    ASSUME TypeInv, EntryInv, Invoke \/ InvokeStep
    PROVE  EntryInv'
  <1>1. invoked \in Nat /\ started \in Nat /\ Requests \subseteq Nat
    BY RetryAssumption DEF TypeInv, LoopOK, Requests
  <1>2. CASE Invoke
    <2>1. /\ invoked' = invoked + 1 /\ loop' = "reconnect" /\ loop = "next" /\ Polled
          /\ UNCHANGED <<started, slot, pend, req>>
      BY <1>2 DEF Invoke, requestVars, workerVars
    <2>2. CurrentKeepsEntry'
      BY <2>1 DEF CurrentKeepsEntry
    <2>3. StartInv'
      BY <1>1, <2>1 DEF EntryInv, StartInv
    <2>4. WorkInv'
      <3>1. \A n \in Requests : pend[n].stage # "spawned" /\ req[n].stage # "spawned"
        BY <2>1 DEF Polled
      <3>2. pend[None].stage = "none"
        BY <2>1 DEF EntryInv, WorkInv, Ended
      <3>3. \A n \in Requests : pend[n].stage # "none" \/ req[n].stage # "none" => n <= invoked + 1
        BY <1>1 DEF EntryInv, WorkInv
      <3> QED
        BY <2>1, <3>1, <3>2, <3>3 DEF EntryInv, WorkInv, Before
    <2> QED
      BY <2>2, <2>3, <2>4 DEF EntryInv
  <1>3. CASE InvokeReconnect
    <2>1. /\ loop = "reconnect" /\ loop' = "errors"
          /\ UNCHANGED <<invoked, started, slot, pend, req>>
      BY <1>3 DEF InvokeReconnect, requestVars, workerVars
    <2> QED
      BY <2>1, EntryGoesOn DEF InInvoke, Ended
  <1>4. CASE InvokeCreate
    <2>1. /\ loop = "errors" /\ loop' = "cap" /\ slot' = [slot EXCEPT ![invoked] = "INVOKE"]
          /\ UNCHANGED <<invoked, started, pend, req>>
      BY <1>4 DEF InvokeCreate, workerVars
    <2>2. invoked \in Requests /\ slot \in [Requests -> {"none", "INVOKE", "start"}]
      BY <2>1, RetryAssumption DEF TypeInv, LoopOK, RestOK, InInvoke, None, Requests
    <2>3. CurrentKeepsEntry'
      BY <2>1, <2>2 DEF CurrentKeepsEntry, registered
    <2>4. StartInv'
      <3>1. started <= invoked
        BY <1>1, <2>1 DEF EntryInv, StartInv, InInvoke
      <3>2. \A r \in Requests : slot'[r] # "none" => r <= invoked
        <4>1. \A r \in Requests : slot'[r] = slot[r] \/ r = invoked
          BY <2>1, <2>2
        <4> QED
          BY <1>1, <3>1, <4>1 DEF EntryInv, StartInv
      <3> QED
        BY <1>1, <2>1, <3>1, <3>2 DEF StartInv
    <2>5. WorkInv'
      <3>1. pend[None].stage = "none"
        BY <2>1 DEF EntryInv, WorkInv, Ended
      <3> QED
        BY <2>1, <3>1 DEF EntryInv, WorkInv, Before
    <2> QED
      BY <2>3, <2>4, <2>5 DEF EntryInv
  <1>5. CASE InvokeProcess
    <2>1. /\ loop = "cap" /\ loop' \in {"join", "handshake", "next"}
          /\ pend' = [pend EXCEPT ![invoked] = Worker("spawned")]
          /\ req' = [req EXCEPT ![invoked] = Worker("spawned")]
          /\ UNCHANGED <<invoked, started, slot>>
      BY <1>5 DEF InvokeProcess
    <2>2. /\ invoked \in Requests /\ pend \in [RetryIds -> PendWorkers]
          /\ req \in [Requests -> ReqWorkers] /\ Requests \subseteq RetryIds
      BY <2>1, RetryAssumption, TaskTypes
         DEF TypeInv, LoopOK, RestOK, InInvoke, None, Requests
    <2>3. CurrentKeepsEntry'
      BY <2>1 DEF EntryInv, CurrentKeepsEntry, registered
    <2>4. StartInv'
      <3>1. started <= invoked
        BY <1>1, <2>1 DEF EntryInv, StartInv, InInvoke
      <3> QED
        BY <1>1, <2>1, <3>1 DEF EntryInv, StartInv
    <2>5. WorkInv'
      <3>1. pend'[None].stage = "none"
        <4>1. None \in RetryIds /\ None # invoked
          BY <2>2, TaskTypes, RetryAssumption DEF Requests, None
        <4>2. pend[None].stage = "none"
          BY <2>1 DEF EntryInv, WorkInv, Ended
        <4> QED
          BY <2>1, <2>2, <4>1, <4>2
      <3>2. /\ Worker("spawned").stage = "spawned" /\ Worker("spawned").todo = {}
            /\ Worker("spawned").now.of = 0
        BY DEF Worker, NoSlot, None
      <3>3. ASSUME NEW n \in Requests, n # invoked
            PROVE  pend'[n] = pend[n] /\ req'[n] = req[n]
        BY <2>1, <2>2, <3>3
      <3>4. pend'[invoked] = Worker("spawned") /\ req'[invoked] = Worker("spawned")
        BY <2>1, <2>2
      <3>5. Before(Worker("spawned"), invoked)
        BY <2>2, <3>2, RetryAssumption DEF Before, Requests
      <3>6. ASSUME NEW n \in Requests
            PROVE  /\ pend'[n].stage = "spawned" \/ req'[n].stage = "spawned" => n = invoked
                   /\ pend'[n].stage # "none" \/ req'[n].stage # "none" => n <= invoked
                   /\ Before(pend'[n], n) /\ Before(req'[n], n)
        <4>1. CASE n = invoked
          BY <1>1, <3>4, <3>5, <4>1
        <4>2. CASE n # invoked
          BY <3>3, <4>2 DEF EntryInv, WorkInv
        <4> QED
          BY <4>1, <4>2
      <3> QED
        BY <2>1, <3>1, <3>6 DEF WorkInv, Before
    <2> QED
      BY <2>3, <2>4, <2>5 DEF EntryInv
  <1>6. CASE Joined \/ HandshakeWaited
    <2>1. /\ loop \in {"join", "handshake"} /\ loop' \in {"handshake", "next"}
          /\ UNCHANGED <<invoked, started, slot, pend, req>>
      BY <1>6 DEF Joined, HandshakeWaited, requestVars, workerVars
    <2> QED
      BY <2>1, EntryGoesOn DEF InInvoke, Ended
  <1> QED
    BY <1>2, <1>3, <1>4, <1>5, <1>6 DEF InvokeStep

\* The tasks.
LEMMA EntryWork ==
    ASSUME TypeInv, EntryInv,
           (\E n \in RetryIds : PendStep(n)) \/ (\E r \in Requests : ReqStep(r))
    PROVE  EntryInv'
  <1>0. \A n \in RetryIds : pend[n].stage \in {"sending", "posting"} =>
            pend[n].now.of \in Requests /\ pend[n].todo \subseteq Slots
    BY DEF TypeInv, RestOK, PendWorkers, Workers, Slots
  <1>1. ASSUME NEW n \in RetryIds, PendStep(n)
        PROVE  EntryInv'
    <2>1. UNCHANGED <<loop, invoked, req>>
      BY <1>1 DEF PendStep, PendStart, PendSent, PendPosted, loopVars
    <2>2. n \in Requests => \A s \in pend[n].todo \cup {pend[n].now} : s.of < n
      BY DEF EntryInv, WorkInv, Before
    <2>3. CASE PendStart(n)
      <3>1. Visit(n, OtherSlots(n), {}) /\ pend[n].stage = "spawned"
        BY <2>3 DEF PendStart
      <3>2. OtherSlots(n) \subseteq Slots
        BY DEF OtherSlots, SlotOf, registered, Slots, TypeInv, RestOK
      <3>3. n \in Requests => \A s \in OtherSlots(n) : s.of < n
        BY <3>1, EarlierOnly DEF EntryInv, WorkInv
      <3> QED
        BY <2>1, <3>1, <3>2, <3>3, EntryVisit
    <2>4. CASE PendSent(n) /\ ~Visit(n, pend[n].todo, {pend[n].now.of})
      <3> DEFINE w == [pend[n] EXCEPT !.stage = "posting"]
      <3>1. /\ pend[n].stage = "sending" /\ UNCHANGED <<started, slot>>
            /\ pend' = [pend EXCEPT ![n].stage = "posting"]
        BY <2>4 DEF PendSent, requestVars
      <3>2. pend[n] \in Workers
        BY DEF TypeInv, RestOK, PendWorkers
      <3>3. w.stage = "posting" /\ w.todo = pend[n].todo /\ w.now = pend[n].now
        BY <3>2 DEF Workers
      <3>4. pend' = [pend EXCEPT ![n] = w]
        BY <3>1
      <3> HIDE DEF w
      <3>5. w.stage # "spawned" /\ (n \in Requests => Before(w, n))
        BY <2>2, <3>3 DEF Before
      <3>6. WorkInv' /\ (Polled => Polled')
        BY <2>1, <3>1, <3>4, <3>5, WorkStep
      <3>7. CurrentKeepsEntry' /\ StartInv'
        BY <2>1, <3>1, <3>6 DEF EntryInv, CurrentKeepsEntry, StartInv, registered
      <3> QED
        BY <3>6, <3>7 DEF EntryInv
    <2>5. CASE \/ PendSent(n) /\ Visit(n, pend[n].todo, {pend[n].now.of})
               \/ \E a \in Outcomes : PendPosted(n, a)
      <3>1. /\ Visit(n, pend[n].todo, {pend[n].now.of})
            /\ pend[n].stage \in {"sending", "posting"}
        BY <2>5 DEF PendSent, PendPosted
      <3>2. {pend[n].now.of} \in SUBSET Requests /\ pend[n].todo \in SUBSET Slots
        BY <1>0, <3>1
      <3>3. n \in Requests => (\A s \in pend[n].todo : s.of < n)
                              /\ (\A q \in {pend[n].now.of} : q < n)
        BY <2>2
      <3> QED
        BY <2>1, <3>1, <3>2, <3>3, EntryVisit
    <2> QED
      BY <1>1, <2>3, <2>4, <2>5 DEF PendStep
  <1>2. ASSUME NEW r \in Requests, ReqStep(r)
        PROVE  EntryInv'
    <2>1. UNCHANGED <<loop, invoked, started, pend>>
      BY <1>2 DEF ReqStep, ReqStart, LateSent, ReqBody, ReqDone, ReqPosted, Cleanup, loopVars,
                  requestVars
    <2>2. \A s \in req[r].todo \cup {req[r].now} : s.of < r
      BY DEF EntryInv, WorkInv, Before
    <2>3. \A x \in {"body", "done", "posting", "wait"} :
             Worker(x).stage = x /\ Before(Worker(x), r)
      <3>1. 0 < r
        BY RetryAssumption DEF Requests
      <3> QED
        BY <3>1 DEF Worker, Before, NoSlot, None
    <2>4. r \in RetryIds /\ r <= invoked /\ r \in Nat /\ invoked \in Nat /\ req[r].stage # "none"
      <3>1. req[r].stage # "none"
        BY <1>2 DEF ReqStep, ReqStart, LateSent, ReqBody, ReqDone, ReqPosted
      <3>2. r <= invoked
        BY <3>1 DEF EntryInv, WorkInv
      <3> QED
        BY <3>1, <3>2, TaskTypes, RetryAssumption DEF TypeInv, LoopOK, Requests
    <2>5. PICK w : req' = [req EXCEPT ![r] = w] /\ w.stage # "spawned" /\ Before(w, r)
      <3>1. CASE \E x \in {"body", "done", "posting", "wait"} : req' = [req EXCEPT ![r] = Worker(x)]
        BY <2>3, <3>1
      <3>2. CASE ReqStart(r) /\ ~ToBody(r)
        <4> DEFINE late == IF r = 1 THEN {} ELSE {s \in OtherSlots(r) : buffer(s) # {}}
        <4>1. PICK s \in late : req' = [req EXCEPT ![r] = [stage |-> "sending",
                                                           todo |-> late \ {s}, now |-> s]]
          BY <3>2 DEF ReqStart
        <4>2. \A x \in late : x.of < r
          <5>1. req[r].stage = "spawned"
            BY <3>2 DEF ReqStart
          <5>2. \A x \in OtherSlots(r) : x.of < r
            BY <5>1, EarlierOnly DEF EntryInv, WorkInv
          <5> QED
            BY <5>2
        <4> HIDE DEF late
        <4>3. PICK w : w = [stage |-> "sending", todo |-> late \ {s}, now |-> s]
          OBVIOUS
        <4>4. w.stage = "sending" /\ Before(w, r)
          BY <4>2, <4>3 DEF Before
        <4> QED
          BY <4>1, <4>3, <4>4
      <3>3. CASE LateSent(r) /\ ~ToBody(r)
        <4>1. PICK s \in req[r].todo : req' = [req EXCEPT ![r].todo = @ \ {s}, ![r].now = s]
          BY <3>3 DEF LateSent
        <4>2. PICK v \in Workers : v = req[r] /\ v.stage = "sending"
          BY <3>3 DEF LateSent, TypeInv, RestOK, ReqWorkers
        <4>3. PICK w : w = [v EXCEPT !.todo = v.todo \ {s}, !.now = s]
          OBVIOUS
        <4>4. req' = [req EXCEPT ![r] = w]
          BY <4>1, <4>2, <4>3 DEF TypeInv, RestOK
        <4>5. w = [stage |-> "sending", todo |-> v.todo \ {s}, now |-> s]
          BY <4>2, <4>3, WorkerGoesOn
        <4>6. w.stage = "sending" /\ Before(w, r)
          BY <2>2, <4>1, <4>2, <4>5 DEF Before
        <4> QED
          BY <4>4, <4>6
      <3>4. CASE ToBody(r)
        BY <3>1, <3>4 DEF ToBody
      <3>5. CASE ReqBody(r) \/ ReqDone(r) \/ \E a \in Outcomes : ReqPosted(r, a)
        BY <3>1, <3>5 DEF ReqBody, ReqDone, ReqPosted
      <3> QED
        BY <1>2, <3>2, <3>3, <3>4, <3>5 DEF ReqStep
    <2>6. WorkInv' /\ (Polled => Polled')
      BY <2>1, <2>4, <2>5, WorkStep
    <2>7. CASE LateSent(r)
      <3>1. Cleanup({req[r].now.of}) /\ \A q \in {req[r].now.of} : q < r /\ q \in Requests
        BY <2>2, <2>7 DEF LateSent, TypeInv, RestOK, ReqWorkers, Slots
      <3>2. \A q \in {req[r].now.of} : q < invoked
        BY <2>4, <3>1, RetryAssumption DEF Requests
      <3> QED
        BY <2>1, <2>6, <3>1, <3>2, EntryCleaned
    <2>8. CASE ~LateSent(r)
      <3>1. UNCHANGED slot
        BY <1>2, <2>8 DEF ReqStep, ReqStart, ReqBody, ReqDone, ReqPosted, requestVars
      <3>2. CurrentKeepsEntry' /\ StartInv'
        BY <2>1, <2>6, <3>1 DEF EntryInv, CurrentKeepsEntry, StartInv, registered
      <3> QED
        BY <2>6, <3>2 DEF EntryInv
    <2> QED
      BY <2>7, <2>8
  <1> QED
    BY <1>1, <1>2

\* SHUTDOWN and a 403: no INVOKE comes any more.
LEMMA EntryShutdown ==
    ASSUME TypeInv, EntryInv, Shutdown \/ ShutdownStep \/ ShutdownTimeOut \/ FatalNext
    PROVE  EntryInv'
  <1>1. CASE EmergencyPending
    <2>1. /\ loop = "emergency" /\ loop' = "emergencyPend"
          /\ pend' = [pend EXCEPT ![None] = Worker("spawned")]
          /\ UNCHANGED <<invoked, started, slot, req>>
      BY <1>1 DEF EmergencyPending, requestVars
    <2>2. \A n \in Requests : pend'[n] = pend[n]
      <3>1. pend \in [RetryIds -> PendWorkers] /\ Requests \subseteq RetryIds /\ None \notin Requests
        BY TaskTypes DEF TypeInv, RestOK, Requests, None
      <3> QED
        BY <2>1, <3>1
    <2>3. CurrentKeepsEntry'
      BY <2>1 DEF CurrentKeepsEntry
    <2>4. StartInv'
      BY <2>1, <2>2 DEF EntryInv, StartInv, Polled, InInvoke
    <2>5. WorkInv'
      BY <2>1, <2>2 DEF EntryInv, WorkInv, Before
    <2> QED
      BY <2>3, <2>4, <2>5 DEF EntryInv
  <1>2. CASE ~EmergencyPending
    <2>1. UNCHANGED <<invoked, started, slot, pend, req>>
      <3>1. CASE \/ Shutdown \/ ShutdownTimeOut \/ FatalNext \/ ShutdownDrained
                 \/ LastHandshakeOver \/ LastInstall \/ EmergencyDone
                 \/ \E a \in {"ok", "failed", "restart", "disconnect"} : ErrorSent(a)
        BY <3>1 DEF Shutdown, ShutdownTimeOut, FatalNext, ShutdownDrained, LastHandshakeOver,
             LastInstall, EmergencyDone, ErrorSent, Unmoved, requestVars, workerVars
      <3>2. CASE \/ \E r \in Requests : SweepTake(r)
                 \/ SweepDone \/ LastTelemetryDone \/ LastMetricsDone \/ LastPayloadsDone
                 \/ \E r \in Requests, a \in Outcomes : LastReportPosted(r, a)
        BY <3>2 DEF SweepTake, SweepDone, LastTelemetryDone, LastMetricsDone, LastPayloadsDone,
             LastReportPosted, Unmoved, requestVars, workerVars
      <3> QED
        BY <1>2, <3>1, <3>2 DEF ShutdownStep
    <2>2. /\ loop' \notin InInvoke
          /\ loop' \notin {"cap", "join", "handshake", "next"}
          /\ loop \in {"emergencyPend"} \cup Ended => loop' \in {"emergencyPend"} \cup Ended
      <3>1. CASE \/ Shutdown \/ ShutdownTimeOut \/ FatalNext \/ ShutdownDrained
                 \/ LastHandshakeOver \/ LastInstall \/ EmergencyDone
                 \/ \E a \in {"ok", "failed", "restart", "disconnect"} : ErrorSent(a)
        BY <3>1 DEF Shutdown, ShutdownTimeOut, FatalNext, ShutdownDrained, LastHandshakeOver,
             LastInstall, EmergencyDone, ErrorSent, ToSweep, InInvoke, Ended, Stopping, Emergency
      <3>2. CASE \/ \E r \in Requests : SweepTake(r)
                 \/ SweepDone \/ LastTelemetryDone \/ LastMetricsDone \/ LastPayloadsDone
                 \/ \E r \in Requests, a \in Outcomes : LastReportPosted(r, a)
        BY <3>2 DEF SweepTake, SweepDone, LastTelemetryDone, LastMetricsDone, LastPayloadsDone,
             LastReportPosted, InInvoke, Ended
      <3> QED
        BY <1>2, <3>1, <3>2 DEF ShutdownStep
    <2> QED
      BY <2>1, <2>2, EntryGoesOn
  <1> QED
    BY <1>1, <1>2

\* Every step keeps it.
LEMMA EntryStep == TypeInv /\ EntryInv /\ [Next]_vars => EntryInv'
  <1> SUFFICES ASSUME TypeInv, EntryInv, [Next]_vars PROVE EntryInv'
    OBVIOUS
  <1>1. CASE UNCHANGED vars
    BY <1>1, EntrySame DEF vars, loopVars, requestVars, workerVars, entryVars
  <1>2. CASE Terminated
    BY <1>1, <1>2 DEF Terminated
  <1>3. CASE \/ TelemetryRetried \/ MetricRetried \/ BackgroundInstall \/ SessionEnds
             \/ \E h \in Handshakes : HandshakeEnds(h)
    <2>1. UNCHANGED restVars
      BY <1>3 DEF TelemetryRetried, MetricRetried, BackgroundInstall, SessionEnds, HandshakeEnds
    <2> QED
      BY <2>1, EntrySame DEF restVars, loopVars, requestVars, workerVars, entryVars
  <1>4. CASE \/ \E p \in Payloads : route_payload_to_active_request(p) \/ StartSend(p) \/ Sends(p)
             \/ \E r \in Requests : PlatformReport(r) \/ Posts(r)
    <2>1. UNCHANGED <<loopVars, requestVars, workerVars>>
      BY <1>4 DEF route_payload_to_active_request, StartSend, Sends, FinishSend, PlatformReport,
                  Posts, PlatformReportPosted
    <2> QED
      BY <2>1, EntrySame DEF loopVars, requestVars, workerVars, entryVars
  <1>5. CASE PlatformStart
    <2>1. /\ UNCHANGED <<loop, invoked, pend, req>> /\ started' = started + 1
          /\ started < invoked \/ (started = invoked /\ loop = "next" /\ Polled)
          /\ slot' = slot \/ slot' = [slot EXCEPT ![started'] = "start"]
      BY <1>5 DEF PlatformStart, loopVars, workerVars
    <2>2. invoked \in Nat /\ started \in Nat /\ Requests \subseteq Nat
          /\ slot \in [Requests -> {"none", "INVOKE", "start"}]
      BY RetryAssumption DEF TypeInv, LoopOK, RestOK, Requests
    <2>3. \A r \in Requests : slot'[r] = slot[r] \/ (r = started' /\ slot'[r] = "start")
      BY <2>1, <2>2
    <2>4. CurrentKeepsEntry'
      BY <2>1, <2>3 DEF EntryInv, CurrentKeepsEntry, registered
    <2>5. StartInv'
      <3>1. started' <= invoked + 1
        BY <2>1, <2>2
      <3>2. started' > invoked => Polled /\ loop \notin InInvoke
        BY <2>1, <2>2 DEF InInvoke
      <3>3. \A r \in Requests : slot'[r] # "none" => r <= invoked \/ r <= started'
        BY <2>1, <2>2, <2>3 DEF EntryInv, StartInv
      <3> QED
        BY <2>1, <3>1, <3>2, <3>3 DEF StartInv, Polled
    <2>6. WorkInv'
      BY <2>1 DEF EntryInv, WorkInv, Before
    <2> QED
      BY <2>4, <2>5, <2>6 DEF EntryInv
  <1> QED
    BY <1>1, <1>2, <1>3, <1>4, <1>5, EntryInvoke, EntryWork, EntryShutdown DEF Next

\* The request of the last INVOKE keeps its entry until the next one.
THEOREM EntryKept == Spec => []CurrentKeepsEntry
  <1>1. Init => EntryInv
    BY EntryInit
  <1>2. TypeInv /\ EntryInv /\ [Next]_vars => EntryInv'
    BY EntryStep
  <1>3. EntryInv => CurrentKeepsEntry
    BY DEF EntryInv
  <1> QED
    BY <1>1, <1>2, <1>3, TypeAlways, PTL DEF Spec
=============================================================================
