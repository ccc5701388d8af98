---------------------- MODULE ServerlessDelivery_proofs ----------------------
(***************************************************************************)
(* Proofs about ServerlessDelivery, in six parts: types (TypeOK is         *)
(* inductive); the age of request entries (ActiveInv: the cleanup's        *)
(* candidates are all older than the active request); late pairs, on top   *)
(* of ActiveInv; with synchronous_flush off, delivery (DeliveryInv: what a *)
(* POST or the cleanup will remove is what it carries); the handles of     *)
(* immediate sends (HandleInv); and the refinement of PayloadCustody       *)
(* (CustodyInv).                                                           *)
(***************************************************************************)
EXTENDS ServerlessDelivery, TLAPS

\* The last conjunct of TypeOK about the cleanup.
CurrentOK == cleaner.phase \in {"sending", "handles"} => cleaner.current # NoRequest

\* A snapshot of the batch is a post.
LEMMA SnapshotType ==
    ASSUME NEW sender \in Senders, NEW wh, NEW rp
    PROVE  get_batch_with_reports_only(sender, wh, rp) \in Posts
  BY DEF get_batch_with_reports_only, Posts

\* Moving payloads keeps `where` a function to places.
LEMMA MovedType ==
    ASSUME TypeOK, NEW S, NEW place \in Places
    PROVE  Moved(S, place) \in [Payloads -> Places]
  BY DEF TypeOK, Moved

\* The end of an INVOKE keeps the types of what it changes.
LEMMA EndInvocationType ==
    ASSUME TypeOK, NEW n, EndInvocation(n)
    PROVE  loop' \in Waits /\ cleaner' \in Cleanups /\ CurrentOK'
  BY DEF TypeOK, CurrentOK, EndInvocation, Waits, Cleanups

\* So does spawning the processing task.
LEMMA SpawnProcessingType ==
    ASSUME TypeOK, NEW r \in Requests, NEW n, NEW handles \in SUBSET Requests,
           SpawnProcessing(r, n, handles)
    PROVE  /\ loop' \in Waits /\ cleaner' \in Cleanups /\ CurrentOK'
           /\ task' \in [Requests -> Stages] /\ flushing' \in SUBSET Requests
  <1>1. CASE PipelineFlush /\ ~SynchronousFlush
    BY <1>1, EndInvocationType DEF TypeOK, CurrentOK, SpawnProcessing, Spawned, Stages
  <1>2. CASE ~(PipelineFlush /\ ~SynchronousFlush)
    BY <1>2 DEF TypeOK, CurrentOK, SpawnProcessing, Spawned, Stages, Waits
  <1> QED
    BY <1>1, <1>2

\* So does the send that may come before it.
LEMMA SendThenSpawnType ==
    ASSUME TypeOK, NEW r \in Requests, NEW n, NEW handles \in SUBSET Requests,
           NEW wh, NEW rp, SendThenSpawn(r, n, handles, wh, rp)
    PROVE  /\ loop' \in Waits /\ cleaner' \in Cleanups /\ CurrentOK' /\ posts' \in SUBSET Posts
           /\ task' \in [Requests -> Stages] /\ flushing' \in SUBSET Requests
  <1>1. CASE should_send_batch_by_threshold(rp)
    <2>1. get_batch_with_reports_only([by |-> "loop", request |-> r], wh, rp) \in Posts
      BY SnapshotType DEF Senders
    <2> QED
      BY <1>1, <2>1 DEF TypeOK, CurrentOK, SendThenSpawn, Waits
  <1>2. CASE ~should_send_batch_by_threshold(rp)
    BY <1>2, SpawnProcessingType DEF TypeOK, CurrentOK, SendThenSpawn
  <1> QED
    BY <1>1, <1>2

\* What the end of a batch POST changes keeps its type.
LEMMA FinishPostType ==
    ASSUME TypeOK, NEW post \in posts, NEW o, FinishPost(post, o)
    PROVE  /\ posts' \in SUBSET Posts /\ where' \in [Payloads -> Places]
           /\ report' \in [Requests -> {"absent", "pending", "batch", "shutdown", "gone"}]
           /\ acked' \in SUBSET Payloads
           /\ reportSettled' \in SUBSET Requests /\ UNCHANGED <<dropped, filed, handle>>
  BY DEF TypeOK, FinishPost, Answered, clear_batch_with_reports, RemoveEntries,
         Posts, Places

\* TypeOK is inductive: one step per action.
LEMMA TypeStep == TypeOK /\ [Next]_vars => TypeOK'
  <1> SUFFICES ASSUME TypeOK, [Next]_vars PROVE TypeOK'
    OBVIOUS
  <1> USE DEF requestVars, answerVars, payloadVars
  <1>1. CASE UNCHANGED vars
    BY <1>1 DEF TypeOK, vars
  <1>2. ASSUME NEW r \in Requests, PlatformReport(r) PROVE TypeOK'
    BY <1>2, MovedType DEF TypeOK, PlatformReport, Places, Senders
  <1>3. ASSUME NEW p \in Payloads, route_payload_to_active_request(p) PROVE TypeOK'
    BY <1>3, MovedType DEF TypeOK, route_payload_to_active_request, Places
  <1>4. ASSUME NEW r \in Requests, ProcessStart(r) PROVE TypeOK'
    BY <1>4, MovedType DEF TypeOK, ProcessStart, Places, Senders, Stages, ReportAfterTaking
  <1>5. ASSUME NEW r \in Requests, ProcessJoin(r) PROVE TypeOK'
    BY <1>5 DEF TypeOK, ProcessJoin, Stages
  <1>6. ASSUME NEW r \in Requests, ProcessDone(r) PROVE TypeOK'
    BY <1>6 DEF TypeOK, ProcessDone, Stages
  <1>7. ASSUME NEW r \in Requests, Invoke(r) PROVE TypeOK'
    <2> DEFINE late == LatePairs(r)
               wh == [p \in Payloads |->
                        IF where[p] = "buffer" /\ filed[p] \in late THEN "batch"
                        ELSE IF where[p] = "orphan" THEN "buffer" ELSE where[p]]
               rp == [q \in Requests |-> IF q \in late THEN "batch" ELSE report[q]]
    <2>1. /\ where' = wh /\ report' = rp
          /\ filed' = [p \in Payloads |-> IF where[p] = "orphan" THEN r ELSE filed[p]]
          /\ active' = r /\ invocations' = invocations + 1
          /\ registered' = registered \cup {r}
          /\ created' = [created EXCEPT ![r] = invocations + 1]
          /\ UNCHANGED <<handle, queued, answerVars, due>>
      BY <1>7 DEF Invoke
    <2>2. wh \in [Payloads -> Places] /\ Unfinished \in SUBSET Requests
      BY DEF TypeOK, Places, Unfinished
    <2>3. /\ loop' \in Waits /\ cleaner' \in Cleanups /\ CurrentOK' /\ posts' \in SUBSET Posts
          /\ task' \in [Requests -> Stages] /\ flushing' \in SUBSET Requests
      <3>1. CASE Cardinality(Unfinished) >= PipelineCap
        BY <1>7, <3>1, <2>2 DEF Invoke, TypeOK, CurrentOK, Waits
      <3>2. CASE ~(Cardinality(Unfinished) >= PipelineCap)
        <4>1. SendThenSpawn(r, invocations + 1, Unfinished, wh, rp)
          BY <1>7, <3>2 DEF Invoke
        <4> QED
          BY <4>1, <2>2, SendThenSpawnType
      <3> QED
        BY <3>1, <3>2
    <2>4. /\ rp \in [Requests -> {"absent", "pending", "batch", "shutdown", "gone"}]
          /\ filed' \in [Payloads -> Requests \cup {NoRequest}]
          /\ created' \in [Requests -> Nat] /\ invocations' \in Nat
          /\ registered' \in SUBSET Requests /\ r # NoRequest
      BY <2>1, NoRequestAssumption DEF TypeOK
    <2> QED
      BY <2>1, <2>2, <2>3, <2>4 DEF TypeOK, CurrentOK
  <1>8. ASSUME NEW r \in Requests, CapReached(r) PROVE TypeOK'
    <2>1. active \in Requests /\ flushing \ {r} \in SUBSET Requests
      BY <1>8 DEF TypeOK, CapReached
    <2>2. /\ loop' \in Waits /\ cleaner' \in Cleanups /\ CurrentOK' /\ posts' \in SUBSET Posts
          /\ task' \in [Requests -> Stages] /\ flushing' \in SUBSET Requests
      BY <2>1, <1>8, SendThenSpawnType DEF CapReached
    <2> QED
      BY <2>1, <2>2, <1>8 DEF TypeOK, CurrentOK, CapReached
  <1>9. ASSUME ProcessingDone PROVE TypeOK'
    BY <1>9, EndInvocationType DEF TypeOK, CurrentOK, ProcessingDone
  <1>10. ASSUME Shutdown PROVE TypeOK'
    BY <1>10 DEF TypeOK, Shutdown, Waits
  <1>11. ASSUME Emergency PROVE TypeOK'
    BY <1>11 DEF TypeOK, Emergency, Waits
  <1>12. ASSUME ShutdownTimeOut PROVE TypeOK'
    BY <1>12 DEF TypeOK, ShutdownTimeOut, Waits, Ended
  <1>13. ASSUME ShutdownSweep PROVE TypeOK'
    BY <1>13 DEF TypeOK, ShutdownSweep, Waits, InCustody
  <1>14. ASSUME ShutdownCollect PROVE TypeOK'
    BY <1>14, MovedType DEF TypeOK, ShutdownCollect, Waits, Places
  <1>15. ASSUME ShutdownDone PROVE TypeOK'
    BY <1>15 DEF TypeOK, ShutdownDone, Waits, Ended
  <1>16. ASSUME EmergencySend PROVE TypeOK'
    <2>1. get_batch_with_reports_only([by |-> "loop", request |-> NoRequest], where, report)
            \in Posts
      BY SnapshotType DEF Senders
    <2> QED
      BY <1>16, <2>1 DEF TypeOK, EmergencySend, Waits
  <1>17. ASSUME EmergencyDone PROVE TypeOK'
    BY <1>17 DEF TypeOK, EmergencyDone, Waits, Ended
  <1>18. ASSUME NEW sender \in queued, StartQueuedSend(sender) PROVE TypeOK'
    <2>1. get_batch_with_reports_only(sender, where, report) \in Posts
      BY SnapshotType DEF TypeOK
    <2> QED
      BY <1>18, <2>1 DEF TypeOK, StartQueuedSend
  <1>19. ASSUME NEW post \in posts, NEW o \in Outcomes, FinishQueuedSend(post, o) PROVE TypeOK'
    BY <1>19, FinishPostType DEF TypeOK, FinishQueuedSend
  <1>20. ASSUME NEW post \in posts, NEW o \in Outcomes, LastSendDone(post, o) PROVE TypeOK'
    BY <1>20, FinishPostType DEF TypeOK, LastSendDone
  <1>21. ASSUME NEW post \in posts, NEW o \in Outcomes, ThresholdSendDone(post, o)
         PROVE TypeOK'
    <2>1. active \in Requests /\ flushing \in SUBSET Requests
      BY <1>21 DEF TypeOK, ThresholdSendDone
    <2>2. /\ loop' \in Waits /\ cleaner' \in Cleanups /\ CurrentOK'
          /\ task' \in [Requests -> Stages] /\ flushing' \in SUBSET Requests
      BY <2>1, <1>21, SpawnProcessingType DEF ThresholdSendDone
    <2> QED
      BY <2>1, <2>2, <1>21, FinishPostType DEF TypeOK, CurrentOK, ThresholdSendDone
  <1>22. ASSUME NEW p \in Payloads, NEW o \in Outcomes, FinishImmediateSend(p, o) PROVE TypeOK'
    BY <1>22, MovedType DEF TypeOK, FinishImmediateSend, Answered, Places
  <1>23. ASSUME NEW p \in Payloads, NEW o \in Outcomes, CleanerSend(p, o) PROVE TypeOK'
    BY <1>23, MovedType DEF TypeOK, CleanerSend, Answered, AnsweredForGood, Places
  <1>24. ASSUME NEW o \in Outcomes, CleanerBatchDone(o) PROVE TypeOK'
    BY <1>24 DEF TypeOK, CleanerBatchDone, Answered, AnsweredForGood, RemoveEntries,
       Places, ToBuffers, Cleaner, Cleanups, StaleRequests
  <1>25. ASSUME NEW chunk \in SUBSET Payloads, NEW o \in Outcomes, ShutdownSend(chunk, o)
         PROVE TypeOK'
    BY <1>25, MovedType DEF TypeOK, ShutdownSend, Answered, AnsweredForGood, Places
  <1>26. ASSUME CleanerStart PROVE TypeOK'
    BY <1>26 DEF TypeOK, CleanerStart, ToBuffers, Cleaner, Cleanups, StaleRequests
  <1>27. ASSUME NEW r \in Requests, CleanerTake(r) PROVE TypeOK'
    BY <1>27, NoRequestAssumption, MovedType DEF TypeOK, CleanerTake, Cleanups, Places
  <1>28. ASSUME CleanerHandles PROVE TypeOK'
    BY <1>28 DEF TypeOK, CleanerHandles, Cleanups
  <1>29. ASSUME CleanerRemove PROVE TypeOK'
    <2>1. where' \in [Payloads -> Places]
      BY <1>29, MovedType DEF CleanerRemove, Places
    <2>2. handle' \in [Payloads -> {"none", "entry", "task", "sweep", "cleaner", "abandoned"}]
      BY <1>29 DEF TypeOK, CleanerRemove
    <2>3. /\ report' \in [Requests -> {"absent", "pending", "batch", "shutdown", "gone"}]
          /\ reportSettled' \in SUBSET Requests
      BY <1>29 DEF TypeOK, CurrentOK, CleanerRemove, Cleanups
    <2>4. cleaner' \in Cleanups /\ CurrentOK' /\ registered' \in SUBSET Requests
      BY <1>29 DEF TypeOK, CurrentOK, CleanerRemove, Cleanups
    <2> QED
      BY <1>29, <2>1, <2>2, <2>3, <2>4 DEF TypeOK, CurrentOK, CleanerRemove
  <1>30. ASSUME CleanerDone PROVE TypeOK'
    BY <1>30 DEF TypeOK, CleanerDone, IdleCleaner, Cleaner, Cleanups
  <1>31. ASSUME Terminated PROVE TypeOK'
    BY <1>31, <1>1 DEF Terminated
  <1> QED
    BY <1>1, <1>2, <1>3, <1>4, <1>5, <1>6, <1>7, <1>8, <1>9, <1>10, <1>11, <1>12,
       <1>13, <1>14, <1>15, <1>16, <1>17, <1>18, <1>19, <1>20, <1>21, <1>22, <1>23,
       <1>24, <1>25, <1>26, <1>27, <1>28, <1>29, <1>30, <1>31
    DEF Next, Environment, LoopSteps, TaskSteps, SendSteps, CleanerSteps

\* TypeOK holds initially.
LEMMA TypeInit == Init => TypeOK
  BY NoRequestAssumption
     DEF Init, TypeOK, Waits, Places, Stages, IdleCleaner, Cleaner, Cleanups

\* Every variable keeps its type, the event loop inside an INVOKE has an active
\* request, and a cleanup at work on a request names it.
THEOREM TypeCorrect == Spec => []TypeOK
  BY TypeInit, TypeStep, PTL DEF Spec

-----------------------------------------------------------------------------
(* The active request keeps its entry.                                     *)

Serving == {"next", "cap", "threshold", "awaiting"}

\* What the cleanup may touch is not the active request: the entries it will
\* remove were created by an earlier INVOKE, and the counter that ages them is
\* at most one past the active request's own (SHUTDOWN counts too).
AgeInv ==
    /\ active = NoRequest => registered = {}
    /\ \A r \in registered : created[r] # 0
    /\ active # NoRequest => created[active] # 0 /\ invocations <= created[active] + 1
    /\ active # NoRequest /\ loop \in Serving => created[active] = invocations
    /\ \A r \in cleaner.stale : r # active /\ created[r] # 0
    /\ cleaner.phase \in {"sending", "handles"}
          => cleaner.current # active /\ created[cleaner.current] # 0

ActiveInv == AgeInv /\ ActiveIsRegistered

\* A step that leaves the entries, their ages and the cleanup alone.
LEMMA ActiveQuiet ==
    ASSUME ActiveInv, UNCHANGED <<requestVars, cleaner>>, loop' \in Serving => loop \in Serving
    PROVE  ActiveInv'
  BY DEF ActiveInv, AgeInv, ActiveIsRegistered, requestVars

\* The end of an INVOKE at most spawns the cleanup.
CleanupSpawned == cleaner.phase = "idle" /\ cleaner' = [cleaner EXCEPT !.phase = "spawned"]

\* Spawning the processing task does to the cleanup what the end of an INVOKE does.
LEMMA SpawnProcessingCleaner ==
    ASSUME NEW r, NEW n, NEW handles, SpawnProcessing(r, n, handles)
    PROVE  loop' \in Serving /\ (cleaner' = cleaner \/ CleanupSpawned)
  BY DEF SpawnProcessing, EndInvocation, CleanupSpawned, Serving

\* The send before it does nothing more.
LEMMA SendThenSpawnCleaner ==
    ASSUME NEW r, NEW n, NEW handles, NEW wh, NEW rp, SendThenSpawn(r, n, handles, wh, rp)
    PROVE  loop' \in Serving /\ (cleaner' = cleaner \/ CleanupSpawned)
  BY SpawnProcessingCleaner DEF SendThenSpawn, Serving

\* Spawning the cleanup changes nothing but its phase.
LEMMA CleanupSpawnedType ==
    ASSUME TypeOK, CleanupSpawned
    PROVE  /\ cleaner'.phase = "spawned" /\ cleaner'.stale = cleaner.stale
           /\ cleaner'.current = cleaner.current
  BY DEF TypeOK, Cleanups, CleanupSpawned

\* No stale request is the active one.
LEMMA StaleNotActive ==
    ASSUME TypeOK, ActiveInv
    PROVE  \A r \in StaleRequests : r # active /\ created[r] # 0
  BY StaleAssumption, NoRequestAssumption
     DEF TypeOK, ActiveInv, AgeInv, ActiveIsRegistered, StaleRequests

\* ActiveInv is inductive under TypeOK: one step per action.
LEMMA ActiveStep == TypeOK /\ ActiveInv /\ [Next]_vars => ActiveInv'
  <1> SUFFICES ASSUME TypeOK, ActiveInv, [Next]_vars PROVE ActiveInv'
    OBVIOUS
  <1> USE DEF requestVars
  <1>1. CASE UNCHANGED vars
    BY <1>1, ActiveQuiet DEF vars
  <1>2. ASSUME NEW r \in Requests, PlatformReport(r) PROVE ActiveInv'
    BY <1>2, ActiveQuiet DEF PlatformReport
  <1>3. ASSUME NEW p \in Payloads, route_payload_to_active_request(p) PROVE ActiveInv'
    BY <1>3, ActiveQuiet DEF route_payload_to_active_request
  <1>4. ASSUME NEW r \in Requests, ProcessStart(r) \/ ProcessJoin(r) \/ ProcessDone(r)
        PROVE ActiveInv'
    BY <1>4, ActiveQuiet DEF ProcessStart, ProcessJoin, ProcessDone
  <1>5. ASSUME NEW r \in Requests, Invoke(r) PROVE ActiveInv'
    <2>1. /\ loop = "next" /\ created[r] = 0
          /\ active' = r /\ invocations' = invocations + 1
          /\ registered' = registered \cup {r}
          /\ created' = [created EXCEPT ![r] = invocations + 1]
      BY <1>5 DEF Invoke
    <2>2. loop' \in Serving /\ (cleaner' = cleaner \/ CleanupSpawned)
      BY <1>5, SendThenSpawnCleaner DEF Invoke, Serving
    <2>3. /\ cleaner'.stale = cleaner.stale /\ cleaner'.current = cleaner.current
          /\ cleaner'.phase \in {"sending", "handles"} => cleaner.phase = cleaner'.phase
      BY <2>2, CleanupSpawnedType
    <2>4. cleaner.stale \subseteq Requests
          /\ (cleaner.phase \in {"sending", "handles"} => cleaner.current \in Requests)
      BY DEF TypeOK, Cleanups
    <2> QED
      BY <2>1, <2>2, <2>3, <2>4, NoRequestAssumption
         DEF TypeOK, ActiveInv, AgeInv, ActiveIsRegistered
  <1>6. ASSUME NEW r \in Requests, CapReached(r) PROVE ActiveInv'
    <2>1. loop \in Serving /\ loop' \in Serving /\ (cleaner' = cleaner \/ CleanupSpawned)
      BY <1>6, SendThenSpawnCleaner DEF CapReached, Serving
    <2> QED
      BY <1>6, <2>1, CleanupSpawnedType
         DEF CapReached, ActiveInv, AgeInv, ActiveIsRegistered
  <1>7. ASSUME NEW post \in posts, NEW o \in Outcomes, ThresholdSendDone(post, o)
        PROVE ActiveInv'
    <2>1. loop \in Serving /\ loop' \in Serving /\ (cleaner' = cleaner \/ CleanupSpawned)
      BY <1>7, SpawnProcessingCleaner DEF ThresholdSendDone, Serving
    <2> QED
      BY <1>7, <2>1, CleanupSpawnedType
         DEF ThresholdSendDone, ActiveInv, AgeInv, ActiveIsRegistered
  <1>8. ASSUME ProcessingDone PROVE ActiveInv'
    <2>1. loop \in Serving /\ loop' \in Serving /\ (cleaner' = cleaner \/ CleanupSpawned)
      BY <1>8 DEF ProcessingDone, EndInvocation, CleanupSpawned, Serving
    <2> QED
      BY <1>8, <2>1, CleanupSpawnedType
         DEF ProcessingDone, ActiveInv, AgeInv, ActiveIsRegistered
  <1>9. ASSUME Shutdown PROVE ActiveInv'
    BY <1>9 DEF Shutdown, TypeOK, ActiveInv, AgeInv, ActiveIsRegistered, Serving
  <1>10. CASE \/ Emergency \/ ShutdownTimeOut \/ ShutdownSweep \/ ShutdownCollect
              \/ ShutdownDone \/ EmergencySend \/ EmergencyDone
    BY <1>10, ActiveQuiet DEF Emergency, ShutdownTimeOut, ShutdownSweep, ShutdownCollect,
       ShutdownDone, EmergencySend, EmergencyDone, Serving
  <1>11. ASSUME NEW sender \in queued, StartQueuedSend(sender) PROVE ActiveInv'
    BY <1>11, ActiveQuiet DEF StartQueuedSend
  <1>12. ASSUME NEW post \in posts, NEW o \in Outcomes,
                FinishQueuedSend(post, o) \/ LastSendDone(post, o)
         PROVE ActiveInv'
    BY <1>12, ActiveQuiet DEF FinishQueuedSend, LastSendDone
  <1>13. ASSUME NEW p \in Payloads, NEW o \in Outcomes,
                FinishImmediateSend(p, o) \/ CleanerSend(p, o)
         PROVE ActiveInv'
    BY <1>13, ActiveQuiet DEF FinishImmediateSend, CleanerSend
  <1>14. ASSUME NEW chunk \in SUBSET Payloads, NEW o \in Outcomes, ShutdownSend(chunk, o)
         PROVE ActiveInv'
    BY <1>14, ActiveQuiet DEF ShutdownSend
  <1>15. ASSUME CleanerStart \/ \E o \in Outcomes : CleanerBatchDone(o) PROVE ActiveInv'
    <2>1. /\ cleaner'.phase \in {"batch", "buffers"}
          /\ cleaner'.stale \in {{}, StaleRequests}
          /\ UNCHANGED <<loop, requestVars>>
      BY <1>15 DEF CleanerStart, CleanerBatchDone, ToBuffers, Cleaner
    <2> QED
      BY <2>1, StaleNotActive DEF ActiveInv, AgeInv, ActiveIsRegistered
  <1>16. ASSUME NEW r \in Requests, CleanerTake(r) PROVE ActiveInv'
    BY <1>16 DEF CleanerTake, TypeOK, Cleanups, ActiveInv, AgeInv, ActiveIsRegistered
  <1>17. ASSUME CleanerHandles PROVE ActiveInv'
    BY <1>17 DEF CleanerHandles, TypeOK, Cleanups, ActiveInv, AgeInv, ActiveIsRegistered
  <1>18. ASSUME CleanerRemove PROVE ActiveInv'
    <2>1. /\ registered' = registered \ {cleaner.current} /\ cleaner.phase = "handles"
          /\ UNCHANGED <<loop, active, invocations, created>>
      BY <1>18 DEF CleanerRemove
    <2>2. cleaner'.phase = "buffers" /\ cleaner'.stale \subseteq cleaner.stale
      BY <1>18 DEF CleanerRemove, TypeOK, Cleanups
    <2> QED
      BY <2>1, <2>2 DEF ActiveInv, AgeInv, ActiveIsRegistered
  <1>19. ASSUME CleanerDone PROVE ActiveInv'
    BY <1>19 DEF CleanerDone, IdleCleaner, Cleaner, ActiveInv, AgeInv, ActiveIsRegistered
  <1>20. CASE Terminated
    BY <1>20, <1>1 DEF Terminated
  <1> QED
    BY <1>1, <1>2, <1>3, <1>4, <1>5, <1>6, <1>7, <1>8, <1>9, <1>10, <1>11, <1>12,
       <1>13, <1>14, <1>15, <1>16, <1>17, <1>18, <1>19, <1>20
    DEF Next, Environment, LoopSteps, TaskSteps, SendSteps, CleanerSteps

\* ActiveInv holds initially.
LEMMA ActiveInit == Init => ActiveInv
  BY DEF Init, ActiveInv, AgeInv, ActiveIsRegistered, IdleCleaner, Cleaner

\* ActiveInv is an invariant.
LEMMA ActiveCorrect == Spec => []ActiveInv
  BY ActiveInit, ActiveStep, TypeCorrect, PTL DEF Spec

\* The cleanup never takes the active request's entry away: the router's
\* "payload lost!" branch is dead code.
THEOREM ActiveStaysRegistered == Spec => []ActiveIsRegistered
  BY ActiveCorrect, PTL DEF ActiveInv

-----------------------------------------------------------------------------
(* Both halves of an earlier request never wait side by side.              *)

\* A step after which no report is newly pending, no payload newly buffered and
\* no request newly an earlier one.
LEMMA LatePairsQuiet ==
    ASSUME LatePairsDrained, UNCHANGED <<active, filed>>, registered' \subseteq registered,
           registered \subseteq Requests,
           \A r \in Requests : report'[r] = "pending" => report[r] = "pending",
           \A p \in Payloads : where'[p] = "buffer" => where[p] = "buffer"
    PROVE  LatePairsDrained'
  BY DEF LatePairsDrained, agent_buffer, At

\* LatePairsDrained is inductive under TypeOK and ActiveInv.
LEMMA LatePairsStep == TypeOK /\ ActiveInv /\ LatePairsDrained /\ [Next]_vars => LatePairsDrained'
  <1> SUFFICES ASSUME TypeOK, ActiveInv, LatePairsDrained, [Next]_vars PROVE LatePairsDrained'
    OBVIOUS
  <1> USE DEF requestVars, payloadVars
  <1>0. registered \subseteq Requests
    BY DEF TypeOK
  <1>1. CASE UNCHANGED vars
    BY <1>1, <1>0, LatePairsQuiet DEF vars
  <1>2. ASSUME NEW r \in Requests, PlatformReport(r) PROVE LatePairsDrained'
    <2>1. UNCHANGED <<active, filed, registered>>
      BY <1>2 DEF PlatformReport
    <2>2. \A p \in Payloads : where'[p] = "buffer" => where[p] = "buffer"
      BY <1>2 DEF PlatformReport, Moved
    <2>3. \A q \in Requests : report'[q] = "pending" /\ q \in registered /\ q # r
                                 => report[q] = "pending"
      BY <1>2 DEF PlatformReport, TypeOK
    <2>4. r \in registered /\ report'[r] = "pending" => agent_buffer(r) = {}
      BY <1>2 DEF PlatformReport, TypeOK
    <2> QED
      BY <2>1, <2>2, <2>3, <2>4, <1>0 DEF LatePairsDrained, agent_buffer, At
  <1>3. ASSUME NEW p \in Payloads, route_payload_to_active_request(p) PROVE LatePairsDrained'
    <2>1. UNCHANGED <<active, registered, report>>
      BY <1>3 DEF route_payload_to_active_request
    <2>2. CASE active = NoRequest
      BY <2>1, <2>2, <1>3 DEF ActiveInv, AgeInv, LatePairsDrained
    <2>3. CASE active # NoRequest
      <3>1. /\ filed' = [filed EXCEPT ![p] = active]
            /\ \A q \in Payloads \ {p} : where'[q] = where[q]
        BY <2>3, <1>3 DEF route_payload_to_active_request, Moved, TypeOK
      <3> QED
        BY <2>1, <3>1 DEF LatePairsDrained, agent_buffer, At, TypeOK
    <2> QED
      BY <2>2, <2>3
  <1>4. ASSUME NEW r \in Requests, ProcessStart(r) PROVE LatePairsDrained'
    <2>1. \A q \in Requests : report'[q] = "pending" => report[q] = "pending"
      BY <1>4 DEF ProcessStart, ReportAfterTaking, TypeOK
    <2>2. \A p \in Payloads : where'[p] = "buffer" => where[p] = "buffer"
      BY <1>4 DEF ProcessStart, Moved
    <2> QED
      BY <2>1, <2>2, <1>4, <1>0, LatePairsQuiet DEF ProcessStart
  <1>5. ASSUME NEW r \in Requests, ProcessJoin(r) \/ ProcessDone(r) PROVE LatePairsDrained'
    BY <1>5, <1>0, LatePairsQuiet DEF ProcessJoin, ProcessDone
  <1>6. ASSUME NEW r \in Requests, Invoke(r) PROVE LatePairsDrained'
    <2>1. SUFFICES ASSUME NEW q \in Requests, q \in registered' \ {active'},
                          report'[q] = "pending"
                   PROVE  agent_buffer(q)' = {}
      BY <1>6, <1>0 DEF LatePairsDrained, Invoke
    <2>2. /\ active' = r /\ registered' = registered \cup {r}
          /\ \A p \in Payloads : where'[p] = "buffer" /\ where[p] # "orphan"
                                   => where[p] = "buffer" /\ filed'[p] = filed[p]
                                      /\ filed[p] \notin LatePairs(r)
          /\ \A p \in Payloads : where[p] = "orphan" => filed'[p] = r
          /\ q \notin LatePairs(r) /\ report[q] = "pending"
      BY <1>6, <2>1 DEF Invoke
    <2>3. agent_buffer(q) = {}
      BY <2>1, <2>2 DEF LatePairs
    <2> QED
      BY <2>1, <2>2, <2>3 DEF agent_buffer, At
  <1>7. ASSUME NEW r \in Requests, CapReached(r) PROVE LatePairsDrained'
    BY <1>7, <1>0, LatePairsQuiet DEF CapReached
  <1>8. ASSUME NEW post \in posts, NEW o \in Outcomes,
               \/ FinishQueuedSend(post, o) \/ LastSendDone(post, o)
               \/ ThresholdSendDone(post, o)
        PROVE LatePairsDrained'
    <2>1. FinishPost(post, o) /\ UNCHANGED requestVars
      BY <1>8 DEF FinishQueuedSend, LastSendDone, ThresholdSendDone
    <2>2. \A q \in Requests : report'[q] = "pending" => report[q] = "pending"
      BY <2>1 DEF FinishPost, clear_batch_with_reports, RemoveEntries
    <2>3. \A p \in Payloads : where'[p] = "buffer" => where[p] = "buffer"
      BY <2>1 DEF FinishPost, clear_batch_with_reports, RemoveEntries
    <2> QED
      BY <2>1, <2>2, <2>3, <1>0, LatePairsQuiet DEF FinishPost
  <1>9. CASE \/ ProcessingDone \/ Shutdown \/ Emergency \/ ShutdownTimeOut \/ ShutdownSweep
             \/ ShutdownDone \/ EmergencySend \/ EmergencyDone
             \/ CleanerStart \/ CleanerHandles \/ CleanerDone
    BY <1>9, <1>0, LatePairsQuiet
       DEF ProcessingDone, Shutdown, Emergency, ShutdownTimeOut, ShutdownSweep, ShutdownDone,
           EmergencySend, EmergencyDone, CleanerStart, CleanerHandles, CleanerDone
  <1>10. ASSUME ShutdownCollect PROVE LatePairsDrained'
    BY <1>10, <1>0, LatePairsQuiet DEF ShutdownCollect, Moved
  <1>11. ASSUME NEW sender \in queued, StartQueuedSend(sender) PROVE LatePairsDrained'
    BY <1>11, <1>0, LatePairsQuiet DEF StartQueuedSend
  <1>12. ASSUME NEW p \in Payloads, NEW o \in Outcomes,
                FinishImmediateSend(p, o) \/ CleanerSend(p, o)
         PROVE LatePairsDrained'
    BY <1>12, <1>0, LatePairsQuiet DEF FinishImmediateSend, CleanerSend, Moved
  <1>13. ASSUME NEW chunk \in SUBSET Payloads, NEW o \in Outcomes, ShutdownSend(chunk, o)
         PROVE LatePairsDrained'
    BY <1>13, <1>0, LatePairsQuiet DEF ShutdownSend, Moved
  <1>14. ASSUME NEW o \in Outcomes, CleanerBatchDone(o) PROVE LatePairsDrained'
    BY <1>14, <1>0, LatePairsQuiet DEF CleanerBatchDone, RemoveEntries
  <1>15. ASSUME NEW r \in Requests, CleanerTake(r) PROVE LatePairsDrained'
    BY <1>15, <1>0, LatePairsQuiet DEF CleanerTake, Moved
  <1>16. ASSUME CleanerRemove PROVE LatePairsDrained'
    <2>1. \A q \in Requests : report'[q] = "pending" => report[q] = "pending"
      BY <1>16 DEF CleanerRemove, TypeOK
    <2>2. \A p \in Payloads : where'[p] = "buffer" => where[p] = "buffer"
      BY <1>16 DEF CleanerRemove, Moved
    <2> QED
      BY <2>1, <2>2, <1>16, <1>0, LatePairsQuiet DEF CleanerRemove
  <1>17. CASE Terminated
    BY <1>17, <1>1 DEF Terminated
  <1> QED
    BY <1>1, <1>2, <1>3, <1>4, <1>5, <1>6, <1>7, <1>8, <1>9, <1>10, <1>11, <1>12,
       <1>13, <1>14, <1>15, <1>16, <1>17
    DEF Next, Environment, LoopSteps, TaskSteps, SendSteps, CleanerSteps

\* Whatever the order in which an earlier request's report and payloads come, they
\* are not left waiting for each other: with both there, they are in the batch.
THEOREM LatePairsAlwaysDrained == Spec => []LatePairsDrained
  <1>1. Init => LatePairsDrained
    BY DEF Init, LatePairsDrained
  <1> QED
    BY <1>1, LatePairsStep, TypeCorrect, ActiveCorrect, PTL DEF Spec

-----------------------------------------------------------------------------
(* Nothing leaves the buffers unsent (synchronous_flush off).              *)

\* An entry of the batch has its report, so nothing more is added to it.
EntriesPaired ==
    \A p \in Payloads : where[p] = "batch" => filed[p] \in Requests /\ report[filed[p]] = "batch"

\* A POST that removes the entries of S when it ends carries all they hold: its
\* snapshot is never stale.
Carries(S, payloads) ==
    /\ \A r \in S : report[r] \in {"batch", "shutdown", "gone"}
    /\ \A p \in Payloads : where[p] = "batch" /\ filed[p] \in S => p \in payloads

PostsCarry == \A post \in posts : Carries(post.reports, post.payloads)

CleanerCarries ==
    cleaner.phase = "batch" =>
        Carries(cleaner.keys, cleaner.payloads) /\ cleaner.keys \subseteq cleaner.reports

\* The buffer the cleanup has emptied is not filled again before it is removed.
CleanedStaysEmpty ==
    cleaner.phase \in {"sending", "handles"} => agent_buffer(cleaner.current) = {}

NoImmediateSend == \A p \in Payloads : where[p] \notin {"immediate", "task"}

DeliveryInv ==
    /\ NoImmediateSend /\ EntriesPaired /\ PostsCarry /\ CleanerCarries
    /\ CleanedStaysEmpty /\ NoSilentLoss /\ ReportNotLost

\* The reports that can no longer come to a request: it has had its one.
Reported == {"batch", "shutdown", "gone"}

\* What a step may do to payloads, reports and posts without hurting DeliveryInv.
FrameWhere ==
    \A p \in Payloads :
       /\ where'[p] \notin {"immediate", "task"}
       /\ where'[p] = "batch" => /\ filed'[p] = filed[p] /\ filed[p] \in Requests
                                 /\ report'[filed[p]] = "batch"
                                 /\ where[p] = "batch" \/ report[filed[p]] \notin Reported
       /\ where'[p] = "gone" => where[p] = "gone" \/ p \in acked' \cup dropped'

FrameReport ==
    \A r \in Requests :
       /\ report[r] \in Reported => report'[r] \in Reported
       /\ report'[r] = "gone" => report[r] = "gone" \/ r \in reportSettled'

FrameAnswers == acked \subseteq acked' /\ dropped \subseteq dropped'
                /\ reportSettled \subseteq reportSettled'

\* Carries, of the state the step ends in.
WillCarry(S, payloads) ==
    /\ \A r \in S : report'[r] \in Reported
    /\ \A p \in Payloads : where'[p] = "batch" /\ filed'[p] \in S => p \in payloads

FramePosts == \A post \in posts' : post \in posts \/ WillCarry(post.reports, post.payloads)

FrameCleaner ==
    \/ cleaner'.phase \notin {"batch", "sending", "handles"}
    \/ /\ cleaner' = cleaner
       /\ cleaner.phase \in {"sending", "handles"} =>
             \A p \in Payloads : where'[p] = "buffer" /\ filed'[p] = cleaner.current
                                   => where[p] = "buffer" /\ filed[p] = cleaner.current

\* What a snapshot carries it keeps carrying while its entries stay.
LEMMA CarriesKept ==
    ASSUME FrameWhere, FrameReport, NEW S \in SUBSET Requests, NEW payloads,
           Carries(S, payloads)
    PROVE  Carries(S, payloads)'
  BY DEF FrameWhere, FrameReport, Carries, Reported

\* The parts of DeliveryInv survive a step that meets the frame conditions.
LEMMA DeliveryFrame ==
    ASSUME TypeOK, DeliveryInv, FrameWhere, FrameReport, FrameAnswers, FramePosts,
           FrameCleaner
    PROVE  DeliveryInv'
  <1>1. NoImmediateSend'
    BY DEF FrameWhere, NoImmediateSend
  <1>2. EntriesPaired'
    BY DEF FrameWhere, EntriesPaired
  <1>3. PostsCarry'
    <2> SUFFICES ASSUME NEW post \in posts' PROVE Carries(post.reports, post.payloads)'
      BY DEF PostsCarry
    <2>1. CASE post \in posts
      <3>1. post.reports \in SUBSET Requests /\ Carries(post.reports, post.payloads)
        BY <2>1 DEF TypeOK, Posts, DeliveryInv, PostsCarry
      <3> QED
        BY <3>1, CarriesKept
    <2>2. CASE post \notin posts
      BY <2>2 DEF FramePosts, WillCarry, Carries, Reported
    <2> QED
      BY <2>1, <2>2
  <1>4. CleanerCarries'
    <2> SUFFICES ASSUME cleaner'.phase = "batch"
                 PROVE  /\ Carries(cleaner.keys, cleaner.payloads)'
                        /\ cleaner'.keys \subseteq cleaner'.reports
      BY DEF CleanerCarries
    <2>1. cleaner' = cleaner /\ cleaner.keys \in SUBSET Requests
      BY DEF FrameCleaner, TypeOK, Cleanups
    <2>2. Carries(cleaner.keys, cleaner.payloads) /\ cleaner.keys \subseteq cleaner.reports
      BY <2>1 DEF DeliveryInv, CleanerCarries
    <2>3. cleaner'.keys = cleaner.keys /\ cleaner'.payloads = cleaner.payloads
          /\ cleaner'.reports = cleaner.reports
      BY <2>1
    <2> QED
      BY <2>1, <2>2, <2>3 DEF Carries, FrameWhere, FrameReport, Reported
  <1>5. CleanedStaysEmpty'
    <2>1. CASE cleaner'.phase \in {"sending", "handles"}
      <3>1. cleaner' = cleaner /\ cleaner.phase \in {"sending", "handles"}
        BY <2>1 DEF FrameCleaner
      <3>2. agent_buffer(cleaner.current) = {}
        BY <3>1 DEF DeliveryInv, CleanedStaysEmpty
      <3>3. \A p \in Payloads : ~(where'[p] = "buffer" /\ filed'[p] = cleaner'.current)
        BY <3>1, <3>2, <2>1 DEF FrameCleaner, agent_buffer, At
      <3> QED
        BY <3>3 DEF CleanedStaysEmpty, agent_buffer, At
    <2>2. CASE cleaner'.phase \notin {"sending", "handles"}
      BY <2>2 DEF CleanedStaysEmpty
    <2> QED
      BY <2>1, <2>2
  <1>6. NoSilentLoss' /\ ReportNotLost'
    BY DEF FrameWhere, FrameReport, FrameAnswers, DeliveryInv, NoSilentLoss, ReportNotLost
  <1> QED
    BY <1>1, <1>2, <1>3, <1>4, <1>5, <1>6 DEF DeliveryInv

\* A step that leaves payloads, reports, posts and answers alone.
LEMMA DeliveryQuiet ==
    ASSUME TypeOK, DeliveryInv, UNCHANGED <<where, filed, report, posts, answerVars>>,
           cleaner' = cleaner \/ cleaner'.phase \notin {"batch", "sending", "handles"}
    PROVE  DeliveryInv'
  <1>1. FrameWhere /\ FrameReport
    BY DEF DeliveryInv, NoImmediateSend, EntriesPaired, FrameWhere, FrameReport
  <1>2. FrameAnswers /\ FramePosts /\ FrameCleaner
    BY DEF answerVars, FrameAnswers, FramePosts, FrameCleaner
  <1> QED
    BY <1>1, <1>2, DeliveryFrame

\* Removing the entries of S once all they hold is answered for.
LEMMA RemoveFrame ==
    ASSUME TypeOK, DeliveryInv, NEW S, RemoveEntries(S), UNCHANGED filed,
           \A p \in Payloads : where[p] = "batch" /\ filed[p] \in S => p \in acked' \cup dropped',
           \A r \in S : report[r] = "batch" => r \in reportSettled'
    PROVE  FrameWhere /\ FrameReport
  <1>1. \A p \in Payloads : where'[p] = "batch" => where[p] = "batch" /\ filed[p] \notin S
    BY DEF RemoveEntries
  <1>2. \A r \in Requests : r \notin S => report'[r] = report[r]
    BY DEF RemoveEntries
  <1>3. FrameWhere
    BY <1>1, <1>2 DEF RemoveEntries, FrameWhere, DeliveryInv, NoImmediateSend, EntriesPaired
  <1>4. FrameReport
    BY DEF RemoveEntries, FrameReport, Reported
  <1> QED
    BY <1>3, <1>4

\* The end of a batch POST, whatever becomes of the event loop.
LEMMA FinishPostDelivery ==
    ASSUME TypeOK, DeliveryInv, NEW post \in posts, NEW o \in Outcomes, FinishPost(post, o),
           cleaner' = cleaner \/ cleaner'.phase \notin {"batch", "sending", "handles"}
    PROVE  DeliveryInv'
  <1>1. FrameAnswers /\ FramePosts
    BY DEF FinishPost, Answered, FrameAnswers, FramePosts
  <1>2. FrameWhere /\ FrameReport
    <2>1. CASE o = "failed"
      BY <2>1 DEF FinishPost, DeliveryInv, NoImmediateSend, EntriesPaired, FrameWhere,
                  FrameReport
    <2>2. CASE o # "failed"
      <3>1. /\ RemoveEntries(post.reports) /\ UNCHANGED filed
            /\ acked' = acked \cup post.payloads
            /\ reportSettled' = reportSettled \cup post.reports
        BY <2>2 DEF FinishPost, Answered, Outcomes, clear_batch_with_reports
      <3>2. Carries(post.reports, post.payloads)
        BY DEF DeliveryInv, PostsCarry
      <3> QED
        BY <3>1, <3>2, RemoveFrame DEF Carries
    <2> QED
      BY <2>1, <2>2
  <1>3. FrameCleaner
    <2>1. \A p \in Payloads : where'[p] = "buffer" => where[p] = "buffer" /\ filed'[p] = filed[p]
      BY DEF FinishPost, clear_batch_with_reports, RemoveEntries
    <2> QED
      BY <2>1 DEF FrameCleaner
  <1> QED
    BY <1>1, <1>2, <1>3, DeliveryFrame

\* A new snapshot carries what the batch holds.
LEMMA SnapshotCarries ==
    ASSUME NEW sender, NEW wh, NEW rp, where' = wh, report' = rp,
           \A p \in Payloads : wh[p] = "batch" => filed'[p] = filed[p]
    PROVE  LET post == get_batch_with_reports_only(sender, wh, rp)
           IN  WillCarry(post.reports, post.payloads)
  BY DEF WillCarry, Reported, get_batch_with_reports_only

\* The posts of an INVOKE: those there were, and a snapshot if one was taken.
LEMMA SendThenSpawnFrame ==
    ASSUME NEW r, NEW n, NEW handles, NEW wh, NEW rp,
           SendThenSpawn(r, n, handles, wh, rp), where' = wh, report' = rp,
           \A p \in Payloads : wh[p] = "batch" => filed'[p] = filed[p]
    PROVE  FramePosts
  BY SnapshotCarries DEF SendThenSpawn, FramePosts

\* Under DeliveryInv, a report not there yet has no entry in the batch.
LEMMA UnreportedHasNoEntry ==
    ASSUME DeliveryInv, NEW r \in Requests, report[r] # "batch"
    PROVE  batch_entry(r) = {}
  BY DEF DeliveryInv, EntriesPaired, batch_entry, At

\* DeliveryInv is inductive with synchronous_flush off: one step per action.
LEMMA DeliveryStep ==
    ~SynchronousFlush /\ TypeOK /\ ActiveInv /\ DeliveryInv /\ [Next]_vars => DeliveryInv'
  <1> SUFFICES ASSUME ~SynchronousFlush, TypeOK, ActiveInv, DeliveryInv, [Next]_vars
               PROVE  DeliveryInv'
    OBVIOUS
  <1> USE DEF requestVars, payloadVars, answerVars
  <1>1. CASE UNCHANGED vars
    BY <1>1, DeliveryQuiet DEF vars
  <1>2. ASSUME NEW r \in Requests, PlatformReport(r) PROVE DeliveryInv'
    <2>1. /\ report[r] = "absent" /\ batch_entry(r) = {}
          /\ \A q \in Requests \ {r} : report'[q] = report[q]
      BY <1>2, UnreportedHasNoEntry DEF PlatformReport, ReportMayArrive, TypeOK
    <2>2. \/ /\ report'[r] = "batch" /\ where' = Moved(agent_buffer(r), "batch")
             /\ reportSettled' = reportSettled
          \/ /\ report'[r] # "batch" /\ where' = where
             /\ report'[r] = "gone" => r \in reportSettled'
             /\ reportSettled \subseteq reportSettled'
      BY <1>2, <2>1 DEF PlatformReport, TypeOK
    <2>3. UNCHANGED <<filed, posts, cleaner, acked, dropped>>
      BY <1>2 DEF PlatformReport
    <2>4. FrameWhere
      BY <2>1, <2>2, <2>3 DEF FrameWhere, Moved, agent_buffer, At, Reported, DeliveryInv,
         NoImmediateSend, EntriesPaired
    <2>5. FrameReport
      BY <2>1, <2>2 DEF FrameReport, Reported
    <2>6. FrameAnswers /\ FramePosts /\ FrameCleaner
      BY <2>2, <2>3 DEF FrameAnswers, FramePosts, FrameCleaner, Moved
    <2> QED
      BY <2>4, <2>5, <2>6, DeliveryFrame
  <1>3. ASSUME NEW p \in Payloads, route_payload_to_active_request(p) PROVE DeliveryInv'
    <2>1. UNCHANGED <<report, posts, cleaner, answerVars>> /\ where[p] = "unseen"
      BY <1>3 DEF route_payload_to_active_request
    <2>2. /\ \A q \in Payloads \ {p} : where'[q] = where[q] /\ filed'[q] = filed[q]
          /\ \/ where'[p] = "orphan"
             \/ where'[p] = "buffer" /\ active # NoRequest /\ filed'[p] = active
      BY <1>3 DEF route_payload_to_active_request, TypeOK, Moved, ActiveInv, AgeInv,
         ActiveIsRegistered
    <2>3. FrameWhere /\ FrameReport
      BY <2>1, <2>2 DEF FrameWhere, FrameReport, DeliveryInv, NoImmediateSend, EntriesPaired
    <2>4. FrameCleaner
      BY <2>1, <2>2 DEF FrameCleaner, ActiveInv, AgeInv
    <2> QED
      BY <2>1, <2>3, <2>4, DeliveryFrame DEF FrameAnswers, FramePosts
  <1>4. ASSUME NEW r \in Requests, ProcessStart(r) PROVE DeliveryInv'
    <2>1. UNCHANGED <<filed, posts, cleaner, answerVars>>
      BY <1>4 DEF ProcessStart
    <2>2. CASE Pairs(r, agent_buffer(r))
      <3>1. /\ report[r] = "pending" /\ report' = [report EXCEPT ![r] = "batch"]
            /\ where' = Moved(agent_buffer(r), "batch")
        BY <1>4, <2>2 DEF ProcessStart, Pairs, ReportAfterTaking
      <3>2. FrameWhere
        BY <3>1, <2>1 DEF FrameWhere, Moved, agent_buffer, At, Reported, DeliveryInv,
           NoImmediateSend, EntriesPaired, TypeOK
      <3>3. FrameReport
        BY <3>1 DEF FrameReport, Reported, TypeOK
      <3> QED
        BY <2>1, <3>1, <3>2, <3>3, DeliveryFrame
           DEF FrameAnswers, FramePosts, FrameCleaner, Moved
    <2>3. CASE ~Pairs(r, agent_buffer(r))
      <3>1. where' = where /\ report' = report
        BY <1>4, <2>3 DEF ProcessStart, ReportAfterTaking, TypeOK
      <3> QED
        BY <2>1, <3>1, DeliveryQuiet
    <2> QED
      BY <2>2, <2>3
  <1>5. ASSUME NEW r \in Requests, ProcessJoin(r) \/ ProcessDone(r) PROVE DeliveryInv'
    BY <1>5, DeliveryQuiet DEF ProcessJoin, ProcessDone
  <1>6. ASSUME NEW r \in Requests, Invoke(r) PROVE DeliveryInv'
    <2> DEFINE late == LatePairs(r)
               wh == [p \in Payloads |->
                        IF where[p] = "buffer" /\ filed[p] \in late THEN "batch"
                        ELSE IF where[p] = "orphan" THEN "buffer" ELSE where[p]]
               rp == [q \in Requests |-> IF q \in late THEN "batch" ELSE report[q]]
    <2>1. /\ where' = wh /\ report' = rp /\ created[r] = 0
          /\ filed' = [p \in Payloads |-> IF where[p] = "orphan" THEN r ELSE filed[p]]
          /\ UNCHANGED answerVars
      BY <1>6 DEF Invoke
    <2>2. \A q \in late : q \in Requests /\ report[q] = "pending"
      BY DEF LatePairs, TypeOK
    <2>3. \A p \in Payloads : wh[p] = "batch" => filed'[p] = filed[p]
      BY <2>1
    <2>4. \/ UNCHANGED <<posts, cleaner>>
          \/ SendThenSpawn(r, invocations + 1, Unfinished, wh, rp)
      BY <1>6 DEF Invoke
    <2>5. FramePosts
      BY <2>1, <2>3, <2>4, SendThenSpawnFrame DEF FramePosts
    <2>6. FrameWhere /\ FrameReport
      BY <2>1, <2>2 DEF FrameWhere, FrameReport, Reported, DeliveryInv, NoImmediateSend,
         EntriesPaired
    <2>7. FrameCleaner
      <3>1. cleaner' = cleaner \/ cleaner'.phase = "spawned"
        BY <2>4, SendThenSpawnCleaner, CleanupSpawnedType
      <3>2. cleaner.phase \in {"sending", "handles"} => cleaner.current # r
        BY <2>1 DEF ActiveInv, AgeInv
      <3> QED
        BY <2>1, <3>1, <3>2 DEF FrameCleaner
    <2> QED
      BY <2>1, <2>5, <2>6, <2>7, DeliveryFrame DEF FrameAnswers
  <1>7. ASSUME NEW r \in Requests, CapReached(r) PROVE DeliveryInv'
    <2>1. /\ SendThenSpawn(active, invocations, flushing \ {r}, where, report)
          /\ UNCHANGED <<where, filed, report, answerVars>>
      BY <1>7 DEF CapReached
    <2>2. FramePosts
      BY <2>1, SendThenSpawnFrame
    <2>3. FrameWhere /\ FrameReport
      BY <2>1 DEF DeliveryInv, NoImmediateSend, EntriesPaired, FrameWhere, FrameReport
    <2>4. FrameCleaner
      BY <2>1, SendThenSpawnCleaner, CleanupSpawnedType DEF FrameCleaner
    <2> QED
      BY <2>1, <2>2, <2>3, <2>4, DeliveryFrame DEF FrameAnswers
  <1>8. ASSUME NEW post \in posts, NEW o \in Outcomes,
               \/ FinishQueuedSend(post, o) \/ LastSendDone(post, o)
               \/ ThresholdSendDone(post, o)
        PROVE DeliveryInv'
    <2>1. FinishPost(post, o)
      BY <1>8 DEF FinishQueuedSend, LastSendDone, ThresholdSendDone
    <2>2. cleaner' = cleaner \/ cleaner'.phase = "spawned"
      BY <1>8, SpawnProcessingCleaner, CleanupSpawnedType
         DEF FinishQueuedSend, LastSendDone, ThresholdSendDone
    <2> QED
      BY <2>1, <2>2, FinishPostDelivery
  <1>9. CASE \/ Shutdown \/ Emergency \/ ShutdownTimeOut \/ ShutdownSweep
             \/ ShutdownDone \/ EmergencyDone
    BY <1>9, DeliveryQuiet
       DEF Shutdown, Emergency, ShutdownTimeOut, ShutdownSweep, ShutdownDone, EmergencyDone
  <1>10. ASSUME ProcessingDone PROVE DeliveryInv'
    <2>1. cleaner' = cleaner \/ cleaner'.phase = "spawned"
      BY <1>10, CleanupSpawnedType DEF ProcessingDone, EndInvocation, CleanupSpawned
    <2> QED
      BY <1>10, <2>1, DeliveryQuiet DEF ProcessingDone
  <1>11. ASSUME NEW sender \in queued, StartQueuedSend(sender) PROVE DeliveryInv'
    <2>1. /\ UNCHANGED <<where, filed, report, cleaner, answerVars>>
          /\ \A post \in posts' : \/ post \in posts
                                  \/ post = get_batch_with_reports_only(sender, where, report)
      BY <1>11 DEF StartQueuedSend
    <2>2. FramePosts
      BY <2>1, SnapshotCarries DEF FramePosts
    <2>3. FrameWhere /\ FrameReport
      BY <2>1 DEF DeliveryInv, NoImmediateSend, EntriesPaired, FrameWhere, FrameReport
    <2> QED
      BY <2>1, <2>2, <2>3, DeliveryFrame DEF FrameAnswers, FrameCleaner
  <1>12. ASSUME EmergencySend PROVE DeliveryInv'
    <2> DEFINE snapshot == get_batch_with_reports_only([by |-> "loop", request |-> NoRequest],
                                                       where, report)
    <2>1. /\ UNCHANGED <<where, filed, report, cleaner, answerVars>>
          /\ \A post \in posts' : post \in posts \/ post = snapshot
      BY <1>12 DEF EmergencySend
    <2>2. FramePosts
      BY <2>1, SnapshotCarries DEF FramePosts
    <2>3. FrameWhere /\ FrameReport
      BY <2>1 DEF DeliveryInv, NoImmediateSend, EntriesPaired, FrameWhere, FrameReport
    <2> QED
      BY <2>1, <2>2, <2>3, DeliveryFrame DEF FrameAnswers, FrameCleaner
  <1>13. ASSUME NEW p \in Payloads, NEW o \in Outcomes, FinishImmediateSend(p, o)
         PROVE DeliveryInv'
    BY <1>13 DEF FinishImmediateSend, DeliveryInv, NoImmediateSend
  <1>14. ASSUME NEW p \in Payloads, NEW o \in Outcomes, CleanerSend(p, o) PROVE DeliveryInv'
    <2>1. /\ UNCHANGED <<filed, report, posts, cleaner, reportSettled>>
          /\ where' = Moved({p}, "gone") /\ p \in acked' \cup dropped' /\ FrameAnswers
      BY <1>14 DEF CleanerSend, AnsweredForGood, Answered, Outcomes, FrameAnswers
    <2>2. FrameWhere /\ FrameReport
      BY <2>1 DEF FrameWhere, FrameReport, DeliveryInv, NoImmediateSend, EntriesPaired, Moved
    <2> QED
      BY <2>1, <2>2, DeliveryFrame DEF FramePosts, FrameCleaner, Moved
  <1>15. ASSUME NEW o \in Outcomes, CleanerBatchDone(o) PROVE DeliveryInv'
    <2>1. /\ RemoveEntries(cleaner.keys) /\ UNCHANGED <<filed, posts>>
          /\ cleaner.phase = "batch" /\ cleaner'.phase = "buffers"
          /\ cleaner.payloads \subseteq acked' \cup dropped'
          /\ reportSettled' = reportSettled \cup cleaner.reports /\ FrameAnswers
      BY <1>15 DEF CleanerBatchDone, AnsweredForGood, Answered, Outcomes, FrameAnswers,
                  ToBuffers, Cleaner
    <2>2. Carries(cleaner.keys, cleaner.payloads) /\ cleaner.keys \subseteq cleaner.reports
      BY <2>1 DEF DeliveryInv, CleanerCarries
    <2>3. FrameWhere /\ FrameReport
      BY <2>1, <2>2, RemoveFrame DEF Carries
    <2> QED
      BY <2>1, <2>3, DeliveryFrame DEF FramePosts, FrameCleaner
  <1>16. ASSUME NEW chunk \in SUBSET Payloads, NEW o \in Outcomes, ShutdownSend(chunk, o)
         PROVE DeliveryInv'
    <2>1. /\ UNCHANGED <<filed, posts, cleaner>> /\ where' = Moved(chunk, "gone")
          /\ \A p \in chunk : where[p] = "shutdown" /\ p \in acked' \cup dropped'
          /\ FrameAnswers
      BY <1>16 DEF ShutdownSend, AnsweredForGood, Answered, Outcomes, FrameAnswers
    <2>2. \A r \in Requests : \/ report'[r] = report[r]
                              \/ /\ report[r] = "shutdown" /\ report'[r] = "gone"
                                 /\ r \in reportSettled'
      BY <1>16 DEF ShutdownSend
    <2>3. FrameWhere /\ FrameReport
      BY <2>1, <2>2 DEF FrameWhere, FrameReport, Reported, DeliveryInv, NoImmediateSend,
         EntriesPaired, Moved, FrameAnswers
    <2> QED
      BY <2>1, <2>3, DeliveryFrame DEF FramePosts, FrameCleaner, Moved
  <1>17. ASSUME ShutdownCollect PROVE DeliveryInv'
    <2>1. /\ UNCHANGED <<filed, posts, cleaner, answerVars>>
          /\ where' = Moved(Collected, "shutdown")
          /\ \A r \in Requests : report'[r] = report[r] \/ report'[r] = "shutdown"
      BY <1>17 DEF ShutdownCollect
    <2>2. FrameWhere /\ FrameReport
      BY <2>1 DEF FrameWhere, FrameReport, Reported, DeliveryInv, NoImmediateSend,
         EntriesPaired, Moved, Collected
    <2> QED
      BY <2>1, <2>2, DeliveryFrame DEF FrameAnswers, FramePosts, FrameCleaner, Moved
  <1>18. ASSUME CleanerStart PROVE DeliveryInv'
    <2>1. UNCHANGED <<where, filed, report, posts, answerVars>>
      BY <1>18 DEF CleanerStart
    <2>2. CASE cleaner' = ToBuffers
      BY <2>1, <2>2, DeliveryQuiet DEF ToBuffers, Cleaner
    <2>3. CASE cleaner' # ToBuffers
      <3>1. PICK old \in SUBSET {r \in Requests : batch_entry(r) # {}} :
               /\ cleaner'.phase = "batch" /\ cleaner'.keys = old
               /\ cleaner'.payloads = {p \in Payloads : where[p] = "batch" /\ filed[p] \in old}
               /\ cleaner'.reports = {r \in old : report[r] = "batch"}
        BY <1>18, <2>3 DEF CleanerStart, Cleaner
      <3>2. \A r \in old : report[r] = "batch"
        BY UnreportedHasNoEntry
      <3>3. CleanerCarries'
        BY <2>1, <3>1, <3>2 DEF CleanerCarries, Carries
      <3>4. CleanedStaysEmpty'
        BY <3>1 DEF CleanedStaysEmpty
      <3>5. NoImmediateSend' /\ EntriesPaired' /\ PostsCarry' /\ NoSilentLoss' /\ ReportNotLost'
        BY <2>1 DEF DeliveryInv, NoImmediateSend, EntriesPaired, PostsCarry, Carries,
           NoSilentLoss, ReportNotLost
      <3> QED
        BY <3>3, <3>4, <3>5 DEF DeliveryInv
    <2> QED
      BY <2>2, <2>3
  <1>19. ASSUME NEW r \in Requests, CleanerTake(r) PROVE DeliveryInv'
    <2>1. /\ UNCHANGED <<filed, report, posts, answerVars>>
          /\ where' = Moved(agent_buffer(r), "cleaner")
          /\ cleaner'.phase = "sending" /\ cleaner'.current = r
      BY <1>19 DEF CleanerTake, TypeOK, Cleanups
    <2>2. CleanedStaysEmpty' /\ CleanerCarries'
      BY <2>1 DEF CleanedStaysEmpty, CleanerCarries, agent_buffer, At, Moved
    <2>3. NoImmediateSend' /\ EntriesPaired' /\ NoSilentLoss' /\ ReportNotLost'
      BY <2>1 DEF DeliveryInv, NoImmediateSend, EntriesPaired, NoSilentLoss, ReportNotLost,
         Moved
    <2>4. PostsCarry'
      BY <2>1 DEF DeliveryInv, PostsCarry, Carries, Moved
    <2> QED
      BY <2>2, <2>3, <2>4 DEF DeliveryInv
  <1>20. ASSUME CleanerHandles PROVE DeliveryInv'
    <2>1. /\ UNCHANGED <<where, filed, report, posts, answerVars>>
          /\ cleaner.phase = "sending" /\ cleaner'.phase = "handles"
          /\ cleaner'.current = cleaner.current
      BY <1>20 DEF CleanerHandles, TypeOK, Cleanups
    <2>2. CleanedStaysEmpty' /\ CleanerCarries'
      BY <2>1 DEF DeliveryInv, CleanedStaysEmpty, CleanerCarries, agent_buffer, At
    <2>3. NoImmediateSend' /\ EntriesPaired' /\ PostsCarry' /\ NoSilentLoss' /\ ReportNotLost'
      BY <2>1 DEF DeliveryInv, NoImmediateSend, EntriesPaired, PostsCarry, Carries,
         NoSilentLoss, ReportNotLost
    <2> QED
      BY <2>2, <2>3 DEF DeliveryInv
  <1>21. ASSUME CleanerRemove PROVE DeliveryInv'
    <2>1. cleaner.current \in Requests /\ agent_buffer(cleaner.current) = {}
      BY <1>21 DEF CleanerRemove, TypeOK, Cleanups, DeliveryInv, CleanedStaysEmpty
    <2>2. /\ UNCHANGED <<filed, posts, acked, dropped>> /\ where' = where
          /\ cleaner'.phase = "buffers"
      BY <1>21, <2>1 DEF CleanerRemove, Moved, TypeOK, Cleanups
    <2>3. /\ \A r \in Requests : \/ report'[r] = report[r]
                                 \/ /\ report[r] = "pending" /\ report'[r] = "gone"
                                    /\ r \in reportSettled'
          /\ reportSettled \subseteq reportSettled'
      BY <1>21, <2>1 DEF CleanerRemove, TypeOK
    <2>4. FrameWhere /\ FrameReport
      BY <2>2, <2>3 DEF FrameWhere, FrameReport, Reported, DeliveryInv, NoImmediateSend,
         EntriesPaired
    <2> QED
      BY <2>2, <2>3, <2>4, DeliveryFrame DEF FrameAnswers, FramePosts, FrameCleaner
  <1>22. ASSUME CleanerDone PROVE DeliveryInv'
    BY <1>22, DeliveryQuiet DEF CleanerDone, IdleCleaner, Cleaner
  <1>23. CASE Terminated
    BY <1>23, <1>1 DEF Terminated
  <1> QED
    BY <1>1, <1>2, <1>3, <1>4, <1>5, <1>6, <1>7, <1>8, <1>9, <1>10, <1>11, <1>12,
       <1>13, <1>14, <1>15, <1>16, <1>17, <1>18, <1>19, <1>20, <1>21, <1>22, <1>23
    DEF Next, Environment, LoopSteps, TaskSteps, SendSteps, CleanerSteps

\* DeliveryInv holds initially.
LEMMA DeliveryInit == Init => DeliveryInv
  BY DEF Init, DeliveryInv, NoImmediateSend, EntriesPaired, PostsCarry, CleanerCarries,
     CleanedStaysEmpty, NoSilentLoss, ReportNotLost, IdleCleaner, Cleaner

\* DeliveryInv is an invariant with synchronous_flush off.
LEMMA DeliveryCorrect == ASSUME ~SynchronousFlush PROVE Spec => []DeliveryInv
  <1>1. TypeOK /\ ActiveInv /\ DeliveryInv /\ [Next]_vars => DeliveryInv'
    BY DeliveryStep
  <1> QED
    BY <1>1, DeliveryInit, TypeCorrect, ActiveCorrect, PTL DEF Spec

\* With synchronous_flush off, however sends, reports, late payloads, cleanups and
\* SHUTDOWN interleave, no payload leaves the buffers but for an answer.
THEOREM NothingSilentlyLost == ASSUME ~SynchronousFlush PROVE Spec => []NoSilentLoss
  <1>1. DeliveryInv => NoSilentLoss
    BY DEF DeliveryInv
  <1> QED
    BY <1>1, DeliveryCorrect, PTL

\* Nor does a report line.
THEOREM ReportsNeverLost == ASSUME ~SynchronousFlush PROVE Spec => []ReportNotLost
  <1>1. DeliveryInv => ReportNotLost
    BY DEF DeliveryInv
  <1> QED
    BY <1>1, DeliveryCorrect, PTL

\* A report and its payloads are never parted: none waits while its payloads are
\* in the batch, where nothing would pair them any more.
THEOREM PairsNeverSplit == Spec => []NoSplitPair
  <1>1. CASE ~SynchronousFlush
    <2>1. DeliveryInv => NoSplitPair
      BY UnreportedHasNoEntry DEF NoSplitPair
    <2> QED
      BY <1>1, <2>1, DeliveryCorrect, PTL
  <1>2. CASE SynchronousFlush
    <2>1. NoSplitPair
      BY <1>2 DEF NoSplitPair
    <2> QED
      BY <2>1, PTL
  <1> QED
    BY <1>1, <1>2

-----------------------------------------------------------------------------
(* Somebody awaits every immediate send that the sweep of SHUTDOWN is      *)
(* ahead of (deadlines that do not expire).                                *)

\* A send that is in flight before the sweep, or has been since.
Promised(p) == where[p] = "immediate" /\ (SweepAhead \/ p \in due)

\* Somebody holds the handle of a payload's immediate send, and will still await it.
HandleHeld(p) ==
    /\ filed[p] \in Requests
    /\ \/ SweepAhead /\ handle[p] = "entry" /\ filed[p] \in registered
       \/ SweepAhead /\ handle[p] = "task" /\ task[filed[p]] = "joining"
       \/ loop = "sweep" /\ handle[p] = "sweep"
       \/ handle[p] = "cleaner"

SendsHeld == \A p \in Payloads : Promised(p) => HandleHeld(p)

\* A request gets its processing task once: not before its INVOKE, nor while the
\* INVOKE still waits at the cap or for the threshold send.
SpawnedOnce ==
    /\ \A r \in Requests : created[r] = 0 => task[r] = "none"
    /\ loop \in {"cap", "threshold"} => task[active] = "none"

\* The entry whose handles the cleanup has taken gets no more of them.
HandlesTaken == cleaner.phase = "handles" => Awaited(cleaner.current, "entry") = {}

\* Nothing is due before the sweep, and only what has been read from the pipe after it.
DueSeen ==
    /\ SweepAhead => due = {}
    /\ \A p \in due : where[p] # "unseen"

\* The loop awaits every processing task before the sweep: the deferred ones at SHUTDOWN.
TasksAwaited ==
    SweepAhead => \A r \in Requests : \/ task[r] \in {"none", "done"}
                                      \/ r \in flushing
                                      \/ loop = "awaiting" /\ r = active

HandleInv == SendsHeld /\ SpawnedOnce /\ HandlesTaken /\ DueSeen /\ TasksAwaited

\* A step that moves the loop neither past nor out of the sweep.
FrameLoop ==
    /\ SweepAhead' <=> SweepAhead
    /\ loop = "sweep" => loop' = "sweep"

\* A step that starts no send and drops neither handle, entry nor joining task.
FrameSends ==
    /\ FrameLoop /\ due' = due
    /\ \A p \in Payloads : where'[p] = "immediate" =>
          where[p] = "immediate" /\ filed'[p] = filed[p] /\ handle'[p] = handle[p]
    /\ \A r \in Requests : task[r] = "joining" => task'[r] = "joining"
    /\ registered \subseteq registered'

LEMMA SendsFrame ==
    ASSUME SendsHeld, FrameSends
    PROVE  SendsHeld'
  BY DEF SendsHeld, FrameSends, FrameLoop, Promised, HandleHeld

\* A step after which nothing is promised any more.
LEMMA NothingPromised ==
    ASSUME ~SweepAhead', due' = {}
    PROVE  SendsHeld' /\ DueSeen' /\ TasksAwaited'
  BY DEF SendsHeld, Promised, DueSeen, TasksAwaited

LEMMA DueFrame ==
    ASSUME DueSeen, due' = due, SweepAhead' => SweepAhead,
           \A p \in Payloads : where'[p] = "unseen" => where[p] = "unseen", TypeOK
    PROVE  DueSeen'
  BY DEF DueSeen, TypeOK

\* No task begins, and the loop and its handles stay.
LEMMA TasksFrame ==
    ASSUME TasksAwaited, UNCHANGED <<loop, active, flushing>>,
           \A r \in Requests : task[r] \in {"none", "done"} => task'[r] \in {"none", "done"}
    PROVE  TasksAwaited'
  BY DEF TasksAwaited, SweepAhead

\* A step that leaves tasks, handles and entries alone.
LEMMA HandleQuiet ==
    ASSUME TypeOK, HandleInv, UNCHANGED <<requestVars, task, filed, handle, due>>,
           \A p \in Payloads : /\ where'[p] = "immediate" => where[p] = "immediate"
                               /\ where'[p] = "unseen" => where[p] = "unseen",
           FrameLoop, SweepAhead' => UNCHANGED <<loop, flushing>>,
           cleaner'.phase = "handles" => cleaner' = cleaner
    PROVE  HandleInv'
  <1> USE DEF requestVars
  <1>1. SendsHeld'
    BY SendsFrame DEF HandleInv, FrameSends
  <1>2. SpawnedOnce'
    BY DEF HandleInv, SpawnedOnce, SweepAhead
  <1>3. HandlesTaken'
    BY DEF HandleInv, HandlesTaken, Awaited
  <1>4. DueSeen'
    BY DueFrame DEF HandleInv, FrameLoop
  <1>5. TasksAwaited'
    BY DEF HandleInv, TasksAwaited, FrameLoop
  <1> QED
    BY <1>1, <1>2, <1>3, <1>4, <1>5 DEF HandleInv

\* The cleanup is spawned in its first phase.
LEMMA CleanerPhase ==
    ASSUME TypeOK, cleaner' = cleaner \/ CleanupSpawned
    PROVE  cleaner'.phase = "handles" => cleaner' = cleaner
  BY CleanupSpawnedType

\* What the end of an INVOKE does to the tasks.
Begun(r, handles) ==
    \/ task' = Spawned(r) /\ loop' = "next" /\ flushing' = handles \cup {r}
    \/ task' = Spawned(r) /\ loop' = "awaiting" /\ flushing' = handles

LEMMA SpawnProcessingTasks ==
    ASSUME NEW r, NEW n, NEW handles, SpawnProcessing(r, n, handles)
    PROVE  /\ Begun(r, handles)
           /\ cleaner' = cleaner \/ CleanupSpawned
  BY DEF SpawnProcessing, EndInvocation, CleanupSpawned, Begun

LEMMA SendThenSpawnTasks ==
    ASSUME NEW r, NEW n, NEW handles, NEW wh, NEW rp, SendThenSpawn(r, n, handles, wh, rp)
    PROVE  /\ \/ task' = task /\ loop' = "threshold" /\ flushing' = handles
              \/ Begun(r, handles)
           /\ cleaner' = cleaner \/ CleanupSpawned
  BY SpawnProcessingTasks DEF SendThenSpawn

\* The task that is spawned is not one that joins sends, and the loop will await it.
LEMMA SpawnKeepsJoining ==
    ASSUME TypeOK, NEW r \in Requests, NEW handles, task[r] = "none", active' = r,
           \A q \in Requests : task[q] \in {"none", "done"} \/ q \in handles,
           \/ task' = task /\ loop' \in {"cap", "threshold"} /\ flushing' = handles
           \/ Begun(r, handles)
    PROVE  /\ \A q \in Requests : task[q] = "joining" => task'[q] = "joining"
           /\ \A q \in Requests \ {r} : task'[q] = task[q]
           /\ loop' \in {"cap", "threshold"} => task' = task
           /\ SweepAhead' /\ TasksAwaited'
  <1>1. /\ \A q \in Requests \ {r} : task'[q] = task[q]
        /\ loop' \in {"cap", "threshold"} => task' = task
        /\ SweepAhead'
    BY DEF TypeOK, Begun, Spawned, SweepAhead
  <1>2. TasksAwaited'
    BY <1>1 DEF TasksAwaited, Begun
  <1> QED
    BY <1>1, <1>2

\* HandleInv is inductive when deadlines do not expire: one step per action.
LEMMA HandleStep ==
    ~DeadlineMayExpire /\ TypeOK /\ ActiveInv /\ HandleInv /\ [Next]_vars => HandleInv'
  <1> SUFFICES ASSUME ~DeadlineMayExpire, TypeOK, ActiveInv, HandleInv, [Next]_vars
               PROVE  HandleInv'
    OBVIOUS
  <1> USE DEF requestVars, payloadVars
  <1>1. CASE UNCHANGED vars
    BY <1>1, HandleQuiet DEF vars, FrameLoop, SweepAhead
  <1>2. ASSUME NEW r \in Requests, PlatformReport(r) PROVE HandleInv'
    BY <1>2, HandleQuiet DEF PlatformReport, Moved, FrameLoop, SweepAhead
  <1>3. ASSUME NEW p \in Payloads, route_payload_to_active_request(p) PROVE HandleInv'
    <2>1. /\ UNCHANGED <<loop, requestVars, task, cleaner, due, flushing>>
          /\ where[p] = "unseen" /\ where'[p] # "unseen"
          /\ \A q \in Payloads \ {p} : where'[q] = where[q] /\ filed'[q] = filed[q]
                                       /\ handle'[q] = handle[q]
      BY <1>3 DEF route_payload_to_active_request, Moved, TypeOK
    <2>2. \/ where'[p] # "immediate" /\ handle'[p] = handle[p]
             /\ (filed'[p] = filed[p] \/ (filed'[p] = active /\ active # NoRequest))
          \/ /\ active # NoRequest /\ filed'[p] = active
             /\ handle'[p] = "entry"
      <3>1. CASE active = NoRequest
        <4>1. where' = Moved({p}, "orphan") /\ UNCHANGED <<filed, handle>>
          BY <1>3, <3>1 DEF route_payload_to_active_request, ActiveInv, AgeInv
        <4> QED
          BY <4>1 DEF Moved, TypeOK
      <3>2. CASE active # NoRequest
        <4>1. /\ active \in registered
              /\ filed' = [filed EXCEPT ![p] = active]
              /\ \/ handle' = [handle EXCEPT ![p] = "entry"]
                 \/ where' = Moved({p}, "buffer") /\ handle' = handle
          BY <1>3, <3>2 DEF route_payload_to_active_request, ActiveInv, ActiveIsRegistered
        <4> QED
          BY <3>2, <4>1 DEF Moved, TypeOK
      <3> QED
        BY <3>1, <3>2
    <2>3. active # NoRequest => active \in Requests /\ active \in registered
      BY DEF TypeOK, ActiveInv, ActiveIsRegistered
    <2>4. SendsHeld'
      <3>1. p \in due => FALSE
        BY <2>1 DEF HandleInv, DueSeen
      <3>2. Promised(p)' => HandleHeld(p)'
        BY <2>1, <2>2, <2>3, <3>1 DEF Promised, HandleHeld, SweepAhead
      <3>3. \A q \in Payloads \ {p} : Promised(q)' => HandleHeld(q)'
        BY <2>1 DEF HandleInv, SendsHeld, Promised, HandleHeld, SweepAhead
      <3> QED
        BY <3>2, <3>3 DEF SendsHeld
    <2>5. SpawnedOnce' /\ DueSeen' /\ TasksAwaited'
      BY <2>1 DEF HandleInv, SpawnedOnce, DueSeen, TasksAwaited, SweepAhead, TypeOK
    <2>6. cleaner.phase = "handles" => cleaner.current # active
      BY DEF ActiveInv, AgeInv
    <2>7. HandlesTaken'
      BY <2>1, <2>2, <2>6 DEF HandleInv, HandlesTaken, Awaited
    <2> QED
      BY <2>4, <2>5, <2>7 DEF HandleInv
  <1>4. ASSUME NEW r \in Requests, ProcessStart(r) PROVE HandleInv'
    <2>1. /\ task[r] = "spawned" /\ task' = [task EXCEPT ![r] = "waiting"]
          /\ UNCHANGED <<loop, requestVars, filed, handle, cleaner, due, flushing>>
          /\ \A p \in Payloads : /\ where'[p] = "immediate" => where[p] = "immediate"
                                 /\ where'[p] = "unseen" => where[p] = "unseen"
      BY <1>4 DEF ProcessStart, Moved
    <2>2. /\ \A q \in Requests : task[q] = "joining" => task'[q] = "joining"
          /\ \A q \in Requests : task[q] = "none" => task'[q] = "none"
          /\ \A q \in Requests : task[q] = "done" => task'[q] = "done"
      BY <2>1 DEF TypeOK
    <2>3. SendsHeld'
      BY <2>1, <2>2, SendsFrame DEF HandleInv, FrameSends, FrameLoop, SweepAhead
    <2>4. SpawnedOnce' /\ DueSeen' /\ TasksAwaited'
      BY <2>1, <2>2, DueFrame, TasksFrame DEF HandleInv, SpawnedOnce, TypeOK, SweepAhead
    <2>5. HandlesTaken'
      BY <2>1 DEF HandleInv, HandlesTaken, Awaited
    <2> QED
      BY <2>3, <2>4, <2>5 DEF HandleInv
  <1>5. ASSUME NEW r \in Requests, ProcessJoin(r) PROVE HandleInv'
    <2>1. /\ task[r] = "waiting" /\ task' = [task EXCEPT ![r] = "joining"]
          /\ handle' = [p \in Payloads |-> IF handle[p] = "entry" /\ filed[p] = r
                                           THEN "task" ELSE handle[p]]
          /\ UNCHANGED <<loop, requestVars, filed, where, cleaner, due, flushing>>
      BY <1>5 DEF ProcessJoin
    <2>2. /\ \A q \in Requests : task[q] = "joining" => task'[q] = "joining"
          /\ \A q \in Requests : task[q] = "none" => task'[q] = "none"
          /\ \A q \in Requests : task[q] = "done" => task'[q] = "done"
          /\ task'[r] = "joining"
      BY <2>1 DEF TypeOK
    <2>3. SendsHeld'
      BY <2>1, <2>2 DEF HandleInv, SendsHeld, Promised, HandleHeld, SweepAhead
    <2>4. SpawnedOnce' /\ DueSeen' /\ TasksAwaited'
      BY <2>1, <2>2, DueFrame, TasksFrame DEF HandleInv, SpawnedOnce, TypeOK, SweepAhead
    <2>5. HandlesTaken'
      BY <2>1 DEF HandleInv, HandlesTaken, Awaited
    <2> QED
      BY <2>3, <2>4, <2>5 DEF HandleInv
  <1>6. ASSUME NEW r \in Requests, ProcessDone(r) PROVE HandleInv'
    <2>1. /\ task[r] = "joining" /\ task' = [task EXCEPT ![r] = "done"]
          /\ Awaited(r, "task") = {}
          /\ UNCHANGED <<loop, requestVars, filed, where, cleaner, due, flushing>>
      BY <1>6 DEF ProcessDone
    <2>2. \A p \in Payloads : handle'[p] = handle[p] /\ (filed[p] = r => handle[p] # "task")
      BY <1>6, <2>1 DEF ProcessDone, Awaited
    <2>3. /\ \A q \in Requests \ {r} : task[q] = "joining" => task'[q] = "joining"
          /\ \A q \in Requests : task[q] = "none" => task'[q] = "none"
          /\ \A q \in Requests : task[q] = "done" => task'[q] = "done"
      BY <2>1 DEF TypeOK
    <2>4. SendsHeld'
      BY <2>1, <2>2, <2>3 DEF HandleInv, SendsHeld, Promised, HandleHeld, SweepAhead
    <2>5. SpawnedOnce' /\ DueSeen' /\ TasksAwaited'
      BY <2>1, <2>3, DueFrame, TasksFrame DEF HandleInv, SpawnedOnce, TypeOK, SweepAhead
    <2>6. HandlesTaken'
      BY <2>1, <2>2 DEF HandleInv, HandlesTaken, Awaited
    <2> QED
      BY <2>4, <2>5, <2>6 DEF HandleInv
  <1>7. ASSUME NEW r \in Requests, Invoke(r) PROVE HandleInv'
    <2>1. /\ loop = "next" /\ created[r] = 0 /\ active' = r /\ UNCHANGED <<handle, due>>
          /\ registered' = registered \cup {r}
          /\ created' = [created EXCEPT ![r] = invocations + 1]
          /\ \A p \in Payloads :
                /\ where'[p] = "immediate" => where[p] = "immediate" /\ filed'[p] = filed[p]
                /\ where'[p] = "unseen" => where[p] = "unseen"
                /\ filed'[p] = filed[p] \/ filed'[p] = r
      BY <1>7 DEF Invoke
    <2>2. task[r] = "none"
      BY <2>1 DEF HandleInv, SpawnedOnce
    <2>3. \/ task' = task /\ loop' = "cap" /\ flushing' = Unfinished /\ cleaner' = cleaner
          \/ \E wh, rp : SendThenSpawn(r, invocations + 1, Unfinished, wh, rp)
      BY <1>7, Zenon DEF Invoke
    <2>4. /\ \/ task' = task /\ loop' \in {"cap", "threshold"} /\ flushing' = Unfinished
             \/ Begun(r, Unfinished)
          /\ cleaner' = cleaner \/ CleanupSpawned
      BY <2>3, SendThenSpawnTasks
    <2>8. /\ \A q \in Requests : task[q] = "joining" => task'[q] = "joining"
          /\ \A q \in Requests \ {r} : task'[q] = task[q]
          /\ loop' \in {"cap", "threshold"} => task' = task
          /\ SweepAhead' /\ TasksAwaited'
      <3>1. \A q \in Requests : task[q] \in {"none", "done"} \/ q \in Unfinished
        BY <2>1 DEF HandleInv, TasksAwaited, SweepAhead, Unfinished
      <3> QED
        BY <2>1, <2>2, <2>4, <3>1, SpawnKeepsJoining
    <2>9. FrameLoop
      BY <2>1, <2>8 DEF FrameLoop, SweepAhead
    <2>5. SendsHeld' /\ DueSeen'
      BY <2>1, <2>8, <2>9, SendsFrame, DueFrame DEF HandleInv, FrameSends, FrameLoop
    <2>6. SpawnedOnce'
      <3>1. \A q \in Requests \ {r} : created'[q] = created[q]
        BY <2>1 DEF TypeOK
      <3>2. created'[r] # 0
        BY <2>1 DEF TypeOK
      <3> QED
        BY <3>1, <3>2, <2>1, <2>2, <2>8 DEF HandleInv, SpawnedOnce
    <2>7. HandlesTaken'
      <3>1. cleaner.phase = "handles" => cleaner.current # r
        BY <2>1 DEF ActiveInv, AgeInv
      <3>2. cleaner'.phase = "handles" => cleaner' = cleaner
        BY <2>4, CleanerPhase
      <3> QED
        BY <2>1, <3>1, <3>2 DEF HandleInv, HandlesTaken, Awaited
    <2> QED
      BY <2>5, <2>6, <2>7, <2>8 DEF HandleInv
  <1>8. ASSUME NEW r \in Requests, CapReached(r) PROVE HandleInv'
    <2>1. /\ loop = "cap" /\ UNCHANGED <<requestVars, payloadVars, due>> /\ task[r] = "done"
          /\ SendThenSpawn(active, invocations, flushing \ {r}, where, report)
      BY <1>8 DEF CapReached
    <2>2. active \in Requests /\ task[active] = "none" /\ created[active] # 0
      BY <2>1 DEF HandleInv, SpawnedOnce, TypeOK, ActiveInv, AgeInv
    <2>3. /\ \/ task' = task /\ loop' = "threshold" /\ flushing' = flushing \ {r}
             \/ Begun(active, flushing \ {r})
          /\ cleaner' = cleaner \/ CleanupSpawned
      BY <2>1, SendThenSpawnTasks
    <2>7. /\ \A q \in Requests : task[q] = "joining" => task'[q] = "joining"
          /\ \A q \in Requests \ {active} : task'[q] = task[q]
          /\ loop' \in {"cap", "threshold"} => task' = task
          /\ SweepAhead' /\ TasksAwaited'
      <3>1. \A q \in Requests : task[q] \in {"none", "done"} \/ q \in flushing \ {r}
        BY <2>1 DEF HandleInv, TasksAwaited, SweepAhead
      <3>2. active' = active
        BY <2>1
      <3> HIDE DEF requestVars
      <3> QED
        BY <2>2, <2>3, <3>1, <3>2, SpawnKeepsJoining
    <2>8. FrameLoop
      BY <2>1, <2>7 DEF FrameLoop, SweepAhead
    <2>4. SendsHeld' /\ DueSeen'
      BY <2>1, <2>7, <2>8, SendsFrame, DueFrame DEF HandleInv, FrameSends, FrameLoop
    <2>5. SpawnedOnce'
      BY <2>1, <2>2, <2>7 DEF HandleInv, SpawnedOnce
    <2>6. HandlesTaken'
      BY <2>1, <2>3, CleanerPhase DEF HandleInv, HandlesTaken, Awaited
    <2> QED
      BY <2>4, <2>5, <2>6, <2>7 DEF HandleInv
  <1>9. ASSUME NEW post \in posts, NEW o \in Outcomes, ThresholdSendDone(post, o)
        PROVE HandleInv'
    <2>1. /\ loop = "threshold" /\ UNCHANGED <<requestVars, filed, handle, due>>
          /\ SpawnProcessing(active, invocations, flushing)
          /\ \A p \in Payloads : /\ where'[p] = "immediate" => where[p] = "immediate"
                                 /\ where'[p] = "unseen" => where[p] = "unseen"
      BY <1>9 DEF ThresholdSendDone, FinishPost, clear_batch_with_reports, RemoveEntries
    <2>2. active \in Requests /\ task[active] = "none" /\ created[active] # 0
      BY <2>1 DEF HandleInv, SpawnedOnce, TypeOK, ActiveInv, AgeInv
    <2>3. Begun(active, flushing) /\ (cleaner' = cleaner \/ CleanupSpawned)
      BY <2>1, SpawnProcessingTasks
    <2>7. /\ \A q \in Requests : task[q] = "joining" => task'[q] = "joining"
          /\ \A q \in Requests \ {active} : task'[q] = task[q]
          /\ loop' \in {"cap", "threshold"} => task' = task
          /\ SweepAhead' /\ TasksAwaited'
      <3>1. \A q \in Requests : task[q] \in {"none", "done"} \/ q \in flushing
        BY <2>1 DEF HandleInv, TasksAwaited, SweepAhead
      <3>2. active' = active
        BY <2>1
      <3> HIDE DEF requestVars
      <3> QED
        BY <2>2, <2>3, <3>1, <3>2, SpawnKeepsJoining
    <2>8. FrameLoop
      BY <2>1, <2>7 DEF FrameLoop, SweepAhead
    <2>4. SendsHeld' /\ DueSeen'
      BY <2>1, <2>7, <2>8, SendsFrame, DueFrame DEF HandleInv, FrameSends, FrameLoop
    <2>5. SpawnedOnce'
      BY <2>1, <2>2, <2>7 DEF HandleInv, SpawnedOnce
    <2>6. HandlesTaken'
      BY <2>1, <2>3, CleanerPhase DEF HandleInv, HandlesTaken, Awaited
    <2> QED
      BY <2>4, <2>5, <2>6, <2>7 DEF HandleInv
  <1>10. ASSUME ProcessingDone PROVE HandleInv'
    <2>1. /\ loop = "awaiting" /\ loop' = "next" /\ task[active] = "done"
          /\ UNCHANGED <<requestVars, task, flushing, payloadVars, due>>
          /\ cleaner' = cleaner \/ CleanupSpawned
      BY <1>10 DEF ProcessingDone, EndInvocation, CleanupSpawned
    <2>2. SendsHeld' /\ DueSeen' /\ SpawnedOnce'
      BY <2>1, SendsFrame, DueFrame DEF HandleInv, FrameSends, FrameLoop, SweepAhead, SpawnedOnce
    <2>3. HandlesTaken'
      BY <2>1, CleanerPhase DEF HandleInv, HandlesTaken, Awaited
    <2>4. TasksAwaited'
      BY <2>1 DEF HandleInv, TasksAwaited, SweepAhead
    <2> QED
      BY <2>2, <2>3, <2>4 DEF HandleInv
  <1>11. ASSUME Shutdown PROVE HandleInv'
    <2>1. /\ loop = "next" /\ loop' = "flush"
          /\ UNCHANGED <<active, registered, created, task, flushing, payloadVars, cleaner, due>>
      BY <1>11 DEF Shutdown
    <2>2. SendsHeld' /\ DueSeen'
      BY <2>1, SendsFrame, DueFrame DEF HandleInv, FrameSends, FrameLoop, SweepAhead
    <2>3. TasksAwaited'
      BY <2>1 DEF HandleInv, TasksAwaited, SweepAhead
    <2> QED
      BY <2>1, <2>2, <2>3 DEF HandleInv, SpawnedOnce, HandlesTaken, Awaited
  <1>12. CASE Emergency \/ ShutdownTimeOut \/ EmergencyDone
    <2>1. /\ loop' \in {"emergency", "killed"} /\ (due' = {} \/ (loop = "next" /\ due' = due))
          /\ UNCHANGED <<requestVars, task, payloadVars, cleaner>>
      BY <1>12 DEF Emergency, ShutdownTimeOut, EmergencyDone
    <2>2. ~SweepAhead' /\ due' = {}
      BY <1>12, <2>1 DEF HandleInv, DueSeen, SweepAhead, Emergency, ShutdownTimeOut, EmergencyDone
    <2>3. SpawnedOnce' /\ HandlesTaken'
      BY <2>1, <2>2 DEF HandleInv, SpawnedOnce, HandlesTaken, Awaited, SweepAhead
    <2> QED
      BY <2>2, <2>3, NothingPromised DEF HandleInv
  <1>26. CASE ShutdownDone \/ EmergencySend
    BY <1>26, HandleQuiet DEF ShutdownDone, EmergencySend, FrameLoop, SweepAhead
  <1>13. ASSUME ShutdownSweep PROVE HandleInv'
    <2>1. /\ handle' = [p \in Payloads |-> IF handle[p] = "entry" /\ filed[p] \in registered
                                           THEN "sweep" ELSE handle[p]]
          /\ loop = "flush" /\ AllFlushed /\ due' = InCustody
          /\ UNCHANGED <<requestVars, task, where, filed, cleaner>> /\ loop' = "sweep"
      BY <1>13 DEF ShutdownSweep
    <2>2. \A r \in Requests : task[r] # "joining"
      BY <2>1 DEF HandleInv, TasksAwaited, SweepAhead, AllFlushed
    <2>3. SendsHeld'
      BY <2>1, <2>2 DEF HandleInv, SendsHeld, Promised, HandleHeld, SweepAhead
    <2>4. SpawnedOnce' /\ HandlesTaken' /\ TasksAwaited'
      BY <2>1 DEF HandleInv, SpawnedOnce, HandlesTaken, TasksAwaited, SweepAhead, Awaited
    <2>5. DueSeen'
      BY <2>1 DEF DueSeen, SweepAhead, InCustody
    <2> QED
      BY <2>3, <2>4, <2>5 DEF HandleInv
  <1>14. ASSUME ShutdownCollect PROVE HandleInv'
    <2>1. /\ loop = "sweep" /\ loop' = "send" /\ \A p \in Payloads : handle[p] # "sweep"
          /\ UNCHANGED <<requestVars, task, filed, handle, cleaner, due>>
          /\ \A p \in Payloads : /\ where'[p] = "immediate" => where[p] = "immediate"
                                 /\ where'[p] = "unseen" => where[p] = "unseen"
      BY <1>14 DEF ShutdownCollect, Moved
    <2>2. SendsHeld'
      BY <2>1 DEF HandleInv, SendsHeld, Promised, HandleHeld, SweepAhead
    <2>3. SpawnedOnce' /\ HandlesTaken' /\ TasksAwaited'
      BY <2>1 DEF HandleInv, SpawnedOnce, HandlesTaken, TasksAwaited, SweepAhead, Awaited
    <2>4. DueSeen'
      BY <2>1, DueFrame DEF HandleInv, SweepAhead
    <2> QED
      BY <2>2, <2>3, <2>4 DEF HandleInv
  <1>15. ASSUME NEW sender \in queued, StartQueuedSend(sender) PROVE HandleInv'
    BY <1>15, HandleQuiet DEF StartQueuedSend, FrameLoop, SweepAhead
  <1>16. ASSUME NEW post \in posts, NEW o \in Outcomes,
                FinishQueuedSend(post, o) \/ LastSendDone(post, o)
         PROVE HandleInv'
    BY <1>16, HandleQuiet DEF FinishQueuedSend, LastSendDone, FinishPost,
       clear_batch_with_reports, RemoveEntries, FrameLoop, SweepAhead
  <1>17. ASSUME NEW p \in Payloads, NEW o \in Outcomes, FinishImmediateSend(p, o)
         PROVE HandleInv'
    <2>1. /\ UNCHANGED <<loop, requestVars, task, filed, cleaner, due, flushing>>
          /\ handle' = [handle EXCEPT ![p] = "none"]
          /\ where'[p] \notin {"immediate", "unseen"} /\ \A q \in Payloads \ {p} : where'[q] = where[q]
      BY <1>17 DEF FinishImmediateSend, Moved
    <2>2. \A q \in Payloads : handle'[q] = IF q = p THEN "none" ELSE handle[q]
      BY <2>1 DEF TypeOK
    <2>3. SendsHeld'
      BY <2>1, <2>2, SendsFrame DEF HandleInv, FrameSends, FrameLoop, SweepAhead
    <2>4. SpawnedOnce' /\ HandlesTaken'
      BY <2>1, <2>2 DEF HandleInv, SpawnedOnce, HandlesTaken, Awaited
    <2>5. DueSeen' /\ TasksAwaited'
      BY <2>1, DueFrame, TasksFrame DEF HandleInv, SweepAhead
    <2> QED
      BY <2>3, <2>4, <2>5 DEF HandleInv
  <1>18. ASSUME NEW p \in Payloads, NEW o \in Outcomes, CleanerSend(p, o) PROVE HandleInv'
    BY <1>18, HandleQuiet DEF CleanerSend, Moved, FrameLoop, SweepAhead
  <1>19. ASSUME NEW chunk \in SUBSET Payloads, NEW o \in Outcomes, ShutdownSend(chunk, o)
         PROVE HandleInv'
    BY <1>19, HandleQuiet DEF ShutdownSend, Moved, FrameLoop, SweepAhead
  <1>20. ASSUME CleanerStart \/ \E o \in Outcomes : CleanerBatchDone(o) PROVE HandleInv'
    BY <1>20, HandleQuiet DEF CleanerStart, CleanerBatchDone, RemoveEntries, ToBuffers, Cleaner,
       FrameLoop, SweepAhead
  <1>21. ASSUME NEW r \in Requests, CleanerTake(r) PROVE HandleInv'
    <2>1. cleaner'.phase = "sending"
      BY <1>21 DEF CleanerTake, TypeOK, Cleanups
    <2> QED
      BY <1>21, <2>1, HandleQuiet DEF CleanerTake, Moved, FrameLoop, SweepAhead
  <1>22. ASSUME CleanerHandles PROVE HandleInv'
    <2>1. /\ UNCHANGED <<loop, requestVars, task, where, filed, due, flushing>>
          /\ handle' = [p \in Payloads |-> IF p \in Awaited(cleaner.current, "entry")
                                           THEN "cleaner" ELSE handle[p]]
          /\ cleaner'.current = cleaner.current
      BY <1>22 DEF CleanerHandles, TypeOK, Cleanups
    <2>2. SendsHeld'
      BY <2>1 DEF HandleInv, SendsHeld, Promised, HandleHeld, SweepAhead, Awaited
    <2>3. SpawnedOnce' /\ HandlesTaken'
      BY <2>1 DEF HandleInv, SpawnedOnce, HandlesTaken, Awaited
    <2>4. DueSeen' /\ TasksAwaited'
      BY <2>1, DueFrame, TasksFrame DEF HandleInv, SweepAhead
    <2> QED
      BY <2>2, <2>3, <2>4 DEF HandleInv
  <1>23. ASSUME CleanerRemove PROVE HandleInv'
    <2>1. /\ cleaner.phase = "handles" /\ registered' = registered \ {cleaner.current}
          /\ handle' = [p \in Payloads |-> IF p \in Awaited(cleaner.current, "entry")
                                           THEN "abandoned" ELSE handle[p]]
          /\ UNCHANGED <<loop, active, created, task, filed, due, flushing>>
          /\ \A p \in Payloads : /\ where'[p] = "immediate" => where[p] = "immediate"
                                 /\ where'[p] = "unseen" => where[p] = "unseen"
      BY <1>23 DEF CleanerRemove, Moved
    <2>2. Awaited(cleaner.current, "entry") = {}
      BY <2>1 DEF HandleInv, HandlesTaken
    <2>3. \A p \in Payloads : /\ handle'[p] = handle[p]
                              /\ filed[p] = cleaner.current => handle[p] # "entry"
      BY <2>1, <2>2 DEF Awaited
    <2>4. SendsHeld'
      BY <2>1, <2>3 DEF HandleInv, SendsHeld, Promised, HandleHeld, SweepAhead
    <2>5. cleaner'.phase = "buffers"
      BY <1>23 DEF CleanerRemove, TypeOK, Cleanups
    <2>6. SpawnedOnce' /\ HandlesTaken'
      BY <2>1, <2>5 DEF HandleInv, SpawnedOnce, HandlesTaken
    <2>7. DueSeen' /\ TasksAwaited'
      BY <2>1, DueFrame, TasksFrame DEF HandleInv, SweepAhead
    <2> QED
      BY <2>4, <2>6, <2>7 DEF HandleInv
  <1>24. CASE CleanerDone
    BY <1>24, HandleQuiet DEF CleanerDone, IdleCleaner, Cleaner, FrameLoop, SweepAhead
  <1>25. CASE Terminated
    BY <1>25, <1>1 DEF Terminated
  <1> QED
    BY <1>1, <1>2, <1>3, <1>4, <1>5, <1>6, <1>7, <1>8, <1>9, <1>10, <1>11, <1>12, <1>13, <1>14,
       <1>15, <1>16, <1>17, <1>18, <1>19, <1>20, <1>21, <1>22, <1>23, <1>24, <1>25, <1>26
    DEF Next, Environment, LoopSteps, TaskSteps, SendSteps, CleanerSteps

LEMMA HandleInit == Init => HandleInv
  BY DEF Init, HandleInv, SendsHeld, Promised, SpawnedOnce, HandlesTaken, DueSeen, TasksAwaited,
         IdleCleaner, Cleaner

LEMMA HandleCorrect == ASSUME ~DeadlineMayExpire PROVE Spec => []HandleInv
  <1>1. Init => HandleInv
    BY HandleInit
  <1>2. TypeOK /\ ActiveInv /\ HandleInv /\ [Next]_vars => HandleInv'
    BY HandleStep
  <1> QED
    BY <1>1, <1>2, TypeCorrect, ActiveCorrect, PTL DEF Spec

\* No immediate send spawned before SHUTDOWN's sweep is left without somebody who awaits it,
\* as long as no deadline expires: the task that takes the handles, the cleanup that removes
\* the entry, or the sweep, which the loop does not leave before the last of them.
THEOREM SendsNeverAbandoned == Spec => []NoAbandonedSend
  <1>1. CASE DeadlineMayExpire
    <2>1. NoAbandonedSend
      BY <1>1 DEF NoAbandonedSend
    <2> QED
      BY <2>1, PTL
  <1>2. CASE ~DeadlineMayExpire
    <2>1. HandleInv => NoAbandonedSend
      BY DEF HandleInv, SendsHeld, Promised, HandleHeld, NoAbandonedSend
    <2>2. Spec => []HandleInv
      BY <1>2, HandleCorrect
    <2> QED
      BY <2>1, <2>2, PTL
  <1> QED
    BY <1>1, <1>2

-----------------------------------------------------------------------------
(* The promise of PayloadCustody is kept (synchronous_flush off).          *)

Outside  == {"unseen", "orphan"}
Gathered == {"shutdown", "cleaner", "gone"}

\* What was answered for or posted, and what is due at SHUTDOWN, had been taken
\* into custody.
SentWasHeld ==
    /\ \A p \in acked \cup dropped \cup due : where[p] \notin Outside
    /\ \A post \in posts : \A p \in post.payloads : where[p] \notin Outside
    /\ \A p \in cleaner.payloads : where[p] \notin Outside

\* A buffered payload is in the buffer of an entry there is, so SHUTDOWN finds it.
BufferHasEntry == \A p \in Payloads : where[p] = "buffer" => filed[p] \in registered

\* Once SHUTDOWN has collected, what is due is collected, with the cleanup, or gone.
DueCollected == loop = "send" => \A p \in due : where[p] \in Gathered

CustodyInv == SentWasHeld /\ BufferHasEntry /\ DueCollected

\* A payload taken into custody is never handed back,
FrameCustody ==
    \A p \in Payloads :
       /\ where[p] \notin Outside => where'[p] \notin Outside
       /\ where[p] \in Gathered => where'[p] \in Gathered

\* what is answered for, posted, or posted by the cleanup was in custody,
FrameSent ==
    /\ \A p \in acked' \cup dropped' \cup due' :
          p \in acked \cup dropped \cup due \/ where[p] \notin Outside
    /\ \A post \in posts' : post \in posts \/ \A p \in post.payloads : where'[p] \notin Outside
    /\ \A p \in cleaner'.payloads : p \in cleaner.payloads \/ where[p] \notin Outside

\* what is buffered is under an entry that stays,
FrameBuffer ==
    \A p \in Payloads : where'[p] = "buffer" =>
        \/ filed'[p] \in registered'
        \/ where[p] = "buffer" /\ filed'[p] = filed[p] /\ registered \subseteq registered'

\* and what is due stays collected.
FrameDue == loop' = "send" => DueCollected' \/ (loop = "send" /\ due' = due)

LEMMA CustodyFrame ==
    ASSUME TypeOK, TypeOK', CustodyInv, FrameCustody, FrameSent, FrameBuffer, FrameDue
    PROVE  CustodyInv'
  <1>1. /\ acked' \cup dropped' \cup due' \subseteq Payloads
        /\ cleaner'.payloads \subseteq Payloads
        /\ \A post \in posts : post.payloads \subseteq Payloads
        /\ due \subseteq Payloads
    BY DEF TypeOK, Cleanups, Posts
  <1>2. SentWasHeld'
    <2>1. \A p \in acked' \cup dropped' \cup due' : where'[p] \notin Outside
      BY <1>1 DEF CustodyInv, SentWasHeld, FrameSent, FrameCustody
    <2>2. \A post \in posts' : \A p \in post.payloads : where'[p] \notin Outside
      BY <1>1 DEF CustodyInv, SentWasHeld, FrameSent, FrameCustody
    <2>3. \A p \in cleaner'.payloads : where'[p] \notin Outside
      BY <1>1 DEF CustodyInv, SentWasHeld, FrameSent, FrameCustody
    <2> QED
      BY <2>1, <2>2, <2>3 DEF SentWasHeld
  <1>3. BufferHasEntry'
    BY DEF CustodyInv, BufferHasEntry, FrameBuffer
  <1>4. DueCollected'
    BY <1>1 DEF CustodyInv, DueCollected, FrameDue, FrameCustody
  <1> QED
    BY <1>2, <1>3, <1>4 DEF CustodyInv

\* A step that takes nothing into custody, nor into the hands of the cleanup.
MovesOn ==
    \A p \in Payloads :
       /\ where[p] \in Outside \cup {"gone"} => where'[p] = where[p]
       /\ where'[p] = "cleaner" => where[p] = "cleaner"
       /\ where[p] = "cleaner" => where'[p] \in {"cleaner", "gone"}

FrameAnswered == acked \subseteq acked' /\ dropped \subseteq dropped'

\* It settles payloads, as far as the promise can see.
LEMMA MovesSettle ==
    ASSUME TypeOK, TypeOK', NoSilentLoss', Running, phaseOfLoop' = phaseOfLoop, due' = due,
           MovesOn, FrameCustody, FrameAnswered
    PROVE  Promise!Settle
  <1>1. phaseOfLoop # "closed"
    BY DEF phaseOfLoop, Running
  <1>2. /\ acked' \cup dropped' \in SUBSET Payloads
        /\ acked \cup dropped \subseteq acked' \cup dropped'
    BY DEF TypeOK, FrameAnswered
  <1>3. InCustody' \in SUBSET InCustody
    BY DEF InCustody, MovesOn, Outside
  <1>4. InCustody \ InCustody' \subseteq acked' \cup dropped'
    BY DEF InCustody, FrameCustody, Outside, NoSilentLoss
  <1>5. WithCleaner' = WithCleaner \cap InCustody'
    BY DEF InCustody, WithCleaner, MovesOn, FrameCustody, Outside
  <1> QED
    BY <1>1, <1>2, <1>3, <1>4, <1>5 DEF Promise!Settle

Kept == CustodyInv' /\ (Promise!Next \/ UNCHANGED Promise!vars)

LEMMA SettleStep ==
    ASSUME TypeOK, TypeOK', NoSilentLoss', CustodyInv, Running, phaseOfLoop' = phaseOfLoop,
           due' = due, MovesOn, FrameCustody, FrameSent, FrameBuffer, FrameDue, FrameAnswered
    PROVE  Kept
  BY CustodyFrame, MovesSettle DEF Kept, Promise!Next

\* A step that leaves payloads, answers and the cleanup's payloads alone.
LEMMA KeptQuiet ==
    ASSUME TypeOK, TypeOK', CustodyInv, UNCHANGED <<where, filed, acked, dropped, due>>,
           phaseOfLoop' = phaseOfLoop, registered \subseteq registered', FrameDue,
           \A post \in posts' : post \in posts \/ \A p \in post.payloads : where[p] \notin Outside,
           \A p \in cleaner'.payloads : p \in cleaner.payloads \/ where[p] \notin Outside
    PROVE  Kept
  <1>1. CustodyInv'
    BY CustodyFrame DEF FrameCustody, FrameSent, FrameBuffer, Gathered
  <1>2. UNCHANGED Promise!vars
    BY DEF Promise!vars, InCustody, WithCleaner
  <1> QED
    BY <1>1, <1>2 DEF Kept

\* What a send's snapshot holds is in the batch.
LEMMA SnapshotHeld ==
    ASSUME NEW sender, NEW rp
    PROVE  \A p \in get_batch_with_reports_only(sender, where, rp).payloads : where[p] \notin Outside
  BY DEF get_batch_with_reports_only, Outside

\* The posts after an INVOKE's send: a new one holds what is in the batch.
LEMMA SendThenSpawnHeld ==
    ASSUME NEW r, NEW n, NEW handles, NEW wh, NEW rp, SendThenSpawn(r, n, handles, wh, rp)
    PROVE  /\ \A post \in posts' : post \in posts \/ \A p \in post.payloads : wh[p] = "batch"
           /\ loop' \in Serving
  <1> DEFINE post == get_batch_with_reports_only([by |-> "loop", request |-> r], wh, rp)
  <1>1. \A p \in post.payloads : wh[p] = "batch"
    BY DEF get_batch_with_reports_only
  <1>2. posts' = posts \/ posts' = posts \cup {post}
    BY DEF SendThenSpawn
  <1> HIDE DEF post
  <1>3. \A q \in posts' : q \in posts \/ q = post
    BY <1>2
  <1> QED
    BY <1>1, <1>3, SendThenSpawnCleaner, Zenon

\* Spawning the cleanup gives it no payloads.
LEMMA CleanupSpawnedPayloads ==
    ASSUME TypeOK, cleaner' = cleaner \/ CleanupSpawned
    PROVE  cleaner'.payloads = cleaner.payloads
  BY DEF TypeOK, Cleanups, CleanupSpawned

\* The end of a batch send removes entries of the batch.
LEMMA FinishPostKept ==
    ASSUME TypeOK, TypeOK', NoSilentLoss', CustodyInv, NEW post \in posts, NEW o \in Outcomes,
           FinishPost(post, o), Running, phaseOfLoop' = phaseOfLoop, due' = due,
           registered' = registered, loop' # "send" \/ loop = "send",
           cleaner' = cleaner \/ CleanupSpawned
    PROVE  Kept
  <1>1. /\ posts' = posts \ {post} /\ filed' = filed /\ dropped' = dropped
        /\ acked' \in {acked, acked \cup post.payloads}
        /\ \A p \in Payloads : where'[p] = where[p] \/ (where[p] = "batch" /\ where'[p] = "gone")
    BY DEF FinishPost, Answered, clear_batch_with_reports, RemoveEntries, TypeOK
  <1>2. MovesOn /\ FrameCustody
    BY <1>1 DEF MovesOn, FrameCustody, Outside, Gathered
  <1>3. FrameSent
    BY <1>1, CleanupSpawnedPayloads DEF FrameSent, CustodyInv, SentWasHeld
  <1>4. FrameBuffer /\ FrameDue /\ FrameAnswered
    BY <1>1 DEF FrameBuffer, FrameDue, FrameAnswered
  <1> QED
    BY <1>2, <1>3, <1>4, SettleStep

\* Payloads that are filed for the first time are taken into custody.
LEMMA ReceiveStep ==
    ASSUME TypeOK, TypeOK', CustodyInv, Running, phaseOfLoop' = phaseOfLoop,
           UNCHANGED <<acked, dropped, due>>, FrameCustody, FrameSent, FrameBuffer, FrameDue,
           \A p \in Payloads : /\ where'[p] = "gone" <=> where[p] = "gone"
                               /\ where'[p] = "cleaner" <=> where[p] = "cleaner"
    PROVE  Kept
  <1>1. CustodyInv'
    BY CustodyFrame
  <1>2. phaseOfLoop # "closed"
    BY DEF phaseOfLoop, Running
  <1>3. InCustody' \in SUBSET Payloads /\ InCustody \subseteq InCustody'
    BY DEF InCustody, FrameCustody, Outside
  <1>4. (InCustody' \ InCustody) \cap (acked \cup dropped) = {}
    BY DEF InCustody, CustodyInv, SentWasHeld, Outside
  <1>5. WithCleaner' = WithCleaner
    BY DEF WithCleaner
  <1>6. Promise!Receive
    BY <1>2, <1>3, <1>4, <1>5 DEF Promise!Receive
  <1> QED
    BY <1>1, <1>6 DEF Kept, Promise!Next

\* One step per action: what it does to the invariant, and what the promise makes of it.
LEMMA CustodyStep ==
    ASSUME ~SynchronousFlush, TypeOK, TypeOK', ActiveInv, DeliveryInv, DeliveryInv', CustodyInv,
           [Next]_vars
    PROVE  Kept
  <1> USE DEF requestVars, payloadVars, answerVars
  <1>0. NoSilentLoss'
    BY DEF DeliveryInv
  <1>1. CASE UNCHANGED vars
    <2>1. FrameDue /\ phaseOfLoop' = phaseOfLoop
      BY <1>1 DEF vars, FrameDue, phaseOfLoop
    <2> QED
      BY <1>1, <2>1, KeptQuiet DEF vars
  <1>2. ASSUME NEW r \in Requests, PlatformReport(r) PROVE Kept
    <2>1. /\ UNCHANGED <<loop, registered, filed, acked, dropped, due, posts, cleaner>> /\ Running
          /\ \A p \in Payloads : where'[p] = where[p] \/ (where[p] = "buffer" /\ where'[p] = "batch")
      BY <1>2 DEF PlatformReport, Moved, agent_buffer, At
    <2>2. MovesOn /\ FrameCustody /\ FrameBuffer
      BY <2>1 DEF MovesOn, FrameCustody, FrameBuffer, Outside, Gathered
    <2>3. FrameSent /\ FrameDue /\ FrameAnswered /\ phaseOfLoop' = phaseOfLoop
      BY <2>1 DEF FrameSent, FrameDue, FrameAnswered, phaseOfLoop
    <2> QED
      BY <1>0, <2>1, <2>2, <2>3, SettleStep
  <1>3. ASSUME NEW p \in Payloads, route_payload_to_active_request(p) PROVE Kept
    <2>1. /\ UNCHANGED <<loop, registered, acked, dropped, due, posts, cleaner>> /\ Running
          /\ where[p] = "unseen"
          /\ \A q \in Payloads \ {p} : where'[q] = where[q] /\ filed'[q] = filed[q]
      BY <1>3 DEF route_payload_to_active_request, Moved, TypeOK
    <2>2. \/ where'[p] = "orphan"
          \/ where'[p] = "buffer" /\ filed'[p] \in registered
      BY <1>3 DEF route_payload_to_active_request, Moved, TypeOK, ActiveInv, AgeInv,
         ActiveIsRegistered
    <2>3. FrameCustody /\ FrameBuffer
      BY <2>1, <2>2 DEF FrameCustody, FrameBuffer, Outside, Gathered
    <2>4. FrameSent /\ FrameDue /\ phaseOfLoop' = phaseOfLoop
      BY <2>1 DEF FrameSent, FrameDue, phaseOfLoop
    <2> QED
      BY <2>1, <2>2, <2>3, <2>4, ReceiveStep
  <1>4. ASSUME NEW r \in Requests, ProcessStart(r) PROVE Kept
    <2>1. /\ UNCHANGED <<loop, registered, filed, acked, dropped, due, posts, cleaner>> /\ Running
          /\ \A p \in Payloads : where'[p] = where[p] \/ (where[p] = "buffer" /\ where'[p] = "batch")
      BY <1>4 DEF ProcessStart, Moved, agent_buffer, At
    <2>2. MovesOn /\ FrameCustody /\ FrameBuffer
      BY <2>1 DEF MovesOn, FrameCustody, FrameBuffer, Outside, Gathered
    <2>3. FrameSent /\ FrameDue /\ FrameAnswered /\ phaseOfLoop' = phaseOfLoop
      BY <2>1 DEF FrameSent, FrameDue, FrameAnswered, phaseOfLoop
    <2> QED
      BY <1>0, <2>1, <2>2, <2>3, SettleStep
  <1>5. ASSUME NEW r \in Requests, ProcessJoin(r) \/ ProcessDone(r) PROVE Kept
    <2>1. UNCHANGED <<loop, registered, where, filed, acked, dropped, due, posts, cleaner>>
      BY <1>5 DEF ProcessJoin, ProcessDone
    <2>2. FrameDue /\ phaseOfLoop' = phaseOfLoop
      BY <2>1 DEF FrameDue, phaseOfLoop
    <2> QED
      BY <2>1, <2>2, KeptQuiet
  <1>6. ASSUME NEW r \in Requests, Invoke(r) PROVE Kept
    <2> DEFINE late == LatePairs(r)
               wh == [p \in Payloads |->
                        IF where[p] = "buffer" /\ filed[p] \in late THEN "batch"
                        ELSE IF where[p] = "orphan" THEN "buffer" ELSE where[p]]
               rp == [q \in Requests |-> IF q \in late THEN "batch" ELSE report[q]]
    <2>1. /\ loop = "next" /\ where' = wh /\ registered' = registered \cup {r}
          /\ filed' = [p \in Payloads |-> IF where[p] = "orphan" THEN r ELSE filed[p]]
          /\ UNCHANGED <<acked, dropped, due>>
      BY <1>6 DEF Invoke
    <2>2. \/ UNCHANGED <<posts, cleaner>> /\ loop' = "cap"
          \/ SendThenSpawn(r, invocations + 1, Unfinished, wh, rp)
      BY <1>6 DEF Invoke
    <2> HIDE DEF rp
    <2>3. /\ loop' \in Serving
          /\ \A post \in posts' : post \in posts \/ \A p \in post.payloads : where'[p] = "batch"
          /\ cleaner'.payloads = cleaner.payloads
      BY <2>1, <2>2, SendThenSpawnHeld, SendThenSpawnCleaner, CleanupSpawnedPayloads DEF Serving
    <2>4. FrameCustody
      BY <2>1 DEF FrameCustody, Outside, Gathered
    <2>5. FrameSent
      BY <2>1, <2>3 DEF FrameSent, Outside
    <2>6. FrameBuffer
      BY <2>1 DEF FrameBuffer
    <2>7. FrameDue /\ Running /\ phaseOfLoop' = phaseOfLoop
      BY <2>1, <2>3 DEF FrameDue, Running, Ended, Serving, phaseOfLoop
    <2>8. \A p \in Payloads : /\ where'[p] = "gone" <=> where[p] = "gone"
                              /\ where'[p] = "cleaner" <=> where[p] = "cleaner"
      BY <2>1
    <2> QED
      BY <2>1, <2>4, <2>5, <2>6, <2>7, <2>8, ReceiveStep
  <1>7. ASSUME NEW r \in Requests, CapReached(r) PROVE Kept
    <2>1. /\ loop = "cap" /\ UNCHANGED <<registered, where, filed, acked, dropped, due>>
          /\ SendThenSpawn(active, invocations, flushing \ {r}, where, report)
      BY <1>7 DEF CapReached
    <2>2. /\ loop' \in Serving
          /\ \A post \in posts' : post \in posts \/ \A p \in post.payloads : where[p] = "batch"
          /\ cleaner'.payloads = cleaner.payloads
      BY <2>1, SendThenSpawnHeld, SendThenSpawnCleaner, CleanupSpawnedPayloads
    <2>3. FrameDue /\ phaseOfLoop' = phaseOfLoop
      BY <2>1, <2>2 DEF FrameDue, Serving, phaseOfLoop, Ended
    <2> QED
      BY <2>1, <2>2, <2>3, KeptQuiet DEF Outside
  <1>8. ASSUME NEW post \in posts, NEW o \in Outcomes, ThresholdSendDone(post, o) PROVE Kept
    <2>1. /\ loop = "threshold" /\ FinishPost(post, o) /\ UNCHANGED <<registered, due>>
          /\ SpawnProcessing(active, invocations, flushing)
      BY <1>8 DEF ThresholdSendDone
    <2>2. loop' \in Serving /\ (cleaner' = cleaner \/ CleanupSpawned)
      BY <2>1, SpawnProcessingCleaner
    <2>3. Running /\ phaseOfLoop' = phaseOfLoop /\ loop' # "send"
      BY <2>1, <2>2 DEF Running, Serving, phaseOfLoop, Ended
    <2> QED
      BY <1>0, <2>1, <2>2, <2>3, FinishPostKept
  <1>9. ASSUME NEW post \in posts, NEW o \in Outcomes,
               FinishQueuedSend(post, o) \/ LastSendDone(post, o)
        PROVE  Kept
    <2>1. /\ FinishPost(post, o) /\ UNCHANGED <<loop, registered, due, cleaner>> /\ Running
      BY <1>9 DEF FinishQueuedSend, LastSendDone, Running, Ended
    <2>2. phaseOfLoop' = phaseOfLoop
      BY <2>1 DEF phaseOfLoop
    <2> QED
      BY <1>0, <2>1, <2>2, FinishPostKept
  <1>10. CASE ProcessingDone \/ Shutdown \/ Emergency
    <2>1. /\ UNCHANGED <<registered, where, filed, acked, dropped, due, posts>>
          /\ loop \in {"awaiting", "next"} /\ loop' \in {"next", "flush", "emergency"}
          /\ cleaner' = cleaner \/ CleanupSpawned
      BY <1>10 DEF ProcessingDone, EndInvocation, Shutdown, Emergency, CleanupSpawned
    <2>2. FrameDue /\ phaseOfLoop' = phaseOfLoop
      BY <2>1 DEF FrameDue, phaseOfLoop, Ended
    <2> QED
      BY <2>1, <2>2, KeptQuiet, CleanupSpawnedPayloads
  <1>11. CASE EmergencySend
    <2>1. /\ UNCHANGED <<registered, where, filed, acked, dropped, due, cleaner>>
          /\ loop = "emergency" /\ loop' = "lastSend"
          /\ \A post \in posts' : post \in posts \/ \A p \in post.payloads : where[p] \notin Outside
      BY <1>11, SnapshotHeld DEF EmergencySend
    <2>2. FrameDue /\ phaseOfLoop' = phaseOfLoop
      BY <2>1 DEF FrameDue, phaseOfLoop, Ended
    <2> QED
      BY <2>1, <2>2, KeptQuiet
  <1>12. ASSUME NEW sender \in queued, StartQueuedSend(sender) PROVE Kept
    <2>1. /\ UNCHANGED <<loop, registered, where, filed, acked, dropped, due, cleaner>>
          /\ \A post \in posts' : post \in posts \/ \A p \in post.payloads : where[p] \notin Outside
      BY <1>12, SnapshotHeld DEF StartQueuedSend
    <2>2. FrameDue /\ phaseOfLoop' = phaseOfLoop
      BY <2>1 DEF FrameDue, phaseOfLoop
    <2> QED
      BY <2>1, <2>2, KeptQuiet
  <1>13. CASE ShutdownTimeOut \/ EmergencyDone
    <2>1. /\ UNCHANGED <<registered, where, filed, acked, dropped, posts, cleaner>>
          /\ loop \notin Ended /\ loop' = "killed" /\ due' = {}
      BY <1>13 DEF ShutdownTimeOut, EmergencyDone, Ended
    <2>2. CustodyInv'
      BY <2>1 DEF CustodyInv, SentWasHeld, BufferHasEntry, DueCollected
    <2>3. phaseOfLoop # "closed" /\ phaseOfLoop' = "closed"
      BY <2>1 DEF phaseOfLoop, Ended
    <2>4. UNCHANGED <<InCustody, WithCleaner, acked, dropped>>
      BY <2>1 DEF InCustody, WithCleaner
    <2>5. Promise!Kill
      BY <2>1, <2>3, <2>4 DEF Promise!Kill
    <2> QED
      BY <2>2, <2>5 DEF Kept, Promise!Next
  <1>14. CASE ShutdownSweep
    <2>1. /\ UNCHANGED <<registered, where, filed, acked, dropped, posts, cleaner>>
          /\ loop = "flush" /\ loop' = "sweep" /\ due' = InCustody
      BY <1>14 DEF ShutdownSweep
    <2>2. CustodyInv'
      BY <2>1 DEF CustodyInv, SentWasHeld, BufferHasEntry, DueCollected, InCustody, Outside
    <2>3. phaseOfLoop = "open" /\ phaseOfLoop' = "closing"
      BY <2>1 DEF phaseOfLoop, Ended
    <2>4. UNCHANGED <<InCustody, WithCleaner, acked, dropped>>
      BY <2>1 DEF InCustody, WithCleaner
    <2>5. Promise!Close
      BY <2>1, <2>3, <2>4 DEF Promise!Close
    <2> QED
      BY <2>2, <2>5 DEF Kept, Promise!Next
  <1>15. CASE ShutdownCollect
    <2>1. /\ UNCHANGED <<registered, filed, acked, dropped, due, posts, cleaner>>
          /\ loop = "sweep" /\ loop' = "send" /\ where' = Moved(Collected, "shutdown")
      BY <1>15 DEF ShutdownCollect
    <2>2. \A p \in Payloads : where'[p] = IF \/ where[p] = "batch"
                                             \/ where[p] = "buffer" /\ filed[p] \in registered
                                          THEN "shutdown" ELSE where[p]
      BY <2>1 DEF Moved, Collected
    <2>3. MovesOn /\ FrameCustody /\ FrameBuffer
      BY <2>1, <2>2 DEF MovesOn, FrameCustody, FrameBuffer, Outside, Gathered
    <2>4. FrameDue
      <3>1. \A p \in Payloads : where[p] = "buffer" => filed[p] \in registered
        BY DEF CustodyInv, BufferHasEntry
      <3>2. \A p \in due : p \in Payloads /\ where[p] \notin Outside
        BY DEF CustodyInv, SentWasHeld, TypeOK
      <3>3. \A p \in Payloads : where[p] \in {"buffer", "batch", "cleaner", "shutdown", "gone"} \cup Outside
        BY DEF TypeOK, Places, Outside, DeliveryInv, NoImmediateSend
      <3>4. \A p \in due : where'[p] \in Gathered
        BY <2>2, <3>1, <3>2, <3>3 DEF Gathered
      <3> QED
        BY <2>1, <3>4 DEF FrameDue, DueCollected
    <2>5. FrameSent /\ FrameAnswered /\ Running /\ phaseOfLoop' = phaseOfLoop
      BY <2>1 DEF FrameSent, FrameAnswered, Running, phaseOfLoop, Ended
    <2> QED
      BY <1>0, <2>1, <2>3, <2>4, <2>5, SettleStep
  <1>16. CASE ShutdownDone
    <2>1. /\ UNCHANGED <<registered, where, filed, acked, dropped, due, posts, cleaner>>
          /\ loop = "send" /\ loop' = "exited" /\ \A p \in Payloads : where[p] # "shutdown"
      BY <1>16 DEF ShutdownDone
    <2>2. CustodyInv'
      BY <2>1 DEF CustodyInv, SentWasHeld, BufferHasEntry, DueCollected
    <2>3. phaseOfLoop = "closing" /\ phaseOfLoop' = "closed"
      BY <2>1 DEF phaseOfLoop, Ended
    <2>4. UNCHANGED <<InCustody, WithCleaner, acked, dropped, due>>
      BY <2>1 DEF InCustody, WithCleaner
    <2>5. due \subseteq (acked \cup dropped) \cup WithCleaner
      BY <2>1 DEF CustodyInv, DueCollected, Gathered, WithCleaner, DeliveryInv, NoSilentLoss, TypeOK
    <2>6. Promise!Finish
      BY <2>1, <2>3, <2>4, <2>5 DEF Promise!Finish
    <2> QED
      BY <2>2, <2>6 DEF Kept, Promise!Next
  <1>17. ASSUME NEW p \in Payloads, NEW o \in Outcomes, FinishImmediateSend(p, o) PROVE Kept
    BY <1>17 DEF FinishImmediateSend, DeliveryInv, NoImmediateSend
  <1>18. ASSUME NEW p \in Payloads, NEW o \in Outcomes, CleanerSend(p, o) PROVE Kept
    <2>1. /\ UNCHANGED <<loop, registered, filed, due, posts, cleaner>> /\ Running
          /\ where[p] = "cleaner" /\ where'[p] = "gone"
          /\ \A q \in Payloads \ {p} : where'[q] = where[q]
          /\ acked' \in {acked, acked \cup {p}} /\ dropped' \in {dropped, dropped \cup {p}}
      BY <1>18 DEF CleanerSend, Moved, AnsweredForGood, Answered
    <2>2. MovesOn /\ FrameCustody /\ FrameBuffer
      BY <2>1 DEF MovesOn, FrameCustody, FrameBuffer, Outside, Gathered
    <2>3. FrameSent /\ FrameDue /\ FrameAnswered /\ phaseOfLoop' = phaseOfLoop
      BY <2>1 DEF FrameSent, FrameDue, FrameAnswered, phaseOfLoop, Outside
    <2> QED
      BY <1>0, <2>1, <2>2, <2>3, SettleStep
  <1>19. ASSUME NEW chunk \in SUBSET Payloads, NEW o \in Outcomes, ShutdownSend(chunk, o) PROVE Kept
    <2>1. /\ UNCHANGED <<loop, registered, filed, due, posts, cleaner>> /\ loop = "send"
          /\ \A p \in chunk : where[p] = "shutdown" /\ where'[p] = "gone"
          /\ \A p \in Payloads \ chunk : where'[p] = where[p]
          /\ acked' \in {acked, acked \cup chunk} /\ dropped' \in {dropped, dropped \cup chunk}
      BY <1>19 DEF ShutdownSend, Moved, AnsweredForGood, Answered
    <2>2. MovesOn /\ FrameCustody /\ FrameBuffer
      BY <2>1 DEF MovesOn, FrameCustody, FrameBuffer, Outside, Gathered
    <2>3. FrameSent
      BY <2>1 DEF FrameSent, Outside
    <2>4. FrameDue /\ FrameAnswered /\ Running /\ phaseOfLoop' = phaseOfLoop
      BY <2>1 DEF FrameDue, FrameAnswered, Running, Ended, phaseOfLoop
    <2> QED
      BY <1>0, <2>1, <2>2, <2>3, <2>4, SettleStep
  <1>20. CASE CleanerStart
    <2>1. /\ UNCHANGED <<loop, registered, where, filed, acked, dropped, due, posts>>
          /\ \A p \in cleaner'.payloads : where[p] = "batch"
      BY <1>20 DEF CleanerStart, ToBuffers, Cleaner
    <2>2. FrameDue /\ phaseOfLoop' = phaseOfLoop
      BY <2>1 DEF FrameDue, phaseOfLoop
    <2> QED
      BY <2>1, <2>2, KeptQuiet DEF Outside
  <1>21. ASSUME NEW o \in Outcomes, CleanerBatchDone(o) PROVE Kept
    <2>1. /\ UNCHANGED <<loop, registered, filed, due, posts>> /\ Running
          /\ cleaner'.payloads = {}
          /\ \A p \in Payloads : where'[p] = where[p] \/ (where[p] = "batch" /\ where'[p] = "gone")
          /\ acked' \in {acked, acked \cup cleaner.payloads}
          /\ dropped' \in {dropped, dropped \cup cleaner.payloads}
      BY <1>21 DEF CleanerBatchDone, AnsweredForGood, Answered, RemoveEntries, ToBuffers, Cleaner
    <2>2. MovesOn /\ FrameCustody /\ FrameBuffer
      BY <2>1 DEF MovesOn, FrameCustody, FrameBuffer, Outside, Gathered
    <2>3. FrameSent
      BY <2>1 DEF FrameSent, CustodyInv, SentWasHeld
    <2>4. FrameDue /\ FrameAnswered /\ phaseOfLoop' = phaseOfLoop
      BY <2>1 DEF FrameDue, FrameAnswered, phaseOfLoop
    <2> QED
      BY <1>0, <2>1, <2>2, <2>3, <2>4, SettleStep
  <1>22. ASSUME NEW r \in Requests, CleanerTake(r) PROVE Kept
    <2>1. /\ UNCHANGED <<loop, registered, filed, acked, dropped, due, posts>> /\ Running
          /\ cleaner'.payloads = cleaner.payloads
          /\ \A p \in Payloads : where'[p] = where[p] \/ (where[p] = "buffer" /\ where'[p] = "cleaner")
      BY <1>22 DEF CleanerTake, Moved, agent_buffer, At, TypeOK, Cleanups
    <2>2. FrameCustody /\ FrameSent /\ FrameBuffer /\ FrameDue
      BY <2>1 DEF FrameCustody, FrameSent, FrameBuffer, FrameDue, Outside, Gathered
    <2>3. phaseOfLoop # "closed" /\ phaseOfLoop' = phaseOfLoop
      BY <2>1 DEF phaseOfLoop, Running
    <2>4. InCustody' = InCustody /\ WithCleaner' \in SUBSET InCustody /\ WithCleaner \subseteq WithCleaner'
      BY <2>1 DEF InCustody, WithCleaner
    <2>5. Promise!Detach
      BY <2>1, <2>3, <2>4 DEF Promise!Detach
    <2> QED
      BY <2>2, <2>5, CustodyFrame DEF Kept, Promise!Next
  <1>23. CASE CleanerHandles \/ CleanerDone
    <2>1. /\ UNCHANGED <<loop, registered, where, filed, acked, dropped, due, posts>>
          /\ cleaner'.payloads \in {cleaner.payloads, {}}
      BY <1>23 DEF CleanerHandles, CleanerDone, IdleCleaner, Cleaner, TypeOK, Cleanups
    <2>2. FrameDue /\ phaseOfLoop' = phaseOfLoop
      BY <2>1 DEF FrameDue, phaseOfLoop
    <2> QED
      BY <2>1, <2>2, KeptQuiet
  <1>24. CASE CleanerRemove
    <2>1. /\ UNCHANGED <<loop, filed, acked, dropped, due, posts>> /\ Running
          /\ cleaner.phase = "handles" /\ registered' = registered \ {cleaner.current}
          /\ cleaner'.payloads = cleaner.payloads
          /\ where' = Moved(agent_buffer(cleaner.current), "gone")
      BY <1>24 DEF CleanerRemove, TypeOK, Cleanups
    <2>2. agent_buffer(cleaner.current) = {}
      BY <2>1 DEF DeliveryInv, CleanedStaysEmpty
    <2>3. \A p \in Payloads : where'[p] = where[p]
                              /\ ~(where[p] = "buffer" /\ filed[p] = cleaner.current)
      BY <2>1, <2>2 DEF Moved, agent_buffer, At
    <2>4. FrameBuffer
      BY <2>1, <2>3 DEF FrameBuffer, CustodyInv, BufferHasEntry
    <2>5. MovesOn /\ FrameCustody
      BY <2>3 DEF MovesOn, FrameCustody, Outside, Gathered
    <2>6. FrameSent /\ FrameDue /\ FrameAnswered /\ phaseOfLoop' = phaseOfLoop
      BY <2>1 DEF FrameSent, FrameDue, FrameAnswered, phaseOfLoop
    <2> QED
      BY <1>0, <2>1, <2>4, <2>5, <2>6, SettleStep
  <1>25. CASE Terminated
    BY <1>1, <1>25 DEF Terminated
  <1> QED
    BY <1>1, <1>2, <1>3, <1>4, <1>5, <1>6, <1>7, <1>8, <1>9, <1>10, <1>11, <1>12, <1>13, <1>14,
       <1>15, <1>16, <1>17, <1>18, <1>19, <1>20, <1>21, <1>22, <1>23, <1>24, <1>25
    DEF Next, Environment, LoopSteps, TaskSteps, SendSteps, CleanerSteps

LEMMA CustodyInit == Init => CustodyInv /\ Promise!Init
  <1> SUFFICES ASSUME Init PROVE CustodyInv /\ Promise!Init
    OBVIOUS
  <1>1. CustodyInv
    BY DEF Init, CustodyInv, SentWasHeld, BufferHasEntry, DueCollected, IdleCleaner, Cleaner
  <1>2. InCustody = {} /\ WithCleaner = {} /\ phaseOfLoop = "open"
    BY DEF Init, InCustody, WithCleaner, phaseOfLoop, Ended
  <1>3. Promise!Init
    BY <1>2 DEF Init, Promise!Init
  <1> QED
    BY <1>1, <1>3

\* The event loop and all that shares its buffers implement PayloadCustody: a payload taken
\* in is held until it is answered for, and an orderly SHUTDOWN ends with everything it
\* found settled, save what the cleanup, which nobody awaits, has taken.
THEOREM CustodyKept == ASSUME ~SynchronousFlush PROVE Spec => Custody
  <1>1. Init => CustodyInv /\ Promise!Init
    BY CustodyInit
  <1>2. TypeOK /\ TypeOK' /\ ActiveInv /\ DeliveryInv /\ DeliveryInv' /\ CustodyInv /\ [Next]_vars
           => CustodyInv' /\ [Promise!Next]_Promise!vars
    BY CustodyStep DEF Kept
  <1>3. Spec => []DeliveryInv
    BY DeliveryCorrect
  <1> QED
    BY <1>1, <1>2, <1>3, TypeCorrect, ActiveCorrect, PTL DEF Spec, Custody, Promise!Spec
=============================================================================
