-------------------------- MODULE LogPipeline_proofs --------------------------
(***************************************************************************)
(* Proofs about LogPipeline, each part on top of those before: types, with *)
(* the order of the held buckets (TypeInv); the stamps of logs (StampInv); *)
(* who flushes and who retries when (FlushInv, RetryInv); where a log is   *)
(* (PlaceInv); and what SHUTDOWN leaves behind (DrainInv).                 *)
(***************************************************************************)
EXTENDS LogPipeline, Subsequences_proofs, FiniteSetTheorems

-----------------------------------------------------------------------------
(* Chunks, and the queues of failed logs.                                  *)

\* A type of records is a set of logs.
LEMMA KindsAreLogs ==
    /\ \A k \in Kinds : k \subseteq Logs
    /\ \A l \in Logs : \E k \in Kinds : l \in k
    /\ FunctionLogs \in Kinds /\ ExtensionLogs \in Kinds /\ PlatformLogs \in Kinds
  BY DEF Kinds, Logs

\* The fates of a chunk of S, whose logs fare in one of three ways.
LEMMA FatesAre ==
    ASSUME NEW S \in SUBSET Logs, NEW out \in Fates(S)
    PROVE  /\ DOMAIN out \subseteq S /\ DOMAIN out # {}
           /\ With(out, "sent") \subseteq DOMAIN out
           /\ With(out, "refused") \subseteq DOMAIN out
           /\ With(out, "failed") \subseteq DOMAIN out
           /\ DOMAIN out = With(out, "sent") \cup With(out, "refused") \cup With(out, "failed")
  <1>1. PICK chunk \in SUBSET S : out \in [chunk -> {"sent", "refused", "failed"}] /\ chunk # {}
    BY DEF Fates, Results
  <1> QED
    BY <1>1 DEF With

\* The logs of a set in some order are a sequence of logs.
LEMMA OrdersAre ==
    ASSUME NEW S \in SUBSET Logs, NEW s \in Orders(S)
    PROVE  s \in Seq(Logs) /\ ToSet(s) = S
  <1>1. Cardinality(S) \in Nat
    BY LogAssumption, FS_Subset, FS_CardinalityType
  <1>2. s \in [1..Cardinality(S) -> S] /\ ToSet(s) = S
    BY DEF Orders
  <1>3. s \in [1..Cardinality(S) -> Logs]
    BY <1>2
  <1> QED
    BY <1>1, <1>2, <1>3

\* The last part of a sequence.
LEMMA Suffix ==
    ASSUME NEW T, NEW q \in Seq(T), NEW max \in Nat, Len(q) > max
    PROVE  /\ SubSeq(q, Len(q) - max + 1, Len(q)) \in Seq(T)
           /\ ToSet(SubSeq(q, Len(q) - max + 1, Len(q))) \subseteq ToSet(q)
  <1>0. PICK m : m = Len(q) - max
    OBVIOUS
  <1>1. m \in 0..Len(q)
    BY <1>0
  <1>2. PICK front : front = SubSeq(q, 1, m)
    OBVIOUS
  <1>3. PICK back : back = SubSeq(q, m + 1, Len(q))
    OBVIOUS
  <1>4. front \in Seq(T) /\ back \in Seq(T) /\ front \o back = q
    BY <1>1, <1>2, <1>3, SplitAt
  <1>5. ToSet(front \o back) = ToSet(front) \cup ToSet(back)
    BY <1>4, ConcatElements
  <1> QED
    BY <1>0, <1>3, <1>4, <1>5

\* What a push leaves in a queue was there, or is of its type and pushed.
LEMMA PushIs ==
    ASSUME failed \in [Kinds -> Seq(Logs)], NEW s \in Seq(Logs)
    PROVE  /\ FailedBufferPush(s) \in [Kinds -> Seq(Logs)]
           /\ \A k \in Kinds : ToSet(FailedBufferPush(s)[k])
                                 \subseteq ToSet(failed[k]) \cup (ToSet(s) \cap k)
  <1>1. ASSUME NEW k \in Kinds
        PROVE  /\ FailedBufferPush(s)[k] \in Seq(Logs)
               /\ ToSet(FailedBufferPush(s)[k]) \subseteq ToSet(failed[k]) \cup (ToSet(s) \cap k)
    <2>1. PICK q : q = failed[k] \o Filter(s, k)
      OBVIOUS
    <2>2. failed[k] \in Seq(Logs) /\ Filter(s, k) \in Seq(Logs) /\ ToSet(Filter(s, k)) = ToSet(s) \cap k
      BY FilterElements
    <2>3. q \in Seq(Logs) /\ ToSet(q) = ToSet(failed[k]) \cup (ToSet(s) \cap k)
      BY <2>1, <2>2, ConcatElements
    <2>4. FailedBufferPush(s)[k]
            = IF Len(q) > FailedMax THEN SubSeq(q, Len(q) - FailedMax + 1, Len(q)) ELSE q
      BY <2>1 DEF FailedBufferPush
    <2> QED
      BY <2>3, <2>4, Suffix, LimitAssumption
  <1>2. DOMAIN FailedBufferPush(s) = Kinds
    BY DEF FailedBufferPush
  <1>3. FailedBufferPush(s) = [k \in Kinds |-> FailedBufferPush(s)[k]]
    BY DEF FailedBufferPush
  <1> QED
    BY <1>1, <1>3

\* The logs of the queues.
LEMMA FailedLogsAre ==
    ASSUME NEW F \in [Kinds -> Seq(Logs)]
    PROVE  /\ FailedLogs(F) \subseteq Logs
           /\ \A l : l \in FailedLogs(F) <=> \E k \in Kinds : l \in ToSet(F[k])
  <1>1. \A k \in Kinds : ToSet(F[k]) \subseteq Logs
    BY ElementAt
  <1> QED
    BY <1>1 DEF FailedLogs

\* The end of a chunk: what failed goes to the queues, and nothing gets lost unnoticed.
LEMMA SettleIs ==
    ASSUME TypeOK, NEW S \in SUBSET Logs, NEW out \in Fates(S), Settle(out)
    PROVE  /\ failed' \in [Kinds -> Seq(Logs)]
           /\ \A k \in Kinds : ToSet(failed'[k])
                                 \subseteq ToSet(failed[k]) \cup (With(out, "failed") \cap k)
           /\ retryCount' \in [Logs -> 0..MaxRetries]
           /\ sent' \in SUBSET Logs /\ givenUp' \in SUBSET Logs
           /\ sent \subseteq sent' /\ givenUp \subseteq givenUp'
           /\ DOMAIN out \cup FailedLogs(failed) \subseteq FailedLogs(failed') \cup sent' \cup givenUp'
  <1> DEFINE F == With(out, "failed")
  <1>0. /\ failed \in [Kinds -> Seq(Logs)] /\ retryCount \in [Logs -> 0..MaxRetries]
        /\ sent \in SUBSET Logs /\ givenUp \in SUBSET Logs
    BY DEF TypeOK
  <1>1. /\ DOMAIN out \subseteq Logs /\ F \subseteq Logs
        /\ With(out, "sent") \subseteq Logs /\ With(out, "refused") \subseteq Logs
        /\ DOMAIN out = With(out, "sent") \cup With(out, "refused") \cup F
    BY FatesAre
  <1>2. PICK s \in Orders(F) :
          /\ failed' = FailedBufferPush(s)
          /\ retryCount' = [l \in Logs |-> IF l \in ToSet(s) THEN 0 ELSE retryCount[l]]
          /\ sent' = sent \cup With(out, "sent")
          /\ givenUp' = givenUp \cup With(out, "refused")
                        \cup ((FailedLogs(failed) \cup ToSet(s)) \ FailedLogs(failed'))
    BY DEF Settle
  <1>3. s \in Seq(Logs) /\ ToSet(s) = F
    BY <1>1, <1>2, OrdersAre
  <1>4. /\ failed' \in [Kinds -> Seq(Logs)]
        /\ \A k \in Kinds : ToSet(failed'[k]) \subseteq ToSet(failed[k]) \cup (F \cap k)
    BY <1>0, <1>2, <1>3, PushIs
  <1>5. FailedLogs(failed) \subseteq Logs
    BY <1>0, FailedLogsAre
  <1>6. retryCount' \in [Logs -> 0..MaxRetries]
    BY <1>0, <1>2, LimitAssumption
  <1>7. sent' \in SUBSET Logs /\ givenUp' \in SUBSET Logs
    BY <1>0, <1>1, <1>2, <1>3, <1>5
  <1>8. DOMAIN out \cup FailedLogs(failed) \subseteq FailedLogs(failed') \cup sent' \cup givenUp'
    BY <1>1, <1>2, <1>3
  <1> QED
    BY <1>2, <1>4, <1>6, <1>7, <1>8

-----------------------------------------------------------------------------
(* Types.                                                                  *)

\* The order of the held buckets lists them once; nothing is held before the first
\* INVOKE, and no INIT log waits after it.
HoldInv ==
    /\ IsInjective(holdOrder)
    /\ \A r \in Requests : held[r] # {} <=> r \in ToSet(holdOrder)
    /\ context = None => \A r \in Requests : held[r] = {}
    /\ context # None => preInvoke = {}

TypeInv == TypeOK /\ HoldInv

FlushRecords == [stage : {"none", "auto", "sending", "joining"}, auto : SUBSET Logs,
                 logs : SUBSET Logs, retry : RetryIds \cup {None}]

\* Nothing is held, in order.
LEMMA TypeInit == Init => TypeInv
  <1> SUFFICES ASSUME Init PROVE TypeInv
    OBVIOUS
  <1> USE LimitAssumption DEF Init, None
  <1>1. NoFlush \in FlushRecords
    BY DEF NoFlush, Flush, FlushRecords
  <1>2. flush \in [Flushers -> FlushRecords]
    BY <1>1
  <1>3. failed \in [Kinds -> Seq(Logs)] /\ holdOrder \in Seq(Requests) /\ traces \in Seq(Requests)
        /\ waiters \in Seq(Requests)
    OBVIOUS
  <1>4. /\ origin \in [Logs -> 0..Invocations] /\ stamp \in [Logs -> 0..Invocations]
        /\ trace \in [Logs -> 0..Invocations] /\ retryCount \in [Logs -> 0..MaxRetries]
    OBVIOUS
  <1>5. held \in [Requests -> SUBSET Logs] /\ task \in [Requests -> Stages]
    BY DEF Stages
  <1>6. TypeOK
    <2>1. /\ loop \in {"next", "awaiting", "emergency", "lastFlush"} \cup Stopping \cup Ended
          /\ context \in 0..Invocations /\ current \in 0..Invocations /\ pass \in 0..MaxRetries
          /\ retrySlot \in RetryIds \cup {None}
      BY DEF Stopping, Ended
    <2>2. /\ seen \in SUBSET Logs /\ preInvoke \in SUBSET Logs /\ batch \in SUBSET Logs
          /\ auto \in SUBSET [key : SUBSET Logs, left : SUBSET Logs] /\ handle \in SUBSET Logs
          /\ retries \in SUBSET [id : RetryIds, left : SUBSET Logs]
          /\ woken \in SUBSET Requests /\ lastSend \in SUBSET Logs
          /\ sent \in SUBSET Logs /\ givenUp \in SUBSET Logs /\ due \in SUBSET Logs
      OBVIOUS
    <2>3. fallback \in BOOLEAN /\ permit \in BOOLEAN
      BY Zenon
    <2> QED
      BY <1>2, <1>3, <1>4, <1>5, <2>1, <2>2, <2>3, Zenon DEF TypeOK, FlushRecords
  <1>7. IsInjective(holdOrder) /\ ToSet(holdOrder) = {}
    BY DEF IsInjective, ToSet
  <1> QED
    BY <1>6, <1>7 DEF TypeInv, HoldInv

\* What flush() does to the batch and the handle when it gets to them: the batch is kept, or
\* taken whole; the handle is cleared.
Taken(w, b) ==
    \/ /\ w.logs = {} /\ batch' = b
       /\ \/ w.stage = "auto"
          \/ w.stage = "joining" /\ (b = {} \/ ~ArnKnown)
    \/ w.stage = "sending" /\ w.logs = b /\ batch' = {}

\* What a flush becomes.
LEMMA NewFlush ==
    ASSUME TypeOK, NEW f \in Flushers, NEW w \in FlushRecords, flush' = [flush EXCEPT ![f] = w]
    PROVE  /\ flush' \in [Flushers -> FlushRecords]
           /\ flush'[f] = w /\ \A g \in Flushers \ {f} : flush'[g] = flush[g]
  BY DEF TypeOK, FlushRecords

\* See Taken: the flush f awaits the retry task in the slot, and has the batch b or not.
FlushBegun(f, b, h, slot) ==
    /\ flush' = [flush EXCEPT ![f] = flush'[f]]
    /\ flush' \in [Flushers -> FlushRecords]
    /\ flush'[f].retry = slot /\ Taken(flush'[f], b)
    /\ flush'[f].stage = "auto" => flush'[f].auto = h

\* See FlushBegun.
LEMMA FlushBegunIs ==
    ASSUME TypeOK, NEW f \in Flushers, NEW b, NEW h, NEW slot,
           NEW w \in FlushRecords, flush' = [flush EXCEPT ![f] = w],
           w.retry = slot, Taken(w, b), w.stage = "auto" => w.auto = h
    PROVE  FlushBegun(f, b, h, slot)
  <1>1. flush' \in [Flushers -> FlushRecords] /\ flush'[f] = w
    BY NewFlush
  <1> QED
    BY <1>1, Zenon DEF FlushBegun

\* The fields of a flush.
LEMMA FlushIs ==
    ASSUME NEW stage \in {"auto", "sending", "joining"}, NEW key \in SUBSET Logs,
           NEW logs \in SUBSET Logs, NEW slot \in RetryIds \cup {None}
    PROVE  /\ Flush(stage, key, logs, slot) \in FlushRecords
           /\ Flush(stage, key, logs, slot).stage = stage /\ Flush(stage, key, logs, slot).auto = key
           /\ Flush(stage, key, logs, slot).logs = logs /\ Flush(stage, key, logs, slot).retry = slot
  BY DEF Flush, FlushRecords

\* See FlushBegun.
LEMMA DrainIs ==
    ASSUME TypeOK, NEW f \in Flushers, NEW b \in SUBSET Logs, NEW a, NEW h \in SUBSET Logs,
           NEW slot \in RetryIds \cup {None}, DrainHandles(f, b, a, h, slot)
    PROVE  FlushBegun(f, b, h, slot) /\ handle' = {}
  <1>1. handle' = {}
    BY DEF DrainHandles
  <1>2. CASE Runs(a, h)
    <2>1. PICK w : w = Flush("auto", h, {}, slot)
      OBVIOUS
    <2>2. flush' = [flush EXCEPT ![f] = w] /\ batch' = b
      BY <1>2, <2>1 DEF DrainHandles
    <2>3. w \in FlushRecords /\ w.stage = "auto" /\ w.auto = h /\ w.logs = {} /\ w.retry = slot
      BY <2>1, FlushIs
    <2>4. Taken(w, b)
      BY <2>2, <2>3 DEF Taken
    <2> QED
      BY <1>1, <2>2, <2>3, <2>4, FlushBegunIs
  <1>3. CASE ~Runs(a, h) /\ (b = {} \/ ~ArnKnown)
    <2>1. PICK w : w = Flush("joining", {}, {}, slot)
      OBVIOUS
    <2>2. flush' = [flush EXCEPT ![f] = w] /\ batch' = b
      BY <1>3, <2>1 DEF DrainHandles, TakeBatch
    <2>3. w \in FlushRecords /\ w.stage = "joining" /\ w.logs = {} /\ w.retry = slot
      BY <2>1, FlushIs
    <2>4. Taken(w, b)
      BY <1>3, <2>2, <2>3 DEF Taken
    <2> QED
      BY <1>1, <2>2, <2>3, <2>4, FlushBegunIs
  <1>4. CASE ~Runs(a, h) /\ ~(b = {} \/ ~ArnKnown)
    <2>1. PICK w : w = Flush("sending", {}, b, slot)
      OBVIOUS
    <2>2. flush' = [flush EXCEPT ![f] = w] /\ batch' = {}
      BY <1>4, <2>1 DEF DrainHandles, TakeBatch
    <2>3. w \in FlushRecords /\ w.stage = "sending" /\ w.logs = b /\ w.retry = slot
      BY <2>1, FlushIs
    <2>4. Taken(w, b)
      BY <2>2, <2>3 DEF Taken
    <2> QED
      BY <1>1, <2>2, <2>3, <2>4, FlushBegunIs
  <1> QED
    BY <1>2, <1>3, <1>4

\* flush() begins: it takes the retry task in the slot to await it.
LEMMA FlushBeginIs ==
    ASSUME TypeOK, NEW f \in Flushers, NEW b \in SUBSET Logs, NEW a, NEW h \in SUBSET Logs,
           NEW slot \in RetryIds \cup {None}, FlushBegin(f, b, a, h, slot)
    PROVE  /\ FlushBegun(f, b, h, slot)
           /\ retrySlot' = None
           /\ handle' = {} \/ (handle' = h /\ ~Runs(a, h))
  <1>1. CASE slot = None /\ b = {} /\ ~Runs(a, h)
    <2>1. PICK w : w = Flush("joining", {}, {}, slot)
      OBVIOUS
    <2>2. /\ flush' = [flush EXCEPT ![f] = w]
          /\ batch' = b /\ handle' = h /\ retrySlot' = None
      BY <1>1, <2>1 DEF FlushBegin
    <2>3. w \in FlushRecords /\ w.stage = "joining" /\ w.logs = {} /\ w.retry = slot
      BY <2>1, FlushIs
    <2>4. Taken(w, b)
      BY <1>1, <2>2, <2>3 DEF Taken
    <2>5. FlushBegun(f, b, h, slot)
      BY <2>2, <2>3, <2>4, FlushBegunIs
    <2> QED
      BY <1>1, <2>2, <2>5, Zenon
  <1>2. CASE ~(slot = None /\ b = {} /\ ~Runs(a, h))
    <2>1. retrySlot' = None /\ DrainHandles(f, b, a, h, slot)
      BY <1>2 DEF FlushBegin
    <2>2. FlushBegun(f, b, h, slot) /\ handle' = {}
      BY <2>1, DrainIs
    <2> QED
      BY <2>1, <2>2, Zenon
  <1> QED
    BY <1>1, <1>2

-----------------------------------------------------------------------------
(* Types: the records that come in.                                        *)

\* The request a log is stamped with is one.
LEMMA EffectiveIs ==
    ASSUME TypeOK
    PROVE  /\ effective_request_id \in 0..Invocations
           /\ context # None => effective_request_id \in Requests
  BY LimitAssumption DEF TypeOK, effective_request_id, None, Requests

\* See try_spawn_auto_flush: the logs are in the batch, or taken by a task.
LEMMA SpawnIs ==
    ASSUME TypeOK, NEW b \in SUBSET Logs, try_spawn_auto_flush(b)
    PROVE  /\ batch' \in SUBSET Logs /\ handle' \in SUBSET Logs
           /\ auto' \in SUBSET [key : SUBSET Logs, left : SUBSET Logs]
           /\ \/ batch' = b /\ auto' = auto /\ handle' = handle
              \/ /\ batch' = {} /\ handle' = b
                 /\ auto' = auto \cup {[key |-> b, left |-> b]}
  BY DEF TypeOK, try_spawn_auto_flush, autoVars

\* The bucket of q goes, with l when it joined that one, and no other.
Evicts(after, r, l, q) ==
    /\ after.evicted = held[q] \cup (IF q = r THEN {l} ELSE {})
    /\ after.held[q] = {}
    /\ \A p \in Requests \ {q} : after.held[p] = held[p] \cup (IF p = r THEN {l} ELSE {})

\* A log is held: its bucket is in the order; if the buffer overflows, the oldest bucket
\* leaves both.
LEMMA HoldIs ==
    ASSUME TypeOK, HoldInv, NEW r \in Requests, NEW l \in Logs, NEW after, after = Hold(r, l)
    PROVE  /\ after.held \in [Requests -> SUBSET Logs] /\ after.evicted \in SUBSET Logs
           /\ after.order \in Seq(Requests) /\ IsInjective(after.order)
           /\ \A q \in Requests : after.held[q] # {} <=> q \in ToSet(after.order)
           /\ \A q \in Requests : after.held[q] \in {held[q] \cup (IF q = r THEN {l} ELSE {}), {}}
           /\ after.evicted = {} => \A q \in Requests :
                                       after.held[q] = held[q] \cup (IF q = r THEN {l} ELSE {})
           /\ after.evicted # {} => \E q \in Requests : Evicts(after, r, l, q)
  <1>1. PICK h : h = [held EXCEPT ![r] = @ \cup {l}]
    OBVIOUS
  <1>2. PICK order : order = IF held[r] = {} THEN Append(holdOrder, r) ELSE holdOrder
    OBVIOUS
  <1>3. /\ h \in [Requests -> SUBSET Logs]
        /\ \A q \in Requests : h[q] = held[q] \cup (IF q = r THEN {l} ELSE {})
    BY <1>1 DEF TypeOK
  <1>4. holdOrder \in Seq(Requests) /\ IsInjective(holdOrder)
    BY DEF TypeOK, HoldInv
  <1>5. /\ order \in Seq(Requests) /\ IsInjective(order)
        /\ \A q \in Requests : h[q] # {} <=> q \in ToSet(order)
    <2>1. CASE held[r] = {}
      <3>1. order = Append(holdOrder, r) /\ r \notin ToSet(holdOrder)
        BY <1>2, <2>1 DEF HoldInv
      <3>2. order \in Seq(Requests) /\ IsInjective(order)
        BY <1>4, <3>1, AppendNew
      <3>3. ToSet(order) = ToSet(holdOrder) \cup {r}
        BY <1>4, <3>1, AppendElements
      <3> QED
        BY <1>3, <3>2, <3>3 DEF HoldInv
    <2>2. CASE held[r] # {}
      BY <1>2, <1>3, <1>4, <2>2 DEF HoldInv
    <2> QED
      BY <2>1, <2>2
  <1>6. CASE Cardinality(HeldLogs(h)) > HoldMax
    <2>1. order # <<>>
      <3>1. r \in ToSet(order)
        BY <1>3, <1>5
      <3> QED
        BY <3>1 DEF ToSet
    <2>2. PICK q : q = Head(order)
      OBVIOUS
    <2>3. PICK rest : rest = Tail(order)
      OBVIOUS
    <2>4. /\ rest \in Seq(Requests) /\ IsInjective(rest) /\ q \notin ToSet(rest)
          /\ ToSet(order) = {q} \cup ToSet(rest)
      BY <1>5, <2>1, <2>2, <2>3, TailDistinct, HeadTailElements
    <2>5. q \in Requests
      BY <1>5, <2>1, <2>2
    <2>6. /\ after.held = [h EXCEPT ![q] = {}] /\ after.order = rest /\ after.evicted = h[q]
      BY <1>1, <1>2, <1>6, <2>2, <2>3 DEF Hold
    <2>7. \A p \in Requests : after.held[p] = IF p = q THEN {} ELSE h[p]
      BY <1>3, <2>6
    <2>8. h[q] # {}
      BY <1>5, <2>4, <2>5
    <2>9. \A p \in Requests : after.held[p] # {} <=> p \in ToSet(rest)
      BY <1>5, <2>4, <2>7
    <2>10. after.held \in [Requests -> SUBSET Logs] /\ after.evicted \in SUBSET Logs
      BY <1>3, <2>5, <2>6
    <2>11. Evicts(after, r, l, q)
      BY <1>3, <2>5, <2>6, <2>7 DEF Evicts
    <2> QED
      BY <1>3, <2>4, <2>5, <2>6, <2>7, <2>8, <2>9, <2>10, <2>11
  <1>7. CASE ~(Cardinality(HeldLogs(h)) > HoldMax)
    <2>1. after.held = h /\ after.order = order /\ after.evicted = {}
      BY <1>1, <1>2, <1>7 DEF Hold
    <2> QED
      BY <1>3, <1>5, <2>1
  <1> QED
    BY <1>6, <1>7

\* A record is stamped with a request and its trace.
LEMMA StampIs ==
    ASSUME TypeOK, NEW l \in Logs, Stamp(l)
    PROVE  /\ stamp' \in [Logs -> 0..Invocations] /\ trace' \in [Logs -> 0..Invocations]
           /\ stamp'[l] = effective_request_id /\ trace'[l] \in {trace[l], effective_request_id}
           /\ trace'[l] = trace[l] \/ effective_request_id \in ToSet(traces)
           /\ \A m \in Logs \ {l} : stamp'[m] = stamp[m] /\ trace'[m] = trace[m]
  BY EffectiveIs DEF TypeOK, Stamp

\* The types after a record is delivered.
LEMMA DeliverTypes ==
    ASSUME TypeInv, NEW l \in Logs,
           process_record(l) \/ DiscardRecord(l) \/ add_log_to_batch(l)
    PROVE  TypeInv'
  <1> USE DEF TypeInv
  <1>1. Deliver(l)
    BY DEF process_record, DiscardRecord, add_log_to_batch
  <1>2. seen' \in SUBSET Logs /\ origin' \in [Logs -> 0..Invocations]
    BY <1>1 DEF Deliver, TypeOK
  <1>3. ASSUME /\ preInvoke' \in SUBSET Logs /\ batch' \in SUBSET Logs
               /\ held' \in [Requests -> SUBSET Logs] /\ holdOrder' \in Seq(Requests)
               /\ traces' = traces
               /\ auto' \in SUBSET [key : SUBSET Logs, left : SUBSET Logs]
               /\ handle' \in SUBSET Logs
               /\ stamp' \in [Logs -> 0..Invocations] /\ trace' \in [Logs -> 0..Invocations]
               /\ givenUp' \in SUBSET Logs
        PROVE  TypeOK'
    BY <1>1, <1>2, <1>3 DEF TypeOK, Deliver, retryVars, drainVars, shutVars
  <1>4. context' = context
    BY <1>1 DEF Deliver
  <1>5. CASE DiscardRecord(l)
    <2>1. TypeOK'
      BY <1>3, <1>5 DEF DiscardRecord, TypeOK, holdVars, autoVars
    <2> QED
      BY <1>4, <1>5, <2>1 DEF DiscardRecord, HoldInv, holdVars
  <1>6. CASE add_log_to_batch(l)
    <2>1. stamp' \in [Logs -> 0..Invocations] /\ trace' \in [Logs -> 0..Invocations]
      BY <1>6, StampIs DEF add_log_to_batch
    <2>2. TypeOK'
      BY <1>3, <1>6, <2>1 DEF add_log_to_batch, TypeOK, holdVars, autoVars
    <2> QED
      BY <1>4, <1>6, <2>2 DEF add_log_to_batch, HoldInv, holdVars
  <1>7. CASE process_record(l)
    <2>0. givenUp' = givenUp
      BY <1>7 DEF process_record
    <2>1. CASE context = None /\ preInvoke' = preInvoke \cup {l}
               /\ UNCHANGED <<holdVars, batch, autoVars, stamp, trace>>
      <3>1. TypeOK'
        BY <1>3, <2>0, <2>1 DEF TypeOK, holdVars, autoVars
      <3> QED
        BY <1>4, <2>1, <3>1 DEF HoldInv, holdVars
    <2>2. CASE /\ context # None
               /\ ~CollectTraceId \/ effective_request_id \in ToSet(traces)
               /\ Stamp(l)
               /\ try_spawn_auto_flush(batch \cup {l})
               /\ UNCHANGED <<preInvoke, holdVars>>
      <3>1. batch \cup {l} \in SUBSET Logs
        BY DEF TypeOK
      <3>2. TypeOK'
        BY <1>3, <2>0, <2>2, <3>1, StampIs, SpawnIs DEF TypeOK, holdVars
      <3> QED
        BY <1>4, <2>2, <3>2 DEF HoldInv, holdVars
    <2>3. CASE /\ context # None /\ Stamp(l)
               /\ LET after == Hold(effective_request_id, l)
                  IN  /\ held' = after.held
                      /\ holdOrder' = after.order
                      /\ IF after.evicted = {}
                         THEN UNCHANGED <<batch, autoVars>>
                         ELSE try_spawn_auto_flush(batch \cup after.evicted)
               /\ UNCHANGED <<preInvoke, traces>>
      <3>1. PICK after : after = Hold(effective_request_id, l)
        OBVIOUS
      <3>2. effective_request_id \in Requests
        BY <2>3, EffectiveIs
      <3>3. /\ after.held \in [Requests -> SUBSET Logs] /\ after.evicted \in SUBSET Logs
            /\ after.order \in Seq(Requests) /\ IsInjective(after.order)
            /\ \A q \in Requests : after.held[q] # {} <=> q \in ToSet(after.order)
        BY <3>1, <3>2, HoldIs
      <3>4. held' = after.held /\ holdOrder' = after.order /\ preInvoke' = preInvoke /\ traces' = traces
        BY <2>3, <3>1
      <3>5. /\ batch' \in SUBSET Logs /\ handle' \in SUBSET Logs
            /\ auto' \in SUBSET [key : SUBSET Logs, left : SUBSET Logs]
        <4>1. CASE after.evicted = {}
          BY <2>3, <3>1, <4>1 DEF TypeOK, autoVars
        <4>2. CASE after.evicted # {}
          <5>1. batch \cup after.evicted \in SUBSET Logs
            BY <3>3 DEF TypeOK
          <5> QED
            BY <2>3, <3>1, <4>2, <5>1, SpawnIs
        <4> QED
          BY <4>1, <4>2
      <3>6. preInvoke \in SUBSET Logs /\ givenUp \in SUBSET Logs
        BY DEF TypeOK
      <3>7. TypeOK'
        BY <1>3, <2>0, <2>3, <3>3, <3>4, <3>5, <3>6, StampIs
      <3> QED
        BY <1>4, <2>3, <3>3, <3>4, <3>7 DEF HoldInv
    <2> QED
      BY <1>7, <2>1, <2>2, <2>3 DEF process_record
  <1> QED
    BY <1>5, <1>6, <1>7

-----------------------------------------------------------------------------
(* Types: the sends.                                                       *)

\* HoldInv is about these.
LEMMA HoldSame ==
    ASSUME HoldInv, UNCHANGED <<held, holdOrder, context, preInvoke>>
    PROVE  HoldInv'
  BY DEF HoldInv

\* A notification reaches the first waiter, or is stored.
LEMMA NotifyTypes ==
    ASSUME TypeOK, NEW b, NEW a, NEW h, notify_if_drained(b, a, h)
    PROVE  permit' \in BOOLEAN /\ waiters' \in Seq(Requests) /\ woken' \in SUBSET Requests
  <1>1. waiters \in Seq(Requests) /\ woken \in SUBSET Requests
    BY DEF TypeOK
  <1>2. permit' = permit \/ permit' = TRUE
    BY Zenon DEF notify_if_drained, drainVars
  <1>3. permit \in BOOLEAN
    BY Zenon DEF TypeOK
  <1>4. permit' \in BOOLEAN
    BY <1>2, <1>3, Zenon
  <1>5. CASE UNCHANGED <<waiters, woken>>
    BY <1>1, <1>4, <1>5
  <1>6. CASE /\ waiters # <<>> /\ woken' = woken \cup {Head(waiters)} /\ waiters' = Tail(waiters)
    <2>1. Head(waiters) \in Requests /\ Tail(waiters) \in Seq(Requests)
      BY <1>1, <1>6
    <2> QED
      BY <1>1, <1>4, <1>6, <2>1
  <1> QED
    BY <1>5, <1>6, Zenon DEF notify_if_drained, drainVars

\* A task's logs are logs.
LEMMA TasksAre ==
    ASSUME TypeOK
    PROVE  /\ \A t \in auto : t.key \in SUBSET Logs /\ t.left \in SUBSET Logs
           /\ \A t \in retries : t.id \in RetryIds /\ t.left \in SUBSET Logs
           /\ \A f \in Flushers : flush[f] \in FlushRecords /\ flush[f].logs \in SUBSET Logs
                                  /\ flush[f].auto \in SUBSET Logs
                                  /\ flush[f].retry \in RetryIds \cup {None}
           /\ retrySlot \in RetryIds \cup {None}
           /\ batch \in SUBSET Logs /\ handle \in SUBSET Logs /\ preInvoke \in SUBSET Logs
  BY DEF TypeOK, FlushRecords

\* A part of a set of tasks in which one has less left.
LEMMA LessLeft ==
    /\ \A t \in [key : SUBSET Logs, left : SUBSET Logs], s \in SUBSET Logs :
          /\ [t EXCEPT !.left = s] \in [key : SUBSET Logs, left : SUBSET Logs]
          /\ [t EXCEPT !.left = s].left = s /\ [t EXCEPT !.left = s].key = t.key
    /\ \A t \in [id : RetryIds, left : SUBSET Logs], s \in SUBSET Logs :
          /\ [t EXCEPT !.left = s] \in [id : RetryIds, left : SUBSET Logs]
          /\ [t EXCEPT !.left = s].left = s /\ [t EXCEPT !.left = s].id = t.id
    /\ \A w \in FlushRecords, s \in SUBSET Logs :
          /\ [w EXCEPT !.logs = s] \in FlushRecords
          /\ [w EXCEPT !.logs = s].logs = s /\ [w EXCEPT !.logs = s].stage = w.stage
          /\ [w EXCEPT !.logs = s].retry = w.retry /\ [w EXCEPT !.logs = s].auto = w.auto
  BY DEF FlushRecords

\* The types after a chunk of an auto-flush.
LEMMA AutoChunkTypes ==
    ASSUME TypeInv, NEW t \in auto, NEW out \in Fates(t.left), AutoFlushChunk(t, out)
    PROVE  TypeInv'
  <1> USE DEF TypeInv
  <1>1. t \in [key : SUBSET Logs, left : SUBSET Logs] /\ t.left \in SUBSET Logs
    BY DEF TypeOK
  <1>2. /\ failed' \in [Kinds -> Seq(Logs)] /\ retryCount' \in [Logs -> 0..MaxRetries]
        /\ sent' \in SUBSET Logs /\ givenUp' \in SUBSET Logs
    BY <1>1, SettleIs DEF AutoFlushChunk
  <1>3. PICK left : left = t.left \ DOMAIN out
    OBVIOUS
  <1>4. left \in SUBSET Logs
    BY <1>1, <1>3
  <1>5. \/ /\ auto' = (auto \ {t}) \cup {[t EXCEPT !.left = left]}
           /\ UNCHANGED drainVars
        \/ /\ auto' = auto \ {t}
           /\ notify_if_drained(batch, auto, handle)
    BY <1>3, Zenon DEF AutoFlushChunk
  <1>6. auto' \in SUBSET [key : SUBSET Logs, left : SUBSET Logs]
    BY <1>1, <1>4, <1>5, LessLeft DEF TypeOK
  <1>7. permit' \in BOOLEAN /\ waiters' \in Seq(Requests) /\ woken' \in SUBSET Requests
    <2>1. permit \in BOOLEAN /\ waiters \in Seq(Requests) /\ woken \in SUBSET Requests
      BY Zenon DEF TypeOK
    <2> QED
      BY <1>5, <2>1, NotifyTypes, Zenon DEF drainVars
  <1>8. UNCHANGED <<loop, task, fallback, streamVars, preInvoke, holdVars, batch, handle,
                    retryVars, flush, shutVars, stampVars>>
    BY DEF AutoFlushChunk
  <1>9. TypeOK'
    BY <1>2, <1>6, <1>7, <1>8
    DEF TypeOK, streamVars, holdVars, retryVars, shutVars, stampVars
  <1> QED
    BY <1>8, <1>9, HoldSame DEF streamVars, holdVars

\* A retry of failed logs: some are given up, and a task has the others.
LEMMA RetryIs ==
    ASSUME TypeOK, NEW id \in RetryIds, start_invocation_retry(id)
    PROVE  /\ failed' \in [Kinds -> Seq(Logs)] /\ \A k \in Kinds : ToSet(failed'[k]) = {}
           /\ retryCount' \in [Logs -> 0..MaxRetries] /\ givenUp' \in SUBSET Logs
           /\ retries' \in SUBSET [id : RetryIds, left : SUBSET Logs]
           /\ SlotAfterRetry(id) \in RetryIds \cup {None}
           /\ \E again \in SUBSET FailedLogs(failed) :
                 /\ givenUp' = givenUp \cup (FailedLogs(failed) \ again)
                 /\ retries' = IF again = {} THEN retries
                               ELSE retries \cup {[id |-> id, left |-> again]}
                 /\ SlotAfterRetry(id) = IF again = {} THEN retrySlot ELSE id
  <1>1. PICK again : again = {l \in FailedLogs(failed) : MayRetry(l)}
    OBVIOUS
  <1>2. /\ failed' = [k \in Kinds |-> <<>>]
        /\ retryCount' = [l \in Logs |-> IF l \in again THEN retryCount[l] + 1 ELSE retryCount[l]]
        /\ givenUp' = givenUp \cup (FailedLogs(failed) \ again)
        /\ retries' = IF again = {} THEN retries
                      ELSE retries \cup {[id |-> id, left |-> again]}
    BY <1>1 DEF start_invocation_retry
  <1>3. again \subseteq FailedLogs(failed) /\ FailedLogs(failed) \subseteq Logs
    BY <1>1, FailedLogsAre DEF TypeOK
  <1>4. failed' \in [Kinds -> Seq(Logs)] /\ \A k \in Kinds : ToSet(failed'[k]) = {}
    <2>1. <<>> \in Seq(Logs) /\ ToSet(<<>>) = {}
      BY DEF ToSet
    <2> QED
      BY <1>2, <2>1
  <1>5. retryCount' \in [Logs -> 0..MaxRetries]
    <2>1. \A l \in again : retryCount[l] + 1 \in 0..MaxRetries
      BY <1>1, <1>3, LimitAssumption DEF TypeOK, MayRetry
    <2> QED
      BY <1>2, <2>1 DEF TypeOK
  <1>6. retries' \in SUBSET [id : RetryIds, left : SUBSET Logs]
    BY <1>2, <1>3 DEF TypeOK
  <1>7. SlotAfterRetry(id) = IF again = {} THEN retrySlot ELSE id
    BY <1>1 DEF SlotAfterRetry
  <1>8. givenUp' \in SUBSET Logs
    BY <1>2, <1>3 DEF TypeOK
  <1>9. SlotAfterRetry(id) \in RetryIds \cup {None}
    BY <1>7 DEF TypeOK
  <1>10. \E S \in SUBSET FailedLogs(failed) :
            /\ givenUp' = givenUp \cup (FailedLogs(failed) \ S)
            /\ retries' = IF S = {} THEN retries ELSE retries \cup {[id |-> id, left |-> S]}
            /\ SlotAfterRetry(id) = IF S = {} THEN retrySlot ELSE id
    BY <1>2, <1>3, <1>7, Zenon
  <1> QED
    BY <1>4, <1>5, <1>6, <1>8, <1>9, <1>10

\* A chunk of a retry is settled: it is sent and refused, or it goes back as a whole.
LEMMA RetryChunkIs ==
    ASSUME TypeOK, NEW t \in retries, NEW out \in Fates(t.left), RetryChunk(t, out)
    PROVE  /\ failed' \in [Kinds -> Seq(Logs)]
           /\ \A k \in Kinds : ToSet(failed'[k]) \subseteq ToSet(failed[k]) \cup (DOMAIN out \cap k)
           /\ sent' \in SUBSET Logs /\ givenUp' \in SUBSET Logs
           /\ sent \subseteq sent' /\ givenUp \subseteq givenUp'
           /\ DOMAIN out \cup FailedLogs(failed) \subseteq FailedLogs(failed') \cup sent' \cup givenUp'
  <1>0. /\ failed \in [Kinds -> Seq(Logs)] /\ t.left \in SUBSET Logs
        /\ sent \in SUBSET Logs /\ givenUp \in SUBSET Logs
    BY DEF TypeOK
  <1>1. /\ DOMAIN out \in SUBSET Logs
        /\ With(out, "sent") \subseteq Logs /\ With(out, "refused") \subseteq Logs
        /\ DOMAIN out = With(out, "sent") \cup With(out, "refused") \cup With(out, "failed")
    BY <1>0, FatesAre
  <1>2. sent' = sent \cup With(out, "sent")
    BY DEF RetryChunk
  <1>3. FailedLogs(failed) \subseteq Logs
    BY <1>0, FailedLogsAre
  <1>4. CASE With(out, "failed") = {} /\ givenUp' = givenUp \cup With(out, "refused")
             /\ UNCHANGED failed
    BY <1>0, <1>1, <1>2, <1>4
  <1>5. CASE /\ \E s \in Orders(DOMAIN out) : failed' = FailedBufferPush(s)
             /\ givenUp' = givenUp \cup ((FailedLogs(failed) \cup DOMAIN out) \ FailedLogs(failed'))
    <2>1. PICK s \in Orders(DOMAIN out) : failed' = FailedBufferPush(s)
      BY <1>5
    <2>2. s \in Seq(Logs) /\ ToSet(s) = DOMAIN out
      BY <1>1, <2>1, OrdersAre
    <2>3. /\ failed' \in [Kinds -> Seq(Logs)]
          /\ \A k \in Kinds : ToSet(failed'[k]) \subseteq ToSet(failed[k]) \cup (DOMAIN out \cap k)
      BY <1>0, <2>1, <2>2, PushIs
    <2> QED
      BY <1>0, <1>1, <1>2, <1>3, <1>5, <2>3
  <1> QED
    BY <1>4, <1>5 DEF RetryChunk

\* The types after a chunk of a retry.
LEMMA RetryChunkTypes ==
    ASSUME TypeInv, NEW t \in retries, NEW out \in Fates(t.left), RetryChunk(t, out)
    PROVE  TypeInv'
  <1> USE DEF TypeInv
  <1>1. /\ failed' \in [Kinds -> Seq(Logs)]
        /\ sent' \in SUBSET Logs /\ givenUp' \in SUBSET Logs
    BY RetryChunkIs
  <1>2. PICK left : left = t.left \ DOMAIN out
    OBVIOUS
  <1>3. t \in [id : RetryIds, left : SUBSET Logs] /\ left \in SUBSET Logs
    BY <1>2 DEF TypeOK
  <1>4. retries' = (retries \ {t}) \cup (IF left = {} THEN {} ELSE {[t EXCEPT !.left = left]})
    BY <1>2 DEF RetryChunk
  <1>5. retries' \in SUBSET [id : RetryIds, left : SUBSET Logs]
    <2>1. PICK u : u = [t EXCEPT !.left = left]
      OBVIOUS
    <2>2. u \in [id : RetryIds, left : SUBSET Logs]
      BY <1>3, <2>1, LessLeft
    <2>3. retries' \subseteq retries \cup {u}
      BY <1>4, <2>1
    <2> QED
      BY <2>2, <2>3 DEF TypeOK
  <1>6. UNCHANGED <<loop, task, fallback, streamVars, preInvoke, holdVars, batch, autoVars,
                    retryCount, retrySlot, flush, drainVars, shutVars, stampVars>>
    BY DEF RetryChunk
  <1>7. TypeOK'
    BY <1>1, <1>5, <1>6
    DEF TypeOK, streamVars, holdVars, autoVars, drainVars, shutVars, stampVars
  <1> QED
    BY <1>6, <1>7, HoldSame DEF streamVars, holdVars

-----------------------------------------------------------------------------
(* Types: the flushes, and the rest of the steps.                          *)

\* The types after a step of a flush.
LEMMA FlushTypes ==
    ASSUME TypeInv, NEW f \in Flushers,
           FlushAutoDone(f) \/ \E out \in Fates(flush[f].logs) : FlushChunk(f, out)
    PROVE  TypeInv'
  <1> USE DEF TypeInv
  <1>1. CASE FlushAutoDone(f)
    <2>1. /\ DrainHandles(f, batch, auto, handle, flush[f].retry)
          /\ UNCHANGED <<loop, task, fallback, streamVars, preInvoke, holdVars, auto, failed,
                         retryCount, retryVars, drainVars, shutVars, stampVars, sent, givenUp>>
      BY <1>1 DEF FlushAutoDone
    <2>2. /\ batch \in SUBSET Logs /\ handle \in SUBSET Logs
          /\ flush[f].retry \in RetryIds \cup {None}
      BY TasksAre
    <2>3. FlushBegun(f, batch, handle, flush[f].retry) /\ handle' = {}
      BY <2>1, <2>2, DrainIs
    <2>4. /\ flush' \in [Flushers -> FlushRecords]
          /\ batch' \in SUBSET Logs /\ handle' \in SUBSET Logs
      BY <2>2, <2>3 DEF FlushBegun, Taken
    <2>5. TypeOK'
      BY <2>1, <2>4
      DEF TypeOK, FlushRecords, streamVars, holdVars, retryVars, drainVars, shutVars, stampVars
    <2> QED
      BY <2>1, <2>5, HoldSame DEF streamVars, holdVars
  <1>2. ASSUME NEW out \in Fates(flush[f].logs), FlushChunk(f, out)
        PROVE  TypeInv'
    <2>1. flush[f].logs \in SUBSET Logs
      BY TasksAre
    <2>2. /\ failed' \in [Kinds -> Seq(Logs)] /\ retryCount' \in [Logs -> 0..MaxRetries]
          /\ sent' \in SUBSET Logs /\ givenUp' \in SUBSET Logs
      BY <1>2, <2>1, SettleIs DEF FlushChunk
    <2>3. PICK left : left = flush[f].logs \ DOMAIN out
      OBVIOUS
    <2>4. \/ flush' = [flush EXCEPT ![f].logs = left] /\ UNCHANGED drainVars
          \/ /\ flush' = [flush EXCEPT ![f] = Flush("joining", {}, {}, @.retry)]
             /\ notify_if_drained(batch, auto, handle)
      BY <1>2, <2>3, Zenon DEF FlushChunk
    <2>5. flush' \in [Flushers -> FlushRecords]
      <3>1. left \in SUBSET Logs
        BY <2>1, <2>3
      <3>2. [flush[f] EXCEPT !.logs = left] \in FlushRecords
        BY <3>1, TasksAre, LessLeft
      <3>3. Flush("joining", {}, {}, flush[f].retry) \in FlushRecords
        BY TasksAre DEF Flush, FlushRecords
      <3>4. \/ flush' = [flush EXCEPT ![f] = [flush[f] EXCEPT !.logs = left]]
            \/ flush' = [flush EXCEPT ![f] = Flush("joining", {}, {}, flush[f].retry)]
        BY <2>4
      <3> QED
        BY <3>2, <3>3, <3>4, NewFlush
    <2>6. permit' \in BOOLEAN /\ waiters' \in Seq(Requests) /\ woken' \in SUBSET Requests
      <3>1. permit \in BOOLEAN /\ waiters \in Seq(Requests) /\ woken \in SUBSET Requests
        BY Zenon DEF TypeOK
      <3> QED
        BY <2>4, <3>1, NotifyTypes, Zenon DEF drainVars
    <2>7. UNCHANGED <<loop, task, fallback, streamVars, preInvoke, holdVars, batch, autoVars,
                      retryVars, shutVars, stampVars>>
      BY <1>2 DEF FlushChunk
    <2>8. TypeOK'
      BY <2>2, <2>5, <2>6, <2>7
      DEF TypeOK, FlushRecords, streamVars, holdVars, autoVars, retryVars, shutVars, stampVars
    <2> QED
      BY <2>7, <2>8, HoldSame DEF streamVars, holdVars
  <1> QED
    BY <1>1, <1>2

\* The types after the end of a wait, which begins a flush.
LEMMA EndOfWaitTypes ==
    ASSUME TypeInv, NEW r \in Requests, DeadlinePassed(r) \/ RuntimeDoneNoGrace(r) \/ GraceOver(r)
    PROVE  TypeInv'
  <1> USE DEF TypeInv
  <1>1. EndOfWait(r)
    BY DEF DeadlinePassed, RuntimeDoneNoGrace, GraceOver
  <1>2. /\ task' = [task EXCEPT ![r] = "flushing"]
        /\ FlushBegin(r, batch, auto, handle, retrySlot)
        /\ UNCHANGED <<loop, fallback, streamVars, preInvoke, holdVars, auto, failed,
                       retryCount, retries, shutVars, stampVars, sent, givenUp>>
    BY <1>1 DEF EndOfWait
  <1>3. /\ r \in Flushers /\ batch \in SUBSET Logs /\ handle \in SUBSET Logs
        /\ retrySlot \in RetryIds \cup {None}
    BY TasksAre DEF Flushers
  <1>4. /\ FlushBegun(r, batch, handle, retrySlot) /\ retrySlot' = None
        /\ handle' = {} \/ handle' = handle
    BY <1>2, <1>3, FlushBeginIs
  <1>5. /\ flush' \in [Flushers -> FlushRecords]
        /\ batch' \in SUBSET Logs /\ handle' \in SUBSET Logs
    BY <1>3, <1>4 DEF FlushBegun, Taken
  <1>6. permit' \in BOOLEAN /\ waiters' \in Seq(Requests) /\ woken' \in SUBSET Requests
    <2>1. permit \in BOOLEAN /\ waiters \in Seq(Requests) /\ woken \in SUBSET Requests
      BY Zenon DEF TypeOK
    <2>2. Filter(waiters, Requests \ {r}) \in Seq(Requests)
      BY <2>1, FilterElements
    <2>3. woken \ {r} \in SUBSET Requests
      BY <2>1
    <2> QED
      BY <2>1, <2>2, <2>3, Zenon DEF DeadlinePassed, RuntimeDoneNoGrace, GraceOver, drainVars
  <1>7. task' \in [Requests -> Stages]
    BY <1>2 DEF TypeOK, Stages
  <1>8. TypeOK'
    BY <1>2, <1>4, <1>5, <1>6, <1>7
    DEF TypeOK, FlushRecords, streamVars, holdVars, shutVars, stampVars
  <1> QED
    BY <1>2, <1>8, HoldSame DEF streamVars, holdVars

\* The types after a payload's trace is known.
LEMMA TraceTypes ==
    ASSUME TypeInv, NEW r \in Requests, on_trace_id_extracted(r)
    PROVE  TypeInv'
  <1> USE DEF TypeInv
  <1>1. UNCHANGED <<loop, task, fallback, streamVars, preInvoke, failed, retryCount,
                    retryVars, flush, drainVars, shutVars, origin, stamp, sent, givenUp>>
    BY DEF on_trace_id_extracted
  <1>2. /\ traces' = TraceMapInsert(r) /\ r <= context
        /\ trace' = [l \in Logs |-> IF l \in held[r] THEN r ELSE trace[l]]
        /\ held' = [q \in Requests |-> held[q] \ held[r]]
        /\ holdOrder' = Filter(holdOrder, {q \in Requests : held'[q] # {}})
        /\ IF held[r] = {} THEN UNCHANGED <<batch, autoVars>>
           ELSE try_spawn_auto_flush(batch \cup held[r])
    BY DEF on_trace_id_extracted, held_for
  <1>3. held[r] \in SUBSET Logs /\ held \in [Requests -> SUBSET Logs] /\ batch \in SUBSET Logs
        /\ traces \in Seq(Requests) /\ holdOrder \in Seq(Requests)
    BY DEF TypeOK
  <1>4. traces' \in Seq(Requests)
    <2>1. CASE traces' = traces \/ traces' = Append(traces, r)
      BY <1>3, <2>1
    <2>2. CASE Len(traces) >= TraceMapMax /\ traces' = Append(Tail(traces), r)
      <3>1. traces # <<>>
        BY <1>3, <2>2, LimitAssumption
      <3>2. Tail(traces) \in Seq(Requests)
        BY <1>3, <3>1
      <3> QED
        BY <2>2, <3>2
    <2> QED
      BY <1>2, <2>1, <2>2 DEF TraceMapInsert
  <1>5. trace' \in [Logs -> 0..Invocations]
    BY <1>2, LimitAssumption DEF TypeOK, Requests
  <1>6. /\ held' \in [Requests -> SUBSET Logs]
        /\ \A q \in Requests : held'[q] = held[q] \ held[r]
    BY <1>2, <1>3
  <1>7. PICK kept : kept = {q \in Requests : held'[q] # {}}
    OBVIOUS
  <1>8. holdOrder' = Filter(holdOrder, kept)
    BY <1>2, <1>7
  <1>9. /\ holdOrder' \in Seq(Requests) /\ ToSet(holdOrder') = ToSet(holdOrder) \cap kept
        /\ IsInjective(holdOrder')
    BY <1>3, <1>8, FilterElements DEF HoldInv
  <1>10. \A q \in Requests : held'[q] # {} <=> q \in ToSet(holdOrder')
    BY <1>6, <1>7, <1>9 DEF HoldInv
  <1>11. /\ batch' \in SUBSET Logs /\ handle' \in SUBSET Logs
         /\ auto' \in SUBSET [key : SUBSET Logs, left : SUBSET Logs]
    <2>1. CASE held[r] = {}
      BY <1>2, <2>1 DEF TypeOK, autoVars
    <2>2. CASE held[r] # {}
      <3>1. batch \cup held[r] \in SUBSET Logs
        BY <1>3
      <3> QED
        BY <1>2, <2>2, <3>1, SpawnIs
    <2> QED
      BY <2>1, <2>2
  <1>12. TypeOK'
    BY <1>1, <1>4, <1>5, <1>6, <1>9, <1>11
    DEF TypeOK, streamVars, retryVars, drainVars, shutVars
  <1>13. HoldInv'
    BY <1>1, <1>6, <1>9, <1>10 DEF HoldInv, streamVars
  <1> QED
    BY <1>12, <1>13

\* The types after an INVOKE.
LEMMA InvokeTypes ==
    ASSUME TypeInv, Invoke
    PROVE  TypeInv'
  <1> USE DEF TypeInv
  <1>0. PICK r : r = context + 1
    OBVIOUS
  <1>1. /\ context < Invocations /\ context' = r
        /\ start_invocation_retry(r) /\ retrySlot' = SlotAfterRetry(r)
        /\ process_pre_invoke_logs(r)
        /\ task' = [task EXCEPT ![r] = "waiting"]
        /\ loop' = IF PipelineFlush THEN "next" ELSE "awaiting"
        /\ UNCHANGED <<fallback, current, seen, traces, autoVars, flush, drainVars, shutVars,
                       origin, trace, sent>>
    BY <1>0 DEF Invoke
  <1>2. r \in Requests /\ r \in RetryIds /\ r # None
    BY <1>0, <1>1, LimitAssumption DEF TypeOK, Requests, RetryIds, None
  <1>3. /\ failed' \in [Kinds -> Seq(Logs)]
        /\ retryCount' \in [Logs -> 0..MaxRetries] /\ givenUp' \in SUBSET Logs
        /\ retries' \in SUBSET [id : RetryIds, left : SUBSET Logs]
        /\ retrySlot' \in RetryIds \cup {None}
    BY <1>1, <1>2, RetryIs
  <1>4. /\ preInvoke' = {}
        /\ stamp' = [l \in Logs |-> IF l \in preInvoke THEN r ELSE stamp[l]]
    BY <1>1 DEF process_pre_invoke_logs
  <1>5. stamp' \in [Logs -> 0..Invocations]
    BY <1>2, <1>4, LimitAssumption DEF TypeOK, Requests
  <1>6. /\ held \in [Requests -> SUBSET Logs] /\ holdOrder \in Seq(Requests)
        /\ batch \in SUBSET Logs /\ preInvoke \in SUBSET Logs /\ IsInjective(holdOrder)
    BY DEF TypeOK, HoldInv
  <1>7. /\ held' \in [Requests -> SUBSET Logs] /\ holdOrder' \in Seq(Requests)
        /\ batch' \in SUBSET Logs
        /\ IsInjective(holdOrder')
        /\ \A q \in Requests : held'[q] # {} <=> q \in ToSet(holdOrder')
    <2>1. CASE ~CollectTraceId
      BY <1>1, <1>6, <2>1 DEF process_pre_invoke_logs, HoldInv
    <2>2. CASE CollectTraceId
      <3>1. PICK kept \in SUBSET preInvoke :
              /\ held' = [held EXCEPT ![r] = @ \cup kept]
              /\ holdOrder' = IF kept = {} THEN holdOrder ELSE Append(holdOrder, r)
              /\ batch' = batch \cup (preInvoke \ kept)
        BY <1>1, <2>2 DEF process_pre_invoke_logs
      <3>2. /\ held' \in [Requests -> SUBSET Logs] /\ batch' \in SUBSET Logs
            /\ \A q \in Requests : held'[q] = held[q] \cup (IF q = r THEN kept ELSE {})
        BY <1>2, <1>6, <3>1
      <3>3. CASE kept = {}
        BY <1>6, <3>1, <3>2, <3>3 DEF HoldInv
      <3>4. CASE kept # {}
        <4>1. preInvoke # {}
          BY <3>4
        <4>2. held[r] = {} /\ r \notin ToSet(holdOrder)
          BY <1>2, <4>1 DEF HoldInv
        <4>3. holdOrder' = Append(holdOrder, r)
          BY <3>1, <3>4
        <4>4. /\ holdOrder' \in Seq(Requests) /\ IsInjective(holdOrder')
              /\ ToSet(holdOrder') = ToSet(holdOrder) \cup {r}
          BY <1>2, <1>6, <4>2, <4>3, AppendNew, AppendElements
        <4> QED
          BY <3>2, <3>4, <4>4 DEF HoldInv
      <3> QED
        BY <3>3, <3>4
    <2> QED
      BY <2>1, <2>2
  <1>8. task' \in [Requests -> Stages] /\ context' \in 0..Invocations
    BY <1>1, <1>2, LimitAssumption DEF TypeOK, Stages, Requests
  <1>9. loop' \in {"next", "awaiting"}
    BY <1>1
  <1>10. TypeOK'
    BY <1>1, <1>3, <1>4, <1>5, <1>7, <1>8, <1>9 DEF TypeOK, autoVars, drainVars, shutVars
  <1>11. HoldInv'
    BY <1>1, <1>2, <1>4, <1>7 DEF HoldInv
  <1> QED
    BY <1>10, <1>11

\* The types after the steps that move the event loop or a task only.
LEMMA MoveTypes ==
    ASSUME TypeInv,
           \/ PlatformStart \/ Stop("flush") \/ Stop("emergency") \/ Settling
           \/ ShutdownDone \/ EmergencyDone \/ ShutdownTimeOut
           \/ \E out \in Fates(lastSend) : LastSendChunk(out)
           \/ \E r \in Requests : RuntimeDoneGrace(r) \/ ProcessDone(r)
           \/ UNCHANGED vars
    PROVE  TypeInv'
  <1> USE DEF TypeInv
  <1>1. CASE PlatformStart
    <2>1. current' \in 0..Invocations
      BY <1>1, LimitAssumption DEF PlatformStart, TypeOK
    <2>2. TypeOK'
      BY <1>1, <2>1 DEF PlatformStart, TypeOK, holdVars, autoVars, retryVars, drainVars, shutVars,
                        stampVars
    <2> QED
      BY <1>1, <2>2, HoldSame DEF PlatformStart, holdVars
  <1>2. CASE Stop("flush") \/ Stop("emergency") \/ Settling \/ ShutdownDone \/ EmergencyDone
             \/ ShutdownTimeOut
    <2>1. /\ loop' \in {"flush", "emergency", "settle", "exited", "killed"}
          /\ UNCHANGED <<task, fallback, streamVars, preInvoke, holdVars, batch, autoVars, failed,
                         retryCount, retryVars, flush, drainVars, shutVars, stampVars, sent,
                         givenUp>>
      BY <1>2 DEF Stop, Settling, ShutdownDone, EmergencyDone, ShutdownTimeOut, Exit
    <2>2. TypeOK'
      BY <2>1 DEF TypeOK, Stopping, Ended, streamVars, holdVars, autoVars, retryVars, drainVars,
                  shutVars, stampVars
    <2> QED
      BY <2>1, <2>2, HoldSame DEF streamVars, holdVars
  <1>3. ASSUME NEW out \in Fates(lastSend), LastSendChunk(out)
        PROVE  TypeInv'
    <2>1. lastSend \in SUBSET Logs /\ sent \in SUBSET Logs /\ givenUp \in SUBSET Logs
      BY DEF TypeOK
    <2>2. DOMAIN out \subseteq Logs /\ With(out, "sent") \subseteq Logs
      BY <2>1, FatesAre
    <2>3. /\ lastSend' \in SUBSET Logs /\ sent' \in SUBSET Logs /\ givenUp' \in SUBSET Logs
          /\ UNCHANGED <<loop, task, fallback, streamVars, preInvoke, holdVars, batch, autoVars,
                         failed, retryCount, retryVars, flush, drainVars, pass, due, stampVars>>
      BY <1>3, <2>1, <2>2 DEF LastSendChunk
    <2>4. TypeOK'
      BY <2>3 DEF TypeOK, streamVars, holdVars, autoVars, retryVars, drainVars, stampVars
    <2> QED
      BY <2>3, <2>4, HoldSame DEF streamVars, holdVars
  <1>4. ASSUME NEW r \in Requests, RuntimeDoneGrace(r)
        PROVE  TypeInv'
    <2>1. task' \in [Requests -> Stages] /\ waiters' \in Seq(Requests)
      BY <1>4 DEF RuntimeDoneGrace, TypeOK, Stages
    <2>2. UNCHANGED <<loop, fallback, streamVars, preInvoke, holdVars, batch, autoVars, failed,
                      retryCount, retryVars, flush, permit, woken, shutVars, stampVars, sent,
                      givenUp>>
      BY <1>4 DEF RuntimeDoneGrace
    <2>3. TypeOK'
      BY <2>1, <2>2 DEF TypeOK, streamVars, holdVars, autoVars, retryVars, shutVars, stampVars
    <2> QED
      BY <2>2, <2>3, HoldSame DEF streamVars, holdVars
  <1>5. ASSUME NEW r \in Requests, ProcessDone(r)
        PROVE  TypeInv'
    <2>1. /\ flush' = [flush EXCEPT ![r] = NoFlush]
          /\ task' = [task EXCEPT ![r] = "done"]
          /\ loop' \in {"next", loop}
          /\ UNCHANGED <<fallback, streamVars, preInvoke, holdVars, batch, autoVars, failed,
                         retryCount, retryVars, drainVars, shutVars, stampVars, sent, givenUp>>
      BY <1>5 DEF ProcessDone
    <2>2. NoFlush \in FlushRecords /\ r \in Flushers
      BY DEF NoFlush, Flush, FlushRecords, Flushers
    <2>3. flush' \in [Flushers -> FlushRecords]
      BY <2>1, <2>2, NewFlush
    <2>4. task' \in [Requests -> Stages]
      BY <2>1 DEF TypeOK, Stages
    <2>5. TypeOK'
      BY <2>1, <2>3, <2>4 DEF TypeOK, FlushRecords, streamVars, holdVars, autoVars, retryVars,
                              drainVars, shutVars, stampVars
    <2> QED
      BY <2>1, <2>5, HoldSame DEF streamVars, holdVars
  <1>6. CASE UNCHANGED vars
    BY <1>6, HoldSame DEF vars, TypeOK, streamVars, holdVars, autoVars, retryVars, drainVars,
                          shutVars, stampVars
  <1> QED
    BY <1>1, <1>2, <1>3, <1>4, <1>5, <1>6

\* The batch, the tasks and the handle after flush_pending_logs_unstamped.
LEMMA UnstampedIs ==
    ASSUME TypeOK, ShutdownFlush
    PROVE  \E b \in SUBSET Logs, a \in SUBSET [key : SUBSET Logs, left : SUBSET Logs],
              h \in SUBSET Logs :
             /\ \/ b = batch \cup HeldLogs(held) /\ a = auto /\ h = handle
                \/ /\ b = {} /\ h = batch \cup HeldLogs(held)
                   /\ a = auto \cup {[key |-> h, left |-> h]}
             /\ auto' = a
             /\ FlushBegin(None, b, a, h, retrySlot)
  <1>1. PICK both : both = batch \cup HeldLogs(held)
    OBVIOUS
  <1>2. both \in SUBSET Logs
    BY <1>1 DEF TypeOK, HeldLogs
  <1>3. PICK spawns : spawns = (HeldLogs(held) # {} /\ Cardinality(both) >= FlushThreshold)
    OBVIOUS
  <1>4. /\ auto' = IF spawns THEN auto \cup {[key |-> both, left |-> both]} ELSE auto
        /\ FlushBegin(None, IF spawns THEN {} ELSE both,
                      IF spawns THEN auto \cup {[key |-> both, left |-> both]} ELSE auto,
                      IF spawns THEN both ELSE handle, retrySlot)
    BY <1>1, <1>3, Zenon DEF ShutdownFlush
  <1>5. CASE spawns
    <2>1. PICK a : a = auto \cup {[key |-> both, left |-> both]}
      OBVIOUS
    <2>2. auto' = a /\ FlushBegin(None, {}, a, both, retrySlot)
      BY <1>4, <1>5, <2>1
    <2>3. a \in SUBSET [key : SUBSET Logs, left : SUBSET Logs]
      BY <1>2, <2>1 DEF TypeOK
    <2>4. {} \in SUBSET Logs
      OBVIOUS
    <2> QED
      BY <1>1, <1>2, <2>1, <2>2, <2>3, <2>4, Zenon
  <1>6. CASE ~spawns
    <2>1. auto' = auto /\ FlushBegin(None, both, auto, handle, retrySlot)
      BY <1>4, <1>6
    <2>2. auto \in SUBSET [key : SUBSET Logs, left : SUBSET Logs] /\ handle \in SUBSET Logs
      BY DEF TypeOK
    <2> QED
      BY <1>1, <1>2, <2>1, <2>2, Zenon
  <1> QED
    BY <1>5, <1>6

\* What the process holds are logs.
LEMMA InMemoryIs ==
    ASSUME TypeOK
    PROVE  InMemory \in SUBSET Logs
  <1>1. /\ AutoLogs \in SUBSET Logs /\ RetryLogs \in SUBSET Logs /\ FlushLogs \in SUBSET Logs
    BY TasksAre DEF AutoLogs, RetryLogs, FlushLogs
  <1>2. HeldLogs(held) \in SUBSET Logs /\ FailedLogs(failed) \in SUBSET Logs
    BY FailedLogsAre DEF HeldLogs, TypeOK
  <1> QED
    BY <1>1, <1>2 DEF InMemory, TypeOK

\* The types after the steps of SHUTDOWN that begin a flush.
LEMMA ShutdownTypes ==
    ASSUME TypeInv, ShutdownFlush \/ ShutdownPass \/ EmergencyFlush
    PROVE  TypeInv'
  <1> USE DEF TypeInv
  <1>0. /\ None \in Flushers /\ batch \in SUBSET Logs /\ handle \in SUBSET Logs
        /\ preInvoke \in SUBSET Logs /\ retrySlot \in RetryIds \cup {None}
    BY TasksAre DEF Flushers
  <1>1. CASE EmergencyFlush
    <2>1. /\ loop' = "lastFlush"
          /\ FlushBegin(None, batch, auto, handle, retrySlot)
          /\ UNCHANGED <<task, fallback, streamVars, preInvoke, holdVars, auto, failed, retryCount,
                         retries, drainVars, shutVars, stampVars, sent, givenUp>>
      BY <1>1 DEF EmergencyFlush
    <2>2. /\ FlushBegun(None, batch, handle, retrySlot) /\ retrySlot' = None
          /\ handle' = {} \/ handle' = handle
      BY <1>0, <2>1, FlushBeginIs
    <2>3. /\ flush' \in [Flushers -> FlushRecords]
          /\ batch' \in SUBSET Logs /\ handle' \in SUBSET Logs
      BY <1>0, <2>2 DEF FlushBegun, Taken
    <2>4. TypeOK'
      BY <2>1, <2>2, <2>3
      DEF TypeOK, FlushRecords, streamVars, holdVars, drainVars, shutVars, stampVars
    <2> QED
      BY <2>1, <2>4, HoldSame DEF streamVars, holdVars
  <1>2. CASE ShutdownPass
    <2>0. PICK id : id = Invocations + pass'
      OBVIOUS
    <2>1. /\ pass < MaxRetries /\ pass' = pass + 1
          /\ start_invocation_retry(id)
          /\ FlushBegin(None, batch, auto, handle, SlotAfterRetry(id))
          /\ UNCHANGED <<loop, task, fallback, streamVars, preInvoke, holdVars, auto, drainVars,
                         lastSend, due, stampVars, sent>>
      BY <1>2, <2>0 DEF ShutdownPass
    <2>2. pass' \in 0..MaxRetries /\ id \in RetryIds
      BY <2>0, <2>1, LimitAssumption DEF TypeOK, RetryIds
    <2>3. /\ failed' \in [Kinds -> Seq(Logs)]
          /\ retryCount' \in [Logs -> 0..MaxRetries] /\ givenUp' \in SUBSET Logs
          /\ retries' \in SUBSET [id : RetryIds, left : SUBSET Logs]
          /\ SlotAfterRetry(id) \in RetryIds \cup {None}
      BY <2>1, <2>2, RetryIs
    <2>4. PICK slot : slot = SlotAfterRetry(id)
      OBVIOUS
    <2>5. /\ FlushBegun(None, batch, handle, slot) /\ retrySlot' = None
          /\ handle' = {} \/ handle' = handle
      BY <1>0, <2>1, <2>3, <2>4, FlushBeginIs
    <2>6. /\ flush' \in [Flushers -> FlushRecords]
          /\ batch' \in SUBSET Logs /\ handle' \in SUBSET Logs
      BY <1>0, <2>5 DEF FlushBegun, Taken
    <2>7. TypeOK'
      BY <2>1, <2>2, <2>3, <2>5, <2>6
      DEF TypeOK, FlushRecords, streamVars, holdVars, drainVars, stampVars
    <2> QED
      BY <2>1, <2>7, HoldSame DEF streamVars, holdVars
  <1>3. CASE ShutdownFlush
    <2>1. /\ loop' = "drain" /\ due' = InMemory
          /\ held' = [r \in Requests |-> {}] /\ holdOrder' = <<>>
          /\ preInvoke' = {}
          /\ lastSend' \in {preInvoke, {}}
          /\ givenUp' \in {givenUp, givenUp \cup preInvoke}
          /\ UNCHANGED <<task, fallback, streamVars, traces, failed, retryCount, retries, drainVars,
                         pass, stampVars, sent>>
      BY <1>3 DEF ShutdownFlush
    <2>2. PICK b \in SUBSET Logs, a \in SUBSET [key : SUBSET Logs, left : SUBSET Logs],
               h \in SUBSET Logs : auto' = a /\ FlushBegin(None, b, a, h, retrySlot)
      BY <1>3, UnstampedIs
    <2>3. /\ FlushBegun(None, b, h, retrySlot) /\ retrySlot' = None
          /\ handle' = {} \/ handle' = h
      BY <1>0, <2>2, FlushBeginIs
    <2>4. /\ flush' \in [Flushers -> FlushRecords]
          /\ batch' \in SUBSET Logs /\ handle' \in SUBSET Logs
      BY <2>2, <2>3 DEF FlushBegun, Taken
    <2>5. /\ held' \in [Requests -> SUBSET Logs] /\ holdOrder' \in Seq(Requests)
          /\ lastSend' \in SUBSET Logs /\ due' \in SUBSET Logs /\ givenUp' \in SUBSET Logs
      <3>1. held' \in [Requests -> SUBSET Logs] /\ holdOrder' \in Seq(Requests)
        BY <2>1
      <3>2. due' \in SUBSET Logs
        BY <2>1, InMemoryIs
      <3>3. lastSend' \in SUBSET Logs /\ givenUp' \in SUBSET Logs
        BY <1>0, <2>1 DEF TypeOK
      <3> QED
        BY <3>1, <3>2, <3>3
    <2>6. TypeOK'
      BY <2>1, <2>2, <2>3, <2>4, <2>5
      DEF TypeOK, FlushRecords, Stopping, streamVars, drainVars, stampVars
    <2>7. HoldInv'
      <3>1. IsInjective(holdOrder') /\ ToSet(holdOrder') = {}
        BY <2>1 DEF IsInjective, ToSet
      <3>2. \A r \in Requests : held'[r] = {}
        BY <2>1
      <3> QED
        BY <2>1, <3>1, <3>2 DEF HoldInv
    <2> QED
      BY <2>6, <2>7
  <1> QED
    BY <1>1, <1>2, <1>3

\* The names of the steps.
LEMMA StepIs ==
    ASSUME [Next]_vars
    PROVE  \/ \E l \in Logs : process_record(l) \/ DiscardRecord(l) \/ add_log_to_batch(l)
           \/ \E t \in auto : \E out \in Fates(t.left) : AutoFlushChunk(t, out)
           \/ \E t \in retries : \E out \in Fates(t.left) : RetryChunk(t, out)
           \/ \E f \in Flushers : FlushAutoDone(f) \/ \E out \in Fates(flush[f].logs) : FlushChunk(f, out)
           \/ \E r \in Requests : DeadlinePassed(r) \/ RuntimeDoneNoGrace(r) \/ GraceOver(r)
           \/ \E r \in Requests : on_trace_id_extracted(r)
           \/ Invoke
           \/ ShutdownFlush \/ ShutdownPass \/ EmergencyFlush
           \/ PlatformStart \/ Stop("flush") \/ Stop("emergency") \/ Settling
           \/ ShutdownDone \/ EmergencyDone \/ ShutdownTimeOut
           \/ \E out \in Fates(lastSend) : LastSendChunk(out)
           \/ \E r \in Requests : RuntimeDoneGrace(r) \/ ProcessDone(r)
           \/ UNCHANGED vars
  BY Zenon DEF Next, Environment, LoopSteps, TaskSteps, SendSteps, Terminated

\* Every step keeps the types.
LEMMA TypeStep ==
    ASSUME TypeInv, [Next]_vars
    PROVE  TypeInv'
  BY StepIs, DeliverTypes, AutoChunkTypes, RetryChunkTypes, FlushTypes, EndOfWaitTypes, TraceTypes,
     InvokeTypes, ShutdownTypes, MoveTypes, Zenon

\* TypeInv always holds.
LEMMA TypeAlways == Spec => []TypeInv
  BY TypeInit, TypeStep, PTL DEF Spec

\* The variables of the log pipeline keep their types, whatever the interleaving of its tasks.
THEOREM TypeCorrect == Spec => []TypeOK
  <1>1. TypeInv => TypeOK
    BY DEF TypeInv
  <1> QED
    BY <1>1, TypeAlways, PTL

-----------------------------------------------------------------------------
(* What a log is stamped with.                                             *)

\* A log has no stamp before it is delivered; one of the INIT phase has none, and at most the
\* first request's as its origin; one that is held is stamped with its bucket's request.  The
\* telemetry stream is at most a request ahead of the event loop, and traces are of requests
\* that had their INVOKE.
StampInv ==
    /\ \A l \in Logs : l \notin seen => origin[l] = None /\ stamp[l] = None /\ trace[l] = None
    /\ current <= context + 1
    /\ \A l \in Logs : origin[l] <= current
    /\ \A l \in preInvoke : l \in seen /\ stamp[l] = None /\ trace[l] = None
    /\ \A r \in Requests : \A l \in held[r] : l \in seen /\ stamp[l] = r
    /\ \A r \in ToSet(traces) : r <= context
    /\ StampedRight /\ TraceOfOwnRequest /\ HeldAwaitsTrace

\* No log was delivered.
LEMMA StampInit == Init => StampInv
  <1> SUFFICES ASSUME Init PROVE StampInv
    OBVIOUS
  <1>1. ToSet(traces) = {}
    BY DEF Init, ToSet
  <1> QED
    BY <1>1 DEF Init, StampInv, StampedRight, TraceOfOwnRequest, HeldAwaitsTrace, None

\* Stamps stay, and logs only leave the buffers they wait in.
LEMMA StampSame ==
    ASSUME StampInv, TypeOK, UNCHANGED <<streamVars, stampVars, traces>>,
           preInvoke' \subseteq preInvoke, \A r \in Requests : held'[r] \subseteq held[r]
    PROVE  StampInv'
  <1> USE DEF streamVars, stampVars
  <1>1. StampedRight' /\ TraceOfOwnRequest'
    BY DEF StampInv, StampedRight, TraceOfOwnRequest
  <1>2. HeldAwaitsTrace'
    BY DEF StampInv, HeldAwaitsTrace
  <1> QED
    BY <1>1, <1>2 DEF StampInv

\* A log that is delivered is new, and its origin is the request the stream is at.
LEMMA DeliverIs ==
    ASSUME TypeOK, StampInv, NEW l \in Logs, Deliver(l)
    PROVE  /\ seen' = seen \cup {l} /\ UNCHANGED <<context, current>>
           /\ origin'[l] = current /\ \A m \in Logs \ {l} : origin'[m] = origin[m]
           /\ stamp[l] = None /\ trace[l] = None
           /\ l \notin preInvoke /\ \A r \in Requests : l \notin held[r]
  BY DEF TypeOK, StampInv, Deliver

\* Stamps of records that come in.
LEMMA StampDeliver ==
    ASSUME TypeInv, StampInv, NEW l \in Logs,
           process_record(l) \/ DiscardRecord(l) \/ add_log_to_batch(l)
    PROVE  StampInv'
  <1> USE DEF TypeInv
  <1>0. Deliver(l)
    BY DEF process_record, DiscardRecord, add_log_to_batch
  <1>1. /\ seen' = seen \cup {l} /\ UNCHANGED <<context, current>>
        /\ origin'[l] = current /\ \A m \in Logs \ {l} : origin'[m] = origin[m]
        /\ stamp[l] = None /\ trace[l] = None
        /\ l \notin preInvoke /\ \A r \in Requests : l \notin held[r]
    BY <1>0, DeliverIs
  <1>2. /\ current \in Nat /\ context \in Nat /\ None = 0
        /\ \A m \in Logs : origin[m] \in Nat /\ stamp[m] \in Nat /\ trace[m] \in Nat
        /\ preInvoke \in SUBSET Logs /\ \A r \in Requests : held[r] \in SUBSET Logs
    BY LimitAssumption DEF TypeOK, None
  <1>3. traces' = traces
    BY DEF process_record, DiscardRecord, add_log_to_batch, holdVars
  <1>4. CASE \/ UNCHANGED <<stamp, trace>>
             \/ Stamp(l)
    <2>1. \/ stamp'[l] = None /\ trace'[l] = None
          \/ stamp'[l] = effective_request_id /\ trace'[l] \in {None, effective_request_id}
      BY <1>1, <1>4, StampIs
    <2>2. \A m \in Logs \ {l} : stamp'[m] = stamp[m] /\ trace'[m] = trace[m]
      BY <1>4, StampIs
    <2>3. StampedRight'
      <3>1. stamp'[l] # None /\ origin'[l] # None => stamp'[l] = origin'[l]
        BY <1>1, <2>1 DEF effective_request_id
      <3>2. \A m \in Logs \ {l} : stamp'[m] # None /\ origin'[m] # None => stamp'[m] = origin'[m]
        BY <1>1, <2>2 DEF StampInv, StampedRight
      <3> QED
        BY <3>1, <3>2 DEF StampedRight
    <2>4. TraceOfOwnRequest'
      <3>1. trace'[l] # None => trace'[l] = stamp'[l]
        BY <2>1
      <3>2. \A m \in Logs \ {l} : trace'[m] # None => trace'[m] = stamp'[m]
        BY <2>2 DEF StampInv, TraceOfOwnRequest
      <3> QED
        BY <3>1, <3>2 DEF TraceOfOwnRequest
    <2>5. \A m \in Logs : origin'[m] <= current'
      BY <1>1, <1>2 DEF StampInv
    <2>6. \A m \in Logs : m \notin seen' => origin'[m] = None /\ stamp'[m] = None /\ trace'[m] = None
      BY <1>1, <2>2 DEF StampInv
    <2>7. /\ current' <= context' + 1
          /\ \A r \in ToSet(traces') : r <= context'
      BY <1>1, <1>3 DEF StampInv
    <2>8. ASSUME \A m \in preInvoke' : m \in preInvoke \/ (m = l /\ UNCHANGED <<stamp, trace>>)
          PROVE  \A m \in preInvoke' : m \in seen' /\ stamp'[m] = None /\ trace'[m] = None
      BY <1>1, <1>2, <2>2, <2>8 DEF StampInv
    <2>9. ASSUME NEW r, r = effective_request_id,
                 \A q \in Requests : \A m \in held'[q] :
                    m \in held[q] \/ (m = l /\ q = r /\ Stamp(l))
          PROVE  \A q \in Requests : \A m \in held'[q] : m \in seen' /\ stamp'[m] = q
      <3>1. ASSUME NEW q \in Requests, NEW m \in held'[q]
            PROVE  m \in seen' /\ stamp'[m] = q
        <4>1. CASE m \in held[q]
          BY <1>1, <1>2, <2>2, <4>1 DEF StampInv
        <4>2. CASE m = l /\ q = r /\ Stamp(l)
          BY <1>1, <2>9, <4>2, StampIs
        <4> QED
          BY <2>9, <3>1, <4>1, <4>2
      <3> QED
        BY <3>1
    <2>10. CASE UNCHANGED held
      <3>1. \A m \in preInvoke' : m \in preInvoke \/ (m = l /\ UNCHANGED <<stamp, trace>>)
        BY DEF process_record, DiscardRecord, add_log_to_batch
      <3>2. \A q \in Requests : \A m \in held'[q] : m \in seen' /\ stamp'[m] = q
        BY <2>9, <2>10
      <3>3. HeldAwaitsTrace'
        BY <1>3, <2>10 DEF StampInv, HeldAwaitsTrace
      <3> QED
        BY <2>3, <2>4, <2>5, <2>6, <2>7, <2>8, <3>1, <3>2, <3>3 DEF StampInv
    <2>11. CASE ~UNCHANGED held
      <3>1. PICK after : after = Hold(effective_request_id, l)
        OBVIOUS
      <3>2. /\ context # None /\ effective_request_id \notin ToSet(traces) /\ Stamp(l)
            /\ held' = after.held /\ UNCHANGED preInvoke
        BY <2>11, <3>1, Zenon DEF process_record, DiscardRecord, add_log_to_batch, holdVars
      <3>3. effective_request_id \in Requests
        BY <3>2, EffectiveIs
      <3>4. PICK r \in Requests : r = effective_request_id
        BY <3>3
      <3>5. \A q \in Requests : held'[q] \in {held[q] \cup (IF q = r THEN {l} ELSE {}), {}}
        BY <3>1, <3>2, <3>4, HoldIs
      <3>6. \A q \in Requests : \A m \in held'[q] : m \in held[q] \/ (m = l /\ q = r /\ Stamp(l))
        BY <3>2, <3>5
      <3>7. \A q \in Requests : \A m \in held'[q] : m \in seen' /\ stamp'[m] = q
        BY <2>9, <3>4, <3>6
      <3>8. HeldAwaitsTrace'
        <4>1. ASSUME NEW q \in Requests, held'[q] # {}
              PROVE  q \notin ToSet(traces')
          <5>1. held[q] # {} \/ q = r
            BY <3>5, <4>1
          <5> QED
            BY <1>3, <3>2, <3>4, <5>1 DEF StampInv, HeldAwaitsTrace
        <4> QED
          BY <4>1 DEF HeldAwaitsTrace
      <3> QED
        BY <2>3, <2>4, <2>5, <2>6, <2>7, <2>8, <3>2, <3>7, <3>8 DEF StampInv
    <2> QED
      BY <2>10, <2>11
  <1> QED
    BY <1>4, Zenon DEF process_record, DiscardRecord, add_log_to_batch

\* A trace that comes in: the logs held for its request are stamped with it, and no other.
LEMMA StampTrace ==
    ASSUME TypeInv, StampInv, NEW r \in Requests, on_trace_id_extracted(r)
    PROVE  StampInv'
  <1> USE DEF TypeInv
  <1>1. /\ UNCHANGED <<streamVars, preInvoke, origin, stamp>>
        /\ traces' = TraceMapInsert(r) /\ r <= context
        /\ trace' = [l \in Logs |-> IF l \in held[r] THEN r ELSE trace[l]]
        /\ held' = [q \in Requests |-> held[q] \ held[r]]
    BY DEF on_trace_id_extracted, held_for
  <1>2. ToSet(traces') \subseteq ToSet(traces) \cup {r}
    <2>0. traces \in Seq(Requests)
      BY DEF TypeOK
    <2>1. CASE traces' = traces
      BY <2>1
    <2>2. CASE traces' = Append(traces, r)
      BY <2>0, <2>2, AppendElements
    <2>3. CASE Len(traces) >= TraceMapMax /\ traces' = Append(Tail(traces), r)
      <3>1. traces # <<>>
        BY <2>0, <2>3, LimitAssumption
      <3>2. PICK rest : rest = Tail(traces)
        OBVIOUS
      <3>3. rest \in Seq(Requests) /\ ToSet(rest) \subseteq ToSet(traces)
        BY <2>0, <3>1, <3>2, HeadTailElements
      <3>4. ToSet(Append(rest, r)) = ToSet(rest) \cup {r}
        BY <3>3, AppendElements
      <3> QED
        BY <2>3, <3>2, <3>3, <3>4
    <2> QED
      BY <1>1, <2>1, <2>2, <2>3 DEF TraceMapInsert
  <1>3. \A l \in Logs : trace'[l] = IF l \in held[r] THEN r ELSE trace[l]
    BY <1>1
  <1>4. /\ \A q \in Requests : held'[q] = held[q] \ held[r]
        /\ preInvoke \in SUBSET Logs /\ \A q \in Requests : held[q] \in SUBSET Logs
    BY <1>1 DEF TypeOK
  <1>5. /\ UNCHANGED <<seen, context, current, origin, stamp, preInvoke>>
    BY <1>1 DEF streamVars
  <1>6. StampedRight'
    BY <1>5 DEF StampInv, StampedRight
  <1>7. TraceOfOwnRequest'
    BY <1>3, <1>5 DEF StampInv, TraceOfOwnRequest
  <1>8. HeldAwaitsTrace'
    <2>1. ASSUME NEW q \in Requests, held'[q] # {}
          PROVE  q \notin ToSet(traces')
      <3>1. q # r /\ held[q] # {}
        BY <1>4, <2>1
      <3> QED
        BY <1>2, <3>1 DEF StampInv, HeldAwaitsTrace
    <2> QED
      BY <2>1 DEF HeldAwaitsTrace
  <1>9. \A l \in Logs : l \notin seen => trace'[l] = None
    BY <1>3 DEF StampInv
  <1>10. \A l \in preInvoke : trace'[l] = None
    <2>1. ASSUME NEW l \in preInvoke PROVE l \notin held[r]
      <3>1. stamp[l] = None /\ r # None
        BY DEF StampInv, Requests, None
      <3> QED
        BY <3>1 DEF StampInv
    <2> QED
      BY <1>3, <1>4, <2>1 DEF StampInv
  <1>11. \A q \in ToSet(traces') : q <= context'
    BY <1>1, <1>2, <1>5 DEF StampInv
  <1> QED
    BY <1>4, <1>5, <1>6, <1>7, <1>8, <1>9, <1>10, <1>11 DEF StampInv

\* An INVOKE stamps the logs of the INIT phase.
LEMMA StampInvoke ==
    ASSUME TypeInv, StampInv, Invoke
    PROVE  StampInv'
  <1> USE DEF TypeInv
  <1>0. PICK r : r = context + 1
    OBVIOUS
  <1>1. /\ context < Invocations /\ context' = r
        /\ UNCHANGED <<current, seen, traces, origin, trace>>
        /\ preInvoke' = {}
        /\ stamp' = [l \in Logs |-> IF l \in preInvoke THEN r ELSE stamp[l]]
        /\ \/ \E kept \in SUBSET preInvoke : held' = [held EXCEPT ![r] = @ \cup kept]
           \/ UNCHANGED held
    BY <1>0, Zenon DEF Invoke, process_pre_invoke_logs
  <1>2. /\ context \in Nat /\ current \in Nat /\ r \in Requests /\ r # None /\ None = 0
        /\ \A l \in Logs : origin[l] \in Nat
        /\ preInvoke \in SUBSET Logs /\ held \in [Requests -> SUBSET Logs]
    BY <1>0, <1>1, LimitAssumption DEF TypeOK, Requests, None
  <1>3. \A l \in Logs : stamp'[l] = IF l \in preInvoke THEN r ELSE stamp[l]
    BY <1>1
  <1>4. PICK kept \in SUBSET preInvoke :
          \A q \in Requests : held'[q] = held[q] \cup (IF q = r THEN kept ELSE {})
    <2>1. CASE \E kept \in SUBSET preInvoke : held' = [held EXCEPT ![r] = @ \cup kept]
      BY <1>2, <2>1
    <2>2. CASE UNCHANGED held
      <3>1. \A q \in Requests : held'[q] = held[q] \cup (IF q = r THEN {} ELSE {})
        BY <2>2
      <3> QED
        BY <3>1
    <2> QED
      BY <1>1, <2>1, <2>2
  <1>5. \A l \in preInvoke : context = 0 /\ origin[l] <= 1 /\ stamp[l] = None /\ trace[l] = None
                             /\ l \in seen /\ \A q \in Requests : l \notin held[q]
    <2>1. ASSUME NEW l \in preInvoke
          PROVE  context = 0 /\ origin[l] <= 1 /\ \A q \in Requests : l \notin held[q]
      <3>1. context = 0 /\ \A q \in Requests : held[q] = {}
        BY <1>2, <2>1 DEF HoldInv
      <3> QED
        BY <1>2, <3>1 DEF StampInv
    <2> QED
      BY <2>1 DEF StampInv
  <1>6. StampedRight'
    <2>1. ASSUME NEW l \in Logs, stamp'[l] # None, origin'[l] # None
          PROVE  stamp'[l] = origin'[l]
      <3>1. CASE l \in preInvoke
        BY <1>0, <1>1, <1>2, <1>3, <1>5, <2>1, <3>1
      <3>2. CASE l \notin preInvoke
        BY <1>1, <1>3, <2>1, <3>2 DEF StampInv, StampedRight
      <3> QED
        BY <3>1, <3>2
    <2> QED
      BY <2>1 DEF StampedRight
  <1>7. TraceOfOwnRequest'
    BY <1>1, <1>3, <1>5 DEF StampInv, TraceOfOwnRequest
  <1>8. HeldAwaitsTrace'
    <2>1. ASSUME NEW q \in Requests, held'[q] # {}
          PROVE  q \notin ToSet(traces)
      <3>1. CASE held[q] # {}
        BY <3>1 DEF StampInv, HeldAwaitsTrace
      <3>2. CASE held[q] = {}
        <4>1. context = 0
          BY <1>4, <1>5, <2>1, <3>2
        <4> QED
          BY <4>1 DEF StampInv, Requests
      <3> QED
        BY <3>1, <3>2
    <2> QED
      BY <1>1, <2>1 DEF HeldAwaitsTrace
  <1>9. \A q \in Requests : \A l \in held'[q] : l \in seen' /\ stamp'[l] = q
    <2>1. ASSUME NEW q \in Requests, NEW l \in held'[q]
          PROVE  l \in seen' /\ stamp'[l] = q
      <3>1. CASE l \in held[q]
        BY <1>1, <1>2, <1>3, <1>5, <3>1 DEF StampInv
      <3>2. CASE l \notin held[q]
        BY <1>1, <1>2, <1>3, <1>4, <1>5, <2>1, <3>2
      <3> QED
        BY <3>1, <3>2
    <2> QED
      BY <2>1
  <1>10. \A l \in Logs : l \notin seen' => origin'[l] = None /\ stamp'[l] = None /\ trace'[l] = None
    BY <1>1, <1>3, <1>5 DEF StampInv
  <1>11. /\ current' <= context' + 1
         /\ \A q \in ToSet(traces') : q <= context'
         /\ \A l \in Logs : origin'[l] <= current'
    <2>1. \A q \in ToSet(traces) : q \in Nat
      <3>1. ToSet(traces) \subseteq Requests
        BY ElementAt DEF TypeOK
      <3> QED
        BY <3>1 DEF Requests
    <2> QED
      BY <1>0, <1>1, <1>2, <2>1 DEF StampInv
  <1> QED
    BY <1>1, <1>6, <1>7, <1>8, <1>9, <1>10, <1>11 DEF StampInv

\* Every step keeps StampInv.
LEMMA StampStep ==
    ASSUME TypeInv, StampInv, [Next]_vars
    PROVE  StampInv'
  <1>1. CASE PlatformStart
    <2>1. /\ current \in Nat /\ context \in Nat /\ current' = current + 1 /\ current <= context
          /\ UNCHANGED <<context, seen, preInvoke, held, traces, stampVars>>
          /\ \A l \in Logs : origin[l] \in Nat
      BY <1>1, LimitAssumption DEF PlatformStart, holdVars, TypeInv, TypeOK
    <2>2. StampedRight' /\ TraceOfOwnRequest' /\ HeldAwaitsTrace'
      BY <2>1 DEF StampInv, StampedRight, TraceOfOwnRequest, HeldAwaitsTrace, stampVars
    <2> QED
      BY <2>1, <2>2 DEF StampInv, stampVars
  <1>2. CASE ShutdownFlush
    <2>1. /\ UNCHANGED <<streamVars, stampVars, traces>> /\ preInvoke' = {}
          /\ \A r \in Requests : held'[r] = {}
      BY <1>2 DEF ShutdownFlush
    <2> QED
      BY <2>1, StampSame DEF TypeInv
  <1>3. CASE UNCHANGED <<streamVars, stampVars, traces, preInvoke, held>>
    <2>1. preInvoke' \subseteq preInvoke /\ \A r \in Requests : held'[r] \subseteq held[r]
      BY <1>3
    <2> QED
      BY <1>3, <2>1, StampSame DEF TypeInv
  <1>4. \/ \E l \in Logs : process_record(l) \/ DiscardRecord(l) \/ add_log_to_batch(l)
        \/ \E r \in Requests : on_trace_id_extracted(r)
        \/ Invoke \/ PlatformStart \/ ShutdownFlush
        \/ UNCHANGED <<streamVars, stampVars, traces, preInvoke, held>>
    BY StepIs, Zenon
    DEF AutoFlushChunk, RetryChunk, FlushAutoDone, FlushChunk, DeadlinePassed, RuntimeDoneNoGrace,
        GraceOver, EndOfWait, ShutdownPass, EmergencyFlush, Stop, Settling, ShutdownDone,
        EmergencyDone, ShutdownTimeOut, Exit, LastSendChunk, RuntimeDoneGrace, ProcessDone,
        vars, holdVars
  <1> QED
    BY <1>1, <1>2, <1>3, <1>4, StampDeliver, StampTrace, StampInvoke

\* StampInv always holds.
LEMMA StampAlways == Spec => []StampInv
  <1>1. ASSUME TypeInv, StampInv, [Next]_vars PROVE StampInv'
    BY <1>1, StampStep
  <1> QED
    BY <1>1, StampInit, TypeAlways, PTL DEF Spec

\* A log carries the request id of the request that wrote it, also when it is delivered after
\* the event loop has gone on to a later invocation.
THEOREM StampedWithItsRequest == Spec => []StampedRight
  <1>1. StampInv => StampedRight
    BY DEF StampInv
  <1> QED
    BY <1>1, StampAlways, PTL

\* No log carries the trace.id of another request than the one it is stamped with.
THEOREM TracedWithItsRequest == Spec => []TraceOfOwnRequest
  <1>1. StampInv => TraceOfOwnRequest
    BY DEF StampInv
  <1> QED
    BY <1>1, StampAlways, PTL

\* No log waits for a trace.id that is known.
THEOREM KnownTraceReleases == Spec => []HeldAwaitsTrace
  <1>1. StampInv => HeldAwaitsTrace
    BY DEF StampInv
  <1> QED
    BY <1>1, StampAlways, PTL

-----------------------------------------------------------------------------
(* Who awaits a flush, and a retry.                                        *)

Active == {"waiting", "grace", "flushing"}

\* A flush has logs only while it sends them.  A request's task has one only at its end, the
\* event loop only in the last part of SHUTDOWN, to which no task is left.  A task starts with
\* its INVOKE.
FlushInv ==
    /\ \A f \in Flushers : flush[f].stage # "sending" => flush[f].logs = {}
    /\ \A r \in Requests : task[r] # "flushing" => flush[r].stage = "none"
    /\ \A r \in Requests : r > context => task[r] = "none"
    /\ loop \notin {"drain", "lastFlush"} \cup Ended => flush[None].stage = "none"
    /\ loop \notin {"drain"} \cup Ended => lastSend = {}
    /\ loop \in {"settle", "drain"} => AllDone

\* Without pipeline_flush one task at most is active, the current request's, and the event
\* loop awaits it; a retry runs only then, or in SHUTDOWN's last part, and the flush to come,
\* or the one in progress, awaits it.
RetryInv ==
    ~PipelineFlush =>
        /\ \A r \in Requests : task[r] \in Active => r = context /\ loop = "awaiting"
        /\ loop = "awaiting" => context \in Requests /\ task[context] \in Active
        /\ loop \in {"next", "flush", "settle"} => retries = {}
        /\ loop = "awaiting" => \A t \in retries :
              /\ t.id = context
              /\ task[context] \in {"waiting", "grace"} => retrySlot = context
              /\ task[context] = "flushing" => flush[context].retry = context
        /\ loop = "drain" => \A t \in retries : t.id = flush[None].retry

\* Nothing is being sent.
LEMMA FlushInit == Init => FlushInv /\ RetryInv
  BY DEF Init, FlushInv, RetryInv, NoFlush, Flush, AllDone, Active, Flushers, Ended, Requests, None

\* FlushInv and RetryInv are about these.
LEMMA FlushSame ==
    ASSUME FlushInv, RetryInv, UNCHANGED <<flush, task, loop, lastSend, context, retries, retrySlot>>
    PROVE  FlushInv' /\ RetryInv'
  BY DEF FlushInv, RetryInv, AllDone

\* FlushInv when a flush begins or goes on.
LEMMA FlushBegunInv ==
    ASSUME TypeOK, FlushInv, NEW f \in Flushers, NEW b, NEW h, NEW slot, FlushBegun(f, b, h, slot)
    PROVE  /\ flush'[f].stage # "none" /\ flush'[f].retry = slot
           /\ \A g \in Flushers \ {f} : flush'[g] = flush[g]
           /\ \A g \in Flushers : flush'[g].stage # "sending" => flush'[g].logs = {}
  <1>1. /\ flush'[f].stage # "none" /\ flush'[f].retry = slot
        /\ flush'[f].stage # "sending" => flush'[f].logs = {}
    BY DEF FlushBegun, Taken
  <1>2. \A g \in Flushers \ {f} : flush'[g] = flush[g]
    <2>1. PICK w : w = flush'[f]
      OBVIOUS
    <2>2. flush' = [flush EXCEPT ![f] = w]
      BY <2>1 DEF FlushBegun
    <2> QED
      BY <2>2 DEF TypeOK
  <1> QED
    BY <1>1, <1>2 DEF FlushInv

\* A request is not the event loop.
LEMMA RequestNotNone == \A r \in Requests : r # None /\ r \in Flushers
  BY DEF Requests, None, Flushers

\* FlushInv and RetryInv after a step of a flush.
LEMMA FlushInvFlush ==
    ASSUME TypeOK, FlushInv, RetryInv, NEW f \in Flushers,
           FlushAutoDone(f) \/ \E out \in Fates(flush[f].logs) : FlushChunk(f, out)
    PROVE  FlushInv' /\ RetryInv'
  <1>1. /\ UNCHANGED <<loop, task, context, retries, retrySlot, lastSend>>
        /\ flush[f].stage \in {"auto", "sending"}
    BY Zenon DEF FlushAutoDone, FlushChunk, streamVars, retryVars, shutVars
  <1>2. /\ flush'[f].stage # "none" /\ flush'[f].retry = flush[f].retry
        /\ \A g \in Flushers \ {f} : flush'[g] = flush[g]
        /\ \A g \in Flushers : flush'[g].stage # "sending" => flush'[g].logs = {}
    <2>1. CASE FlushAutoDone(f)
      <3>1. /\ batch \in SUBSET Logs /\ handle \in SUBSET Logs
            /\ flush[f].retry \in RetryIds \cup {None}
        BY TasksAre
      <3>2. FlushBegun(f, batch, handle, flush[f].retry)
        BY <2>1, <3>1, DrainIs DEF FlushAutoDone
      <3> QED
        BY <3>2, FlushBegunInv
    <2>2. ASSUME NEW out \in Fates(flush[f].logs), FlushChunk(f, out)
          PROVE  /\ flush'[f].stage # "none" /\ flush'[f].retry = flush[f].retry
                 /\ \A g \in Flushers \ {f} : flush'[g] = flush[g]
                 /\ \A g \in Flushers : flush'[g].stage # "sending" => flush'[g].logs = {}
      <3>1. PICK left : left = flush[f].logs \ DOMAIN out
        OBVIOUS
      <3>2. /\ flush[f] \in FlushRecords /\ flush[f].retry \in RetryIds \cup {None}
            /\ left \in SUBSET Logs /\ flush[f].stage = "sending"
        BY <2>2, <3>1, TasksAre DEF FlushChunk
      <3>3. \/ flush' = [flush EXCEPT ![f] = [flush[f] EXCEPT !.logs = left]]
            \/ flush' = [flush EXCEPT ![f] = Flush("joining", {}, {}, flush[f].retry)]
        BY <2>2, <3>1 DEF FlushChunk
      <3>4. PICK w \in FlushRecords :
              /\ flush' = [flush EXCEPT ![f] = w]
              /\ w.retry = flush[f].retry /\ w.stage # "none"
              /\ w.stage # "sending" => w.logs = {}
        <4>1. CASE flush' = [flush EXCEPT ![f] = [flush[f] EXCEPT !.logs = left]]
          <5>1. PICK w : w = [flush[f] EXCEPT !.logs = left]
            OBVIOUS
          <5>2. w \in FlushRecords /\ w.stage = "sending" /\ w.retry = flush[f].retry
            BY <3>2, <5>1, LessLeft
          <5> QED
            BY <4>1, <5>1, <5>2
        <4>2. CASE flush' = [flush EXCEPT ![f] = Flush("joining", {}, {}, flush[f].retry)]
          <5>1. PICK w : w = Flush("joining", {}, {}, flush[f].retry)
            OBVIOUS
          <5>2. /\ w \in FlushRecords /\ w.stage = "joining" /\ w.retry = flush[f].retry
                /\ w.logs = {}
            BY <3>2, <5>1, FlushIs
          <5> QED
            BY <4>2, <5>1, <5>2
        <4> QED
          BY <3>3, <4>1, <4>2
      <3>5. flush'[f] = w /\ \A g \in Flushers \ {f} : flush'[g] = flush[g]
        BY <3>4, NewFlush
      <3> QED
        BY <3>4, <3>5 DEF FlushInv
    <2> QED
      BY <2>1, <2>2
  <1>3. FlushInv'
    <2>1. \A r \in Requests : task'[r] # "flushing" => flush'[r].stage = "none"
      BY <1>1, <1>2, RequestNotNone DEF FlushInv
    <2>2. loop' \notin {"drain", "lastFlush"} \cup Ended => flush'[None].stage = "none"
      <3>1. None \in Flushers
        BY DEF Flushers
      <3> QED
        BY <1>1, <1>2, <3>1 DEF FlushInv
    <2> QED
      BY <1>1, <1>2, <2>1, <2>2 DEF FlushInv, AllDone
  <1>4. RetryInv'
    <2>1. \A g \in Flushers : flush'[g].retry = flush[g].retry
      BY <1>2
    <2> QED
      BY <1>1, <2>1, RequestNotNone DEF RetryInv, Flushers
  <1> QED
    BY <1>3, <1>4

\* FlushInv and RetryInv when a request's flush begins.
LEMMA FlushInvWait ==
    ASSUME TypeOK, FlushInv, RetryInv, NEW r \in Requests,
           DeadlinePassed(r) \/ RuntimeDoneNoGrace(r) \/ GraceOver(r)
    PROVE  FlushInv' /\ RetryInv'
  <1>1. /\ task[r] \in {"waiting", "grace"}
        /\ task' = [task EXCEPT ![r] = "flushing"]
        /\ FlushBegin(r, batch, auto, handle, retrySlot)
        /\ UNCHANGED <<loop, context, retries, lastSend>>
    BY Zenon DEF DeadlinePassed, RuntimeDoneNoGrace, GraceOver, EndOfWait, streamVars, shutVars
  <1>2. /\ r \in Flushers /\ r # None /\ batch \in SUBSET Logs /\ handle \in SUBSET Logs
        /\ retrySlot \in RetryIds \cup {None}
    BY TasksAre, RequestNotNone
  <1>3. FlushBegun(r, batch, handle, retrySlot)
    BY <1>1, <1>2, FlushBeginIs
  <1>4. /\ flush'[r].retry = retrySlot
        /\ \A g \in Flushers \ {r} : flush'[g] = flush[g]
        /\ \A g \in Flushers : flush'[g].stage # "sending" => flush'[g].logs = {}
    BY <1>2, <1>3, FlushBegunInv
  <1>5. /\ task'[r] = "flushing" /\ \A q \in Requests \ {r} : task'[q] = task[q]
    BY <1>1 DEF TypeOK
  <1>6. FlushInv'
    <2>1. \A q \in Requests : task'[q] # "flushing" => flush'[q].stage = "none"
      BY <1>4, <1>5, RequestNotNone DEF FlushInv
    <2>2. None \in Flushers \ {r}
      BY <1>2 DEF Flushers
    <2>3. ~AllDone
      BY <1>1 DEF AllDone
    <2> QED
      BY <1>1, <1>4, <2>1, <2>2, <2>3 DEF FlushInv
  <1>7. RetryInv'
    <2>1. CASE PipelineFlush
      BY <2>1 DEF RetryInv
    <2>2. CASE ~PipelineFlush
      <3>1. r = context /\ loop = "awaiting"
        BY <1>1, <2>2 DEF RetryInv, Active
      <3>2. \A t \in retries : t.id = context /\ retrySlot = context
        BY <1>1, <2>2, <3>1 DEF RetryInv
      <3>3. \A q \in Requests : task'[q] \in Active => q = context' /\ loop' = "awaiting"
        BY <1>1, <1>5, <2>2, <3>1 DEF RetryInv
      <3>4. loop' = "awaiting" => context' \in Requests /\ task'[context'] \in Active
        BY <1>1, <1>5, <3>1 DEF Active
      <3> QED
        BY <1>1, <1>4, <1>5, <2>2, <3>1, <3>2, <3>3, <3>4 DEF RetryInv
    <2> QED
      BY <2>1, <2>2
  <1> QED
    BY <1>6, <1>7

\* FlushInv and RetryInv after an INVOKE: a retry it starts is in the slot.
LEMMA FlushInvInvoke ==
    ASSUME TypeOK, FlushInv, RetryInv, Invoke
    PROVE  FlushInv' /\ RetryInv'
  <1>0. PICK r : r = context + 1
    OBVIOUS
  <1>1. /\ loop = "next" /\ context < Invocations /\ context' = r
        /\ start_invocation_retry(r) /\ retrySlot' = SlotAfterRetry(r)
        /\ task' = [task EXCEPT ![r] = "waiting"]
        /\ loop' = IF PipelineFlush THEN "next" ELSE "awaiting"
        /\ UNCHANGED <<flush, lastSend>>
    BY <1>0 DEF Invoke, shutVars
  <1>2. r \in Requests /\ r \in RetryIds
    BY <1>0, <1>1, LimitAssumption DEF TypeOK, Requests, RetryIds
  <1>3. task'[r] = "waiting" /\ \A q \in Requests \ {r} : task'[q] = task[q]
    BY <1>1, <1>2 DEF TypeOK
  <1>4. PICK again : /\ retries' = IF again = {} THEN retries
                                   ELSE retries \cup {[id |-> r, left |-> again]}
                     /\ SlotAfterRetry(r) = IF again = {} THEN retrySlot ELSE r
    BY <1>1, <1>2, RetryIs
  <1>5. ASSUME ~PipelineFlush
        PROVE  RetryInv'
    <2>1. retries = {} /\ \A q \in Requests : task[q] \notin Active
      BY <1>1, <1>5 DEF RetryInv
    <2>2. \A t \in retries' : t.id = r /\ retrySlot' = r
      <3>1. CASE again = {}
        BY <1>4, <2>1, <3>1
      <3>2. CASE again # {}
        BY <1>1, <1>4, <2>1, <3>2
      <3> QED
        BY <3>1, <3>2
    <2>3. loop' = "awaiting" /\ context' = r
      BY <1>1, <1>5
    <2>4. \A q \in Requests : task'[q] \in Active => q = r
      BY <1>3, <2>1
    <2>5. task'[r] = "waiting" /\ task'[r] \in Active
      BY <1>3 DEF Active
    <2>6. \A q \in Requests : task'[q] \in Active => q = context' /\ loop' = "awaiting"
      BY <2>3, <2>4
    <2>7. context' \in Requests /\ task'[context'] = "waiting" /\ task'[context'] \in Active
      BY <1>2, <2>3, <2>5
    <2>8. \A t \in retries' : t.id = context' /\ retrySlot' = context'
      BY <2>2, <2>3
    <2>9. /\ loop' \in {"next", "flush", "settle"} => retries' = {}
          /\ loop' = "drain" => \A t \in retries' : t.id = flush'[None].retry
      BY <2>3
    <2>10. loop' = "awaiting" =>
             \A t \in retries' :
                /\ t.id = context'
                /\ task'[context'] \in {"waiting", "grace"} => retrySlot' = context'
                /\ task'[context'] = "flushing" => flush'[context'].retry = context'
      BY <2>7, <2>8
    <2>11. loop' = "awaiting" => context' \in Requests /\ task'[context'] \in Active
      BY <2>7
    <2> QED
      BY <2>6, <2>9, <2>10, <2>11, Zenon DEF RetryInv
  <1>6. FlushInv'
    <2>1. flush[None].stage = "none" /\ lastSend = {} /\ loop' \notin {"settle", "drain"}
      BY <1>1 DEF FlushInv, Ended
    <2>2. r > context
      BY <1>0 DEF TypeOK
    <2>3. \A q \in Requests : q > r => q > context /\ q # r
      BY <1>0 DEF TypeOK, Requests
    <2>4. task[r] = "none" /\ flush[r].stage = "none"
      BY <1>2, <2>2 DEF FlushInv
    <2>5. \A q \in Requests : task'[q] # "flushing" => flush'[q].stage = "none"
      BY <1>1, <1>3, <2>4 DEF FlushInv
    <2>6. \A q \in Requests : q > context' => task'[q] = "none"
      BY <1>1, <1>3, <2>3 DEF FlushInv
    <2> QED
      BY <1>1, <2>1, <2>5, <2>6 DEF FlushInv
  <1> QED
    BY <1>5, <1>6 DEF RetryInv

\* FlushInv and RetryInv after the end of a request's task.
LEMMA FlushInvDone ==
    ASSUME TypeOK, FlushInv, RetryInv, NEW r \in Requests, ProcessDone(r)
    PROVE  FlushInv' /\ RetryInv'
  <1>1. /\ task[r] = "flushing" /\ Joined(r)
        /\ flush' = [flush EXCEPT ![r] = NoFlush]
        /\ task' = [task EXCEPT ![r] = "done"]
        /\ loop' = IF loop = "awaiting" THEN "next" ELSE loop
        /\ UNCHANGED <<context, retries, retrySlot, lastSend>>
    BY DEF ProcessDone, streamVars, retryVars, shutVars
  <1>2. /\ NoFlush \in FlushRecords /\ NoFlush.stage = "none" /\ NoFlush.logs = {}
        /\ r \in Flushers /\ r # None
    BY RequestNotNone DEF NoFlush, Flush, FlushRecords
  <1>3. flush'[r] = NoFlush /\ \A g \in Flushers \ {r} : flush'[g] = flush[g]
    BY <1>1, <1>2, NewFlush
  <1>4. task'[r] = "done" /\ \A q \in Requests \ {r} : task'[q] = task[q]
    BY <1>1 DEF TypeOK
  <1>5. ~AllDone
    BY <1>1 DEF AllDone
  <1>6. FlushInv'
    <2>1. \A f \in Flushers : flush'[f].stage # "sending" => flush'[f].logs = {}
      BY <1>2, <1>3 DEF FlushInv
    <2>2. \A q \in Requests : task'[q] # "flushing" => flush'[q].stage = "none"
      BY <1>2, <1>3, <1>4, RequestNotNone DEF FlushInv
    <2>3. flush'[None] = flush[None]
      BY <1>2, <1>3 DEF Flushers
    <2> QED
      BY <1>1, <1>5, <2>1, <2>2, <2>3 DEF FlushInv, Ended
  <1>7. RetryInv'
    <2>1. CASE PipelineFlush
      BY <2>1 DEF RetryInv
    <2>2. CASE ~PipelineFlush
      <3>1. r = context /\ loop = "awaiting" /\ loop' = "next"
        BY <1>1, <2>2 DEF RetryInv, Active
      <3>2. \A t \in retries : t.id = flush[r].retry
        BY <1>1, <2>2, <3>1 DEF RetryInv
      <3>3. retries = {}
        BY <1>1, <3>2 DEF Joined, RetryRuns
      <3>4. \A q \in Requests : task'[q] \notin Active
        BY <1>4, <2>2, <3>1 DEF RetryInv, Active
      <3> QED
        BY <1>1, <3>1, <3>3, <3>4 DEF RetryInv
    <2> QED
      BY <2>1, <2>2
  <1> QED
    BY <1>6, <1>7

\* FlushInv and RetryInv after the steps of SHUTDOWN that begin a flush.
LEMMA FlushInvShutdown ==
    ASSUME TypeOK, FlushInv, RetryInv, ShutdownFlush \/ ShutdownPass \/ EmergencyFlush
    PROVE  FlushInv' /\ RetryInv'
  <1>0. /\ None \in Flushers /\ batch \in SUBSET Logs /\ handle \in SUBSET Logs
        /\ retrySlot \in RetryIds \cup {None}
    BY TasksAre DEF Flushers
  <1>1. CASE EmergencyFlush
    <2>1. /\ loop = "emergency" /\ loop' = "lastFlush"
          /\ FlushBegin(None, batch, auto, handle, retrySlot)
          /\ UNCHANGED <<task, context, retries, lastSend>>
      BY <1>1 DEF EmergencyFlush, streamVars, shutVars
    <2>2. FlushBegun(None, batch, handle, retrySlot)
      BY <1>0, <2>1, FlushBeginIs
    <2>3. /\ \A g \in Flushers \ {None} : flush'[g] = flush[g]
          /\ \A g \in Flushers : flush'[g].stage # "sending" => flush'[g].logs = {}
      BY <1>0, <2>2, FlushBegunInv
    <2> QED
      BY <2>1, <2>3, RequestNotNone DEF FlushInv, RetryInv, Ended
  <1>2. CASE ShutdownFlush
    <2>1. /\ loop = "settle" /\ loop' = "drain"
          /\ UNCHANGED <<task, context, retries>>
      BY <1>2 DEF ShutdownFlush, streamVars
    <2>2. PICK b \in SUBSET Logs, a \in SUBSET [key : SUBSET Logs, left : SUBSET Logs],
               h \in SUBSET Logs : FlushBegin(None, b, a, h, retrySlot)
      BY <1>2, UnstampedIs
    <2>3. FlushBegun(None, b, h, retrySlot)
      BY <1>0, <2>2, FlushBeginIs
    <2>4. /\ \A g \in Flushers \ {None} : flush'[g] = flush[g]
          /\ \A g \in Flushers : flush'[g].stage # "sending" => flush'[g].logs = {}
      BY <1>0, <2>3, FlushBegunInv
    <2>5. AllDone /\ AllDone'
      BY <2>1 DEF FlushInv, AllDone
    <2> QED
      BY <2>1, <2>4, <2>5, RequestNotNone DEF FlushInv, RetryInv
  <1>3. CASE ShutdownPass
    <2>0. PICK id : id = Invocations + pass'
      OBVIOUS
    <2>1. /\ loop = "drain" /\ Joined(None)
          /\ pass < MaxRetries /\ pass' = pass + 1
          /\ start_invocation_retry(id)
          /\ FlushBegin(None, batch, auto, handle, SlotAfterRetry(id))
          /\ UNCHANGED <<loop, task, context, lastSend>>
      BY <1>3, <2>0 DEF ShutdownPass, streamVars
    <2>2. id \in RetryIds
      BY <2>0, <2>1, LimitAssumption DEF TypeOK, RetryIds
    <2>3. SlotAfterRetry(id) \in RetryIds \cup {None}
      BY <2>1, <2>2, RetryIs
    <2>4. PICK again : /\ retries' = IF again = {} THEN retries
                                     ELSE retries \cup {[id |-> id, left |-> again]}
                       /\ SlotAfterRetry(id) = IF again = {} THEN retrySlot ELSE id
      BY <2>1, <2>2, RetryIs
    <2>5. PICK slot : slot = SlotAfterRetry(id)
      OBVIOUS
    <2>6. FlushBegun(None, batch, handle, slot)
      BY <1>0, <2>1, <2>3, <2>5, FlushBeginIs
    <2>7. /\ flush'[None].retry = slot
          /\ \A g \in Flushers \ {None} : flush'[g] = flush[g]
          /\ \A g \in Flushers : flush'[g].stage # "sending" => flush'[g].logs = {}
      BY <1>0, <2>6, FlushBegunInv
    <2>8. FlushInv'
      BY <2>1, <2>7, RequestNotNone DEF FlushInv, AllDone
    <2>9. ASSUME ~PipelineFlush
          PROVE  \A t \in retries' : t.id = flush'[None].retry
      <3>1. retries = {}
        BY <2>1, <2>9 DEF RetryInv, Joined, RetryRuns
      <3>2. CASE again = {}
        BY <2>4, <3>1, <3>2
      <3>3. CASE again # {}
        BY <2>4, <2>5, <2>7, <3>1, <3>3
      <3> QED
        BY <3>2, <3>3
    <2> QED
      BY <2>1, <2>8, <2>9 DEF RetryInv
  <1> QED
    BY <1>1, <1>2, <1>3

\* Every step keeps FlushInv and RetryInv.
LEMMA FlushStep ==
    ASSUME TypeInv, FlushInv, RetryInv, [Next]_vars
    PROVE  FlushInv' /\ RetryInv'
  <1> USE DEF TypeInv
  <1>1. ASSUME NEW t \in retries, NEW out \in Fates(t.left), RetryChunk(t, out)
        PROVE  FlushInv' /\ RetryInv'
    <2>1. UNCHANGED <<flush, task, loop, lastSend, context, retrySlot>>
      BY <1>1 DEF RetryChunk, streamVars, shutVars
    <2>2. \A u \in retries' : \E v \in retries : u.id = v.id
      <3>1. PICK left : left = t.left \ DOMAIN out
        OBVIOUS
      <3>2. retries' = (retries \ {t}) \cup (IF left = {} THEN {} ELSE {[t EXCEPT !.left = left]})
        BY <1>1, <3>1 DEF RetryChunk
      <3>3. t \in [id : RetryIds, left : SUBSET Logs] /\ left \in SUBSET Logs
        BY <3>1 DEF TypeOK
      <3>4. PICK u : u = [t EXCEPT !.left = left]
        OBVIOUS
      <3>5. u.id = t.id
        BY <3>3, <3>4, LessLeft
      <3>6. retries' \subseteq retries \cup {u}
        BY <3>2, <3>4
      <3> QED
        BY <3>5, <3>6
    <2>3. FlushInv'
      BY <2>1 DEF FlushInv, AllDone
    <2>4. retries = {} => retries' = {}
      BY <2>2
    <2> QED
      BY <2>1, <2>2, <2>3, <2>4 DEF RetryInv
  <1>2. ASSUME NEW r \in Requests, RuntimeDoneGrace(r)
        PROVE  FlushInv' /\ RetryInv'
    <2>1. /\ task[r] = "waiting" /\ task' = [task EXCEPT ![r] = "grace"]
          /\ UNCHANGED <<flush, loop, lastSend, context, retries, retrySlot>>
      BY <1>2 DEF RuntimeDoneGrace, streamVars, shutVars, retryVars
    <2>2. task'[r] = "grace" /\ \A q \in Requests \ {r} : task'[q] = task[q]
      BY <2>1 DEF TypeOK
    <2>3. ~AllDone
      BY <2>1 DEF AllDone
    <2>4. FlushInv'
      BY <2>1, <2>2, <2>3 DEF FlushInv
    <2>5. RetryInv'
      BY <2>1, <2>2 DEF RetryInv, Active
    <2> QED
      BY <2>4, <2>5
  <1>3. CASE Stop("flush") \/ Stop("emergency") \/ Settling
    <2>1. /\ UNCHANGED <<flush, task, lastSend, context, retries, retrySlot>>
          /\ \/ loop = "next" /\ loop' \in {"flush", "emergency"}
             \/ loop = "flush" /\ loop' = "settle" /\ AllDone
      BY <1>3 DEF Stop, Settling, streamVars, shutVars, retryVars
    <2>2. AllDone => AllDone'
      BY <2>1 DEF AllDone
    <2> QED
      BY <2>1, <2>2 DEF FlushInv, RetryInv, Ended
  <1>4. CASE ShutdownDone \/ EmergencyDone \/ ShutdownTimeOut
    <2>1. /\ UNCHANGED <<flush, task, lastSend, context, retries, retrySlot>>
          /\ loop' \in Ended /\ loop \in Stopping \cup {"emergency", "lastFlush"}
      BY <1>4 DEF ShutdownDone, EmergencyDone, ShutdownTimeOut, Exit, Ended, Stopping, streamVars,
                  shutVars, retryVars
    <2> QED
      BY <2>1 DEF FlushInv, RetryInv, Ended, Stopping
  <1>5. ASSUME NEW out \in Fates(lastSend), LastSendChunk(out)
        PROVE  FlushInv' /\ RetryInv'
    <2>1. /\ loop = "drain"
          /\ UNCHANGED <<flush, task, loop, context, retries, retrySlot>>
      BY <1>5 DEF LastSendChunk, streamVars, retryVars
    <2> QED
      BY <2>1 DEF FlushInv, RetryInv, AllDone
  <1>6. CASE UNCHANGED <<flush, task, loop, lastSend, context, retries, retrySlot>>
    BY <1>6, FlushSame
  <1>7. \/ \E t \in retries : \E out \in Fates(t.left) : RetryChunk(t, out)
        \/ \E f \in Flushers : FlushAutoDone(f) \/ \E out \in Fates(flush[f].logs) : FlushChunk(f, out)
        \/ \E r \in Requests : DeadlinePassed(r) \/ RuntimeDoneNoGrace(r) \/ GraceOver(r)
        \/ Invoke
        \/ ShutdownFlush \/ ShutdownPass \/ EmergencyFlush
        \/ Stop("flush") \/ Stop("emergency") \/ Settling
        \/ ShutdownDone \/ EmergencyDone \/ ShutdownTimeOut
        \/ \E out \in Fates(lastSend) : LastSendChunk(out)
        \/ \E r \in Requests : RuntimeDoneGrace(r) \/ ProcessDone(r)
        \/ UNCHANGED <<flush, task, loop, lastSend, context, retries, retrySlot>>
    BY StepIs, Zenon
    DEF AutoFlushChunk, process_record, DiscardRecord, add_log_to_batch, Deliver, PlatformStart,
        on_trace_id_extracted, vars, streamVars, shutVars, retryVars
  <1> QED
    BY <1>1, <1>2, <1>3, <1>4, <1>5, <1>6, <1>7, FlushInvFlush, FlushInvWait, FlushInvInvoke,
       FlushInvDone, FlushInvShutdown, Zenon

\* FlushInv and RetryInv always hold.
LEMMA FlushAlways == Spec => [](FlushInv /\ RetryInv)
  <1>1. ASSUME TypeInv, FlushInv /\ RetryInv, [Next]_vars PROVE (FlushInv /\ RetryInv)'
    BY <1>1, FlushStep
  <1> QED
    BY <1>1, FlushInit, TypeAlways, PTL DEF Spec

\* Without pipeline_flush no retry task is in flight when the extension asks for the next event.
THEOREM NoRetryIsFrozen == Spec => []RetryEndsWithInvocation
  <1>1. RetryInv => RetryEndsWithInvocation
    BY DEF RetryInv, RetryEndsWithInvocation
  <1> QED
    BY <1>1, FlushAlways, PTL

-----------------------------------------------------------------------------
(* Where a log is.                                                         *)

InHeld(l)   == \E r \in Requests : l \in held[r]
InAuto(l)   == \E t \in auto : l \in t.left
InRetry(l)  == \E t \in retries : l \in t.left
InFlush(l)  == \E f \in Flushers : l \in flush[f].logs
InFailed(l) == \E k \in Kinds : l \in ToSet(failed[k])

Somewhere(l) ==
    \/ l \in preInvoke \/ l \in batch \/ l \in lastSend
    \/ InHeld(l) \/ InAuto(l) \/ InRetry(l) \/ InFlush(l) \/ InFailed(l)

\* In one place only,
Apart(l) ==
    /\ l \in preInvoke =>
         l \notin batch /\ l \notin lastSend /\ ~InHeld(l) /\ ~InAuto(l) /\ ~InRetry(l)
         /\ ~InFlush(l) /\ ~InFailed(l)
    /\ l \in batch =>
         l \notin lastSend /\ ~InHeld(l) /\ ~InAuto(l) /\ ~InRetry(l) /\ ~InFlush(l) /\ ~InFailed(l)
    /\ l \in lastSend =>
         ~InHeld(l) /\ ~InAuto(l) /\ ~InRetry(l) /\ ~InFlush(l) /\ ~InFailed(l)
    /\ InHeld(l)  => ~InAuto(l) /\ ~InRetry(l) /\ ~InFlush(l) /\ ~InFailed(l)
    /\ InAuto(l)  => ~InRetry(l) /\ ~InFlush(l) /\ ~InFailed(l)
    /\ InRetry(l) => ~InFlush(l) /\ ~InFailed(l)
    /\ InFlush(l) => ~InFailed(l)

\* and with one task, in one bucket.
OneHeld(l)  == \A q, r \in Requests : l \in held[q] /\ l \in held[r] => q = r
OneAuto(l)  == \A t, u \in auto : l \in t.left /\ l \in u.left => t = u
OneRetry(l) == \A t, u \in retries : l \in t.left /\ l \in u.left => t = u
OneFlush(l) == \A f, g \in Flushers : l \in flush[f].logs /\ l \in flush[g].logs => f = g

\* A log received is in one place, was sent, or was given up.
Placed(l) ==
    /\ Apart(l) /\ OneHeld(l) /\ OneAuto(l) /\ OneRetry(l) /\ OneFlush(l)
    /\ Somewhere(l) => l \in seen
    /\ l \in seen => Somewhere(l) \/ l \in sent \/ l \in givenUp

\* A queue of failed logs has those of its type only.
FailedInv == \A k \in Kinds : ToSet(failed[k]) \subseteq k

PlaceInv == FailedInv /\ \A l \in Logs : Placed(l)

\* What the process holds is what is somewhere.
LEMMA SomewhereIs == \A l : l \in InMemory <=> Somewhere(l)
  <1> SUFFICES ASSUME NEW l PROVE l \in InMemory <=> Somewhere(l)
    OBVIOUS
  <1>1. /\ l \in HeldLogs(held) <=> InHeld(l)
        /\ l \in AutoLogs <=> InAuto(l)
        /\ l \in RetryLogs <=> InRetry(l)
        /\ l \in FlushLogs <=> InFlush(l)
        /\ l \in FailedLogs(failed) <=> InFailed(l)
    BY DEF HeldLogs, AutoLogs, RetryLogs, FlushLogs, FailedLogs, InHeld, InAuto, InRetry, InFlush,
           InFailed
  <1> QED
    BY <1>1 DEF InMemory, Somewhere

\* Nothing has been received.
LEMMA PlaceInit == Init => PlaceInv
  <1> SUFFICES ASSUME Init PROVE PlaceInv
    OBVIOUS
  <1>1. \A k \in Kinds : ToSet(failed[k]) = {}
    BY DEF Init, ToSet
  <1>2. \A l : ~InHeld(l) /\ ~InFlush(l) /\ ~InFailed(l)
    BY <1>1 DEF Init, InHeld, InFlush, InFailed, NoFlush, Flush
  <1>3. \A l : ~InAuto(l) /\ ~InRetry(l)
    BY DEF Init, InAuto, InRetry
  <1>4. \A l : OneHeld(l) /\ OneAuto(l) /\ OneRetry(l) /\ OneFlush(l)
    BY <1>2, <1>3 DEF InHeld, InAuto, InRetry, InFlush, OneHeld, OneAuto, OneRetry, OneFlush
  <1>5. preInvoke = {} /\ batch = {} /\ lastSend = {} /\ seen = {}
    BY DEF Init
  <1>6. \A l : ~Somewhere(l)
    BY <1>2, <1>3, <1>5 DEF Somewhere
  <1>7. \A l \in Logs : Placed(l)
    BY <1>2, <1>3, <1>4, <1>5, <1>6 DEF Placed, Apart
  <1> QED
    BY <1>1, <1>7 DEF PlaceInv, FailedInv

\* A place that does not change.
LEMMA PlaceSame ==
    ASSUME NEW l
    PROVE  /\ UNCHANGED held    => (InHeld(l)' <=> InHeld(l)) /\ (OneHeld(l)' <=> OneHeld(l))
           /\ UNCHANGED auto    => (InAuto(l)' <=> InAuto(l)) /\ (OneAuto(l)' <=> OneAuto(l))
           /\ UNCHANGED retries => (InRetry(l)' <=> InRetry(l)) /\ (OneRetry(l)' <=> OneRetry(l))
           /\ UNCHANGED flush   => (InFlush(l)' <=> InFlush(l)) /\ (OneFlush(l)' <=> OneFlush(l))
           /\ UNCHANGED failed  => (InFailed(l)' <=> InFailed(l)) /\ (FailedInv' <=> FailedInv)
  BY DEF InHeld, InAuto, InRetry, InFlush, InFailed, OneHeld, OneAuto, OneRetry, OneFlush, FailedInv

\* Logs join the batch, or the whole batch becomes an auto-flush task's.
LEMMA SpawnPlaces ==
    ASSUME TypeOK, NEW b \in SUBSET Logs, try_spawn_auto_flush(b), NEW l
    PROVE  \/ /\ l \in batch' <=> l \in b
              /\ (InAuto(l)' <=> InAuto(l)) /\ (OneAuto(l)' <=> OneAuto(l))
           \/ /\ l \notin batch'
              /\ InAuto(l)' <=> InAuto(l) \/ l \in b
              /\ OneAuto(l) /\ (l \in b => ~InAuto(l)) => OneAuto(l)'
  <1>1. CASE batch' = b /\ auto' = auto
    BY <1>1, PlaceSame
  <1>2. CASE batch' = {} /\ auto' = auto \cup {[key |-> b, left |-> b]}
    <2>1. PICK t : t = [key |-> b, left |-> b]
      OBVIOUS
    <2>2. t.left = b /\ auto' = auto \cup {t}
      BY <1>2, <2>1
    <2>3. InAuto(l)' <=> InAuto(l) \/ l \in b
      BY <2>2 DEF InAuto
    <2>4. OneAuto(l) /\ (l \in b => ~InAuto(l)) => OneAuto(l)'
      BY <2>2 DEF InAuto, OneAuto
    <2> QED
      BY <1>2, <2>3, <2>4
  <1> QED
    BY <1>1, <1>2, SpawnIs

\* The same for the batch a flush takes: its logs were none.
LEMMA BegunPlaces ==
    ASSUME TypeOK, NEW f \in Flushers, NEW b, NEW h, NEW slot, FlushBegun(f, b, h, slot),
           flush[f].logs = {}, NEW l
    PROVE  \/ /\ l \in batch' <=> l \in b
              /\ (InFlush(l)' <=> InFlush(l)) /\ (OneFlush(l)' <=> OneFlush(l))
           \/ /\ l \notin batch'
              /\ InFlush(l)' <=> InFlush(l) \/ l \in b
              /\ OneFlush(l) /\ (l \in b => ~InFlush(l)) => OneFlush(l)'
  <1>1. \A g \in Flushers \ {f} : flush'[g] = flush[g]
    <2>1. PICK w : w = flush'[f]
      OBVIOUS
    <2>2. flush' = [flush EXCEPT ![f] = w]
      BY <2>1 DEF FlushBegun
    <2> QED
      BY <2>2 DEF TypeOK
  <1>2. \/ flush'[f].logs = {} /\ batch' = b
        \/ flush'[f].logs = b /\ batch' = {}
    BY DEF FlushBegun, Taken
  <1>3. CASE flush'[f].logs = {} /\ batch' = b
    <2>1. \A g \in Flushers : l \in flush'[g].logs <=> l \in flush[g].logs
      BY <1>1, <1>3
    <2> QED
      BY <1>3, <2>1 DEF InFlush, OneFlush
  <1>4. CASE flush'[f].logs = b /\ batch' = {}
    <2>1. InFlush(l)' <=> InFlush(l) \/ l \in b
      BY <1>1, <1>4 DEF InFlush
    <2>2. OneFlush(l) /\ (l \in b => ~InFlush(l)) => OneFlush(l)'
      BY <1>1, <1>4 DEF InFlush, OneFlush
    <2> QED
      BY <1>4, <2>1, <2>2
  <1> QED
    BY <1>2, <1>3, <1>4

\* The logs of D have been sent, are refused or out of room, or have failed and wait in the
\* queue of their type; so are those that waited there.
SettledIn(D) ==
    /\ FailedInv'
    /\ \A l \in Logs : /\ InFailed(l)' => InFailed(l) \/ l \in D
                       /\ l \in D \/ InFailed(l) \/ l \in sent \/ l \in givenUp
                            => InFailed(l)' \/ l \in sent' \/ l \in givenUp'

LEMMA SettledIf ==
    ASSUME TypeOK, FailedInv, NEW D \in SUBSET Logs,
           failed' \in [Kinds -> Seq(Logs)],
           \A k \in Kinds : ToSet(failed'[k]) \subseteq ToSet(failed[k]) \cup (D \cap k),
           sent \subseteq sent', givenUp \subseteq givenUp',
           D \cup FailedLogs(failed) \subseteq FailedLogs(failed') \cup sent' \cup givenUp'
    PROVE  SettledIn(D)
  <1>1. FailedInv'
    BY DEF FailedInv
  <1>2. /\ \A l : l \in FailedLogs(failed) <=> InFailed(l)
        /\ \A l : l \in FailedLogs(failed') <=> InFailed(l)'
    BY DEF FailedLogs, InFailed
  <1>3. \A l \in Logs : InFailed(l)' => InFailed(l) \/ l \in D
    BY DEF InFailed
  <1>4. \A l \in Logs : l \in D \/ InFailed(l) \/ l \in sent \/ l \in givenUp
                           => InFailed(l)' \/ l \in sent' \/ l \in givenUp'
    BY <1>2
  <1> QED
    BY <1>1, <1>3, <1>4 DEF SettledIn

LEMMA SettledIs ==
    ASSUME TypeOK, FailedInv, NEW S \in SUBSET Logs, NEW out \in Fates(S), Settle(out)
    PROVE  SettledIn(DOMAIN out)
  <1>1. PICK D : D = DOMAIN out
    OBVIOUS
  <1>2. With(out, "failed") \subseteq D /\ D \in SUBSET Logs
    BY <1>1, FatesAre
  <1>3. /\ failed' \in [Kinds -> Seq(Logs)]
        /\ \A k \in Kinds : ToSet(failed'[k]) \subseteq ToSet(failed[k]) \cup (With(out, "failed") \cap k)
        /\ sent \subseteq sent' /\ givenUp \subseteq givenUp'
        /\ D \cup FailedLogs(failed) \subseteq FailedLogs(failed') \cup sent' \cup givenUp'
    BY <1>1, SettleIs
  <1>4. \A k \in Kinds : ToSet(failed'[k]) \subseteq ToSet(failed[k]) \cup (D \cap k)
    BY <1>2, <1>3
  <1>5. SettledIn(D)
    BY <1>2, <1>3, <1>4, SettledIf
  <1> QED
    BY <1>1, <1>5

\* A chunk of an auto-flush task is settled.
LEMMA PlaceAuto ==
    ASSUME TypeInv, PlaceInv, NEW t \in auto, NEW out \in Fates(t.left), AutoFlushChunk(t, out)
    PROVE  PlaceInv'
  <1> USE DEF TypeInv
  <1>0. t.key \in SUBSET Logs /\ t.left \in SUBSET Logs
    BY TasksAre
  <1>1. PICK D : D = DOMAIN out
    OBVIOUS
  <1>2. /\ UNCHANGED <<seen, preInvoke, held, batch, retries, flush, lastSend>>
        /\ Settle(out)
    BY DEF AutoFlushChunk, streamVars, holdVars, retryVars, shutVars
  <1>3. PICK left : left = t.left \ D
    OBVIOUS
  <1>4. PICK u : u = [t EXCEPT !.left = left]
    OBVIOUS
  <1>5. u.left = left
    <2>1. t \in [key : SUBSET Logs, left : SUBSET Logs] /\ left \in SUBSET Logs
      BY <1>3 DEF TypeOK
    <2> QED
      BY <1>4, <2>1, LessLeft
  <1>6. auto' = IF left # {} THEN (auto \ {t}) \cup {u} ELSE auto \ {t}
    BY <1>1, <1>3, <1>4 DEF AutoFlushChunk
  <1>7. D \subseteq t.left
    BY <1>0, <1>1, FatesAre
  <1>8. SettledIn(D)
    BY <1>0, <1>1, <1>2, SettledIs DEF PlaceInv
  <1>9. ASSUME NEW l \in Logs, OneAuto(l)
        PROVE  /\ InAuto(l)' <=> InAuto(l) /\ l \notin D
               /\ OneAuto(l)'
    <2>1. \A v \in auto : l \in v.left /\ v # t => l \notin t.left
      BY <1>9 DEF OneAuto
    <2>2. l \in left <=> l \in t.left /\ l \notin D
      BY <1>3
    <2>3. \A v \in auto' : l \in v.left => \/ v \in auto /\ v # t
                                           \/ v = u /\ l \in left
      BY <1>5, <1>6
    <2>4. InAuto(l)' => InAuto(l) /\ l \notin D
      BY <1>7, <2>1, <2>2, <2>3 DEF InAuto
    <2>5. InAuto(l) /\ l \notin D => InAuto(l)'
      BY <1>5, <1>6, <2>2 DEF InAuto
    <2>6. OneAuto(l)'
      BY <1>9, <2>1, <2>2, <2>3 DEF OneAuto
    <2> QED
      BY <2>4, <2>5, <2>6
  <1>10. \A l \in D : InAuto(l)
    BY <1>7 DEF InAuto
  <1>11. ASSUME NEW l \in Logs PROVE Placed(l)'
    <2>1. Placed(l)
      BY DEF PlaceInv
    <2>2. OneAuto(l)
      BY <2>1 DEF Placed
    <2>3. /\ InFailed(l)' => InFailed(l) \/ l \in D
          /\ l \in D \/ InFailed(l) \/ l \in sent \/ l \in givenUp
               => InFailed(l)' \/ l \in sent' \/ l \in givenUp'
      BY <1>8 DEF SettledIn
    <2> QED
      BY <1>2, <1>9, <1>10, <2>1, <2>2, <2>3, PlaceSame DEF Placed, Apart, Somewhere
  <1> QED
    BY <1>8, <1>11 DEF PlaceInv, SettledIn

\* A chunk of a flush is settled.
LEMMA PlaceFlush ==
    ASSUME TypeInv, FlushInv, PlaceInv, NEW f \in Flushers, NEW out \in Fates(flush[f].logs),
           FlushChunk(f, out)
    PROVE  PlaceInv'
  <1> USE DEF TypeInv
  <1>0. flush[f] \in FlushRecords /\ flush[f].logs \in SUBSET Logs
        /\ flush[f].retry \in RetryIds \cup {None}
    BY TasksAre
  <1>1. PICK D : D = DOMAIN out
    OBVIOUS
  <1>2. /\ UNCHANGED <<seen, preInvoke, held, batch, retries, auto, lastSend>>
        /\ Settle(out)
    BY DEF FlushChunk, streamVars, holdVars, retryVars, autoVars, shutVars
  <1>3. PICK left : left = flush[f].logs \ D
    OBVIOUS
  <1>4. PICK w \in FlushRecords : flush' = [flush EXCEPT ![f] = w] /\ w.logs = left
    <2>1. CASE left # {}
      <3>1. PICK v : v = [flush[f] EXCEPT !.logs = left]
        OBVIOUS
      <3>2. v \in FlushRecords /\ v.logs = left
        BY <1>0, <1>3, <3>1, LessLeft
      <3>3. flush' = [flush EXCEPT ![f] = v]
        BY <1>1, <1>3, <2>1, <3>1 DEF FlushChunk
      <3> QED
        BY <3>2, <3>3
    <2>2. CASE left = {}
      <3>1. PICK v : v = Flush("joining", {}, {}, flush[f].retry)
        OBVIOUS
      <3>2. v \in FlushRecords /\ v.logs = left
        BY <1>0, <2>2, <3>1, FlushIs
      <3>3. flush' = [flush EXCEPT ![f] = v]
        BY <1>1, <1>3, <2>2, <3>1 DEF FlushChunk
      <3> QED
        BY <3>2, <3>3
    <2> QED
      BY <2>1, <2>2
  <1>5. flush'[f].logs = left /\ \A g \in Flushers \ {f} : flush'[g] = flush[g]
    BY <1>4, NewFlush
  <1>7. D \subseteq flush[f].logs
    BY <1>1, FatesAre, <1>0
  <1>8. SettledIn(D)
    BY <1>0, <1>1, <1>2, SettledIs DEF PlaceInv
  <1>9. ASSUME NEW l \in Logs, OneFlush(l)
        PROVE  /\ InFlush(l)' <=> InFlush(l) /\ l \notin D
               /\ OneFlush(l)'
    <2>1. l \in flush'[f].logs <=> l \in flush[f].logs /\ l \notin D
      BY <1>3, <1>5
    <2>2. \A g \in Flushers \ {f} : l \in flush'[g].logs <=> l \in flush[g].logs
      BY <1>5
    <2>3. l \in D => \A g \in Flushers \ {f} : l \notin flush[g].logs
      BY <1>7, <1>9 DEF OneFlush
    <2> QED
      BY <1>9, <2>1, <2>2, <2>3 DEF InFlush, OneFlush
  <1>10. \A l \in D : InFlush(l)
    BY <1>7 DEF InFlush
  <1>11. ASSUME NEW l \in Logs PROVE Placed(l)'
    <2>1. Placed(l)
      BY DEF PlaceInv
    <2>2. OneFlush(l)
      BY <2>1 DEF Placed
    <2>3. /\ InFailed(l)' => InFailed(l) \/ l \in D
          /\ l \in D \/ InFailed(l) \/ l \in sent \/ l \in givenUp
               => InFailed(l)' \/ l \in sent' \/ l \in givenUp'
      BY <1>8 DEF SettledIn
    <2> QED
      BY <1>2, <1>9, <1>10, <2>1, <2>2, <2>3, PlaceSame DEF Placed, Apart, Somewhere
  <1> QED
    BY <1>8, <1>11 DEF PlaceInv, SettledIn

\* A chunk of a retry is settled.
LEMMA PlaceRetry ==
    ASSUME TypeInv, PlaceInv, NEW t \in retries, NEW out \in Fates(t.left), RetryChunk(t, out)
    PROVE  PlaceInv'
  <1> USE DEF TypeInv
  <1>0. t.left \in SUBSET Logs
    BY TasksAre
  <1>1. PICK D : D = DOMAIN out
    OBVIOUS
  <1>2. UNCHANGED <<seen, preInvoke, held, batch, auto, flush, lastSend>>
    BY DEF RetryChunk, streamVars, holdVars, autoVars, shutVars
  <1>3. PICK left : left = t.left \ D
    OBVIOUS
  <1>4. PICK u : u = [t EXCEPT !.left = left]
    OBVIOUS
  <1>5. u.left = left
    <2>1. t \in [id : RetryIds, left : SUBSET Logs] /\ left \in SUBSET Logs
      BY <1>0, <1>3 DEF TypeOK
    <2> QED
      BY <1>4, <2>1, LessLeft
  <1>6. retries' = IF left = {} THEN retries \ {t} ELSE (retries \ {t}) \cup {u}
    BY <1>1, <1>3, <1>4 DEF RetryChunk
  <1>7. D \subseteq t.left
    BY <1>0, <1>1, FatesAre
  <1>8. SettledIn(D)
    <2>1. /\ \A k \in Kinds : ToSet(failed'[k]) \subseteq ToSet(failed[k]) \cup (D \cap k)
          /\ failed' \in [Kinds -> Seq(Logs)]
          /\ sent \subseteq sent' /\ givenUp \subseteq givenUp'
          /\ D \cup FailedLogs(failed) \subseteq FailedLogs(failed') \cup sent' \cup givenUp'
      BY <1>1, RetryChunkIs
    <2> QED
      BY <1>0, <1>7, <2>1, SettledIf DEF PlaceInv
  <1>9. ASSUME NEW l \in Logs, OneRetry(l)
        PROVE  /\ InRetry(l)' <=> InRetry(l) /\ l \notin D
               /\ OneRetry(l)'
    <2>1. \A v \in retries : l \in v.left /\ v # t => l \notin t.left
      BY <1>9 DEF OneRetry
    <2>2. l \in left <=> l \in t.left /\ l \notin D
      BY <1>3
    <2>3. \A v \in retries' : l \in v.left => \/ v \in retries /\ v # t
                                              \/ v = u /\ l \in left
      BY <1>5, <1>6
    <2>4. InRetry(l)' => InRetry(l) /\ l \notin D
      BY <1>7, <2>1, <2>2, <2>3 DEF InRetry
    <2>5. InRetry(l) /\ l \notin D => InRetry(l)'
      BY <1>5, <1>6, <2>2 DEF InRetry
    <2>6. OneRetry(l)'
      BY <1>9, <2>1, <2>2, <2>3 DEF OneRetry
    <2> QED
      BY <2>4, <2>5, <2>6
  <1>10. \A l \in D : InRetry(l)
    BY <1>7 DEF InRetry
  <1>11. ASSUME NEW l \in Logs PROVE Placed(l)'
    <2>1. Placed(l)
      BY DEF PlaceInv
    <2>2. OneRetry(l)
      BY <2>1 DEF Placed
    <2>3. /\ InFailed(l)' => InFailed(l) \/ l \in D
          /\ l \in D \/ InFailed(l) \/ l \in sent \/ l \in givenUp
               => InFailed(l)' \/ l \in sent' \/ l \in givenUp'
      BY <1>8 DEF SettledIn
    <2> QED
      BY <1>2, <1>9, <1>10, <2>1, <2>2, <2>3, PlaceSame DEF Placed, Apart, Somewhere
  <1> QED
    BY <1>8, <1>11 DEF PlaceInv, SettledIn

\* What a full buffer of held logs evicts comes out of it.
LEMMA HoldPlaces ==
    ASSUME TypeOK, HoldInv, NEW r \in Requests, NEW m \in Logs, NEW after, after = Hold(r, m),
           held' = after.held, NEW l, OneHeld(l), l = m => ~InHeld(l)
    PROVE  /\ InHeld(l)' \/ l \in after.evicted <=> InHeld(l) \/ l = m
           /\ ~(InHeld(l)' /\ l \in after.evicted)
           /\ OneHeld(l)'
  <1>1. PICK H : H = [q \in Requests |-> held[q] \cup (IF q = r THEN {m} ELSE {})]
    OBVIOUS
  <1>2. \A q \in Requests : l \in H[q] <=> l \in held[q] \/ (q = r /\ l = m)
    BY <1>1
  <1>3. \A p, q \in Requests : l \in H[p] /\ l \in H[q] => p = q
    BY <1>2 DEF InHeld, OneHeld
  <1>4. InHeld(l) \/ l = m <=> \E q \in Requests : l \in H[q]
    BY <1>2 DEF InHeld
  <1>5. CASE after.evicted = {}
    <2>1. \A q \in Requests : held'[q] = H[q]
      BY <1>1, <1>5, HoldIs
    <2> QED
      BY <1>3, <1>4, <1>5, <2>1 DEF InHeld, OneHeld
  <1>6. CASE after.evicted # {}
    <2>1. PICK q \in Requests :
            /\ after.evicted = H[q] /\ held'[q] = {}
            /\ \A p \in Requests \ {q} : held'[p] = H[p]
      <3>1. PICK q \in Requests : Evicts(after, r, m, q)
        BY <1>6, HoldIs
      <3> QED
        BY <1>1, <3>1 DEF Evicts
    <2> QED
      BY <1>3, <1>4, <2>1 DEF InHeld, OneHeld
  <1> QED
    BY <1>5, <1>6

\* A record that comes in is put in one place, or discarded.
LEMMA PlaceDeliver ==
    ASSUME TypeInv, PlaceInv, NEW m \in Logs,
           process_record(m) \/ DiscardRecord(m) \/ add_log_to_batch(m)
    PROVE  PlaceInv'
  <1> USE DEF TypeInv
  <1>1. /\ m \notin seen /\ seen' = seen \cup {m}
        /\ UNCHANGED <<failed, retries, flush, lastSend, sent>>
    BY DEF process_record, DiscardRecord, add_log_to_batch, Deliver, retryVars, shutVars
  <1>2. ASSUME NEW l \in Logs
        PROVE  /\ Apart(l) /\ OneHeld(l) /\ OneAuto(l) /\ OneRetry(l) /\ OneFlush(l)
               /\ Somewhere(l) => l # m
               /\ l \in seen => Somewhere(l) \/ l \in sent \/ l \in givenUp
               /\ Somewhere(l) => l \in seen
    BY <1>1 DEF PlaceInv, Placed
  <1>3. ASSUME NEW l \in Logs
        PROVE  /\ InRetry(l)' <=> InRetry(l)
               /\ InFlush(l)' <=> InFlush(l)
               /\ InFailed(l)' <=> InFailed(l)
               /\ OneRetry(l)' /\ OneFlush(l)' /\ FailedInv'
    BY <1>1, <1>2, PlaceSame DEF PlaceInv
  <1>4. CASE DiscardRecord(m)
    <2>1. UNCHANGED <<preInvoke, held, batch, auto>> /\ givenUp' = givenUp \cup {m}
      BY <1>4 DEF DiscardRecord, holdVars, autoVars
    <2>2. ASSUME NEW l \in Logs PROVE Placed(l)'
      BY <1>1, <1>2, <1>3, <2>1, PlaceSame DEF Placed, Apart, Somewhere
    <2> QED
      BY <1>1, <2>2, PlaceSame DEF PlaceInv
  <1>5. CASE add_log_to_batch(m)
    <2>1. UNCHANGED <<preInvoke, held, auto, givenUp>> /\ batch' = batch \cup {m}
      BY <1>5 DEF add_log_to_batch, holdVars, autoVars
    <2>2. ASSUME NEW l \in Logs PROVE Placed(l)'
      BY <1>1, <1>2, <1>3, <2>1, PlaceSame DEF Placed, Apart, Somewhere
    <2> QED
      BY <1>1, <2>2, PlaceSame DEF PlaceInv
  <1>6. CASE process_record(m)
    <2>1. \/ preInvoke' = preInvoke \cup {m} /\ UNCHANGED <<held, batch, auto>>
          \/ /\ context # None
             /\ held' = Hold(effective_request_id, m).held
             /\ IF Hold(effective_request_id, m).evicted = {}
                THEN UNCHANGED <<batch, auto>>
                ELSE try_spawn_auto_flush(batch \cup Hold(effective_request_id, m).evicted)
             /\ UNCHANGED preInvoke
          \/ try_spawn_auto_flush(batch \cup {m}) /\ UNCHANGED <<preInvoke, held>>
      BY <1>6 DEF process_record, holdVars, autoVars
    <2>2. UNCHANGED givenUp /\ batch \in SUBSET Logs
      BY <1>6, TasksAre DEF process_record
    <2>3. CASE preInvoke' = preInvoke \cup {m} /\ UNCHANGED <<held, batch, auto>>
      <3>1. ASSUME NEW l \in Logs PROVE Placed(l)'
        BY <1>1, <1>2, <1>3, <2>2, <2>3, PlaceSame DEF Placed, Apart, Somewhere
      <3> QED
        BY <1>1, <3>1, PlaceSame DEF PlaceInv
    <2>4. CASE try_spawn_auto_flush(batch \cup {m}) /\ UNCHANGED <<preInvoke, held>>
      <3>1. PICK b : b = batch \cup {m}
        OBVIOUS
      <3>2. b \in SUBSET Logs /\ try_spawn_auto_flush(b)
        BY <2>2, <2>4, <3>1
      <3>3. ASSUME NEW l \in Logs PROVE Placed(l)'
        <4>1. l \in b <=> l \in batch \/ l = m
          BY <3>1
        <4>2. \/ /\ l \in batch' <=> l \in b
                 /\ (InAuto(l)' <=> InAuto(l)) /\ (OneAuto(l)' <=> OneAuto(l))
              \/ /\ l \notin batch'
                 /\ InAuto(l)' <=> InAuto(l) \/ l \in b
                 /\ OneAuto(l) /\ (l \in b => ~InAuto(l)) => OneAuto(l)'
          BY <3>2, SpawnPlaces
        <4> QED
          BY <1>1, <1>2, <1>3, <2>2, <2>4, <4>1, <4>2, PlaceSame DEF Placed, Apart, Somewhere
      <3> QED
        BY <1>1, <3>3, PlaceSame DEF PlaceInv
    <2>5. ASSUME context # None,
                 held' = Hold(effective_request_id, m).held,
                 IF Hold(effective_request_id, m).evicted = {}
                 THEN UNCHANGED <<batch, auto>>
                 ELSE try_spawn_auto_flush(batch \cup Hold(effective_request_id, m).evicted),
                 UNCHANGED preInvoke
          PROVE  PlaceInv'
      <3>1. PICK r \in Requests : r = effective_request_id
        BY <2>5, EffectiveIs
      <3>2. PICK after : after = Hold(r, m)
        OBVIOUS
      <3>3. PICK b : b = batch \cup after.evicted
        OBVIOUS
      <3>4. /\ held' = after.held /\ b \in SUBSET Logs
            /\ (UNCHANGED <<batch, auto>> /\ after.evicted = {}) \/ try_spawn_auto_flush(b)
        BY <2>2, <2>5, <3>1, <3>2, <3>3, HoldIs
      <3>5. ASSUME NEW l \in Logs PROVE Placed(l)'
        <4>1. l \in b <=> l \in batch \/ l \in after.evicted
          BY <3>3
        <4>2. \/ /\ l \in batch' <=> l \in b
                 /\ (InAuto(l)' <=> InAuto(l)) /\ (OneAuto(l)' <=> OneAuto(l))
              \/ /\ l \notin batch'
                 /\ InAuto(l)' <=> InAuto(l) \/ l \in b
                 /\ OneAuto(l) /\ (l \in b => ~InAuto(l)) => OneAuto(l)'
          <5>1. CASE UNCHANGED <<batch, auto>> /\ after.evicted = {}
            BY <4>1, <5>1, PlaceSame
          <5>2. CASE try_spawn_auto_flush(b)
            BY <3>4, <5>2, SpawnPlaces
          <5> QED
            BY <3>4, <5>1, <5>2
        <4>3. l = m => ~InHeld(l)
          BY <1>2 DEF Somewhere
        <4>4. /\ InHeld(l)' \/ l \in after.evicted <=> InHeld(l) \/ l = m
              /\ ~(InHeld(l)' /\ l \in after.evicted)
              /\ OneHeld(l)'
          BY <1>2, <3>2, <3>4, <4>3, HoldPlaces
        <4> QED
          BY <1>1, <1>2, <1>3, <2>2, <2>5, <4>1, <4>2, <4>4 DEF Placed, Apart, Somewhere
      <3> QED
        BY <1>1, <3>5, PlaceSame DEF PlaceInv
    <2> QED
      BY <2>1, <2>3, <2>4, <2>5
  <1> QED
    BY <1>4, <1>5, <1>6

\* The logs held for a request go to the batch.
LEMMA PlaceTrace ==
    ASSUME TypeInv, PlaceInv, NEW r \in Requests, on_trace_id_extracted(r)
    PROVE  PlaceInv'
  <1> USE DEF TypeInv
  <1>1. UNCHANGED <<seen, preInvoke, failed, retries, flush, lastSend, sent, givenUp>>
    BY DEF on_trace_id_extracted, streamVars, retryVars, shutVars
  <1>2. PICK logs \in SUBSET Logs : logs = held[r]
    BY DEF TypeOK
  <1>3. /\ held' = [q \in Requests |-> held[q] \ logs]
        /\ IF logs = {} THEN UNCHANGED <<batch, auto>> ELSE try_spawn_auto_flush(batch \cup logs)
    BY <1>2 DEF on_trace_id_extracted, held_for, autoVars
  <1>4. PICK b : b = batch \cup logs
    OBVIOUS
  <1>5. /\ b \in SUBSET Logs
        /\ (UNCHANGED <<batch, auto>> /\ logs = {}) \/ try_spawn_auto_flush(b)
    BY <1>2, <1>3, <1>4, TasksAre
  <1>6. ASSUME NEW l \in Logs PROVE Placed(l)'
    <2>1. Placed(l)
      BY DEF PlaceInv
    <2>2. l \in b <=> l \in batch \/ l \in logs
      BY <1>4
    <2>3. \/ /\ l \in batch' <=> l \in b
             /\ (InAuto(l)' <=> InAuto(l)) /\ (OneAuto(l)' <=> OneAuto(l))
          \/ /\ l \notin batch'
             /\ InAuto(l)' <=> InAuto(l) \/ l \in b
             /\ OneAuto(l) /\ (l \in b => ~InAuto(l)) => OneAuto(l)'
      <3>1. CASE UNCHANGED <<batch, auto>> /\ logs = {}
        BY <2>2, <3>1, PlaceSame
      <3>2. CASE try_spawn_auto_flush(b)
        BY <1>5, <3>2, SpawnPlaces
      <3> QED
        BY <1>5, <3>1, <3>2
    <2>4. \A q \in Requests : l \in held'[q] <=> l \in held[q] /\ l \notin logs
      BY <1>3
    <2>5. /\ InHeld(l)' <=> InHeld(l) /\ l \notin logs
          /\ l \in logs => InHeld(l)
          /\ OneHeld(l) => OneHeld(l)'
      BY <1>2, <2>4 DEF InHeld, OneHeld
    <2> QED
      BY <1>1, <2>1, <2>2, <2>3, <2>5, PlaceSame DEF Placed, Apart, Somewhere
  <1> QED
    BY <1>1, <1>6, PlaceSame DEF PlaceInv

\* A flush begins or goes on with the batch, and nothing else moves.
LEMMA PlaceBegun ==
    ASSUME TypeInv, PlaceInv, NEW f \in Flushers, NEW h, NEW slot, FlushBegun(f, batch, h, slot),
           flush[f].logs = {},
           UNCHANGED <<seen, preInvoke, held, auto, retries, failed, lastSend, sent, givenUp>>
    PROVE  PlaceInv'
  <1> USE DEF TypeInv
  <1>1. ASSUME NEW l \in Logs PROVE Placed(l)'
    <2>1. Placed(l)
      BY DEF PlaceInv
    <2>2. \/ /\ l \in batch' <=> l \in batch
             /\ (InFlush(l)' <=> InFlush(l)) /\ (OneFlush(l)' <=> OneFlush(l))
          \/ /\ l \notin batch'
             /\ InFlush(l)' <=> InFlush(l) \/ l \in batch
             /\ OneFlush(l) /\ (l \in batch => ~InFlush(l)) => OneFlush(l)'
      BY BegunPlaces
    <2> QED
      BY <2>1, <2>2, PlaceSame DEF Placed, Apart, Somewhere
  <1> QED
    BY <1>1, PlaceSame DEF PlaceInv

\* The steps that let a flush begin or go on, but for those of SHUTDOWN.
LEMMA PlaceBegins ==
    ASSUME TypeInv, FlushInv, PlaceInv,
           \/ EmergencyFlush
           \/ \E f \in Flushers : FlushAutoDone(f)
           \/ \E r \in Requests : DeadlinePassed(r) \/ RuntimeDoneNoGrace(r) \/ GraceOver(r)
    PROVE  PlaceInv'
  <1> USE DEF TypeInv
  <1>0. /\ batch \in SUBSET Logs /\ handle \in SUBSET Logs
        /\ retrySlot \in RetryIds \cup {None} /\ None \in Flushers
        /\ \A f \in Flushers : flush[f].retry \in RetryIds \cup {None}
    BY TasksAre DEF Flushers
  <1>1. UNCHANGED <<seen, preInvoke, held, auto, retries, failed, lastSend, sent, givenUp>>
    BY Zenon DEF EmergencyFlush, FlushAutoDone, DeadlinePassed, RuntimeDoneNoGrace, GraceOver,
                 EndOfWait, streamVars, holdVars, retryVars, shutVars
  <1>2. CASE EmergencyFlush
    <2>1. loop = "emergency" /\ FlushBegin(None, batch, auto, handle, retrySlot)
      BY <1>2 DEF EmergencyFlush
    <2>2. FlushBegun(None, batch, handle, retrySlot)
      BY <1>0, <2>1, FlushBeginIs
    <2>3. flush[None].logs = {}
      BY <1>0, <2>1 DEF FlushInv, Ended
    <2> QED
      BY <1>0, <1>1, <2>2, <2>3, PlaceBegun
  <1>3. ASSUME NEW f \in Flushers, FlushAutoDone(f) PROVE PlaceInv'
    <2>1. flush[f].stage = "auto" /\ DrainHandles(f, batch, auto, handle, flush[f].retry)
      BY <1>3 DEF FlushAutoDone
    <2>2. FlushBegun(f, batch, handle, flush[f].retry)
      BY <1>0, <2>1, DrainIs
    <2>3. flush[f].logs = {}
      BY <2>1 DEF FlushInv
    <2> QED
      BY <1>1, <2>2, <2>3, PlaceBegun
  <1>4. ASSUME NEW r \in Requests, DeadlinePassed(r) \/ RuntimeDoneNoGrace(r) \/ GraceOver(r)
        PROVE  PlaceInv'
    <2>1. task[r] # "flushing" /\ FlushBegin(r, batch, auto, handle, retrySlot)
      BY <1>4 DEF DeadlinePassed, RuntimeDoneNoGrace, GraceOver, EndOfWait
    <2>2. r \in Flushers /\ FlushBegun(r, batch, handle, retrySlot)
      BY <1>0, <2>1, FlushBeginIs, RequestNotNone
    <2>3. flush[r].logs = {}
      BY <2>1, <2>2 DEF FlushInv
    <2> QED
      BY <1>1, <2>2, <2>3, PlaceBegun
  <1> QED
    BY <1>2, <1>3, <1>4

\* The failed logs that may be retried become a task's, the others are given up.
LEMMA RetryPlaces ==
    ASSUME TypeOK, NEW id \in RetryIds, start_invocation_retry(id)
    PROVE  \E again \in SUBSET Logs :
             \A l \in Logs :
               /\ l \in again => InFailed(l)
               /\ ~InFailed(l)'
               /\ InRetry(l)' <=> InRetry(l) \/ l \in again
               /\ OneRetry(l) /\ (l \in again => ~InRetry(l)) => OneRetry(l)'
               /\ l \in givenUp' <=> l \in givenUp \/ (InFailed(l) /\ l \notin again)
  <1>1. PICK again \in SUBSET FailedLogs(failed) :
          /\ givenUp' = givenUp \cup (FailedLogs(failed) \ again)
          /\ retries' = IF again = {} THEN retries ELSE retries \cup {[id |-> id, left |-> again]}
    BY RetryIs
  <1>2. \A k \in Kinds : ToSet(failed'[k]) = {}
    BY RetryIs
  <1>3. failed \in [Kinds -> Seq(Logs)]
    BY DEF TypeOK
  <1>4. again \in SUBSET Logs
    BY <1>1, <1>3, FailedLogsAre
  <1>5. \A l : l \in FailedLogs(failed) <=> InFailed(l)
    BY DEF FailedLogs, InFailed
  <1>6. PICK t : t = [id |-> id, left |-> again]
    OBVIOUS
  <1>7. t.left = again
    BY <1>6
  <1>8. ASSUME NEW l \in Logs
        PROVE  /\ InRetry(l)' <=> InRetry(l) \/ l \in again
               /\ OneRetry(l) /\ (l \in again => ~InRetry(l)) => OneRetry(l)'
    <2>1. CASE again = {}
      BY <1>1, <2>1, PlaceSame
    <2>2. CASE again # {}
      <3>1. retries' = retries \cup {t}
        BY <1>1, <1>6, <2>2
      <3>2. InRetry(l)' <=> InRetry(l) \/ l \in again
        BY <1>7, <3>1 DEF InRetry
      <3>3. OneRetry(l) /\ (l \in again => ~InRetry(l)) => OneRetry(l)'
        BY <1>7, <3>1 DEF InRetry, OneRetry
      <3> QED
        BY <3>2, <3>3
    <2> QED
      BY <2>1, <2>2
  <1>9. \A l \in Logs : ~InFailed(l)'
    BY <1>2 DEF InFailed
  <1>10. \A l \in Logs : /\ l \in again => InFailed(l)
                         /\ l \in givenUp' <=> l \in givenUp \/ (InFailed(l) /\ l \notin again)
    BY <1>1, <1>5
  <1> QED
    BY <1>4, <1>8, <1>9, <1>10

\* The INIT logs go to the batch, or are held.
LEMMA PlaceInvoke ==
    ASSUME TypeInv, PlaceInv, Invoke
    PROVE  PlaceInv'
  <1> USE DEF TypeInv
  <1>1. /\ context < Invocations /\ context' = context + 1
        /\ start_invocation_retry(context') /\ process_pre_invoke_logs(context')
        /\ UNCHANGED <<seen, auto, flush, lastSend, sent>>
    BY DEF Invoke, autoVars, shutVars
  <1>2. context' \in Requests /\ context' \in RetryIds
    BY <1>1, LimitAssumption DEF TypeOK, Requests, RetryIds
  <1>3. PICK r \in Requests : r = context'
    BY <1>2
  <1>4. PICK again \in SUBSET Logs :
             \A l \in Logs :
               /\ l \in again => InFailed(l)
               /\ ~InFailed(l)'
               /\ InRetry(l)' <=> InRetry(l) \/ l \in again
               /\ OneRetry(l) /\ (l \in again => ~InRetry(l)) => OneRetry(l)'
               /\ l \in givenUp' <=> l \in givenUp \/ (InFailed(l) /\ l \notin again)
    BY <1>1, <1>2, RetryPlaces
  <1>5. PICK kept \in SUBSET preInvoke :
          /\ \A q \in Requests : held'[q] = IF q = r THEN held[q] \cup kept ELSE held[q]
          /\ batch' = batch \cup (preInvoke \ kept)
    <2>1. CASE CollectTraceId
      <3>1. PICK kept \in SUBSET preInvoke : /\ held' = [held EXCEPT ![r] = @ \cup kept]
                                             /\ batch' = batch \cup (preInvoke \ kept)
        BY <1>1, <1>3, <2>1 DEF process_pre_invoke_logs
      <3>2. held \in [Requests -> SUBSET Logs]
        BY DEF TypeOK
      <3> QED
        BY <3>1, <3>2
    <2>2. CASE ~CollectTraceId
      <3>1. held' = held /\ batch' = batch \cup preInvoke
        BY <1>1, <2>2 DEF process_pre_invoke_logs
      <3>2. PICK kept \in SUBSET preInvoke : kept = {}
        OBVIOUS
      <3> QED
        BY <3>1, <3>2
    <2> QED
      BY <2>1, <2>2
  <1>6. preInvoke' = {}
    BY <1>1 DEF process_pre_invoke_logs
  <1>7. ASSUME NEW l \in Logs PROVE Placed(l)'
    <2>1. Placed(l)
      BY DEF PlaceInv
    <2>2. InHeld(l)' <=> InHeld(l) \/ l \in kept
      BY <1>5 DEF InHeld
    <2>3. OneHeld(l) /\ (l \in kept => ~InHeld(l)) => OneHeld(l)'
      BY <1>5 DEF InHeld, OneHeld
    <2>4. /\ l \in kept => l \in preInvoke
          /\ l \in batch' <=> l \in batch \/ (l \in preInvoke /\ l \notin kept)
          /\ l \notin preInvoke'
      BY <1>5, <1>6
    <2>5. /\ l \in again => InFailed(l)
          /\ ~InFailed(l)'
          /\ InRetry(l)' <=> InRetry(l) \/ l \in again
          /\ OneRetry(l) /\ (l \in again => ~InRetry(l)) => OneRetry(l)'
          /\ l \in givenUp' <=> l \in givenUp \/ (InFailed(l) /\ l \notin again)
      BY <1>4
    <2> QED
      BY <1>1, <2>1, <2>2, <2>3, <2>4, <2>5, PlaceSame DEF Placed, Apart, Somewhere
  <1>8. FailedInv'
    BY <1>1, <1>2, RetryIs DEF FailedInv
  <1> QED
    BY <1>7, <1>8 DEF PlaceInv

\* A retry starts, and a flush begins.
LEMMA PlacePass ==
    ASSUME TypeInv, FlushInv, PlaceInv, ShutdownPass
    PROVE  PlaceInv'
  <1> USE DEF TypeInv
  <1>1. PICK id : id = Invocations + pass'
    OBVIOUS
  <1>2. /\ flush[None].stage = "joining" /\ pass < MaxRetries /\ pass' = pass + 1
        /\ start_invocation_retry(id)
        /\ FlushBegin(None, batch, auto, handle, SlotAfterRetry(id))
        /\ UNCHANGED <<seen, preInvoke, held, auto, lastSend, sent>>
    BY <1>1 DEF ShutdownPass, Joined, streamVars, holdVars
  <1>3. id \in RetryIds
    BY <1>1, <1>2, LimitAssumption DEF TypeOK, RetryIds
  <1>4. /\ batch \in SUBSET Logs /\ handle \in SUBSET Logs /\ None \in Flushers
        /\ SlotAfterRetry(id) \in RetryIds \cup {None}
    BY <1>2, <1>3, TasksAre, RetryIs DEF Flushers
  <1>5. PICK slot \in RetryIds \cup {None} : slot = SlotAfterRetry(id)
    BY <1>4
  <1>6. FlushBegun(None, batch, handle, slot) /\ flush[None].logs = {}
    BY <1>2, <1>4, <1>5, FlushBeginIs DEF FlushInv
  <1>7. PICK again \in SUBSET Logs :
             \A l \in Logs :
               /\ l \in again => InFailed(l)
               /\ ~InFailed(l)'
               /\ InRetry(l)' <=> InRetry(l) \/ l \in again
               /\ OneRetry(l) /\ (l \in again => ~InRetry(l)) => OneRetry(l)'
               /\ l \in givenUp' <=> l \in givenUp \/ (InFailed(l) /\ l \notin again)
    BY <1>2, <1>3, RetryPlaces
  <1>8. ASSUME NEW l \in Logs PROVE Placed(l)'
    <2>1. Placed(l)
      BY DEF PlaceInv
    <2>2. \/ /\ l \in batch' <=> l \in batch
             /\ (InFlush(l)' <=> InFlush(l)) /\ (OneFlush(l)' <=> OneFlush(l))
          \/ /\ l \notin batch'
             /\ InFlush(l)' <=> InFlush(l) \/ l \in batch
             /\ OneFlush(l) /\ (l \in batch => ~InFlush(l)) => OneFlush(l)'
      BY <1>4, <1>6, BegunPlaces
    <2>3. /\ l \in again => InFailed(l)
          /\ ~InFailed(l)'
          /\ InRetry(l)' <=> InRetry(l) \/ l \in again
          /\ OneRetry(l) /\ (l \in again => ~InRetry(l)) => OneRetry(l)'
          /\ l \in givenUp' <=> l \in givenUp \/ (InFailed(l) /\ l \notin again)
      BY <1>7
    <2> QED
      BY <1>2, <2>1, <2>2, <2>3, PlaceSame DEF Placed, Apart, Somewhere
  <1>9. FailedInv'
    BY <1>2, <1>3, RetryIs DEF FailedInv
  <1> QED
    BY <1>8, <1>9 DEF PlaceInv

\* The last part of SHUTDOWN begins: the held logs join the batch, the INIT logs are sent.
LEMMA PlaceLast ==
    ASSUME TypeInv, FlushInv, PlaceInv, ShutdownFlush
    PROVE  PlaceInv'
  <1> USE DEF TypeInv
  <1>1. /\ loop = "settle"
        /\ held' = [r \in Requests |-> {}]
        /\ preInvoke' = {}
        /\ lastSend' = IF ArnKnown THEN preInvoke ELSE {}
        /\ givenUp' = IF ArnKnown THEN givenUp ELSE givenUp \cup preInvoke
        /\ UNCHANGED <<seen, failed, retries, sent>>
    BY DEF ShutdownFlush, streamVars
  <1>2. PICK b \in SUBSET Logs, a \in SUBSET [key : SUBSET Logs, left : SUBSET Logs],
             h \in SUBSET Logs :
             /\ \/ b = batch \cup HeldLogs(held) /\ a = auto /\ h = handle
                \/ /\ b = {} /\ h = batch \cup HeldLogs(held)
                   /\ a = auto \cup {[key |-> h, left |-> h]}
             /\ auto' = a
             /\ FlushBegin(None, b, a, h, retrySlot)
    BY UnstampedIs
  <1>3. PICK all : all = batch \cup HeldLogs(held)
    OBVIOUS
  <1>4. \A l \in Logs : l \in all <=> l \in batch \/ InHeld(l)
    BY <1>3 DEF HeldLogs, InHeld
  <1>5. None \in Flushers /\ flush[None].logs = {} /\ lastSend = {}
    BY <1>1 DEF FlushInv, Flushers, Ended
  <1>6. FlushBegun(None, b, h, retrySlot)
    BY <1>2, <1>5, TasksAre, FlushBeginIs
  <1>7. ASSUME NEW l \in Logs
        PROVE  \/ /\ l \in b <=> l \in all
                  /\ (InAuto(l)' <=> InAuto(l)) /\ (OneAuto(l)' <=> OneAuto(l))
               \/ /\ l \notin b
                  /\ InAuto(l)' <=> InAuto(l) \/ l \in all
                  /\ OneAuto(l) /\ (l \in all => ~InAuto(l)) => OneAuto(l)'
    <2>1. CASE b = all /\ auto' = auto
      BY <2>1, PlaceSame
    <2>2. CASE b = {} /\ auto' = auto \cup {[key |-> all, left |-> all]}
      <3>1. PICK t : t = [key |-> all, left |-> all]
        OBVIOUS
      <3>2. t.left = all /\ auto' = auto \cup {t}
        BY <2>2, <3>1
      <3>3. InAuto(l)' <=> InAuto(l) \/ l \in all
        BY <3>2 DEF InAuto
      <3>4. OneAuto(l) /\ (l \in all => ~InAuto(l)) => OneAuto(l)'
        BY <3>2 DEF InAuto, OneAuto
      <3> QED
        BY <2>2, <3>3, <3>4
    <2> QED
      BY <1>2, <1>3, <2>1, <2>2
  <1>8. ASSUME NEW l \in Logs PROVE Placed(l)'
    <2>1. Placed(l)
      BY DEF PlaceInv
    <2>2. \/ /\ l \in batch' <=> l \in b
             /\ (InFlush(l)' <=> InFlush(l)) /\ (OneFlush(l)' <=> OneFlush(l))
          \/ /\ l \notin batch'
             /\ InFlush(l)' <=> InFlush(l) \/ l \in b
             /\ OneFlush(l) /\ (l \in b => ~InFlush(l)) => OneFlush(l)'
      BY <1>5, <1>6, BegunPlaces
    <2>3. ~InHeld(l)' /\ OneHeld(l)'
      BY <1>1 DEF InHeld, OneHeld
    <2>4. /\ l \notin preInvoke' /\ l \notin lastSend
          /\ \/ (l \in lastSend' <=> l \in preInvoke) /\ (l \in givenUp' <=> l \in givenUp)
             \/ l \notin lastSend' /\ (l \in givenUp' <=> l \in givenUp \/ l \in preInvoke)
      BY <1>1, <1>5
    <2>5. l \in all <=> l \in batch \/ InHeld(l)
      BY <1>4
    <2>6. \/ /\ l \in b <=> l \in all
             /\ (InAuto(l)' <=> InAuto(l)) /\ (OneAuto(l)' <=> OneAuto(l))
          \/ /\ l \notin b
             /\ InAuto(l)' <=> InAuto(l) \/ l \in all
             /\ OneAuto(l) /\ (l \in all => ~InAuto(l)) => OneAuto(l)'
      BY <1>7
    <2>7. /\ InRetry(l)' <=> InRetry(l)
          /\ InFailed(l)' <=> InFailed(l)
          /\ OneRetry(l)' <=> OneRetry(l)
          /\ l \in seen' <=> l \in seen
          /\ l \in sent' <=> l \in sent
      BY <1>1, PlaceSame
    <2> QED
      BY <2>1, <2>2, <2>3, <2>4, <2>5, <2>6, <2>7 DEF Placed, Apart, Somewhere
  <1> QED
    BY <1>1, <1>8, PlaceSame DEF PlaceInv

\* The INIT logs are sent or given up.
LEMMA PlaceLastSend ==
    ASSUME TypeInv, PlaceInv, NEW out \in Fates(lastSend), LastSendChunk(out)
    PROVE  PlaceInv'
  <1>1. PICK D : D = DOMAIN out
    OBVIOUS
  <1>2. PICK ok : ok = With(out, "sent")
    OBVIOUS
  <1>3. /\ lastSend' = lastSend \ D /\ sent' = sent \cup ok /\ givenUp' = givenUp \cup (D \ ok)
        /\ UNCHANGED <<seen, preInvoke, held, batch, auto, failed, retries, flush>>
    BY <1>1, <1>2 DEF LastSendChunk, streamVars, holdVars, autoVars, retryVars
  <1>4. ASSUME NEW l \in Logs PROVE Placed(l)'
    BY <1>3, PlaceSame DEF PlaceInv, Placed, Apart, Somewhere
  <1> QED
    BY <1>3, <1>4, PlaceSame DEF PlaceInv

\* A task that is done has no logs.
LEMMA PlaceDone ==
    ASSUME TypeInv, FlushInv, PlaceInv, NEW r \in Requests, ProcessDone(r)
    PROVE  PlaceInv'
  <1> USE DEF TypeInv
  <1>1. /\ flush[r].stage = "joining" /\ flush' = [flush EXCEPT ![r] = NoFlush]
        /\ UNCHANGED <<seen, preInvoke, held, batch, auto, failed, retries, lastSend, sent, givenUp>>
    BY DEF ProcessDone, Joined, streamVars, holdVars, autoVars, retryVars, shutVars
  <1>2. r \in Flushers /\ NoFlush \in FlushRecords /\ NoFlush.logs = {}
    BY RequestNotNone DEF NoFlush, Flush, FlushRecords
  <1>3. flush'[r] = NoFlush /\ \A g \in Flushers \ {r} : flush'[g] = flush[g]
    BY <1>1, <1>2, NewFlush
  <1>4. \A l : \A g \in Flushers : l \in flush'[g].logs <=> l \in flush[g].logs
    BY <1>1, <1>2, <1>3 DEF FlushInv
  <1>5. ASSUME NEW l \in Logs PROVE Placed(l)'
    <2>1. Placed(l)
      BY DEF PlaceInv
    <2>2. (InFlush(l)' <=> InFlush(l)) /\ (OneFlush(l)' <=> OneFlush(l))
      BY <1>4 DEF InFlush, OneFlush
    <2> QED
      BY <1>1, <2>1, <2>2, PlaceSame DEF Placed, Apart, Somewhere
  <1> QED
    BY <1>1, <1>5, PlaceSame DEF PlaceInv

\* Every step keeps PlaceInv.
LEMMA PlaceStep ==
    ASSUME TypeInv, FlushInv, PlaceInv, [Next]_vars
    PROVE  PlaceInv'
  <1>1. CASE UNCHANGED <<seen, preInvoke, held, batch, auto, failed, retries, flush, lastSend, sent,
                         givenUp>>
    <2>1. ASSUME NEW l \in Logs PROVE Placed(l)'
      BY <1>1, PlaceSame DEF PlaceInv, Placed, Apart, Somewhere
    <2> QED
      BY <1>1, <2>1, PlaceSame DEF PlaceInv
  <1>2. \/ \E l \in Logs : process_record(l) \/ DiscardRecord(l) \/ add_log_to_batch(l)
        \/ \E t \in auto : \E out \in Fates(t.left) : AutoFlushChunk(t, out)
        \/ \E t \in retries : \E out \in Fates(t.left) : RetryChunk(t, out)
        \/ \E f \in Flushers : \E out \in Fates(flush[f].logs) : FlushChunk(f, out)
        \/ \/ EmergencyFlush
           \/ \E f \in Flushers : FlushAutoDone(f)
           \/ \E r \in Requests : DeadlinePassed(r) \/ RuntimeDoneNoGrace(r) \/ GraceOver(r)
        \/ \E r \in Requests : on_trace_id_extracted(r) \/ ProcessDone(r)
        \/ Invoke \/ ShutdownFlush \/ ShutdownPass
        \/ \E out \in Fates(lastSend) : LastSendChunk(out)
        \/ UNCHANGED <<seen, preInvoke, held, batch, auto, failed, retries, flush, lastSend, sent,
                       givenUp>>
    BY StepIs, Zenon
    DEF PlatformStart, Stop, Settling, ShutdownDone, EmergencyDone, ShutdownTimeOut, Exit,
        RuntimeDoneGrace, vars, streamVars, holdVars, autoVars, retryVars, shutVars
  <1> QED
    BY <1>1, <1>2, PlaceDeliver, PlaceAuto, PlaceRetry, PlaceFlush, PlaceBegins, PlaceTrace,
       PlaceDone, PlaceInvoke, PlaceLast, PlacePass, PlaceLastSend, Zenon

LEMMA PlaceAlways == Spec => []PlaceInv
  <1>1. ASSUME TypeInv, FlushInv /\ RetryInv, PlaceInv, [Next]_vars PROVE PlaceInv'
    BY <1>1, PlaceStep
  <1> QED
    BY <1>1, PlaceInit, TypeAlways, FlushAlways, PTL DEF Spec

\* A log the process has received and no longer holds was sent, or dropped for a reason.
THEOREM LogsNeverLost == Spec => []NoLogLost
  <1>1. ASSUME TypeInv, PlaceInv PROVE NoLogLost
    <2>1. seen \in SUBSET Logs
      BY <1>1 DEF TypeInv, TypeOK
    <2>2. \A l \in Logs : l \in seen => Somewhere(l) \/ l \in sent \/ l \in givenUp
      BY <1>1 DEF PlaceInv, Placed
    <2> QED
      BY <2>1, <2>2, SomewhereIs DEF NoLogLost
  <1> QED
    BY <1>1, TypeAlways, PlaceAlways, PTL

\* The places that have a log.
LEMMA CopiesAre ==
    ASSUME NEW l, NEW c \in Copies(l)
    PROVE  \/ c = <<"one", 1>> /\ l \in preInvoke
           \/ c = <<"one", 2>> /\ l \in batch
           \/ c = <<"one", 3>> /\ l \in lastSend
           \/ \E r \in Requests : c = <<"held", r>> /\ l \in held[r]
           \/ \E t \in auto : c = <<"auto", t>> /\ l \in t.left
           \/ \E t \in retries : c = <<"retry", t>> /\ l \in t.left
           \/ \E f \in Flushers : c = <<"flush", f>> /\ l \in flush[f].logs
           \/ \E k \in Kinds : c = <<"failed", k>> /\ l \in ToSet(failed[k])
  <1>1. CASE c \in {<<"one", n>> : n \in {n \in 1..3 : l \in <<preInvoke, batch, lastSend>>[n]}}
    <2>1. PICK n \in 1..3 : c = <<"one", n>> /\ l \in <<preInvoke, batch, lastSend>>[n]
      BY <1>1
    <2>2. n = 1 \/ n = 2 \/ n = 3
      OBVIOUS
    <2>3. CASE n = 1
      BY <2>1, <2>3
    <2>4. CASE n = 2
      BY <2>1, <2>4
    <2>5. CASE n = 3
      BY <2>1, <2>5
    <2> QED
      BY <2>2, <2>3, <2>4, <2>5
  <1>2. \/ c \in {<<"one", n>> : n \in {n \in 1..3 : l \in <<preInvoke, batch, lastSend>>[n]}}
        \/ \E r \in Requests : c = <<"held", r>> /\ l \in held[r]
        \/ \E t \in auto : c = <<"auto", t>> /\ l \in t.left
        \/ \E t \in retries : c = <<"retry", t>> /\ l \in t.left
        \/ \E f \in Flushers : c = <<"flush", f>> /\ l \in flush[f].logs
        \/ \E k \in Kinds : c = <<"failed", k>> /\ l \in ToSet(failed[k])
    BY Zenon DEF Copies
  <1> QED
    BY <1>1, <1>2

\* A set with one element at most.
LEMMA OneAtMost ==
    ASSUME NEW S, \A c, d \in S : c = d
    PROVE  Cardinality(S) <= 1
  <1>1. CASE S = {}
    BY <1>1, FS_EmptySet
  <1>2. CASE S # {}
    <2>1. PICK c : S = {c}
      BY <1>2
    <2>2. Cardinality({c}) = 1
      BY FS_Singleton
    <2>3. Cardinality(S) = 1
      BY <2>1, <2>2
    <2> QED
      BY <2>3
  <1> QED
    BY <1>1, <1>2

\* One task at most has a log, and it is in no buffer meanwhile.
THEOREM OneCopyAlways == Spec => []OneCopy
  <1>1. ASSUME PlaceInv, NEW l \in Logs PROVE \A c, d \in Copies(l) : c = d
    <2>1. Apart(l) /\ OneHeld(l) /\ OneAuto(l) /\ OneRetry(l) /\ OneFlush(l)
      BY <1>1 DEF PlaceInv, Placed
    <2>2. \A j, k \in Kinds : l \in ToSet(failed[j]) /\ l \in ToSet(failed[k]) => j = k
      BY <1>1, KindAssumption DEF PlaceInv, FailedInv
    <2>3. ASSUME NEW c \in Copies(l)
          PROVE  \/ c = <<"one", 1>> /\ l \in preInvoke
                 \/ c = <<"one", 2>> /\ l \in batch
                 \/ c = <<"one", 3>> /\ l \in lastSend
                 \/ InHeld(l) /\ \E r \in Requests : c = <<"held", r>> /\ l \in held[r]
                 \/ InAuto(l) /\ \E t \in auto : c = <<"auto", t>> /\ l \in t.left
                 \/ InRetry(l) /\ \E t \in retries : c = <<"retry", t>> /\ l \in t.left
                 \/ InFlush(l) /\ \E f \in Flushers : c = <<"flush", f>> /\ l \in flush[f].logs
                 \/ InFailed(l) /\ \E k \in Kinds : c = <<"failed", k>> /\ l \in ToSet(failed[k])
      BY CopiesAre, Zenon DEF InHeld, InAuto, InRetry, InFlush, InFailed
    <2>4. CASE l \in preInvoke
      BY <2>1, <2>3, <2>4 DEF Apart
    <2>5. CASE l \in batch
      BY <2>1, <2>3, <2>5 DEF Apart
    <2>6. CASE l \in lastSend
      BY <2>1, <2>3, <2>6 DEF Apart
    <2>7. CASE InHeld(l)
      <3>1. \A c \in Copies(l) : \E r \in Requests : c = <<"held", r>> /\ l \in held[r]
        BY <2>1, <2>3, <2>7 DEF Apart
      <3> QED
        BY <2>1, <3>1 DEF OneHeld
    <2>8. CASE InAuto(l)
      <3>1. \A c \in Copies(l) : \E t \in auto : c = <<"auto", t>> /\ l \in t.left
        BY <2>1, <2>3, <2>8 DEF Apart
      <3> QED
        BY <2>1, <3>1 DEF OneAuto
    <2>9. CASE InRetry(l)
      <3>1. \A c \in Copies(l) : \E t \in retries : c = <<"retry", t>> /\ l \in t.left
        BY <2>1, <2>3, <2>9 DEF Apart
      <3> QED
        BY <2>1, <3>1 DEF OneRetry
    <2>10. CASE InFlush(l)
      <3>1. \A c \in Copies(l) : \E f \in Flushers : c = <<"flush", f>> /\ l \in flush[f].logs
        BY <2>1, <2>3, <2>10 DEF Apart
      <3> QED
        BY <2>1, <3>1 DEF OneFlush
    <2>11. CASE InFailed(l)
      <3>1. \A c \in Copies(l) : \E k \in Kinds : c = <<"failed", k>> /\ l \in ToSet(failed[k])
        BY <2>1, <2>3, <2>11 DEF Apart
      <3> QED
        BY <2>2, <3>1
    <2>12. CASE l \notin preInvoke /\ l \notin batch /\ l \notin lastSend /\ ~InHeld(l) /\ ~InAuto(l)
                /\ ~InRetry(l) /\ ~InFlush(l) /\ ~InFailed(l)
      BY <2>3, <2>12
    <2> QED
      BY <2>4, <2>5, <2>6, <2>7, <2>8, <2>9, <2>10, <2>11, <2>12
  <1>2. ASSUME PlaceInv PROVE OneCopy
    BY <1>1, <1>2, OneAtMost DEF OneCopy
  <1> QED
    BY <1>2, PlaceAlways, PTL

-----------------------------------------------------------------------------
(* What SHUTDOWN leaves behind.                                            *)

\* A task has sent some of what it took.
KeyInv == \A t \in auto : t.left \subseteq t.key

\* The last flush has taken what was held, and the INIT logs;
Emptied == due \cap preInvoke = {} /\ \A r \in Requests : due \cap held[r] = {}

\* and past its wait for the auto-flush task nothing of what was due is left in the batch, but
\* for want of an ARN, nor with the task the handle names by then.
Awaited ==
    flush[None].stage # "auto" =>
        /\ ArnKnown => due \cap batch = {}
        /\ \A t \in auto : t.key = handle => due \cap t.left = {}

DrainInv ==
    /\ due \subseteq seen
    /\ KeyInv
    /\ loop = "drain" => Emptied /\ Awaited

\* Nothing is due.
LEMMA DrainInit == Init => DrainInv
  BY DEF Init, DrainInv, KeyInv

\* DrainInv is about these.
LEMMA DrainSame ==
    ASSUME DrainInv, seen \subseteq seen', due' = due, auto' = auto,
           loop' = "drain" => /\ loop = "drain"
                              /\ UNCHANGED <<preInvoke, held, batch, handle, flush, context, fallback>>
    PROVE  DrainInv'
  <1>1. due' \subseteq seen' /\ KeyInv'
    BY DEF DrainInv, KeyInv
  <1>2. ASSUME loop' = "drain" PROVE Emptied' /\ Awaited'
    <2>1. /\ loop = "drain"
          /\ UNCHANGED <<preInvoke, held, batch, handle, flush, context, fallback>>
      BY <1>2
    <2>2. Emptied /\ Awaited
      BY <2>1 DEF DrainInv
    <2>3. Emptied'
      BY <2>1, <2>2 DEF Emptied
    <2>4. Awaited'
      BY <2>1, <2>2 DEF Awaited, ArnKnown
    <2> QED
      BY <2>3, <2>4
  <1> QED
    BY <1>1, <1>2 DEF DrainInv

\* A new task has sent nothing of what it took.
LEMMA SpawnKeys ==
    ASSUME TypeOK, KeyInv, NEW b \in SUBSET Logs, try_spawn_auto_flush(b)
    PROVE  KeyInv'
  <1>1. CASE auto' = auto
    BY <1>1 DEF KeyInv
  <1>2. CASE auto' = auto \cup {[key |-> b, left |-> b]}
    <2>1. PICK t : t = [key |-> b, left |-> b]
      OBVIOUS
    <2>2. t.key = b /\ t.left = b /\ auto' = auto \cup {t}
      BY <1>2, <2>1
    <2> QED
      BY <2>2 DEF KeyInv
  <1> QED
    BY <1>1, <1>2, SpawnIs

\* What is spawned after an INVOKE has nothing that was due.
LEMMA SpawnAwaited ==
    ASSUME TypeOK, KeyInv, Awaited, context # None, NEW b \in SUBSET Logs, try_spawn_auto_flush(b),
           due \cap b \subseteq batch, UNCHANGED <<due, flush, context, fallback>>
    PROVE  KeyInv' /\ Awaited'
  <1>1. ArnKnown
    BY DEF ArnKnown
  <1>2. CASE batch' = b /\ auto' = auto /\ handle' = handle
    BY <1>1, <1>2 DEF KeyInv, Awaited
  <1>3. CASE /\ batch' = {} /\ handle' = b
             /\ auto' = auto \cup {[key |-> b, left |-> b]}
    <2>1. PICK t : t = [key |-> b, left |-> b]
      OBVIOUS
    <2>2. t.key = b /\ t.left = b /\ auto' = auto \cup {t}
      BY <1>3, <2>1
    <2>3. KeyInv'
      BY <2>2 DEF KeyInv
    <2>4. ASSUME flush[None].stage # "auto"
          PROVE  \A u \in auto' : u.key = handle' => due \cap u.left = {}
      <3>1. due \cap b = {}
        BY <1>1, <2>4 DEF Awaited
      <3>2. \A u \in auto' : u.left \subseteq u.key
        BY <2>3 DEF KeyInv
      <3> QED
        BY <1>3, <3>1, <3>2
    <2> QED
      BY <1>3, <2>3, <2>4 DEF Awaited
  <1> QED
    BY <1>2, <1>3, SpawnIs

\* After the flush of the event loop has begun or gone on.
LEMMA BegunAwaited ==
    ASSUME TypeOK, KeyInv', NEW b, NEW h, NEW slot, FlushBegun(None, b, h, slot),
           handle' = {} \/ ~Runs(auto', handle'), UNCHANGED <<context, fallback>>
    PROVE  Awaited'
  <1>1. ArnKnown' <=> ArnKnown
    BY DEF ArnKnown
  <1>2. \A t \in auto' : t.key = handle' => t.left = {}
    BY DEF KeyInv, Runs
  <1>3. flush'[None].stage # "auto" /\ ArnKnown => batch' = {}
    BY DEF FlushBegun, Taken
  <1> QED
    BY <1>1, <1>2, <1>3 DEF Awaited

\* A record that comes in was not due.
LEMMA DrainDeliver ==
    ASSUME TypeInv, DrainInv, NEW m \in Logs,
           process_record(m) \/ DiscardRecord(m) \/ add_log_to_batch(m)
    PROVE  DrainInv'
  <1> USE DEF TypeInv
  <1>1. /\ m \notin seen /\ seen' = seen \cup {m}
        /\ UNCHANGED <<loop, due, flush, context, fallback>>
    BY DEF process_record, DiscardRecord, add_log_to_batch, Deliver, shutVars
  <1>2. m \notin due /\ due' \subseteq seen'
    BY <1>1 DEF DrainInv
  <1>3. KeyInv
    BY DEF DrainInv
  <1>4. CASE DiscardRecord(m)
    <2>1. UNCHANGED <<preInvoke, held, batch, auto, handle>>
      BY <1>4 DEF DiscardRecord, holdVars, autoVars
    <2> QED
      BY <1>1, <2>1, DrainSame
  <1>5. CASE add_log_to_batch(m)
    <2>1. UNCHANGED <<preInvoke, held, auto, handle>> /\ batch' = batch \cup {m}
      BY <1>5 DEF add_log_to_batch, holdVars, autoVars
    <2>2. Emptied => Emptied'
      BY <1>1, <2>1 DEF Emptied
    <2>3. Awaited => Awaited'
      BY <1>1, <1>2, <2>1 DEF Awaited, ArnKnown
    <2>4. KeyInv'
      BY <1>3, <2>1 DEF KeyInv
    <2> QED
      BY <1>1, <1>2, <2>2, <2>3, <2>4 DEF DrainInv
  <1>6. CASE process_record(m)
    <2>1. \/ preInvoke' = preInvoke \cup {m} /\ UNCHANGED <<held, batch, auto, handle>>
          \/ /\ context # None
             /\ held' = Hold(effective_request_id, m).held
             /\ IF Hold(effective_request_id, m).evicted = {}
                THEN UNCHANGED <<batch, auto, handle>>
                ELSE try_spawn_auto_flush(batch \cup Hold(effective_request_id, m).evicted)
             /\ UNCHANGED preInvoke
          \/ context # None /\ try_spawn_auto_flush(batch \cup {m}) /\ UNCHANGED <<preInvoke, held>>
      BY <1>6 DEF process_record, holdVars, autoVars
    <2>2. batch \in SUBSET Logs
      BY TasksAre
    <2>3. CASE preInvoke' = preInvoke \cup {m} /\ UNCHANGED <<held, batch, auto, handle>>
      <3>1. Emptied => Emptied'
        BY <1>1, <1>2, <2>3 DEF Emptied
      <3>2. Awaited => Awaited'
        BY <1>1, <2>3 DEF Awaited, ArnKnown
      <3>3. KeyInv'
        BY <1>3, <2>3 DEF KeyInv
      <3> QED
        BY <1>1, <1>2, <3>1, <3>2, <3>3 DEF DrainInv
    <2>4. CASE context # None /\ try_spawn_auto_flush(batch \cup {m}) /\ UNCHANGED <<preInvoke, held>>
      <3>1. PICK b \in SUBSET Logs : b = batch \cup {m}
        BY <2>2
      <3>2. try_spawn_auto_flush(b) /\ due \cap b \subseteq batch
        BY <1>2, <2>4, <3>1
      <3>3. Awaited => Awaited'
        BY <1>1, <1>3, <2>4, <3>2, SpawnAwaited
      <3>4. KeyInv'
        BY <1>3, <3>2, SpawnKeys
      <3>5. Emptied => Emptied'
        BY <1>1, <2>4 DEF Emptied
      <3> QED
        BY <1>1, <1>2, <3>3, <3>4, <3>5 DEF DrainInv
    <2>5. ASSUME context # None,
                 held' = Hold(effective_request_id, m).held,
                 IF Hold(effective_request_id, m).evicted = {}
                 THEN UNCHANGED <<batch, auto, handle>>
                 ELSE try_spawn_auto_flush(batch \cup Hold(effective_request_id, m).evicted),
                 UNCHANGED preInvoke
          PROVE  DrainInv'
      <3>1. PICK r \in Requests : r = effective_request_id
        BY <2>5, EffectiveIs
      <3>2. PICK after : after = Hold(r, m)
        OBVIOUS
      <3>3. PICK b : b = batch \cup after.evicted
        OBVIOUS
      <3>4. /\ held' = after.held /\ b \in SUBSET Logs
            /\ \/ UNCHANGED <<batch, auto, handle>> /\ after.evicted = {}
               \/ try_spawn_auto_flush(b)
        BY <2>2, <2>5, <3>1, <3>2, <3>3, HoldIs
      <3>5. \A q \in Requests : held'[q] \subseteq held[q] \cup {m}
        <4>1. \A q \in Requests : after.held[q] \in {held[q] \cup (IF q = r THEN {m} ELSE {}), {}}
          BY <3>2, HoldIs
        <4> QED
          BY <3>4, <4>1
      <3>6. after.evicted = {} \/ \E q \in Requests : after.evicted \subseteq held[q] \cup {m}
        <4>1. after.evicted # {} => \E q \in Requests : Evicts(after, r, m, q)
          BY <3>2, HoldIs
        <4> QED
          BY <4>1 DEF Evicts
      <3>7. Emptied => Emptied' /\ due \cap b \subseteq batch
        BY <1>1, <1>2, <2>5, <3>3, <3>5, <3>6 DEF Emptied
      <3>8. KeyInv'
        <4>1. CASE UNCHANGED <<batch, auto, handle>>
          BY <1>3, <4>1 DEF KeyInv
        <4>2. CASE try_spawn_auto_flush(b)
          BY <1>3, <3>4, <4>2, SpawnKeys
        <4> QED
          BY <3>4, <4>1, <4>2
      <3>9. Emptied /\ Awaited => Awaited'
        <4>1. CASE UNCHANGED <<batch, auto, handle>>
          BY <1>1, <4>1 DEF Awaited, ArnKnown
        <4>2. CASE try_spawn_auto_flush(b)
          BY <1>1, <1>3, <2>5, <3>4, <3>7, <4>2, SpawnAwaited
        <4> QED
          BY <3>4, <4>1, <4>2
      <3> QED
        BY <1>1, <1>2, <3>7, <3>8, <3>9 DEF DrainInv
    <2> QED
      BY <2>1, <2>3, <2>4, <2>5
  <1> QED
    BY <1>4, <1>5, <1>6

\* Nothing held was due.
LEMMA DrainTrace ==
    ASSUME TypeInv, DrainInv, NEW r \in Requests, on_trace_id_extracted(r)
    PROVE  DrainInv'
  <1> USE DEF TypeInv
  <1>1. UNCHANGED <<loop, seen, preInvoke, due, flush, context, fallback>> /\ r <= context
    BY DEF on_trace_id_extracted, streamVars, shutVars
  <1>2. context # None
    BY <1>1 DEF TypeOK, Requests, None
  <1>3. PICK logs \in SUBSET Logs : logs = held[r]
    BY DEF TypeOK
  <1>4. /\ \A q \in Requests : held'[q] \subseteq held[q]
        /\ IF logs = {} THEN UNCHANGED <<batch, auto, handle>> ELSE try_spawn_auto_flush(batch \cup logs)
    BY <1>3 DEF on_trace_id_extracted, held_for, autoVars
  <1>5. PICK b \in SUBSET Logs : b = batch \cup logs
    BY <1>3, TasksAre
  <1>6. KeyInv
    BY DEF DrainInv
  <1>7. Emptied => Emptied' /\ due \cap b \subseteq batch
    BY <1>1, <1>3, <1>4, <1>5 DEF Emptied
  <1>8. KeyInv' /\ (Emptied /\ Awaited => Awaited')
    <2>1. CASE logs = {}
      <3>1. UNCHANGED <<batch, auto, handle>>
        BY <1>4, <2>1
      <3>2. KeyInv'
        BY <1>6, <3>1 DEF KeyInv
      <3>3. Awaited => Awaited'
        BY <1>1, <3>1 DEF Awaited, ArnKnown
      <3> QED
        BY <3>2, <3>3
    <2>2. CASE logs # {}
      <3>1. try_spawn_auto_flush(b)
        BY <1>4, <1>5, <2>2
      <3>2. KeyInv'
        BY <1>6, <3>1, SpawnKeys
      <3>3. Emptied /\ Awaited => Awaited'
        BY <1>1, <1>2, <1>6, <1>7, <3>1, SpawnAwaited
      <3> QED
        BY <3>2, <3>3
    <2> QED
      BY <2>1, <2>2
  <1> QED
    BY <1>1, <1>7, <1>8 DEF DrainInv

\* A chunk of an auto-flush task leaves less of it.
LEMMA DrainAuto ==
    ASSUME TypeInv, DrainInv, NEW t \in auto, NEW out \in Fates(t.left), AutoFlushChunk(t, out)
    PROVE  DrainInv'
  <1> USE DEF TypeInv
  <1>1. UNCHANGED <<loop, seen, preInvoke, held, batch, handle, due, flush, context, fallback>>
    BY DEF AutoFlushChunk, streamVars, holdVars, shutVars
  <1>2. PICK left : left = t.left \ DOMAIN out
    OBVIOUS
  <1>3. PICK u : u = [t EXCEPT !.left = left]
    OBVIOUS
  <1>4. u.left = left /\ u.key = t.key
    <2>1. t \in [key : SUBSET Logs, left : SUBSET Logs] /\ left \in SUBSET Logs
      BY <1>2 DEF TypeOK
    <2> QED
      BY <1>3, <2>1, LessLeft
  <1>5. \A v \in auto' : v \in auto \/ v = u
    BY <1>2, <1>3 DEF AutoFlushChunk
  <1>6. \A v \in auto' : \E w \in auto : v.key = w.key /\ v.left \subseteq w.left
    BY <1>2, <1>4, <1>5
  <1>7. KeyInv'
    BY <1>6 DEF DrainInv, KeyInv
  <1>8. Awaited => Awaited'
    BY <1>1, <1>6 DEF Awaited, ArnKnown
  <1>9. Emptied => Emptied'
    BY <1>1 DEF Emptied
  <1> QED
    BY <1>1, <1>7, <1>8, <1>9 DEF DrainInv

\* A flush in progress during SHUTDOWN's last part is the event loop's.
LEMMA DrainFlush ==
    ASSUME TypeInv, FlushInv, DrainInv, NEW f \in Flushers,
           FlushAutoDone(f) \/ \E out \in Fates(flush[f].logs) : FlushChunk(f, out)
    PROVE  DrainInv'
  <1> USE DEF TypeInv
  <1>1. /\ UNCHANGED <<loop, seen, preInvoke, held, auto, due, context, fallback>>
        /\ flush[f].stage # "none"
    BY Zenon DEF FlushAutoDone, FlushChunk, streamVars, holdVars, autoVars, shutVars
  <1>2. loop = "drain" => f = None
    BY <1>1 DEF FlushInv, AllDone, Flushers
  <1>3. KeyInv /\ KeyInv'
    BY <1>1 DEF DrainInv, KeyInv
  <1>4. Emptied => Emptied'
    BY <1>1 DEF Emptied
  <1>5. CASE FlushAutoDone(f)
    <2>1. ASSUME f = None PROVE Awaited'
      <3>1. /\ batch \in SUBSET Logs /\ handle \in SUBSET Logs
            /\ flush[f].retry \in RetryIds \cup {None}
        BY TasksAre
      <3>2. FlushBegun(None, batch, handle, flush[f].retry) /\ handle' = {}
        BY <1>5, <2>1, <3>1, DrainIs DEF FlushAutoDone
      <3> QED
        BY <1>1, <1>3, <3>2, BegunAwaited
    <2> QED
      BY <1>1, <1>2, <1>3, <1>4, <2>1 DEF DrainInv
  <1>6. ASSUME NEW out \in Fates(flush[f].logs), FlushChunk(f, out) PROVE DrainInv'
    <2>1. UNCHANGED <<batch, handle>> /\ flush[f].stage = "sending"
      BY <1>6 DEF FlushChunk, autoVars
    <2>2. ASSUME f = None, Awaited PROVE Awaited'
      BY <1>1, <2>1, <2>2 DEF Awaited, ArnKnown
    <2> QED
      BY <1>1, <1>2, <1>3, <1>4, <2>2 DEF DrainInv
  <1> QED
    BY <1>5, <1>6

\* The last flush of SHUTDOWN begins, or the next pass of it.
LEMMA DrainBegins ==
    ASSUME TypeInv, PlaceInv, DrainInv, ShutdownFlush \/ ShutdownPass
    PROVE  DrainInv'
  <1> USE DEF TypeInv
  <1>0. /\ None \in Flushers /\ batch \in SUBSET Logs /\ handle \in SUBSET Logs
        /\ retrySlot \in RetryIds \cup {None} /\ KeyInv
    BY TasksAre DEF Flushers, DrainInv
  <1>1. CASE ShutdownFlush
    <2>1. /\ UNCHANGED <<seen, context, fallback>>
          /\ due' = InMemory /\ held' = [r \in Requests |-> {}] /\ preInvoke' = {}
      BY <1>1 DEF ShutdownFlush, streamVars
    <2>2. PICK b \in SUBSET Logs, a \in SUBSET [key : SUBSET Logs, left : SUBSET Logs],
               h \in SUBSET Logs :
             /\ \/ b = batch \cup HeldLogs(held) /\ a = auto /\ h = handle
                \/ /\ b = {} /\ h = batch \cup HeldLogs(held)
                   /\ a = auto \cup {[key |-> h, left |-> h]}
             /\ auto' = a
             /\ FlushBegin(None, b, a, h, retrySlot)
      BY <1>1, UnstampedIs
    <2>3. /\ FlushBegun(None, b, h, retrySlot)
          /\ handle' = {} \/ (handle' = h /\ ~Runs(a, h))
      BY <1>0, <2>2, FlushBeginIs
    <2>4. KeyInv'
      <3>1. CASE a = auto
        BY <1>0, <2>2, <3>1 DEF KeyInv
      <3>2. CASE a = auto \cup {[key |-> h, left |-> h]}
        <4>1. PICK t : t = [key |-> h, left |-> h]
          OBVIOUS
        <4>2. t.key = h /\ t.left = h /\ auto' = auto \cup {t}
          BY <2>2, <3>2, <4>1
        <4> QED
          BY <1>0, <4>2 DEF KeyInv
      <3> QED
        BY <2>2, <3>1, <3>2
    <2>5. handle' = {} \/ ~Runs(auto', handle')
      BY <2>2, <2>3
    <2>6. Awaited'
      BY <2>1, <2>3, <2>4, <2>5, BegunAwaited
    <2>7. InMemory \in SUBSET Logs /\ \A l \in Logs : Somewhere(l) => l \in seen
      BY InMemoryIs DEF PlaceInv, Placed
    <2>8. due' \subseteq seen'
      BY <2>1, <2>7, SomewhereIs
    <2>9. Emptied'
      BY <2>1 DEF Emptied
    <2> QED
      BY <2>4, <2>6, <2>8, <2>9 DEF DrainInv
  <1>2. CASE ShutdownPass
    <2>1. PICK id : id = Invocations + pass'
      OBVIOUS
    <2>2. /\ loop = "drain" /\ pass < MaxRetries /\ pass' = pass + 1
          /\ start_invocation_retry(id)
          /\ FlushBegin(None, batch, auto, handle, SlotAfterRetry(id))
          /\ UNCHANGED <<seen, preInvoke, held, auto, due, context, fallback>>
      BY <1>2, <2>1 DEF ShutdownPass, streamVars, holdVars
    <2>3. id \in RetryIds
      BY <2>1, <2>2, LimitAssumption DEF TypeOK, RetryIds
    <2>4. PICK slot \in RetryIds \cup {None} : slot = SlotAfterRetry(id)
      BY <2>2, <2>3, RetryIs
    <2>5. /\ FlushBegun(None, batch, handle, slot)
          /\ handle' = {} \/ (handle' = handle /\ ~Runs(auto, handle))
      BY <1>0, <2>2, <2>4, FlushBeginIs
    <2>6. KeyInv'
      BY <1>0, <2>2 DEF KeyInv
    <2>7. Awaited'
      BY <2>2, <2>5, <2>6, BegunAwaited
    <2>8. Emptied'
      BY <2>2 DEF DrainInv, Emptied
    <2> QED
      BY <2>2, <2>6, <2>7, <2>8 DEF DrainInv
  <1> QED
    BY <1>1, <1>2

\* Every step keeps DrainInv.
LEMMA DrainStep ==
    ASSUME TypeInv, FlushInv, PlaceInv, DrainInv, [Next]_vars
    PROVE  DrainInv'
  <1>1. ASSUME NEW r \in Requests,
               DeadlinePassed(r) \/ RuntimeDoneNoGrace(r) \/ GraceOver(r)
               \/ RuntimeDoneGrace(r) \/ ProcessDone(r)
        PROVE  DrainInv'
    <2>1. task[r] \in Active /\ seen' = seen /\ due' = due /\ auto' = auto
      BY <1>1, Zenon DEF DeadlinePassed, RuntimeDoneNoGrace, GraceOver, EndOfWait, RuntimeDoneGrace,
                         ProcessDone, Active, streamVars, autoVars, shutVars
    <2>2. loop' \in {loop, "next"}
      BY <1>1, Zenon DEF DeadlinePassed, RuntimeDoneNoGrace, GraceOver, EndOfWait, RuntimeDoneGrace,
                         ProcessDone
    <2>3. loop # "drain"
      BY <2>1 DEF FlushInv, AllDone, Active
    <2> QED
      BY <2>1, <2>2, <2>3, DrainSame
  <1>2. CASE Invoke \/ EmergencyFlush \/ Stop("flush") \/ Stop("emergency") \/ Settling
             \/ ShutdownDone \/ EmergencyDone \/ ShutdownTimeOut
    <2>1. seen' = seen /\ due' = due /\ auto' = auto
      BY <1>2, Zenon DEF Invoke, EmergencyFlush, Stop, Settling, ShutdownDone, EmergencyDone,
                         ShutdownTimeOut, Exit, streamVars, autoVars, shutVars
    <2>2. loop' # "drain"
      BY <1>2 DEF Invoke, EmergencyFlush, Stop, Settling, ShutdownDone, EmergencyDone,
                  ShutdownTimeOut, Exit
    <2> QED
      BY <2>1, <2>2, DrainSame
  <1>3. CASE UNCHANGED <<loop, seen, due, auto, preInvoke, held, batch, handle, flush, context, fallback>>
    BY <1>3, DrainSame
  <1>4. \/ \E l \in Logs : process_record(l) \/ DiscardRecord(l) \/ add_log_to_batch(l)
        \/ \E t \in auto : \E out \in Fates(t.left) : AutoFlushChunk(t, out)
        \/ \E f \in Flushers : FlushAutoDone(f) \/ \E out \in Fates(flush[f].logs) : FlushChunk(f, out)
        \/ \E r \in Requests : on_trace_id_extracted(r)
        \/ \E r \in Requests : DeadlinePassed(r) \/ RuntimeDoneNoGrace(r) \/ GraceOver(r)
                               \/ RuntimeDoneGrace(r) \/ ProcessDone(r)
        \/ Invoke \/ EmergencyFlush \/ Stop("flush") \/ Stop("emergency") \/ Settling
        \/ ShutdownDone \/ EmergencyDone \/ ShutdownTimeOut
        \/ ShutdownFlush \/ ShutdownPass
        \/ UNCHANGED <<loop, seen, due, auto, preInvoke, held, batch, handle, flush, context, fallback>>
    BY StepIs, Zenon
    DEF RetryChunk, LastSendChunk, PlatformStart, vars, streamVars, holdVars, autoVars, shutVars
  <1> QED
    BY <1>1, <1>2, <1>3, <1>4, DrainDeliver, DrainAuto, DrainFlush, DrainTrace, DrainBegins, Zenon

LEMMA DrainAlways == Spec => []DrainInv
  <1>1. ASSUME TypeInv, FlushInv /\ RetryInv, PlaceInv, DrainInv, [Next]_vars PROVE DrainInv'
    BY <1>1, DrainStep
  <1> QED
    BY <1>1, DrainInit, TypeAlways, FlushAlways, PlaceAlways, PTL DEF Spec

\* A process that has ended does nothing.
LEMMA ExitedStays ==
    ASSUME loop = "exited", [Next]_vars
    PROVE  UNCHANGED vars
  <1>1. ~Running /\ loop # "next" /\ loop # "flush" /\ loop # "settle" /\ loop # "drain"
        /\ loop # "emergency" /\ loop # "lastFlush" /\ loop \notin Stopping
    BY DEF Running, Ended, Stopping
  <1>2. /\ \A l \in Logs : ~process_record(l) /\ ~DiscardRecord(l) /\ ~add_log_to_batch(l)
        /\ \A r \in Requests : ~on_trace_id_extracted(r)
        /\ ~PlatformStart
    BY <1>1, Zenon DEF process_record, DiscardRecord, add_log_to_batch, Deliver, on_trace_id_extracted,
                       PlatformStart
  <1>3. /\ \A t \in auto : \A out \in Fates(t.left) : ~AutoFlushChunk(t, out)
        /\ \A t \in retries : \A out \in Fates(t.left) : ~RetryChunk(t, out)
        /\ \A f \in Flushers : ~FlushAutoDone(f)
        /\ \A f \in Flushers : \A out \in Fates(flush[f].logs) : ~FlushChunk(f, out)
        /\ \A out \in Fates(lastSend) : ~LastSendChunk(out)
    BY <1>1, Zenon DEF AutoFlushChunk, RetryChunk, FlushAutoDone, FlushChunk, LastSendChunk
  <1>4. \A r \in Requests : /\ ~DeadlinePassed(r) /\ ~RuntimeDoneNoGrace(r) /\ ~GraceOver(r)
                            /\ ~RuntimeDoneGrace(r) /\ ~ProcessDone(r)
    BY <1>1, Zenon DEF DeadlinePassed, RuntimeDoneNoGrace, GraceOver, RuntimeDoneGrace, ProcessDone
  <1>5. /\ ~Invoke /\ ~ShutdownFlush /\ ~ShutdownPass /\ ~EmergencyFlush /\ ~Settling
        /\ ~Stop("flush") /\ ~Stop("emergency") /\ ~ShutdownDone /\ ~EmergencyDone
    BY <1>1, Zenon DEF Invoke, ShutdownFlush, ShutdownPass, EmergencyFlush, Settling, Stop,
                       ShutdownDone, EmergencyDone
  <1>6. ~ShutdownTimeOut
    BY <1>1 DEF ShutdownTimeOut
  <1> QED
    BY <1>2, <1>3, <1>4, <1>5, <1>6, StepIs, Zenon

\* Only ShutdownDone lets the process exit; what else ends it, kills it.
LEMMA OnlyDoneExits ==
    ASSUME TypeInv, [Next]_vars, loop # "exited", ~ShutdownDone
    PROVE  loop' # "exited"
  <1>1. CASE Invoke \/ EmergencyFlush \/ ShutdownFlush \/ Stop("flush") \/ Stop("emergency") \/ Settling
             \/ EmergencyDone \/ ShutdownTimeOut
    BY <1>1 DEF Invoke, EmergencyFlush, ShutdownFlush, Stop, Settling, EmergencyDone, ShutdownTimeOut,
                Exit
  <1>2. ASSUME NEW r \in Requests, ProcessDone(r) PROVE loop' # "exited"
    BY <1>2 DEF ProcessDone
  <1>3. \/ Invoke \/ EmergencyFlush \/ ShutdownFlush \/ Stop("flush") \/ Stop("emergency") \/ Settling
           \/ EmergencyDone \/ ShutdownTimeOut
        \/ \E r \in Requests : ProcessDone(r)
        \/ loop' = loop
    BY StepIs, Zenon
    DEF process_record, DiscardRecord, add_log_to_batch, Deliver, AutoFlushChunk, RetryChunk,
        FlushAutoDone, FlushChunk, DeadlinePassed, RuntimeDoneNoGrace, GraceOver, EndOfWait,
        on_trace_id_extracted, ShutdownPass, PlatformStart, LastSendChunk, RuntimeDoneGrace, vars
  <1> QED
    BY <1>1, <1>2, <1>3

\* What an orderly SHUTDOWN leaves when it ends.
LEMMA ShutdownEnds ==
    ASSUME TypeInv, FlushInv, RetryInv, DrainInv, ShutdownDone
    PROVE  ShutdownFlushesAll'
  <1> USE DEF TypeInv
  <1>1. /\ loop = "drain" /\ flush[None].stage = "joining" /\ ~RetryRuns(flush[None].retry)
        /\ lastSend = {}
        /\ UNCHANGED <<due, preInvoke, held, batch, auto, handle, failed, retries, flush, lastSend,
                       context, fallback>>
    BY DEF ShutdownDone, Exit, Joined, streamVars, holdVars, autoVars, retryVars, shutVars
  <1>2. Emptied /\ Awaited
    BY <1>1 DEF DrainInv
  <1>3. \A f \in Flushers : flush[f].logs = {}
    BY <1>1 DEF FlushInv, AllDone, Flushers
  <1>4. ~PipelineFlush => retries = {}
    BY <1>1 DEF RetryInv, RetryRuns
  <1>5. ASSUME NEW l \in due, Somewhere(l)
        PROVE  \/ InFailed(l)
               \/ \E t \in auto : t.key # handle /\ l \in t.left
               \/ PipelineFlush /\ InRetry(l)
               \/ ~ArnKnown /\ l \in batch
    <2>1. l \notin preInvoke /\ ~InHeld(l) /\ l \notin lastSend /\ ~InFlush(l)
      BY <1>1, <1>2, <1>3 DEF Emptied, InHeld, InFlush
    <2>2. l \in batch => ~ArnKnown
      BY <1>1, <1>2 DEF Awaited
    <2>3. InAuto(l) => \E t \in auto : t.key # handle /\ l \in t.left
      BY <1>1, <1>2 DEF Awaited, InAuto
    <2>4. InRetry(l) => PipelineFlush
      BY <1>4 DEF InRetry
    <2> QED
      BY <1>5, <2>1, <2>2, <2>3, <2>4 DEF Somewhere
  <1>6. /\ \A l : InFailed(l) => l \in FailedLogs(failed)
        /\ \A l : InRetry(l) => l \in RetryLogs
        /\ \A l : (\E t \in auto : t.key # handle /\ l \in t.left)
                     => l \in UNION {t.left : t \in {t \in auto : t.key # handle}}
    BY DEF InFailed, FailedLogs, InRetry, RetryLogs
  <1>7. due \cap InMemory \subseteq
            FailedLogs(failed)
            \cup (UNION {t.left : t \in {t \in auto : t.key # handle}})
            \cup (IF PipelineFlush THEN RetryLogs ELSE {})
            \cup (IF ArnKnown THEN {} ELSE batch)
    <2> DEFINE Unawaited == UNION {t.left : t \in {t \in auto : t.key # handle}}
               Retrying  == IF PipelineFlush THEN RetryLogs ELSE {}
               Unkeyed   == IF ArnKnown THEN {} ELSE batch
    <2>1. ASSUME NEW l \in due \cap InMemory
          PROVE  \/ l \in FailedLogs(failed) \/ l \in Unawaited \/ l \in Retrying \/ l \in Unkeyed
      <3>1. /\ l \in due
            /\ Somewhere(l)
        BY <2>1, SomewhereIs, Zenon
      <3>2. CASE InFailed(l)
        BY <3>2, <1>6, Zenon
      <3>3. CASE \E t \in auto : t.key # handle /\ l \in t.left
        BY <3>3, <1>6, Zenon
      <3>4. CASE PipelineFlush /\ InRetry(l)
        BY <3>4, <1>6, Zenon
      <3>5. CASE ~ArnKnown /\ l \in batch
        BY <3>5, Zenon
      <3> QED
        BY <3>1, <3>2, <3>3, <3>4, <3>5, <1>5, Zenon
    <2> HIDE DEF Unawaited, Retrying, Unkeyed
    <2>2. due \cap InMemory \subseteq FailedLogs(failed) \cup Unawaited \cup Retrying \cup Unkeyed
      BY <2>1
    <2> QED
      BY <2>2, Zenon DEF Unawaited, Retrying, Unkeyed
  <1>8. /\ InMemory' = InMemory /\ FailedLogs(failed') = FailedLogs(failed)
        /\ RetryLogs' = RetryLogs /\ (ArnKnown' <=> ArnKnown)
    BY <1>1 DEF InMemory, HeldLogs, AutoLogs, RetryLogs, FlushLogs, FailedLogs, ArnKnown
  <1> QED
    BY <1>1, <1>7, <1>8 DEF ShutdownFlushesAll

\* An orderly SHUTDOWN leaves nothing of what it found: only failures of its last retry pass, logs
\* without an ARN, and those of a task nobody awaits any more.
THEOREM ShutdownLeavesNothing == Spec => []ShutdownFlushesAll
  <1>1. Init => ShutdownFlushesAll
    BY DEF Init, ShutdownFlushesAll
  <1>2. ASSUME TypeInv, FlushInv /\ RetryInv, DrainInv, ShutdownFlushesAll, [Next]_vars
        PROVE  ShutdownFlushesAll'
    <2>1. CASE loop = "exited"
      <3>1. UNCHANGED vars
        BY <1>2, <2>1, ExitedStays
      <3>2. UNCHANGED <<loop, due, preInvoke, held, batch, auto, handle, failed, retries, flush,
                        lastSend, context, fallback>>
        BY <3>1 DEF vars, streamVars, holdVars, autoVars, retryVars, shutVars
      <3> QED
        BY <1>2, <3>2 DEF ShutdownFlushesAll, InMemory, HeldLogs, AutoLogs, RetryLogs, FlushLogs,
                          FailedLogs, ArnKnown
    <2>2. CASE ShutdownDone
      BY <1>2, <2>2, ShutdownEnds
    <2>3. CASE loop # "exited" /\ ~ShutdownDone
      <3>1. loop' # "exited"
        BY <1>2, <2>3, OnlyDoneExits
      <3> QED
        BY <3>1 DEF ShutdownFlushesAll
    <2> QED
      BY <2>1, <2>2, <2>3
  <1> QED
    BY <1>1, <1>2, TypeAlways, FlushAlways, DrainAlways, PTL DEF Spec
=============================================================================
