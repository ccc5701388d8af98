-------------------------- MODULE LmiDelivery_proofs --------------------------
(***************************************************************************)
(* Proofs about LmiDelivery, on top of what the operations of ApmSession   *)
(* and ApmRetry preserve:                                                  *)
(*   - its types (TypeInv);                                                *)
(*   - a payload is in one place only (OutInv);                            *)
(*   - what is lost was filed while a flush was at work, or does not parse *)
(*     (ReportInv, LateInv).                                               *)
(***************************************************************************)
EXTENDS LmiDelivery, ApmRetry_proofs

-----------------------------------------------------------------------------
(* Types.                                                                  *)

RestOK ==
    /\ loop \in {"next", "drain", "join", "exited"}
    /\ beating \in BOOLEAN
    /\ report \in [Requests -> {"none", "posting", "sending", "retrying", "pending", "gone"}]
    /\ lost \in SUBSET (Payloads \cup Requests)

Places == {"away", "orphan", "buffer", "taken", "sending", "failed", "out"}
PlaceOK ==
    /\ place \in [Payloads -> Places]
    /\ under \in [Payloads -> Slots \cup {NoSlot}]
    /\ holder \in [Payloads -> Tasks \cup {Nobody}]
    /\ during \in [Payloads -> SUBSET Flushers]
    /\ \A p \in Payloads : (holder[p] # Nobody) <=> (place[p] \in {"taken", "sending"})
    /\ \A p \in Payloads : (under[p] # NoSlot) <=> (place[p] = "buffer")

\* A flush is at an entry, and has others to visit, only while it goes through them; it
\* has failed payloads only while it retries them.
Flushes == [stage : Stages, todo : SUBSET Slots, now : Slots \cup {NoSlot},
            left : Seq(FailedItems), kept : Seq(FailedItems)]
Visiting(w) == w.stage \in {"pending", "posting"}
FlushOK ==
    /\ flush \in [Flushers -> Flushes]
    /\ \A f \in Flushers :
         /\ Visiting(flush[f]) => flush[f].now \in Slots
         /\ flush[f].stage # "retry" => flush[f].left = <<>> /\ flush[f].kept = <<>>

\* A payload is in the sequence q of failed ones once, and there only, while its place is
\* "failed"; what a retry of them has left to send, and what it keeps, it holds.
HeldBy(w, t, P, H) ==
    /\ Once(w.left) /\ Once(w.kept)
    /\ Of(w.left) \cap Of(w.kept) = {}
    /\ \A p \in Of(w.left) \cup Of(w.kept) : P[p] = "taken" /\ H[p] = t
FailedAre(q, F, P, H) ==
    /\ q \in Seq(FailedItems) /\ Once(q)
    /\ \A p \in Payloads : P[p] = "failed" <=> p \in Of(q)
    /\ \A f \in Flushers : HeldBy(F[f], Task("retry", f), P, H)
FailedInv == FailedAre(failed, flush, place, holder)

\* Every entry made takes a payload that was not routed yet, or a platform.start.
Routed == {p \in Payloads : place[p] # "away"}
EntryOK ==
    /\ started \in SUBSET Requests /\ entry \in SUBSET Requests
    /\ made \in [Requests -> Nat]
    /\ \A r \in entry : made[r] >= 1
    /\ \A r \in Requests : made[r] <= Cardinality(Routed) + (IF r \in started THEN 1 ELSE 0)

\* A flush has one entry per request to visit; none is newer than the last one made.
Distinct(S) == \A s, t \in S : s.of = t.of => s = t
SlotInv ==
    /\ \A f \in Flushers : Visiting(flush[f]) =>
          /\ Distinct(flush[f].todo \cup {flush[f].now})
          /\ flush[f].now \notin flush[f].todo
    /\ \A p \in Payloads : place[p] = "buffer" => under[p].nth <= made[under[p].of]

TypeInv ==
    /\ SessionTypeOK /\ RetryOK(RetryIds) /\ RestOK
    /\ PlaceOK /\ FlushOK /\ FailedInv /\ EntryOK /\ SlotInv

\* The bound on entries, and what has been routed, is a number.
LEMMA Bounds ==
    /\ Cardinality(Payloads) \in Nat
    /\ Cardinality(Routed) \in Nat /\ Cardinality(Routed) <= Cardinality(Payloads)
  <1>1. Routed \subseteq Payloads
    BY DEF Routed
  <1> QED
    BY <1>1, LmiAssumption, FS_CardinalityType, FS_Subset

\* The slot of an entry.
LEMMA SlotTypes ==
    ASSUME EntryOK
    PROVE  /\ made \in [Requests -> 0..(Cardinality(Payloads) + 1)]
           /\ \A r \in entry : SlotOf(r) \in Slots /\ SlotOf(r).of = r
  <1>1. ASSUME NEW r \in Requests PROVE made[r] \in 0..(Cardinality(Payloads) + 1)
    BY Bounds DEF EntryOK
  <1>2. made \in [Requests -> 0..(Cardinality(Payloads) + 1)]
    BY <1>1 DEF EntryOK
  <1>3. ASSUME NEW r \in entry PROVE SlotOf(r) \in Slots /\ SlotOf(r).of = r
    <2>1. r \in Requests /\ made[r] \in 1..(Cardinality(Payloads) + 1)
      BY <1>1, Bounds DEF EntryOK
    <2> QED
      BY <2>1 DEF SlotOf, Slots
  <1> QED
    BY <1>2, <1>3

\* TypeInv is TypeOK, and a little more.
LEMMA TypeInvIsMore == TypeInv => TypeOK
  <1> SUFFICES ASSUME TypeInv PROVE TypeOK
    OBVIOUS
  <1>1. SessionTypeOK /\ RetryTypeOK(RetryIds)
    BY DEF TypeInv, RetryOK
  <1>2. /\ loop \in {"next", "drain", "join", "exited"} /\ beating \in BOOLEAN
        /\ report \in [Requests -> {"none", "posting", "sending", "retrying", "pending", "gone"}]
        /\ lost \in SUBSET (Payloads \cup Requests)
    BY DEF TypeInv, RestOK
  <1>3. /\ started \in SUBSET Requests /\ entry \in SUBSET Requests
        /\ made \in [Requests -> 0..(Cardinality(Payloads) + 1)]
    BY SlotTypes DEF TypeInv, EntryOK
  <1>4. /\ place \in [Payloads -> {"away", "orphan", "buffer", "taken", "sending", "failed", "out"}]
        /\ under \in [Payloads -> Slots \cup {NoSlot}]
        /\ holder \in [Payloads -> Tasks \cup {Nobody}]
        /\ during \in [Payloads -> SUBSET Flushers]
        /\ \A p \in Payloads : (holder[p] # Nobody) <=> (place[p] \in {"taken", "sending"})
        /\ \A p \in Payloads : (under[p] # NoSlot) <=> (place[p] = "buffer")
    BY DEF TypeInv, PlaceOK, Places
  <1>5. failed \in Seq(FailedItems)
    BY DEF TypeInv, FailedInv, FailedAre
  <1>6. flush \in [Flushers -> [stage : Stages, todo : SUBSET Slots, now : Slots \cup {NoSlot},
                                left : Seq(FailedItems), kept : Seq(FailedItems)]]
    BY DEF TypeInv, FlushOK, Flushes
  <1> QED
    BY <1>1, <1>2, <1>3, <1>4, <1>5, <1>6, Zenon DEF TypeOK

\* FailedInv of the next state.
LEMMA FailedAfter == FailedInv' <=> FailedAre(failed', flush', place', holder')
  BY DEF FailedInv, FailedAre, HeldBy, Of, Once, Task

\* A flush with no failed payloads.
LEMMA HoldsNothing ==
    ASSUME NEW w, w.left = <<>>, w.kept = <<>>, NEW t, NEW P, NEW H
    PROVE  HeldBy(w, t, P, H)
  BY OfEmpty DEF HeldBy

\* A flush that begins a stage.
LEMMA AtIs ==
    ASSUME NEW stage \in Stages
    PROVE  /\ At(stage) = [stage |-> stage, todo |-> {}, now |-> NoSlot, left |-> <<>>, kept |-> <<>>]
           /\ At(stage) \in Flushes
  <1>1. At(stage) = [stage |-> stage, todo |-> {}, now |-> NoSlot, left |-> <<>>, kept |-> <<>>]
    <2>1. PICK w : w = Idling
      OBVIOUS
    <2>2. PICK none : none = <<>>
      OBVIOUS
    <2>3. w = [stage |-> "idle", todo |-> {}, now |-> NoSlot, left |-> none, kept |-> none]
      BY <2>1, <2>2 DEF Idling
    <2>4. At(stage) = [w EXCEPT !.stage = stage]
      BY <2>1 DEF At
    <2>5. At(stage) = [stage |-> stage, todo |-> {}, now |-> NoSlot, left |-> none, kept |-> none]
      BY <2>3, <2>4
    <2> QED
      BY <2>2, <2>5
  <1>2. <<>> \in Seq(FailedItems)
    BY EmptySeq
  <1> QED
    BY <1>1, <1>2 DEF Flushes

\* The initial states.
LEMMA TypeInit == Init => TypeInv
  <1> SUFFICES ASSUME Init PROVE TypeInv
    OBVIOUS
  <1>1. SessionTypeOK
    BY SessionStarts DEF Init
  <1>2. RetryOK(RetryIds)
    BY EmptySeq DEF Init, RetryInit, RetryOK, RetryTypeOK
  <1>3. RestOK
    BY DEF Init, RestOK
  <1>4. PlaceOK
    BY DEF Init, PlaceOK, Places
  <1>5. FlushOK
    <2>1. Idling \in Flushes /\ Idling.left = <<>> /\ Idling.kept = <<>> /\ Idling.stage = "idle"
      BY EmptySeq DEF Idling, Flushes, Stages
    <2> QED
      BY <2>1 DEF Init, FlushOK, Visiting
  <1>6. FailedInv
    <2>1. Idling.left = <<>> /\ Idling.kept = <<>>
      BY DEF Idling
    <2>2. \A f \in Flushers : HeldBy(flush[f], Task("retry", f), place, holder)
      BY <2>1, HoldsNothing DEF Init
    <2>3. failed = <<>> /\ \A p \in Payloads : place[p] = "away"
      BY DEF Init
    <2>4. failed \in Seq(FailedItems)
      BY <2>3, EmptySeq
    <2> QED
      BY <2>2, <2>3, <2>4, OfEmpty DEF FailedInv, FailedAre
  <1>7. EntryOK
    BY Bounds DEF Init, EntryOK
  <1>8. SlotInv
    BY DEF Init, SlotInv, Visiting, Idling
  <1> QED
    BY <1>1, <1>2, <1>3, <1>4, <1>5, <1>6, <1>7, <1>8 DEF TypeInv


\* What is unchanged keeps its type.
LEMMA RestSame ==
    ASSUME RestOK, UNCHANGED <<loop, beating, report, lost>>
    PROVE  RestOK'
  BY DEF RestOK

\* See RestSame.
LEMMA PlaceSame ==
    ASSUME PlaceOK, UNCHANGED <<place, under, holder, during>>
    PROVE  PlaceOK'
  BY DEF PlaceOK

\* See RestSame.
LEMMA FlushSame ==
    ASSUME FlushOK, UNCHANGED flush
    PROVE  FlushOK'
  BY DEF FlushOK, Visiting

\* Payloads that move, but neither into nor out of FAILED_AGENT_PAYLOADS or a retry of it.
FailedStay ==
    /\ failed' = failed
    /\ \A f \in Flushers : flush'[f].left = flush[f].left /\ flush'[f].kept = flush[f].kept
    /\ \A p \in Payloads :
          /\ place'[p] = "failed" <=> place[p] = "failed"
          /\ place[p] = "taken" /\ holder[p].kind = "retry"
               => place'[p] = "taken" /\ holder'[p] = holder[p]

\* See FailedStay.
LEMMA FailedSame ==
    ASSUME FailedInv, FailedStay
    PROVE  FailedInv'
  <1>1. ASSUME NEW f \in Flushers
        PROVE  HeldBy(flush'[f], Task("retry", f), place', holder')
    <2>1. HeldBy(flush[f], Task("retry", f), place, holder)
      BY DEF FailedInv, FailedAre
    <2>2. \A p \in Of(flush[f].left) \cup Of(flush[f].kept) :
             p \in Payloads /\ place[p] = "taken" /\ holder[p] = Task("retry", f)
      BY <2>1 DEF HeldBy, Of
    <2>3. Task("retry", f).kind = "retry"
      BY DEF Task
    <2>4. \A p \in Of(flush[f].left) \cup Of(flush[f].kept) :
             place'[p] = "taken" /\ holder'[p] = Task("retry", f)
      BY <2>2, <2>3 DEF FailedStay
    <2>5. flush'[f].left = flush[f].left /\ flush'[f].kept = flush[f].kept
      BY DEF FailedStay
    <2> QED
      BY <2>1, <2>4, <2>5 DEF HeldBy
  <1>2. /\ failed' \in Seq(FailedItems) /\ Once(failed')
        /\ \A p \in Payloads : place'[p] = "failed" <=> p \in Of(failed')
    BY DEF FailedInv, FailedAre, FailedStay
  <1> QED
    BY <1>1, <1>2, FailedAfter DEF FailedAre

\* No entry is made, and no payload comes back to the runtime.
LEMMA EntryShrinks ==
    ASSUME EntryOK, UNCHANGED <<started, made>>, entry' \subseteq entry,
           \A p \in Payloads : place[p] # "away" => place'[p] # "away"
    PROVE  EntryOK'
  <1>1. Routed \subseteq Routed' /\ Routed' \subseteq Payloads
    BY DEF Routed
  <1>2. Cardinality(Routed) <= Cardinality(Routed') /\ Cardinality(Routed') \in Nat
    BY <1>1, LmiAssumption, FS_Subset, FS_CardinalityType
  <1>3. \A r \in Requests :
           made'[r] <= Cardinality(Routed') + (IF r \in started' THEN 1 ELSE 0)
    <2>1. TAKE r \in Requests
    <2>2. made[r] <= Cardinality(Routed) + (IF r \in started THEN 1 ELSE 0) /\ made[r] \in Nat
      BY DEF EntryOK
    <2> QED
      BY <1>2, <2>2, Bounds
  <1> QED
    BY <1>3 DEF EntryOK

\* No entry is made, and no payload is filed.
LEMMA SlotSame ==
    ASSUME SlotInv, UNCHANGED <<made, flush>>,
           \A p \in Payloads : place'[p] = "buffer" => place[p] = "buffer" /\ under'[p] = under[p]
    PROVE  SlotInv'
  BY DEF SlotInv, Distinct, Visiting

\* Everything but the session and the buffers of ApmRetry.
LmiVars == <<loop, beating, entryVars, payloadVars, flush, report, during, lost>>

\* See LmiVars.
LEMMA LmiSame ==
    ASSUME RestOK, PlaceOK, FlushOK, FailedInv, EntryOK, SlotInv, UNCHANGED LmiVars
    PROVE  RestOK' /\ PlaceOK' /\ FlushOK' /\ FailedInv' /\ EntryOK' /\ SlotInv'
  <1> USE DEF LmiVars, entryVars, payloadVars
  <1>1. FailedInv'
    <2>1. FailedStay
      BY DEF FailedStay
    <2> QED
      BY <2>1, FailedSame
  <1>2. EntryOK'
    BY EntryShrinks
  <1>3. SlotInv'
    BY SlotSame
  <1> QED
    BY <1>1, <1>2, <1>3, RestSame, PlaceSame, FlushSame

\* One lemma per group of actions.  The session, and the retries of the buffers.
LEMMA TypeRetries ==
    ASSUME TypeInv,
           \/ TelemetryRetried \/ MetricRetried \/ SessionEnds
           \/ \E h \in Handshakes : HandshakeEnds(h) \/ SessionInstalled(h)
    PROVE  TypeInv'
  <1> USE DEF TypeInv
  <1>1. UNCHANGED LmiVars
    BY DEF TelemetryRetried, MetricRetried, SessionEnds, HandshakeEnds, SessionInstalled,
           restOfSession, restOfRetries, LmiVars
  <1>2. RetryOK(RetryIds)' /\ SessionTypeOK'
    <2>1. CASE SessionEnds \/ \E h \in Handshakes : HandshakeEnds(h) \/ SessionInstalled(h)
      <3>1. UNCHANGED retryVars
        BY <2>1 DEF SessionEnds, HandshakeEnds, SessionInstalled, restOfSession
      <3>2. "background" \in Handshakes
        BY RunsAssumption
      <3>3. PICK h \in Handshakes :
               \/ Connect(h) \/ ConnectFails(h) \/ signal_handshake_fatal(h)
               \/ Install(h) \/ CollectorRestart
        BY <2>1, <3>2 DEF SessionEnds, HandshakeEnds, SessionInstalled
      <3> QED
        BY <3>1, <3>3, RetrySame, SessionTypes
    <2>2. CASE TelemetryRetried
      BY <2>2, RetryTypes DEF TelemetryRetried
    <2>3. CASE MetricRetried
      BY <2>3, RetryTypes DEF MetricRetried
    <2> QED
      BY <2>1, <2>2, <2>3
  <1> QED
    BY <1>1, <1>2, LmiSame

\* EnsureSlot, for a payload just read or for none: in terms of what it files.
LEMMA EnsureSlotTypes ==
    ASSUME PlaceOK, FailedInv, EntryOK, SlotInv, NEW r \in Requests, NEW also \in SUBSET Payloads,
           \A p \in also : place[p] = "away",
           EnsureSlot(r, also), UNCHANGED flush,
           \/ started' = started /\ \E p \in also : TRUE
           \/ r \notin started /\ started' = started \cup {r}
    PROVE  /\ PlaceOK' /\ FailedInv' /\ EntryOK' /\ SlotInv'
           /\ \A p \in Payloads : place'[p] = "out" <=> place[p] = "out"
  <1>1. PICK orphans : orphans = IF r \in entry THEN {} ELSE {p \in Payloads : place[p] = "orphan"}
    OBVIOUS
  <1>2. PICK filed : filed = orphans \cup also
    OBVIOUS
  <1>3. /\ entry' = entry \cup {r}
        /\ made' = IF r \in entry THEN made ELSE [made EXCEPT ![r] = @ + 1]
        /\ place' = [p \in Payloads |-> IF p \in filed THEN "buffer" ELSE place[p]]
        /\ under' = [p \in Payloads |-> IF p \in filed THEN [of |-> r, nth |-> made'[r]] ELSE under[p]]
        /\ during' = [p \in Payloads |-> IF p \in filed THEN InFlight ELSE during[p]]
        /\ UNCHANGED <<holder, failed>>
    BY <1>1, <1>2 DEF EnsureSlot
  <1>4. \A p \in filed : p \in Payloads /\ place[p] \in {"away", "orphan"}
    BY <1>1, <1>2
  <1>5. EntryOK'
    <2>1. Routed \subseteq Routed' /\ Routed' \subseteq Payloads
      BY <1>3 DEF Routed
    <2>2. /\ IsFiniteSet(Routed') /\ IsFiniteSet(Routed)
          /\ Cardinality(Routed) <= Cardinality(Routed') /\ Cardinality(Routed') \in Nat
      BY <2>1, LmiAssumption, FS_Subset, FS_CardinalityType
    <2>3. (\E p \in also : TRUE) => Cardinality(Routed) < Cardinality(Routed')
      <3>1. ASSUME NEW p \in also PROVE p \in Routed' /\ p \notin Routed
        BY <1>2, <1>3 DEF Routed
      <3>2. ASSUME NEW p \in also PROVE Routed # Routed'
        BY <3>1
      <3>3. PICK old : old = Routed
        OBVIOUS
      <3>4. PICK new : new = Routed'
        OBVIOUS
      <3>5. IsFiniteSet(new) /\ old \in SUBSET new
        BY <2>1, <2>2, <3>3, <3>4
      <3>6. Cardinality(old) = Cardinality(new) => old = new
        BY <3>5, FS_Subset
      <3>7. Cardinality(Routed) = Cardinality(Routed') => Routed = Routed'
        BY <3>3, <3>4, <3>6
      <3> QED
        BY <2>2, <3>2, <3>7, Bounds
    <2>4. made' \in [Requests -> Nat] /\ \A q \in Requests : made'[q] =
             IF q = r /\ r \notin entry THEN made[q] + 1 ELSE made[q]
      BY <1>3 DEF EntryOK
    <2>5. started' \in SUBSET Requests /\ entry' \in SUBSET Requests
      BY <1>3 DEF EntryOK
    <2>6. \A q \in entry' : made'[q] >= 1
      BY <1>3, <2>4 DEF EntryOK
    <2>7. ASSUME NEW q \in Requests
          PROVE  made'[q] <= Cardinality(Routed') + (IF q \in started' THEN 1 ELSE 0)
      <3>1. made[q] <= Cardinality(Routed) + (IF q \in started THEN 1 ELSE 0) /\ made[q] \in Nat
        BY DEF EntryOK
      <3>2. CASE started' = started /\ \E p \in also : TRUE
        BY <2>2, <2>3, <2>4, <3>1, <3>2, Bounds
      <3>3. CASE r \notin started /\ started' = started \cup {r}
        BY <2>2, <2>4, <3>1, <3>3, Bounds
      <3> QED
        BY <3>2, <3>3
    <2> QED
      BY <2>4, <2>5, <2>6, <2>7 DEF EntryOK
  <1>6. [of |-> r, nth |-> made'[r]] \in Slots /\ [of |-> r, nth |-> made'[r]] # NoSlot
    <2>1. made'[r] \in 0..(Cardinality(Payloads) + 1) /\ made'[r] >= 1
      <3>1. made'[r] \in Nat /\ made'[r] <= Cardinality(Routed') + 1 /\ made'[r] >= 1
        <4>1. r \in Requests /\ r \in entry'
          BY <1>3
        <4>2. /\ made'[r] \in Nat /\ made'[r] >= 1
              /\ made'[r] <= Cardinality(Routed') + (IF r \in started' THEN 1 ELSE 0)
          BY <1>5, <4>1 DEF EntryOK
        <4>3. Routed' \subseteq Payloads
          BY DEF Routed
        <4>4. Cardinality(Routed') \in Nat
          BY <4>3, LmiAssumption, FS_Subset, FS_CardinalityType
        <4> QED
          BY <4>2, <4>4
      <3>2. Cardinality(Routed') <= Cardinality(Payloads) /\ Cardinality(Routed') \in Nat
        <4>1. Routed' \subseteq Payloads
          BY DEF Routed
        <4> QED
          BY <4>1, LmiAssumption, FS_Subset, FS_CardinalityType
      <3> QED
        BY <3>1, <3>2, Bounds
    <2>2. r # 0
      BY RetryAssumption DEF Requests
    <2> QED
      BY <2>1, <2>2, Bounds DEF Slots, NoSlot, None
  <1>7. PlaceOK'
    <2>1. place' \in [Payloads -> Places]
      BY <1>3 DEF PlaceOK, Places
    <2>2. under' \in [Payloads -> Slots \cup {NoSlot}]
      BY <1>3, <1>6 DEF PlaceOK
    <2>3. during' \in [Payloads -> SUBSET Flushers]
      BY <1>3 DEF PlaceOK, InFlight
    <2>4. \A p \in Payloads : (holder'[p] # Nobody) <=> (place'[p] \in {"taken", "sending"})
      BY <1>3, <1>4 DEF PlaceOK
    <2>5. \A p \in Payloads : (under'[p] # NoSlot) <=> (place'[p] = "buffer")
      BY <1>3, <1>4, <1>6 DEF PlaceOK
    <2> QED
      BY <1>3, <2>1, <2>2, <2>3, <2>4, <2>5 DEF PlaceOK
  <1>8. FailedInv'
    <2>1. FailedStay
      BY <1>3, <1>4 DEF FailedStay
    <2> QED
      BY <2>1, FailedSame
  <1>9. SlotInv'
    <2>1. \A q \in Requests : made'[q] >= made[q] /\ made[q] \in Nat /\ made'[q] \in Nat
      BY <1>3 DEF EntryOK
    <2>2. ASSUME NEW p \in Payloads, place'[p] = "buffer" PROVE under'[p].nth <= made'[under'[p].of]
      <3>1. CASE p \in filed
        BY <1>3, <2>1, <3>1
      <3>2. CASE p \notin filed
        <4>1. place[p] = "buffer" /\ under'[p] = under[p]
          BY <1>3, <2>2, <3>2
        <4>2. under[p] \in Slots
          BY <4>1 DEF PlaceOK
        <4>3. under[p].of \in Requests /\ under[p].nth \in Nat
          BY <4>2, Bounds DEF Slots
        <4>4. under[p].nth <= made[under[p].of]
          BY <4>1 DEF SlotInv
        <4> QED
          BY <2>1, <4>1, <4>3, <4>4
      <3> QED
        BY <3>1, <3>2
    <2> QED
      BY <2>2 DEF SlotInv, Distinct, Visiting
  <1>10. \A p \in Payloads : place'[p] = "out" <=> place[p] = "out"
    BY <1>3, <1>4
  <1> QED
    BY <1>5, <1>7, <1>8, <1>9, <1>10

\* The payloads of S leave: those of `taken` with a task.
LEMMA LeaveTypes ==
    ASSUME PlaceOK, NEW S \in SUBSET Payloads, NEW taken \in SUBSET Payloads, NEW t,
           t \in Tasks \/ taken = {}, Leave(S, taken, t),
           \A p \in S \cup taken : place[p] \in {"buffer", "failed"}
    PROVE  PlaceOK'
  <1>1. /\ place' = [p \in Payloads |-> IF p \in taken THEN "taken"
                                        ELSE IF p \in S THEN "out" ELSE place[p]]
        /\ holder' = [p \in Payloads |-> IF p \in taken THEN t ELSE holder[p]]
        /\ under' = [p \in Payloads |-> IF p \in S \cup taken THEN NoSlot ELSE under[p]]
        /\ during' = [p \in Payloads |-> IF p \in S \cup taken THEN {} ELSE during[p]]
    BY DEF Leave
  <1>2. t \in Tasks => t # Nobody
    BY DEF Tasks, Nobody
  <1>3. \A p \in S \cup taken : holder[p] = Nobody
    BY DEF PlaceOK
  <1>4. place' \in [Payloads -> Places]
    BY <1>1 DEF PlaceOK, Places
  <1>5. /\ under' \in [Payloads -> Slots \cup {NoSlot}]
        /\ holder' \in [Payloads -> Tasks \cup {Nobody}]
    BY <1>1 DEF PlaceOK
  <1>6. during' \in [Payloads -> SUBSET Flushers]
    BY <1>1 DEF PlaceOK
  <1>7. \A p \in Payloads : (holder'[p] # Nobody) <=> (place'[p] \in {"taken", "sending"})
    BY <1>1, <1>2, <1>3 DEF PlaceOK
  <1>8. \A p \in Payloads : (under'[p] # NoSlot) <=> (place'[p] = "buffer")
    BY <1>1 DEF PlaceOK
  <1> QED
    BY <1>4, <1>5, <1>6, <1>7, <1>8 DEF PlaceOK

\* The tasks are ones.
LEMMA TaskTypes ==
    /\ \A f \in Flushers : Task("pending", f) \in Tasks /\ Task("retry", f) \in Tasks
    /\ \A r \in Requests : Task("report", r) \in Tasks
    /\ Requests \subseteq RetryIds /\ Flushers \subseteq RetryIds
  BY RetryAssumption DEF Task, Tasks, RetryIds, Requests, Flushers, Heartbeat, Drain


\* route_payload_by_embedded_request_id, platform.start and platform.report.
LEMMA TypeListener ==
    ASSUME TypeInv,
           \/ \E p \in Payloads : route_payload_by_embedded_request_id(p)
           \/ \E r \in Requests : PlatformStart(r) \/ PlatformReport(r)
    PROVE  TypeInv'
  <1> USE DEF TypeInv
  <1>1. ASSUME NEW p \in Payloads, route_payload_by_embedded_request_id(p)
        PROVE  TypeInv'
    <2>1. /\ place[p] = "away"
          /\ UNCHANGED <<started, sessionVars, retryVars, loop, beating, flush, report, lost>>
      BY <1>1 DEF route_payload_by_embedded_request_id, restOfListener
    <2>2. SessionTypeOK' /\ RetryOK(RetryIds)' /\ RestOK' /\ FlushOK'
      BY <2>1, SessionSame, RetrySame, RestSame, FlushSame DEF sessionVars
    <2>3. CASE p \in Harvest
      <3>1. /\ place' = [place EXCEPT ![p] = "orphan"]
            /\ UNCHANGED <<entry, made, under, holder, failed, during>>
        BY <1>1, <2>3 DEF route_payload_by_embedded_request_id
      <3>2. PlaceOK'
        <4>1. place' \in [Payloads -> Places]
          BY <3>1 DEF PlaceOK, Places
        <4>2. \A q \in Payloads : (holder'[q] # Nobody) <=> (place'[q] \in {"taken", "sending"})
          BY <2>1, <3>1 DEF PlaceOK
        <4>3. \A q \in Payloads : (under'[q] # NoSlot) <=> (place'[q] = "buffer")
          BY <2>1, <3>1 DEF PlaceOK
        <4> QED
          BY <3>1, <4>1, <4>2, <4>3 DEF PlaceOK
      <3>3. \A q \in Payloads : place'[q] = IF q = p THEN "orphan" ELSE place[q]
        BY <3>1 DEF PlaceOK
      <3>4. FailedInv'
        <4>1. FailedStay
          BY <2>1, <3>1, <3>3 DEF FailedStay
        <4> QED
          BY <4>1, FailedSame
      <3>5. EntryOK'
        BY <2>1, <3>1, <3>3, EntryShrinks
      <3>6. SlotInv'
        BY <2>1, <3>1, <3>3, SlotSame
      <3> QED
        BY <2>2, <3>2, <3>4, <3>5, <3>6
    <2>4. CASE p \notin Harvest
      <3>1. PICK r \in Requests : EnsureSlot(r, {p})
        BY <1>1, <2>4 DEF route_payload_by_embedded_request_id
      <3>2. PlaceOK' /\ FailedInv' /\ EntryOK' /\ SlotInv'
        BY <2>1, <3>1, EnsureSlotTypes
      <3> QED
        BY <2>2, <3>2
    <2> QED
      BY <2>3, <2>4
  <1>2. ASSUME NEW r \in Requests, PlatformStart(r)
        PROVE  TypeInv'
    <2>1. /\ r \notin started /\ started' = started \cup {r} /\ EnsureSlot(r, {})
          /\ UNCHANGED <<sessionVars, retryVars, loop, beating, flush, report, lost>>
      BY <1>2 DEF PlatformStart, restOfListener
    <2>2. SessionTypeOK' /\ RetryOK(RetryIds)' /\ RestOK' /\ FlushOK'
      BY <2>1, SessionSame, RetrySame, RestSame, FlushSame DEF sessionVars
    <2>3. PlaceOK' /\ FailedInv' /\ EntryOK' /\ SlotInv'
      BY <2>1, EnsureSlotTypes
    <2> QED
      BY <2>2, <2>3
  <1>3. ASSUME NEW r \in Requests, PlatformReport(r)
        PROVE  TypeInv'
    <2>1. /\ report' = [report EXCEPT ![r] = IF app # None THEN "posting"
                                             ELSE IF r \in entry THEN "pending" ELSE "gone"]
          /\ lost' = lost \/ lost' = lost \cup {r}
          /\ UNCHANGED <<sessionVars, retryVars, loop, beating, entryVars, payloadVars, flush, during>>
      BY <1>3 DEF PlatformReport
    <2>2. RestOK'
      BY <2>1 DEF RestOK
    <2>3. FailedInv'
      <3>1. FailedStay
        BY <2>1 DEF FailedStay, payloadVars
      <3> QED
        BY <3>1, FailedSame
    <2>4. EntryOK'
      BY <2>1, EntryShrinks DEF entryVars, payloadVars
    <2>5. SlotInv'
      BY <2>1, SlotSame DEF entryVars, payloadVars
    <2> QED
      BY <2>1, <2>2, <2>3, <2>4, <2>5, SessionSame, RetrySame, PlaceSame, FlushSame
         DEF sessionVars, payloadVars
  <1> QED
    BY <1>1, <1>2, <1>3

\* A flush that is at an entry.
LEMMA PendingIs ==
    ASSUME NEW todo \in SUBSET Slots, NEW s \in Slots
    PROVE  /\ [At("pending") EXCEPT !.todo = todo, !.now = s]
                = [stage |-> "pending", todo |-> todo, now |-> s, left |-> <<>>, kept |-> <<>>]
           /\ [At("pending") EXCEPT !.todo = todo, !.now = s] \in Flushes
  <1>1. PICK none : none = <<>>
    OBVIOUS
  <1>2. PICK w : w = At("pending")
    OBVIOUS
  <1>3. w = [stage |-> "pending", todo |-> {}, now |-> NoSlot, left |-> none, kept |-> none]
    BY <1>1, <1>2, AtIs DEF Stages
  <1>4. PICK v : v = [w EXCEPT !.todo = todo]
    OBVIOUS
  <1>5. v = [stage |-> "pending", todo |-> todo, now |-> NoSlot, left |-> none, kept |-> none]
    BY <1>3, <1>4
  <1>6. [w EXCEPT !.todo = todo, !.now = s] = [v EXCEPT !.now = s]
    BY <1>4
  <1>7. [v EXCEPT !.now = s] = [stage |-> "pending", todo |-> todo, now |-> s, left |-> none, kept |-> none]
    BY <1>5
  <1>8. none \in Seq(FailedItems)
    BY <1>1, EmptySeq
  <1>9. [stage |-> "pending", todo |-> todo, now |-> s, left |-> none, kept |-> none] \in Flushes
    BY <1>8 DEF Flushes, Stages
  <1> QED
    BY <1>1, <1>2, <1>6, <1>7, <1>9

\* A visit of entries, in terms of the entries it skips and the payloads it loses.
Ofs(S) == {s.of : s \in S}
Visited(f, todo, finished, skip, gone) ==
    /\ skip \subseteq {s \in todo : Quiet(s)}
    /\ entry' = entry \ (finished \cup Ofs(skip))
    /\ UNCHANGED <<started, made, failed>>
    /\ gone = Payloads \cap (lost' \ lost)
    /\ lost \subseteq lost' /\ lost' \in SUBSET (Payloads \cup Requests)
    /\ report' \in [Requests -> {"none", "posting", "sending", "retrying", "pending", "gone"}]
    /\ \A r \in Requests :
          report'[r] = report[r] \/ (report[r] = "pending" /\ report'[r] = "gone")
    /\ \A p \in gone : /\ place[p] = "buffer"
                       /\ under[p].of \in (finished \cup Ofs(skip)) \cap entry
                       /\ under[p] = SlotOf(under[p].of)
    /\ \/ /\ skip = todo
          /\ Leave(gone, {}, Nobody)
          /\ \E stage \in {"invalidate", "check"} : flush' = [flush EXCEPT ![f] = At(stage)]
          /\ reconnect' = FALSE
       \/ \E s \in todo \ skip :
             /\ Leave(gone, buffer(s), Task("pending", f))
             /\ flush' = [flush EXCEPT ![f] = [At("pending") EXCEPT
                               !.todo = todo \ (skip \cup {s}), !.now = s]]
             /\ UNCHANGED reconnect

\* See Visited.
LEMMA VisitIs ==
    ASSUME RestOK, NEW f, NEW todo \in SUBSET Slots, NEW finished \in SUBSET Requests,
           Visit(f, todo, finished)
    PROVE  \E skip, gone : Visited(f, todo, finished, skip, gone)
  <1>1. PICK skip \in SUBSET {s \in todo : Quiet(s)} :
          /\ Cleanup(f, finished \cup {s.of : s \in skip})
          /\ \/ /\ skip = todo
                /\ Leave(Payloads \cap (lost' \ lost), {}, Nobody)
                /\ flush' = [flush EXCEPT ![f] = At(IF reconnect THEN "invalidate" ELSE "check")]
                /\ reconnect' = FALSE
             \/ \E s \in todo \ skip :
                    /\ ~Quiet(s)
                    /\ Leave(Payloads \cap (lost' \ lost), buffer(s), Task("pending", f))
                    /\ flush' = [flush EXCEPT ![f] = [At("pending") EXCEPT
                                      !.todo = todo \ (skip \cup {s}), !.now = s]]
                    /\ UNCHANGED reconnect
          /\ UNCHANGED failed
    BY DEF Visit
  <1>2. PICK gone : gone = Payloads \cap (lost' \ lost)
    OBVIOUS
  <1>3. PICK Q : Q = finished \cup Ofs(skip)
    OBVIOUS
  <1>4. Cleanup(f, Q) /\ Q \subseteq Requests
    BY <1>1, <1>3, ZenonT(30) DEF Ofs, Slots
  <1>5. /\ entry' = entry \ Q /\ UNCHANGED <<started, made>>
        /\ report' = [r \in Requests |-> IF r \in {q \in Q : get_pending_report(q)} THEN "gone"
                                         ELSE report[r]]
    BY <1>4 DEF Cleanup
  <1>6. PICK filed, posted :
          /\ lost' = lost \cup filed \cup posted
          /\ posted \subseteq Q
          /\ filed \subseteq {p \in Payloads : /\ place[p] = "buffer"
                                               /\ under[p].of \in Q \cap entry
                                               /\ under[p] = SlotOf(under[p].of)}
    <2>1. PICK listed : listed = UNION {flush[g].todo : g \in Flushers \ {f}}
      OBVIOUS
    <2>2. PICK filed : filed = {p \in Payloads : /\ place[p] = "buffer"
                                                 /\ under[p].of \in Q \cap entry
                                                 /\ under[p] = SlotOf(under[p].of)
                                                 /\ under[p] \notin listed}
      OBVIOUS
    <2>3. PICK posted : posted = {r \in Q : get_pending_report(r)}
                \ {flush[g].now.of : g \in {h \in Flushers : flush[h].stage = "posting"}}
      OBVIOUS
    <2>4. lost' = lost \cup filed \cup posted
      BY <1>4, <2>1, <2>2, <2>3, Zenon DEF Cleanup
    <2>5. posted \subseteq Q
      BY <2>3
    <2>6. filed \subseteq {p \in Payloads : /\ place[p] = "buffer"
                                            /\ under[p].of \in Q \cap entry
                                            /\ under[p] = SlotOf(under[p].of)}
      BY <2>2
    <2> QED
      BY <2>4, <2>5, <2>6
  <1>7. /\ lost \subseteq lost' /\ lost' \in SUBSET (Payloads \cup Requests)
    BY <1>4, <1>6 DEF RestOK
  <1>8. \A p \in gone : p \in filed
    BY <1>2, <1>4, <1>6, PayloadsOnly
  <1>9. \A p \in gone : /\ place[p] = "buffer" /\ under[p].of \in Q \cap entry
                        /\ under[p] = SlotOf(under[p].of)
    BY <1>6, <1>8
  <1>10. /\ report' \in [Requests -> {"none", "posting", "sending", "retrying", "pending", "gone"}]
         /\ \A r \in Requests :
               report'[r] = report[r] \/ (report[r] = "pending" /\ report'[r] = "gone")
    BY <1>5 DEF RestOK, get_pending_report
  <1>11. \/ /\ skip = todo
            /\ Leave(gone, {}, Nobody)
            /\ \E stage \in {"invalidate", "check"} : flush' = [flush EXCEPT ![f] = At(stage)]
            /\ reconnect' = FALSE
         \/ \E s \in todo \ skip :
             /\ Leave(gone, buffer(s), Task("pending", f))
             /\ flush' = [flush EXCEPT ![f] = [At("pending") EXCEPT
                               !.todo = todo \ (skip \cup {s}), !.now = s]]
             /\ UNCHANGED reconnect
    <2>1. (IF reconnect THEN "invalidate" ELSE "check") \in {"invalidate", "check"}
      OBVIOUS
    <2> QED
      BY <1>1, <1>2, <2>1, Zenon
  <1>12. Visited(f, todo, finished, skip, gone)
    BY <1>1, <1>2, <1>3, <1>5, <1>7, <1>9, <1>10, <1>11, Zenon DEF Visited
  <1> QED
    BY <1>12

\* What a visit does to the payloads, and to the flushes: some are lost, others taken.
Moved(f, todo, skip, gone, taken, t) ==
    /\ Leave(gone, taken, t)
    /\ \A p \in gone \cup taken : p \in Payloads /\ place[p] = "buffer"
    /\ t = Task("pending", f) \/ taken = {}
    /\ flush' \in [Flushers -> Flushes]
    /\ \A g \in Flushers : g # f => flush'[g] = flush[g]
    /\ flush'[f].left = <<>> /\ flush'[f].kept = <<>>
    /\ flush'[f].stage \in {"pending", "invalidate", "check"}
    /\ flush'[f].stage = "pending" =>
         /\ flush'[f].now \in todo \ skip
         /\ flush'[f].todo = todo \ (skip \cup {flush'[f].now})
         /\ taken = buffer(flush'[f].now)
    /\ flush'[f].stage # "pending" => taken = {} /\ skip = todo

\* See Moved.
LEMMA VisitMoves ==
    ASSUME FlushOK, NEW f \in Flushers, NEW todo \in SUBSET Slots, NEW finished, NEW skip, NEW gone,
           Visited(f, todo, finished, skip, gone)
    PROVE  /\ \E taken, t : Moved(f, todo, skip, gone, taken, t)
           /\ reconnect' = reconnect \/ reconnect' = FALSE
  <1>1. \A p \in gone : p \in Payloads /\ place[p] = "buffer"
    BY DEF Visited
  <1>2. flush \in [Flushers -> Flushes]
    BY DEF FlushOK
  <1>3. CASE /\ skip = todo
             /\ Leave(gone, {}, Nobody)
             /\ \E stage \in {"invalidate", "check"} : flush' = [flush EXCEPT ![f] = At(stage)]
             /\ reconnect' = FALSE
    <2>1. PICK stage \in {"invalidate", "check"} : flush' = [flush EXCEPT ![f] = At(stage)]
      BY <1>3
    <2>2. stage \in Stages
      BY DEF Stages
    <2>3. At(stage) \in Flushes /\ At(stage).left = <<>> /\ At(stage).kept = <<>> /\ At(stage).stage = stage
      BY <2>2, AtIs
    <2>4. /\ flush' \in [Flushers -> Flushes] /\ flush'[f] = At(stage)
          /\ \A g \in Flushers : g # f => flush'[g] = flush[g]
      BY <1>2, <2>1, <2>3
    <2>5. Moved(f, todo, skip, gone, {}, Nobody)
      BY <1>1, <1>3, <2>3, <2>4 DEF Moved
    <2> QED
      BY <1>3, <2>5
  <1>4. CASE \E s \in todo \ skip :
             /\ Leave(gone, buffer(s), Task("pending", f))
             /\ flush' = [flush EXCEPT ![f] = [At("pending") EXCEPT
                               !.todo = todo \ (skip \cup {s}), !.now = s]]
             /\ UNCHANGED reconnect
    <2>1. PICK s \in todo \ skip :
             /\ Leave(gone, buffer(s), Task("pending", f))
             /\ flush' = [flush EXCEPT ![f] = [At("pending") EXCEPT
                               !.todo = todo \ (skip \cup {s}), !.now = s]]
             /\ UNCHANGED reconnect
      BY <1>4
    <2>2. PICK rest : rest = todo \ (skip \cup {s})
      OBVIOUS
    <2>3. s \in Slots /\ rest \in SUBSET Slots /\ s \in todo \ skip
      BY <2>2
    <2>4. PICK w : w = [At("pending") EXCEPT !.todo = rest, !.now = s]
      OBVIOUS
    <2>5. /\ w \in Flushes /\ w.left = <<>> /\ w.kept = <<>> /\ w.stage = "pending"
          /\ w.now = s /\ w.todo = rest
      BY <2>3, <2>4, PendingIs, ZenonT(30)
    <2>6. flush' = [flush EXCEPT ![f] = w]
      BY <2>1, <2>2, <2>4
    <2>7. /\ flush' \in [Flushers -> Flushes] /\ flush'[f] = w
          /\ \A g \in Flushers : g # f => flush'[g] = flush[g]
      BY <1>2, <2>5, <2>6
    <2>8. \A p \in buffer(s) : p \in Payloads /\ place[p] = "buffer"
      BY DEF buffer
    <2>9. Moved(f, todo, skip, gone, buffer(s), Task("pending", f))
      BY <1>1, <2>1, <2>2, <2>3, <2>5, <2>7, <2>8 DEF Moved
    <2> QED
      BY <2>1, <2>9
  <1> QED
    BY <1>3, <1>4, Zenon DEF Visited

\* A visit keeps the types.
LEMMA VisitTypes ==
    ASSUME TypeInv, NEW f \in Flushers, NEW todo \in SUBSET Slots, NEW finished \in SUBSET Requests,
           Distinct(todo), flush[f].left = <<>>, flush[f].kept = <<>>,
           Visit(f, todo, finished),
           UNCHANGED <<app, fatal, handshake, issued, valid>>
    PROVE  /\ SessionTypeOK' /\ PlaceOK' /\ FlushOK' /\ FailedInv' /\ EntryOK' /\ SlotInv'
           /\ lost' \in SUBSET (Payloads \cup Requests)
           /\ report' \in [Requests -> {"none", "posting", "sending", "retrying", "pending", "gone"}]
  <1> USE DEF TypeInv
  <1>1. PICK skip, gone : Visited(f, todo, finished, skip, gone)
    BY VisitIs
  <1>2. PICK taken, t : Moved(f, todo, skip, gone, taken, t)
    BY <1>1, VisitMoves
  <1>3. /\ lost' \in SUBSET (Payloads \cup Requests)
        /\ report' \in [Requests -> {"none", "posting", "sending", "retrying", "pending", "gone"}]
        /\ entry' \subseteq entry /\ UNCHANGED <<started, made, failed>>
    BY <1>1 DEF Visited
  <1>4. SessionTypeOK'
    <2>1. reconnect' \in BOOLEAN
      BY <1>1, VisitMoves DEF SessionTypeOK
    <2> QED
      BY <2>1 DEF SessionTypeOK
  <1>5. /\ place' = [p \in Payloads |-> IF p \in taken THEN "taken"
                                        ELSE IF p \in gone THEN "out" ELSE place[p]]
        /\ holder' = [p \in Payloads |-> IF p \in taken THEN t ELSE holder[p]]
        /\ under' = [p \in Payloads |-> IF p \in gone \cup taken THEN NoSlot ELSE under[p]]
    BY <1>2 DEF Moved, Leave
  <1>6. \A p \in gone \cup taken : p \in Payloads /\ place[p] = "buffer"
    BY <1>2 DEF Moved
  <1>7. PlaceOK'
    <2>1. t \in Tasks \/ taken = {}
      BY <1>2, TaskTypes DEF Moved
    <2>2. gone \in SUBSET Payloads /\ taken \in SUBSET Payloads
      BY <1>6
    <2>3. Leave(gone, taken, t)
      BY <1>2 DEF Moved
    <2> QED
      BY <1>6, <2>1, <2>2, <2>3, LeaveTypes
  <1>8. FailedInv'
    <2>1. \A g \in Flushers : flush'[g].left = flush[g].left /\ flush'[g].kept = flush[g].kept
      BY <1>2 DEF Moved
    <2>2. FailedStay
      BY <1>3, <1>5, <1>6, <2>1 DEF FailedStay
    <2> QED
      BY <2>2, FailedSame
  <1>9. EntryOK'
    BY <1>3, <1>5, <1>6, EntryShrinks
  <1>10. FlushOK'
    BY <1>2 DEF FlushOK, Moved, Visiting
  <1>11. SlotInv'
    <2>1. ASSUME NEW g \in Flushers, Visiting(flush'[g])
          PROVE  /\ Distinct(flush'[g].todo \cup {flush'[g].now})
                 /\ flush'[g].now \notin flush'[g].todo
      <3>1. CASE g = f
        <4>1. /\ flush'[f].now \in todo /\ flush'[f].now \notin flush'[f].todo
              /\ flush'[f].todo \subseteq todo
          BY <1>2, <2>1, <3>1 DEF Moved, Visiting
        <4> QED
          BY <3>1, <4>1 DEF Distinct
      <3>2. CASE g # f
        BY <1>2, <2>1, <3>2 DEF Moved, SlotInv
      <3> QED
        BY <3>1, <3>2
    <2>2. \A p \in Payloads : place'[p] = "buffer" => under'[p].nth <= made'[under'[p].of]
      BY <1>3, <1>5 DEF SlotInv
    <2> QED
      BY <2>1, <2>2 DEF SlotInv, Distinct, Visiting
  <1> QED
    BY <1>3, <1>4, <1>7, <1>8, <1>9, <1>10, <1>11

\* What is listed are entries, one per request.
LEMMA ListedTypes ==
    ASSUME EntryOK
    PROVE  Listed \in SUBSET Slots /\ Distinct(Listed)
  BY SlotTypes DEF Listed, Distinct, SlotOf

\* The last flush begins at SHUTDOWN only.
DrainInv == loop = "next" => flush[Drain].stage = "idle"

\* The flush goes from an entry to the next: of the heartbeat, of SHUTDOWN, and of both.
LEMMA TypeVisits ==
    ASSUME TypeInv, DrainInv,
           \/ Tick \/ Shutdown
           \/ \E f \in Flushers : PendSent(f) \/ \E a \in Outcomes : PendPosted(f, a)
    PROVE  TypeInv'
  <1> USE DEF TypeInv
  <1>1. ASSUME NEW f \in Flushers, flush[f].stage # "retry", FlushStart(f),
               loop' \in {loop, "drain"}, UNCHANGED <<app, fatal, handshake, issued, valid, retryVars, beating>>
        PROVE  TypeInv'
    <2>1. Visit(f, Listed, {}) /\ Listed \in SUBSET Slots /\ Distinct(Listed)
      BY <1>1, ListedTypes DEF FlushStart
    <2>2. flush[f].left = <<>> /\ flush[f].kept = <<>>
      BY <1>1 DEF FlushOK
    <2>3. /\ SessionTypeOK' /\ PlaceOK' /\ FlushOK' /\ FailedInv' /\ EntryOK' /\ SlotInv'
          /\ lost' \in SUBSET (Payloads \cup Requests)
          /\ report' \in [Requests -> {"none", "posting", "sending", "retrying", "pending", "gone"}]
      BY <1>1, <2>1, <2>2, VisitTypes
    <2>4. RestOK'
      BY <1>1, <2>3 DEF RestOK
    <2> QED
      BY <1>1, <2>3, <2>4, RetrySame
  <1>2. Heartbeat \in Flushers /\ Drain \in Flushers
    BY DEF Flushers
  <1>3. CASE Tick
    <2>1. flush[Heartbeat].stage # "retry"
      BY <1>3 DEF Tick
    <2> QED
      BY <1>1, <1>2, <1>3, <2>1 DEF Tick
  <1>4. ASSUME NEW f \in Flushers, Visit(f, flush[f].todo, {flush[f].now.of}),
               flush[f].stage \in {"pending", "posting"}, RetryOK(RetryIds)',
               UNCHANGED <<app, fatal, handshake, issued, valid, loop, beating>>
        PROVE  TypeInv'
    <2>1. /\ flush[f].todo \in SUBSET Slots /\ flush[f].now \in Slots
          /\ flush[f].left = <<>> /\ flush[f].kept = <<>>
      BY <1>4 DEF FlushOK, Visiting, Flushes
    <2>2. {flush[f].now.of} \in SUBSET Requests
      BY <2>1 DEF Slots
    <2>3. Distinct(flush[f].todo)
      BY <1>4 DEF SlotInv, Visiting, Distinct
    <2>4. /\ SessionTypeOK' /\ PlaceOK' /\ FlushOK' /\ FailedInv' /\ EntryOK' /\ SlotInv'
          /\ lost' \in SUBSET (Payloads \cup Requests)
          /\ report' \in [Requests -> {"none", "posting", "sending", "retrying", "pending", "gone"}]
      BY <1>4, <2>1, <2>2, <2>3, VisitTypes
    <2>5. RestOK'
      BY <1>4, <2>4 DEF RestOK
    <2> QED
      BY <1>4, <2>4, <2>5
  <1>5. ASSUME NEW f \in Flushers, PendSent(f) PROVE TypeInv'
    <2>1. /\ flush[f].stage = "pending"
          /\ UNCHANGED <<app, fatal, handshake, issued, valid, retryVars, loop, beating>>
      BY <1>5 DEF PendSent
    <2>2. CASE Visit(f, flush[f].todo, {flush[f].now.of})
      BY <1>4, <2>1, <2>2, RetrySame
    <2>3. CASE /\ flush' = [flush EXCEPT ![f].stage = "posting"]
               /\ UNCHANGED <<reconnect, entryVars, payloadVars, report, during, lost>>
      <3>1. PICK w : w = [flush[f] EXCEPT !.stage = "posting"]
        OBVIOUS
      <3>2. flush[f] \in Flushes /\ flush[f].now \in Slots
        BY <2>1 DEF FlushOK, Visiting
      <3>3. /\ w \in Flushes /\ w.stage = "posting" /\ w.now = flush[f].now /\ w.todo = flush[f].todo
            /\ w.left = flush[f].left /\ w.kept = flush[f].kept
        BY <3>1, <3>2 DEF Flushes, Stages
      <3>4. /\ flush' \in [Flushers -> Flushes] /\ flush'[f] = w
            /\ \A g \in Flushers : g # f => flush'[g] = flush[g]
        BY <2>3, <3>1, <3>3 DEF FlushOK
      <3>5. FlushOK'
        BY <2>1, <3>2, <3>3, <3>4 DEF FlushOK, Visiting
      <3>6. FailedInv'
        <4>1. FailedStay
          BY <2>3, <3>3, <3>4 DEF FailedStay, payloadVars
        <4> QED
          BY <4>1, FailedSame
      <3>7. SlotInv'
        BY <2>1, <2>3, <3>3, <3>4 DEF SlotInv, Distinct, Visiting, payloadVars, entryVars
      <3>8. EntryOK'
        BY <2>3, EntryShrinks DEF payloadVars, entryVars
      <3> QED
        BY <2>1, <2>3, <3>5, <3>6, <3>7, <3>8, SessionSame, RetrySame, RestSame, PlaceSame
           DEF payloadVars
    <2> QED
      BY <1>5, <2>2, <2>3 DEF PendSent
  <1>6. ASSUME NEW f \in Flushers, NEW a \in Outcomes, PendPosted(f, a) PROVE TypeInv'
    <2>1. /\ flush[f].stage = "posting" /\ Metric(flush[f].now.of, a)
          /\ Visit(f, flush[f].todo, {flush[f].now.of})
          /\ UNCHANGED <<app, fatal, handshake, issued, valid, telemetryVars, metricRetries,
                         loop, beating>>
      BY <1>6 DEF PendPosted
    <2>2. flush[f].now.of \in Requests
      BY <2>1 DEF FlushOK, Visiting, Slots
    <2>3. RetryOK(RetryIds)'
      BY <2>1, <2>2, AfterMetric
    <2> QED
      BY <1>4, <2>1, <2>3
  <1>7. CASE Shutdown
    <2>1. flush[Drain].stage # "retry"
      BY <1>7 DEF Shutdown, DrainInv
    <2> QED
      BY <1>1, <1>2, <1>7, <2>1 DEF Shutdown
  <1> QED
    BY <1>3, <1>5, <1>6, <1>7

\* The handler of a platform.report.
LEMMA TypeReports ==
    ASSUME TypeInv, \E r \in Requests : ReportStep(r)
    PROVE  TypeInv'
  <1> USE DEF TypeInv
  <1>0. PICK r \in Requests : ReportStep(r)
    OBVIOUS
  <1>1. CASE ReportDrained(r) \/ ReportDone(r)
    <2>1. /\ UNCHANGED <<sessionVars, loop, beating, entryVars, payloadVars, flush, during, lost>>
          /\ report' = [report EXCEPT ![r] = "gone"] \/ report' = [report EXCEPT ![r] = "retrying"]
      BY <1>1 DEF ReportDrained, ReportDone
    <2>2. RestOK'
      BY <2>1 DEF RestOK
    <2>3. RetryOK(RetryIds)'
      <3>1. CASE ReportDrained(r)
        <4>1. SpawnTelemetryRetry(r) /\ UNCHANGED <<metricVars, delivered, dropped>>
          BY <3>1 DEF ReportDrained
        <4>2. r \in RetryIds
          BY TaskTypes
        <4> QED
          BY <4>1, <4>2, AfterSpawn
      <3>2. CASE ReportDone(r)
        BY <3>2, RetrySame DEF ReportDone
      <3> QED
        BY <1>1, <3>1, <3>2
    <2>4. FailedInv'
      <3>1. FailedStay
        BY <2>1 DEF FailedStay, payloadVars
      <3> QED
        BY <3>1, FailedSame
    <2>5. EntryOK'
      BY <2>1, EntryShrinks DEF entryVars, payloadVars
    <2>6. SlotInv'
      BY <2>1, SlotSame DEF entryVars, payloadVars
    <2> QED
      BY <2>1, <2>2, <2>3, <2>4, <2>5, <2>6, SessionSame, PlaceSame, FlushSame
         DEF sessionVars, payloadVars
  <1>2. ASSUME NEW answer \in Outcomes, ReportPosted(r, answer)
        PROVE  TypeInv'
    <2>1. /\ Metric(r, answer)
          /\ report' = [report EXCEPT ![r] = IF r \in entry THEN "sending" ELSE "gone"]
          /\ Leave({}, IF r \in entry THEN buffer(SlotOf(r)) ELSE {}, Task("report", r))
          /\ UNCHANGED <<sessionVars, telemetryVars, metricRetries, loop, beating, entryVars,
                         failed, flush, lost>>
      BY <1>2 DEF ReportPosted
    <2>2. PICK taken : taken = IF r \in entry THEN buffer(SlotOf(r)) ELSE {}
      OBVIOUS
    <2>3. Leave({}, taken, Task("report", r)) /\ \A p \in taken : p \in Payloads /\ place[p] = "buffer"
      BY <2>1, <2>2 DEF buffer
    <2>4. RestOK'
      BY <2>1 DEF RestOK
    <2>5. RetryOK(RetryIds)'
      BY <2>1, AfterMetric
    <2>6. PlaceOK'
      <3>1. PICK none : none = {}
        OBVIOUS
      <3>2. /\ none \in SUBSET Payloads /\ taken \in SUBSET Payloads
            /\ Leave(none, taken, Task("report", r))
            /\ \A p \in none \cup taken : place[p] \in {"buffer", "failed"}
        BY <2>3, <3>1
      <3> QED
        BY <3>2, LeaveTypes, TaskTypes
    <2>7. \A p \in Payloads :
             /\ place'[p] = IF p \in taken THEN "taken" ELSE place[p]
             /\ holder'[p] = IF p \in taken THEN Task("report", r) ELSE holder[p]
             /\ under'[p] = IF p \in taken THEN NoSlot ELSE under[p]
      BY <2>3 DEF Leave
    <2>8. FailedInv'
      <3>1. FailedStay
        BY <2>1, <2>3, <2>7 DEF FailedStay
      <3> QED
        BY <3>1, FailedSame
    <2>9. EntryOK'
      BY <2>1, <2>7, EntryShrinks DEF entryVars
    <2>10. SlotInv'
      BY <2>1, <2>7, SlotSame DEF entryVars
    <2> QED
      BY <2>1, <2>4, <2>5, <2>6, <2>8, <2>9, <2>10, SessionSame, FlushSame DEF sessionVars
  <1> QED
    BY <1>0, <1>1, <1>2 DEF ReportStep

\* What cannot be sent is kept, if no report's handler holds it.
LEMMA NotSentFails ==
    ASSUME PlaceOK, FailedInv, NEW p \in Payloads, place[p] = "taken", holder[p].kind # "retry",
           NEW E, E = {e.item : e \in Evicted(failed, PayloadMax)},
           failed' = PushCapped(failed, [item |-> p, tried |-> 0], PayloadMax),
           place' = [q \in Payloads |-> IF q = p THEN "failed"
                                        ELSE IF q \in E THEN "out" ELSE place[q]],
           holder' = [holder EXCEPT ![p] = Nobody],
           UNCHANGED flush
    PROVE  /\ FailedInv'
           /\ E \subseteq Payloads /\ \A q \in E : place[q] = "failed"
           /\ p \notin E
  <1>1. PICK new : new = [item |-> p, tried |-> 0]
    OBVIOUS
  <1>2. new \in FailedItems /\ new.item = p
    BY <1>1, LmiAssumption DEF FailedItems
  <1>3. /\ failed \in Seq(FailedItems) /\ Once(failed) /\ p \notin Of(failed)
        /\ \A q \in Payloads : place[q] = "failed" <=> q \in Of(failed)
    BY DEF FailedInv, FailedAre
  <1>4. /\ Once(failed') /\ Of(failed') = (Of(failed) \ E) \cup ({p} \cap Payloads)
        /\ E \cap Payloads \subseteq Of(failed)
    <2>1. PayloadMax \in Nat \ {0} /\ new.item \notin Of(failed)
      BY <1>2, <1>3, LmiAssumption
    <2>2. /\ Once(PushCapped(failed, new, PayloadMax))
          /\ Of(PushCapped(failed, new, PayloadMax)) = (Of(failed) \ E) \cup ({new.item} \cap Payloads)
          /\ E \cap Payloads \subseteq Of(failed)
      BY <1>2, <1>3, <2>1, OfCapped
    <2>3. PICK q : q = failed'
      OBVIOUS
    <2>4. q = PushCapped(failed, new, PayloadMax)
      BY <1>1, <2>3
    <2>5. Once(q) /\ Of(q) = (Of(failed) \ E) \cup ({p} \cap Payloads)
      BY <1>2, <2>2, <2>4
    <2> QED
      BY <2>2, <2>3, <2>5
  <1>5. failed' \in Seq(FailedItems) /\ E \subseteq Payloads
    <2>1. failed' \in Seq(FailedItems) /\ Evicted(failed, PayloadMax) \subseteq FailedItems
      BY <1>1, <1>2, <1>3, PushCappedIs, LmiAssumption
    <2> QED
      BY <2>1 DEF FailedItems
  <1>6. \A q \in E : place[q] = "failed" /\ q \in Payloads
    BY <1>3, <1>4, <1>5
  <1>7. \A q \in Payloads : place'[q] = "failed" <=> q \in Of(failed')
    <2>1. ASSUME NEW q \in Payloads PROVE place'[q] = "failed" <=> q \in Of(failed')
      <3>1. place'[q] = IF q = p THEN "failed" ELSE IF q \in E THEN "out" ELSE place[q]
        OBVIOUS
      <3>2. q \in Of(failed') <=> q = p \/ (q \in Of(failed) /\ q \notin E)
        BY <1>4
      <3> QED
        BY <1>3, <3>1, <3>2
    <2> QED
      BY <2>1
  <1>8. ASSUME NEW f \in Flushers PROVE HeldBy(flush'[f], Task("retry", f), place', holder')
    <2>1. HeldBy(flush[f], Task("retry", f), place, holder)
      BY DEF FailedInv, FailedAre
    <2>2. ASSUME NEW q \in Of(flush[f].left) \cup Of(flush[f].kept)
          PROVE  place'[q] = "taken" /\ holder'[q] = Task("retry", f)
      <3>1. q \in Payloads /\ place[q] = "taken" /\ holder[q] = Task("retry", f)
        BY <2>1 DEF HeldBy, Of
      <3>2. q # p
        BY <3>1 DEF Task
      <3>3. q \notin E
        BY <1>6, <3>1
      <3> QED
        BY <3>1, <3>2, <3>3 DEF PlaceOK
    <2> QED
      BY <2>1, <2>2 DEF HeldBy
  <1> QED
    BY <1>3, <1>4, <1>5, <1>6, <1>7, <1>8, FailedAfter DEF FailedAre

\* Sending a payload.
LEMMA TypeSends ==
    ASSUME TypeInv, \E p \in Payloads : StartSend(p) \/ Sends(p)
    PROVE  TypeInv'
  <1> USE DEF TypeInv
  <1>1. ASSUME NEW p \in Payloads, StartSend(p)
        PROVE  TypeInv'
    <2>1. /\ place[p] = "taken" /\ holder[p].kind \in {"pending", "report"}
          /\ UNCHANGED <<sessionVars, telemetryVars, metricVars, delivered, loop, beating,
                         entryVars, under, flush, report, during>>
      BY <1>1 DEF StartSend
    <2>2. SessionTypeOK' /\ FlushOK'
      BY <2>1, SessionSame, FlushSame DEF sessionVars
    <2>3. under[p] = NoSlot /\ holder[p] # Nobody
      BY <2>1 DEF PlaceOK
    <2>4. CASE /\ place' = [place EXCEPT ![p] = "sending"]
               /\ UNCHANGED <<holder, failed, dropped, lost>>
      <3>1. \A q \in Payloads : place'[q] = IF q = p THEN "sending" ELSE place[q]
        BY <2>4 DEF PlaceOK
      <3>2. PlaceOK'
        BY <2>1, <2>3, <2>4 DEF PlaceOK, Places
      <3>3. RetryOK(RetryIds)' /\ RestOK'
        BY <2>1, <2>4, RetrySame, RestSame DEF retryVars
      <3>4. FailedInv'
        <4>1. FailedStay
          BY <2>1, <2>4, <3>1 DEF FailedStay
        <4> QED
          BY <4>1, FailedSame
      <3>5. EntryOK'
        BY <2>1, <3>1, EntryShrinks DEF entryVars
      <3>6. SlotInv'
        BY <2>1, <3>1, SlotSame DEF entryVars
      <3> QED
        BY <2>2, <3>2, <3>3, <3>4, <3>5, <3>6
    <2>5. CASE NotSent(p)
      <3>1. holder' = [holder EXCEPT ![p] = Nobody]
        BY <2>5 DEF NotSent
      <3>2. CASE holder[p].kind = "report"
        <4>1. /\ place' = [place EXCEPT ![p] = "out"] /\ lost' = lost \cup {p}
              /\ UNCHANGED <<failed, dropped>>
          BY <2>5, <3>2 DEF NotSent
        <4>2. \A q \in Payloads : place'[q] = IF q = p THEN "out" ELSE place[q]
          BY <4>1 DEF PlaceOK
        <4>3. PlaceOK'
          BY <2>1, <2>3, <3>1, <4>1 DEF PlaceOK, Places
        <4>4. RetryOK(RetryIds)' /\ RestOK'
          BY <2>1, <4>1, RetrySame DEF retryVars, RestOK
        <4>5. FailedInv'
          <5>1. \A q \in Payloads : q # p => holder'[q] = holder[q]
            BY <3>1 DEF PlaceOK
          <5>2. FailedStay
            BY <2>1, <4>1, <4>2, <5>1 DEF FailedStay
          <5> QED
            BY <5>2, FailedSame
        <4>6. EntryOK'
          BY <2>1, <4>2, EntryShrinks DEF entryVars
        <4>7. SlotInv'
          BY <2>1, <4>2, SlotSame DEF entryVars
        <4> QED
          BY <2>2, <4>3, <4>4, <4>5, <4>6, <4>7
      <3>3. CASE holder[p].kind # "report"
        <4>0. PICK E : E = {e.item : e \in Evicted(failed, PayloadMax)}
          OBVIOUS
        <4>1. /\ failed' = PushCapped(failed, [item |-> p, tried |-> 0], PayloadMax)
              /\ place' = [q \in Payloads |-> IF q = p THEN "failed"
                                              ELSE IF q \in E THEN "out" ELSE place[q]]
              /\ dropped' = dropped \cup E
              /\ UNCHANGED lost
          BY <2>5, <3>3, <4>0 DEF NotSent
        <4>2. /\ FailedInv' /\ E \subseteq Payloads
              /\ \A q \in E : place[q] = "failed"
          BY <2>1, <3>1, <4>0, <4>1, NotSentFails, ZenonT(30)
        <4>3. PlaceOK'
          <5>1. place' \in [Payloads -> Places]
            BY <4>1 DEF PlaceOK, Places
          <5>2. /\ holder' \in [Payloads -> Tasks \cup {Nobody}]
                /\ \A q \in Payloads : holder'[q] = IF q = p THEN Nobody ELSE holder[q]
            BY <3>1 DEF PlaceOK
          <5>3. /\ place'[p] = "failed"
                /\ \A q \in Payloads : q # p =>
                     \/ place'[q] = place[q]
                     \/ place[q] = "failed" /\ place'[q] = "out"
            BY <4>1, <4>2
          <5>4. \A q \in Payloads : (holder'[q] # Nobody) <=> (place'[q] \in {"taken", "sending"})
            BY <5>2, <5>3 DEF PlaceOK
          <5>5. \A q \in Payloads : (under'[q] # NoSlot) <=> (place'[q] = "buffer")
            <6>1. ASSUME NEW q \in Payloads
                  PROVE  place'[q] = "buffer" <=> place[q] = "buffer"
              BY <2>1, <5>3
            <6> QED
              BY <2>1, <6>1 DEF PlaceOK
          <5> QED
            BY <2>1, <5>1, <5>2, <5>4, <5>5 DEF PlaceOK
        <4>4. RetryOK(RetryIds)'
          <5>1. dropped' \in SUBSET (Items \cup Requests)
            BY <4>1, <4>2 DEF RetryOK, RetryTypeOK, Items
          <5> QED
            BY <2>1, <5>1 DEF RetryOK, RetryTypeOK, telemetryVars, metricVars
        <4>5. RestOK'
          BY <2>1, <4>1, RestSame
        <4>6. EntryOK'
          BY <2>1, <4>1, EntryShrinks DEF entryVars
        <4>7. SlotInv'
          BY <2>1, <4>1, SlotSame DEF entryVars
        <4> QED
          BY <2>2, <4>2, <4>3, <4>4, <4>5, <4>6, <4>7
      <3> QED
        BY <3>2, <3>3
    <2> QED
      BY <1>1, <2>4, <2>5 DEF StartSend
  <1>2. ASSUME NEW p \in Payloads, NEW answer, FinishSend(p, answer)
        PROVE  TypeInv'
    <2>1. /\ place[p] = "sending" /\ Telemetry(p, app, answer)
          /\ place' = [place EXCEPT ![p] = "out"]
          /\ holder' = [holder EXCEPT ![p] = Nobody]
          /\ UNCHANGED <<app, fatal, handshake, issued, valid, telemetryRetries, metricVars, loop,
                         beating, entryVars, under, failed, flush, report, during, lost>>
      BY <1>2 DEF FinishSend
    <2>2. RetryOK(RetryIds)' /\ SessionTypeOK'
      BY <2>1, AfterTelemetry DEF Items, SessionTypeOK
    <2>3. /\ \A q \in Payloads : place'[q] = IF q = p THEN "out" ELSE place[q]
          /\ \A q \in Payloads : holder'[q] = IF q = p THEN Nobody ELSE holder[q]
      BY <2>1 DEF PlaceOK
    <2>4. PlaceOK'
      <3>1. under[p] = NoSlot
        BY <2>1 DEF PlaceOK
      <3> QED
        BY <2>1, <3>1 DEF PlaceOK, Places
    <2>5. FailedInv'
      <3>1. FailedStay
        BY <2>1, <2>3 DEF FailedStay
      <3> QED
        BY <3>1, FailedSame
    <2>6. EntryOK'
      BY <2>1, <2>3, EntryShrinks DEF entryVars
    <2>7. SlotInv'
      BY <2>1, <2>3, SlotSame DEF entryVars
    <2> QED
      BY <2>1, <2>2, <2>4, <2>5, <2>6, <2>7, RestSame, FlushSame
  <1> QED
    BY <1>1, <1>2 DEF Sends

\* The payloads of a sequence of failed ones, and of two, one behind the other.
LEMMA OfItems ==
    ASSUME NEW q \in Seq(FailedItems)
    PROVE  {q[i].item : i \in DOMAIN q} = Of(q)
  <1>1. DOMAIN q = 1..Len(q)
    OBVIOUS
  <1>2. \A i \in 1..Len(q) : q[i].item \in Payloads
    <2>1. \A i \in 1..Len(q) : q[i] \in FailedItems
      OBVIOUS
    <2> QED
      BY <2>1 DEF FailedItems
  <1> QED
    BY <1>1, <1>2, Zenon DEF Of

\* See OfItems.
LEMMA OfConcat ==
    ASSUME NEW q \in Seq(FailedItems), NEW s \in Seq(FailedItems), NEW qs, qs = q \o s
    PROVE  /\ qs \in Seq(FailedItems) /\ Of(qs) = Of(q) \cup Of(s)
           /\ Once(q) /\ Once(s) /\ Of(q) \cap Of(s) = {} => Once(qs)
  <1>1. /\ qs \in Seq(FailedItems) /\ Len(qs) = Len(q) + Len(s)
        /\ Len(q) \in Nat /\ Len(s) \in Nat
    OBVIOUS
  <1>2. \A i \in 1..Len(q) : i \in 1..Len(qs) /\ qs[i] = q[i]
    BY <1>1
  <1>3. \A i \in 1..Len(s) : i + Len(q) \in 1..Len(qs) /\ qs[i + Len(q)] = s[i]
    BY <1>1
  <1>4. \A i \in 1..Len(qs) : i \in 1..Len(q) \/ \E j \in 1..Len(s) : i = j + Len(q)
    <2>1. TAKE i \in 1..Len(qs)
    <2>2. CASE i \notin 1..Len(q)
      <3>1. i - Len(q) \in 1..Len(s) /\ i = (i - Len(q)) + Len(q)
        BY <1>1, <2>2
      <3> QED
        BY <3>1
    <2> QED
      BY <2>2
  <1>5. Of(qs) = Of(q) \cup Of(s)
    <2>1. ASSUME NEW i \in 1..Len(qs)
          PROVE  \/ \E j \in 1..Len(q) : qs[i] = q[j]
                 \/ \E j \in 1..Len(s) : qs[i] = s[j]
      BY <1>2, <1>3, <1>4, Zenon
    <2>2. /\ \A j \in 1..Len(q) : \E i \in 1..Len(qs) : qs[i] = q[j]
          /\ \A j \in 1..Len(s) : \E i \in 1..Len(qs) : qs[i] = s[j]
      BY <1>2, <1>3, Zenon
    <2>3. Of(qs) \subseteq Of(q) \cup Of(s)
      <3>1. ASSUME NEW p \in Of(qs) PROVE p \in Of(q) \/ p \in Of(s)
        <4>1. PICK i \in 1..Len(qs) : qs[i].item = p
          BY <3>1 DEF Of
        <4>2. p \in Payloads
          BY <3>1 DEF Of
        <4>3. CASE \E j \in 1..Len(q) : qs[i] = q[j]
          BY <4>1, <4>2, <4>3, Zenon DEF Of
        <4>4. CASE \E j \in 1..Len(s) : qs[i] = s[j]
          BY <4>1, <4>2, <4>4, Zenon DEF Of
        <4> QED
          BY <2>1, <4>3, <4>4
      <3> QED
        BY <3>1
    <2>4. Of(q) \subseteq Of(qs) /\ Of(s) \subseteq Of(qs)
      <3>1. ASSUME NEW p \in Of(q) PROVE p \in Of(qs)
        BY <2>2, <3>1, Zenon DEF Of
      <3>2. ASSUME NEW p \in Of(s) PROVE p \in Of(qs)
        BY <2>2, <3>2, Zenon DEF Of
      <3> QED
        BY <3>1, <3>2
    <2> QED
      BY <2>3, <2>4
  <1>6. ASSUME Once(q), Once(s), Of(q) \cap Of(s) = {} PROVE Once(qs)
    <2>1. SUFFICES ASSUME NEW i \in 1..Len(qs), NEW j \in 1..Len(qs),
                          qs[i].item = qs[j].item, qs[i].item \in Payloads
                   PROVE  i = j
      BY DEF Once
    <2>2. CASE i \in 1..Len(q) /\ j \in 1..Len(q)
      BY <1>2, <1>6, <2>1, <2>2, Zenon DEF Once
    <2>3. CASE \E k, m \in 1..Len(s) : i = k + Len(q) /\ j = m + Len(q)
      <3>1. PICK k \in 1..Len(s), m \in 1..Len(s) : i = k + Len(q) /\ j = m + Len(q)
        BY <2>3
      <3>2. s[k].item = s[m].item /\ s[k].item \in Payloads
        BY <1>3, <2>1, <3>1
      <3>3. k = m
        BY <1>6, <3>2, Zenon DEF Once
      <3> QED
        BY <3>1, <3>3
    <2>4. ASSUME NEW a \in 1..Len(q), NEW k \in 1..Len(s), q[a].item = s[k].item,
                 q[a].item \in Payloads
          PROVE  FALSE
      <3>1. q[a].item \in Of(q) /\ q[a].item \in Of(s)
        BY <2>4 DEF Of
      <3> QED
        BY <1>6, <3>1
    <2>5. CASE i \in 1..Len(q) /\ \E k \in 1..Len(s) : j = k + Len(q)
      <3>1. PICK k \in 1..Len(s) : j = k + Len(q)
        BY <2>5
      <3>2. q[i].item = s[k].item /\ q[i].item \in Payloads
        BY <1>2, <1>3, <2>1, <2>5, <3>1
      <3> QED
        BY <2>4, <2>5, <3>2
    <2>6. CASE j \in 1..Len(q) /\ \E k \in 1..Len(s) : i = k + Len(q)
      <3>1. PICK k \in 1..Len(s) : i = k + Len(q)
        BY <2>6
      <3>2. q[j].item = s[k].item /\ q[j].item \in Payloads
        BY <1>2, <1>3, <2>1, <2>6, <3>1
      <3> QED
        BY <2>4, <2>6, <3>2
    <2> QED
      BY <1>4, <2>2, <2>3, <2>5, <2>6, Zenon
  <1> QED
    BY <1>1, <1>5, <1>6

\* A flush goes on to a stage at which it visits no entry, and holds no failed payload.
LEMMA NewStage ==
    ASSUME FlushOK, SlotInv, NEW f \in Flushers, NEW stage \in Stages \ {"pending", "posting"},
           flush' = [flush EXCEPT ![f] = At(stage)]
    PROVE  /\ FlushOK' /\ flush'[f].left = <<>> /\ flush'[f].kept = <<>>
           /\ \A g \in Flushers : g # f => flush'[g] = flush[g]
           /\ UNCHANGED made /\ (\A p \in Payloads : place'[p] = "buffer" =>
                                    place[p] = "buffer" /\ under'[p] = under[p])
                => SlotInv'
  <1>1. /\ At(stage) \in Flushes /\ At(stage).left = <<>> /\ At(stage).kept = <<>>
        /\ At(stage).stage = stage
    BY AtIs
  <1>2. /\ flush' \in [Flushers -> Flushes] /\ flush'[f] = At(stage)
        /\ \A g \in Flushers : g # f => flush'[g] = flush[g]
    BY <1>1 DEF FlushOK
  <1>3. FlushOK'
    BY <1>1, <1>2 DEF FlushOK, Visiting
  <1>4. ASSUME UNCHANGED made,
               \A p \in Payloads : place'[p] = "buffer" =>
                                    place[p] = "buffer" /\ under'[p] = under[p]
        PROVE  SlotInv'
    <2>1. \A g \in Flushers : Visiting(flush'[g]) => flush'[g] = flush[g]
      BY <1>1, <1>2 DEF Visiting
    <2> QED
      BY <1>4, <2>1 DEF SlotInv, Distinct, Visiting
  <1> QED
    BY <1>1, <1>2, <1>3, <1>4

\* The same, when no payload moves.
LEMMA StageTypes ==
    ASSUME RestOK, PlaceOK, FlushOK, FailedInv, EntryOK, SlotInv, NEW f \in Flushers,
           NEW stage \in Stages \ {"pending", "posting"},
           flush[f].stage # "retry",
           flush' = [flush EXCEPT ![f] = At(stage)],
           UNCHANGED <<beating, entryVars, payloadVars, report, lost>>,
           loop' \in {loop, "join"},
           during' = during \/ during' = [p \in Payloads |-> during[p] \ {f}]
    PROVE  RestOK' /\ PlaceOK' /\ FlushOK' /\ FailedInv' /\ EntryOK' /\ SlotInv'
  <1>1. /\ FlushOK' /\ flush'[f].left = <<>> /\ flush'[f].kept = <<>>
        /\ \A g \in Flushers : g # f => flush'[g] = flush[g]
        /\ SlotInv'
    BY NewStage DEF entryVars, payloadVars
  <1>2. flush[f].left = <<>> /\ flush[f].kept = <<>>
    BY DEF FlushOK
  <1>3. FailedInv'
    <2>1. FailedStay
      BY <1>1, <1>2 DEF FailedStay, payloadVars
    <2> QED
      BY <2>1, FailedSame
  <1>4. EntryOK'
    BY EntryShrinks DEF entryVars, payloadVars
  <1>5. RestOK' /\ PlaceOK'
    BY DEF RestOK, PlaceOK, payloadVars
  <1> QED
    BY <1>1, <1>3, <1>4, <1>5

\* The stages of a flush at which no payload moves.
LEMMA TypeStages ==
    ASSUME TypeInv, NEW f \in Flushers,
           Invalidate(f) \/ RetryLive(f) \/ TelemetryDone(f) \/ FlushOver(f)
    PROVE  TypeInv'
  <1> USE DEF TypeInv
  <1>1. \E stage \in Stages \ {"pending", "posting"} :
          flush' = [flush EXCEPT ![f] = At(stage)] /\ flush[f].stage # "retry"
    <2>1. Idling = At("idle")
      <3>1. PICK none : none = <<>>
        OBVIOUS
      <3>2. At("idle") = [stage |-> "idle", todo |-> {}, now |-> NoSlot, left |-> none, kept |-> none]
        BY <3>1, AtIs DEF Stages
      <3>3. Idling = [stage |-> "idle", todo |-> {}, now |-> NoSlot, left |-> none, kept |-> none]
        BY <3>1 DEF Idling
      <3> QED
        BY <3>2, <3>3
    <2>2. flush[f].stage # "retry"
      BY DEF Invalidate, RetryLive, TelemetryDone, FlushOver
    <2>3. \/ flush' = [flush EXCEPT ![f] = At("check")]
          \/ flush' = [flush EXCEPT ![f] = At("metrics")]
          \/ flush' = [flush EXCEPT ![f] = At("telemetry")]
          \/ flush' = [flush EXCEPT ![f] = At("idle")]
      <3>1. CASE RetryLive(f)
        <4>1. telemetry = <<>> \/ telemetry # <<>>
          OBVIOUS
        <4> QED
          BY <3>1, <4>1 DEF RetryLive, RetryTelemetry
      <3> QED
        BY <2>1, <3>1 DEF Invalidate, TelemetryDone, FlushOver
    <2>4. {"check", "metrics", "telemetry", "idle"} \subseteq Stages \ {"pending", "posting"}
      BY DEF Stages
    <2> QED
      BY <2>2, <2>3, <2>4
  <1>2. /\ UNCHANGED <<beating, entryVars, payloadVars, report, lost>>
        /\ loop' \in {loop, "join"}
        /\ during' = during \/ during' = [p \in Payloads |-> during[p] \ {f}]
    BY DEF Invalidate, RetryLive, TelemetryDone, FlushOver, restOfFlush
  <1>3. RestOK' /\ PlaceOK' /\ FlushOK' /\ FailedInv' /\ EntryOK' /\ SlotInv'
    BY <1>1, <1>2, StageTypes
  <1>4. SessionTypeOK'
    <2>1. CASE Invalidate(f)
      BY <2>1, RunsAssumption DEF Invalidate, SessionTypeOK, None
    <2>2. CASE ~Invalidate(f)
      BY <2>2, SessionSame DEF RetryLive, TelemetryDone, FlushOver, sessionVars
    <2> QED
      BY <2>1, <2>2
  <1>5. RetryOK(RetryIds)'
    <2>1. f \in RetryIds
      BY TaskTypes
    <2>2. CASE Invalidate(f) \/ FlushOver(f)
      BY <2>2, RetrySame DEF Invalidate, FlushOver
    <2>3. CASE RetryLive(f)
      BY <2>1, <2>3, AfterSpawn DEF RetryLive, RetryTelemetry
    <2>4. CASE TelemetryDone(f)
      BY <2>1, <2>4, AfterSpawn DEF TelemetryDone
    <2> QED
      BY <2>2, <2>3, <2>4
  <1> QED
    BY <1>3, <1>4, <1>5

\* A flush at its retry of failed payloads.
LEMMA RetryIs ==
    ASSUME NEW q
    PROVE  /\ [At("retry") EXCEPT !.left = q]
                = [stage |-> "retry", todo |-> {}, now |-> NoSlot, left |-> q, kept |-> <<>>]
           /\ q \in Seq(FailedItems) => [At("retry") EXCEPT !.left = q] \in Flushes
  <1>1. PICK none : none = <<>>
    OBVIOUS
  <1>2. PICK w : w = At("retry")
    OBVIOUS
  <1>3. w = [stage |-> "retry", todo |-> {}, now |-> NoSlot, left |-> none, kept |-> none]
    BY <1>1, <1>2, AtIs DEF Stages
  <1>4. [w EXCEPT !.left = q] = [stage |-> "retry", todo |-> {}, now |-> NoSlot, left |-> q, kept |-> none]
    BY <1>3
  <1>5. none \in Seq(FailedItems)
    BY <1>1, EmptySeq
  <1>6. q \in Seq(FailedItems) =>
          [stage |-> "retry", todo |-> {}, now |-> NoSlot, left |-> q, kept |-> none] \in Flushes
    BY <1>5 DEF Flushes, Stages
  <1> QED
    BY <1>1, <1>2, <1>4, <1>6

\* A flush takes the failed payloads.
LEMMA TakesFailed ==
    ASSUME PlaceOK, FlushOK, FailedInv, SlotInv, NEW f \in Flushers, flush[f].stage = "check",
           flush' = [flush EXCEPT ![f] = [At("retry") EXCEPT !.left = failed]],
           failed' = <<>>,
           NEW taken, taken = {failed[i].item : i \in DOMAIN failed},
           NEW none, none = {}, Leave(none, taken, Task("retry", f))
    PROVE  /\ PlaceOK' /\ FlushOK' /\ FailedInv'
           /\ taken = Of(failed) /\ \A p \in taken : p \in Payloads /\ place[p] = "failed"
           /\ UNCHANGED made => SlotInv'
  <1>1. /\ failed \in Seq(FailedItems) /\ Once(failed)
        /\ \A p \in Payloads : place[p] = "failed" <=> p \in Of(failed)
    BY DEF FailedInv, FailedAre
  <1>2. taken = Of(failed) /\ \A p \in taken : p \in Payloads /\ place[p] = "failed"
    <2>1. taken = Of(failed)
      BY <1>1, OfItems
    <2> QED
      BY <1>1, <2>1 DEF Of
  <1>3. PICK w : w = [At("retry") EXCEPT !.left = failed]
    OBVIOUS
  <1>4. w \in Flushes /\ w.stage = "retry" /\ w.left = failed /\ w.kept = <<>>
    BY <1>1, <1>3, RetryIs
  <1>5. /\ flush' \in [Flushers -> Flushes] /\ flush'[f] = w
        /\ \A g \in Flushers : g # f => flush'[g] = flush[g]
    BY <1>3, <1>4 DEF FlushOK
  <1>6. FlushOK'
    BY <1>4, <1>5 DEF FlushOK, Visiting
  <1>7. PlaceOK'
    BY <1>2, LeaveTypes, TaskTypes
  <1>8. \A p \in Payloads :
           /\ place'[p] = IF p \in taken THEN "taken" ELSE place[p]
           /\ holder'[p] = IF p \in taken THEN Task("retry", f) ELSE holder[p]
           /\ under'[p] = IF p \in taken THEN NoSlot ELSE under[p]
    BY DEF Leave
  <1>9. FailedInv'
    <2>1. Of(failed') = {} /\ Once(failed') /\ failed' \in Seq(FailedItems)
      <3>1. PICK q : q = failed'
        OBVIOUS
      <3>2. Of(q) = {} /\ Once(q) /\ q \in Seq(FailedItems)
        BY <3>1, OfEmpty, EmptySeq
      <3> QED
        BY <3>1, <3>2
    <2>2. \A p \in Payloads : place'[p] # "failed"
      BY <1>1, <1>2, <1>8
    <2>3. ASSUME NEW g \in Flushers PROVE HeldBy(flush'[g], Task("retry", g), place', holder')
      <3>1. CASE g = f
        <4>1. Of(w.left) = taken /\ Once(w.left)
          BY <1>1, <1>2, <1>4
        <4>2. Of(w.kept) = {} /\ Once(w.kept)
          BY <1>4, OfEmpty
        <4>3. \A p \in taken : place'[p] = "taken" /\ holder'[p] = Task("retry", f)
          BY <1>2, <1>8
        <4> QED
          BY <1>5, <3>1, <4>1, <4>2, <4>3 DEF HeldBy
      <3>2. CASE g # f
        <4>1. HeldBy(flush[g], Task("retry", g), place, holder)
          BY DEF FailedInv, FailedAre
        <4>2. \A p \in Of(flush[g].left) \cup Of(flush[g].kept) :
                 p \in Payloads /\ place[p] = "taken" /\ holder[p] = Task("retry", g)
          BY <4>1 DEF HeldBy, Of
        <4>3. \A p \in Of(flush[g].left) \cup Of(flush[g].kept) :
                 place'[p] = "taken" /\ holder'[p] = Task("retry", g)
          BY <1>2, <1>8, <4>2
        <4> QED
          BY <1>5, <3>2, <4>1, <4>3 DEF HeldBy
      <3> QED
        BY <3>1, <3>2
    <2> QED
      BY <2>1, <2>2, <2>3, FailedAfter DEF FailedAre
  <1>10. ASSUME UNCHANGED made PROVE SlotInv'
    <2>1. \A g \in Flushers : Visiting(flush'[g]) => flush'[g] = flush[g]
      BY <1>4, <1>5 DEF Visiting
    <2>2. \A p \in Payloads : place'[p] = "buffer" => place[p] = "buffer" /\ under'[p] = under[p]
      BY <1>8
    <2>3. \A p \in Payloads : place'[p] = "buffer" => under'[p].nth <= made'[under'[p].of]
      BY <1>10, <2>2 DEF SlotInv
    <2>4. \A g \in Flushers : Visiting(flush'[g]) =>
             /\ Distinct(flush'[g].todo \cup {flush'[g].now})
             /\ flush'[g].now \notin flush'[g].todo
      BY <2>1 DEF SlotInv
    <2> QED
      BY <2>3, <2>4 DEF SlotInv, Distinct, Visiting
  <1> QED
    BY <1>2, <1>6, <1>7, <1>9, <1>10

\* A flush looks at the session, and may begin its retries.
LEMMA TypeCheck ==
    ASSUME TypeInv, NEW f \in Flushers, Check(f)
    PROVE  TypeInv'
  <1> USE DEF TypeInv
  <1>1. /\ flush[f].stage = "check"
        /\ UNCHANGED <<app, reconnect, fatal, issued, valid, delivered, dropped, restOfFlush>>
        /\ \/ handshake' = handshake
           \/ handshake' = [handshake EXCEPT ![HandshakeOf(f)] = Trying]
        /\ \/ RetryTelemetry(f) /\ UNCHANGED <<payloadVars, during>>
           \/ /\ flush' = [flush EXCEPT ![f] = [At("retry") EXCEPT !.left = failed]]
              /\ failed' = <<>>
              /\ Leave({}, {failed[i].item : i \in DOMAIN failed}, Task("retry", f))
              /\ UNCHANGED <<telemetryVars, metricVars>>
    BY DEF Check
  <1>2. SessionTypeOK'
    <2>1. Trying \in [stage : {"idle", "trying", "connected"}, run : 0..MaxRuns]
      BY RunsAssumption DEF Trying, None
    <2>2. handshake' \in [Handshakes -> [stage : {"idle", "trying", "connected"}, run : 0..MaxRuns]]
      BY <1>1, <2>1 DEF SessionTypeOK
    <2> QED
      BY <1>1, <2>2 DEF SessionTypeOK
  <1>3. CASE RetryTelemetry(f) /\ UNCHANGED <<payloadVars, during>>
    <2>1. \E stage \in Stages \ {"pending", "posting"} : flush' = [flush EXCEPT ![f] = At(stage)]
      <3>1. {"metrics", "telemetry"} \subseteq Stages \ {"pending", "posting"}
        BY DEF Stages
      <3>2. \/ flush' = [flush EXCEPT ![f] = At("metrics")]
            \/ flush' = [flush EXCEPT ![f] = At("telemetry")]
        <4>1. telemetry = <<>> \/ telemetry # <<>>
          OBVIOUS
        <4> QED
          BY <1>3, <4>1 DEF RetryTelemetry
      <3> QED
        BY <3>1, <3>2
    <2>2. RestOK' /\ PlaceOK' /\ FlushOK' /\ FailedInv' /\ EntryOK' /\ SlotInv'
      BY <1>1, <1>3, <2>1, StageTypes DEF restOfFlush
    <2>3. RetryOK(RetryIds)'
      BY <1>1, <1>3, AfterSpawn, TaskTypes DEF RetryTelemetry
    <2> QED
      BY <1>2, <2>2, <2>3
  <1>4. CASE /\ flush' = [flush EXCEPT ![f] = [At("retry") EXCEPT !.left = failed]]
             /\ failed' = <<>>
             /\ Leave({}, {failed[i].item : i \in DOMAIN failed}, Task("retry", f))
             /\ UNCHANGED <<telemetryVars, metricVars>>
    <2>1. PICK none, taken : /\ none = {} /\ taken = {failed[i].item : i \in DOMAIN failed}
                             /\ Leave(none, taken, Task("retry", f))
      BY <1>4
    <2>2. UNCHANGED <<loop, beating, entryVars, report, lost>>
      BY <1>1 DEF restOfFlush
    <2>3. /\ PlaceOK' /\ FlushOK' /\ FailedInv' /\ SlotInv'
          /\ taken \subseteq Payloads
      BY <1>1, <1>4, <2>1, <2>2, TakesFailed DEF entryVars
    <2>4. EntryOK'
      <3>1. \A p \in Payloads : place[p] # "away" => place'[p] # "away"
        BY <2>1 DEF Leave
      <3> QED
        BY <2>2, <3>1, EntryShrinks DEF entryVars
    <2>5. RestOK' /\ RetryOK(RetryIds)'
      BY <1>1, <1>4, <2>2, RestSame, RetrySame DEF retryVars
    <2> QED
      BY <1>2, <2>3, <2>4, <2>5
  <1> QED
    BY <1>1, <1>3, <1>4

\* RetryNext, in terms of the payload it takes and the flush w it leaves.
Retried(f, next, again, w) ==
    /\ flush[f].stage = "retry" /\ flush[f].left # <<>>
    /\ next = Head(flush[f].left) /\ next \in FailedItems
    /\ again \in FailedItems /\ again.item = next.item
    /\ w \in Flushes /\ w.stage = "retry" /\ w.left = Tail(flush[f].left)
    /\ flush' \in [Flushers -> Flushes] /\ flush'[f] = w
    /\ \A g \in Flushers : g # f => flush'[g] = flush[g]
    /\ \/ /\ w.kept = flush[f].kept
          /\ place' = [place EXCEPT ![next.item] = "out"]
          /\ holder' = [holder EXCEPT ![next.item] = Nobody]
          /\ dropped' = dropped \cup {next.item}
       \/ /\ w.kept = Append(flush[f].kept, again)
          /\ UNCHANGED <<place, holder, dropped>>
       \/ /\ w.kept = flush[f].kept
          /\ place' = [place EXCEPT ![next.item] = "sending"]
          /\ UNCHANGED <<holder, dropped>>
    /\ UNCHANGED <<sessionVars, telemetryVars, metricVars, delivered, under, failed, during,
                   loop, beating, entryVars, report, lost>>

\* See Retried.
LEMMA RetryNextIs ==
    ASSUME FlushOK, NEW f \in Flushers, RetryNext(f)
    PROVE  \E next, again, w : Retried(f, next, again, w)
  <1>1. PICK next : next = Head(flush[f].left)
    OBVIOUS
  <1>2. PICK w0 : w0 = flush[f]
    OBVIOUS
  <1>3. /\ w0 \in Flushes /\ w0.stage = "retry" /\ w0.left # <<>> /\ next = Head(w0.left)
        /\ flush \in [Flushers -> Flushes]
    BY <1>1, <1>2 DEF FlushOK, RetryNext
  <1>4. w0.left \in Seq(FailedItems) /\ w0.kept \in Seq(FailedItems)
    BY <1>3 DEF Flushes
  <1>5. next \in FailedItems /\ Tail(w0.left) \in Seq(FailedItems)
    BY <1>3, <1>4, HeadTail
  <1>6. PICK rest : rest = Tail(w0.left)
    OBVIOUS
  <1>7. PICK v : v = [w0 EXCEPT !.left = rest]
    OBVIOUS
  <1>8. /\ v \in Flushes /\ v.stage = "retry" /\ v.left = rest /\ v.kept = w0.kept
    BY <1>3, <1>5, <1>6, <1>7 DEF Flushes
  <1>9. UNCHANGED <<sessionVars, telemetryVars, metricVars, delivered, under, failed, during,
                    loop, beating, entryVars, report, lost>>
    BY DEF RetryNext, restOfFlush
  <1>10. ASSUME flush' = [flush EXCEPT ![f].left = Tail(@)]
         PROVE  flush' \in [Flushers -> Flushes] /\ flush'[f] = v
                /\ \A g \in Flushers : g # f => flush'[g] = flush[g]
    <2>1. flush' = [flush EXCEPT ![f] = v]
      BY <1>2, <1>3, <1>6, <1>7, <1>10
    <2> QED
      BY <1>3, <1>8, <2>1
  <1>11. CASE /\ dropped' = dropped \cup {next.item}
              /\ place' = [place EXCEPT ![next.item] = "out"]
              /\ holder' = [holder EXCEPT ![next.item] = Nobody]
              /\ flush' = [flush EXCEPT ![f].left = Tail(@)]
    <2>1. Retried(f, next, next, v)
      BY <1>1, <1>2, <1>3, <1>5, <1>6, <1>8, <1>9, <1>10, <1>11 DEF Retried
    <2> QED
      BY <2>1
  <1>12. CASE /\ place' = [place EXCEPT ![next.item] = "sending"]
              /\ flush' = [flush EXCEPT ![f].left = Tail(@)]
              /\ UNCHANGED <<holder, dropped>>
    <2>1. Retried(f, next, next, v)
      BY <1>1, <1>2, <1>3, <1>5, <1>6, <1>8, <1>9, <1>10, <1>12 DEF Retried
    <2> QED
      BY <2>1
  <1>13. CASE /\ next.tried < AgentRetryMax
              /\ flush' = [flush EXCEPT ![f].left = Tail(@),
                                        ![f].kept = Append(@, [next EXCEPT !.tried = @ + 1])]
              /\ UNCHANGED <<place, holder, dropped>>
    <2>1. PICK again : again = [next EXCEPT !.tried = @ + 1]
      OBVIOUS
    <2>2. again \in FailedItems /\ again.item = next.item
      BY <1>5, <1>13, <2>1, LmiAssumption DEF FailedItems
    <2>3. PICK more : more = Append(w0.kept, again)
      OBVIOUS
    <2>4. more \in Seq(FailedItems)
      BY <1>4, <2>2, <2>3
    <2>5. PICK w : w = [v EXCEPT !.kept = more]
      OBVIOUS
    <2>6. w \in Flushes /\ w.stage = "retry" /\ w.left = rest /\ w.kept = more
      BY <1>8, <2>4, <2>5 DEF Flushes
    <2>7. flush' = [flush EXCEPT ![f] = w]
      <3>1. PICK F : F = [flush EXCEPT ![f].left = Tail(@)]
        OBVIOUS
      <3>2. F = [flush EXCEPT ![f] = v]
        BY <1>2, <1>3, <1>6, <1>7, <3>1
      <3>3. flush' = [F EXCEPT ![f].kept = Append(@, again)]
        BY <1>13, <2>1, <3>1
      <3>4. F[f] = v /\ F \in [Flushers -> Flushes]
        BY <1>3, <1>8, <3>2
      <3>5. flush' = [F EXCEPT ![f] = w]
        BY <1>8, <2>3, <2>5, <3>3, <3>4
      <3> QED
        BY <1>3, <3>2, <3>5
    <2>8. /\ flush' \in [Flushers -> Flushes] /\ flush'[f] = w
          /\ \A g \in Flushers : g # f => flush'[g] = flush[g]
      BY <1>3, <2>6, <2>7
    <2>9. Retried(f, next, again, w)
      BY <1>1, <1>2, <1>3, <1>5, <1>6, <1>9, <1>13, <2>2, <2>3, <2>6, <2>8 DEF Retried
    <2> QED
      BY <2>9
  <1> QED
    BY <1>1, <1>11, <1>12, <1>13 DEF RetryNext

\* The payload retried leaves what the flush has left.
LEMMA RetriedHeld ==
    ASSUME PlaceOK, FlushOK, FailedInv, NEW f \in Flushers, NEW next, NEW again, NEW w,
           Retried(f, next, again, w)
    PROVE  /\ next.item \in Payloads /\ place[next.item] = "taken"
           /\ holder[next.item] = Task("retry", f)
           /\ Once(w.left) /\ Once(w.kept) /\ Of(w.left) \cap Of(w.kept) = {}
           /\ Of(w.left) \subseteq Of(flush[f].left)
           /\ \/ w.kept = flush[f].kept /\ next.item \notin Of(w.left) \cup Of(w.kept)
              \/ /\ Of(w.kept) = Of(flush[f].kept) \cup {next.item}
                 /\ UNCHANGED <<place, holder>>
  <1>1. PICK l, k : l = flush[f].left /\ k = flush[f].kept
    OBVIOUS
  <1>2. l \in Seq(FailedItems) /\ k \in Seq(FailedItems) /\ l # <<>>
    BY <1>1 DEF FlushOK, Flushes, Retried
  <1>3. next = Head(l) /\ w.left = Tail(l) /\ next \in FailedItems
        /\ again \in FailedItems /\ again.item = next.item
    BY <1>1 DEF Retried
  <1>4. /\ Once(l) /\ Once(k) /\ Of(l) \cap Of(k) = {}
        /\ \A p \in Of(l) \cup Of(k) : place[p] = "taken" /\ holder[p] = Task("retry", f)
    BY <1>1 DEF FailedInv, FailedAre, HeldBy
  <1>5. next.item \in Payloads
    BY <1>3 DEF FailedItems
  <1>6. /\ Of(l) = Of(w.left) \cup {next.item} /\ Once(w.left) /\ next.item \notin Of(w.left)
    BY <1>2, <1>3, <1>4, <1>5, OfLess
  <1>7. next.item \in Of(l) /\ next.item \notin Of(k)
    BY <1>4, <1>6
  <1>8. CASE w.kept = k
    BY <1>1, <1>4, <1>5, <1>6, <1>7, <1>8
  <1>9. CASE w.kept = Append(k, again) /\ UNCHANGED <<place, holder>>
    <2>1. Of(w.kept) = Of(k) \cup {next.item} /\ Once(w.kept)
      <3>1. Of(Append(k, again)) = Of(k) \cup ({again.item} \cap Payloads) /\ Once(Append(k, again))
        BY <1>2, <1>3, <1>4, <1>7, OfMore
      <3> QED
        BY <1>3, <1>5, <1>9, <3>1
    <2> QED
      BY <1>1, <1>4, <1>5, <1>6, <1>7, <1>9, <2>1
  <1> QED
    BY <1>1, <1>8, <1>9 DEF Retried

\* A retry of a failed payload keeps the types.
LEMMA TypeRetryNext ==
    ASSUME TypeInv, NEW f \in Flushers, RetryNext(f)
    PROVE  TypeInv'
  <1> USE DEF TypeInv
  <1>1. PICK next, again, w : Retried(f, next, again, w)
    BY RetryNextIs
  <1>2. PICK p : p = next.item
    OBVIOUS
  <1>3. /\ p \in Payloads /\ place[p] = "taken" /\ holder[p] = Task("retry", f)
        /\ Once(w.left) /\ Once(w.kept) /\ Of(w.left) \cap Of(w.kept) = {}
        /\ Of(w.left) \subseteq Of(flush[f].left)
        /\ \/ w.kept = flush[f].kept /\ p \notin Of(w.left) \cup Of(w.kept)
           \/ Of(w.kept) = Of(flush[f].kept) \cup {p} /\ UNCHANGED <<place, holder>>
    BY <1>1, <1>2, RetriedHeld
  <1>4. /\ w \in Flushes /\ w.stage = "retry" /\ flush[f].stage = "retry"
        /\ flush' \in [Flushers -> Flushes] /\ flush'[f] = w
        /\ \A g \in Flushers : g # f => flush'[g] = flush[g]
        /\ UNCHANGED <<sessionVars, telemetryVars, metricVars, delivered, under, failed, during,
                       loop, beating, entryVars, report, lost>>
    BY <1>1 DEF Retried
  <1>5. /\ \/ UNCHANGED <<place, holder>>
           \/ /\ place' = [place EXCEPT ![p] = "out"]
              /\ holder' = [holder EXCEPT ![p] = Nobody]
           \/ /\ place' = [place EXCEPT ![p] = "sending"]
              /\ UNCHANGED holder
        /\ dropped' = dropped \/ dropped' = dropped \cup {p}
    BY <1>1, <1>2 DEF Retried
  <1>6. /\ \A q \in Payloads : q # p => place'[q] = place[q] /\ holder'[q] = holder[q]
        /\ place'[p] \in {"taken", "out", "sending"}
    BY <1>3, <1>5 DEF PlaceOK
  <1>7. PlaceOK'
    <2>1. under[p] = NoSlot /\ holder[p] # Nobody
      BY <1>3 DEF PlaceOK
    <2>2. place' \in [Payloads -> Places] /\ holder' \in [Payloads -> Tasks \cup {Nobody}]
      BY <1>5 DEF PlaceOK, Places
    <2>3. (holder'[p] # Nobody) <=> (place'[p] \in {"taken", "sending"})
      BY <1>3, <1>5, <2>1 DEF PlaceOK
    <2>4. \A q \in Payloads : (holder'[q] # Nobody) <=> (place'[q] \in {"taken", "sending"})
      BY <1>6, <2>3 DEF PlaceOK
    <2>5. \A q \in Payloads : (under'[q] # NoSlot) <=> (place'[q] = "buffer")
      BY <1>4, <1>6, <2>1 DEF PlaceOK
    <2> QED
      BY <1>4, <2>2, <2>4, <2>5 DEF PlaceOK
  <1>8. FlushOK'
    BY <1>4 DEF FlushOK, Visiting
  <1>9. FailedInv'
    <2>1. /\ failed \in Seq(FailedItems) /\ Once(failed)
          /\ \A q \in Payloads : place[q] = "failed" <=> q \in Of(failed)
          /\ \A g \in Flushers : HeldBy(flush[g], Task("retry", g), place, holder)
      BY DEF FailedInv, FailedAre
    <2>2. failed' = failed
      BY <1>4
    <2>3. \A q \in Payloads : place'[q] = "failed" <=> q \in Of(failed')
      BY <1>3, <1>6, <2>1, <2>2
    <2>4. ASSUME NEW g \in Flushers PROVE HeldBy(flush'[g], Task("retry", g), place', holder')
      <3>1. \A q \in Of(flush[g].left) \cup Of(flush[g].kept) :
               q \in Payloads /\ place[q] = "taken" /\ holder[q] = Task("retry", g)
        BY <2>1 DEF HeldBy, Of
      <3>2. CASE g = f
        <4>1. \A q \in Of(w.left) \cup Of(w.kept) : place'[q] = "taken" /\ holder'[q] = Task("retry", f)
          <5>1. CASE w.kept = flush[f].kept /\ p \notin Of(w.left) \cup Of(w.kept)
            <6>1. ASSUME NEW q \in Of(w.left) \cup Of(w.kept)
                  PROVE  place'[q] = "taken" /\ holder'[q] = Task("retry", f)
              <7>1. q \in Of(flush[f].left) \cup Of(flush[f].kept) /\ q # p
                BY <1>3, <5>1, <6>1
              <7> QED
                BY <1>6, <3>1, <3>2, <7>1
            <6> QED
              BY <6>1
          <5>2. CASE Of(w.kept) = Of(flush[f].kept) \cup {p} /\ UNCHANGED <<place, holder>>
            <6>1. ASSUME NEW q \in Of(w.left) \cup Of(w.kept)
                  PROVE  place'[q] = "taken" /\ holder'[q] = Task("retry", f)
              <7>1. q \in Of(flush[f].left) \cup Of(flush[f].kept) \/ q = p
                BY <1>3, <5>2, <6>1
              <7> QED
                BY <1>3, <3>1, <3>2, <5>2, <7>1
            <6> QED
              BY <6>1
          <5> QED
            BY <1>3, <5>1, <5>2
        <4> QED
          BY <1>3, <1>4, <3>2, <4>1 DEF HeldBy
      <3>3. CASE g # f
        <4>1. \A q \in Of(flush[g].left) \cup Of(flush[g].kept) : q # p
          BY <1>3, <3>1, <3>3 DEF Task
        <4>2. \A q \in Of(flush[g].left) \cup Of(flush[g].kept) :
                 place'[q] = "taken" /\ holder'[q] = Task("retry", g)
          BY <1>6, <3>1, <4>1
        <4>3. HeldBy(flush[g], Task("retry", g), place, holder)
          BY <2>1
        <4> QED
          BY <1>4, <3>3, <4>2, <4>3 DEF HeldBy
      <3> QED
        BY <3>2, <3>3
    <2> QED
      BY <2>1, <2>2, <2>3, <2>4, FailedAfter DEF FailedAre
  <1>10. EntryOK'
    <2>1. \A q \in Payloads : place[q] # "away" => place'[q] # "away"
      BY <1>6
    <2> QED
      BY <1>4, <2>1, EntryShrinks DEF entryVars
  <1>11. SlotInv'
    <2>1. \A q \in Payloads : place'[q] = "buffer" => place[q] = "buffer" /\ under'[q] = under[q]
      BY <1>4, <1>6
    <2>2. \A g \in Flushers : Visiting(flush'[g]) => flush'[g] = flush[g]
      BY <1>4 DEF Visiting
    <2>3. \A q \in Payloads : place'[q] = "buffer" => under'[q].nth <= made'[under'[q].of]
      BY <1>4, <2>1 DEF SlotInv, entryVars
    <2>4. \A g \in Flushers : Visiting(flush'[g]) =>
             /\ Distinct(flush'[g].todo \cup {flush'[g].now})
             /\ flush'[g].now \notin flush'[g].todo
      BY <2>2 DEF SlotInv
    <2> QED
      BY <2>3, <2>4 DEF SlotInv, Distinct, Visiting
  <1>12. RetryOK(RetryIds)'
    <2>1. dropped' \in SUBSET (Items \cup Requests)
      BY <1>3, <1>5 DEF RetryOK, RetryTypeOK, Items
    <2> QED
      BY <1>4, <2>1 DEF RetryOK, RetryTypeOK, telemetryVars, metricVars
  <1>13. SessionTypeOK' /\ RestOK'
    BY <1>4, SessionSame, RestSame DEF sessionVars
  <1> QED
    BY <1>7, <1>8, <1>9, <1>10, <1>11, <1>12, <1>13

\* What a flush kept goes back.
LEMMA TypeRetryOver ==
    ASSUME TypeInv, NEW f \in Flushers, RetryOver(f)
    PROVE  /\ TypeInv'
           /\ \A p \in Payloads : place'[p] = "out" <=> place[p] = "out"
  <1> USE DEF TypeInv
  <1>1. PICK k : k = flush[f].kept
    OBVIOUS
  <1>2. PICK kept : kept = {k[i].item : i \in DOMAIN k}
    OBVIOUS
  <1>3. /\ flush[f].stage = "retry" /\ failed' = k \o failed
        /\ place' = [p \in Payloads |-> IF p \in kept THEN "failed" ELSE place[p]]
        /\ holder' = [p \in Payloads |-> IF p \in kept THEN Nobody ELSE holder[p]]
        /\ flush' = [flush EXCEPT ![f] = At("live")]
        /\ UNCHANGED <<sessionVars, retryVars, under, during, restOfFlush>>
    BY <1>1, <1>2 DEF RetryOver
  <1>4. /\ k \in Seq(FailedItems)
        /\ failed \in Seq(FailedItems) /\ Once(failed)
        /\ \A p \in Payloads : place[p] = "failed" <=> p \in Of(failed)
        /\ Once(k) /\ \A p \in Of(k) : place[p] = "taken" /\ holder[p] = Task("retry", f)
    <2>1. k \in Seq(FailedItems)
      BY <1>1 DEF FlushOK, Flushes
    <2> QED
      BY <1>1, <2>1 DEF FailedInv, FailedAre, HeldBy
  <1>5. kept = Of(k) /\ kept \subseteq Payloads
    <2>1. kept = Of(k)
      BY <1>2, <1>4, OfItems
    <2> QED
      BY <2>1 DEF Of
  <1>6. \A p \in kept : place[p] = "taken" /\ holder[p] = Task("retry", f) /\ under[p] = NoSlot
    BY <1>4, <1>5 DEF PlaceOK
  <1>7. /\ FlushOK' /\ flush'[f].left = <<>> /\ flush'[f].kept = <<>>
        /\ \A g \in Flushers : g # f => flush'[g] = flush[g]
        /\ SlotInv'
    <2>1. UNCHANGED made /\ \A p \in Payloads : place'[p] = "buffer" =>
                                    place[p] = "buffer" /\ under'[p] = under[p]
      BY <1>3 DEF restOfFlush, entryVars
    <2>2. "live" \in Stages \ {"pending", "posting"}
      BY DEF Stages
    <2> QED
      BY <1>3, <2>1, <2>2, NewStage
  <1>8. PlaceOK'
    <2>1. place' \in [Payloads -> Places] /\ holder' \in [Payloads -> Tasks \cup {Nobody}]
      BY <1>3 DEF PlaceOK, Places
    <2>2. \A p \in Payloads : (holder'[p] # Nobody) <=> (place'[p] \in {"taken", "sending"})
      BY <1>3 DEF PlaceOK
    <2>3. \A p \in Payloads : (under'[p] # NoSlot) <=> (place'[p] = "buffer")
      BY <1>3, <1>6 DEF PlaceOK
    <2> QED
      BY <1>3, <2>1, <2>2, <2>3 DEF PlaceOK
  <1>9. FailedInv'
    <2>1. Of(k) \cap Of(failed) = {}
      <3>1. ASSUME NEW p \in Of(k), p \in Of(failed) PROVE FALSE
        <4>1. p \in Payloads /\ place[p] = "taken" /\ place[p] = "failed"
          BY <1>4, <3>1 DEF Of
        <4> QED
          BY <4>1
      <3> QED
        BY <3>1
    <2>2. PICK q : q = failed'
      OBVIOUS
    <2>3. q \in Seq(FailedItems) /\ Once(q) /\ Of(q) = Of(k) \cup Of(failed)
      BY <1>3, <1>4, <2>1, <2>2, OfConcat
    <2>4. \A p \in Payloads : place'[p] = "failed" <=> p \in Of(q)
      BY <1>3, <1>4, <1>5, <2>3
    <2>5. ASSUME NEW g \in Flushers PROVE HeldBy(flush'[g], Task("retry", g), place', holder')
      <3>1. CASE g = f
        BY <1>7, <3>1, HoldsNothing
      <3>2. CASE g # f
        <4>1. HeldBy(flush[g], Task("retry", g), place, holder)
          BY DEF FailedInv, FailedAre
        <4>2. \A p \in Of(flush[g].left) \cup Of(flush[g].kept) :
                 p \in Payloads /\ place[p] = "taken" /\ holder[p] = Task("retry", g)
          BY <4>1 DEF HeldBy, Of
        <4>3. \A p \in Of(flush[g].left) \cup Of(flush[g].kept) : p \notin kept
          BY <1>6, <3>2, <4>2 DEF Task
        <4>4. \A p \in Of(flush[g].left) \cup Of(flush[g].kept) :
                 place'[p] = "taken" /\ holder'[p] = Task("retry", g)
          BY <1>3, <4>2, <4>3
        <4> QED
          BY <1>7, <3>2, <4>1, <4>4 DEF HeldBy
      <3> QED
        BY <3>1, <3>2
    <2> QED
      BY <2>2, <2>3, <2>4, <2>5, FailedAfter DEF FailedAre
  <1>10. EntryOK'
    <2>1. \A p \in Payloads : place[p] # "away" => place'[p] # "away"
      BY <1>3
    <2> QED
      BY <1>3, <2>1, EntryShrinks DEF restOfFlush, entryVars
  <1>11. SessionTypeOK' /\ RetryOK(RetryIds)' /\ RestOK'
    BY <1>3, SessionSame, RetrySame, RestSame DEF sessionVars, restOfFlush
  <1>12. \A p \in Payloads : place'[p] = "out" <=> place[p] = "out"
    BY <1>3, <1>6
  <1> QED
    BY <1>7, <1>8, <1>9, <1>10, <1>11, <1>12

\* The heartbeat and the loop end.
LEMMA TypeEnds ==
    ASSUME TypeInv, HeartbeatStops \/ Joined \/ Terminated
    PROVE  TypeInv'
  <1> USE DEF TypeInv
  <1>1. /\ UNCHANGED <<sessionVars, retryVars, entryVars, payloadVars, flush, report, during, lost>>
        /\ loop' \in {"next", "drain", "join", "exited"} /\ beating' \in BOOLEAN
    BY DEF HeartbeatStops, Joined, Terminated, RestOK, vars
  <1>2. RestOK'
    BY <1>1 DEF RestOK
  <1>3. FailedInv'
    <2>1. FailedStay
      BY <1>1 DEF FailedStay, payloadVars
    <2> QED
      BY <2>1, FailedSame
  <1>4. EntryOK'
    BY <1>1, EntryShrinks DEF entryVars, payloadVars
  <1>5. SlotInv'
    BY <1>1, SlotSame DEF entryVars, payloadVars
  <1> QED
    BY <1>1, <1>2, <1>3, <1>4, <1>5, SessionSame, RetrySame, PlaceSame, FlushSame
       DEF sessionVars, payloadVars

\* No step.
LEMMA TypeStutter == TypeInv /\ UNCHANGED vars => TypeInv'
  <1> SUFFICES ASSUME TypeInv, UNCHANGED vars PROVE TypeInv'
    OBVIOUS
  <1>1. RestOK' /\ PlaceOK' /\ FlushOK' /\ FailedInv' /\ EntryOK' /\ SlotInv'
    BY LmiSame DEF vars, LmiVars, TypeInv
  <1> QED
    BY <1>1, SessionSame, RetrySame DEF vars, sessionVars, TypeInv

\* A flush changes nothing of another one, and has begun.
LEMMA FlushFrame ==
    ASSUME TypeInv, NEW f \in Flushers, FlushStep(f)
    PROVE  /\ flush[f].stage # "idle" /\ \A g \in Flushers : g # f => flush'[g] = flush[g]
           /\ loop' \in {loop, "join"}
  <1>0. flush \in [Flushers -> Flushes]
    BY DEF TypeInv, FlushOK
  <1>1. ASSUME NEW todo, NEW finished, Visit(f, todo, finished)
        PROVE  \A g \in Flushers : g # f => flush'[g] = flush[g]
    <2>1. \E w : flush' = [flush EXCEPT ![f] = w]
      BY <1>1 DEF Visit
    <2> QED
      BY <1>0, <2>1
  <1>2. CASE PendSent(f)
    BY <1>0, <1>1, <1>2 DEF PendSent
  <1>3. CASE \E a \in Outcomes : PendPosted(f, a)
    BY <1>1, <1>3 DEF PendPosted
  <1>4. CASE Invalidate(f) \/ RetryOver(f) \/ TelemetryDone(f) \/ FlushOver(f)
    BY <1>0, <1>4 DEF Invalidate, RetryOver, TelemetryDone, FlushOver, restOfFlush
  <1>5. CASE Check(f) \/ RetryLive(f)
    <2>1. \E w : flush' = [flush EXCEPT ![f] = w]
      BY <1>5 DEF Check, RetryLive, RetryTelemetry
    <2>2. flush[f].stage \in {"check", "live"} /\ loop' = loop
      BY <1>5 DEF Check, RetryLive, restOfFlush
    <2> QED
      BY <1>0, <2>1, <2>2
  <1>6. CASE RetryNext(f)
    <2>1. \E next, again, w : Retried(f, next, again, w)
      BY <1>6, RetryNextIs DEF TypeInv
    <2> QED
      BY <2>1 DEF Retried
  <1> QED
    BY <1>2, <1>3, <1>4, <1>5, <1>6 DEF FlushStep

\* See DrainInv.
LEMMA DrainStays == TypeInv /\ DrainInv /\ [Next]_vars => DrainInv'
  <1> SUFFICES ASSUME TypeInv, DrainInv, [Next]_vars, loop' = "next" PROVE flush'[Drain].stage = "idle"
    BY DEF DrainInv
  <1>1. Drain \in Flushers /\ Heartbeat \in Flushers /\ Drain # Heartbeat
    BY RetryAssumption DEF Flushers, Drain, Heartbeat
  <1>2. CASE UNCHANGED <<loop, flush>>
    BY <1>2 DEF DrainInv
  <1>3. CASE \E p \in Payloads :
                route_payload_by_embedded_request_id(p) \/ StartSend(p) \/ Sends(p)
    BY <1>2, <1>3 DEF route_payload_by_embedded_request_id, restOfListener, StartSend, Sends, FinishSend
  <1>4. CASE \E r \in Requests : PlatformStart(r) \/ PlatformReport(r) \/ ReportStep(r)
    BY <1>2, <1>4 DEF PlatformStart, PlatformReport, ReportStep, ReportDrained, ReportDone, ReportPosted,
           restOfListener
  <1>5. CASE \E f \in Flushers : FlushStep(f)
    <2>1. PICK f \in Flushers : FlushStep(f)
      BY <1>5
    <2>2. /\ flush[f].stage # "idle" /\ \A g \in Flushers : g # f => flush'[g] = flush[g]
          /\ loop' \in {loop, "join"}
      BY <2>1, FlushFrame
    <2>3. loop = "next" /\ flush[Drain].stage = "idle"
      BY <2>2 DEF DrainInv
    <2> QED
      BY <1>1, <2>2, <2>3
  <1>6. CASE Tick
    <2>1. loop' = loop /\ \E w : flush' = [flush EXCEPT ![Heartbeat] = w]
      BY <1>6 DEF Tick, FlushStart, Visit
    <2> QED
      BY <1>1, <2>1 DEF TypeInv, FlushOK, DrainInv
  <1>7. CASE HeartbeatStops \/ Shutdown \/ Joined \/ Terminated
    BY <1>2, <1>7 DEF HeartbeatStops, Shutdown, Joined, Terminated, vars
  <1>8. CASE \/ TelemetryRetried \/ MetricRetried \/ SessionEnds
             \/ \E h \in Handshakes : HandshakeEnds(h) \/ SessionInstalled(h)
    BY <1>2, <1>8 DEF TelemetryRetried, MetricRetried, SessionEnds, HandshakeEnds, SessionInstalled,
           restOfSession, restOfRetries
  <1>9. CASE UNCHANGED vars
    BY <1>2, <1>9 DEF vars
  <1> QED
    BY <1>3, <1>4, <1>5, <1>6, <1>7, <1>8, <1>9 DEF Next

\* Every step keeps the types.
LEMMA TypeStep == TypeInv /\ DrainInv /\ [Next]_vars => TypeInv'
  <1> SUFFICES ASSUME TypeInv, DrainInv, [Next]_vars PROVE TypeInv'
    OBVIOUS
  <1>1. CASE \/ \E p \in Payloads : route_payload_by_embedded_request_id(p)
             \/ \E r \in Requests : PlatformStart(r) \/ PlatformReport(r)
    BY <1>1, TypeListener
  <1>2. CASE \E p \in Payloads : StartSend(p) \/ Sends(p)
    BY <1>2, TypeSends
  <1>3. CASE \E r \in Requests : ReportStep(r)
    BY <1>3, TypeReports
  <1>4. CASE \E f \in Flushers : FlushStep(f)
    <2>1. PICK f \in Flushers : FlushStep(f)
      BY <1>4
    <2>2. CASE PendSent(f) \/ \E a \in Outcomes : PendPosted(f, a)
      BY <2>2, TypeVisits
    <2>3. CASE Invalidate(f) \/ RetryLive(f) \/ TelemetryDone(f) \/ FlushOver(f)
      BY <2>3, TypeStages
    <2>4. CASE Check(f)
      BY <2>4, TypeCheck
    <2>5. CASE RetryNext(f)
      BY <2>5, TypeRetryNext
    <2>6. CASE RetryOver(f)
      BY <2>6, TypeRetryOver
    <2> QED
      BY <2>1, <2>2, <2>3, <2>4, <2>5, <2>6 DEF FlushStep
  <1>5. CASE Tick \/ Shutdown
    BY <1>5, TypeVisits
  <1>6. CASE HeartbeatStops \/ Joined \/ Terminated
    BY <1>6, TypeEnds
  <1>7. CASE \/ TelemetryRetried \/ MetricRetried \/ SessionEnds
             \/ \E h \in Handshakes : HandshakeEnds(h) \/ SessionInstalled(h)
    BY <1>7, TypeRetries
  <1>8. CASE UNCHANGED vars
    BY <1>8, TypeStutter
  <1> QED
    BY <1>1, <1>2, <1>3, <1>4, <1>5, <1>6, <1>7, <1>8 DEF Next

\* The variables keep their types, in every behaviour; a retry has something left to
\* send, and a payload that failed is in one sequence of failed payloads, and once.
THEOREM TypeAlways == Spec => [](TypeInv /\ DrainInv)
  <1>1. Init => TypeInv /\ DrainInv
    <2>1. Idling.stage = "idle" /\ Drain \in Flushers
      BY DEF Idling, Flushers
    <2>2. Init => DrainInv
      BY <2>1 DEF Init, DrainInv
    <2> QED
      BY <2>2, TypeInit
  <1>2. TypeInv /\ DrainInv /\ [Next]_vars => (TypeInv /\ DrainInv)'
    BY TypeStep, DrainStays
  <1> QED
    BY <1>1, <1>2, PTL DEF Spec

\* The variables keep their types, in every behaviour.
THEOREM TypeCorrect == Spec => []TypeOK
  <1> QED
    BY TypeAlways, TypeInvIsMore, PTL

-----------------------------------------------------------------------------
(* One copy of every payload.                                              *)

\* A payload is out when it was sent or lost, never both; what was sent is in one place.
OutInv ==
    /\ CopyInv
    /\ Sent \cap lost = {}
    /\ \A p \in Payloads : place[p] = "out" <=> p \in Sent \cup lost

\* Nothing is sent or lost.
LEMMA Kept ==
    ASSUME OutInv, CopyInv', Sent' = Sent, Payloads \cap lost' = Payloads \cap lost,
           \A p \in Payloads : place'[p] = "out" <=> place[p] = "out"
    PROVE  OutInv'
  BY PayloadsOnly DEF OutInv

\* The payloads of G are sent, those of L are lost.
LEMMA Leaves ==
    ASSUME OutInv, CopyInv', NEW G \in SUBSET Payloads, NEW L \in SUBSET Payloads,
           G \cap L = {}, Sent' = Sent \cup G, Payloads \cap lost' = Payloads \cap (lost \cup L),
           \A p \in G \cup L : place[p] # "out",
           \A p \in Payloads : place'[p] = "out" <=> place[p] = "out" \/ p \in G \cup L
    PROVE  OutInv'
  BY PayloadsOnly DEF OutInv

\* The initial states.
LEMMA OutInit == Init => OutInv
  <1> SUFFICES ASSUME Init PROVE OutInv
    OBVIOUS
  <1>1. telemetry = <<>> /\ telemetryRetries = {} /\ delivered = {} /\ dropped = {}
    BY DEF Init, RetryInit
  <1>2. CopyInv /\ Sent = {}
    BY <1>1, OfEmpty, InRetriesIs DEF CopyInv, Apart, Sent, Everywhere
  <1> QED
    BY <1>2 DEF Init, OutInv

\* One lemma per group of actions, as for the types.  No payload leaves its place.
LEMMA OutRetries ==
    ASSUME TypeInv, OutInv,
           \/ TelemetryRetried \/ MetricRetried \/ SessionEnds
           \/ HeartbeatStops \/ Joined \/ Terminated \/ UNCHANGED vars
           \/ \E h \in Handshakes : HandshakeEnds(h) \/ SessionInstalled(h)
    PROVE  OutInv'
  <1>1. UNCHANGED <<place, lost>>
    BY DEF TelemetryRetried, MetricRetried, SessionEnds, HandshakeEnds, SessionInstalled,
           HeartbeatStops, Joined, Terminated, vars, restOfSession, restOfRetries, payloadVars
  <1>2. CopyInv' /\ Sent' = Sent
    <2>1. CASE \/ SessionEnds \/ HeartbeatStops \/ Joined \/ Terminated \/ UNCHANGED vars
               \/ \E h \in Handshakes : HandshakeEnds(h) \/ SessionInstalled(h)
      <3>1. UNCHANGED retryVars
        BY <2>1 DEF SessionEnds, HandshakeEnds, SessionInstalled, HeartbeatStops, Joined,
                    Terminated, vars, restOfSession
      <3> QED
        BY <3>1, SentSame DEF OutInv, retryVars
    <2>2. CASE TelemetryRetried
      <3>1. PICK a : \E t \in telemetryRetries : TelemetryRetry(t, a)
        BY <2>2 DEF TelemetryRetried
      <3> QED
        BY <3>1, RetryCopies DEF OutInv, TypeInv
    <2>3. CASE MetricRetried
      <3>1. PICK a : \E t \in metricRetries : MetricRetry(t, a)
        BY <2>3 DEF MetricRetried
      <3> QED
        BY <3>1, RetryCopies DEF OutInv, TypeInv
    <2> QED
      BY <2>1, <2>2, <2>3
  <1> QED
    BY <1>1, <1>2, Kept

\* See OutRetries.
LEMMA OutListener ==
    ASSUME TypeInv, OutInv,
           \/ \E p \in Payloads : route_payload_by_embedded_request_id(p)
           \/ \E r \in Requests : PlatformStart(r) \/ PlatformReport(r)
    PROVE  OutInv'
  <1>1. UNCHANGED retryVars
    BY DEF route_payload_by_embedded_request_id, PlatformStart, PlatformReport, restOfListener
  <1>2. CopyInv' /\ Sent' = Sent
    BY <1>1, SentSame DEF OutInv, retryVars
  <1>3. Payloads \cap lost' = Payloads \cap lost
    <2>1. lost' = lost \/ \E r \in Requests : lost' = lost \cup {r}
      BY DEF route_payload_by_embedded_request_id, PlatformStart, PlatformReport, restOfListener
    <2> QED
      BY <2>1, PayloadsOnly
  <1>4. \A p \in Payloads : place'[p] = "out" <=> place[p] = "out"
    <2>1. ASSUME NEW p \in Payloads, route_payload_by_embedded_request_id(p)
          PROVE  \A q \in Payloads : place'[q] = "out" <=> place[q] = "out"
      <3>1. place[p] = "away" /\ UNCHANGED <<started, flush>>
        BY <2>1 DEF route_payload_by_embedded_request_id, restOfListener
      <3>2. CASE p \in Harvest
        BY <2>1, <3>1, <3>2 DEF route_payload_by_embedded_request_id, TypeInv, PlaceOK
      <3>3. CASE p \notin Harvest
        <4>1. PICK r \in Requests : EnsureSlot(r, {p})
          BY <2>1, <3>3 DEF route_payload_by_embedded_request_id
        <4> QED
          BY <3>1, <4>1, EnsureSlotTypes DEF TypeInv
      <3> QED
        BY <3>2, <3>3
    <2>2. ASSUME NEW r \in Requests, PlatformStart(r)
          PROVE  \A q \in Payloads : place'[q] = "out" <=> place[q] = "out"
      <3>1. /\ r \notin started /\ started' = started \cup {r} /\ EnsureSlot(r, {})
            /\ UNCHANGED flush
        BY <2>2 DEF PlatformStart, restOfListener
      <3> QED
        BY <3>1, EnsureSlotTypes DEF TypeInv
    <2>3. ASSUME NEW r \in Requests, PlatformReport(r)
          PROVE  \A q \in Payloads : place'[q] = "out" <=> place[q] = "out"
      BY <2>3 DEF PlatformReport, payloadVars
    <2> QED
      BY <2>1, <2>2, <2>3
  <1> QED
    BY <1>2, <1>3, <1>4, Kept

\* See OutRetries.
LEMMA OutReports ==
    ASSUME TypeInv, OutInv, \E r \in Requests : ReportStep(r)
    PROVE  OutInv'
  <1>1. PICK r \in Requests : ReportStep(r)
    OBVIOUS
  <1>2. CASE ReportDrained(r)
    <2>1. SpawnTelemetryRetry(r) /\ UNCHANGED <<delivered, dropped, place, lost>>
      BY <1>2 DEF ReportDrained, payloadVars
    <2>2. CopyInv' /\ Sent' = Sent
      BY <2>1, SpawnCopies DEF OutInv
    <2> QED
      BY <2>1, <2>2, Kept
  <1>3. CASE ReportDone(r)
    <2>1. UNCHANGED <<retryVars, place, lost>>
      BY <1>3 DEF ReportDone, payloadVars
    <2> QED
      BY <2>1, SentSame, Kept DEF OutInv, retryVars
  <1>4. ASSUME NEW a \in Outcomes, ReportPosted(r, a)
        PROVE  OutInv'
    <2>1. Metric(r, a) /\ UNCHANGED <<telemetryVars, lost>>
      BY <1>4 DEF ReportPosted
    <2>2. CopyInv' /\ Sent' = Sent
      BY <2>1, MetricCopies DEF OutInv, TypeInv
    <2>3. PICK S, t : Leave({}, S, t) /\ \A p \in S : place[p] = "buffer"
      <3>1. PICK S : S = IF r \in entry THEN buffer(SlotOf(r)) ELSE {}
        OBVIOUS
      <3>2. Leave({}, S, Task("report", r)) /\ \A p \in S : place[p] = "buffer"
        BY <1>4, <3>1 DEF ReportPosted, buffer
      <3> QED
        BY <3>2
    <2>4. \A p \in Payloads : place'[p] = "out" <=> place[p] = "out"
      BY <2>3 DEF Leave
    <2> QED
      BY <2>1, <2>2, <2>4, Kept
  <1> QED
    BY <1>1, <1>2, <1>3, <1>4 DEF ReportStep

\* See OutRetries.
LEMMA OutSends ==
    ASSUME TypeInv, OutInv, \E p \in Payloads : StartSend(p) \/ Sends(p)
    PROVE  OutInv'
  <1>1. PICK p \in Payloads : StartSend(p) \/ Sends(p)
    OBVIOUS
  <1>2. place \in [Payloads -> Places] /\ RetryOK(RetryIds) /\ CopyInv
    BY DEF TypeInv, PlaceOK, OutInv
  <1>3. PICK none : none = {}
    OBVIOUS
  <1>4. CASE StartSend(p)
    <2>1. /\ UNCHANGED <<telemetryVars, delivered, flush>> /\ place[p] = "taken"
          /\ holder[p].kind \in {"pending", "report"}
      BY <1>4 DEF StartSend
    <2>2. CASE NotSent(p) /\ holder[p].kind = "report"
      <3>1. /\ place' = [place EXCEPT ![p] = "out"] /\ lost' = lost \cup {p} /\ dropped' = dropped
        BY <2>2 DEF NotSent
      <3>2. CopyInv' /\ Sent' = Sent
        BY <1>2, <2>1, <3>1, SentSame
      <3>3. \A q \in Payloads : place'[q] = "out" <=> place[q] = "out" \/ q \in none \cup {p}
        BY <1>2, <1>3, <2>1, <3>1
      <3>4. Sent' = Sent \cup none /\ \A q \in none \cup {p} : place[q] # "out"
        BY <1>3, <2>1, <3>2
      <3>5. none \in SUBSET Payloads /\ {p} \in SUBSET Payloads /\ none \cap {p} = {}
        BY <1>3
      <3> QED
        BY <3>1, <3>2, <3>3, <3>4, <3>5, Leaves
    <2>3. CASE NotSent(p) /\ holder[p].kind # "report"
      <3>0. PICK E : E = {e.item : e \in Evicted(failed, PayloadMax)}
        OBVIOUS
      <3>1. /\ failed' = PushCapped(failed, [item |-> p, tried |-> 0], PayloadMax)
            /\ holder' = [holder EXCEPT ![p] = Nobody]
            /\ lost' = lost /\ dropped' = dropped \cup E
            /\ place' = [q \in Payloads |-> IF q = p THEN "failed"
                                            ELSE IF q \in E THEN "out" ELSE place[q]]
        BY <2>3, <3>0 DEF NotSent
      <3>2. E \in SUBSET Payloads /\ \A q \in E : place[q] = "failed"
        BY <2>1, <3>0, <3>1, NotSentFails, ZenonT(30) DEF TypeInv
      <3>3. E \cap Sent = {}
        BY <3>2 DEF OutInv
      <3>4. GivesUp(E)
        BY <2>1, <3>1, <3>3 DEF GivesUp
      <3>5. CopyInv' /\ Sent' = Sent \cup E
        BY <1>2, <3>2, <3>4, OtherCopies
      <3>6. \A q \in Payloads : place'[q] = "out" <=> place[q] = "out" \/ q \in E \cup none
        BY <1>3, <2>1, <3>1, <3>2
      <3>7. lost' = lost \cup none /\ E \cap none = {} /\ none \in SUBSET Payloads
            /\ \A q \in E \cup none : place[q] # "out"
        BY <1>3, <3>1, <3>2
      <3> QED
        BY <3>2, <3>5, <3>6, <3>7, Leaves
    <2>4. CASE ~NotSent(p)
      <3>1. place' = [place EXCEPT ![p] = "sending"] /\ UNCHANGED <<dropped, lost>>
        BY <1>4, <2>4 DEF StartSend
      <3>2. CopyInv' /\ Sent' = Sent
        BY <1>2, <2>1, <3>1, SentSame
      <3>3. \A q \in Payloads : place'[q] = "out" <=> place[q] = "out"
        BY <1>2, <2>1, <3>1
      <3> QED
        BY <3>1, <3>2, <3>3, Kept
    <2> QED
      BY <2>2, <2>3, <2>4
  <1>5. CASE Sends(p)
    <2>1. PICK a \in AnyAnswer : FinishSend(p, a)
      BY <1>5 DEF Sends
    <2>2. /\ Telemetry(p, app, a) /\ UNCHANGED <<telemetryRetries, lost>>
          /\ place[p] = "sending" /\ place' = [place EXCEPT ![p] = "out"]
      BY <2>1 DEF FinishSend
    <2>3. p \in Items /\ app \in 0..MaxRuns /\ {p} \in SUBSET Payloads
      BY DEF TypeInv, SessionTypeOK, Items
    <2>4. p \notin Sent
      BY <2>2, <2>3 DEF OutInv
    <2>5. CopyInv' /\ Sent' = Sent \cup {p}
      <3>1. CopyInv' /\ Sent' = Sent \cup ({p} \cap Payloads)
        BY <1>2, <2>2, <2>3, <2>4, TelemetryCopies
      <3> QED
        BY <3>1
    <2>6. \A q \in Payloads : place'[q] = "out" <=> place[q] = "out" \/ q \in {p} \cup none
      BY <1>2, <1>3, <2>2
    <2>7. lost' = lost \cup none /\ {p} \cap none = {} /\ none \in SUBSET Payloads
          /\ \A q \in {p} \cup none : place[q] # "out"
      BY <1>3, <2>2
    <2> QED
      BY <2>3, <2>5, <2>6, <2>7, Leaves
  <1> QED
    BY <1>1, <1>4, <1>5

\* The entry a visit stops at is none of those it cleans up.
LEMMA VisitApart ==
    ASSUME NEW f, NEW todo \in SUBSET Slots, NEW finished, NEW skip, NEW gone, NEW taken, NEW t,
           Distinct(todo), \A s \in todo : s.of \notin finished,
           Visited(f, todo, finished, skip, gone), Moved(f, todo, skip, gone, taken, t)
    PROVE  gone \cap taken = {}
  <1>1. SUFFICES ASSUME NEW p \in gone, p \in taken PROVE FALSE
    OBVIOUS
  <1>2. flush'[f].stage = "pending" /\ taken = buffer(flush'[f].now) /\ flush'[f].now \in todo \ skip
    BY <1>1 DEF Moved
  <1>3. PICK s : s = flush'[f].now
    OBVIOUS
  <1>4. under[p] = s /\ s \in todo /\ s \notin skip
    BY <1>1, <1>2, <1>3 DEF buffer
  <1>5. under[p].of \in finished \cup Ofs(skip)
    BY <1>1 DEF Visited
  <1>6. PICK x \in skip : x.of = s.of
    BY <1>4, <1>5 DEF Ofs
  <1>7. x \in todo
    BY <1>6 DEF Visited
  <1> QED
    BY <1>4, <1>6, <1>7 DEF Distinct

\* What a visit loses is out, and that is all that is.
LEMMA OutVisit ==
    ASSUME TypeInv, OutInv, NEW f \in Flushers, NEW todo \in SUBSET Slots,
           NEW finished \in SUBSET Requests, Distinct(todo), \A s \in todo : s.of \notin finished,
           Visit(f, todo, finished), CopyInv', Sent' = Sent
    PROVE  OutInv'
  <1>1. PICK skip, gone : Visited(f, todo, finished, skip, gone)
    BY VisitIs DEF TypeInv
  <1>2. PICK taken, t : Moved(f, todo, skip, gone, taken, t)
    BY <1>1, VisitMoves DEF TypeInv
  <1>3. gone \cap taken = {}
    BY <1>1, <1>2, VisitApart
  <1>4. \A p \in gone \cup taken : p \in Payloads /\ place[p] = "buffer"
    BY <1>2 DEF Moved
  <1>5. place' = [p \in Payloads |-> IF p \in taken THEN "taken"
                                     ELSE IF p \in gone THEN "out" ELSE place[p]]
    BY <1>2 DEF Moved, Leave
  <1>6. \A p \in Payloads : place'[p] = "out" <=> place[p] = "out" \/ p \in {} \cup gone
    BY <1>3, <1>4, <1>5
  <1>7. Payloads \cap lost' = Payloads \cap (lost \cup gone) /\ gone \in SUBSET Payloads
    BY <1>1 DEF Visited
  <1>8. PICK none : none = {}
    OBVIOUS
  <1>9. /\ none \in SUBSET Payloads /\ none \cap gone = {} /\ Sent' = Sent \cup none
        /\ \A p \in none \cup gone : place[p] # "out"
        /\ \A p \in Payloads : place'[p] = "out" <=> place[p] = "out" \/ p \in none \cup gone
    BY <1>4, <1>6, <1>8
  <1> QED
    BY <1>7, <1>9, Leaves

\* See OutRetries.
LEMMA OutVisits ==
    ASSUME TypeInv, OutInv,
           \/ Tick \/ Shutdown
           \/ \E f \in Flushers : PendSent(f) \/ \E a \in Outcomes : PendPosted(f, a)
    PROVE  OutInv'
  <1>1. ASSUME NEW f \in Flushers, FlushStart(f), UNCHANGED retryVars
        PROVE  OutInv'
    <2>1. Visit(f, Listed, {}) /\ Listed \in SUBSET Slots /\ Distinct(Listed)
      BY <1>1, ListedTypes DEF FlushStart, TypeInv
    <2>2. CopyInv' /\ Sent' = Sent
      BY <1>1, SentSame DEF OutInv, retryVars
    <2>3. PICK none : none = {}
      OBVIOUS
    <2>4. Visit(f, Listed, none) /\ none \in SUBSET Requests /\ \A s \in Listed : s.of \notin none
      BY <2>1, <2>3
    <2> QED
      BY <2>1, <2>2, <2>4, OutVisit
  <1>2. Heartbeat \in Flushers /\ Drain \in Flushers
    BY DEF Flushers
  <1>3. CASE Tick \/ Shutdown
    BY <1>1, <1>2, <1>3 DEF Tick, Shutdown
  <1>4. ASSUME NEW f \in Flushers, Visit(f, flush[f].todo, {flush[f].now.of}), Visiting(flush[f]),
               CopyInv', Sent' = Sent
        PROVE  OutInv'
    <2>1. flush[f].todo \in SUBSET Slots /\ flush[f].now \in Slots
      BY <1>4 DEF TypeInv, FlushOK, Flushes
    <2>2. {flush[f].now.of} \in SUBSET Requests
      BY <2>1 DEF Slots
    <2>3. Distinct(flush[f].todo) /\ \A s \in flush[f].todo : s.of \notin {flush[f].now.of}
      BY <1>4 DEF TypeInv, SlotInv, Distinct
    <2> QED
      BY <1>4, <2>1, <2>2, <2>3, OutVisit
  <1>5. ASSUME NEW f \in Flushers, PendSent(f) PROVE OutInv'
    <2>1. UNCHANGED retryVars /\ Visiting(flush[f])
      BY <1>5 DEF PendSent, Visiting
    <2>2. CopyInv' /\ Sent' = Sent
      BY <2>1, SentSame DEF OutInv, retryVars
    <2>3. CASE Visit(f, flush[f].todo, {flush[f].now.of})
      BY <1>4, <2>1, <2>2, <2>3
    <2>4. CASE UNCHANGED <<place, lost>>
      BY <2>2, <2>4, Kept
    <2> QED
      BY <1>5, <2>3, <2>4 DEF PendSent, payloadVars
  <1>6. ASSUME NEW f \in Flushers, NEW a \in Outcomes, PendPosted(f, a) PROVE OutInv'
    <2>1. /\ Visiting(flush[f]) /\ Metric(flush[f].now.of, a) /\ UNCHANGED telemetryVars
          /\ Visit(f, flush[f].todo, {flush[f].now.of})
      BY <1>6 DEF PendPosted, Visiting
    <2>2. flush[f].now.of \in Requests
      BY <2>1 DEF TypeInv, FlushOK, Slots
    <2>3. CopyInv' /\ Sent' = Sent
      BY <2>1, <2>2, MetricCopies DEF OutInv, TypeInv
    <2> QED
      BY <1>4, <2>1, <2>3
  <1> QED
    BY <1>3, <1>5, <1>6

\* See OutRetries.
LEMMA OutFlush ==
    ASSUME TypeInv, OutInv, NEW f \in Flushers,
           \/ Invalidate(f) \/ Check(f) \/ RetryNext(f) \/ RetryOver(f)
           \/ RetryLive(f) \/ TelemetryDone(f) \/ FlushOver(f)
    PROVE  OutInv'
  <1>1. CASE Invalidate(f) \/ RetryOver(f) \/ FlushOver(f)
    <2>1. UNCHANGED <<retryVars, lost>>
      BY <1>1 DEF Invalidate, RetryOver, FlushOver, restOfFlush
    <2>2. CopyInv' /\ Sent' = Sent
      BY <2>1, SentSame DEF OutInv, retryVars
    <2>3. \A p \in Payloads : place'[p] = "out" <=> place[p] = "out"
      <3>1. CASE RetryOver(f)
        BY <3>1, TypeRetryOver
      <3>2. CASE Invalidate(f) \/ FlushOver(f)
        BY <3>2 DEF Invalidate, FlushOver, payloadVars
      <3> QED
        BY <1>1, <3>1, <3>2
    <2> QED
      BY <2>1, <2>2, <2>3, Kept
  <1>2. CASE Check(f) \/ RetryLive(f) \/ TelemetryDone(f)
    <2>1. /\ UNCHANGED <<delivered, dropped, lost>>
          /\ SpawnTelemetryRetry(f) \/ UNCHANGED telemetryVars
      BY <1>2 DEF Check, RetryLive, TelemetryDone, RetryTelemetry, restOfFlush
    <2>2. CopyInv' /\ Sent' = Sent
      BY <2>1, SpawnCopies, SentSame DEF OutInv
    <2>3. \A p \in Payloads : place'[p] = "out" <=> place[p] = "out"
      <3>1. CASE UNCHANGED payloadVars
        BY <3>1 DEF payloadVars
      <3>2. CASE Check(f) /\ Leave({}, {failed[i].item : i \in DOMAIN failed}, Task("retry", f))
        <4>1. PICK taken : taken = {failed[i].item : i \in DOMAIN failed}
          OBVIOUS
        <4>2. \A p \in Payloads : place'[p] = IF p \in taken THEN "taken" ELSE place[p]
          BY <3>2, <4>1 DEF Leave
        <4>3. taken = Of(failed)
          BY <4>1, OfItems DEF TypeInv, FailedInv, FailedAre
        <4>4. \A p \in Payloads : p \in taken => place[p] = "failed"
          BY <4>3 DEF TypeInv, FailedInv, FailedAre
        <4> QED
          BY <4>2, <4>4
      <3> QED
        BY <1>2, <3>1, <3>2 DEF Check, RetryLive, TelemetryDone
    <2> QED
      BY <2>1, <2>2, <2>3, Kept
  <1>3. CASE RetryNext(f)
    <2>1. PICK next, again, w : Retried(f, next, again, w)
      BY <1>3, RetryNextIs DEF TypeInv
    <2>2. PICK p : p = next.item
      OBVIOUS
    <2>3. p \in Payloads /\ place[p] = "taken" /\ place \in [Payloads -> Places]
      BY <2>1, <2>2, RetriedHeld DEF TypeInv, PlaceOK
    <2>4. UNCHANGED <<telemetryVars, delivered, lost>>
      BY <2>1 DEF Retried
    <2>5. CASE place' = [place EXCEPT ![p] = "out"] /\ dropped' = dropped \cup {p}
      <3>1. {p} \cap Sent = {}
        BY <2>3 DEF OutInv
      <3>2. GivesUp({p})
        BY <2>4, <2>5, <3>1 DEF GivesUp
      <3>3. CopyInv' /\ Sent' = Sent \cup {p}
        <4>1. CopyInv' /\ Sent' = Sent \cup (Payloads \cap {p})
          BY <3>2, OtherCopies DEF OutInv
        <4> QED
          BY <2>3, <4>1
      <3>4. PICK none : none = {}
        OBVIOUS
      <3>5. /\ {p} \in SUBSET Payloads /\ none \in SUBSET Payloads /\ {p} \cap none = {}
            /\ Payloads \cap lost' = Payloads \cap (lost \cup none)
            /\ \A q \in {p} \cup none : place[q] # "out"
            /\ \A q \in Payloads : place'[q] = "out" <=> place[q] = "out" \/ q \in {p} \cup none
        BY <2>3, <2>4, <2>5, <3>4
      <3> QED
        BY <3>3, <3>5, Leaves
    <2>6. CASE (place' = place \/ place' = [place EXCEPT ![p] = "sending"]) /\ dropped' = dropped
      <3>1. CopyInv' /\ Sent' = Sent
        BY <2>4, <2>6, SentSame DEF OutInv
      <3>2. \A q \in Payloads : place'[q] = "out" <=> place[q] = "out"
        BY <2>3, <2>6
      <3> QED
        BY <2>4, <3>1, <3>2, Kept
    <2> QED
      BY <2>1, <2>2, <2>5, <2>6 DEF Retried
  <1> QED
    BY <1>1, <1>2, <1>3

\* Every step keeps it.
LEMMA OutStep == TypeInv /\ DrainInv /\ OutInv /\ [Next]_vars => OutInv'
  <1> SUFFICES ASSUME TypeInv, DrainInv, OutInv, [Next]_vars PROVE OutInv'
    OBVIOUS
  <1>1. CASE \/ \E p \in Payloads : route_payload_by_embedded_request_id(p)
             \/ \E r \in Requests : PlatformStart(r) \/ PlatformReport(r)
    BY <1>1, OutListener
  <1>2. CASE \E p \in Payloads : StartSend(p) \/ Sends(p)
    BY <1>2, OutSends
  <1>3. CASE \E r \in Requests : ReportStep(r)
    BY <1>3, OutReports
  <1>4. CASE \E f \in Flushers : FlushStep(f)
    <2>1. PICK f \in Flushers : FlushStep(f)
      BY <1>4
    <2>2. CASE PendSent(f) \/ \E a \in Outcomes : PendPosted(f, a)
      BY <2>2, OutVisits
    <2>3. CASE ~(PendSent(f) \/ \E a \in Outcomes : PendPosted(f, a))
      BY <2>1, <2>3, OutFlush DEF FlushStep
    <2> QED
      BY <2>2, <2>3
  <1>5. CASE Tick \/ Shutdown
    BY <1>5, OutVisits
  <1>6. CASE \/ TelemetryRetried \/ MetricRetried \/ SessionEnds
             \/ HeartbeatStops \/ Joined \/ Terminated \/ UNCHANGED vars
             \/ \E h \in Handshakes : HandshakeEnds(h) \/ SessionInstalled(h)
    BY <1>6, OutRetries
  <1> QED
    BY <1>1, <1>2, <1>3, <1>4, <1>5, <1>6 DEF Next

\* It always holds.
LEMMA OutAlways == Spec => [](TypeInv /\ OutInv)
  <1>1. Init => OutInv
    BY OutInit
  <1>2. TypeInv /\ DrainInv /\ OutInv /\ [Next]_vars => OutInv'
    BY OutStep
  <1> QED
    BY <1>1, <1>2, TypeAlways, PTL DEF Spec

\* A sequence of items, of telemetry or failed ones, has a payload once or never.
LEMMA TimesOf ==
    ASSUME NEW S, NEW q \in Seq(S), Once(q), NEW p \in Payloads
    PROVE  Times(p, q) = IF p \in Of(q) THEN 1 ELSE 0
  <1> DEFINE I == {i \in DOMAIN q : q[i].item = p}
  <1>1. DOMAIN q = 1..Len(q)
    OBVIOUS
  <1>2. I = {i \in 1..Len(q) : q[i].item = p}
    BY <1>1
  <1>3. Times(p, q) = Cardinality(I)
    BY Zenon DEF Times
  <1> HIDE DEF I
  <1>4. CASE p \in Of(q)
    <2>1. PICK i \in 1..Len(q) : q[i].item = p
      BY <1>4 DEF Of
    <2>2. I = {i}
      BY <1>2, <2>1, Zenon DEF Once
    <2> QED
      BY <1>3, <1>4, <2>2, FS_Singleton
  <1>5. CASE p \notin Of(q)
    <2>1. I = {}
      BY <1>2, <1>5, Zenon DEF Of
    <2> QED
      BY <1>3, <1>5, <2>1, FS_EmptySet
  <1> QED
    BY <1>4, <1>5

\* The invariants are OneCopy.
LEMMA OneCopyIs == TypeInv /\ OutInv => OneCopy
  <1> SUFFICES ASSUME TypeInv, OutInv PROVE OneCopy
    OBVIOUS
  <1> DEFINE Carrying(p) == {t \in telemetryRetries : Times(p, t.left) > 0}
             Ends(p) == {S \in {<<1, delivered>>, <<2, dropped>>, <<3, lost>>} : p \in S[2]}
  <1>1. ASSUME NEW p \in Payloads
        PROVE  Times(p, failed) = IF place[p] = "failed" THEN 1 ELSE 0
    <2>1. /\ failed \in Seq(FailedItems) /\ Once(failed)
          /\ place[p] = "failed" <=> p \in Of(failed)
      BY DEF TypeInv, FailedInv, FailedAre
    <2>2. Times(p, failed) = IF p \in Of(failed) THEN 1 ELSE 0
      BY <2>1, TimesOf
    <2> QED
      BY <2>1, <2>2
  <1>2. ASSUME NEW p \in Payloads
        PROVE  Times(p, telemetry) + Cardinality(Carrying(p)) + Cardinality(Ends(p))
                 = IF place[p] = "out" THEN 1 ELSE 0
    <2>1. /\ telemetry \in Seq(TelemetryItems) /\ Once(telemetry)
          /\ \A t \in telemetryRetries : t.left \in Seq(TelemetryItems) /\ Once(t.left)
      BY DEF TypeInv, RetryOK, RetryTypeOK, OutInv, CopyInv, Apart
    <2>2. Times(p, telemetry) = IF p \in Of(telemetry) THEN 1 ELSE 0
      BY <2>1, TimesOf
    <2>3. \A t \in telemetryRetries : Times(p, t.left) = IF p \in Of(t.left) THEN 1 ELSE 0
      BY <2>1, TimesOf
    <2>4. Carrying(p) = {t \in telemetryRetries : p \in Of(t.left)}
      BY <2>3
    <2>5. Cardinality(Carrying(p)) = IF p \in InRetries(telemetryRetries) THEN 1 ELSE 0
      <3> HIDE DEF Carrying
      <3>1. CASE p \in InRetries(telemetryRetries)
        <4>1. PICK t \in telemetryRetries : p \in Of(t.left)
          BY <3>1, InRetriesIs
        <4>2. \A u \in telemetryRetries : p \in Of(u.left) => u = t
          BY <4>1 DEF OutInv, CopyInv, Apart
        <4>3. Carrying(p) = {t}
          BY <2>4, <4>1, <4>2
        <4> QED
          BY <3>1, <4>3, FS_Singleton
      <3>2. CASE p \notin InRetries(telemetryRetries)
        <4>1. Carrying(p) = {}
          BY <2>4, <3>2, InRetriesIs
        <4> QED
          BY <3>2, <4>1, FS_EmptySet
      <3> QED
        BY <3>1, <3>2
    <2>6. Cardinality(Ends(p)) = IF p \in delivered \cup dropped \cup lost THEN 1 ELSE 0
      <3>1. ~(p \in delivered /\ p \in dropped) /\ ~(p \in delivered \cup dropped /\ p \in lost)
        BY DEF OutInv, CopyInv, Apart, Sent, Everywhere
      <3> QED
        BY <3>1, OneOfThree
    <2>7. /\ p \in Of(telemetry) => p \notin InRetries(telemetryRetries)
          /\ p \in Of(telemetry) \cup InRetries(telemetryRetries)
               => p \notin delivered \cup dropped \cup lost
      <3>1. \A t \in telemetryRetries :
               Of(t.left) \cap (Of(telemetry) \cup delivered \cup dropped) = {}
        BY DEF OutInv, CopyInv, Apart
      <3>2. Of(telemetry) \cap (delivered \cup dropped) = {}
        BY DEF OutInv, CopyInv, Apart
      <3>3. p \in Of(telemetry) \cup InRetries(telemetryRetries) => p \notin lost
        BY DEF OutInv, Sent, Everywhere
      <3> QED
        BY <3>1, <3>2, <3>3, InRetriesIs
    <2>8. place[p] = "out" <=>
            p \in Of(telemetry) \cup InRetries(telemetryRetries) \cup delivered \cup dropped \cup lost
      BY DEF OutInv, Sent, Everywhere
    <2> HIDE DEF Carrying, Ends
    <2> QED
      BY <2>2, <2>5, <2>6, <2>7, <2>8
  <1> QED
    BY <1>1, <1>2 DEF OneCopy

\* A payload is in one place, however the heartbeat, the last flush and the handlers of
\* reports interleave on the buffers.
THEOREM OneCopyAlways == Spec => []OneCopy
  BY OutAlways, OneCopyIs, PTL

-----------------------------------------------------------------------------
(* What is lost was filed while a flush was at work, or does not parse.    *)

\* The session stays while the handler of a report holds its lock, which it does for as
\* long as it has payloads to send.
ReportInv ==
    /\ \A r \in Requests : report[r] \in {"posting", "sending", "retrying"} => app # None
    /\ \A p \in Payloads : holder[p].kind = "report" =>
          holder[p].of \in Requests /\ report[holder[p].of] = "sending"

\* A payload filed in an entry there is, before a flush began, is one the flush has still
\* to visit.
Current(p) == place[p] = "buffer" /\ under[p].of \in entry /\ under[p] = SlotOf(under[p].of)
LateInv ==
    \A p \in Payloads, f \in Flushers :
        Current(p) /\ Visiting(flush[f]) /\ f \notin during[p] => under[p] \in flush[f].todo

\* The body of OnlyLateFilesLost.
LossStep ==
    \A p \in Payloads \cap (lost' \ lost) :
        \/ place[p] = "buffer" /\ during[p] # {}
        \/ holder[p].kind = "report" /\ p \in Unparsable

\* A step that begins no report's handling, and takes nothing for one.
LEMMA ReportKept ==
    ASSUME ReportInv,
           \/ app' = app
           \/ ~Guards,
           \A r \in Requests :
              \/ report'[r] = report[r]
              \/ report[r] \in {"none", "pending", "gone"} /\ report'[r] \in {"none", "pending", "gone"},
           \A p \in Payloads : holder'[p] = holder[p] \/ holder'[p].kind # "report"
    PROVE  ReportInv'
  <1>1. ASSUME NEW r \in Requests, report'[r] \in {"posting", "sending", "retrying"}
        PROVE  app' # None
    <2>1. report[r] \in {"posting", "sending", "retrying"}
      BY <1>1
    <2>2. Guards
      BY <2>1 DEF Guards
    <2> QED
      BY <2>1, <2>2 DEF ReportInv
  <1>2. ASSUME NEW p \in Payloads, holder'[p].kind = "report"
        PROVE  holder'[p].of \in Requests /\ report'[holder'[p].of] = "sending"
    <2>1. holder'[p] = holder[p]
      BY <1>2
    <2>2. holder[p].of \in Requests /\ report[holder[p].of] = "sending"
      BY <1>2, <2>1 DEF ReportInv
    <2> QED
      BY <2>1, <2>2
  <1> QED
    BY <1>1, <1>2 DEF ReportInv

\* A step that makes no entry, files nothing, and begins no flush.
LEMMA LateKept ==
    ASSUME LateInv, entry' \subseteq entry, made' = made,
           \A p \in Payloads : place'[p] = "buffer" => place[p] = "buffer" /\ under'[p] = under[p],
           \A f \in Flushers : Visiting(flush'[f]) =>
              /\ Visiting(flush[f]) /\ flush'[f].todo = flush[f].todo
              /\ \A p \in Payloads : place'[p] = "buffer" /\ f \in during[p] => f \in during'[p]
    PROVE  LateInv'
  <1>1. SUFFICES ASSUME NEW p \in Payloads, NEW f \in Flushers, Current(p)', Visiting(flush[f])',
                        f \notin during'[p]
                 PROVE  under'[p] \in flush'[f].todo
    BY DEF LateInv
  <1>2. place'[p] = "buffer" /\ under'[p].of \in entry' /\ under'[p] = [of |-> under'[p].of, nth |-> made'[under'[p].of]]
    BY <1>1 DEF Current, SlotOf
  <1>3. Current(p) /\ under'[p] = under[p]
    BY <1>2 DEF Current, SlotOf
  <1>4. Visiting(flush'[f])
    BY <1>1 DEF Visiting
  <1>5. Visiting(flush[f]) /\ flush'[f].todo = flush[f].todo /\ f \notin during[p]
    BY <1>1, <1>2, <1>4
  <1> QED
    BY <1>3, <1>5 DEF LateInv

\* The initial states.
LEMMA LateInit == Init => ReportInv /\ LateInv
  <1> SUFFICES ASSUME Init PROVE ReportInv /\ LateInv
    OBVIOUS
  <1>1. Nobody.kind = "nobody"
    BY DEF Nobody
  <1>2. ReportInv
    BY <1>1 DEF Init, ReportInv
  <1>3. LateInv
    BY DEF Init, LateInv, Current
  <1> QED
    BY <1>2, <1>3

\* A payload filed.
LEMMA LateFiled ==
    ASSUME PlaceOK, EntryOK, SlotInv, LateInv, NEW r \in Requests, NEW also \in SUBSET Payloads,
           EnsureSlot(r, also), UNCHANGED flush
    PROVE  LateInv'
  <1>1. PICK filed : filed = (IF r \in entry THEN {} ELSE {p \in Payloads : place[p] = "orphan"}) \cup also
    OBVIOUS
  <1>2. /\ entry' = entry \cup {r}
        /\ made' = IF r \in entry THEN made ELSE [made EXCEPT ![r] = @ + 1]
        /\ place' = [p \in Payloads |-> IF p \in filed THEN "buffer" ELSE place[p]]
        /\ under' = [p \in Payloads |-> IF p \in filed THEN [of |-> r, nth |-> made'[r]] ELSE under[p]]
        /\ during' = [p \in Payloads |-> IF p \in filed THEN InFlight ELSE during[p]]
    BY <1>1 DEF EnsureSlot
  <1>3. SUFFICES ASSUME NEW p \in Payloads, NEW f \in Flushers, Current(p)', Visiting(flush[f])',
                        f \notin during'[p]
                 PROVE  under'[p] \in flush'[f].todo
    BY DEF LateInv
  <1>4. Visiting(flush[f])
    BY <1>3 DEF Visiting
  <1>5. CASE p \in filed
    <2>1. f \in InFlight
      BY <1>4 DEF InFlight, Visiting
    <2> QED
      BY <1>2, <1>3, <1>5, <2>1
  <1>6. CASE p \notin filed
    <2>1. place[p] = "buffer" /\ under'[p] = under[p] /\ during'[p] = during[p]
      BY <1>2, <1>3, <1>6 DEF Current
    <2>2. /\ under[p].of \in entry'
          /\ under[p] = [of |-> under[p].of, nth |-> made'[under[p].of]]
      BY <1>3, <2>1 DEF Current, SlotOf
    <2>3. under[p] \in Slots
      BY <2>1 DEF PlaceOK
    <2>4. under[p].of \in Requests /\ under[p].nth \in Nat /\ under[p].nth <= made[under[p].of]
      BY <2>1, <2>3, Bounds DEF Slots, SlotInv
    <2>5. made'[under[p].of] = made[under[p].of] /\ under[p].of \in entry
      <3>1. CASE r \in entry
        BY <1>2, <2>2, <3>1
      <3>2. CASE r \notin entry /\ under[p].of = r
        <4>1. made'[r] = made[r] + 1 /\ made[r] \in Nat
          BY <1>2, <3>2 DEF EntryOK
        <4>2. under[p].nth = made'[r]
          BY <2>2, <3>2
        <4> QED
          BY <2>4, <3>2, <4>1, <4>2
      <3>3. CASE r \notin entry /\ under[p].of # r
        BY <1>2, <2>2, <2>4, <3>3 DEF EntryOK
      <3> QED
        BY <3>1, <3>2, <3>3
    <2>6. Current(p)
      BY <2>1, <2>2, <2>5 DEF Current, SlotOf
    <2> QED
      BY <1>3, <1>4, <2>1, <2>6 DEF LateInv
  <1> QED
    BY <1>5, <1>6

\* The three together; a step that changes neither entries, flushes nor where payloads are
\* keeps them.
LateOK == ReportInv /\ LateInv
LEMMA LateSame ==
    ASSUME LateOK, app' = app \/ ~Guards,
           UNCHANGED <<entryVars, payloadVars, flush, report, during, lost>>
    PROVE  LateOK' /\ LossStep
  <1>1. ReportInv'
    BY ReportKept DEF LateOK, payloadVars
  <1>2. LateInv'
    BY LateKept DEF LateOK, payloadVars, entryVars, Visiting
  <1>3. LossStep
    BY DEF LossStep
  <1> QED
    BY <1>1, <1>2, <1>3 DEF LateOK

\* One lemma per group of actions, as for the types.
LEMMA LateRetries ==
    ASSUME TypeInv, LateOK,
           \/ TelemetryRetried \/ MetricRetried \/ SessionEnds
           \/ HeartbeatStops \/ Joined \/ Terminated \/ UNCHANGED vars
           \/ \E h \in Handshakes : HandshakeEnds(h) \/ SessionInstalled(h)
    PROVE  LateOK' /\ LossStep
  <1>1. UNCHANGED <<entryVars, payloadVars, flush, report, during, lost>>
    BY DEF TelemetryRetried, MetricRetried, SessionEnds, HandshakeEnds, SessionInstalled,
           HeartbeatStops, Joined, Terminated, vars, restOfSession, restOfRetries
  <1>2. app' = app \/ ~Guards
    <2>1. CASE TelemetryRetried
      BY <2>1 DEF TelemetryRetried, TelemetryRetry
    <2>2. CASE MetricRetried
      BY <2>2 DEF MetricRetried, MetricRetry, sessionVars
    <2>3. CASE \E h \in Handshakes : HandshakeEnds(h)
      BY <2>3 DEF HandshakeEnds, Connect, ConnectFails, signal_handshake_fatal
    <2>4. CASE \E h \in Handshakes : SessionInstalled(h)
      BY <2>4 DEF SessionInstalled
    <2>5. CASE SessionEnds \/ HeartbeatStops \/ Joined \/ Terminated \/ UNCHANGED vars
      BY <2>5 DEF SessionEnds, CollectorRestart, HeartbeatStops, Joined, Terminated, vars, sessionVars
    <2> QED
      BY <2>1, <2>2, <2>3, <2>4, <2>5
  <1> QED
    BY <1>1, <1>2, LateSame

\* See LateRetries.
LEMMA LateListener ==
    ASSUME TypeInv, LateOK,
           \/ \E p \in Payloads : route_payload_by_embedded_request_id(p)
           \/ \E r \in Requests : PlatformStart(r) \/ PlatformReport(r)
    PROVE  LateOK' /\ LossStep
  <1>1. ASSUME NEW p \in Payloads, route_payload_by_embedded_request_id(p)
        PROVE  LateOK' /\ LossStep
    <2>1. place[p] = "away" /\ UNCHANGED <<app, flush, report, lost>>
      BY <1>1 DEF route_payload_by_embedded_request_id, restOfListener, sessionVars
    <2>2. LossStep
      BY <2>1 DEF LossStep
    <2>3. UNCHANGED holder
      BY <1>1 DEF route_payload_by_embedded_request_id, EnsureSlot
    <2>4. ReportInv'
      BY <2>1, <2>3, ReportKept DEF LateOK
    <2>5. CASE p \in Harvest
      <3>1. /\ place' = [place EXCEPT ![p] = "orphan"]
            /\ UNCHANGED <<entry, made, under, during>>
        BY <1>1, <2>5 DEF route_payload_by_embedded_request_id
      <3>2. \A q \in Payloads : place'[q] = "buffer" => place[q] = "buffer"
        BY <3>1 DEF TypeInv, PlaceOK
      <3>3. LateInv'
        BY <2>1, <3>1, <3>2, LateKept DEF LateOK, Visiting
      <3> QED
        BY <2>2, <2>4, <3>3 DEF LateOK
    <2>6. CASE p \notin Harvest
      <3>1. PICK r \in Requests : EnsureSlot(r, {p})
        BY <1>1, <2>6 DEF route_payload_by_embedded_request_id
      <3>2. LateInv'
        BY <2>1, <3>1, LateFiled DEF LateOK, TypeInv
      <3> QED
        BY <2>2, <2>4, <3>2 DEF LateOK
    <2> QED
      BY <2>5, <2>6
  <1>2. ASSUME NEW r \in Requests, PlatformStart(r)
        PROVE  LateOK' /\ LossStep
    <2>1. EnsureSlot(r, {}) /\ UNCHANGED <<app, flush, report, lost, holder>>
      BY <1>2 DEF PlatformStart, restOfListener, sessionVars, EnsureSlot
    <2>2. LateInv'
      <3>1. PICK none : none = {}
        OBVIOUS
      <3>2. EnsureSlot(r, none) /\ none \in SUBSET Payloads
        BY <2>1, <3>1
      <3> QED
        BY <2>1, <3>2, LateFiled DEF LateOK, TypeInv
    <2>3. ReportInv'
      BY <2>1, ReportKept DEF LateOK
    <2> QED
      BY <2>1, <2>2, <2>3 DEF LateOK, LossStep
  <1>3. ASSUME NEW r \in Requests, PlatformReport(r)
        PROVE  LateOK' /\ LossStep
    <2>1. /\ report[r] = "none"
          /\ report' = [report EXCEPT ![r] = IF app # None THEN "posting"
                                             ELSE IF r \in entry THEN "pending" ELSE "gone"]
          /\ lost' = lost \/ lost' = lost \cup {r}
          /\ UNCHANGED <<app, entryVars, payloadVars, flush, during>>
      BY <1>3 DEF PlatformReport, sessionVars
    <2>2. LossStep
      BY <2>1, PayloadsOnly DEF LossStep
    <2>3. LateInv'
      BY <2>1, LateKept DEF LateOK, payloadVars, entryVars, Visiting
    <2>4. ReportInv'
      <3>1. \A q \in Requests : report'[q] = IF q = r
                THEN IF app # None THEN "posting" ELSE IF r \in entry THEN "pending" ELSE "gone"
                ELSE report[q]
        BY <2>1 DEF TypeInv, RestOK
      <3>2. ASSUME NEW q \in Requests, report'[q] \in {"posting", "sending", "retrying"}
            PROVE  app' # None
        BY <2>1, <3>1, <3>2 DEF LateOK, ReportInv
      <3>3. ASSUME NEW p \in Payloads, holder'[p].kind = "report"
            PROVE  holder'[p].of \in Requests /\ report'[holder'[p].of] = "sending"
        <4>1. holder'[p] = holder[p]
          BY <2>1 DEF payloadVars
        <4>2. holder[p].of \in Requests /\ report[holder[p].of] = "sending"
          BY <3>3, <4>1 DEF LateOK, ReportInv
        <4> QED
          BY <2>1, <3>1, <4>1, <4>2
      <3> QED
        BY <3>2, <3>3 DEF ReportInv
    <2> QED
      BY <2>2, <2>3, <2>4 DEF LateOK
  <1> QED
    BY <1>1, <1>2, <1>3

\* See LateRetries.
LEMMA LateReports ==
    ASSUME TypeInv, LateOK, \E r \in Requests : ReportStep(r)
    PROVE  LateOK' /\ LossStep
  <1>1. PICK r \in Requests : ReportStep(r)
    OBVIOUS
  <1>2. UNCHANGED <<app, entryVars, flush, lost>> /\ LossStep
    BY <1>1 DEF ReportStep, ReportDrained, ReportDone, ReportPosted, sessionVars, LossStep
  <1>3. report \in [Requests -> {"none", "posting", "sending", "retrying", "pending", "gone"}]
    BY DEF TypeInv, RestOK
  <1>4. CASE ReportDrained(r) \/ ReportDone(r)
    <2>1. /\ report[r] \in {"sending", "retrying"}
          /\ \/ report' = [report EXCEPT ![r] = "gone"]
             \/ report' = [report EXCEPT ![r] = "retrying"]
          /\ report[r] = "sending" => Held(Task("report", r)) = {}
          /\ UNCHANGED <<payloadVars, during>>
      BY <1>4 DEF ReportDrained, ReportDone
    <2>2. LateInv'
      BY <1>2, <2>1, LateKept DEF LateOK, payloadVars, entryVars, Visiting
    <2>3. app # None
      BY <2>1 DEF LateOK, ReportInv
    <2>4. ASSUME NEW p \in Payloads, holder'[p].kind = "report"
          PROVE  holder'[p].of \in Requests /\ report'[holder'[p].of] = "sending"
      <3>1. holder'[p] = holder[p]
        BY <2>1 DEF payloadVars
      <3>2. holder[p].of \in Requests /\ report[holder[p].of] = "sending"
        BY <2>4, <3>1 DEF LateOK, ReportInv
      <3>3. holder[p].of # r
        <4>1. SUFFICES ASSUME holder[p].of = r PROVE FALSE
          OBVIOUS
        <4>2. holder[p] \in Tasks
          BY <2>4, <3>1 DEF TypeInv, PlaceOK, Nobody
        <4>3. holder[p] = Task("report", r)
          BY <2>4, <3>1, <4>1, <4>2 DEF Tasks, Task
        <4>4. p \in Held(Task("report", r)) /\ report[r] = "sending"
          BY <3>2, <4>1, <4>3 DEF Held
        <4> QED
          BY <2>1, <4>4
      <3> QED
        BY <1>3, <2>1, <3>1, <3>2, <3>3
    <2> QED
      BY <1>2, <2>2, <2>3, <2>4 DEF LateOK, ReportInv
  <1>5. ASSUME NEW a \in Outcomes, ReportPosted(r, a)
        PROVE  LateOK' /\ LossStep
    <2>1. PICK S : S = IF r \in entry THEN buffer(SlotOf(r)) ELSE {}
      OBVIOUS
    <2>2. /\ report[r] = "posting" /\ Leave({}, S, Task("report", r))
          /\ report' = [report EXCEPT ![r] = IF r \in entry THEN "sending" ELSE "gone"]
      BY <1>5, <2>1 DEF ReportPosted
    <2>3. \A p \in Payloads :
             /\ place'[p] = IF p \in S THEN "taken" ELSE place[p]
             /\ holder'[p] = IF p \in S THEN Task("report", r) ELSE holder[p]
             /\ under'[p] = IF p \in S THEN NoSlot ELSE under[p]
             /\ during'[p] = IF p \in S THEN {} ELSE during[p]
      BY <2>2 DEF Leave
    <2>4. LateInv'
      BY <1>2, <2>3, LateKept DEF LateOK, entryVars, Visiting
    <2>5. app # None
      BY <2>2 DEF LateOK, ReportInv
    <2>6. ASSUME NEW p \in Payloads, holder'[p].kind = "report"
          PROVE  holder'[p].of \in Requests /\ report'[holder'[p].of] = "sending"
      <3>1. CASE p \in S
        <4>1. r \in entry /\ holder'[p] = Task("report", r)
          BY <2>1, <2>3, <3>1
        <4> QED
          BY <1>3, <2>2, <4>1 DEF Task
      <3>2. CASE p \notin S
        <4>1. holder'[p] = holder[p]
          BY <2>3, <3>2
        <4>2. holder[p].of \in Requests /\ report[holder[p].of] = "sending"
          BY <2>6, <4>1 DEF LateOK, ReportInv
        <4> QED
          BY <1>3, <2>2, <4>1, <4>2
      <3> QED
        BY <3>1, <3>2
    <2> QED
      BY <1>2, <2>4, <2>5, <2>6 DEF LateOK, ReportInv
  <1> QED
    BY <1>1, <1>4, <1>5 DEF ReportStep


\* See LateRetries.  The handler of a report holds the session's lock: what it does not
\* send does not parse.
LEMMA LateSends ==
    ASSUME TypeInv, LateOK, \E p \in Payloads : StartSend(p) \/ Sends(p)
    PROVE  LateOK' /\ LossStep
  <1>1. PICK p \in Payloads : StartSend(p) \/ Sends(p)
    OBVIOUS
  <1>2. place \in [Payloads -> Places] /\ holder \in [Payloads -> Tasks \cup {Nobody}]
    BY DEF TypeInv, PlaceOK
  <1>3. Nobody.kind = "nobody"
    BY DEF Nobody
  <1>4. /\ UNCHANGED <<app, entryVars, under, flush, report, during>>
        /\ \A q \in Payloads : place'[q] = "buffer" => place[q] = "buffer"
        /\ \A q \in Payloads : holder'[q] = holder[q] \/ holder'[q] = Nobody
    <2>1. CASE StartSend(p) /\ NotSent(p)
      <3>1. UNCHANGED <<app, entryVars, under, flush, report, during>>
        BY <2>1 DEF StartSend, sessionVars
      <3>2. holder' = [holder EXCEPT ![p] = Nobody]
        BY <2>1 DEF NotSent
      <3>3. PICK E : E = {e.item : e \in Evicted(failed, PayloadMax)}
        OBVIOUS
      <3>4. \/ place' = [place EXCEPT ![p] = "out"]
            \/ place' = [q \in Payloads |-> IF q = p THEN "failed"
                                            ELSE IF q \in E THEN "out" ELSE place[q]]
        BY <2>1, <3>3 DEF NotSent
      <3>5. \A q \in Payloads : place'[q] = "buffer" => place[q] = "buffer"
        BY <1>2, <3>4
      <3> QED
        BY <1>2, <3>1, <3>2, <3>5
    <2>2. CASE StartSend(p) /\ ~NotSent(p)
      <3>1. /\ place' = [place EXCEPT ![p] = "sending"]
            /\ UNCHANGED <<app, holder, entryVars, under, flush, report, during>>
        BY <2>2 DEF StartSend, sessionVars
      <3> QED
        BY <1>2, <3>1
    <2>3. CASE Sends(p)
      <3>1. PICK a \in AnyAnswer : FinishSend(p, a)
        BY <2>3 DEF Sends
      <3>2. /\ place' = [place EXCEPT ![p] = "out"] /\ holder' = [holder EXCEPT ![p] = Nobody]
            /\ UNCHANGED <<app, entryVars, under, flush, report, during>>
        BY <3>1 DEF FinishSend
      <3> QED
        BY <1>2, <3>2
    <2> QED
      BY <1>1, <2>1, <2>2, <2>3
  <1>5. ReportInv'
    BY <1>3, <1>4, ReportKept DEF LateOK
  <1>6. LateInv'
    BY <1>4, LateKept DEF LateOK, entryVars, Visiting
  <1>7. LossStep
    <2>1. CASE lost' = lost
      BY <2>1 DEF LossStep
    <2>2. CASE lost' # lost
      <3>1. StartSend(p) /\ NotSent(p)
        BY <1>1, <2>2 DEF StartSend, Sends, FinishSend
      <3>2. holder[p].kind = "report" /\ lost' = lost \cup {p}
        BY <2>2, <3>1 DEF NotSent
      <3>3. app # None
        BY <3>2 DEF LateOK, ReportInv
      <3>4. NotSent(p) => place' # [place EXCEPT ![p] = "sending"]
        <4>1. SUFFICES ASSUME NotSent(p), place' = [place EXCEPT ![p] = "sending"] PROVE FALSE
          OBVIOUS
        <4>2. place' = [place EXCEPT ![p] = "out"]
          BY <3>2, <4>1 DEF NotSent
        <4> QED
          BY <1>2, <4>1, <4>2
      <3>5. p \in Unparsable
        BY <3>1, <3>3, <3>4 DEF StartSend
      <3> QED
        BY <3>2, <3>5 DEF LossStep
    <2> QED
      BY <2>1, <2>2
  <1> QED
    BY <1>5, <1>6, <1>7 DEF LateOK


\* A visit loses only payloads of entries made since the flush began, and still has those
\* of the others to visit.
LEMMA LateVisit ==
    ASSUME TypeInv, LateOK, NEW f \in Flushers, NEW todo \in SUBSET Slots,
           NEW finished \in SUBSET Requests, Distinct(todo), \A s \in todo : s.of \notin finished,
           \A p \in Payloads : Current(p) /\ f \notin during[p] => under[p] \in todo,
           Visit(f, todo, finished), UNCHANGED app
    PROVE  LateOK' /\ LossStep
  <1>1. PICK skip, gone : Visited(f, todo, finished, skip, gone)
    BY VisitIs DEF TypeInv
  <1>2. PICK taken, t : Moved(f, todo, skip, gone, taken, t)
    BY <1>1, VisitMoves DEF TypeInv
  <1>3. \A p \in Payloads :
           /\ place'[p] = IF p \in taken THEN "taken" ELSE IF p \in gone THEN "out" ELSE place[p]
           /\ holder'[p] = IF p \in taken THEN t ELSE holder[p]
           /\ under'[p] = IF p \in gone \cup taken THEN NoSlot ELSE under[p]
           /\ during'[p] = IF p \in gone \cup taken THEN {} ELSE during[p]
    BY <1>2 DEF Moved, Leave
  <1>4. /\ entry' \subseteq entry /\ made' = made /\ gone = Payloads \cap (lost' \ lost)
        /\ skip \subseteq todo /\ \A s \in skip : Quiet(s)
    BY <1>1 DEF Visited
  <1>5. ReportInv'
    <2>1. \A r \in Requests :
             \/ report'[r] = report[r]
             \/ report[r] \in {"none", "pending", "gone"} /\ report'[r] \in {"none", "pending", "gone"}
      BY <1>1 DEF Visited
    <2>2. \A p \in Payloads : holder'[p] = holder[p] \/ holder'[p].kind # "report"
      <3>1. taken = {} \/ t.kind = "pending"
        BY <1>2 DEF Moved, Task
      <3> QED
        BY <1>3, <3>1
    <2> QED
      BY <2>1, <2>2, ReportKept DEF LateOK
  <1>6. ASSUME NEW p \in Payloads, Current(p)'
        PROVE  /\ Current(p) /\ under'[p] = under[p] /\ during'[p] = during[p]
               /\ p \notin taken
    <2>1. place'[p] = "buffer" /\ under'[p].of \in entry'
          /\ under'[p] = [of |-> under'[p].of, nth |-> made'[under'[p].of]]
      BY <1>6 DEF Current, SlotOf
    <2>2. p \notin taken /\ p \notin gone
      BY <1>3, <2>1
    <2>3. place[p] = "buffer" /\ under'[p] = under[p] /\ during'[p] = during[p]
      BY <1>3, <2>1, <2>2
    <2> QED
      BY <1>4, <2>1, <2>2, <2>3 DEF Current, SlotOf
  <1>7. LateInv'
    <2>1. SUFFICES ASSUME NEW p \in Payloads, NEW g \in Flushers, Current(p)', Visiting(flush[g])',
                          g \notin during'[p]
                   PROVE  under'[p] \in flush'[g].todo
      BY DEF LateInv
    <2>2. Current(p) /\ under'[p] = under[p] /\ g \notin during[p] /\ p \notin taken
      BY <1>6, <2>1
    <2>3. CASE g # f
      <3>1. flush'[g] = flush[g]
        BY <1>2, <2>3 DEF Moved
      <3> QED
        BY <2>1, <2>2, <3>1 DEF LateOK, LateInv, Visiting
    <2>4. CASE g = f
      <3>1. flush'[f].stage = "pending"
        BY <1>2, <2>1, <2>4 DEF Moved, Visiting
      <3>2. /\ flush'[f].todo = todo \ (skip \cup {flush'[f].now})
            /\ taken = buffer(flush'[f].now)
        BY <1>2, <3>1 DEF Moved
      <3>3. p \in buffer(under[p]) /\ under[p] \in todo
        BY <2>2, <2>4 DEF buffer, Current
      <3>4. under[p] \notin skip
        BY <1>4, <3>3 DEF Quiet
      <3>5. under[p] # flush'[f].now
        BY <2>2, <3>2, <3>3
      <3> QED
        BY <2>2, <2>4, <3>2, <3>3, <3>4, <3>5
    <2> QED
      BY <2>3, <2>4
  <1>8. LossStep
    <2>1. SUFFICES ASSUME NEW p \in gone, during[p] = {} PROVE FALSE
      <3>1. \A p \in gone : place[p] = "buffer"
        BY <1>1 DEF Visited
      <3> QED
        BY <1>4, <2>1, <3>1 DEF LossStep
    <2>2. /\ p \in Payloads /\ place[p] = "buffer" /\ under[p] = SlotOf(under[p].of)
          /\ under[p].of \in (finished \cup Ofs(skip)) \cap entry
      BY <1>1, <1>4 DEF Visited
    <2>3. Current(p) /\ under[p] \in todo /\ p \in buffer(under[p])
      BY <2>1, <2>2 DEF Current, buffer
    <2>4. under[p].of \notin finished
      BY <2>3
    <2>5. PICK s \in skip : s.of = under[p].of
      BY <2>2, <2>4 DEF Ofs
    <2>6. s = under[p]
      BY <1>4, <2>3, <2>5 DEF Distinct
    <2>7. buffer(s) = {}
      BY <1>4 DEF Quiet
    <2> QED
      BY <2>3, <2>6, <2>7
  <1> QED
    BY <1>5, <1>7, <1>8 DEF LateOK

\* See LateRetries.
LEMMA LateVisits ==
    ASSUME TypeInv, LateOK,
           \/ Tick \/ Shutdown
           \/ \E f \in Flushers : PendSent(f) \/ \E a \in Outcomes : PendPosted(f, a)
    PROVE  LateOK' /\ LossStep
  <1>1. ASSUME NEW f \in Flushers, FlushStart(f), UNCHANGED app
        PROVE  LateOK' /\ LossStep
    <2>1. Visit(f, Listed, {}) /\ Listed \in SUBSET Slots /\ Distinct(Listed)
      BY <1>1, ListedTypes DEF FlushStart, TypeInv
    <2>2. PICK none : none = {}
      OBVIOUS
    <2>3. Visit(f, Listed, none) /\ none \in SUBSET Requests /\ \A s \in Listed : s.of \notin none
      BY <2>1, <2>2
    <2>4. \A p \in Payloads : Current(p) /\ f \notin during[p] => under[p] \in Listed
      BY DEF Current, Listed
    <2> QED
      BY <1>1, <2>1, <2>3, <2>4, LateVisit
  <1>2. Heartbeat \in Flushers /\ Drain \in Flushers
    BY DEF Flushers
  <1>3. CASE Tick \/ Shutdown
    BY <1>1, <1>2, <1>3 DEF Tick, Shutdown
  <1>4. ASSUME NEW f \in Flushers, Visit(f, flush[f].todo, {flush[f].now.of}), Visiting(flush[f]),
               UNCHANGED app
        PROVE  LateOK' /\ LossStep
    <2>1. flush[f].todo \in SUBSET Slots /\ flush[f].now \in Slots
      BY <1>4 DEF TypeInv, FlushOK, Flushes
    <2>2. {flush[f].now.of} \in SUBSET Requests
      BY <2>1 DEF Slots
    <2>3. Distinct(flush[f].todo) /\ \A s \in flush[f].todo : s.of \notin {flush[f].now.of}
      BY <1>4 DEF TypeInv, SlotInv, Distinct
    <2>4. \A p \in Payloads : Current(p) /\ f \notin during[p] => under[p] \in flush[f].todo
      BY <1>4 DEF LateOK, LateInv
    <2> QED
      BY <1>4, <2>1, <2>2, <2>3, <2>4, LateVisit
  <1>5. ASSUME NEW f \in Flushers, PendSent(f) PROVE LateOK' /\ LossStep
    <2>1. UNCHANGED app /\ Visiting(flush[f])
      BY <1>5 DEF PendSent, Visiting
    <2>2. CASE Visit(f, flush[f].todo, {flush[f].now.of})
      BY <1>4, <2>1, <2>2
    <2>3. CASE /\ flush' = [flush EXCEPT ![f].stage = "posting"]
               /\ UNCHANGED <<reconnect, entryVars, payloadVars, report, during, lost>>
      <3>1. \A g \in Flushers : Visiting(flush'[g]) => Visiting(flush[g]) /\ flush'[g].todo = flush[g].todo
        BY <2>1, <2>3 DEF TypeInv, FlushOK, Flushes, Visiting
      <3>2. ReportInv'
        BY <2>1, <2>3, ReportKept DEF LateOK, payloadVars
      <3>3. LateInv'
        BY <2>3, <3>1, LateKept DEF LateOK, payloadVars, entryVars
      <3> QED
        BY <2>3, <3>2, <3>3 DEF LateOK, LossStep
    <2> QED
      BY <1>5, <2>2, <2>3 DEF PendSent
  <1>6. ASSUME NEW f \in Flushers, NEW a \in Outcomes, PendPosted(f, a) PROVE LateOK' /\ LossStep
    <2>1. /\ Visiting(flush[f]) /\ UNCHANGED app
          /\ Visit(f, flush[f].todo, {flush[f].now.of})
      BY <1>6 DEF PendPosted, Visiting
    <2> QED
      BY <1>4, <2>1
  <1> QED
    BY <1>3, <1>5, <1>6

\* See LateRetries.
LEMMA LateFlush ==
    ASSUME TypeInv, LateOK, NEW f \in Flushers,
           \/ Invalidate(f) \/ Check(f) \/ RetryNext(f) \/ RetryOver(f)
           \/ RetryLive(f) \/ TelemetryDone(f) \/ FlushOver(f)
    PROVE  LateOK' /\ LossStep
  <1> USE DEF LateOK
  <1>1. /\ place \in [Payloads -> Places] /\ holder \in [Payloads -> Tasks \cup {Nobody}]
        /\ flush \in [Flushers -> Flushes] /\ during \in [Payloads -> SUBSET Flushers]
    BY DEF TypeInv, PlaceOK, FlushOK
  <1>2. Nobody.kind = "nobody"
    BY DEF Nobody
  <1>3. /\ UNCHANGED <<entryVars, report, lost, under>> /\ LossStep
        /\ app' = app \/ ~Guards
    <2>1. CASE RetryNext(f)
      BY <2>1 DEF RetryNext, restOfFlush, sessionVars, LossStep
    <2>2. CASE Check(f)
      <3>1. UNCHANGED <<entryVars, report, lost, app>>
        BY <2>2 DEF Check, restOfFlush
      <3>2. CASE UNCHANGED <<payloadVars, during>>
        BY <3>1, <3>2 DEF payloadVars, LossStep
      <3>3. CASE Leave({}, {failed[i].item : i \in DOMAIN failed}, Task("retry", f))
        <4>1. PICK taken : taken = {failed[i].item : i \in DOMAIN failed}
          OBVIOUS
        <4>2. under' = [p \in Payloads |-> IF p \in taken THEN NoSlot ELSE under[p]]
          BY <3>3, <4>1 DEF Leave
        <4>3. \A p \in Payloads : p \in taken => under[p] = NoSlot
          <5>1. taken = Of(failed)
            BY <4>1, OfItems DEF TypeInv, FailedInv, FailedAre
          <5>2. \A p \in Payloads : p \in taken => place[p] = "failed"
            BY <5>1 DEF TypeInv, FailedInv, FailedAre
          <5> QED
            BY <5>2 DEF TypeInv, PlaceOK
        <4>4. under' = under
          BY <4>2, <4>3 DEF TypeInv, PlaceOK
        <4> QED
          BY <3>1, <4>4 DEF LossStep
      <3> QED
        BY <2>2, <3>2, <3>3 DEF Check
    <2>3. CASE Invalidate(f) \/ RetryOver(f) \/ RetryLive(f) \/ TelemetryDone(f) \/ FlushOver(f)
      BY <2>3 DEF Invalidate, RetryOver, RetryLive, TelemetryDone, FlushOver, restOfFlush,
                  payloadVars, sessionVars, LossStep
    <2> QED
      BY <2>1, <2>2, <2>3
  <1>4. /\ \A p \in Payloads : place'[p] = "buffer" => place[p] = "buffer"
        /\ \A p \in Payloads : holder'[p] = holder[p] \/ holder'[p].kind # "report"
        /\ \A p \in Payloads : place'[p] = "buffer" => during[p] \ {f} \subseteq during'[p]
    <2>1. CASE RetryNext(f)
      <3>1. PICK next, again, w : Retried(f, next, again, w)
        BY <2>1, RetryNextIs DEF TypeInv
      <3>2. PICK p : p = next.item
        OBVIOUS
      <3>3. /\ during' = during
            /\ place' = place \/ place' = [place EXCEPT ![p] = "out"]
               \/ place' = [place EXCEPT ![p] = "sending"]
            /\ holder' = holder \/ holder' = [holder EXCEPT ![p] = Nobody]
        BY <3>1, <3>2 DEF Retried
      <3> QED
        BY <1>1, <1>2, <3>3
    <2>2. CASE Check(f)
      <3>1. CASE UNCHANGED <<payloadVars, during>>
        BY <3>1 DEF payloadVars
      <3>2. CASE Leave({}, {failed[i].item : i \in DOMAIN failed}, Task("retry", f))
        <4>1. PICK taken : taken = {failed[i].item : i \in DOMAIN failed}
          OBVIOUS
        <4>2. \A p \in Payloads :
                 /\ place'[p] = IF p \in taken THEN "taken" ELSE place[p]
                 /\ holder'[p] = IF p \in taken THEN Task("retry", f) ELSE holder[p]
                 /\ during'[p] = IF p \in taken THEN {} ELSE during[p]
          BY <3>2, <4>1 DEF Leave
        <4>3. Task("retry", f).kind = "retry"
          BY DEF Task
        <4> QED
          BY <4>2, <4>3
      <3> QED
        BY <2>2, <3>1, <3>2 DEF Check
    <2>3. CASE RetryOver(f)
      <3>1. PICK kept : kept = {flush[f].kept[i].item : i \in DOMAIN flush[f].kept}
        OBVIOUS
      <3>2. /\ place' = [p \in Payloads |-> IF p \in kept THEN "failed" ELSE place[p]]
            /\ holder' = [p \in Payloads |-> IF p \in kept THEN Nobody ELSE holder[p]]
            /\ UNCHANGED during
        BY <2>3, <3>1 DEF RetryOver
      <3> QED
        BY <1>2, <3>2
    <2>4. CASE FlushOver(f)
      BY <2>4 DEF FlushOver, payloadVars
    <2>5. CASE Invalidate(f) \/ RetryLive(f) \/ TelemetryDone(f)
      BY <2>5 DEF Invalidate, RetryLive, TelemetryDone, payloadVars
    <2> QED
      BY <2>1, <2>2, <2>3, <2>4, <2>5
  <1>5. /\ ~Visiting(flush'[f])
        /\ \A g \in Flushers : g # f => flush'[g] = flush[g]
    <2>1. CASE RetryNext(f)
      <3>1. PICK next, again, w : Retried(f, next, again, w)
        BY <2>1, RetryNextIs DEF TypeInv
      <3> QED
        BY <3>1 DEF Retried, Visiting
    <2>2. CASE ~RetryNext(f)
      <3>1. PICK w : flush' = [flush EXCEPT ![f] = w] /\ ~Visiting(w)
        <4>1. ASSUME NEW stage \in Stages \ {"pending", "posting"},
                     flush' = [flush EXCEPT ![f] = At(stage)]
              PROVE  \E w : flush' = [flush EXCEPT ![f] = w] /\ ~Visiting(w)
          <5>1. At(stage).stage = stage
            BY AtIs
          <5> QED
            BY <4>1, <5>1 DEF Visiting
        <4>2. {"check", "live", "metrics", "telemetry"} \subseteq Stages \ {"pending", "posting"}
          BY DEF Stages
        <4>3. CASE Invalidate(f) \/ RetryOver(f) \/ TelemetryDone(f)
          BY <4>1, <4>2, <4>3 DEF Invalidate, RetryOver, TelemetryDone
        <4>4. CASE FlushOver(f)
          <5>1. flush' = [flush EXCEPT ![f] = Idling]
            BY <4>4 DEF FlushOver
          <5>2. Idling.stage = "idle"
            BY Zenon DEF Idling
          <5> QED
            BY <5>1, <5>2 DEF Visiting
        <4>5. CASE RetryLive(f) \/ (Check(f) /\ RetryTelemetry(f))
          <5>1. PICK stage \in {"metrics", "telemetry"} : flush' = [flush EXCEPT ![f] = At(stage)]
            BY <4>5 DEF RetryLive, RetryTelemetry
          <5> QED
            BY <4>1, <4>2, <5>1
        <4>6. CASE Check(f) /\ flush' = [flush EXCEPT ![f] = [At("retry") EXCEPT !.left = failed]]
          <5>1. PICK w : w = [At("retry") EXCEPT !.left = failed]
            OBVIOUS
          <5>2. At("retry").stage = "retry" /\ At("retry") \in Flushes
            BY AtIs DEF Stages
          <5>3. w.stage = "retry"
            BY <5>1, <5>2 DEF Flushes
          <5> QED
            BY <4>6, <5>1, <5>3 DEF Visiting
        <4> QED
          BY <2>2, <4>3, <4>4, <4>5, <4>6 DEF Check
      <3> QED
        BY <1>1, <3>1
    <2> QED
      BY <2>1, <2>2
  <1>6. ReportInv'
    <2>1. \A r \in Requests : report'[r] = report[r]
      BY <1>3
    <2>2. \A p \in Payloads : holder'[p] = holder[p] \/ holder'[p].kind # "report"
      BY <1>4
    <2> QED
      BY <1>3, <2>1, <2>2, ReportKept
  <1>7. LateInv'
    <2>1. \A g \in Flushers : Visiting(flush'[g]) =>
             /\ Visiting(flush[g]) /\ flush'[g].todo = flush[g].todo
             /\ \A p \in Payloads : place'[p] = "buffer" /\ g \in during[p] => g \in during'[p]
      <3>1. SUFFICES ASSUME NEW g \in Flushers, Visiting(flush'[g])
                     PROVE  /\ Visiting(flush[g]) /\ flush'[g].todo = flush[g].todo
                            /\ \A p \in Payloads : place'[p] = "buffer" /\ g \in during[p] => g \in during'[p]
        OBVIOUS
      <3>2. g # f
        BY <1>5, <3>1
      <3>3. flush'[g] = flush[g]
        BY <1>5, <3>2
      <3>4. \A p \in Payloads : place'[p] = "buffer" /\ g \in during[p] => g \in during'[p]
        BY <1>4, <3>2
      <3> QED
        BY <3>1, <3>3, <3>4
    <2>2. entry' \subseteq entry /\ made' = made /\ under' = under
      BY <1>3 DEF entryVars
    <2>3. \A p \in Payloads : place'[p] = "buffer" => place[p] = "buffer" /\ under'[p] = under[p]
      BY <1>4, <2>2
    <2> QED
      BY <2>1, <2>2, <2>3, LateKept
  <1> QED
    BY <1>3, <1>6, <1>7

\* Every step keeps it, and loses nothing else.
LEMMA LateStep == TypeInv /\ LateOK /\ [Next]_vars => LateOK' /\ LossStep
  <1> SUFFICES ASSUME TypeInv, LateOK, [Next]_vars PROVE LateOK' /\ LossStep
    OBVIOUS
  <1>1. CASE \/ \E p \in Payloads : route_payload_by_embedded_request_id(p)
             \/ \E r \in Requests : PlatformStart(r) \/ PlatformReport(r)
    BY <1>1, LateListener
  <1>2. CASE \E p \in Payloads : StartSend(p) \/ Sends(p)
    BY <1>2, LateSends
  <1>3. CASE \E r \in Requests : ReportStep(r)
    BY <1>3, LateReports
  <1>4. CASE \E f \in Flushers : FlushStep(f)
    <2>1. PICK f \in Flushers : FlushStep(f)
      BY <1>4
    <2>2. CASE PendSent(f) \/ \E a \in Outcomes : PendPosted(f, a)
      BY <2>2, LateVisits
    <2>3. CASE ~(PendSent(f) \/ \E a \in Outcomes : PendPosted(f, a))
      BY <2>1, <2>3, LateFlush DEF FlushStep
    <2> QED
      BY <2>2, <2>3
  <1>5. CASE Tick \/ Shutdown
    BY <1>5, LateVisits
  <1>6. CASE \/ TelemetryRetried \/ MetricRetried \/ SessionEnds
             \/ HeartbeatStops \/ Joined \/ Terminated \/ UNCHANGED vars
             \/ \E h \in Handshakes : HandshakeEnds(h) \/ SessionInstalled(h)
    BY <1>6, LateRetries
  <1> QED
    BY <1>1, <1>2, <1>3, <1>4, <1>5, <1>6 DEF Next

\* It always holds.
LEMMA LateAlways == Spec => [](TypeInv /\ LateOK)
  <1>1. Init => LateOK
    BY LateInit DEF LateOK
  <1>2. TypeInv /\ LateOK /\ [Next]_vars => LateOK'
    BY LateStep
  <1> QED
    BY <1>1, <1>2, TypeAlways, PTL DEF Spec

\* A payload read from the pipe while no flush is at work is not lost, whatever entries are
\* made and removed around it and whichever flushes and handlers of reports overlap: what
\* a flush loses was filed in an entry made since it began (LateInv), and the handler of
\* a report, which has a session as long as it sends (ReportInv), loses only what does not
\* parse.
THEOREM OnlyLateFilesAreLost == Spec => OnlyLateFilesLost
  <1>1. TypeInv /\ LateOK /\ [Next]_vars =>
          [\A p \in Payloads \cap (lost' \ lost) :
             \/ place[p] = "buffer" /\ during[p] # {}
             \/ holder[p].kind = "report" /\ p \in Unparsable]_vars
    BY LateStep DEF LossStep
  <1> QED
    BY <1>1, LateAlways, PTL DEF Spec, OnlyLateFilesLost
=============================================================================
