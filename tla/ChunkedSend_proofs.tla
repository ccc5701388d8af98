-------------------------- MODULE ChunkedSend_proofs --------------------------
(***************************************************************************)
(* Proofs about ChunkedSend: types and bounds; that the chunks of a batch  *)
(* are the batch, whatever the sizes (CutInv); and, from how many copies   *)
(* of an item there are in all the places it may be in (Held), what is     *)
(* lost (PartInv, LostInv) and what is sent twice (WholeInv, OnceInv).     *)
(***************************************************************************)
EXTENDS ChunkedSend, Subsequences_proofs

-----------------------------------------------------------------------------
(* Types.                                                                  *)

\* The smaller of two numbers.
LEMMA MinOfTwo ==
    ASSUME NEW a \in Nat, NEW b \in Nat
    PROVE  Min({a, b}) \in {a, b} /\ Min({a, b}) <= a /\ Min({a, b}) <= b
  <1>1. \E x \in {a, b} : \A y \in {a, b} : x =< y
    <2>1. CASE a <= b
      BY <2>1
    <2>2. CASE b <= a
      BY <2>2
    <2> QED
      BY <2>1, <2>2
  <1> QED
    BY <1>1 DEF Min

\* The backoff of every attempt is a number.
LEMMA DelayType ==
    ASSUME NEW n \in Nat \ {0}
    PROVE  Delay(n) \in Nat
  <1> DEFINE k == Min({(n - 1) \div 3, 4})
             ms == 2 * <<1, 2, 4, 8, 16>>[k + 1]
  <1>1. k \in 0..4
    <2>1. (n - 1) \div 3 \in Nat
      OBVIOUS
    <2> QED
      BY <2>1, MinOfTwo
  <1>2. ms \in Nat
    <2>1. k = 0 \/ k = 1 \/ k = 2 \/ k = 3 \/ k = 4
      BY <1>1
    <2> HIDE DEF k
    <2> QED
      BY <2>1
  <1>3. Min({ms, 30}) \in Nat
    <2> HIDE DEF ms
    <2> QED
      BY <1>2, MinOfTwo
  <1> QED
    BY <1>3 DEF Delay

\* What a sender does at its stages: the loop that cuts has ended before anything is sent,
\* and a part of a chunk is sent, and its logs returned, only while that chunk is sent.
StageInv ==
    /\ stage # "cutting" => rest = <<>> /\ current = <<>> /\ current_size = 0
    /\ stage = "cutting" => nth = 0
    /\ stage \in {"kept", "done"} => nth = Len(chunks) /\ later = <<>>
    /\ stage # "sending" \/ nth = 0 => work = <<>> /\ returned = <<>>
    /\ caller \in {"preInvoke", "shutdown"} => failed_logs_buffer = <<>> /\ stage # "kept"

Typed == TypeOK /\ StageInv

\* The types and stages of a batch no one has begun to cut.
LEMMA TypedInit == Init => Typed
  <1> SUFFICES ASSUME Init PROVE Typed
    OBVIOUS
  <1>1. input \in Inputs /\ input.sizes \in Seq(Nat \ {0}) /\ input.caller \in Callers
    BY ChunkedSendAssumption DEF Init
  <1>2. Items = 1..Len(input.sizes) /\ Len(input.sizes) \in Nat
    BY <1>1 DEF Items
  <1>3. [i \in Items |-> i] \in Seq(Items) /\ <<>> \in Seq(Items)
    BY <1>2
  <1>4. <<>> \in Seq(Seq(Items)) /\ Len(<<>>) = 0
        /\ <<>> \in Seq([logs : Seq(Items), depth : 0..MAX_SPLIT_DEPTH])
    OBVIOUS
  <1>5. retry_count \in [Items -> 0..LogRetries]
    BY ChunkedSendAssumption DEF Init
  <1>6. accepted \in [Items -> Nat] /\ 0 \in 0..0
    BY DEF Init
  <1>7. StageInv
    BY <1>4 DEF Init, StageInv, NoWork
  <1> HIDE DEF Items
  <1>8. TypeOK
    BY <1>1, <1>3, <1>4, <1>5, <1>6 DEF Init, TypeOK, NoWork
  <1> QED
    BY <1>7, <1>8 DEF Typed

\* What the assumption says of the input.
LEMMA InputType ==
    ASSUME TypeOK
    PROVE  /\ input.sizes \in [Items -> Nat \ {0}] /\ input.sizes \in Seq(Nat \ {0})
           /\ Items = 1..Len(input.sizes)
           /\ input.budget \subseteq Nat /\ input.license_key \in BOOLEAN
           /\ MAX_CHUNK_SIZE \in Nat /\ BaseOverhead \in Nat /\ MAX_SPLIT_DEPTH \in Nat
           /\ MAX_RETRIES \in Nat /\ BudgetRetries \in Nat /\ LogRetries \in Nat
           /\ HttpTimeout \in Nat
  <1>1. input \in Inputs
    BY DEF TypeOK
  <1>2. input.sizes \in Seq(Nat \ {0}) /\ input.budget \subseteq Nat /\ input.license_key \in BOOLEAN
    BY <1>1, ChunkedSendAssumption
  <1> QED
    BY <1>2, ChunkedSendAssumption DEF Items

\* The loop that cuts.
LEMMA CutType == ASSUME Typed, Cut PROVE Typed'
  <1>1. /\ rest \in Seq(Items) /\ rest # <<>>
        /\ current \in Seq(Items) /\ current_size \in Nat /\ chunks \in Seq(Seq(Items))
        /\ input.sizes \in [Items -> Nat \ {0}] /\ Items' = Items
    BY InputType DEF Cut, Typed, TypeOK, Items
  <1> HIDE DEF Items
  <1>2. /\ Head(rest) \in Items /\ Tail(rest) \in Seq(Items)
        /\ input.sizes[Head(rest)] \in Nat
    BY <1>1
  <1>3. /\ current' \in Seq(Items) /\ current_size' \in Nat /\ chunks' \in Seq(Seq(Items))
        /\ Len(chunks') >= Len(chunks)
    <2>1. CASE Full(Head(rest))
      <3>1. /\ chunks' = Append(chunks, current) /\ current' = <<Head(rest)>>
            /\ current_size' = input.sizes[Head(rest)]
        BY <2>1 DEF Cut
      <3> QED
        BY <1>1, <1>2, <3>1
    <2>2. CASE ~Full(Head(rest))
      <3>1. /\ chunks' = chunks /\ current' = Append(current, Head(rest))
            /\ current_size' = current_size + input.sizes[Head(rest)]
        BY <2>2 DEF Cut
      <3> QED
        BY <1>1, <1>2, <3>1
    <2> QED
      BY <2>1, <2>2
  <1>4. nth' \in 0..Len(chunks')
    BY <1>1, <1>3 DEF Cut, Typed, TypeOK, postVars
  <1> QED
    BY <1>1, <1>2, <1>3, <1>4 DEF Cut, Typed, TypeOK, StageInv, postVars, keptVars, ledger

\* Its end.
LEMMA LastCutType == ASSUME Typed, LastCut PROVE Typed'
  <1>1. chunks' \in Seq(Seq(Items)) /\ Len(chunks') >= Len(chunks) /\ <<>> \in Seq(Items)
    BY DEF LastCut, Typed, TypeOK
  <1>2. nth' \in 0..Len(chunks')
    BY <1>1 DEF LastCut, Typed, TypeOK, postVars
  <1> QED
    BY <1>1, <1>2 DEF LastCut, Typed, TypeOK, StageInv, Items, postVars, keptVars, ledger

\* The parts of a halved chunk are its parts: every log is in one of them, and no log in both.
LEMMA HalvesOf ==
    ASSUME NEW part \in [logs : Seq(Items), depth : 0..MAX_SPLIT_DEPTH],
           MAX_SPLIT_DEPTH \in Nat, part.depth < MAX_SPLIT_DEPTH, Len(part.logs) > 1
    PROVE  /\ Halves(part) \in Seq([logs : Seq(Items), depth : 0..MAX_SPLIT_DEPTH])
           /\ \E a, b \in [logs : Seq(Items), depth : 0..MAX_SPLIT_DEPTH] :
                 Halves(part) = <<a, b>> /\ a.logs \o b.logs = part.logs
  <1> DEFINE mid  == Len(part.logs) \div 2
             low  == SubSeq(part.logs, 1, mid)
             high == SubSeq(part.logs, mid + 1, Len(part.logs))
  <1>1. part.logs \in Seq(Items) /\ Len(part.logs) \in Nat /\ part.depth + 1 \in 0..MAX_SPLIT_DEPTH
    OBVIOUS
  <1>2. mid \in Nat /\ mid <= Len(part.logs)
    BY <1>1
  <1>3. low \in Seq(Items) /\ high \in Seq(Items)
    <2> HIDE DEF mid
    <2> QED
      BY <1>1, <1>2
  <1>4. low \o high = part.logs
    <2>1. mid \in 0..Len(part.logs)
      BY <1>1, <1>2
    <2> HIDE DEF mid
    <2> QED
      BY <1>1, <2>1, SplitAt
  <1> HIDE DEF low, high, mid
  <1> DEFINE P == [logs : Seq(Items), depth : 0..MAX_SPLIT_DEPTH]
             a == [logs |-> low, depth |-> part.depth + 1]
             b == [logs |-> high, depth |-> part.depth + 1]
  <1>5. Halves(part) = <<a, b>>
    BY DEF Halves, low, high, mid
  <1>6. a \in P /\ b \in P /\ a.logs = low /\ b.logs = high
    BY <1>1, <1>3
  <1> HIDE DEF a, b, P
  <1>7. Halves(part) \in Seq(P)
    BY <1>5, <1>6
  <1> QED
    BY <1>4, <1>5, <1>6, <1>7 DEF P

\* The part being posted, and what is left of the chunk after it.
LEMMA PartsType ==
    ASSUME Typed, stage = "sending", work # <<>>
    PROVE  /\ Head(work) \in [logs : Seq(Items), depth : 0..MAX_SPLIT_DEPTH]
           /\ Head(work).logs \in Seq(Items) /\ Head(work).depth \in 0..MAX_SPLIT_DEPTH
           /\ Tail(work) \in Seq([logs : Seq(Items), depth : 0..MAX_SPLIT_DEPTH])
           /\ <<>> \o Tail(work) = Tail(work)
           /\ Len(work) \in Nat \ {0} /\ Len(Tail(work)) = Len(work) - 1
           /\ nth \in 1..Len(chunks)
           /\ chunks[nth] \in Seq(Items)
  <1> DEFINE Part == [logs : Seq(Items), depth : 0..MAX_SPLIT_DEPTH]
  <1>1. work \in Seq(Part) /\ nth \in 0..Len(chunks) /\ chunks \in Seq(Seq(Items)) /\ nth # 0
    BY DEF Typed, TypeOK, StageInv
  <1> HIDE DEF Part
  <1>2. Head(work) \in Part /\ Tail(work) \in Seq(Part) /\ Len(Tail(work)) = Len(work) - 1
        /\ Len(work) \in Nat \ {0}
    BY <1>1
  <1>3. <<>> \o Tail(work) = Tail(work)
    BY <1>2
  <1>4. nth \in 1..Len(chunks) /\ chunks[nth] \in Seq(Items)
    BY <1>1
  <1> QED
    BY <1>2, <1>3, <1>4 DEF Part

\* A post is answered.
LEMMA AttemptType ==
    ASSUME Typed, NEW answer \in Answers, Attempt(answer)
    PROVE  Typed'
  <1> DEFINE part  == Head(work)
             Part  == [logs : Seq(Items), depth : 0..MAX_SPLIT_DEPTH]
             spent == elapsed + (IF answer = "timeout" THEN HttpTimeout ELSE 0)
  <1>1. /\ stage = "sending" /\ work # <<>>
        /\ classify_and_maybe_flip(answer)
        /\ wasted' = IF Answered = {"timeout"} THEN wasted + 1 ELSE wasted
        /\ \/ Accept(part)
           \/ Halve(part)
           \/ Refuse(part)
           \/ PostAgain(spent)
           \/ GiveBack(part, spent)
        /\ UNCHANGED <<input, caller, stage, cutVars, nth, keptVars>>
    BY DEF Attempt
  <1>2. /\ part \in Part /\ part.logs \in Seq(Items) /\ Tail(work) \in Seq(Part)
        /\ <<>> \o Tail(work) = Tail(work) /\ nth # 0
        /\ chunks[nth] \in Seq(Items) /\ part.depth \in 0..MAX_SPLIT_DEPTH
    BY <1>1, PartsType
  <1>3. spent \in Nat
    <2>1. HttpTimeout \in Nat
      BY InputType DEF Typed
    <2>2. elapsed \in Nat
      BY DEF Typed, TypeOK
    <2> QED
      BY <2>1, <2>2
  <1>4. ToSet(part.logs) \subseteq Items /\ ToSet(chunks[nth]) \subseteq Items
    BY <1>2, ElementAt
  <1>5. /\ work \in Seq(Part) /\ returned \in Seq(Items) /\ retries \in Nat /\ elapsed \in Nat
        /\ accepted \in [Items -> Nat] /\ refused \subseteq Items /\ halved \subseteq Items
        /\ wasted \in Nat
        /\ 0 \in Nat
    BY DEF Typed, TypeOK
  <1> HIDE DEF part, spent, Part
  <1>6. /\ work' \in Seq(Part) /\ returned' \in Seq(Items) /\ retries' \in Nat /\ elapsed' \in Nat
        /\ accepted' \in [Items -> Nat] /\ refused' \subseteq Items /\ halved' \subseteq Items
    <2>1. CASE Accept(part)
      BY <1>2, <1>5, <2>1 DEF Accept, NextPart
    <2>2. CASE Halve(part)
      <3>1. Halves(part) \in Seq(Part)
        BY <1>2, <2>2, HalvesOf, InputType DEF Halve, MayHalvePart, Typed, Part
      <3>2. work' = Halves(part) \o Tail(work)
        BY <2>2 DEF Halve, NextPart
      <3>3. work' \in Seq(Part)
        BY <1>2, <3>1, <3>2
      <3> QED
        BY <1>4, <1>5, <2>2, <3>3 DEF Halve, NextPart
    <2>3. CASE Refuse(part)
      BY <1>2, <1>4, <1>5, <2>3 DEF Refuse, NextPart
    <2>4. CASE PostAgain(spent)
      <3>1. Delay(retries + 1) \in Nat
        BY <1>5, DelayType
      <3> QED
        BY <1>3, <1>5, <2>4, <3>1 DEF PostAgain
    <2>5. CASE GiveBack(part, spent)
      <3>1. returned' = returned \o part.logs
        BY <2>5 DEF GiveBack, Returned
      <3>2. returned' \in Seq(Items)
        BY <1>2, <1>5, <3>1
      <3> QED
        BY <1>2, <1>5, <2>5, <3>2 DEF GiveBack, NextPart
    <2> QED
      BY <1>1, <2>1, <2>2, <2>3, <2>4, <2>5
  <1>7. USE_CLASSICAL_TLS' \in BOOLEAN /\ wasted' \in Nat
    BY <1>1, <1>5 DEF classify_and_maybe_flip, Typed, TypeOK
  <1>8. Items' = Items
    BY <1>1 DEF Items
  <1>9. TypeOK'
    BY <1>1, <1>6, <1>7, <1>8 DEF Typed, TypeOK, cutVars, keptVars, Part
  <1>10. StageInv'
    BY <1>1, <1>2 DEF Typed, StageInv, cutVars, keptVars
  <1> QED
    BY <1>9, <1>10 DEF Typed

\* The steps that change a part or the latch only.
LEMMA UnlicensedType == ASSUME Typed, Unlicensed PROVE Typed'
  <1>1. /\ work' = Tail(work) /\ retries' = 0 /\ elapsed' = 0 /\ nth # 0 /\ stage = "sending"
        /\ work' \in Seq([logs : Seq(Items), depth : 0..MAX_SPLIT_DEPTH])
    BY PartsType DEF Unlicensed, NextPart
  <1>2. Items' = Items
    BY DEF Unlicensed, Items
  <1>3. TypeOK'
    BY <1>1, <1>2 DEF Unlicensed, Typed, TypeOK, cutVars, keptVars, ledger
  <1>4. StageInv'
    BY <1>1 DEF Unlicensed, Typed, StageInv, cutVars, keptVars, ledger
  <1> QED
    BY <1>3, <1>4 DEF Typed

\* See UnlicensedType.
LEMMA FlippedType == ASSUME Typed, FlippedElsewhere PROVE Typed'
  <1>1. Items' = Items
    BY DEF FlippedElsewhere, Items
  <1> QED
    BY <1>1 DEF FlippedElsewhere, Typed, TypeOK, StageInv, cutVars, keptVars, ledger

\* What is kept of a chunk is of the batch.
LEMMA KeptType ==
    ASSUME Typed, nth # 0
    PROVE  Kept \in Seq(Items) /\ nth \in 1..Len(chunks) /\ chunks[nth] \in Seq(Items)
  <1>1. chunks \in Seq(Seq(Items)) /\ nth \in 1..Len(chunks) /\ returned \in Seq(Items)
    BY DEF Typed, TypeOK
  <1>2. chunks[nth] \in Seq(Items) /\ <<>> \in Seq(Items)
    BY <1>1
  <1> QED
    BY <1>1, <1>2 DEF Kept

\* The next chunk.
LEMMA NextChunkType == ASSUME Typed, NextChunk PROVE Typed'
  <1>1. /\ stage = "sending" /\ work = <<>>
        /\ failed_logs_buffer' = IF nth = 0 THEN failed_logs_buffer
                                 ELSE failed_logs_buffer \o Kept
        /\ returned' = <<>>
        /\ UNCHANGED <<input, caller, retries, elapsed, USE_CLASSICAL_TLS, retry_count, ledger>>
    BY DEF NextChunk
  <1>2. Items' = Items
    BY <1>1 DEF Items
  <1>3. chunks \in Seq(Seq(Items)) /\ nth \in 0..Len(chunks) /\ failed_logs_buffer \in Seq(Items)
        /\ later \in Seq(Items) /\ <<>> \in Seq(Items) /\ <<>> \in Seq(Seq(Items))
        /\ Len(chunks) \in Nat /\ MAX_SPLIT_DEPTH \in Nat
    <2>1. MAX_SPLIT_DEPTH \in Nat
      BY InputType DEF Typed
    <2>2. chunks \in Seq(Seq(Items)) /\ nth \in 0..Len(chunks) /\ failed_logs_buffer \in Seq(Items)
          /\ later \in Seq(Items)
      BY DEF Typed, TypeOK
    <2>3. Len(chunks) \in Nat
      BY <2>2
    <2>4. <<>> \in Seq(Items) /\ <<>> \in Seq(Seq(Items))
      OBVIOUS
    <2> QED
      BY <2>1, <2>2, <2>3, <2>4, Zenon
  <1>4. failed_logs_buffer' \in Seq(Items) /\ returned' \in Seq(Items)
    <2>1. nth # 0 => Kept \in Seq(Items)
      BY KeptType
    <2>2. nth # 0 => failed_logs_buffer \o Kept \in Seq(Items)
      BY <1>3, <2>1
    <2> QED
      BY <1>1, <1>3, <2>2
  <1>5. caller \in {"preInvoke", "shutdown"} => failed_logs_buffer' = <<>>
    <2>1. caller \in {"preInvoke", "shutdown"} => Kept = <<>> /\ failed_logs_buffer = <<>>
      BY DEF Kept, Typed, StageInv
    <2> QED
      BY <1>1, <2>1
  <1>6. CASE nth < Len(chunks) /\ SendChunk(nth + 1)
    <2>1. nth' = nth + 1 /\ work' = <<[logs |-> chunks[nth + 1], depth |-> 0]>>
          /\ UNCHANGED <<stage, batch, later, rest, current, current_size, chunks>>
      BY <1>6 DEF SendChunk, cutVars
    <2>2. nth + 1 \in 1..Len(chunks)
      BY <1>3, <1>6
    <2>3. chunks[nth + 1] \in Seq(Items) /\ 0 \in 0..MAX_SPLIT_DEPTH
      BY <1>3, <2>2
    <2>4. work' \in Seq([logs : Seq(Items), depth : 0..MAX_SPLIT_DEPTH])
      BY <2>1, <2>3
    <2>5. TypeOK'
      BY <1>1, <1>2, <1>3, <1>4, <2>1, <2>2, <2>4 DEF Typed, TypeOK, ledger
    <2>6. StageInv'
      BY <1>1, <1>3, <1>5, <2>1 DEF Typed, StageInv
    <2> QED
      BY <2>5, <2>6 DEF Typed
  <1>7. CASE nth = Len(chunks) /\ later # <<>> /\ Begin(later, <<>>) /\ UNCHANGED work
    <2>1. /\ stage' = "cutting" /\ batch' = later /\ rest' = later /\ later' = <<>>
          /\ current' = <<>> /\ current_size' = 0 /\ chunks' = <<>> /\ nth' = 0 /\ work' = work
      BY <1>7 DEF Begin
    <2>2. TypeOK'
      BY <1>1, <1>2, <1>3, <1>4, <2>1 DEF Typed, TypeOK, ledger
    <2>3. StageInv'
      BY <1>1, <1>5, <2>1 DEF Typed, StageInv
    <2> QED
      BY <2>2, <2>3 DEF Typed
  <1>8. CASE /\ nth = Len(chunks) /\ later = <<>>
             /\ stage' = IF failed_logs_buffer' = <<>> THEN "done" ELSE "kept"
             /\ UNCHANGED <<cutVars, nth, work>>
    <2>1. TypeOK'
      BY <1>1, <1>2, <1>3, <1>4, <1>8 DEF Typed, TypeOK, ledger, cutVars
    <2>2. StageInv'
      BY <1>1, <1>5, <1>8 DEF Typed, StageInv, cutVars
    <2> QED
      BY <2>1, <2>2 DEF Typed
  <1> QED
    BY <1>6, <1>7, <1>8 DEF NextChunk

\* The retry of what was kept.
LEMMA RetryType == ASSUME Typed, start_invocation_retry PROVE Typed'
  <1> DEFINE again == Filter(failed_logs_buffer, {i \in Items : MayRetry(i)})
             high  == Filter(again, Items \ input.low)
             low   == Filter(again, input.low)
  <1>1. /\ stage = "kept" /\ failed_logs_buffer' = <<>>
        /\ retry_count' = [i \in Items |-> IF i \in ToSet(again) THEN retry_count[i] + 1
                                           ELSE retry_count[i]]
        /\ \/ again = <<>> /\ stage' = "done" /\ UNCHANGED <<caller, cutVars, nth>>
           \/ again # <<>> /\ caller' = "retry" /\ Begin(high, low)
        /\ UNCHANGED <<input, work, returned, retries, elapsed, USE_CLASSICAL_TLS, ledger>>
    BY DEF start_invocation_retry
  <1>2. again \in Seq(Items) /\ ToSet(again) \subseteq {i \in Items : MayRetry(i)}
    <2>1. failed_logs_buffer \in Seq(Items)
      BY DEF Typed, TypeOK
    <2> QED
      BY <2>1, FilterElements
  <1> HIDE DEF again
  <1>3. high \in Seq(Items) /\ low \in Seq(Items)
    BY <1>2, FilterElements
  <1> HIDE DEF high, low
  <1>4. Items' = Items /\ <<>> \in Seq(Items) /\ <<>> \in Seq(Seq(Items))
    BY <1>1 DEF Items
  <1>5. retry_count' \in [Items -> 0..LogRetries]
    <2>1. LogRetries \in Nat /\ retry_count \in [Items -> 0..LogRetries]
      BY InputType DEF Typed, TypeOK
    <2>2. \A i \in ToSet(again) : retry_count[i] < LogRetries
      BY <1>2 DEF MayRetry
    <2> QED
      BY <1>1, <2>1, <2>2
  <1>6. CASE again = <<>> /\ stage' = "done" /\ UNCHANGED <<caller, cutVars, nth>>
    <2>1. TypeOK'
      BY <1>1, <1>4, <1>5, <1>6 DEF Typed, TypeOK, cutVars, ledger
    <2>2. StageInv'
      BY <1>1, <1>6 DEF Typed, StageInv, cutVars
    <2> QED
      BY <2>1, <2>2 DEF Typed
  <1>7. CASE again # <<>> /\ caller' = "retry" /\ Begin(high, low)
    <2>1. TypeOK'
      BY <1>1, <1>3, <1>4, <1>5, <1>7 DEF Typed, TypeOK, Begin, ledger, Callers
    <2>2. StageInv'
      BY <1>1, <1>7 DEF Typed, StageInv, Begin
    <2> QED
      BY <2>1, <2>2 DEF Typed
  <1> QED
    BY <1>1, <1>6, <1>7

\* Every step keeps the types.
LEMMA TypedStep == Typed /\ [Next]_vars => Typed'
  <1> SUFFICES ASSUME Typed, [Next]_vars PROVE Typed'
    OBVIOUS
  <1>1. CASE UNCHANGED vars
    BY <1>1 DEF vars, cutVars, postVars, keptVars, ledger, Typed, TypeOK, StageInv, Items
  <1>2. CASE Terminated
    BY <1>1, <1>2 DEF Terminated
  <1> QED
    BY <1>1, <1>2, CutType, LastCutType, AttemptType, UnlicensedType, FlippedType, NextChunkType,
       RetryType DEF Next

\* The types hold throughout.
LEMMA AlwaysTyped == Spec => []Typed
  BY TypedInit, TypedStep, PTL DEF Spec

\* Every variable keeps its type; among others, no part is halved more often than the code
\* allows, and no log is retried more often than it may be.
THEOREM TypeCorrect == Spec => []TypeOK
  BY AlwaysTyped, PTL DEF Typed

-----------------------------------------------------------------------------
(* Bounds.                                                                 *)

\* The retries of a post and the time they take are bounded, by the limit of attempts or by
\* the time budget and one backoff.
THEOREM PostsAreBounded == Spec => []AttemptsBounded
  <1>1. Init => AttemptsBounded
    BY ChunkedSendAssumption DEF Init, AttemptsBounded
  <1>2. Typed /\ AttemptsBounded /\ [Next]_vars => AttemptsBounded'
    <2> SUFFICES ASSUME Typed, AttemptsBounded, [Next]_vars PROVE AttemptsBounded'
      OBVIOUS
    <2>1. /\ retries \in Nat /\ elapsed \in Nat /\ HttpTimeout \in Nat
          /\ Budget \subseteq Nat /\ MAX_RETRIES \in Nat /\ BudgetRetries \in Nat
      <3>1. TypeOK
        BY DEF Typed
      <3> QED
        BY <3>1, InputType DEF TypeOK, Budget
    <2>2. CASE UNCHANGED <<input, retries, elapsed>>
      BY <2>2 DEF AttemptsBounded, Budget, Delay
    <2>3. CASE input' = input /\ retries' = 0
      BY <2>3, InputType DEF AttemptsBounded, Budget, Typed
    <2>4. ASSUME NEW answer \in Answers, Attempt(answer), input' = input,
                 NEW spent \in Nat, PostAgain(spent)
          PROVE  AttemptsBounded'
      <3>1. /\ retry_allowed(spent) /\ retries' = retries + 1
            /\ elapsed' = spent + Delay(retries') /\ Budget' = Budget
        BY <2>4 DEF PostAgain, Budget
      <3>2. retries \in Nat /\ retries' \in Nat \ {0} /\ Budget \subseteq Nat
            /\ MAX_RETRIES \in Nat /\ BudgetRetries \in Nat
        BY <2>1, <3>1
      <3>3. Delay(retries') \in Nat /\ Delay(retries)' = Delay(retries')
        BY <3>1, <3>2, DelayType DEF Delay
      <3> QED
        BY <3>1, <3>2, <3>3 DEF AttemptsBounded, retry_allowed
    <2>5. ASSUME NEW answer \in Answers, Attempt(answer) PROVE AttemptsBounded'
      <3> DEFINE spent == elapsed + (IF answer = "timeout" THEN HttpTimeout ELSE 0)
      <3>1. input' = input /\ (retries' = 0 \/ PostAgain(spent))
        BY <2>5 DEF Attempt, Accept, Halve, Refuse, GiveBack, NextPart
      <3>2. spent \in Nat
        BY <2>1
      <3> QED
        BY <2>3, <2>4, <2>5, <3>1, <3>2
    <2> QED
      BY <2>2, <2>3, <2>5 DEF Next, vars, postVars, Cut, LastCut, Unlicensed, NextPart,
         FlippedElsewhere, NextChunk, start_invocation_retry, Terminated
  <1> QED
    BY <1>1, <1>2, AlwaysTyped, PTL DEF Spec

\* What swallows the hello costs one attempt: after it, the latch is set.
THEOREM HangsOnce == Spec => []OneHang
  <1> DEFINE HangInv == wasted \in 0..1 /\ (~USE_CLASSICAL_TLS => wasted = 0)
  <1>1. Init => HangInv
    BY DEF Init
  <1>2. Typed /\ HangInv /\ [Next]_vars => HangInv'
    <2> SUFFICES ASSUME Typed, HangInv, [Next]_vars PROVE HangInv'
      OBVIOUS
    <2>1. CASE wasted' = wasted /\ (USE_CLASSICAL_TLS => USE_CLASSICAL_TLS')
      BY <2>1
    <2>2. ASSUME NEW answer \in Answers, Attempt(answer) PROVE HangInv'
      <3>1. answer \in Answered /\ classify_and_maybe_flip(answer)
            /\ wasted' = IF Answered = {"timeout"} THEN wasted + 1 ELSE wasted
        BY <2>2 DEF Attempt
      <3>2. CASE Answered = {"timeout"}
        <4>1. ~USE_CLASSICAL_TLS
          BY <3>2 DEF Answered, Answers
        <4>2. USE_CLASSICAL_TLS'
          BY <3>1, <3>2 DEF classify_and_maybe_flip
        <4> QED
          BY <3>1, <3>2, <4>1, <4>2
      <3>3. CASE Answered # {"timeout"}
        BY <2>1, <3>1, <3>3 DEF classify_and_maybe_flip
      <3> QED
        BY <3>2, <3>3
    <2> QED
      BY <2>1, <2>2 DEF Next, vars, postVars, ledger, Cut, LastCut, Unlicensed,
         FlippedElsewhere, NextChunk, start_invocation_retry, Terminated
  <1>3. HangInv => OneHang
    BY DEF OneHang
  <1> QED
    BY <1>1, <1>2, <1>3, AlwaysTyped, PTL DEF Spec

-----------------------------------------------------------------------------
(* The loop that cuts.  Cutting says of any batch b of items of weights f  *)
(* what holds while it is cut into cs, with c, of size n, being cut and r  *)
(* left; o is the overhead.                                                *)

\* A chunk is not empty, and exceeds the limit only by an item that does so alone.
FitsIn(c, f, o) == Len(c) = 1 \/ (c # <<>> /\ Total(f, c) + o <= MAX_CHUNK_SIZE)

Cutting(cs, c, r, b, n, f, o) ==
    /\ (FlattenSeq(cs) \o c) \o r = b
    /\ \A k \in DOMAIN cs : FitsIn(cs[k], f, o)
    /\ n = Total(f, c)
    /\ c = <<>> \/ FitsIn(c, f, o)

CutInv == Cutting(chunks, current, rest, batch, current_size, input.sizes, Overhead)

\* The first element, put before the others.
LEMMA HeadAndTail ==
    ASSUME NEW T, NEW s \in Seq(T), s # <<>>, NEW t \in Seq(T), NEW u \in Seq(T)
    PROVE  /\ ((t \o u) \o <<Head(s)>>) \o Tail(s) = (t \o u) \o s
           /\ (t \o Append(u, Head(s))) \o Tail(s) = (t \o u) \o s
  <1>1. /\ Head(s) \in T /\ Tail(s) \in Seq(T) /\ <<Head(s)>> \in Seq(T) /\ t \o u \in Seq(T)
        /\ Append(u, Head(s)) = u \o <<Head(s)>> /\ Append(u, Head(s)) \in Seq(T)
    OBVIOUS
  <1>2. <<Head(s)>> \o Tail(s) = s
    <2>1. /\ <<Head(s)>> \o Tail(s) \in Seq(T)
          /\ Len(<<Head(s)>> \o Tail(s)) = Len(s)
          /\ \A i \in 1..Len(s) : (<<Head(s)>> \o Tail(s))[i] = s[i]
      BY <1>1
    <2> QED
      BY <2>1, SeqEqual
  <1>3. ((t \o u) \o <<Head(s)>>) \o Tail(s) = (t \o u) \o (<<Head(s)>> \o Tail(s))
    BY <1>1, ConcatAssociative
  <1>4. t \o (u \o <<Head(s)>>) = (t \o u) \o <<Head(s)>>
    BY <1>1, ConcatAssociative
  <1> QED
    BY <1>1, <1>2, <1>3, <1>4

\* Chunks that fit, and one more.
LEMMA FitsAppend ==
    ASSUME NEW T, NEW cs \in Seq(Seq(T)), NEW c \in Seq(T), NEW f, NEW o,
           \A k \in DOMAIN cs : FitsIn(cs[k], f, o), FitsIn(c, f, o)
    PROVE  \A k \in DOMAIN Append(cs, c) : FitsIn(Append(cs, c)[k], f, o)
  <1>1. DOMAIN Append(cs, c) = 1..(Len(cs) + 1) /\ Append(cs, c)[Len(cs) + 1] = c
        /\ \A n \in 1..Len(cs) : Append(cs, c)[n] = cs[n]
        /\ DOMAIN cs = 1..Len(cs) /\ Len(cs) \in Nat
    OBVIOUS
  <1>2. \A n \in 1..(Len(cs) + 1) : n \in 1..Len(cs) \/ n = Len(cs) + 1
    BY <1>1
  <1> QED
    BY <1>1, <1>2

\* The item that would exceed the limit begins a chunk.
LEMMA CutFull ==
    ASSUME NEW T, NEW f \in [T -> Nat], NEW o, NEW b, NEW n,
           NEW cs \in Seq(Seq(T)), NEW c \in Seq(T), NEW r \in Seq(T),
           Cutting(cs, c, r, b, n, f, o), r # <<>>, c # <<>>
    PROVE  Cutting(Append(cs, c), <<Head(r)>>, Tail(r), b, f[Head(r)], f, o)
  <1>1. /\ (FlattenSeq(cs) \o c) \o r = b /\ FitsIn(c, f, o)
        /\ \A k \in DOMAIN cs : FitsIn(cs[k], f, o)
    BY DEF Cutting
  <1>2. FlattenSeq(cs) \in Seq(T) /\ FlattenSeq(Append(cs, c)) = FlattenSeq(cs) \o c
    BY FlattenAppend
  <1>3. (FlattenSeq(Append(cs, c)) \o <<Head(r)>>) \o Tail(r) = b
    <2>1. ((FlattenSeq(cs) \o c) \o <<Head(r)>>) \o Tail(r) = (FlattenSeq(cs) \o c) \o r
      BY <1>2, HeadAndTail
    <2> QED
      BY <1>1, <1>2, <2>1
  <1>4. \A k \in DOMAIN Append(cs, c) : FitsIn(Append(cs, c)[k], f, o)
    BY <1>1, FitsAppend
  <1>5. Head(r) \in T /\ Len(<<Head(r)>>) = 1
    OBVIOUS
  <1>6. Total(f, <<Head(r)>>) = f[Head(r)]
    BY <1>5, TotalHeadTail
  <1> QED
    BY <1>3, <1>4, <1>5, <1>6 DEF Cutting, FitsIn

\* Appending makes a sequence one longer.
LEMMA AppendLength ==
    ASSUME NEW T, NEW c \in Seq(T), NEW x \in T
    PROVE  Append(c, x) # <<>> /\ (c = <<>> => Len(Append(c, x)) = 1)
  <1>1. Len(Append(c, x)) = Len(c) + 1 /\ Len(c) \in Nat /\ Len(<<>>) = 0
    OBVIOUS
  <1> QED
    BY <1>1

\* The item that does not is put into the chunk being cut.
LEMMA CutMore ==
    ASSUME NEW T, NEW f \in [T -> Nat], NEW o, NEW b, NEW n \in Nat,
           NEW cs \in Seq(Seq(T)), NEW c \in Seq(T), NEW r \in Seq(T),
           Cutting(cs, c, r, b, n, f, o), r # <<>>,
           c = <<>> \/ n + f[Head(r)] + o <= MAX_CHUNK_SIZE
    PROVE  Cutting(cs, Append(c, Head(r)), Tail(r), b, n + f[Head(r)], f, o)
  <1>1. /\ (FlattenSeq(cs) \o c) \o r = b /\ n = Total(f, c)
        /\ \A k \in DOMAIN cs : FitsIn(cs[k], f, o)
    BY DEF Cutting
  <1>2. FlattenSeq(cs) \in Seq(T)
    BY FlattenAppend
  <1>3. (FlattenSeq(cs) \o Append(c, Head(r))) \o Tail(r) = b
    BY <1>1, <1>2, HeadAndTail
  <1>4. Head(r) \in T
    OBVIOUS
  <1>5. Total(f, Append(c, Head(r))) = n + f[Head(r)]
    BY <1>1, <1>4, TotalAppend
  <1>6. Append(c, Head(r)) # <<>> /\ (c = <<>> => Len(Append(c, Head(r))) = 1)
    BY <1>4, AppendLength
  <1> QED
    BY <1>1, <1>3, <1>5, <1>6 DEF Cutting, FitsIn

\* The last chunk.
LEMMA CutEnd ==
    ASSUME NEW T, NEW f \in [T -> Nat], NEW o, NEW b, NEW n,
           NEW cs \in Seq(Seq(T)), NEW c \in Seq(T),
           Cutting(cs, c, <<>>, b, n, f, o)
    PROVE  Cutting(IF c = <<>> THEN cs ELSE Append(cs, c), <<>>, <<>>, b, 0, f, o)
  <1>1. /\ (FlattenSeq(cs) \o c) \o <<>> = b /\ (c = <<>> \/ FitsIn(c, f, o))
        /\ \A k \in DOMAIN cs : FitsIn(cs[k], f, o)
    BY DEF Cutting
  <1>2. FlattenSeq(cs) \in Seq(T) /\ FlattenSeq(Append(cs, c)) = FlattenSeq(cs) \o c
    BY FlattenAppend
  <1>3. \A s \in Seq(T) : s \o <<>> = s
    BY ConcatEmptySeq
  <1>4. FlattenSeq(cs) \o c \in Seq(T)
    BY <1>2
  <1>5. Total(f, <<>>) = 0
    BY TotalAppend
  <1>6. CASE c = <<>>
    BY <1>1, <1>2, <1>3, <1>5, <1>6 DEF Cutting
  <1>7. CASE c # <<>>
    <2>1. (FlattenSeq(Append(cs, c)) \o <<>>) \o <<>> = b
      BY <1>1, <1>2, <1>3, <1>4
    <2>2. \A k \in DOMAIN Append(cs, c) : FitsIn(Append(cs, c)[k], f, o)
      BY <1>1, <1>7, FitsAppend
    <2> QED
      BY <1>5, <1>7, <2>1, <2>2 DEF Cutting
  <1> QED
    BY <1>6, <1>7

\* A batch of which nothing is cut.
LEMMA CutBegin ==
    ASSUME NEW T, NEW f \in [T -> Nat], NEW o, NEW s \in Seq(T)
    PROVE  Cutting(<<>>, <<>>, s, s, 0, f, o)
  <1>1. FlattenSeq(<<>>) = <<>> /\ Total(f, <<>>) = 0 /\ <<>> \in Seq(T)
    BY FlattenAppend, TotalAppend
  <1>2. <<>> \o <<>> = <<>> /\ <<>> \o s = s
    BY <1>1, ConcatEmptySeq
  <1> QED
    BY <1>1, <1>2 DEF Cutting

\* Every step keeps the batch in one piece.
LEMMA CutStep == Typed /\ CutInv /\ [Next]_vars => CutInv'
  <1> SUFFICES ASSUME Typed, CutInv, [Next]_vars PROVE CutInv'
    OBVIOUS
  <1> DEFINE f == input.sizes
  <1>1. /\ f \in [Items -> Nat] /\ \A i \in Items : f[i] \in Nat
        /\ chunks \in Seq(Seq(Items)) /\ current \in Seq(Items) /\ rest \in Seq(Items)
        /\ later \in Seq(Items) /\ current_size \in Nat
        /\ Cutting(chunks, current, rest, batch, current_size, f, Overhead)
    BY InputType DEF Typed, TypeOK, CutInv
  <1> HIDE DEF f
  <1>2. ASSUME input' = input, caller' = caller,
               Cutting(chunks', current', rest', batch', current_size', f, Overhead)
        PROVE  CutInv'
    BY <1>2 DEF CutInv, Overhead, f
  <1>3. CASE UNCHANGED <<input, caller, cutVars>>
    <2>1. UNCHANGED <<chunks, current, rest, batch, current_size>>
      BY <1>3 DEF cutVars
    <2> QED
      BY <1>1, <1>2, <1>3, <2>1
  <1>4. ASSUME NEW logs \in Seq(Items), NEW others, Begin(logs, others), input' = input
        PROVE  CutInv'
    <2>1. /\ chunks' = <<>> /\ current' = <<>> /\ rest' = logs /\ batch' = logs
          /\ current_size' = 0
      BY <1>4 DEF Begin
    <2>2. Cutting(<<>>, <<>>, logs, logs, 0, f, Overhead')
      BY <1>1, CutBegin
    <2> QED
      BY <1>4, <2>1, <2>2 DEF CutInv, f
  <1>5. CASE Cut
    <2>1. input' = input /\ caller' = caller /\ batch' = batch /\ rest # <<>> /\ rest' = Tail(rest)
      BY <1>5 DEF Cut
    <2>2. CASE Full(Head(rest))
      <3>1. chunks' = Append(chunks, current) /\ current' = <<Head(rest)>>
            /\ current_size' = f[Head(rest)] /\ current # <<>>
        BY <1>5, <2>2 DEF Cut, Full, f
      <3>2. Cutting(chunks', current', rest', batch', current_size', f, Overhead)
        BY <1>1, <2>1, <3>1, CutFull
      <3> QED
        BY <1>2, <2>1, <3>2
    <2>3. CASE ~Full(Head(rest))
      <3>1. chunks' = chunks /\ current' = Append(current, Head(rest))
            /\ current_size' = current_size + f[Head(rest)]
        BY <1>5, <2>3 DEF Cut, f
      <3>2. current = <<>> \/ current_size + f[Head(rest)] + Overhead <= MAX_CHUNK_SIZE
        <4>1. Overhead \in Nat /\ MAX_CHUNK_SIZE \in Nat /\ current_size \in Nat
          BY InputType DEF Overhead, Typed, TypeOK
        <4>2. Head(rest) \in Items
          BY <1>1, <2>1
        <4>3. f[Head(rest)] \in Nat
          BY <1>1, <4>2
        <4> QED
          BY <2>3, <4>1, <4>3 DEF Full, f
      <3>3. Cutting(chunks', current', rest', batch', current_size', f, Overhead)
        BY <1>1, <2>1, <3>1, <3>2, CutMore
      <3> QED
        BY <1>2, <2>1, <3>3
    <2> QED
      BY <2>2, <2>3
  <1>6. CASE LastCut
    <2>1. /\ input' = input /\ caller' = caller /\ batch' = batch /\ rest = <<>> /\ rest' = rest
          /\ chunks' = IF current = <<>> THEN chunks ELSE Append(chunks, current)
          /\ current' = <<>> /\ current_size' = 0
      BY <1>6 DEF LastCut
    <2>2. Cutting(chunks', current', rest', batch', current_size', f, Overhead)
      BY <1>1, <2>1, CutEnd
    <2> QED
      BY <1>2, <2>1, <2>2
  <1>7. CASE NextChunk
    <2>1. \/ UNCHANGED <<input, caller, cutVars>>
          \/ Begin(later, <<>>) /\ input' = input
      BY <1>7 DEF NextChunk, SendChunk
    <2> QED
      BY <1>1, <1>3, <1>4, <2>1
  <1>8. CASE start_invocation_retry
    <2> DEFINE again == Filter(failed_logs_buffer, {i \in Items : MayRetry(i)})
               high  == Filter(again, Items \ input.low)
               low   == Filter(again, input.low)
    <2>1. \/ UNCHANGED <<input, caller, cutVars>>
          \/ Begin(high, low) /\ input' = input
      BY <1>8 DEF start_invocation_retry
    <2>2. failed_logs_buffer \in Seq(Items)
      BY DEF Typed, TypeOK
    <2>3. again \in Seq(Items)
      BY <2>2, FilterElements
    <2> HIDE DEF again
    <2>4. high \in Seq(Items)
      BY <2>3, FilterElements
    <2> QED
      BY <1>3, <1>4, <2>1, <2>4
  <1> QED
    BY <1>3, <1>5, <1>6, <1>7, <1>8 DEF Next, vars, cutVars, Attempt, Unlicensed,
       FlippedElsewhere, Terminated

\* The chunks of a batch are the batch, in order, and fit, whatever the sizes.
THEOREM ChunksCoverBatch == Spec => []ChunksCover
  <1>1. Init => CutInv
    <2> SUFFICES ASSUME Init PROVE CutInv
      OBVIOUS
    <2>1. Typed
      BY TypedInit
    <2>2. rest \in Seq(Items) /\ input.sizes \in [Items -> Nat]
      BY <2>1, InputType DEF Typed, TypeOK
    <2> QED
      BY <2>2, CutBegin DEF Init, CutInv
  <1>2. CutInv => ChunksCover
    BY DEF CutInv, Cutting, FitsIn, ChunksCover, Size
  <1> QED
    BY <1>1, <1>2, AlwaysTyped, CutStep, PTL DEF Spec

-----------------------------------------------------------------------------
(* Where the items are.  Held counts the copies of an item that someone    *)
(* still has to send or to keep, place by place: what becomes of an item   *)
(* is read off how a step changes that sum.                                *)

Part == [logs : Seq(Nat), depth : Nat]

InChunks(i, cs) == Total([c \in Seq(Nat) |-> CountIn(i, c)], cs)
InParts(i, w)   == Total([p \in Part |-> CountIn(i, p.logs)], w)

Held(i) ==
    CountIn(i, rest) + CountIn(i, current) + CountIn(i, later) + CountIn(i, returned)
    + CountIn(i, failed_logs_buffer) + InChunks(i, After(chunks, nth)) + InParts(i, work)

\* The copies in chunks, as they are put together and taken.
LEMMA ChunksLaws ==
    ASSUME NEW i \in Nat
    PROVE  /\ InChunks(i, <<>>) = 0
           /\ \A cs \in Seq(Seq(Nat)) : InChunks(i, cs) \in Nat
           /\ \A cs \in Seq(Seq(Nat)), c \in Seq(Nat) :
                 InChunks(i, Append(cs, c)) = InChunks(i, cs) + CountIn(i, c)
           /\ \A cs \in Seq(Seq(Nat)) :
                 cs # <<>> => InChunks(i, cs) = CountIn(i, Head(cs)) + InChunks(i, Tail(cs))
           /\ \A cs \in Seq(Seq(Nat)) :
                 InChunks(i, cs) = 0 <=> \A k \in 1..Len(cs) : CountIn(i, cs[k]) = 0
  <1> DEFINE f == [c \in Seq(Nat) |-> CountIn(i, c)]
  <1>1. \A c \in Seq(Nat) : CountIn(i, c) \in Nat
    BY CopiesLaws
  <1>2. f \in [Seq(Nat) -> Nat] /\ \A c \in Seq(Nat) : f[c] = CountIn(i, c)
    BY <1>1
  <1> HIDE DEF f
  <1>3. \A cs : InChunks(i, cs) = Total(f, cs)
    BY DEF InChunks, f
  <1>4. Total(f, <<>>) = 0
    BY <1>2, TotalAppend
  <1>5. \A cs \in Seq(Seq(Nat)), c \in Seq(Nat) :
           Total(f, cs) \in Nat /\ Total(f, Append(cs, c)) = Total(f, cs) + f[c]
    BY <1>2, TotalAppend
  <1>6. \A cs \in Seq(Seq(Nat)) : cs # <<>> => Total(f, cs) = f[Head(cs)] + Total(f, Tail(cs))
    BY <1>2, TotalHeadTail
  <1>7. \A cs \in Seq(Seq(Nat)) : cs # <<>> => Head(cs) \in Seq(Nat)
    OBVIOUS
  <1>8. ASSUME NEW cs \in Seq(Seq(Nat))
        PROVE  Total(f, cs) = 0 <=> \A k \in 1..Len(cs) : CountIn(i, cs[k]) = 0
    <2>1. /\ Total(f, cs) \in Nat
          /\ \A x \in ToSet(cs) : f[x] <= Total(f, cs)
          /\ (\A x \in ToSet(cs) : f[x] = 0) => Total(f, cs) = 0
      BY <1>2, TotalElement
    <2>2. /\ \A k \in 1..Len(cs) : cs[k] \in ToSet(cs) /\ cs[k] \in Seq(Nat)
          /\ \A x \in ToSet(cs) : \E k \in 1..Len(cs) : cs[k] = x
      BY ElementAt
    <2>3. \A k \in 1..Len(cs) : f[cs[k]] = CountIn(i, cs[k]) /\ f[cs[k]] \in Nat
      BY <1>1, <1>2, <2>2
    <2>4. ASSUME Total(f, cs) = 0, NEW k \in 1..Len(cs) PROVE CountIn(i, cs[k]) = 0
      <3>1. f[cs[k]] <= 0 /\ f[cs[k]] \in Nat /\ f[cs[k]] = CountIn(i, cs[k])
        BY <2>1, <2>2, <2>3, <2>4
      <3> QED
        BY <3>1
    <2>5. ASSUME \A k \in 1..Len(cs) : CountIn(i, cs[k]) = 0 PROVE Total(f, cs) = 0
      <3>1. \A x \in ToSet(cs) : f[x] = 0
        BY <2>2, <2>3, <2>5
      <3> QED
        BY <2>1, <3>1
    <2> QED
      BY <2>4, <2>5
  <1>9. \A cs \in Seq(Seq(Nat)) : Total(f, cs) \in Nat
    <2>1. <<>> \in Seq(Nat)
      OBVIOUS
    <2> QED
      BY <1>5, <2>1
  <1>10. \A cs \in Seq(Seq(Nat)), c \in Seq(Nat) :
            Total(f, Append(cs, c)) = Total(f, cs) + CountIn(i, c)
    BY <1>2, <1>5
  <1>11. \A cs \in Seq(Seq(Nat)) :
            cs # <<>> => Total(f, cs) = CountIn(i, Head(cs)) + Total(f, Tail(cs))
    BY <1>2, <1>6, <1>7
  <1> QED
    BY <1>3, <1>4, <1>8, <1>9, <1>10, <1>11

\* See ChunksLaws.
LEMMA PartsLaws ==
    ASSUME NEW i \in Nat
    PROVE  /\ InParts(i, <<>>) = 0
           /\ \A w \in Seq(Part) : InParts(i, w) \in Nat
           /\ \A p \in Part : InParts(i, <<p>>) = CountIn(i, p.logs)
           /\ \A p, q \in Part : /\ <<p, q>> \in Seq(Part)
                                 /\ InParts(i, <<p, q>>) = CountIn(i, p.logs) + CountIn(i, q.logs)
           /\ \A w \in Seq(Part) :
                 w # <<>> => InParts(i, w) = CountIn(i, Head(w).logs) + InParts(i, Tail(w))
           /\ \A u, w \in Seq(Part) : InParts(i, u \o w) = InParts(i, u) + InParts(i, w)
           /\ \A w \in Seq(Part) :
                 InParts(i, w) = 0 <=> \A k \in 1..Len(w) : CountIn(i, w[k].logs) = 0
  <1> DEFINE f == [p \in Part |-> CountIn(i, p.logs)]
  <1>1. \A p \in Part : p.logs \in Seq(Nat)
    BY DEF Part
  <1>2. \A p \in Part : CountIn(i, p.logs) \in Nat
    BY <1>1, CopiesLaws
  <1>3. f \in [Part -> Nat] /\ \A p \in Part : f[p] = CountIn(i, p.logs)
    BY <1>2
  <1> HIDE DEF f
  <1>4. \A w : InParts(i, w) = Total(f, w)
    BY DEF InParts, f
  <1>5. Total(f, <<>>) = 0
    BY <1>3, TotalAppend
  <1>6. \A p \in Part : Total(f, <<p>>) = f[p]
    BY <1>3, TotalHeadTail
  <1>7. \A w \in Seq(Part) : w # <<>> => Total(f, w) = f[Head(w)] + Total(f, Tail(w))
    BY <1>3, TotalHeadTail
  <1>8. \A w \in Seq(Part) : w # <<>> => Head(w) \in Part
    OBVIOUS
  <1>9. \A u, w \in Seq(Part) : Total(f, u \o w) = Total(f, u) + Total(f, w)
    BY <1>3, TotalConcat
  <1>10. ASSUME NEW w \in Seq(Part)
         PROVE  /\ Total(f, w) \in Nat
                /\ Total(f, w) = 0 <=> \A k \in 1..Len(w) : CountIn(i, w[k].logs) = 0
    <2>1. /\ Total(f, w) \in Nat
          /\ \A x \in ToSet(w) : f[x] <= Total(f, w)
          /\ (\A x \in ToSet(w) : f[x] = 0) => Total(f, w) = 0
      BY <1>3, TotalElement
    <2>2. /\ \A k \in 1..Len(w) : w[k] \in ToSet(w) /\ w[k] \in Part
          /\ \A x \in ToSet(w) : \E k \in 1..Len(w) : w[k] = x
      BY ElementAt
    <2>3. \A k \in 1..Len(w) : f[w[k]] = CountIn(i, w[k].logs) /\ f[w[k]] \in Nat
      BY <1>2, <1>3, <2>2
    <2>4. ASSUME Total(f, w) = 0, NEW k \in 1..Len(w) PROVE CountIn(i, w[k].logs) = 0
      BY <2>1, <2>2, <2>3, <2>4
    <2>5. ASSUME \A k \in 1..Len(w) : CountIn(i, w[k].logs) = 0 PROVE Total(f, w) = 0
      <3>1. \A x \in ToSet(w) : f[x] = 0
        BY <2>2, <2>3, <2>5
      <3> QED
        BY <2>1, <3>1
    <2> QED
      BY <2>1, <2>4, <2>5
  <1>11. \A p \in Part : Total(f, <<p>>) = CountIn(i, p.logs)
    BY <1>3, <1>6
  <1>12. \A w \in Seq(Part) :
            w # <<>> => Total(f, w) = CountIn(i, Head(w).logs) + Total(f, Tail(w))
    BY <1>3, <1>7, <1>8
  <1>13. \A p, q \in Part : /\ <<p, q>> \in Seq(Part)
                            /\ Total(f, <<p, q>>) = CountIn(i, p.logs) + CountIn(i, q.logs)
    <2>1. \A p, q \in Part : <<p, q>> \in Seq(Part) /\ Total(f, <<p, q>>) = f[p] + f[q]
      BY <1>3, TotalTwo
    <2> QED
      BY <1>3, <2>1
  <1> QED
    BY <1>4, <1>5, <1>9, <1>10, <1>11, <1>12, <1>13

\* The items are numbers, and so are the counts of their copies.
LEMMA Numbered ==
    ASSUME Typed
    PROVE  /\ Items \subseteq Nat
           /\ rest \in Seq(Nat) /\ current \in Seq(Nat) /\ later \in Seq(Nat)
           /\ returned \in Seq(Nat) /\ failed_logs_buffer \in Seq(Nat)
           /\ chunks \in Seq(Seq(Nat)) /\ After(chunks, nth) \in Seq(Seq(Nat))
           /\ work \in Seq(Part)
  <1>1. Items \subseteq Nat
    BY InputType DEF Typed
  <1>2. Seq(Items) \subseteq Seq(Nat)
    BY <1>1, SeqMonotonic
  <1>3. [logs : Seq(Items), depth : 0..MAX_SPLIT_DEPTH] \subseteq Part
    BY <1>2, InputType DEF Typed, Part
  <1>4. /\ rest \in Seq(Items) /\ current \in Seq(Items) /\ later \in Seq(Items)
        /\ returned \in Seq(Items) /\ failed_logs_buffer \in Seq(Items)
        /\ chunks \in Seq(Seq(Items)) /\ nth \in 0..Len(chunks)
        /\ work \in Seq([logs : Seq(Items), depth : 0..MAX_SPLIT_DEPTH])
    BY DEF Typed, TypeOK
  <1>5. chunks \in Seq(Seq(Nat))
    BY <1>2, <1>4
  <1>6. After(chunks, nth) \in Seq(Seq(Nat))
    BY <1>4, <1>5, AfterOf
  <1>7. work \in Seq(Part)
    <2> DEFINE P == [logs : Seq(Items), depth : 0..MAX_SPLIT_DEPTH]
    <2>1. P \subseteq Part /\ work \in Seq(P)
      BY <1>3, <1>4
    <2> HIDE DEF P
    <2> QED
      BY <2>1
  <1> QED
    BY <1>1, <1>2, <1>4, <1>5, <1>6, <1>7

\* The counts of an item, place by place.
Counts ==
    \A i \in Nat :
       /\ CountIn(i, rest) \in Nat /\ CountIn(i, current) \in Nat /\ CountIn(i, later) \in Nat
       /\ CountIn(i, returned) \in Nat /\ CountIn(i, failed_logs_buffer) \in Nat
       /\ InChunks(i, After(chunks, nth)) \in Nat /\ InParts(i, work) \in Nat
       /\ Held(i) \in Nat

\* They are numbers,
LEMMA Counted == Typed => Counts
  <1> SUFFICES ASSUME Typed PROVE Counts
    OBVIOUS
  <1> SUFFICES ASSUME NEW i \in Nat
               PROVE  /\ CountIn(i, rest) \in Nat /\ CountIn(i, current) \in Nat
                      /\ CountIn(i, later) \in Nat
                      /\ CountIn(i, returned) \in Nat /\ CountIn(i, failed_logs_buffer) \in Nat
                      /\ InChunks(i, After(chunks, nth)) \in Nat /\ InParts(i, work) \in Nat
                      /\ Held(i) \in Nat
    BY Zenon DEF Counts
  <1>1. /\ CountIn(i, rest) \in Nat /\ CountIn(i, current) \in Nat /\ CountIn(i, later) \in Nat
        /\ CountIn(i, returned) \in Nat /\ CountIn(i, failed_logs_buffer) \in Nat
    BY Numbered, CopiesLaws
  <1>2. InChunks(i, After(chunks, nth)) \in Nat
    BY Numbered, ChunksLaws
  <1>3. InParts(i, work) \in Nat
    BY Numbered, PartsLaws
  <1> QED
    BY <1>1, <1>2, <1>3 DEF Held

\* and stay numbers.
LEMMA CountedNext == Typed' => Counts'
  BY Counted, PTL

\* An item that is in no place is not pending.
LEMMA NotHeld ==
    ASSUME Typed, NEW i \in Items \ Pending
    PROVE  Held(i) = 0
  <1>1. i \in Nat
    BY Numbered
  <1>2. /\ i \notin ToSet(rest) /\ i \notin ToSet(current) /\ i \notin ToSet(later)
        /\ i \notin ToSet(returned) /\ i \notin ToSet(failed_logs_buffer)
    <2>1. /\ rest \in Seq(Nat) /\ current \in Seq(Nat) /\ later \in Seq(Nat)
          /\ returned \in Seq(Nat) /\ failed_logs_buffer \in Seq(Nat)
      BY Numbered
    <2>2. ToSet(rest \o current \o later \o returned \o failed_logs_buffer)
          = ToSet(rest) \cup ToSet(current) \cup ToSet(later) \cup ToSet(returned)
            \cup ToSet(failed_logs_buffer)
      <3>1. \A s, t \in Seq(Nat) : ToSet(s \o t) = ToSet(s) \cup ToSet(t)
        BY ConcatElements
      <3>2. \A s, t \in Seq(Nat) : s \o t \in Seq(Nat)
        OBVIOUS
      <3>3. ToSet(rest \o current) = ToSet(rest) \cup ToSet(current)
            /\ rest \o current \in Seq(Nat)
        BY <2>1, <3>1, <3>2, Zenon
      <3>4. ToSet((rest \o current) \o later) = ToSet(rest \o current) \cup ToSet(later)
            /\ (rest \o current) \o later \in Seq(Nat)
        BY <2>1, <3>1, <3>2, <3>3, Zenon
      <3>5. ToSet(((rest \o current) \o later) \o returned)
            = ToSet((rest \o current) \o later) \cup ToSet(returned)
            /\ ((rest \o current) \o later) \o returned \in Seq(Nat)
        BY <2>1, <3>1, <3>2, <3>4, Zenon
      <3>6. ToSet((((rest \o current) \o later) \o returned) \o failed_logs_buffer)
            = ToSet(((rest \o current) \o later) \o returned) \cup ToSet(failed_logs_buffer)
        BY <2>1, <3>1, <3>5, Zenon
      <3> QED
        BY <3>3, <3>4, <3>5, <3>6, Zenon
    <2>3. i \notin ToSet(rest \o current \o later \o returned \o failed_logs_buffer)
      BY DEF Pending
    <2> QED
      BY <2>2, <2>3
  <1>3. InChunks(i, After(chunks, nth)) = 0
    <2> DEFINE cs == After(chunks, nth)
    <2>1. cs \in Seq(Seq(Nat)) /\ chunks \in Seq(Seq(Nat)) /\ nth \in 0..Len(chunks)
      BY Numbered DEF Typed, TypeOK
    <2>2. CASE stage \in {"cutting", "sending"}
      <3>1. \A c \in ToSet(cs) : i \notin ToSet(c)
        <4>1. stage = "cutting" => cs = chunks
          <5>1. stage = "cutting" => nth = 0
            BY DEF Typed, StageInv
          <5> QED
            BY <2>1, <5>1, AfterOf
        <4>2. stage = "sending" => cs = SubSeq(chunks, nth + 1, Len(chunks))
          BY DEF After
        <4> HIDE DEF cs
        <4> QED
          BY <2>2, <4>1, <4>2 DEF Pending
      <3> HIDE DEF cs
      <3>2. ASSUME NEW k \in 1..Len(cs) PROVE CountIn(i, cs[k]) = 0
        <4>1. cs \in Seq(Seq(Nat))
          BY <2>1
        <4>2. cs[k] \in ToSet(cs)
          BY <4>1, ElementAt
        <4>3. cs[k] \in Seq(Nat)
          BY <4>1
        <4>4. i \notin ToSet(cs[k])
          BY <3>1, <4>2
        <4> QED
          BY <1>1, <4>3, <4>4, CopiesOf
      <3>3. InChunks(i, cs) = 0 <=> \A k \in 1..Len(cs) : CountIn(i, cs[k]) = 0
        <4>1. cs \in Seq(Seq(Nat))
          BY <2>1
        <4> QED
          BY <1>1, <4>1, ChunksLaws
      <3> QED
        BY <3>2, <3>3 DEF cs
    <2>3. CASE stage \notin {"cutting", "sending"}
      <3>1. nth = Len(chunks)
        BY <2>3 DEF Typed, TypeOK, StageInv
      <3>2. cs = <<>>
        BY <2>1, <3>1, AfterOf
      <3> QED
        BY <1>1, <3>2, ChunksLaws
    <2> QED
      BY <2>2, <2>3
  <1>4. InParts(i, work) = 0
    <2>1. work \in Seq(Part)
      BY Numbered
    <2>2. ASSUME NEW p \in ToSet(work) PROVE i \notin ToSet(p.logs)
      <3>1. i \notin UNION {ToSet(part.logs) : part \in ToSet(work)}
        BY Zenon DEF Pending
      <3> QED
        BY <3>1
    <2>3. ASSUME NEW k \in 1..Len(work) PROVE CountIn(i, work[k].logs) = 0
      <3>1. work[k] \in ToSet(work) /\ work[k] \in Part
        BY <2>1, ElementAt
      <3>2. work[k].logs \in Seq(Nat) /\ i \notin ToSet(work[k].logs)
        BY <2>2, <3>1 DEF Part
      <3> QED
        BY <1>1, <3>2, CopiesOf
    <2> QED
      BY <1>1, <2>1, <2>3, PartsLaws
  <1>5. /\ CountIn(i, rest) = 0 /\ CountIn(i, current) = 0 /\ CountIn(i, later) = 0
        /\ CountIn(i, returned) = 0 /\ CountIn(i, failed_logs_buffer) = 0
    BY <1>1, <1>2, Numbered, CopiesOf
  <1> QED
    BY <1>3, <1>4, <1>5 DEF Held

\* Cutting moves items from one place to another.
LEMMA CutHeld ==
    ASSUME Typed, Cut, NEW i \in Nat
    PROVE  Held(i)' = Held(i)
  <1> DEFINE h == Head(rest)
  <1>1. /\ rest # <<>> /\ rest' = Tail(rest) /\ stage = "cutting"
        /\ UNCHANGED <<later, returned, failed_logs_buffer, nth, work>>
    BY DEF Cut, postVars, keptVars
  <1>2. rest \in Seq(Nat) /\ current \in Seq(Nat) /\ chunks \in Seq(Seq(Nat)) /\ nth = 0
    <2>1. nth = 0
      BY <1>1 DEF Typed, StageInv
    <2> QED
      BY <2>1, Numbered, Zenon
  <1>3. CountIn(i, rest) = CountIn(i, <<h>>) + CountIn(i, rest') /\ h \in Nat
    <2>1. rest \in Seq(Nat) /\ rest # <<>>
      BY <1>1, <1>2
    <2>2. CountIn(i, rest) = CountIn(i, <<Head(rest)>>) + CountIn(i, Tail(rest))
      BY <2>1, CopiesLaws
    <2> QED
      BY <1>1, <2>1, <2>2
  <1> HIDE DEF h
  <1>4. CountIn(i, current') + InChunks(i, After(chunks', nth'))
        = CountIn(i, <<h>>) + CountIn(i, current) + InChunks(i, After(chunks, nth))
    <2>1. \A cs \in Seq(Seq(Nat)) : After(cs, nth) = cs /\ After(cs, nth') = cs
      BY <1>1, <1>2, AfterOf
    <2>2. CountIn(i, current) \in Nat /\ InChunks(i, chunks) \in Nat /\ CountIn(i, <<h>>) \in Nat
      <3>1. <<h>> \in Seq(Nat)
        BY <1>3
      <3> QED
        BY <1>2, <3>1, CopiesLaws, ChunksLaws
    <2>3. CASE Full(Head(rest))
      <3>1. chunks' = Append(chunks, current) /\ current' = <<h>>
        BY <2>3 DEF Cut, h
      <3>2. InChunks(i, chunks') = InChunks(i, chunks) + CountIn(i, current)
            /\ chunks' \in Seq(Seq(Nat))
        <4>1. current \in Seq(Nat) /\ chunks \in Seq(Seq(Nat))
          BY <1>2
        <4>2. chunks' \in Seq(Seq(Nat))
          BY <3>1, <4>1
        <4>3. InChunks(i, Append(chunks, current)) = InChunks(i, chunks) + CountIn(i, current)
          BY <4>1, ChunksLaws
        <4> QED
          BY <3>1, <4>2, <4>3
      <3>3. After(chunks, nth) = chunks /\ After(chunks', nth') = chunks'
        BY <1>2, <2>1, <3>2, Zenon
      <3> QED
        BY <2>2, <3>1, <3>2, <3>3
    <2>4. CASE ~Full(Head(rest))
      <3>1. chunks' = chunks /\ current' = Append(current, h)
        BY <2>4 DEF Cut, h
      <3>2. CountIn(i, current') = CountIn(i, current) + CountIn(i, <<h>>)
        BY <1>2, <1>3, <3>1, CopiesLaws
      <3>3. After(chunks, nth) = chunks /\ After(chunks', nth') = chunks'
        BY <1>2, <2>1, <3>1, Zenon
      <3> QED
        BY <2>2, <3>1, <3>2, <3>3
    <2> QED
      BY <2>3, <2>4
  <1>5. /\ CountIn(i, later') = CountIn(i, later) /\ CountIn(i, returned') = CountIn(i, returned)
        /\ CountIn(i, failed_logs_buffer') = CountIn(i, failed_logs_buffer)
        /\ InParts(i, work') = InParts(i, work)
    BY <1>1
  <1>6. CountIn(i, <<h>>) \in Nat /\ CountIn(i, rest') \in Nat /\ CountIn(i, current') \in Nat
        /\ InChunks(i, After(chunks', nth')) \in Nat
    <2>1. <<h>> \in Seq(Nat) /\ rest' \in Seq(Nat)
      BY <1>1, <1>2, <1>3
    <2>2. current' \in Seq(Nat) /\ chunks' \in Seq(Seq(Nat))
      <3>1. \/ chunks' = Append(chunks, current) /\ current' = <<h>>
            \/ chunks' = chunks /\ current' = Append(current, h)
        BY DEF Cut, h
      <3>2. <<h>> \in Seq(Nat) /\ Append(current, h) \in Seq(Nat)
        BY <1>2, <1>3
      <3>3. Append(chunks, current) \in Seq(Seq(Nat))
        BY <1>2
      <3> QED
        BY <1>2, <3>1, <3>2, <3>3, Zenon
    <2>3. After(chunks', nth') = chunks'
      BY <1>1, <1>2, <2>2, AfterOf
    <2> QED
      BY <2>1, <2>2, <2>3, CopiesLaws, ChunksLaws
  <1>7. Held(i)' = CountIn(i, rest') + CountIn(i, current') + CountIn(i, later')
                   + CountIn(i, returned') + CountIn(i, failed_logs_buffer')
                   + InChunks(i, After(chunks', nth')) + InParts(i, work')
    BY DEF Held
  <1> QED
    BY <1>3, <1>4, <1>5, <1>6, <1>7, Counted DEF Held, Counts

\* See CutHeld.
LEMMA LastCutHeld ==
    ASSUME Typed, LastCut, NEW i \in Nat
    PROVE  Held(i)' = Held(i)
  <1>1. /\ chunks' = IF current = <<>> THEN chunks ELSE Append(chunks, current)
        /\ current' = <<>> /\ stage = "cutting"
        /\ UNCHANGED <<rest, later, returned, failed_logs_buffer, nth, work>>
    BY DEF LastCut, postVars, keptVars
  <1>2. current \in Seq(Nat) /\ chunks \in Seq(Seq(Nat)) /\ chunks' \in Seq(Seq(Nat)) /\ nth = 0
    <2>1. nth = 0
      BY <1>1 DEF Typed, StageInv
    <2>2. current \in Seq(Nat) /\ chunks \in Seq(Seq(Nat))
      BY Numbered, Zenon
    <2> QED
      BY <1>1, <2>1, <2>2
  <1>3. After(chunks, nth) = chunks /\ After(chunks', nth') = chunks'
    BY <1>1, <1>2, AfterOf
  <1>4. InChunks(i, chunks') = InChunks(i, chunks) + CountIn(i, current)
    <2>1. current \in Seq(Nat) /\ chunks \in Seq(Seq(Nat))
      BY <1>2
    <2>2. InChunks(i, Append(chunks, current)) = InChunks(i, chunks) + CountIn(i, current)
          /\ InChunks(i, chunks) \in Nat
      BY <2>1, ChunksLaws
    <2>3. CountIn(i, <<>>) = 0
      BY CopiesLaws
    <2> QED
      BY <1>1, <2>2, <2>3
  <1>5. CountIn(i, current') = 0
    BY <1>1, CopiesLaws
  <1>6. Held(i)' = CountIn(i, rest) + CountIn(i, current') + CountIn(i, later)
                   + CountIn(i, returned) + CountIn(i, failed_logs_buffer)
                   + InChunks(i, chunks') + InParts(i, work)
    BY <1>1, <1>3 DEF Held
  <1> QED
    BY <1>3, <1>4, <1>5, <1>6, Counted DEF Held, Counts

\* The part being posted, and what is left of the chunk without it.
LEMMA PartHeld ==
    ASSUME Typed, stage = "sending", work # <<>>, NEW i \in Nat
    PROVE  /\ Head(work) \in Part /\ Head(work).logs \in Seq(Nat) /\ Tail(work) \in Seq(Part)
           /\ <<>> \o Tail(work) = Tail(work)
           /\ InParts(i, work) = CountIn(i, Head(work).logs) + InParts(i, Tail(work))
           /\ CountIn(i, Head(work).logs) \in Nat /\ InParts(i, Tail(work)) \in Nat
  <1>1. work \in Seq(Part)
    BY Numbered
  <1>2. Head(work) \in Part /\ Tail(work) \in Seq(Part)
    BY <1>1
  <1>3. Head(work).logs \in Seq(Nat)
    BY <1>2 DEF Part
  <1>4. <<>> \o Tail(work) = Tail(work)
    BY PartsType
  <1>5. InParts(i, work) = CountIn(i, Head(work).logs) + InParts(i, Tail(work))
    BY <1>1, PartsLaws
  <1>6. CountIn(i, Head(work).logs) \in Nat
    BY <1>3, CopiesLaws
  <1>7. InParts(i, Tail(work)) \in Nat
    BY <1>2, PartsLaws
  <1> QED
    BY <1>2, <1>3, <1>4, <1>5, <1>6, <1>7

\* The halves hold what the part held.
LEMMA HalvesHeld ==
    ASSUME Typed, stage = "sending", work # <<>>, NEW i \in Nat, MayHalvePart(Head(work))
    PROVE  InParts(i, Halves(Head(work)) \o Tail(work)) = InParts(i, work)
  <1> DEFINE part == Head(work)
             P    == [logs : Seq(Items), depth : 0..MAX_SPLIT_DEPTH]
  <1>1. part \in P /\ part.depth < MAX_SPLIT_DEPTH /\ Len(part.logs) > 1 /\ MAX_SPLIT_DEPTH \in Nat
    BY PartsType, InputType DEF MayHalvePart, Typed
  <1>2. PICK a, b \in P : Halves(part) = <<a, b>> /\ a.logs \o b.logs = part.logs
    BY <1>1, HalvesOf
  <1>3. \A p \in P : p \in Part /\ p.logs \in Seq(Nat)
    <2>1. Seq(Items) \subseteq Seq(Nat) /\ MAX_SPLIT_DEPTH \in Nat
      <3>1. Items \subseteq Nat
        BY Numbered
      <3> QED
        BY <1>1, <3>1, SeqMonotonic
    <2> QED
      BY <2>1 DEF Part
  <1>4. a \in Part /\ b \in Part /\ a.logs \in Seq(Nat) /\ b.logs \in Seq(Nat)
    BY <1>3
  <1> HIDE DEF part, P
  <1>5. <<a, b>> \in Seq(Part) /\ InParts(i, <<a, b>>) = CountIn(i, a.logs) + CountIn(i, b.logs)
    BY <1>4, PartsLaws
  <1>6. CountIn(i, a.logs \o b.logs) = CountIn(i, a.logs) + CountIn(i, b.logs)
    BY <1>4, CopiesLaws
  <1>7. Tail(work) \in Seq(Part)
        /\ InParts(i, work) = CountIn(i, part.logs) + InParts(i, Tail(work))
    BY PartHeld DEF part
  <1>8. InParts(i, <<a, b>> \o Tail(work)) = InParts(i, <<a, b>>) + InParts(i, Tail(work))
    BY <1>5, <1>7, PartsLaws
  <1> QED
    BY <1>2, <1>5, <1>6, <1>7, <1>8 DEF part

\* What a step that posts, or finds that it may not post, leaves of the part: all of it, or
\* nothing.  GivesBack(i) says what of it is given back.
LEMMA PostHeld ==
    ASSUME Typed, stage = "sending", work # <<>>, NEW i \in Nat,
           UNCHANGED <<rest, current, later, failed_logs_buffer, chunks, nth>>
    PROVE  /\ UNCHANGED <<work, returned>> => Held(i)' = Held(i)
           /\ work' = Tail(work) /\ returned' = returned
                 => Held(i) = Held(i)' + CountIn(i, Head(work).logs)
           /\ work' = Tail(work) /\ returned' = returned \o Head(work).logs => Held(i)' = Held(i)
           /\ (work' = Halves(Head(work)) \o Tail(work) /\ returned' = returned
                /\ MayHalvePart(Head(work))) => Held(i)' = Held(i)
           /\ Held(i) >= CountIn(i, Head(work).logs)
  <1> DEFINE others == CountIn(i, rest) + CountIn(i, current) + CountIn(i, later)
             kept   == CountIn(i, failed_logs_buffer)
             unsent == InChunks(i, After(chunks, nth))
             posted == CountIn(i, Head(work).logs)
  <1>1. others \in Nat /\ kept \in Nat /\ unsent \in Nat /\ CountIn(i, returned) \in Nat
        /\ Held(i) = others + CountIn(i, returned) + kept + unsent + InParts(i, work)
    <2>1. Held(i) = others + CountIn(i, returned) + kept + unsent + InParts(i, work)
      BY DEF Held
    <2>2. /\ CountIn(i, rest) \in Nat /\ CountIn(i, current) \in Nat /\ CountIn(i, later) \in Nat
          /\ CountIn(i, returned) \in Nat /\ CountIn(i, failed_logs_buffer) \in Nat
          /\ InChunks(i, After(chunks, nth)) \in Nat
      BY Counted DEF Counts
    <2> QED
      BY <2>1, <2>2
  <1>2. Held(i)' = others + CountIn(i, returned') + kept + unsent + InParts(i, work')
    BY DEF Held
  <1>3. InParts(i, work) = posted + InParts(i, Tail(work))
        /\ posted \in Nat /\ InParts(i, Tail(work)) \in Nat
    BY PartHeld
  <1>4. CountIn(i, returned \o Head(work).logs) = CountIn(i, returned) + posted
    <2>1. returned \in Seq(Nat) /\ Head(work).logs \in Seq(Nat)
      BY Numbered, PartHeld
    <2> QED
      BY <2>1, CopiesLaws
  <1>5. MayHalvePart(Head(work)) => InParts(i, Halves(Head(work)) \o Tail(work)) = InParts(i, work)
    BY HalvesHeld
  <1> HIDE DEF others, kept, unsent, posted
  <1>6. UNCHANGED <<work, returned>> => Held(i)' = Held(i)
    BY <1>1, <1>2
  <1>7. work' = Tail(work) /\ returned' = returned => Held(i) = Held(i)' + posted
    BY <1>1, <1>2, <1>3
  <1>8. work' = Tail(work) /\ returned' = returned \o Head(work).logs => Held(i)' = Held(i)
    BY <1>1, <1>2, <1>3, <1>4
  <1>9. (work' = Halves(Head(work)) \o Tail(work) /\ returned' = returned
          /\ MayHalvePart(Head(work))) => Held(i)' = Held(i)
    <2> SUFFICES ASSUME work' = Halves(Head(work)) \o Tail(work), returned' = returned,
                        MayHalvePart(Head(work))
                 PROVE  Held(i)' = Held(i)
      OBVIOUS
    <2>1. InParts(i, work') = InParts(i, work) /\ CountIn(i, returned') = CountIn(i, returned)
      BY <1>5
    <2> QED
      BY <1>1, <1>2, <2>1
  <1>10. Held(i) >= posted
    BY <1>1, <1>3
  <1> QED
    BY <1>6, <1>7, <1>8, <1>9, <1>10 DEF posted

\* The next chunk takes what it sends from those not sent; of the chunk before, what was
\* returned is replaced by what is kept of it.
LEMMA NextChunkHeld ==
    ASSUME Typed, NextChunk, NEW i \in Nat
    PROVE  /\ Held(i)' + CountIn(i, returned)
              = Held(i) + (IF nth = 0 THEN 0 ELSE CountIn(i, Kept))
           /\ Held(i)' \in Nat
           /\ Held(i)' >= (IF nth = 0 THEN 0 ELSE CountIn(i, Kept))
           /\ nth # 0 => CountIn(i, Kept) \in Nat
  <1> DEFINE kept == IF nth = 0 THEN <<>> ELSE Kept
  <1>1. kept \in Seq(Nat) /\ CountIn(i, kept) \in Nat
        /\ CountIn(i, kept) = IF nth = 0 THEN 0 ELSE CountIn(i, Kept)
    <2>1. nth # 0 => Kept \in Seq(Items)
      BY KeptType
    <2>2. Items \subseteq Nat /\ <<>> \in Seq(Nat)
      BY Numbered
    <2>3. nth # 0 => Kept \in Seq(Nat)
      BY <2>1, <2>2, SeqMonotonic
    <2>4. kept \in Seq(Nat)
      BY <2>2, <2>3
    <2> QED
      BY <2>4, CopiesLaws
  <1>2. stage = "sending" /\ work = <<>> /\ returned' = <<>> /\ rest = <<>> /\ current = <<>>
    BY DEF NextChunk, Typed, StageInv
  <1>3. failed_logs_buffer \in Seq(Nat) /\ later \in Seq(Nat) /\ chunks \in Seq(Seq(Nat))
    BY Numbered, Zenon
  <1>4. failed_logs_buffer' = failed_logs_buffer \o kept
    <2>1. failed_logs_buffer \o <<>> = failed_logs_buffer
      BY <1>3, ConcatEmptySeq
    <2> QED
      BY <2>1 DEF NextChunk
  <1>5. CountIn(i, failed_logs_buffer') = CountIn(i, failed_logs_buffer) + CountIn(i, kept)
    BY <1>1, <1>3, <1>4, CopiesLaws
  <1>6. CountIn(i, rest) = 0 /\ CountIn(i, current) = 0 /\ InParts(i, work) = 0
        /\ CountIn(i, returned') = 0 /\ CountIn(i, <<>>) = 0
    BY <1>2, CopiesLaws, PartsLaws
  <1>7. nth \in 0..Len(chunks) /\ Len(chunks) \in Nat
    BY DEF Typed, TypeOK
  <1>8. CountIn(i, rest') + CountIn(i, current') + CountIn(i, later')
        + InChunks(i, After(chunks', nth')) + InParts(i, work')
        = CountIn(i, later) + InChunks(i, After(chunks, nth))
    <2>1. CountIn(i, later) \in Nat /\ InChunks(i, After(chunks, nth)) \in Nat
      BY Counted DEF Counts
    <2>2. CASE nth < Len(chunks) /\ SendChunk(nth + 1)
      <3>1. nth' = nth + 1 /\ work' = <<[logs |-> chunks[nth + 1], depth |-> 0]>>
            /\ UNCHANGED <<later, rest, current, chunks>>
        BY <2>2 DEF SendChunk, cutVars
      <3>2. nth \in 0..(Len(chunks) - 1) /\ nth + 1 \in 1..Len(chunks) /\ nth + 1 \in 0..Len(chunks)
        BY <1>7, <2>2
      <3>3. chunks[nth + 1] \in Seq(Nat)
        BY <1>3, <3>2
      <3>4. [logs |-> chunks[nth + 1], depth |-> 0] \in Part
        BY <3>3 DEF Part
      <3>5. InParts(i, work') = CountIn(i, chunks[nth + 1])
        <4> DEFINE p == [logs |-> chunks[nth + 1], depth |-> 0]
        <4>1. InParts(i, <<p>>) = CountIn(i, p.logs)
          BY <3>4, PartsLaws
        <4> QED
          BY <3>1, <4>1
      <3>6. /\ After(chunks, nth) \in Seq(Seq(Nat)) /\ After(chunks, nth) # <<>>
            /\ Head(After(chunks, nth)) = chunks[nth + 1]
            /\ Tail(After(chunks, nth)) = After(chunks, nth + 1)
            /\ After(chunks, nth + 1) \in Seq(Seq(Nat))
        BY <1>3, <1>7, <3>2, AfterOf
      <3>7. InChunks(i, After(chunks, nth))
            = CountIn(i, chunks[nth + 1]) + InChunks(i, After(chunks, nth + 1))
        <4> DEFINE cs == After(chunks, nth)
        <4>1. cs \in Seq(Seq(Nat)) /\ cs # <<>>
          BY <3>6
        <4> HIDE DEF cs
        <4>2. InChunks(i, cs) = CountIn(i, Head(cs)) + InChunks(i, Tail(cs))
          BY <4>1, ChunksLaws
        <4> QED
          BY <3>6, <4>2 DEF cs
      <3>8. CountIn(i, chunks[nth + 1]) \in Nat
        BY <3>3, CopiesLaws
      <3>9. InChunks(i, After(chunks, nth + 1)) \in Nat
        BY <3>6, ChunksLaws
      <3>10. /\ CountIn(i, rest') = 0 /\ CountIn(i, current') = 0 /\ CountIn(i, later') = CountIn(i, later)
             /\ InChunks(i, After(chunks', nth')) = InChunks(i, After(chunks, nth + 1))
        BY <1>6, <3>1
      <3> QED
        BY <2>1, <3>5, <3>7, <3>8, <3>9, <3>10
    <2>3. CASE nth = Len(chunks) /\ Begin(later, <<>>) /\ UNCHANGED work
      <3>1. rest' = later /\ later' = <<>> /\ current' = <<>> /\ chunks' = <<>> /\ nth' = 0
            /\ work' = work
        BY <2>3 DEF Begin
      <3>2. After(chunks, nth) = <<>>
        BY <1>3, <2>3, AfterOf
      <3>3. After(<<>>, 0) = <<>>
        <4>1. <<>> \in Seq(Seq(Nat))
          OBVIOUS
        <4> QED
          BY <4>1, AfterOf
      <3>4. InChunks(i, <<>>) = 0
        BY ChunksLaws
      <3> QED
        BY <1>6, <2>1, <3>1, <3>2, <3>3, <3>4
    <2>4. CASE UNCHANGED <<cutVars, nth, work>>
      <3>1. UNCHANGED <<rest, current, later, chunks, nth, work>>
        BY <2>4 DEF cutVars
      <3> QED
        BY <1>6, <2>1, <3>1
    <2> QED
      BY <2>2, <2>3, <2>4 DEF NextChunk
  <1> HIDE DEF kept
  <1>9. Held(i)' = CountIn(i, later) + InChunks(i, After(chunks, nth))
                   + CountIn(i, failed_logs_buffer) + CountIn(i, kept)
    <2> DEFINE a == CountIn(i, rest') b == CountIn(i, current') c == CountIn(i, later')
               d == InChunks(i, After(chunks', nth')) e == InParts(i, work')
    <2>1. Held(i)' = a + b + c + CountIn(i, returned') + CountIn(i, failed_logs_buffer') + d + e
      BY DEF Held
    <2>2. Typed'
      BY NextChunkType
    <2>3. a \in Nat /\ b \in Nat /\ c \in Nat /\ d \in Nat /\ e \in Nat
      <3>1. Counts'
        BY <2>2, CountedNext
      <3> QED
        BY <3>1 DEF Counts
    <2> HIDE DEF a, b, c, d, e
    <2>4. /\ CountIn(i, failed_logs_buffer) \in Nat /\ CountIn(i, later) \in Nat
          /\ InChunks(i, After(chunks, nth)) \in Nat
      BY Counted DEF Counts
    <2>5. a + b + c + d + e = CountIn(i, later) + InChunks(i, After(chunks, nth))
      BY <1>8 DEF a, b, c, d, e
    <2> DEFINE f == CountIn(i, failed_logs_buffer) g == CountIn(i, kept)
    <2>6. Held(i)' = a + b + c + 0 + (f + g) + d + e /\ f \in Nat /\ g \in Nat
      BY <1>1, <1>5, <1>6, <2>1, <2>4
    <2> HIDE DEF f, g
    <2>7. a + b + c + 0 + (f + g) + d + e = (a + b + c + d + e) + f + g
      BY <2>3, <2>6
    <2> QED
      BY <2>5, <2>6, <2>7 DEF f, g
  <1>10. /\ CountIn(i, failed_logs_buffer) \in Nat /\ CountIn(i, later) \in Nat
         /\ InChunks(i, After(chunks, nth)) \in Nat /\ CountIn(i, returned) \in Nat
    BY Counted DEF Counts
  <1>11. Held(i) = CountIn(i, later) + CountIn(i, returned) + CountIn(i, failed_logs_buffer)
                   + InChunks(i, After(chunks, nth))
    BY <1>6, <1>10 DEF Held
  <1>12. /\ Held(i)' + CountIn(i, returned) = Held(i) + CountIn(i, kept)
         /\ Held(i)' \in Nat /\ Held(i)' >= CountIn(i, kept)
    BY <1>1, <1>9, <1>10, <1>11
  <1>13. nth # 0 => CountIn(i, Kept) \in Nat
    BY <1>1
  <1> QED
    BY <1>1, <1>12, <1>13

\* A retry takes up what was kept, except for what has been retried often enough.
LEMMA RetryHeld ==
    ASSUME Typed, start_invocation_retry, NEW i \in Nat
    PROVE  /\ Held(i) = CountIn(i, failed_logs_buffer)
           /\ Held(i)' <= Held(i)
           /\ i \in ToSet(failed_logs_buffer) /\ i \in Items /\ MayRetry(i) => Held(i)' # 0
  <1> DEFINE able  == {j \in Items : MayRetry(j)}
             again == Filter(failed_logs_buffer, able)
             high  == Filter(again, Items \ input.low)
             low   == Filter(again, input.low)
  <1>1. /\ stage = "kept" /\ failed_logs_buffer' = <<>>
        /\ UNCHANGED <<work, returned>>
        /\ \/ again = <<>> /\ UNCHANGED <<rest, current, later, chunks, nth>>
           \/ again # <<>> /\ rest' = high /\ later' = low /\ current' = <<>>
              /\ chunks' = <<>> /\ nth' = 0
    BY DEF start_invocation_retry, Begin, cutVars
  <1>2. failed_logs_buffer \in Seq(Nat) /\ chunks \in Seq(Seq(Nat)) /\ Items \subseteq Nat
    BY Numbered, Zenon
  <1>3. /\ rest = <<>> /\ current = <<>> /\ later = <<>> /\ work = <<>> /\ returned = <<>>
        /\ nth = Len(chunks)
    BY <1>1 DEF Typed, StageInv
  <1>4. After(chunks, nth) = <<>>
    BY <1>2, <1>3, AfterOf
  <1>5. After(<<>>, 0) = <<>>
    <2>1. <<>> \in Seq(Seq(Nat))
      OBVIOUS
    <2> QED
      BY <2>1, AfterOf
  <1>6. CountIn(i, <<>>) = 0 /\ InChunks(i, <<>>) = 0 /\ InParts(i, <<>>) = 0
    BY CopiesLaws, ChunksLaws, PartsLaws
  <1>7. CountIn(i, failed_logs_buffer) \in Nat
    BY <1>2, CopiesLaws
  <1>8. again \in Seq(Nat) /\ ToSet(again) = ToSet(failed_logs_buffer) \cap able
    BY <1>2, FilterElements
  <1> HIDE DEF able, again
  <1>9. /\ high \in Seq(Nat) /\ ToSet(high) = ToSet(again) \cap (Items \ input.low)
        /\ low \in Seq(Nat) /\ ToSet(low) = ToSet(again) \cap input.low
    BY <1>8, FilterElements
  <1>10. CountIn(i, high) + CountIn(i, low) <= CountIn(i, again)
    <2>1. (Items \ input.low) \cap input.low = {}
      OBVIOUS
    <2> QED
      BY <1>8, <2>1, CopiesFilter
  <1>11. CountIn(i, again) <= CountIn(i, failed_logs_buffer)
    <2>1. able \cap {} = {}
      OBVIOUS
    <2> QED
      BY <1>2, <2>1, CopiesFilter DEF again
  <1> HIDE DEF high, low
  <1>12. CountIn(i, high) \in Nat /\ CountIn(i, low) \in Nat /\ CountIn(i, again) \in Nat
    BY <1>8, <1>9, CopiesLaws
  <1>13. Held(i) = CountIn(i, failed_logs_buffer)
    BY <1>3, <1>4, <1>6, <1>7 DEF Held
  <1>14. Held(i)' = IF again = <<>> THEN 0 ELSE CountIn(i, high) + CountIn(i, low)
    <2>1. CASE again = <<>>
      BY <1>1, <1>3, <1>4, <1>6, <2>1 DEF Held
    <2>2. CASE again # <<>>
      <3>1. /\ rest' = high /\ later' = low /\ current' = <<>> /\ chunks' = <<>> /\ nth' = 0
            /\ failed_logs_buffer' = <<>> /\ work' = <<>> /\ returned' = <<>>
        BY <1>1, <1>3, <2>2
      <3>2. Held(i)' = CountIn(i, high) + 0 + CountIn(i, low) + 0 + 0 + 0 + 0
        BY <1>5, <1>6, <3>1 DEF Held
      <3> QED
        BY <1>12, <2>2, <3>2
    <2> QED
      BY <2>1, <2>2
  <1>15. Held(i)' <= Held(i)
    BY <1>7, <1>10, <1>11, <1>12, <1>13, <1>14
  <1>16. ASSUME i \in ToSet(failed_logs_buffer), i \in Items, MayRetry(i) PROVE Held(i)' # 0
    <2>1. i \in ToSet(again)
      BY <1>8, <1>16 DEF able
    <2>2. again # <<>>
      BY <2>1 DEF ToSet
    <2>3. i \in ToSet(high) \/ i \in ToSet(low)
      BY <1>9, <1>16, <2>1
    <2>4. CountIn(i, high) >= 1 \/ CountIn(i, low) >= 1
      BY <1>9, <2>3, CopiesOf
    <2> QED
      BY <1>12, <1>14, <2>2, <2>4
  <1> QED
    BY <1>13, <1>15, <1>16

\* What an answer makes of an item of the part: it is no longer held only if it was
\* accepted or refused.
LEMMA AttemptHeld ==
    ASSUME Typed, NEW answer \in Answers, Attempt(answer), NEW i \in Nat
    PROVE  /\ Held(i)' <= Held(i)
           /\ refused \subseteq refused' /\ halved \subseteq halved'
           /\ i \in Items =>
                 \/ accepted'[i] = accepted[i] /\ Held(i)' = Held(i)
                 \/ accepted'[i] = accepted[i] + 1 /\ Held(i)' + 1 <= Held(i)
                 \/ accepted'[i] = accepted[i] /\ i \in refused'
  <1> DEFINE part  == Head(work)
             spent == elapsed + (IF answer = "timeout" THEN HttpTimeout ELSE 0)
  <1>1. /\ stage = "sending" /\ work # <<>>
        /\ \/ Accept(part) \/ Halve(part) \/ Refuse(part) \/ PostAgain(spent)
           \/ GiveBack(part, spent)
        /\ UNCHANGED <<rest, current, later, failed_logs_buffer, chunks, nth>>
    BY DEF Attempt, cutVars, keptVars
  <1>2. part.logs \in Seq(Nat) /\ <<>> \o Tail(work) = Tail(work) /\ CountIn(i, part.logs) \in Nat
    BY <1>1, PartHeld
  <1>3. Held(i) \in Nat
    BY Counted DEF Counts
  <1>4. /\ UNCHANGED <<work, returned>> => Held(i)' = Held(i)
        /\ work' = Tail(work) /\ returned' = returned => Held(i) = Held(i)' + CountIn(i, part.logs)
        /\ work' = Tail(work) /\ returned' = returned \o part.logs => Held(i)' = Held(i)
        /\ (work' = Halves(part) \o Tail(work) /\ returned' = returned
             /\ MayHalvePart(part)) => Held(i)' = Held(i)
        /\ Held(i) >= CountIn(i, part.logs)
    BY <1>1, PostHeld
  <1>5. Held(i)' \in Nat
    <2>1. Typed'
      BY AttemptType
    <2> QED
      BY <2>1, CountedNext DEF Counts
  <1>6. accepted \in [Items -> Nat]
    BY DEF Typed, TypeOK
  <1> HIDE DEF part, spent
  <1>7. CASE Accept(part)
    <2>1. work' = Tail(work) /\ returned' = returned /\ refused' = refused /\ halved' = halved
          /\ accepted' = [j \in Items |-> IF j \in ToSet(part.logs) THEN accepted[j] + 1
                                          ELSE accepted[j]]
      BY <1>2, <1>7 DEF Accept, NextPart
    <2>2. Held(i) = Held(i)' + CountIn(i, part.logs)
      BY <1>4, <2>1
    <2>3. i \in ToSet(part.logs) => CountIn(i, part.logs) >= 1
      BY <1>2, CopiesOf
    <2>4. i \notin ToSet(part.logs) => CountIn(i, part.logs) = 0
      BY <1>2, CopiesOf
    <2>5. i \in Items => accepted'[i] = IF i \in ToSet(part.logs) THEN accepted[i] + 1
                                        ELSE accepted[i]
      BY <2>1
    <2> QED
      BY <1>2, <1>3, <1>5, <2>1, <2>2, <2>3, <2>4, <2>5
  <1>8. CASE Halve(part)
    <2>1. work' = Halves(part) \o Tail(work) /\ returned' = returned /\ refused' = refused
          /\ halved \subseteq halved' /\ accepted' = accepted /\ MayHalvePart(part)
      BY <1>8 DEF Halve, NextPart
    <2> QED
      BY <1>3, <1>4, <2>1
  <1>9. CASE Refuse(part)
    <2>1. work' = Tail(work) /\ returned' = returned /\ refused' = refused \cup ToSet(part.logs)
          /\ halved' = halved /\ accepted' = accepted
      BY <1>2, <1>9 DEF Refuse, NextPart
    <2>2. Held(i) = Held(i)' + CountIn(i, part.logs)
      BY <1>4, <2>1
    <2>3. i \notin ToSet(part.logs) => CountIn(i, part.logs) = 0
      BY <1>2, CopiesOf
    <2> QED
      BY <1>2, <1>3, <1>5, <2>1, <2>2, <2>3
  <1>10. CASE PostAgain(spent)
    BY <1>3, <1>4, <1>10 DEF PostAgain
  <1>11. CASE GiveBack(part, spent)
    <2>1. work' = Tail(work) /\ returned' = returned \o part.logs /\ refused' = refused
          /\ halved' = halved /\ accepted' = accepted
      BY <1>2, <1>11 DEF GiveBack, NextPart, Returned
    <2> QED
      BY <1>3, <1>4, <2>1
  <1> QED
    BY <1>1, <1>7, <1>8, <1>9, <1>10, <1>11

\* Without a licence key, what is posted is only forgotten.
LEMMA UnlicensedHeld ==
    ASSUME Typed, Unlicensed, NEW i \in Nat
    PROVE  Held(i)' <= Held(i)
  <1>1. /\ stage = "sending" /\ work # <<>> /\ work' = <<>> \o Tail(work) /\ returned' = returned
        /\ UNCHANGED <<rest, current, later, failed_logs_buffer, chunks, nth>>
    BY DEF Unlicensed, NextPart, cutVars, keptVars
  <1>2. work' = Tail(work) /\ CountIn(i, Head(work).logs) \in Nat
    BY <1>1, PartHeld
  <1>3. Held(i) = Held(i)' + CountIn(i, Head(work).logs)
    BY <1>1, <1>2, PostHeld
  <1>4. Held(i) \in Nat /\ Held(i)' \in Nat
    <2>1. Typed'
      BY UnlicensedType
    <2>2. Held(i) \in Nat
      BY Counted DEF Counts
    <2>3. Held(i)' \in Nat
      BY <2>1, CountedNext DEF Counts
    <2> QED
      BY <2>2, <2>3
  <1> QED
    BY <1>2, <1>3, <1>4

-----------------------------------------------------------------------------
(* The chunk being sent.                                                   *)

\* Its parts, and what was returned of it, are of it.
PartInv ==
    stage = "sending" /\ nth # 0 =>
       \A i \in Nat : CountIn(i, returned) + InParts(i, work) <= CountIn(i, chunks[nth])

\* A step that posts keeps it so.
LEMMA PartPost ==
    ASSUME Typed, Typed', PartInv, stage = "sending", nth # 0,
           UNCHANGED <<rest, current, later, failed_logs_buffer, chunks, nth>>,
           \A i \in Nat : Held(i)' <= Held(i)
    PROVE  PartInv'
  <1> SUFFICES ASSUME NEW i \in Nat
               PROVE  CountIn(i, returned') + InParts(i, work') <= CountIn(i, chunks[nth])
    BY DEF PartInv
  <1> DEFINE a == CountIn(i, rest) b == CountIn(i, current) c == CountIn(i, later)
             d == CountIn(i, failed_logs_buffer) e == InChunks(i, After(chunks, nth))
  <1>1. /\ a \in Nat /\ b \in Nat /\ c \in Nat /\ d \in Nat /\ e \in Nat
        /\ CountIn(i, returned) \in Nat /\ InParts(i, work) \in Nat
    BY Counted DEF Counts
  <1>2. CountIn(i, returned') \in Nat /\ InParts(i, work') \in Nat
    BY CountedNext DEF Counts
  <1>3. /\ Held(i) = a + b + c + CountIn(i, returned) + d + e + InParts(i, work)
        /\ Held(i)' = a + b + c + CountIn(i, returned') + d + e + InParts(i, work')
    BY DEF Held
  <1>4. Held(i)' <= Held(i)
    OBVIOUS
  <1>5. CountIn(i, returned) + InParts(i, work) <= CountIn(i, chunks[nth])
    BY DEF PartInv
  <1>6. CountIn(i, chunks[nth]) \in Nat
    <2>1. nth \in 1..Len(chunks)
      BY DEF Typed, TypeOK
    <2>2. chunks \in Seq(Seq(Nat))
      BY Numbered
    <2>3. chunks[nth] \in Seq(Nat)
      BY <2>1, <2>2
    <2> QED
      BY <2>3, CopiesLaws
  <1> HIDE DEF a, b, c, d, e
  <1> QED
    BY <1>1, <1>2, <1>3, <1>4, <1>5, <1>6

\* Every step keeps it so.
LEMMA PartStep == Typed /\ PartInv /\ [Next]_vars => PartInv'
  <1> SUFFICES ASSUME Typed, PartInv, [Next]_vars PROVE PartInv'
    OBVIOUS
  <1>1. Typed'
    BY TypedStep
  <1>2. CASE UNCHANGED <<stage, nth, chunks, returned, work>>
    BY <1>2 DEF PartInv
  <1>3. CASE stage' # "sending"
    BY <1>3 DEF PartInv
  <1>4. CASE nth' = 0
    BY <1>4 DEF PartInv
  <1>5. ASSUME NEW answer \in Answers, Attempt(answer) PROVE PartInv'
    <2>1. /\ stage = "sending" /\ nth # 0
          /\ UNCHANGED <<rest, current, later, failed_logs_buffer, chunks, nth>>
      BY <1>5, PartsType DEF Attempt, cutVars, keptVars, Typed, StageInv
    <2>2. \A i \in Nat : Held(i)' <= Held(i)
      BY <1>5, AttemptHeld
    <2> QED
      BY <1>1, <2>1, <2>2, PartPost
  <1>6. CASE Unlicensed
    <2>1. /\ stage = "sending" /\ nth # 0
          /\ UNCHANGED <<rest, current, later, failed_logs_buffer, chunks, nth>>
      BY <1>6, PartsType DEF Unlicensed, cutVars, keptVars, Typed, StageInv
    <2>2. \A i \in Nat : Held(i)' <= Held(i)
      BY <1>6, UnlicensedHeld
    <2> QED
      BY <1>1, <2>1, <2>2, PartPost
  <1>7. CASE NextChunk
    <2>1. CASE nth < Len(chunks) /\ SendChunk(nth + 1)
      <3>1. nth' = nth + 1 /\ work' = <<[logs |-> chunks[nth + 1], depth |-> 0]>>
            /\ chunks' = chunks /\ returned' = <<>>
        BY <1>7, <2>1 DEF NextChunk, SendChunk, cutVars
      <3>2. nth + 1 \in 1..Len(chunks)
        BY <2>1 DEF Typed, TypeOK
      <3>3. chunks[nth + 1] \in Seq(Nat)
        <4>1. chunks \in Seq(Seq(Nat))
          BY Numbered
        <4> QED
          BY <3>2, <4>1
      <3>4. ASSUME NEW i \in Nat
            PROVE  CountIn(i, returned') + InParts(i, work') <= CountIn(i, chunks'[nth'])
        <4> DEFINE p == [logs |-> chunks[nth + 1], depth |-> 0]
        <4>1. p \in Part /\ p.logs = chunks[nth + 1]
          BY <3>3 DEF Part
        <4> HIDE DEF p
        <4>2. InParts(i, <<p>>) = CountIn(i, chunks[nth + 1])
          BY <4>1, PartsLaws
        <4>3. CountIn(i, <<>>) = 0 /\ CountIn(i, chunks[nth + 1]) \in Nat
          BY <3>3, CopiesLaws
        <4> QED
          BY <3>1, <4>2, <4>3 DEF p
      <3> QED
        BY <3>4 DEF PartInv
    <2>2. CASE Begin(later, <<>>)
      BY <1>3, <2>2 DEF Begin
    <2>3. CASE stage' \in {"done", "kept"}
      BY <1>3, <2>3
    <2> QED
      BY <1>7, <2>1, <2>2, <2>3 DEF NextChunk
  <1>8. CASE LastCut
    BY <1>4, <1>8 DEF LastCut, postVars, Typed, StageInv
  <1>9. CASE start_invocation_retry
    BY <1>3, <1>9 DEF start_invocation_retry, Begin
  <1> QED
    BY <1>2, <1>3, <1>5, <1>6, <1>7, <1>8, <1>9 DEF Next, vars, Cut, FlippedElsewhere, Terminated,
       cutVars, postVars

-----------------------------------------------------------------------------
(* What is lost.                                                           *)

\* What nobody holds any more was delivered, or refused, or retried often enough.
LostInv ==
    \A i \in Items : Held(i) = 0 =>
       accepted[i] > 0 \/ i \in refused \/ retry_count[i] = LogRetries \/ KeepsNothing

\* Every step keeps it so.
LEMMA LostStep == Typed /\ PartInv /\ LostInv /\ [Next]_vars => LostInv'
  <1> SUFFICES ASSUME Typed, PartInv, LostInv, [Next]_vars PROVE LostInv'
    OBVIOUS
  <1>1. Items \subseteq Nat /\ accepted \in [Items -> Nat] /\ retry_count \in [Items -> 0..LogRetries]
        /\ LogRetries \in Nat
    <2>1. Items \subseteq Nat
      BY Numbered
    <2> QED
      BY <2>1, InputType DEF Typed, TypeOK
  <1>2. \A i \in Nat : Held(i) \in Nat
    BY Counted DEF Counts
  <1>3. ASSUME UNCHANGED <<input, caller, accepted, refused, retry_count>>,
               \A i \in Items : Held(i)' = 0 => Held(i) = 0 \/ KeepsNothing
        PROVE  LostInv'
    BY <1>3 DEF LostInv, KeepsNothing, Items
  <1>4. CASE Cut
    <2>1. \A i \in Nat : Held(i)' = Held(i)
      BY <1>4, CutHeld
    <2> QED
      BY <1>1, <1>3, <1>4, <2>1 DEF Cut, ledger, keptVars
  <1>5. CASE LastCut
    <2>1. \A i \in Nat : Held(i)' = Held(i)
      BY <1>5, LastCutHeld
    <2> QED
      BY <1>1, <1>3, <1>5, <2>1 DEF LastCut, ledger, keptVars
  <1>6. ASSUME NEW answer \in Answers, Attempt(answer) PROVE LostInv'
    <2>1. UNCHANGED <<input, caller, retry_count>>
      BY <1>6 DEF Attempt, keptVars
    <2>2. ASSUME NEW i \in Items, Held(i)' = 0
          PROVE  accepted'[i] > 0 \/ i \in refused' \/ retry_count[i] = LogRetries \/ KeepsNothing
      <3>1. /\ refused \subseteq refused'
            /\ \/ accepted'[i] = accepted[i] /\ Held(i)' = Held(i)
               \/ accepted'[i] = accepted[i] + 1 /\ Held(i)' + 1 <= Held(i)
               \/ accepted'[i] = accepted[i] /\ i \in refused'
        BY <1>1, <1>6, AttemptHeld
      <3>2. accepted[i] \in Nat
        BY <1>1
      <3> QED
        BY <2>2, <3>1, <3>2 DEF LostInv
    <2> QED
      BY <2>1, <2>2 DEF LostInv, KeepsNothing, Items
  <1>7. CASE Unlicensed
    <2>1. KeepsNothing
      BY <1>7 DEF Unlicensed, KeepsNothing
    <2> QED
      BY <1>3, <1>7, <2>1 DEF Unlicensed, keptVars, ledger
  <1>8. CASE FlippedElsewhere
    <2>1. \A i : Held(i)' = Held(i)
      BY <1>8 DEF FlippedElsewhere, Held, cutVars, keptVars
    <2> QED
      BY <1>3, <1>8, <2>1 DEF FlippedElsewhere, keptVars, ledger
  <1>9. CASE NextChunk
    <2>1. UNCHANGED <<input, caller, accepted, refused, retry_count>>
      BY <1>9 DEF NextChunk, ledger
    <2>2. ASSUME NEW i \in Items, Held(i)' = 0, Held(i) # 0, ~KeepsNothing PROVE FALSE
      <3>1. /\ Held(i)' + CountIn(i, returned) = Held(i) + (IF nth = 0 THEN 0 ELSE CountIn(i, Kept))
            /\ Held(i)' >= (IF nth = 0 THEN 0 ELSE CountIn(i, Kept))
            /\ nth # 0 => CountIn(i, Kept) \in Nat
        <4>1. i \in Nat
          BY <1>1
        <4> QED
          BY <1>9, <4>1, NextChunkHeld
      <3>2. CountIn(i, returned) \in Nat /\ Held(i) \in Nat /\ i \in Nat
        BY <1>1, Counted DEF Counts
      <3>3. CountIn(i, returned) > 0
        BY <2>2, <3>1, <3>2
      <3>4. nth # 0 /\ stage = "sending"
        <4>1. stage = "sending" /\ (nth = 0 => returned = <<>>)
          BY <1>9 DEF NextChunk, Typed, StageInv
        <4>2. CountIn(i, <<>>) = 0
          BY <3>2, CopiesLaws
        <4> QED
          BY <3>3, <4>1, <4>2
      <3>5. CountIn(i, Kept) = 0
        BY <2>2, <3>1, <3>4
      <3>6. caller \in {"flush", "retry"}
        BY <2>2 DEF KeepsNothing, Typed, TypeOK, Callers
      <3>7. CASE caller = "flush"
        BY <3>3, <3>5, <3>7 DEF Kept
      <3>8. CASE caller = "retry"
        <4>1. returned # <<>>
          BY <3>2, <3>3, CopiesLaws
        <4>2. Kept = chunks[nth]
          BY <3>8, <4>1 DEF Kept
        <4>3. CountIn(i, returned) + InParts(i, work) <= CountIn(i, chunks[nth])
          BY <3>2, <3>4 DEF PartInv
        <4>4. InParts(i, work) \in Nat
          BY <3>2, Counted DEF Counts
        <4> QED
          BY <3>2, <3>3, <3>5, <4>2, <4>3, <4>4
      <3> QED
        BY <3>6, <3>7, <3>8
    <2> QED
      BY <1>3, <2>1, <2>2
  <1>10. CASE start_invocation_retry
    <2> DEFINE able  == {j \in Items : MayRetry(j)}
               again == Filter(failed_logs_buffer, able)
    <2>1. /\ UNCHANGED <<input, accepted, refused>>
          /\ retry_count' = [j \in Items |-> IF j \in ToSet(again) THEN retry_count[j] + 1
                                             ELSE retry_count[j]]
          /\ caller' = caller \/ caller \notin {"preInvoke", "shutdown"}
      <3>1. caller \notin {"preInvoke", "shutdown"}
        BY <1>10 DEF start_invocation_retry, Typed, StageInv
      <3> QED
        BY <1>10, <3>1 DEF start_invocation_retry, ledger
    <2>2. ToSet(again) \subseteq able
      <3>1. failed_logs_buffer \in Seq(Nat)
        BY Numbered
      <3> QED
        BY <3>1, FilterElements
    <2> HIDE DEF again
    <2>3. ASSUME NEW i \in Items, Held(i)' = 0
          PROVE  \/ accepted[i] > 0 \/ i \in refused \/ retry_count'[i] = LogRetries
                 \/ KeepsNothing'
      <3>1. /\ Held(i) = CountIn(i, failed_logs_buffer)
            /\ i \in ToSet(failed_logs_buffer) /\ MayRetry(i) => Held(i)' # 0
        BY <1>1, <1>10, RetryHeld
      <3>2. CASE i \notin ToSet(failed_logs_buffer)
        <4>1. Held(i) = 0
          <5>1. failed_logs_buffer \in Seq(Nat) /\ i \in Nat
            BY <1>1, Numbered
          <5> QED
            BY <3>1, <3>2, <5>1, CopiesOf
        <4>2. accepted[i] > 0 \/ i \in refused \/ retry_count[i] = LogRetries \/ KeepsNothing
          BY <4>1 DEF LostInv
        <4>3. KeepsNothing => KeepsNothing'
          BY <2>1 DEF KeepsNothing
        <4>4. retry_count[i] = LogRetries => retry_count'[i] = LogRetries
          <5>1. retry_count[i] = LogRetries => i \notin ToSet(again)
            BY <1>1, <2>2 DEF MayRetry
          <5> QED
            BY <2>1, <5>1
        <4> QED
          BY <4>2, <4>3, <4>4
      <3>3. CASE i \in ToSet(failed_logs_buffer)
        <4>1. ~MayRetry(i)
          BY <2>3, <3>1, <3>3
        <4>2. i \notin ToSet(again)
          BY <2>2, <4>1
        <4>3. retry_count'[i] = retry_count[i]
          BY <2>1, <4>2
        <4>4. retry_count[i] = LogRetries
          BY <1>1, <4>1 DEF MayRetry
        <4> QED
          BY <4>3, <4>4
      <3> QED
        BY <3>2, <3>3
    <2> QED
      BY <2>1, <2>3 DEF LostInv, Items
  <1>11. CASE UNCHANGED vars
    <2>1. \A i : Held(i)' = Held(i)
      BY <1>11 DEF vars, Held, cutVars, postVars, keptVars
    <2> QED
      BY <1>3, <1>11, <2>1 DEF vars, keptVars, ledger
  <1> QED
    BY <1>4, <1>5, <1>6, <1>7, <1>8, <1>9, <1>10, <1>11 DEF Next, Terminated

\* A log that no post delivered is not given up before New Relic has refused it or every
\* retry has been made, however its chunk was halved and whichever halves failed.
THEOREM OnlyHopelessAreLost == Spec => []OnlyHopelessLost
  <1>1. Init => PartInv
    BY DEF Init, PartInv
  <1>2. Init => LostInv
    <2> SUFFICES ASSUME Init, NEW i \in Items PROVE Held(i) # 0
      BY DEF LostInv
    <2>1. Typed
      BY TypedInit
    <2>2. rest \in Seq(Nat) /\ i \in Nat
      BY <2>1, Numbered
    <2>3. i \in ToSet(rest)
      <3>1. rest = [j \in Items |-> j]
        BY DEF Init
      <3> QED
        BY <3>1 DEF ToSet
    <2>4. CountIn(i, rest) >= 1
      BY <2>2, <2>3, CopiesOf
    <2>5. /\ CountIn(i, rest) \in Nat /\ CountIn(i, current) \in Nat /\ CountIn(i, later) \in Nat
          /\ CountIn(i, returned) \in Nat /\ CountIn(i, failed_logs_buffer) \in Nat
          /\ InChunks(i, After(chunks, nth)) \in Nat /\ InParts(i, work) \in Nat
      BY <2>1, <2>2, Counted DEF Counts
    <2> QED
      BY <2>4, <2>5 DEF Held
  <1>3. Typed /\ LostInv => OnlyHopelessLost
    <2> SUFFICES ASSUME Typed, LostInv, NEW i \in Items \ Pending
                 PROVE  \/ accepted[i] > 0 \/ i \in refused \/ retry_count[i] = LogRetries
                        \/ KeepsNothing
      BY DEF OnlyHopelessLost
    <2>1. Held(i) = 0
      BY NotHeld
    <2> QED
      BY <2>1 DEF LostInv
  <1> QED
    BY <1>1, <1>2, <1>3, AlwaysTyped, PartStep, LostStep, PTL DEF Spec

-----------------------------------------------------------------------------
(* What is sent twice.                                                     *)

\* In a retry, a chunk that was not halved is in one piece, and so is what is returned.
WholeInv ==
    caller = "retry" /\ stage = "sending" /\ nth # 0 =>
       \/ ToSet(chunks[nth]) \subseteq halved
       \/ returned = <<>> /\ Len(work) = 1 /\ Head(work).logs = chunks[nth]
       \/ work = <<>> /\ returned \in {<<>>, chunks[nth]}

\* Every step keeps it so.
LEMMA WholeStep == Typed /\ WholeInv /\ [Next]_vars => WholeInv'
  <1> SUFFICES ASSUME Typed, WholeInv, [Next]_vars PROVE WholeInv'
    OBVIOUS
  <1>1. CASE UNCHANGED <<caller, stage, nth, chunks, returned, work, halved>>
    BY <1>1 DEF WholeInv
  <1>2. CASE stage' # "sending" \/ nth' = 0
    BY <1>2 DEF WholeInv
  <1>3. ASSUME work # <<>>, stage = "sending", UNCHANGED <<caller, stage, nth, chunks>>,
               halved \subseteq halved', work' = Tail(work),
               returned' = returned \/ returned' = returned \o Head(work).logs
        PROVE  WholeInv'
    <2> SUFFICES ASSUME caller = "retry", nth # 0, ~(ToSet(chunks[nth]) \subseteq halved)
                 PROVE  work' = <<>> /\ returned' \in {<<>>, chunks[nth]}
      BY <1>3 DEF WholeInv
    <2>1. returned = <<>> /\ Len(work) = 1 /\ Head(work).logs = chunks[nth]
      BY <1>3 DEF WholeInv
    <2>2. chunks[nth] \in Seq(Items) /\ Len(Tail(work)) = Len(work) - 1
          /\ Tail(work) \in Seq([logs : Seq(Items), depth : 0..MAX_SPLIT_DEPTH])
      BY <1>3, PartsType
    <2>3. <<>> \o chunks[nth] = chunks[nth]
      BY <2>2, ConcatEmptySeq
    <2>4. Tail(work) = <<>>
      <3> DEFINE P == [logs : Seq(Items), depth : 0..MAX_SPLIT_DEPTH]
      <3>1. Tail(work) \in Seq(P) /\ Len(Tail(work)) = 0
        BY <2>1, <2>2
      <3> HIDE DEF P
      <3> QED
        BY <3>1, EmptySeq
    <2> QED
      BY <1>3, <2>1, <2>3, <2>4
  <1>4. ASSUME NEW answer \in Answers, Attempt(answer) PROVE WholeInv'
    <2> DEFINE part  == Head(work)
               spent == elapsed + (IF answer = "timeout" THEN HttpTimeout ELSE 0)
    <2>1. /\ stage = "sending" /\ work # <<>>
          /\ \/ Accept(part) \/ Halve(part) \/ Refuse(part) \/ PostAgain(spent)
             \/ GiveBack(part, spent)
          /\ UNCHANGED <<caller, stage, chunks, nth>>
      BY <1>4 DEF Attempt, cutVars
    <2>2. <<>> \o Tail(work) = Tail(work)
      BY <2>1, PartsType
    <2> HIDE DEF spent
    <2>3. CASE Accept(part) \/ Refuse(part) \/ GiveBack(part, spent)
      <3>1. /\ work' = Tail(work) /\ halved' = halved
            /\ returned' = returned \/ returned' = returned \o part.logs
        BY <2>2, <2>3 DEF Accept, Refuse, GiveBack, NextPart, Returned
      <3> QED
        BY <1>3, <2>1, <3>1
    <2>4. CASE Halve(part)
      <3>1. halved' = IF caller = "retry" THEN halved \cup ToSet(chunks[nth]) ELSE halved
        BY <2>4 DEF Halve
      <3> QED
        BY <2>1, <3>1 DEF WholeInv
    <2>5. CASE PostAgain(spent)
      BY <1>1, <2>1, <2>5 DEF PostAgain
    <2> QED
      BY <2>1, <2>3, <2>4, <2>5
  <1>5. CASE Unlicensed
    <2>1. /\ work # <<>> /\ stage = "sending" /\ UNCHANGED <<caller, stage, nth, chunks>>
          /\ halved' = halved /\ work' = <<>> \o Tail(work) /\ returned' = returned
      BY <1>5 DEF Unlicensed, NextPart, cutVars, ledger
    <2>2. <<>> \o Tail(work) = Tail(work)
      BY <2>1, PartsType
    <2> QED
      BY <1>3, <2>1, <2>2
  <1>6. CASE NextChunk
    <2>1. CASE SendChunk(nth + 1)
      <3>1. /\ nth' = nth + 1 /\ work' = <<[logs |-> chunks[nth + 1], depth |-> 0]>>
            /\ returned' = <<>> /\ chunks' = chunks
        BY <1>6, <2>1 DEF NextChunk, SendChunk, cutVars
      <3>2. Len(work') = 1 /\ Head(work').logs = chunks'[nth']
        BY <3>1
      <3> QED
        BY <3>1, <3>2 DEF WholeInv
    <2>2. CASE Begin(later, <<>>)
      BY <1>2, <2>2 DEF Begin
    <2>3. CASE stage' \in {"done", "kept"}
      BY <1>2, <2>3
    <2> QED
      BY <1>6, <2>1, <2>2, <2>3 DEF NextChunk
  <1>7. CASE Cut \/ LastCut
    BY <1>2, <1>7 DEF Cut, LastCut, postVars, Typed, StageInv
  <1>8. CASE start_invocation_retry
    BY <1>2, <1>8 DEF start_invocation_retry, Begin
  <1> QED
    BY <1>1, <1>4, <1>5, <1>6, <1>7, <1>8 DEF Next, vars, FlippedElsewhere, Terminated,
       cutVars, postVars, ledger

\* Of an item no retry halved, there is one copy: held, or delivered.
OnceInv == \A i \in Items \ halved : accepted[i] + Held(i) <= 1

\* Every step keeps it so.
LEMMA OnceStep == Typed /\ WholeInv /\ OnceInv /\ [Next]_vars => OnceInv'
  <1> SUFFICES ASSUME Typed, WholeInv, OnceInv, [Next]_vars PROVE OnceInv'
    OBVIOUS
  <1>1. Items \subseteq Nat /\ \A i \in Items : accepted[i] \in Nat
    <2>1. Items \subseteq Nat
      BY Numbered
    <2> QED
      BY <2>1 DEF Typed, TypeOK
  <1>2. \A i \in Nat : Held(i) \in Nat
    BY Counted DEF Counts
  <1>3. \A i \in Nat : Held(i)' \in Nat
    <2>1. Typed'
      BY TypedStep
    <2> QED
      BY <2>1, CountedNext DEF Counts
  <1>4. ASSUME UNCHANGED <<input, accepted, halved>>,
               \A i \in Items \ halved : Held(i)' <= Held(i)
        PROVE  OnceInv'
    <2> SUFFICES ASSUME NEW i \in Items \ halved PROVE accepted[i] + Held(i)' <= 1
      BY <1>4 DEF OnceInv, Items
    <2>1. accepted[i] \in Nat /\ Held(i) \in Nat /\ Held(i)' \in Nat
      BY <1>1, <1>2, <1>3
    <2>2. accepted[i] + Held(i) <= 1 /\ Held(i)' <= Held(i)
      BY <1>4 DEF OnceInv
    <2> QED
      BY <2>1, <2>2
  <1>5. \A i \in Items : Held(i) <= Held(i)
    BY <1>1, <1>2
  <1>6. CASE Cut
    <2>1. \A i \in Nat : Held(i)' = Held(i)
      BY <1>6, CutHeld
    <2> QED
      BY <1>1, <1>4, <1>5, <1>6, <2>1 DEF Cut, ledger
  <1>7. CASE LastCut
    <2>1. \A i \in Nat : Held(i)' = Held(i)
      BY <1>7, LastCutHeld
    <2> QED
      BY <1>1, <1>4, <1>5, <1>7, <2>1 DEF LastCut, ledger
  <1>8. ASSUME NEW answer \in Answers, Attempt(answer) PROVE OnceInv'
    <2>1. input' = input
      BY <1>8 DEF Attempt
    <2>2. ASSUME NEW i \in Items, i \notin halved' PROVE accepted'[i] + Held(i)' <= 1
      <3>1. /\ Held(i)' <= Held(i) /\ halved \subseteq halved'
            /\ \/ accepted'[i] = accepted[i] /\ Held(i)' = Held(i)
               \/ accepted'[i] = accepted[i] + 1 /\ Held(i)' + 1 <= Held(i)
               \/ accepted'[i] = accepted[i] /\ i \in refused'
        BY <1>1, <1>8, AttemptHeld
      <3>2. accepted[i] \in Nat /\ Held(i) \in Nat /\ Held(i)' \in Nat
        BY <1>1, <1>2, <1>3
      <3>3. accepted[i] + Held(i) <= 1
        BY <2>2, <3>1 DEF OnceInv
      <3> QED
        BY <3>1, <3>2, <3>3
    <2> QED
      BY <2>1, <2>2 DEF OnceInv, Items
  <1>9. CASE Unlicensed
    <2>1. \A i \in Nat : Held(i)' <= Held(i)
      BY <1>9, UnlicensedHeld
    <2> QED
      BY <1>1, <1>4, <1>9, <2>1 DEF Unlicensed, ledger
  <1>10. CASE FlippedElsewhere
    <2>1. \A i : Held(i)' = Held(i)
      BY <1>10 DEF FlippedElsewhere, Held, cutVars, keptVars
    <2> QED
      BY <1>4, <1>5, <1>10, <2>1 DEF FlippedElsewhere, ledger
  <1>11. CASE NextChunk
    <2>1. UNCHANGED <<input, accepted, halved>>
      BY <1>11 DEF NextChunk, ledger
    <2>2. ASSUME NEW i \in Items \ halved PROVE Held(i)' <= Held(i)
      <3>1. i \in Nat
        BY <1>1
      <3>2. /\ Held(i)' + CountIn(i, returned)
               = Held(i) + (IF nth = 0 THEN 0 ELSE CountIn(i, Kept))
            /\ nth # 0 => CountIn(i, Kept) \in Nat
        BY <1>11, <3>1, NextChunkHeld
      <3>3. Held(i) \in Nat /\ Held(i)' \in Nat /\ CountIn(i, returned) \in Nat
        BY <1>2, <1>3, <3>1, Counted DEF Counts
      <3>4. nth # 0 => CountIn(i, Kept) <= CountIn(i, returned)
        <4> SUFFICES ASSUME nth # 0 PROVE CountIn(i, Kept) <= CountIn(i, returned)
          OBVIOUS
        <4>1. CountIn(i, <<>>) = 0
          BY <3>1, CopiesLaws
        <4>2. CASE Kept = <<>> \/ Kept = returned
          BY <3>3, <4>1, <4>2
        <4>3. CASE caller = "retry" /\ returned # <<>>
          <5>1. Kept = chunks[nth] /\ stage = "sending" /\ work = <<>>
            BY <1>11, <4>3 DEF Kept, NextChunk
          <5>2. CASE ToSet(chunks[nth]) \subseteq halved
            <6>1. chunks[nth] \in Seq(Nat)
              <7>1. chunks[nth] \in Seq(Items) /\ Items \subseteq Nat
                BY <1>1, KeptType
              <7> QED
                BY <7>1, SeqMonotonic
            <6>2. CountIn(i, chunks[nth]) = 0
              BY <3>1, <5>2, <6>1, CopiesOf
            <6> QED
              BY <3>3, <5>1, <6>2
          <5>3. CASE returned = chunks[nth]
            BY <4>2, <5>1, <5>3
          <5>4. Len(work) # 1
            BY <5>1
          <5> QED
            BY <4>3, <5>1, <5>2, <5>3, <5>4 DEF WholeInv
        <4> QED
          BY <4>2, <4>3 DEF Kept
      <3> QED
        BY <3>2, <3>3, <3>4
    <2> QED
      BY <1>4, <2>1, <2>2
  <1>12. CASE start_invocation_retry
    <2>1. \A i \in Nat : Held(i)' <= Held(i)
      BY <1>12, RetryHeld
    <2> QED
      BY <1>1, <1>4, <1>12, <2>1 DEF start_invocation_retry, ledger
  <1>13. CASE UNCHANGED vars
    <2>1. \A i : Held(i)' = Held(i)
      BY <1>13 DEF vars, Held, cutVars, postVars, keptVars
    <2> QED
      BY <1>4, <1>5, <1>13, <2>1 DEF vars, ledger
  <1> QED
    BY <1>6, <1>7, <1>8, <1>9, <1>10, <1>11, <1>12, <1>13 DEF Next, Terminated

\* What was delivered is not sent again by the next retry, except that a retry which had to
\* halve a chunk keeps the whole of it when part of it fails.
THEOREM OnlyHalvedSentTwice == Spec => []SentTwiceOnlyIfHalved
  <1>1. Init => WholeInv
    BY DEF Init, WholeInv
  <1>2. Init => OnceInv
    <2> SUFFICES ASSUME Init, NEW i \in Items PROVE accepted[i] + Held(i) <= 1
      BY DEF OnceInv
    <2>1. Typed
      BY TypedInit
    <2>2. rest \in Seq(Nat) /\ i \in Nat
      BY <2>1, Numbered
    <2>3. IsInjective(rest)
      <3>1. rest = [j \in Items |-> j]
        BY DEF Init
      <3> QED
        BY <3>1 DEF IsInjective
    <2>4. CountIn(i, rest) <= 1 /\ CountIn(i, rest) \in Nat
      BY <2>2, <2>3, CopiesOfDistinct, CopiesLaws
    <2>5. After(<<>>, 0) = <<>>
      <3>1. <<>> \in Seq(Seq(Nat))
        OBVIOUS
      <3> QED
        BY <3>1, AfterOf
    <2>6. CountIn(i, <<>>) = 0 /\ InChunks(i, <<>>) = 0 /\ InParts(i, <<>>) = 0
      BY <2>2, CopiesLaws, ChunksLaws, PartsLaws
    <2>7. /\ current = <<>> /\ later = <<>> /\ returned = <<>> /\ failed_logs_buffer = <<>>
          /\ chunks = <<>> /\ nth = 0 /\ work = <<>> /\ accepted[i] = 0
      BY DEF Init, NoWork
    <2>8. Held(i) = CountIn(i, rest) + 0 + 0 + 0 + 0 + 0 + 0
      BY <2>5, <2>6, <2>7 DEF Held
    <2> QED
      BY <2>4, <2>7, <2>8
  <1>3. Typed /\ OnceInv => SentTwiceOnlyIfHalved
    <2> SUFFICES ASSUME Typed, OnceInv, NEW i \in Items \ halved PROVE accepted[i] < 2
      BY DEF SentTwiceOnlyIfHalved
    <2>1. i \in Nat
      BY Numbered
    <2>2. Held(i) \in Nat /\ accepted[i] \in Nat
      BY <2>1, Counted DEF Counts, Typed, TypeOK
    <2>3. accepted[i] + Held(i) <= 1
      BY DEF OnceInv
    <2> QED
      BY <2>2, <2>3
  <1> QED
    BY <1>1, <1>2, <1>3, AlwaysTyped, WholeStep, OnceStep, PTL DEF Spec
=============================================================================
