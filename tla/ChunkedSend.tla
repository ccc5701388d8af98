----------------------------- MODULE ChunkedSend -----------------------------
(***************************************************************************)
(* One batch on its way to New Relic: cut into chunks of limited size,     *)
(* each chunk posted with retries (newrelic/client.rs, which also falls    *)
(* back to classical TLS), halved after a 413, and what failed of it kept  *)
(* for the retry of a later INVOKE (logs/processor.rs); at SHUTDOWN the    *)
(* agent payloads left (agent/batch.rs), with no retry.                    *)
(*                                                                         *)
(* The other modules take what becomes of a chunk as one choice; here is   *)
(* how it comes about.  Only one sender is modelled, for senders share the *)
(* TLS latch alone, which another may set.  The limit of the buffer of     *)
(* failed logs is LogPipeline's, and so are its two queues, one per type   *)
(* of log, which are one here: a retry takes both, and sorts them.         *)
(***************************************************************************)
EXTENDS Naturals, SequencesExt, Subsequences

CONSTANTS
    Inputs,          \* the batches to try
    MAX_CHUNK_SIZE,  \* 1 MB in the code
    BaseOverhead,    \* what surrounds the payloads of a chunk
    MAX_SPLIT_DEPTH, \* 4 in the code
    MAX_RETRIES,     \* of a post, with no time budget (3 in the code)
    BudgetRetries,   \* of a post, with a time budget (20 in the code)
    LogRetries,      \* INVOKEs that retry a log (processor.rs's MAX_RETRIES, 3)
    HttpTimeout      \* http_timeout (2.4 s); times are in units of 100 ms

\* An input: who sends it, the sizes of its items, those of low priority (extension
\* logs), data_collection_timeout if it is set, whether there is a licence key, and
\* whether something on the way swallows the hello of post-quantum TLS.
Callers == {"flush", "retry", "preInvoke", "shutdown"}

ASSUME ChunkedSendAssumption ==
    /\ \A n \in {MAX_CHUNK_SIZE, BaseOverhead, MAX_SPLIT_DEPTH, MAX_RETRIES, BudgetRetries,
                 LogRetries, HttpTimeout} : n \in Nat
    /\ \A in \in Inputs :
          /\ in.caller \in Callers \ {"retry"}
          /\ in.sizes \in Seq(Nat \ {0}) /\ in.low \subseteq DOMAIN in.sizes
          /\ in.budget \subseteq Nat /\ in.license_key \in BOOLEAN /\ in.hangs \in BOOLEAN

VARIABLES
    input,
    caller,        \* a flush, then the retries of what it kept; or one that keeps nothing
    stage,
    batch,         \* the items being sent, in order
    later,         \* of a retry: those of low priority, sent after the others
    rest, current, current_size, chunks,  \* of batch: still to cut, being cut, cut
    nth,           \* the chunk being sent
    work,          \* its parts still to send, and how often each was halved
    returned,      \* its logs that could not be sent
    retries,       \* of the part being posted
    elapsed,       \* since its first attempt
    USE_CLASSICAL_TLS,
    failed_logs_buffer,
    retry_count,
    accepted,      \* how often an item was in a post answered 2xx
    refused,       \* items of a post answered 4xx for good
    halved,        \* history: items of a chunk that was halved in a retry
    wasted         \* history: attempts lost to what swallows the hello

cutVars   == <<batch, later, rest, current, current_size, chunks>>
postVars  == <<nth, work, returned, retries, elapsed, USE_CLASSICAL_TLS>>
keptVars  == <<failed_logs_buffer, retry_count>>
ledger    == <<accepted, refused, halved, wasted>>
vars == <<input, caller, stage, cutVars, postVars, keptVars, ledger>>

Items  == DOMAIN input.sizes
Budget == input.budget  \* empty when it is not set
NoWork == <<>>

TypeOK ==
    /\ input \in Inputs
    /\ caller \in Callers
    /\ stage \in {"cutting", "sending", "kept", "done"}
    /\ batch \in Seq(Items) /\ later \in Seq(Items)
    /\ rest \in Seq(Items) /\ current \in Seq(Items)
    /\ returned \in Seq(Items) /\ failed_logs_buffer \in Seq(Items)
    /\ current_size \in Nat
    /\ chunks \in Seq(Seq(Items))
    /\ nth \in 0..Len(chunks)
    /\ work \in Seq([logs : Seq(Items), depth : 0..MAX_SPLIT_DEPTH])
    /\ retries \in Nat /\ elapsed \in Nat
    /\ USE_CLASSICAL_TLS \in BOOLEAN
    /\ retry_count \in [Items -> 0..LogRetries]
    /\ accepted \in [Items -> Nat]
    /\ refused \subseteq Items /\ halved \subseteq Items
    /\ wasted \in Nat

Init ==
    /\ input \in Inputs
    /\ caller = input.caller
    /\ stage = "cutting"
    /\ batch = [i \in Items |-> i] /\ rest = batch /\ later = <<>>
    /\ current = <<>> /\ current_size = 0 /\ chunks = <<>>
    /\ nth = 0 /\ work = NoWork /\ returned = <<>> /\ retries = 0 /\ elapsed = 0
    /\ USE_CLASSICAL_TLS = FALSE
    /\ failed_logs_buffer = <<>> /\ retry_count = [i \in Items |-> 0]
    /\ accepted = [i \in Items |-> 0] /\ refused = {} /\ halved = {}
    /\ wasted = 0

-----------------------------------------------------------------------------
(* Cutting a batch: the same loop for logs and, with the overhead, for the *)
(* payloads of SHUTDOWN (split_into_chunks).                               *)

Overhead == IF caller = "shutdown" THEN BaseOverhead ELSE 0

\* Mutant: a chunk is full when its limit is passed.
FullAfter(i) == current_size + Overhead > MAX_CHUNK_SIZE /\ current # <<>>

Full(i) == current_size + input.sizes[i] + Overhead > MAX_CHUNK_SIZE /\ current # <<>>

Cut ==
    /\ stage = "cutting"
    /\ rest # <<>>
    /\ LET i == Head(rest)
       IN  IF Full(i)
           THEN /\ chunks' = Append(chunks, current)
                /\ current' = <<i>>
                /\ current_size' = input.sizes[i]
           ELSE /\ current' = Append(current, i)
                /\ current_size' = current_size + input.sizes[i]
                /\ UNCHANGED chunks
    /\ rest' = Tail(rest)
    /\ UNCHANGED <<input, caller, stage, batch, later, postVars, keptVars, ledger>>

LastCut ==
    /\ stage = "cutting"
    /\ rest = <<>>
    /\ stage' = "sending"
    /\ chunks' = IF current = <<>> THEN chunks ELSE Append(chunks, current)
    /\ current' = <<>> /\ current_size' = 0
    /\ UNCHANGED <<input, caller, batch, later, rest, postVars, keptVars, ledger>>

Begin(logs, others) ==
    /\ stage' = "cutting"
    /\ batch' = logs /\ rest' = logs /\ later' = others
    /\ current' = <<>> /\ current_size' = 0 /\ chunks' = <<>>
    /\ nth' = 0

-----------------------------------------------------------------------------
(* Posting: send_payload_raw and send_agent_payload.                       *)

\* 2xx, 413, another 4xx, 5xx; no connection, no answer in time, or broken off.
Answers  == {"accepted", "too_large", "rejected", "error", "connect", "timeout", "network"}
Retried  == {"error", "connect", "timeout", "network"}

\* With hangs, no hello but the classical one is answered.
Answered == IF input.hangs /\ ~USE_CLASSICAL_TLS THEN {"timeout"} ELSE Answers

\* Mutant: only a connection that is not made counts.
flip_on_connect(answer) == USE_CLASSICAL_TLS' = (USE_CLASSICAL_TLS \/ answer = "connect")

\* The latch is read for each attempt.
classify_and_maybe_flip(answer) ==
    USE_CLASSICAL_TLS' = (USE_CLASSICAL_TLS \/ answer \in {"connect", "timeout"})

\* Mutant: either limit allows another attempt.
retry_allowed_by_either(spent) ==
    IF Budget = {} THEN retries < MAX_RETRIES
    ELSE retries < BudgetRetries \/ \A b \in Budget : spent < b

retry_allowed(spent) ==
    IF Budget = {} THEN retries < MAX_RETRIES
    ELSE retries < BudgetRetries /\ \A b \in Budget : spent < b

\* get_backoff_delay, and with a budget get_growing_backoff_delay.
Delay(n) ==
    IF Budget = {} THEN IF n = 1 THEN 2 ELSE IF n = 2 THEN 4 ELSE 9
    ELSE LET ms == 2 * <<1, 2, 4, 8, 16>>[Min({(n - 1) \div 3, 4}) + 1] IN Min({ms, 30})

\* What is left of the chunk once the part being posted is over.
NextPart(parts) ==
    /\ work' = parts \o Tail(work)
    /\ retries' = 0 /\ elapsed' = 0

\* Mutant: the logs of a part replace those that were returned before.
ReturnedOfLast(logs) == returned' = logs

Returned(logs) == returned' = returned \o logs

\* try_send_chunk_recursive; the others do not halve.
MayHalve == caller \in {"flush", "retry"}

Halves(part) ==
    LET mid == Len(part.logs) \div 2
    IN  <<[logs |-> SubSeq(part.logs, 1, mid), depth |-> part.depth + 1],
          [logs |-> SubSeq(part.logs, mid + 1, Len(part.logs)), depth |-> part.depth + 1]>>

\* What an answer makes of the part: it is delivered,
Accept(part) ==
    /\ accepted' = [i \in Items |-> IF i \in ToSet(part.logs) THEN accepted[i] + 1 ELSE accepted[i]]
    /\ NextPart(<<>>)
    /\ UNCHANGED <<returned, refused, halved>>

\* halved,
MayHalvePart(part) == MayHalve /\ Len(part.logs) > 1 /\ part.depth < MAX_SPLIT_DEPTH

Halve(part) ==
    /\ MayHalvePart(part)
    /\ NextPart(Halves(part))
    /\ halved' = IF caller = "retry" THEN halved \cup ToSet(chunks[nth]) ELSE halved
    /\ UNCHANGED <<returned, accepted, refused>>

\* dropped,
Refuse(part) ==
    /\ refused' = refused \cup ToSet(part.logs)
    /\ NextPart(<<>>)
    /\ UNCHANGED <<returned, accepted, halved>>

\* posted once more after a backoff,
PostAgain(spent) ==
    /\ retry_allowed(spent)
    /\ retries' = retries + 1
    /\ elapsed' = spent + Delay(retries + 1)
    /\ UNCHANGED <<work, returned, accepted, refused, halved>>

\* or given back.
GiveBack(part, spent) ==
    /\ ~retry_allowed(spent)
    /\ Returned(part.logs)
    /\ NextPart(<<>>)
    /\ UNCHANGED <<accepted, refused, halved>>

\* An attempt is answered; without a licence key none is made, and that is Ok too.
Attempt(answer) ==
    LET part  == Head(work)
        spent == elapsed + (IF answer = "timeout" THEN HttpTimeout ELSE 0)
    IN  /\ stage = "sending" /\ work # <<>>
        /\ input.license_key
        /\ answer \in Answered
        /\ classify_and_maybe_flip(answer)
        /\ wasted' = IF Answered = {"timeout"} THEN wasted + 1 ELSE wasted
        /\ \/ answer = "accepted" /\ Accept(part)
           \/ answer = "too_large" /\ Halve(part)
           \/ /\ answer = "rejected" \/ (answer = "too_large" /\ ~MayHalvePart(part))
              /\ Refuse(part)
           \/ answer \in Retried /\ PostAgain(spent)
           \/ answer \in Retried /\ GiveBack(part, spent)
        /\ UNCHANGED <<input, caller, stage, cutVars, nth, keptVars>>

Unlicensed ==
    /\ stage = "sending" /\ work # <<>>
    /\ ~input.license_key
    /\ NextPart(<<>>)
    /\ UNCHANGED <<input, caller, stage, cutVars, nth, returned, USE_CLASSICAL_TLS, keptVars,
                   ledger>>

\* Another sender has met what this one may meet.
FlippedElsewhere ==
    /\ stage = "sending" /\ ~USE_CLASSICAL_TLS
    /\ USE_CLASSICAL_TLS' = TRUE
    /\ UNCHANGED <<input, caller, stage, cutVars, nth, work, returned, retries, elapsed,
                   keptVars, ledger>>

-----------------------------------------------------------------------------
(* The callers, chunk by chunk.                                            *)

\* Mutant: a flush keeps the whole chunk too.
KeptWhole == IF caller \in {"flush", "retry"} /\ returned # <<>> THEN chunks[nth] ELSE <<>>

\* A flush keeps the logs that were returned, a retry the whole chunk if any was, and
\* the others nothing.
Kept ==
    IF caller = "flush" THEN returned
    ELSE IF caller = "retry" /\ returned # <<>> THEN chunks[nth] ELSE <<>>

SendChunk(n) ==
    /\ nth' = n
    /\ work' = <<[logs |-> chunks[n], depth |-> 0]>>
    /\ UNCHANGED <<stage, cutVars>>

\* The chunk before, if any, is over: the next one, or those of low priority.
NextChunk ==
    /\ stage = "sending" /\ work = <<>>
    /\ failed_logs_buffer' = IF nth = 0 THEN failed_logs_buffer
                             ELSE failed_logs_buffer \o Kept
    /\ returned' = <<>>
    /\ \/ nth < Len(chunks) /\ SendChunk(nth + 1)
       \/ /\ nth = Len(chunks) /\ later # <<>>
          /\ Begin(later, <<>>)
          /\ UNCHANGED work
       \/ /\ nth = Len(chunks) /\ later = <<>>
          /\ stage' = IF failed_logs_buffer' = <<>> THEN "done" ELSE "kept"
          /\ UNCHANGED <<cutVars, nth, work>>
    /\ UNCHANGED <<input, caller, retries, elapsed, USE_CLASSICAL_TLS, retry_count, ledger>>

\* Mutant: a log is retried once more than the limit says.
OneRetryMore(i) == retry_count[i] <= LogRetries

MayRetry(i) == retry_count[i] < LogRetries

\* An INVOKE, or a pass of flush_on_shutdown: what has not been retried often enough is.
start_invocation_retry ==
    LET again == Filter(failed_logs_buffer, {i \in Items : MayRetry(i)})
        high  == Filter(again, Items \ input.low)
        low   == Filter(again, input.low)
    IN  /\ stage = "kept"
        /\ failed_logs_buffer' = <<>>
        /\ retry_count' = [i \in Items |-> IF i \in ToSet(again) THEN retry_count[i] + 1
                                           ELSE retry_count[i]]
        /\ \/ again = <<>> /\ stage' = "done" /\ UNCHANGED <<caller, cutVars, nth>>
           \/ again # <<>> /\ caller' = "retry" /\ Begin(high, low)
        /\ UNCHANGED <<input, work, returned, retries, elapsed, USE_CLASSICAL_TLS, ledger>>

Terminated == stage = "done" /\ UNCHANGED vars

Next ==
    \/ Cut \/ LastCut
    \/ \E answer \in Answers : Attempt(answer)
    \/ Unlicensed \/ FlippedElsewhere
    \/ NextChunk \/ start_invocation_retry
    \/ Terminated

Spec == Init /\ [][Next]_vars

-----------------------------------------------------------------------------
(* Properties.                                                             *)

Size(c) == Total(input.sizes, c)

\* The chunks of a batch, with what is not cut yet, are the batch: no item is lost, sent
\* twice or moved by the loop that cuts it, whatever the sizes.  No chunk is empty, and
\* none exceeds the limit but for an item that does so alone.
ChunksCover ==
    /\ FlattenSeq(chunks) \o current \o rest = batch
    /\ \A n \in DOMAIN chunks :
          Len(chunks[n]) = 1 \/ (chunks[n] # <<>> /\ Size(chunks[n]) + Overhead <= MAX_CHUNK_SIZE)

\* Items someone still has to send, or to keep.
Pending ==
    LET unsent == IF stage = "sending" THEN SubSeq(chunks, nth + 1, Len(chunks))
                  ELSE IF stage = "cutting" THEN chunks ELSE <<>>
    IN  ToSet(rest \o current \o later \o returned \o failed_logs_buffer)
        \cup (UNION {ToSet(c) : c \in ToSet(unsent)})
        \cup (UNION {ToSet(part.logs) : part \in ToSet(work)})

KeepsNothing == caller \in {"preInvoke", "shutdown"} \/ ~input.license_key

\* A log that no post delivered is not given up before New Relic has refused it or every
\* retry has been made, however its chunk was halved and whichever halves failed.
OnlyHopelessLost ==
    \A i \in Items \ Pending :
        accepted[i] > 0 \/ i \in refused \/ retry_count[i] = LogRetries \/ KeepsNothing

\* What was delivered is not sent again by the next retry, except that a retry which had to
\* halve a chunk keeps the whole of it when part of it fails.
SentTwiceOnlyIfHalved == \A i \in Items \ halved : accepted[i] < 2

\* A post is retried so often and no more; with a budget, an attempt may begin after it is
\* spent only by the backoff that began before.
AttemptsBounded ==
    /\ retries <= IF Budget = {} THEN MAX_RETRIES ELSE BudgetRetries
    /\ retries > 0 => \A b \in Budget : elapsed < b + Delay(retries)

\* Where the hello of post-quantum TLS is swallowed, a sender loses one attempt to it, not
\* one per chunk, half or INVOKE.  (With a budget below HttpTimeout that attempt is the last.)
OneHang == wasted < 2
=============================================================================
