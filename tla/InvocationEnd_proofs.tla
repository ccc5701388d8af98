------------------------ MODULE InvocationEnd_proofs ------------------------
(***************************************************************************)
(* Proofs about InvocationEnd and the ErrorSynthesis it extends, in four   *)
(* parts: types; the reports of errors (ReportInv: what SENT_ERRORS, the   *)
(* buffer of failed errors and the retries say of each report); the Notify *)
(* of a request (NotifyInv: where the permit of a handled runtimeDone is); *)
(* the waits (WaitsInTime is inductive).                                   *)
(***************************************************************************)
EXTENDS InvocationEnd, TLAPS

-----------------------------------------------------------------------------
(* Types.                                                                  *)

\* The event loop is past the awaits before the entry of r.
Created(r) == r < issued \/ (r = issued /\ loop # "begin")

\* Beyond TypeOK: a report that has begun has an id and a cause, of SHUTDOWN one of its
\* reasons; a request has one Notify from its platform.start at most, and one from its
\* INVOKE.
CauseInv ==
    \A d \in Detections :
        at[d] # "none" =>
            /\ cause[d] \in (IF d.by = "shutdown" THEN {"failure", "timeout", "unknown"} ELSE Causes)
            /\ id[d] \in Ids

MadeInv ==
    /\ loop \in {"begin", "join", "after", "handshake"} => issued # 0
    /\ \A r \in Requests :
          /\ made[r] = 0 \/ r \in started \/ Created(r)
          /\ made[r] < 2 \/ (r \in started /\ Created(r))
          /\ entry[r] <= made[r]
          /\ task[r] # "none" => Created(r)

-----------------------------------------------------------------------------
(* Types of the errors.                                                    *)

\* What waits to be retried has failed once, and is in one place of one queue.
QueueInv ==
    /\ \A i \in DOMAIN FAILED_ERRORS : at[FAILED_ERRORS[i]] = "failed"
    /\ \A i, j \in DOMAIN FAILED_ERRORS : FAILED_ERRORS[i] = FAILED_ERRORS[j] => i = j
    /\ \A r \in Requests : \A i \in DOMAIN retrying[r] : at[retrying[r][i]] = "retrying"
    /\ \A r, q \in Requests : \A i \in DOMAIN retrying[r], j \in DOMAIN retrying[q] :
          retrying[r][i] = retrying[q][j] => r = q /\ i = j

ErrorInv == ErrorTypeOK /\ CauseInv /\ QueueInv

\* The key of a report that has begun is one of SENT_ERRORS.
LEMMA KeyType ==
    ASSUME ErrorInv, NEW d \in Detections, at[d] # "none"
    PROVE  Key(d) \in [of : Ids, class : Classes]
  <1>1. cause[d] \in (IF d.by = "shutdown" THEN {"failure", "timeout", "unknown"} ELSE Causes)
    BY DEF ErrorInv, CauseInv
  <1>2. id[d] \in Ids
    BY DEF ErrorInv, CauseInv
  <1>3. d.by = "shutdown" => ShutdownClass(cause[d]) \in Classes
    BY <1>1 DEF ShutdownClass, Classes
  <1>4. d.by # "shutdown" => lambda_error_type_for_status(cause[d]) \in Classes
    BY <1>1 DEF lambda_error_type_for_status, Classes, Causes
  <1> QED
    BY <1>2, <1>3, <1>4 DEF Key

\* A record is never without an id, whatever it and the context hold.
LEMMA RequestIdsType ==
    ASSUME NEW own \in Ids \cup {NoId}, NEW ctx \in Requests \cup {NoId}
    PROVE  request_ids(own, ctx) \subseteq Ids
  BY DEF request_ids, Ids

\* A record of the telemetry stream reports an error.
LEMMA CheckType ==
    ASSUME ErrorInv, NEW d \in Detections, d.by # "shutdown", NEW c \in Causes,
           NEW own \in Ids \cup {NoId}, NEW ctx \in Requests \cup {NoId},
           check_and_send_platform_errors(d, c, own, ctx)
    PROVE  ErrorInv'
  <1>1. PICK i \in Ids : id' = [id EXCEPT ![d] = i]
    BY RequestIdsType DEF check_and_send_platform_errors
  <1>2. /\ at[d] = "none" /\ cause' = [cause EXCEPT ![d] = c] /\ at' = [at EXCEPT ![d] = "spawned"]
        /\ UNCHANGED <<SENT_ERRORS, FAILED_ERRORS, due, retrying, cleared>>
    BY DEF check_and_send_platform_errors
  <1> QED
    BY <1>1, <1>2 DEF ErrorInv, ErrorTypeOK, CauseInv, QueueInv, Stages

\* SHUTDOWN reports an error.
LEMMA ShutdownErrorType ==
    ASSUME ErrorInv, NEW d \in Detections, NEW c \in {"failure", "timeout", "unknown"},
           d.by = "shutdown", ShutdownError(d, c)
    PROVE  ErrorInv'
  <1>1. c \in Causes /\ d.of \in Ids
    BY DEF Causes, Detections, Ids, Starts
  <1>2. /\ at[d] = "none"
        /\ cause' = [cause EXCEPT ![d] = c]
        /\ id' = [id EXCEPT ![d] = d.of]
        /\ \/ at' = [at EXCEPT ![d] = "skipped"]
           \/ at' = [at EXCEPT ![d] = "sending"]
        /\ UNCHANGED <<SENT_ERRORS, FAILED_ERRORS, due, retrying, cleared>>
    BY DEF ShutdownError, LookedUp
  <1> QED
    BY <1>1, <1>2 DEF ErrorInv, ErrorTypeOK, CauseInv, QueueInv, Stages

\* INVOKE clears the marks.
LEMMA ClearType ==
    ASSUME ErrorInv, NEW r \in Requests, clear_sent_errors_for_request(r)
    PROVE  ErrorInv'
  BY DEF ErrorInv, ErrorTypeOK, CauseInv, QueueInv, clear_sent_errors_for_request

\* The steps of a report and of the retries.
LEMMA ErrorStepType ==
    ASSUME ErrorInv, ErrorStep
    PROVE  ErrorInv'
  <1>1. ASSUME NEW d \in Detections, send_lambda_error(d) PROVE ErrorInv'
    <2>1. /\ at[d] = "spawned"
          /\ \/ at' = [at EXCEPT ![d] = "skipped"]
             \/ at' = [at EXCEPT ![d] = "sending"]
          /\ UNCHANGED <<cause, id, SENT_ERRORS, FAILED_ERRORS, due, retrying, cleared>>
      BY <1>1 DEF send_lambda_error, LookedUp
    <2>2. ErrorTypeOK'
      BY <2>1 DEF ErrorInv, ErrorTypeOK, Stages
    <2>3. CauseInv'
      BY <2>1 DEF ErrorInv, ErrorTypeOK, CauseInv
    <2>4. QueueInv'
      BY <2>1 DEF ErrorInv, ErrorTypeOK, QueueInv
    <2> QED
      BY <2>2, <2>3, <2>4 DEF ErrorInv
  <1>2. ASSUME NEW d \in Detections, ErrorSent(d, TRUE) PROVE ErrorInv'
    <2>1. /\ at[d] = "sending"
          /\ at' = [at EXCEPT ![d] = "sent"]
          /\ SENT_ERRORS' = SENT_ERRORS \cup {Key(d)}
          /\ UNCHANGED <<cause, id, FAILED_ERRORS, due, retrying, cleared>>
      BY <1>2 DEF ErrorSent
    <2>2. Key(d) \in [of : Ids, class : Classes]
      BY <2>1, KeyType
    <2> QED
      BY <2>1, <2>2 DEF ErrorInv, ErrorTypeOK, CauseInv, QueueInv, Stages
  <1>3. ASSUME NEW d \in Detections, ErrorSent(d, FALSE) PROVE ErrorInv'
    <2>1. /\ at[d] = "sending"
          /\ at' = [at EXCEPT ![d] = "failed"]
          /\ FAILED_ERRORS' = Append(FAILED_ERRORS, d)
          /\ UNCHANGED <<cause, id, SENT_ERRORS, due, retrying, cleared>>
      BY <1>3 DEF ErrorSent
    <2> QED
      BY <2>1 DEF ErrorInv, ErrorTypeOK, CauseInv, QueueInv, Stages
  <1>4. ASSUME NEW r \in Requests, retry_failed_errors(r) PROVE ErrorInv'
    <2>1. /\ due' = due \ {r}
          /\ retrying' = [retrying EXCEPT ![r] = FAILED_ERRORS]
          /\ FAILED_ERRORS' = <<>>
          /\ at' = [d \in Detections |->
                      IF \E i \in DOMAIN FAILED_ERRORS : FAILED_ERRORS[i] = d
                      THEN "retrying" ELSE at[d]]
          /\ UNCHANGED <<cause, id, SENT_ERRORS, cleared>>
      BY <1>4 DEF retry_failed_errors
    <2>2. ErrorTypeOK'
      BY <2>1 DEF ErrorInv, ErrorTypeOK, Stages
    <2>3. CauseInv'
      BY <2>1 DEF ErrorInv, ErrorTypeOK, CauseInv, QueueInv
    <2>4. QueueInv'
      <3>1. \A i \in DOMAIN FAILED_ERRORS : FAILED_ERRORS[i] \in Detections
        BY DEF ErrorInv, ErrorTypeOK
      <3>2. \A q \in Requests : \A i \in DOMAIN retrying[q] : retrying[q][i] \in Detections
        BY DEF ErrorInv, ErrorTypeOK
      <3>3. \A q \in Requests : retrying'[q] = IF q = r THEN FAILED_ERRORS ELSE retrying[q]
        BY <2>1 DEF ErrorInv, ErrorTypeOK
      <3>4. \A q \in Requests : \A i \in DOMAIN retrying'[q] : at'[retrying'[q][i]] = "retrying"
        BY <2>1, <3>1, <3>2, <3>3 DEF ErrorInv, QueueInv
      <3>5. \A i \in DOMAIN FAILED_ERRORS : \A q \in Requests : \A j \in DOMAIN retrying[q] :
                FAILED_ERRORS[i] # retrying[q][j]
        BY DEF ErrorInv, QueueInv
      <3>6. \A p, q \in Requests : \A i \in DOMAIN retrying'[p], j \in DOMAIN retrying'[q] :
                retrying'[p][i] = retrying'[q][j] => p = q /\ i = j
        BY <3>3, <3>5 DEF ErrorInv, QueueInv
      <3>7. DOMAIN FAILED_ERRORS' = {}
        BY <2>1
      <3> QED
        BY <3>4, <3>6, <3>7, Zenon DEF QueueInv
    <2> QED
      BY <2>2, <2>3, <2>4 DEF ErrorInv
  <1>5. ASSUME NEW r \in Requests, NEW ok \in BOOLEAN, ErrorRetried(r, ok) PROVE ErrorInv'
    <2> DEFINE d == Head(retrying[r])
    <2>1. /\ retrying[r] # <<>>
          /\ retrying' = [retrying EXCEPT ![r] = Tail(retrying[r])]
          /\ \/ at' = [at EXCEPT ![d] = "sent"]
             \/ at' = [at EXCEPT ![d] = "dropped"]
          /\ SENT_ERRORS' = SENT_ERRORS \/ SENT_ERRORS' = SENT_ERRORS \cup {Key(d)}
          /\ UNCHANGED <<cause, id, FAILED_ERRORS, due, cleared>>
      BY <1>5 DEF ErrorRetried
    <2>2. /\ retrying[r] \in Seq(Detections) /\ Len(retrying[r]) > 0
          /\ d = retrying[r][1] /\ d \in Detections /\ at[d] = "retrying"
      BY <2>1 DEF ErrorInv, ErrorTypeOK, QueueInv
    <2>3. Key(d) \in [of : Ids, class : Classes]
      BY <2>2, KeyType
    <2>4. ErrorTypeOK'
      <3>1. Tail(retrying[r]) \in Seq(Detections)
        BY <2>2
      <3>2. retrying' \in [Requests -> Seq(Detections)]
        BY <2>1, <3>1 DEF ErrorInv, ErrorTypeOK
      <3>3. at' \in [Detections -> Stages]
        BY <2>1 DEF ErrorInv, ErrorTypeOK, Stages
      <3> QED
        BY <2>1, <2>3, <3>2, <3>3 DEF ErrorInv, ErrorTypeOK
    <2>5. CauseInv'
      BY <2>1, <2>2 DEF ErrorInv, ErrorTypeOK, CauseInv
    <2>6. QueueInv'
      <3>1. /\ Tail(retrying[r]) \in Seq(Detections)
            /\ \A i \in DOMAIN Tail(retrying[r]) : i + 1 \in DOMAIN retrying[r] /\ i + 1 # 1
                  /\ Tail(retrying[r])[i] = retrying[r][i + 1] /\ i \in Nat
        BY <2>2
      <3>2. \A q \in Requests : \A i \in DOMAIN retrying'[q] :
                \E k \in DOMAIN retrying[q] :
                   /\ retrying'[q][i] = retrying[q][k] /\ (q = r => k = i + 1 /\ i \in Nat)
                   /\ (q # r => k = i)
        BY <2>1, <3>1 DEF ErrorInv, ErrorTypeOK
      <3>3. \A q \in Requests : \A i \in DOMAIN retrying'[q] : retrying'[q][i] # d
        BY <2>1, <2>2, <3>1 DEF ErrorInv, ErrorTypeOK, QueueInv
      <3>4. \A q \in Requests : \A i \in DOMAIN retrying'[q] :
                at'[retrying'[q][i]] = "retrying"
        BY <2>1, <2>2, <3>2, <3>3 DEF ErrorInv, ErrorTypeOK, QueueInv
      <3>5. \A q, p \in Requests : \A i \in DOMAIN retrying'[q], j \in DOMAIN retrying'[p] :
                retrying'[q][i] = retrying'[p][j] => q = p /\ i = j
        BY <3>2 DEF ErrorInv, QueueInv
      <3> QED
        BY <2>1, <2>2, <3>4, <3>5 DEF ErrorInv, ErrorTypeOK, QueueInv
    <2> QED
      BY <2>4, <2>5, <2>6 DEF ErrorInv
  <1>6. \A d \in Detections, ok \in BOOLEAN :
            ErrorSent(d, ok) => ErrorSent(d, TRUE) \/ ErrorSent(d, FALSE)
    OBVIOUS
  <1> QED
    BY <1>1, <1>2, <1>3, <1>4, <1>5, <1>6 DEF ErrorStep

-----------------------------------------------------------------------------
(* The marks in SENT_ERRORS.                                               *)

\* What a cause may be, by who notices it.
CausesOf(d) == IF d.by = "shutdown" THEN {"failure", "timeout", "unknown"} ELSE Causes

\* The class of an error's key.
ClassOf(d, c) == IF d.by = "shutdown" THEN ShutdownClass(c) ELSE lambda_error_type_for_status(c)

\* The class tells causes apart, and is the same for SHUTDOWN's and the records' way to it.
LEMMA ClassTellsCause ==
    ASSUME NEW d \in Detections, NEW e \in Detections, NEW c \in CausesOf(d), NEW f \in CausesOf(e)
    PROVE  ClassOf(d, c) = ClassOf(e, f) <=> c = f
  <1>1. \A g \in Detections : \A k \in CausesOf(g) :
            /\ k \in Causes
            /\ ClassOf(g, k) = IF k = "timeout" THEN "LambdaTimeout"
                               ELSE IF k = "failure" THEN "LambdaPlatformFault"
                               ELSE IF k = "unknown" THEN "LambdaShutdown"
                               ELSE "LambdaError"
    BY DEF CausesOf, Causes, ClassOf, ShutdownClass, lambda_error_type_for_status
  <1> QED
    BY <1>1 DEF Causes

\* A mark stands for a report that was sent, and a report that was sent has its mark
\* until an INVOKE clears it.
MarkInv ==
    /\ SkippedOnlyIfSent
    /\ \A k \in SENT_ERRORS : \E e \in Detections : at[e] = "sent" /\ Key(e) = k
    /\ \A e \in Detections : at[e] = "sent" /\ e \notin cleared => Key(e) \in SENT_ERRORS

\* What NoSecondSend says of a step.
FreshSend ==
    \A d \in Detections :
        at'[d] = "sending" /\ at[d] # "sending" =>
            ~\E e \in Detections : SameError(d, e)' /\ at[e] = "sent" /\ e \notin cleared

\* A report is looked up, by its record's task or by SHUTDOWN.
LooksUp(d, c, i) ==
    /\ at[d] \in {"none", "spawned"}
    /\ cause' = [cause EXCEPT ![d] = c] /\ id' = [id EXCEPT ![d] = i]
    /\ at' = [at EXCEPT ![d] = IF Key(d)' \in SENT_ERRORS THEN "skipped" ELSE "sending"]
    /\ UNCHANGED <<SENT_ERRORS, cleared>>

\* It is skipped for a report that was sent, and sent for none.
LEMMA LookUpMarks ==
    ASSUME ErrorInv, MarkInv, NEW d \in Detections, NEW c \in CausesOf(d), NEW i \in Ids,
           LooksUp(d, c, i)
    PROVE  MarkInv' /\ FreshSend
  <1>1. /\ cause'[d] = c /\ at[d] # "sent"
        /\ \A e \in Detections \ {d} :
              cause'[e] = cause[e] /\ id'[e] = id[e] /\ at'[e] = at[e] /\ Key(e)' = Key(e)
        /\ at'[d] \in {"skipped", "sending"}
    BY DEF LooksUp, ErrorInv, ErrorTypeOK, Key
  <1>2. \A e \in Detections : at[e] = "sent" =>
            /\ e # d /\ at'[e] = "sent" /\ cause'[e] = cause[e] /\ Key(e)' = Key(e)
            /\ cause'[e] \in CausesOf(e)
    BY <1>1 DEF ErrorInv, CauseInv, CausesOf
  <1>3. \A e \in Detections : at[e] = "sent" =>
            (Key(d)' = Key(e)' <=> id'[d] = id'[e] /\ cause'[d] = cause'[e])
    <2> SUFFICES ASSUME NEW e \in Detections, at[e] = "sent"
                 PROVE  Key(d)' = Key(e)' <=> id'[d] = id'[e] /\ cause'[d] = cause'[e]
      OBVIOUS
    <2>1. cause'[d] \in CausesOf(d) /\ cause'[e] \in CausesOf(e)
      BY <1>1, <1>2
    <2>2. \A g \in {d, e} : Key(g)' = [of |-> id'[g], class |-> ClassOf(g, cause'[g])]
      BY DEF Key, ClassOf
    <2> QED
      BY <2>1, <2>2, ClassTellsCause
  <1>4. SkippedOnlyIfSent'
    <2> SUFFICES ASSUME NEW f \in Detections, at'[f] = "skipped"
                 PROVE  \E e \in Detections : SameError(f, e)' /\ at'[e] = "sent"
      BY DEF SkippedOnlyIfSent
    <2>1. CASE f = d
      <3>1. PICK e \in Detections : at[e] = "sent" /\ Key(e) = Key(d)'
        BY <2>1, <1>1 DEF MarkInv, LooksUp, ErrorInv, ErrorTypeOK
      <3> QED
        BY <3>1, <2>1, <1>2, <1>3 DEF SameError
    <2>2. CASE f # d
      <3>1. PICK e \in Detections : SameError(f, e) /\ at[e] = "sent"
        BY <2>2, <1>1 DEF MarkInv, SkippedOnlyIfSent
      <3> QED
        BY <3>1, <2>2, <1>1, <1>2 DEF SameError
    <2> QED
      BY <2>1, <2>2
  <1>5. MarkInv'
    BY <1>1, <1>2, <1>4 DEF MarkInv, LooksUp
  <1>6. FreshSend
    <2> SUFFICES ASSUME NEW f \in Detections, at'[f] = "sending", at[f] # "sending",
                        NEW e \in Detections, SameError(f, e)', at[e] = "sent", e \notin cleared
                 PROVE  FALSE
      BY DEF FreshSend
    <2>1. f = d /\ Key(d)' \notin SENT_ERRORS
      BY <1>1 DEF LooksUp, ErrorInv, ErrorTypeOK
    <2>2. Key(e) \in SENT_ERRORS
      BY DEF MarkInv
    <2> QED
      BY <2>1, <2>2, <1>2, <1>3 DEF SameError
  <1> QED
    BY <1>5, <1>6

\* A report ends, d's, or is made or moved to a retry: what was sent stays sent, and what
\* begins to be sent is nothing.
LEMMA EndMarks ==
    ASSUME ErrorInv, MarkInv, UNCHANGED <<cause, id, cleared>>,
           \A e \in Detections :
              /\ at[e] = "sent" => at'[e] = "sent"
              /\ at'[e] \in {"skipped", "sending"} => at'[e] = at[e]
              /\ at'[e] = "sent" /\ at[e] # "sent" => Key(e) \in SENT_ERRORS',
           SENT_ERRORS \subseteq SENT_ERRORS',
           \A k \in SENT_ERRORS' \ SENT_ERRORS : \E e \in Detections : at'[e] = "sent" /\ Key(e) = k
    PROVE  MarkInv' /\ FreshSend
  <1>1. \A e \in Detections : Key(e)' = Key(e)
    BY DEF Key
  <1>2. SkippedOnlyIfSent'
    BY DEF MarkInv, SkippedOnlyIfSent, SameError
  <1>3. \A k \in SENT_ERRORS' : \E e \in Detections : at'[e] = "sent" /\ Key(e) = k
    BY DEF MarkInv
  <1>4. \A e \in Detections : at'[e] = "sent" /\ e \notin cleared => Key(e) \in SENT_ERRORS'
    BY DEF MarkInv
  <1>5. FreshSend
    BY DEF FreshSend
  <1> QED
    BY <1>1, <1>2, <1>3, <1>4, <1>5 DEF MarkInv

\* A record of the telemetry stream leaves the marks as they are.
LEMMA CheckMarks ==
    ASSUME ErrorInv, MarkInv, NEW d \in Detections, NEW c, NEW own, NEW ctx,
           check_and_send_platform_errors(d, c, own, ctx)
    PROVE  MarkInv' /\ FreshSend
  <1>1. /\ at[d] = "none" /\ at'[d] = "spawned"
        /\ \A e \in Detections \ {d} :
              at'[e] = at[e] /\ cause'[e] = cause[e] /\ id'[e] = id[e] /\ Key(e)' = Key(e)
        /\ UNCHANGED <<SENT_ERRORS, cleared>>
    BY DEF check_and_send_platform_errors, ErrorInv, ErrorTypeOK, Key
  <1>2. SkippedOnlyIfSent'
    <2> SUFFICES ASSUME NEW f \in Detections, at'[f] = "skipped"
                 PROVE  \E e \in Detections : SameError(f, e)' /\ at'[e] = "sent"
      BY DEF SkippedOnlyIfSent
    <2>1. PICK e \in Detections : SameError(f, e) /\ at[e] = "sent"
      BY <1>1 DEF MarkInv, SkippedOnlyIfSent
    <2> QED
      BY <2>1, <1>1 DEF SameError
  <1>3. \A k \in SENT_ERRORS' : \E e \in Detections : at'[e] = "sent" /\ Key(e)' = k
    <2> SUFFICES ASSUME NEW k \in SENT_ERRORS
                 PROVE  \E e \in Detections : at'[e] = "sent" /\ Key(e)' = k
      BY <1>1
    <2>1. PICK e \in Detections : at[e] = "sent" /\ Key(e) = k
      BY DEF MarkInv
    <2> QED
      BY <2>1, <1>1
  <1>4. \A e \in Detections : at'[e] = "sent" /\ e \notin cleared' => Key(e)' \in SENT_ERRORS'
    BY <1>1 DEF MarkInv
  <1>5. FreshSend
    BY <1>1 DEF FreshSend
  <1> QED
    BY <1>2, <1>3, <1>4, <1>5 DEF MarkInv

\* So does SHUTDOWN, which skips an error only where a report of its key was sent.
LEMMA ShutdownErrorMarks ==
    ASSUME ErrorInv, MarkInv, NEW d \in Detections, d.by = "shutdown",
           NEW c \in {"failure", "timeout", "unknown"}, ShutdownError(d, c)
    PROVE  MarkInv' /\ FreshSend
  <1>1. /\ cause' = [cause EXCEPT ![d] = c] /\ c \in CausesOf(d) /\ at[d] = "none"
        /\ id' = [id EXCEPT ![d] = d.of] /\ d.of \in Ids
    BY DEF ShutdownError, CausesOf, Detections, Starts, Ids
  <1>2. Key(d)' = [of |-> d.of, class |-> ShutdownClass(c)]
    <2>1. cause'[d] = c /\ id'[d] = d.of
      BY <1>1 DEF ErrorInv, ErrorTypeOK
    <2> QED
      BY <2>1 DEF Key, ShutdownClass
  <1>3. LooksUp(d, c, d.of)
    BY <1>1, <1>2 DEF LooksUp, ShutdownError, LookedUp
  <1> QED
    BY <1>1, <1>3, LookUpMarks

\* INVOKE clears every mark, and notes what was sent.
LEMMA ClearMarks ==
    ASSUME ErrorInv, MarkInv, NEW r \in Requests, clear_sent_errors_for_request(r)
    PROVE  MarkInv' /\ FreshSend
  <1>1. /\ SENT_ERRORS' = {} /\ cleared' = {d \in Detections : at[d] = "sent"}
        /\ UNCHANGED <<cause, id, at>>
    BY DEF clear_sent_errors_for_request
  <1>2. SkippedOnlyIfSent'
    BY <1>1 DEF MarkInv, SkippedOnlyIfSent, SameError
  <1> QED
    BY <1>1, <1>2 DEF MarkInv, FreshSend

\* A report is marked when it was sent, and skipped only where its key is marked.
LEMMA ErrorStepMarks ==
    ASSUME ErrorInv, MarkInv, ErrorStep
    PROVE  MarkInv' /\ FreshSend
  <1>1. ASSUME NEW d \in Detections, send_lambda_error(d) PROVE MarkInv' /\ FreshSend
    <2>1. /\ at[d] = "spawned" /\ cause[d] \in CausesOf(d) /\ id[d] \in Ids
          /\ cause' = cause /\ id' = id /\ UNCHANGED <<SENT_ERRORS, cleared>>
          /\ at' = [at EXCEPT ![d] = IF Key(d) \in SENT_ERRORS THEN "skipped" ELSE "sending"]
      BY <1>1 DEF send_lambda_error, LookedUp, ErrorInv, CauseInv, CausesOf
    <2>2. /\ cause' = [cause EXCEPT ![d] = cause[d]] /\ id' = [id EXCEPT ![d] = id[d]]
          /\ Key(d)' = Key(d)
      BY <2>1 DEF ErrorInv, ErrorTypeOK, Key
    <2>3. LooksUp(d, cause[d], id[d])
      BY <2>1, <2>2 DEF LooksUp
    <2> QED
      BY <2>1, <2>3, LookUpMarks
  <1>2. ASSUME NEW d \in Detections, NEW ok \in BOOLEAN, ErrorSent(d, ok)
        PROVE  MarkInv' /\ FreshSend
    <2>1. /\ at[d] = "sending" /\ UNCHANGED <<cause, id, cleared>>
          /\ \/ at' = [at EXCEPT ![d] = "sent"] /\ SENT_ERRORS' = SENT_ERRORS \cup {Key(d)}
             \/ at' = [at EXCEPT ![d] = "failed"] /\ SENT_ERRORS' = SENT_ERRORS
      BY <1>2 DEF ErrorSent
    <2> QED
      BY <2>1, EndMarks DEF ErrorInv, ErrorTypeOK
  <1>3. ASSUME NEW r \in Requests, retry_failed_errors(r) PROVE MarkInv' /\ FreshSend
    <2>1. /\ at' = [d \in Detections |->
                      IF \E i \in DOMAIN FAILED_ERRORS : FAILED_ERRORS[i] = d
                      THEN "retrying" ELSE at[d]]
          /\ UNCHANGED <<cause, id, SENT_ERRORS, cleared>>
      BY <1>3 DEF retry_failed_errors
    <2>2. \A d \in Detections : at[d] = "sent" => at'[d] = "sent"
      BY <2>1 DEF ErrorInv, QueueInv
    <2> QED
      BY <2>1, <2>2, EndMarks
  <1>4. ASSUME NEW r \in Requests, NEW ok \in BOOLEAN, ErrorRetried(r, ok)
        PROVE  MarkInv' /\ FreshSend
    <2> DEFINE d == Head(retrying[r])
    <2>1. /\ retrying[r] # <<>> /\ UNCHANGED <<cause, id, cleared>>
          /\ \/ at' = [at EXCEPT ![d] = "sent"] /\ SENT_ERRORS' = SENT_ERRORS \cup {Key(d)}
             \/ at' = [at EXCEPT ![d] = "dropped"] /\ SENT_ERRORS' = SENT_ERRORS
      BY <1>4 DEF ErrorRetried
    <2>2. /\ retrying[r] \in Seq(Detections) /\ Len(retrying[r]) > 0
          /\ d = retrying[r][1] /\ d \in Detections /\ at[d] = "retrying"
      BY <2>1 DEF ErrorInv, ErrorTypeOK, QueueInv
    <2> QED
      BY <2>1, <2>2, EndMarks DEF ErrorInv, ErrorTypeOK
  <1> QED
    BY <1>1, <1>2, <1>3, <1>4 DEF ErrorStep

-----------------------------------------------------------------------------
(* Types of the invocation's end.                                          *)

\* What TypeOK says beside the errors.
EndTypeOK ==
    /\ scene \in Scenes
    /\ loop \in {"next", "begin", "join", "after", "handshake", "drain", "error", "exited"}
    /\ patience \in Nat
    /\ issued \in 0..Invocations
    /\ remaining \in [Requests -> Nat]
    /\ started \subseteq Requests /\ done \subseteq started
    /\ entry \in [Requests -> 0..2] /\ made \in [Requests -> 0..2]
    /\ permits \subseteq Notifys
    /\ PREFIRED_RUNTIME_DONE \subseteq Requests
    /\ task \in [Requests -> {"none", "processing", "waiting", "flushing", "joining", "done"}]
    /\ held \in [Requests -> 0..2]
    /\ wait \in [Requests -> Nat]
    /\ visits \in [Requests -> SUBSET Requests]
    /\ torn \subseteq Requests

EndInv == EndTypeOK /\ MadeInv

\* TypeOK without the variables of ErrorSynthesis.
LEMMA EndTypes == TypeOK <=> ErrorTypeOK /\ EndTypeOK
  BY DEF TypeOK, EndTypeOK

\* The arithmetic of the waits, which saturates at zero.
LEMMA Saturation ==
    /\ \A n \in Nat : Less(n) \in Nat /\ (n > 0 => Less(n) = n - 1)
    /\ \A n \in Nat : runtime_done_wait(n) \in Nat /\ bounded_wait_budget_ms(n) \in Nat
    /\ \A n \in Nat : runtime_done_wait(n) <= n \/ runtime_done_wait(n) <= Fallback
    /\ \A n \in Nat : bounded_wait_budget_ms(n) > 0 => bounded_wait_budget_ms(n) + Margin <= n
  BY InvocationEndAssumption DEF Less, runtime_done_wait, bounded_wait_budget_ms, Least

\* A new entry is within what its request may have.
LEMMA NewEntryType ==
    ASSUME EndInv, NEW r \in Requests, NewEntry(r), made[r] < 2
    PROVE  /\ made' \in [Requests -> 0..2] /\ entry' \in [Requests -> 0..2]
           /\ permits' \subseteq Notifys /\ PREFIRED_RUNTIME_DONE' \subseteq Requests
           /\ made'[r] = made[r] + 1 /\ entry'[r] = made[r] + 1
           /\ \A q \in Requests \ {r} : made'[q] = made[q] /\ entry'[q] = entry[q]
  BY DEF EndInv, EndTypeOK, NewEntry, Notifys

\* What the removal of an entry does to the entry variables.
LEMMA RemoveEntryType ==
    ASSUME EndInv, NEW r \in Requests, RemoveEntry(r)
    PROVE  /\ entry' \in [Requests -> 0..2] /\ PREFIRED_RUNTIME_DONE' \subseteq Requests
           /\ torn' \subseteq Requests /\ UNCHANGED <<made, permits>>
           /\ \A q \in Requests : entry'[q] = entry[q] \/ entry'[q] = 0
  BY DEF EndInv, EndTypeOK, RemoveEntry

\* One step per action.
LEMMA EndStep == EndInv /\ [Next]_vars => EndInv'
  <1> SUFFICES ASSUME EndInv, [Next]_vars PROVE EndInv'
    OBVIOUS
  <1> USE DEF entryVars, taskVars, restOfListener, restOfTask, restOfShutdown
  <1>1. CASE UNCHANGED vars
    BY <1>1 DEF vars, EndInv, EndTypeOK, MadeInv, Created
  <1>2. ASSUME NEW r \in Requests, PlatformStart(r) PROVE EndInv'
    <2>1. /\ r \notin started /\ started' = started \cup {r}
          /\ UNCHANGED <<done, scene, loop, patience, issued, remaining, task, held, wait, visits, torn>>
      BY <1>2 DEF PlatformStart
    <2>2. made[r] < 2
      BY <2>1 DEF EndInv, MadeInv
    <2>3. CASE NewEntry(r)
      BY <2>1, <2>2, <2>3, NewEntryType DEF EndInv, EndTypeOK, MadeInv, Created
    <2>4. CASE UNCHANGED <<entry, made, permits, PREFIRED_RUNTIME_DONE>>
      BY <2>1, <2>4 DEF EndInv, EndTypeOK, MadeInv, Created
    <2> QED
      BY <1>2, <2>3, <2>4 DEF PlatformStart
  <1>3. ASSUME NEW r \in Requests, NEW c, PlatformRuntimeDone(r, c) PROVE EndInv'
    <2>1. /\ done' = done \cup {r} /\ r \in started
          /\ UNCHANGED <<entry, made, torn, started, scene, loop, patience, issued, remaining,
                         task, held, wait, visits>>
      BY <1>3 DEF PlatformRuntimeDone
    <2>2. permits' \subseteq Notifys /\ PREFIRED_RUNTIME_DONE' \subseteq Requests
      BY <1>3 DEF PlatformRuntimeDone, Signal, EndInv, EndTypeOK, Notifys
    <2> QED
      BY <2>1, <2>2 DEF EndInv, EndTypeOK, MadeInv, Created
  <1>4. ASSUME NEW d, NEW own, PlatformStartFailed(d, own) PROVE EndInv'
    BY <1>4 DEF PlatformStartFailed, EndInv, EndTypeOK, MadeInv, Created
  <1>5. ASSUME NEW t \in scene.timeouts, Invoke(t) PROVE EndInv'
    <2>1. t \in Nat
      BY InvocationEndAssumption DEF EndInv, EndTypeOK
    <2>2. /\ loop = "next" /\ issued + 1 \in Requests /\ issued' = issued + 1 /\ loop' = "begin"
          /\ remaining' = [remaining EXCEPT ![issued + 1] = t]
          /\ UNCHANGED <<scene, patience, started, done, entryVars, taskVars>>
      BY <1>5 DEF Invoke
    <2>3. EndTypeOK'
      BY <2>1, <2>2 DEF EndInv, EndTypeOK, Requests
    <2>4. \A r \in Requests : Created(r)' <=> Created(r)
      BY <2>2 DEF Created, EndInv, EndTypeOK, Requests
    <2> QED
      BY <2>2, <2>3, <2>4 DEF EndInv, EndTypeOK, MadeInv, Requests
  <1>6. ASSUME NEW r \in Requests, create_request_processing_state(r) PROVE EndInv'
    <2>1. /\ loop = "begin" /\ r = issued /\ loop' \in {"after", "join"} /\ NewEntry(r)
          /\ task' = [task EXCEPT ![r] = "processing"]
          /\ torn' \subseteq torn \cup {r}
          /\ UNCHANGED <<scene, patience, issued, remaining, started, done, held, wait>>
      BY <1>6 DEF create_request_processing_state
    <2>2. visits' \in [Requests -> SUBSET Requests]
      BY <1>6 DEF create_request_processing_state, EndInv, EndTypeOK
    <2>3. made[r] < 2 /\ ~Created(r)
      BY <2>1 DEF EndInv, EndTypeOK, MadeInv, Created, Requests
    <2>4. \A q \in Requests : Created(q)' <=> Created(q) \/ q = r
      BY <2>1 DEF Created, EndInv, EndTypeOK, Requests
    <2>5. EndTypeOK'
      BY <2>1, <2>2, <2>3, NewEntryType DEF EndInv, EndTypeOK
    <2>6. MadeInv'
      BY <2>1, <2>3, <2>4, NewEntryType DEF EndInv, EndTypeOK, MadeInv
    <2> QED
      BY <2>5, <2>6 DEF EndInv
  <1>7. ASSUME Joined PROVE EndInv'
    BY <1>7 DEF Joined, EndInv, EndTypeOK, MadeInv, Created
  <1>8. ASSUME NEW h, After(h) PROVE EndInv'
    <2>1. issued \in Requests
      BY <1>8 DEF After, EndInv, EndTypeOK, MadeInv, Requests
    <2>2. bounded_wait_budget_ms(remaining[issued]) \in Nat
      BY <2>1, Saturation DEF EndInv, EndTypeOK
    <2>3. /\ loop = "after" /\ loop' \in {"handshake", "next"} /\ patience' \in Nat
          /\ UNCHANGED <<scene, issued, remaining, started, done, entryVars, taskVars>>
      BY <1>8, <2>2 DEF After
    <2> QED
      BY <2>3 DEF EndInv, EndTypeOK, MadeInv, Created
  <1>9. ASSUME HandshakeOver PROVE EndInv'
    BY <1>9 DEF HandshakeOver, EndInv, EndTypeOK, MadeInv, Created
  <1>10. ASSUME NEW r \in Requests, CleanupStale(r) PROVE EndInv'
    <2>1. RemoveEntry(r) /\ UNCHANGED <<started, done, scene, loop, patience, issued, remaining, taskVars>>
      BY <1>10 DEF CleanupStale
    <2> QED
      BY <2>1, RemoveEntryType DEF EndInv, EndTypeOK, MadeInv, Created
  <1>11. ASSUME NEW r \in Requests, NEW q \in Requests, EntryVisited(r, q) PROVE EndInv'
    <2>1. /\ RemoveEntry(q) /\ visits' \in [Requests -> SUBSET Requests]
          /\ UNCHANGED <<task, held, wait, scene, loop, patience, issued, remaining, started, done>>
      BY <1>11 DEF EntryVisited, EndInv, EndTypeOK
    <2> QED
      BY <2>1, RemoveEntryType DEF EndInv, EndTypeOK, MadeInv, Created
  <1>12. ASSUME NEW r \in Requests, WaitBegins(r) PROVE EndInv'
    <2>1. runtime_done_wait(remaining[r]) \in Nat
      BY Saturation DEF EndInv, EndTypeOK
    <2>2. wait' \in [Requests -> Nat]
      BY <1>12, <2>1 DEF WaitBegins, EndInv, EndTypeOK
    <2> QED
      BY <1>12, <2>2 DEF WaitBegins, EndInv, EndTypeOK, MadeInv, Created
  <1>13. ASSUME NEW r \in Requests, WaitEnds(r) PROVE EndInv'
    BY <1>13 DEF WaitEnds, EndInv, EndTypeOK, MadeInv, Created
  <1>14. ASSUME NEW r \in Requests, NEW sending, FlushBegins(r, sending) PROVE EndInv'
    <2>1. bounded_wait_budget_ms(remaining[r]) \in Nat
      BY Saturation DEF EndInv, EndTypeOK
    <2>2. wait' \in [Requests -> Nat]
      BY <1>14, <2>1 DEF FlushBegins, EndInv, EndTypeOK
    <2>3. /\ task[r] = "flushing"
          /\ task' = [task EXCEPT ![r] = "joining"] \/ task' = [task EXCEPT ![r] = "done"]
          /\ UNCHANGED <<entryVars, held, visits, restOfTask>>
      BY <1>14 DEF FlushBegins
    <2> QED
      BY <2>2, <2>3 DEF EndInv, EndTypeOK, MadeInv, Created
  <1>15. ASSUME NEW r \in Requests, SendsJoined(r) PROVE EndInv'
    BY <1>15 DEF SendsJoined, EndInv, EndTypeOK, MadeInv, Created
  <1>16. ASSUME Shutdown PROVE EndInv'
    BY <1>16 DEF Shutdown, EndInv, EndTypeOK, MadeInv, Created
  <1>17. ASSUME NEW c, ShutdownDrained(c) PROVE EndInv'
    BY <1>17 DEF ShutdownDrained, EndInv, EndTypeOK, MadeInv, Created
  <1>18. ASSUME ShutdownErrorOver PROVE EndInv'
    BY <1>18 DEF ShutdownErrorOver, EndInv, EndTypeOK, MadeInv, Created
  <1>19. ASSUME Errors PROVE EndInv'
    BY <1>19 DEF Errors, EndInv, EndTypeOK, MadeInv, Created
  <1>20. ASSUME Tick PROVE EndInv'
    <2>1. patience' \in Nat /\ remaining' \in [Requests -> Nat] /\ wait' \in [Requests -> Nat]
      BY <1>20, Saturation DEF Tick, EndInv, EndTypeOK
    <2> QED
      BY <1>20, <2>1 DEF Tick, EndInv, EndTypeOK, MadeInv, Created
  <1>21. ASSUME Terminated PROVE EndInv'
    BY <1>1, <1>21 DEF Terminated
  <1> QED
    BY <1>1, <1>2, <1>3, <1>4, <1>5, <1>6, <1>7, <1>8, <1>9, <1>10, <1>11, <1>12, <1>13,
       <1>14, <1>15, <1>16, <1>17, <1>18, <1>19, <1>20, <1>21 DEF Next

-----------------------------------------------------------------------------
(* The errors, step by step of the invocation's end.                       *)

ReportInv == ErrorInv /\ MarkInv

\* A step that leaves the errors alone.
LEMMA ReportQuiet ==
    ASSUME ReportInv, UNCHANGED errorVars
    PROVE  ReportInv' /\ FreshSend
  BY DEF ReportInv, ErrorInv, ErrorTypeOK, CauseInv, QueueInv, MarkInv, SkippedOnlyIfSent,
         SameError, FreshSend, Key, errorVars

\* The context holds a request, or nothing yet.
LEMMA ContextType ==
    ASSUME EndInv
    PROVE  context \in Requests \cup {NoId}
  BY InvocationsAssumption DEF EndInv, EndTypeOK, MadeInv, context, Requests, NoId

\* Every step keeps the invariant of the reports.
LEMMA ReportStep == EndInv /\ ReportInv /\ [Next]_vars => ReportInv' /\ FreshSend
  <1> SUFFICES ASSUME EndInv, ReportInv, [Next]_vars PROVE ReportInv' /\ FreshSend
    OBVIOUS
  <1> USE DEF ReportInv
  <1>1. CASE UNCHANGED errorVars
    BY <1>1, ReportQuiet
  <1>2. ASSUME NEW r \in Requests, NEW c \in scene.failures \cup {NoCause},
               PlatformRuntimeDone(r, c)
        PROVE  ReportInv' /\ FreshSend
    <2> DEFINE d == [by |-> "runtimeDone", of |-> r]
    <2>1. CASE c # NoCause /\ check_and_send_platform_errors(d, c, r, context)
      <3>1. d \in Detections /\ d.by # "shutdown" /\ c \in Causes /\ r \in Ids
        BY <2>1, InvocationEndAssumption DEF Detections, Causes, EndInv, EndTypeOK, Ids
      <3> HIDE DEF d
      <3> QED
        BY <2>1, <3>1, ContextType, CheckType, CheckMarks
    <2> QED
      BY <1>1, <1>2, <2>1 DEF PlatformRuntimeDone
  <1>3. ASSUME NEW d \in [by : scene.starts, of : {Start}], NEW own \in scene.own,
               PlatformStartFailed(d, own)
        PROVE  ReportInv' /\ FreshSend
    <2>1. d \in Detections /\ d.by # "shutdown" /\ "error" \in Causes
      BY InvocationEndAssumption DEF Detections, Starts, Causes, EndInv, EndTypeOK
    <2>2. own \in Ids \cup {NoId}
      BY InvocationEndAssumption DEF Ids, EndInv, EndTypeOK
    <2> QED
      BY <1>3, <2>1, <2>2, ContextType, CheckType, CheckMarks DEF PlatformStartFailed
  <1>4. ASSUME NEW t, Invoke(t) PROVE ReportInv' /\ FreshSend
    BY <1>1, <1>4, ClearType, ClearMarks DEF Invoke
  <1>5. ASSUME NEW c \in scene.reasons \cup {NoCause}, ShutdownDrained(c)
        PROVE  ReportInv' /\ FreshSend
    <2> DEFINE d == [by |-> "shutdown", of |-> issued]
    <2>1. CASE issued # 0 /\ c # NoCause /\ ShutdownError(d, c)
      <3>1. /\ d \in Detections /\ d.by = "shutdown" /\ c \in {"failure", "timeout", "unknown"}
        BY <2>1, InvocationEndAssumption DEF Detections, EndInv, EndTypeOK, Requests
      <3> QED
        BY <2>1, <3>1, ShutdownErrorType, ShutdownErrorMarks
    <2> QED
      BY <1>1, <1>5, <2>1 DEF ShutdownDrained
  <1>6. CASE Errors
    BY <1>6, ErrorStepType, ErrorStepMarks DEF Errors
  <1>7. CASE UNCHANGED vars
    BY <1>1, <1>7 DEF vars
  <1>8. ASSUME NEW r \in Requests, NEW q \in Requests, NEW b,
               \/ PlatformStart(r) \/ CleanupStale(r) \/ create_request_processing_state(r)
               \/ EntryVisited(r, q) \/ WaitBegins(r) \/ WaitEnds(r) \/ SendsJoined(r)
               \/ FlushBegins(r, b)
        PROVE  UNCHANGED errorVars
    BY <1>8 DEF PlatformStart, CleanupStale, create_request_processing_state, EntryVisited,
       WaitBegins, WaitEnds, SendsJoined, FlushBegins
  <1>9. ASSUME NEW b, \/ Joined \/ HandshakeOver \/ After(b) \/ Shutdown \/ ShutdownErrorOver \/ Tick
        PROVE  UNCHANGED errorVars
    BY <1>9 DEF Joined, HandshakeOver, After, Shutdown, ShutdownErrorOver, Tick
  <1> QED
    BY <1>1, <1>2, <1>3, <1>4, <1>5, <1>6, <1>7, <1>8, <1>9 DEF Next, Terminated

\* The program starts in the invariants.
LEMMA ErrorsInit == Init => EndInv /\ ReportInv
  <1> SUFFICES ASSUME Init PROVE EndInv /\ ReportInv
    OBVIOUS
  <1>1. EndInv
    BY InvocationsAssumption DEF Init, EndInv, EndTypeOK, MadeInv, Notifys
  <1>2. ErrorInv
    BY DEF Init, ErrorInit, ErrorInv, ErrorTypeOK, CauseInv, QueueInv, Stages
  <1>3. MarkInv
    BY DEF Init, ErrorInit, MarkInv, SkippedOnlyIfSent
  <1> QED
    BY <1>1, <1>2, <1>3 DEF ReportInv

\* The invariants of types and reports hold throughout.
LEMMA ReportsSafe == Spec => [](EndInv /\ ReportInv)
  BY ErrorsInit, EndStep, ReportStep, PTL DEF Spec

\* Every variable keeps its type: among others, what SENT_ERRORS marks has one of the four
\* classes, and a request gets a second Notify at most.
THEOREM TypeCorrect == Spec => []TypeOK
  <1>1. EndInv /\ ReportInv => TypeOK
    BY EndTypes DEF EndInv, ReportInv, ErrorInv
  <1> QED
    BY <1>1, ReportsSafe, PTL

\* A report is kept back only for one of the same id and kind that was sent.
THEOREM OnlySentSkips == Spec => []SkippedOnlyIfSent
  <1>1. EndInv /\ ReportInv => SkippedOnlyIfSent
    BY DEF ReportInv, MarkInv
  <1> QED
    BY <1>1, ReportsSafe, PTL

\* A report of an error that was sent under the same id is not sent again before an INVOKE
\* clears the marks, whichever records tell of it and wherever their ids come from.
THEOREM NeverSentTwice == Spec => NoSecondSend
  <1>1. EndInv /\ ReportInv /\ [Next]_vars =>
          [\A d \in Detections :
             at'[d] = "sending" /\ at[d] # "sending" =>
                 ~\E e \in Detections : SameError(d, e)' /\ at[e] = "sent" /\ e \notin cleared]_errorVars
    BY ReportStep DEF FreshSend
  <1> QED
    BY <1>1, ReportsSafe, PTL DEF Spec, NoSecondSend

-----------------------------------------------------------------------------
(* The Notify of a request.                                                *)

\* Of a request whose entry nobody replaces or removes: a runtimeDone handled before there
\* is an entry is recorded; one handled since has left a permit in the entry's Notify, which
\* stays there until the request's task, which holds that Notify, has ended its wait.
NotifyInv ==
    \A r \in Requests \ torn :
        /\ task[r] # "none" => entry[r] # 0
        /\ r \in done /\ entry[r] = 0 => r \in PREFIRED_RUNTIME_DONE
        /\ r \in done /\ entry[r] # 0 /\ task[r] \in {"none", "processing", "waiting"}
              => <<r, entry[r]>> \in permits
        /\ task[r] = "waiting" => held[r] = entry[r]

\* A step that leaves entries, permits and tasks alone.
LEMMA NotifyQuiet ==
    ASSUME NotifyInv, UNCHANGED <<done, entryVars, task, held>>
    PROVE  NotifyInv'
  BY DEF NotifyInv, entryVars

\* Every step keeps the invariant of the Notify.
LEMMA NotifyStep == EndInv /\ NotifyInv /\ [Next]_vars => NotifyInv'
  <1> SUFFICES ASSUME EndInv, NotifyInv, [Next]_vars PROVE NotifyInv'
    OBVIOUS
  <1> USE DEF taskVars, restOfListener, restOfTask, restOfShutdown
  <1>1. CASE UNCHANGED <<done, entryVars, task, held>>
    BY <1>1, NotifyQuiet
  <1>2. ASSUME NEW r \in Requests, PlatformStart(r) PROVE NotifyInv'
    <2>1. r \notin started /\ r \notin done /\ UNCHANGED <<done, task, held>>
      BY <1>2 DEF PlatformStart, EndInv, EndTypeOK
    <2>2. CASE entry[r] = 0 /\ NewEntry(r) /\ UNCHANGED torn
      <3>1. made[r] < 2 /\ permits \subseteq permits'
        BY <2>1, <2>2 DEF EndInv, MadeInv, NewEntry
      <3>2. PREFIRED_RUNTIME_DONE' = PREFIRED_RUNTIME_DONE \ {r}
        BY <2>2 DEF NewEntry
      <3>3. /\ made[r] \in Nat /\ entry'[r] = made[r] + 1 /\ entry'[r] # 0
            /\ \A q \in Requests \ {r} : entry'[q] = entry[q]
        BY <2>2, <3>1, NewEntryType DEF EndInv, EndTypeOK
      <3>4. r \notin torn => task[r] = "none"
        BY <2>2 DEF NotifyInv
      <3> QED
        BY <2>1, <2>2, <3>1, <3>2, <3>3, <3>4 DEF NotifyInv
    <2>3. CASE UNCHANGED entryVars
      BY <2>1, <2>3, <1>1
    <2> QED
      BY <1>2, <2>2, <2>3 DEF PlatformStart
  <1>3. ASSUME NEW r \in Requests, NEW c, PlatformRuntimeDone(r, c) PROVE NotifyInv'
    BY <1>3 DEF PlatformRuntimeDone, Signal, NotifyInv
  <1>4. ASSUME NEW r \in Requests, create_request_processing_state(r) PROVE NotifyInv'
    <2>1. /\ NewEntry(r) /\ task' = [task EXCEPT ![r] = "processing"] /\ UNCHANGED <<done, held>>
          /\ torn' = IF entry[r] # 0 THEN torn \cup {r} ELSE torn
          /\ r = issued /\ loop = "begin"
      BY <1>4 DEF create_request_processing_state
    <2>2. made[r] < 2 /\ task \in [Requests -> {"none", "processing", "waiting", "flushing", "joining", "done"}]
      BY <2>1 DEF EndInv, EndTypeOK, MadeInv, Created, Requests
    <2>3. /\ PREFIRED_RUNTIME_DONE' = PREFIRED_RUNTIME_DONE \ {r}
          /\ permits \subseteq permits'
          /\ r \in PREFIRED_RUNTIME_DONE => <<r, made[r] + 1>> \in permits'
      BY <2>1 DEF NewEntry
    <2>4. /\ made[r] \in Nat /\ entry'[r] = made[r] + 1 /\ task'[r] = "processing"
          /\ \A q \in Requests \ {r} : entry'[q] = entry[q] /\ task'[q] = task[q]
      BY <2>1, <2>2, NewEntryType DEF EndInv, EndTypeOK
    <2>5. r \notin torn' /\ r \in done => <<r, made[r] + 1>> \in permits'
      BY <2>1, <2>3 DEF NotifyInv
    <2>6. torn \subseteq torn'
      BY <2>1
    <2> QED
      BY <2>1, <2>3, <2>4, <2>5, <2>6 DEF NotifyInv
  <1>5. ASSUME NEW q \in Requests, RemoveEntry(q), UNCHANGED <<done, task, held>> PROVE NotifyInv'
    BY <1>5 DEF RemoveEntry, NotifyInv, EndInv, EndTypeOK
  <1>6. ASSUME NEW r \in Requests, WaitBegins(r) PROVE NotifyInv'
    BY <1>6 DEF WaitBegins, NotifyInv, EndInv, EndTypeOK, entryVars
  <1>7. ASSUME NEW r \in Requests, WaitEnds(r) PROVE NotifyInv'
    BY <1>7 DEF WaitEnds, NotifyInv, EndInv, EndTypeOK
  <1>8. ASSUME NEW r \in Requests, NEW b, FlushBegins(r, b) \/ SendsJoined(r) PROVE NotifyInv'
    BY <1>8 DEF FlushBegins, SendsJoined, NotifyInv, EndInv, EndTypeOK, entryVars
  <1>9. ASSUME NEW r \in Requests, NEW q \in Requests, CleanupStale(q) \/ EntryVisited(r, q)
        PROVE  NotifyInv'
    BY <1>5, <1>9 DEF CleanupStale, EntryVisited
  <1>10. CASE UNCHANGED vars
    BY <1>1, <1>10 DEF vars
  <1>11. ASSUME NEW b, NEW d, NEW own, NEW t, NEW c,
                \/ PlatformStartFailed(d, own) \/ Invoke(t) \/ Joined \/ HandshakeOver \/ After(b)
                \/ Shutdown \/ ShutdownErrorOver \/ ShutdownDrained(c) \/ Errors \/ Tick
         PROVE  UNCHANGED <<done, entryVars, task, held>>
    BY <1>11 DEF PlatformStartFailed, Invoke, Joined, HandshakeOver, After, Shutdown,
       ShutdownErrorOver, ShutdownDrained, Errors, Tick
  <1> QED
    BY <1>1, <1>2, <1>3, <1>4, <1>6, <1>7, <1>8, <1>9, <1>10, <1>11 DEF Next, Terminated

\* No task sleeps until its deadline for a runtimeDone that has been handled already,
\* unless its entry was replaced or removed.
THEOREM WakeupsNeverLost == Spec => []NoLostWakeup
  <1>1. Init => NotifyInv
    BY DEF Init, NotifyInv
  <1>2. EndInv /\ NotifyInv => NoLostWakeup
    BY DEF NotifyInv, NoLostWakeup
  <1> QED
    BY <1>1, <1>2, ErrorsInit, EndStep, NotifyStep, PTL DEF Spec

-----------------------------------------------------------------------------
(* The waits.                                                              *)

\* Every step keeps the bound of the waits.
LEMMA TimeStep == EndInv /\ WaitsInTime /\ [Next]_vars => WaitsInTime'
  <1> SUFFICES ASSUME EndInv, WaitsInTime, [Next]_vars PROVE WaitsInTime'
    OBVIOUS
  <1> USE DEF taskVars, restOfListener, restOfTask, restOfShutdown
  <1>1. CASE UNCHANGED <<loop, patience, issued, remaining, task, wait>>
    BY <1>1 DEF WaitsInTime
  <1>2. ASSUME NEW t \in scene.timeouts, Invoke(t) PROVE WaitsInTime'
    <2>1. /\ loop = "next" /\ issued + 1 \in Requests /\ loop' = "begin"
          /\ remaining' = [remaining EXCEPT ![issued + 1] = t]
          /\ UNCHANGED <<task, wait>>
      BY <1>2 DEF Invoke
    <2>2. task[issued + 1] = "none"
      BY <2>1 DEF EndInv, EndTypeOK, MadeInv, Created
    <2>3. \A r \in Requests : task[r] # "none" => remaining'[r] = remaining[r]
      BY <2>1, <2>2 DEF EndInv, EndTypeOK
    <2> QED
      BY <2>1, <2>3 DEF WaitsInTime
  <1>3. ASSUME NEW r \in Requests, create_request_processing_state(r) PROVE WaitsInTime'
    BY <1>3 DEF create_request_processing_state, WaitsInTime, EndInv, EndTypeOK
  <1>4. ASSUME NEW b, After(b) PROVE WaitsInTime'
    <2>1. remaining[issued] \in Nat
      BY <1>4 DEF After, EndInv, EndTypeOK, MadeInv, Requests
    <2>2. /\ loop' = "handshake" => patience' = bounded_wait_budget_ms(remaining[issued])
                                    /\ bounded_wait_budget_ms(remaining[issued]) > 0
          /\ UNCHANGED <<issued, remaining, task, wait>>
      BY <1>4 DEF After
    <2> QED
      BY <2>1, <2>2, Saturation DEF WaitsInTime
  <1>5. ASSUME NEW r \in Requests, WaitBegins(r) PROVE WaitsInTime'
    <2>1. /\ wait' = [wait EXCEPT ![r] = IF entry[r] = 0 THEN 0 ELSE runtime_done_wait(remaining[r])]
          /\ task' = [task EXCEPT ![r] = IF entry[r] = 0 THEN "flushing" ELSE "waiting"]
          /\ UNCHANGED <<loop, patience, issued, remaining>>
      BY <1>5 DEF WaitBegins
    <2>2. remaining[r] \in Nat
      BY DEF EndInv, EndTypeOK
    <2>3. /\ task'[r] \in {"flushing", "waiting"}
          /\ task'[r] = "waiting" => wait'[r] <= remaining[r] \/ wait'[r] <= Fallback
      BY <2>1, <2>2, Saturation DEF EndInv, EndTypeOK
    <2> QED
      BY <2>1, <2>3 DEF WaitsInTime, EndInv, EndTypeOK
  <1>6. ASSUME NEW r \in Requests, NEW b, FlushBegins(r, b) PROVE WaitsInTime'
    <2>1. /\ \/ task' = [task EXCEPT ![r] = "done"]
             \/ /\ task' = [task EXCEPT ![r] = "joining"]
                /\ wait' = [wait EXCEPT ![r] = bounded_wait_budget_ms(remaining[r])]
                /\ bounded_wait_budget_ms(remaining[r]) > 0
          /\ \A q \in Requests \ {r} : wait'[q] = wait[q]
          /\ UNCHANGED <<loop, patience, issued, remaining>>
      BY <1>6 DEF FlushBegins, EndInv, EndTypeOK
    <2>2. remaining[r] \in Nat
      BY DEF EndInv, EndTypeOK
    <2> QED
      BY <2>1, <2>2, Saturation DEF WaitsInTime, EndInv, EndTypeOK
  <1>7. ASSUME NEW r \in Requests, WaitEnds(r) \/ SendsJoined(r) PROVE WaitsInTime'
    <2>1. /\ \/ task' = [task EXCEPT ![r] = "flushing"] \/ task' = [task EXCEPT ![r] = "done"]
          /\ wait' = [wait EXCEPT ![r] = 0]
          /\ UNCHANGED <<loop, patience, issued, remaining>>
      BY <1>7 DEF WaitEnds, SendsJoined
    <2> QED
      BY <2>1 DEF WaitsInTime, EndInv, EndTypeOK
  <1>8. ASSUME Tick PROVE WaitsInTime'
    <2>1. \A r \in Requests : /\ remaining[r] \in Nat /\ wait[r] \in Nat
                              /\ remaining'[r] = Less(remaining[r]) /\ wait'[r] = Less(wait[r])
      BY <1>8 DEF Tick, EndInv, EndTypeOK
    <2>2. patience \in Nat /\ patience' = Less(patience) /\ UNCHANGED <<loop, issued, task>>
      BY <1>8 DEF Tick, EndInv, EndTypeOK
    <2>3. loop = "handshake" => issued \in Requests
      BY DEF EndInv, EndTypeOK, MadeInv, Requests
    <2>4. \A r \in Requests :
             /\ task[r] = "waiting" => wait'[r] <= remaining'[r] \/ wait'[r] <= Fallback
             /\ task[r] = "joining" /\ wait'[r] > 0 => wait'[r] + Margin <= remaining'[r]
      BY <2>1, InvocationEndAssumption DEF WaitsInTime, Less
    <2>5. loop = "handshake" /\ patience' > 0 => patience' + Margin <= remaining'[issued]
      BY <2>1, <2>2, <2>3, InvocationEndAssumption DEF WaitsInTime, Less
    <2> QED
      BY <2>2, <2>4, <2>5 DEF WaitsInTime
  <1>9. CASE UNCHANGED vars
    BY <1>1, <1>9 DEF vars
  <1>10. ASSUME NEW r \in Requests, NEW q \in Requests, NEW c \in scene.failures \cup {NoCause},
                \/ PlatformStart(r) \/ CleanupStale(r) \/ PlatformRuntimeDone(r, c)
                \/ EntryVisited(r, q)
         PROVE  WaitsInTime'
    BY <1>1, <1>10 DEF PlatformStart, CleanupStale, PlatformRuntimeDone, EntryVisited
  <1>11. ASSUME NEW d, NEW own, PlatformStartFailed(d, own) PROVE WaitsInTime'
    BY <1>1, <1>11 DEF PlatformStartFailed
  <1>12. CASE Errors
    BY <1>1, <1>12 DEF Errors
  <1>13. ASSUME NEW c, ShutdownDrained(c) PROVE WaitsInTime'
    BY <1>13 DEF ShutdownDrained, WaitsInTime
  <1>14. CASE Joined \/ HandshakeOver \/ Shutdown \/ ShutdownErrorOver
    BY <1>14 DEF Joined, HandshakeOver, Shutdown, ShutdownErrorOver, WaitsInTime
  <1> QED
    BY <1>2, <1>3, <1>4, <1>5, <1>6, <1>7, <1>8, <1>9, <1>10, <1>11, <1>12, <1>13, <1>14
    DEF Next, Terminated

\* A wait for runtimeDone ends with the invocation or within the fallback, and the waits
\* after it leave the margin, whatever the deadline and however late they begin.
THEOREM WaitsEndInTime == Spec => []WaitsInTime
  <1>1. Init => WaitsInTime
    BY DEF Init, WaitsInTime
  <1> QED
    BY <1>1, ErrorsInit, EndStep, TimeStep, PTL DEF Spec
=============================================================================
