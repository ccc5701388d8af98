--------------------------- MODULE ErrorSynthesis ---------------------------
(***************************************************************************)
(* Errors the extension reports on behalf of a function that cannot        *)
(* (error_synthesis.rs, serverless mode): a failed start, an invocation    *)
(* whose runtimeDone says so, a SHUTDOWN that is no spindown.  Several     *)
(* records may speak of one failure; SENT_ERRORS keeps a second report of  *)
(* one class from being sent under the same id, FAILED_ERRORS keeps what   *)
(* could not be sent for one retry at the next INVOKE.                     *)
(*                                                                         *)
(* An id is that of a request, or one made up for a start, which has none. *)
(*                                                                         *)
(* An action is the code between two awaits.  The text of an error, and    *)
(* LAST_PLATFORM_METRICS and LAST_DETECTED_ERROR, which only word it or    *)
(* the log, are left out.                                                  *)
(***************************************************************************)
EXTENDS Naturals, Sequences

CONSTANTS
    Invocations,  \* INVOKEs, a bound of the model
    InstanceId,   \* "init-" and the beginning of the instanceId in a record
    ClockIds      \* "init-" and the time of day, in seconds

ASSUME InvocationsAssumption == Invocations \in Nat \ {0}

Requests == 1..Invocations

NoId == 0
Ids  == Requests \cup {InstanceId} \cup ClockIds

ASSUME IdAssumption == ({InstanceId} \cup ClockIds) \cap (Requests \cup {NoId}) = {}

\* Where an error is noticed: two records tell of a start, two of a restore.
Starts     == {"initRuntimeDone", "initReport", "restoreRuntimeDone", "restoreReport"}
Start      == 0
Detections == [by : Starts, of : {Start}] \cup [by : {"runtimeDone", "shutdown"}, of : Requests]

Causes == {"error", "failure", "timeout", "unknown"}
NoCause == "none"

Classes == {"LambdaError", "LambdaPlatformFault", "LambdaTimeout", "LambdaShutdown"}

VARIABLES
    cause,          \* what a detection says happened
    id,             \* the id it is reported under
    at,             \* how far the report of a detection is
    SENT_ERRORS,    \* the (request, class) of those sent since the last INVOKE
    FAILED_ERRORS,  \* those that could not be sent
    due,            \* INVOKEs whose retry_failed_errors is spawned and has not begun
    retrying,       \* what the retry of an INVOKE has left
    cleared         \* history: detections whose mark an INVOKE has cleared

errorVars == <<cause, id, at, SENT_ERRORS, FAILED_ERRORS, due, retrying, cleared>>

Stages == {"none", "spawned", "sending", "skipped", "sent", "failed", "retrying", "dropped"}

ErrorTypeOK ==
    /\ cause \in [Detections -> Causes \cup {NoCause}]
    /\ id \in [Detections -> Ids \cup {NoId}]
    /\ at \in [Detections -> Stages]
    /\ SENT_ERRORS \subseteq [of : Ids, class : Classes]
    /\ FAILED_ERRORS \in Seq(Detections)
    /\ due \subseteq Requests
    /\ retrying \in [Requests -> Seq(Detections)]
    /\ cleared \subseteq Detections

ErrorInit ==
    /\ cause = [d \in Detections |-> NoCause]
    /\ id = [d \in Detections |-> NoId]
    /\ at = [d \in Detections |-> "none"]
    /\ SENT_ERRORS = {}
    /\ FAILED_ERRORS = <<>>
    /\ due = {} /\ retrying = [r \in Requests |-> <<>>]
    /\ cleared = {}

\* Mutant: the status itself is the class.
status_as_class(c) == c

\* Mutant: a fault gets the class of any other error.
one_error_type_for_status(c) ==
    CASE c = "timeout" -> "LambdaTimeout"
      [] c = "unknown" -> "LambdaShutdown"
      [] OTHER         -> "LambdaError"

\* The class of an error, from a record's status or the reason of SHUTDOWN.
lambda_error_type_for_status(c) ==
    CASE c = "timeout" -> "LambdaTimeout"
      [] c = "failure" -> "LambdaPlatformFault"
      [] c = "unknown" -> "LambdaShutdown"
      [] c = "error"   -> "LambdaError"

\* SHUTDOWN takes its classes from its reason, not from the function a record's status
\* goes through.
ShutdownClass(c) ==
    CASE c = "timeout" -> "LambdaTimeout"
      [] c = "failure" -> "LambdaPlatformFault"
      [] c = "unknown" -> "LambdaShutdown"

Key(d) == [of    |-> id[d],
           class |-> IF d.by = "shutdown" THEN ShutdownClass(cause[d])
                     ELSE lambda_error_type_for_status(cause[d])]

-----------------------------------------------------------------------------
(* A report and its retry.                                                 *)

\* The id a record is reported under: its own, which is its requestId or else its
\* instanceId, or else that of the invocation the context holds, or else one of the clock.
request_ids(own, context) ==
    IF own # NoId THEN {own} ELSE IF context # NoId THEN {context} ELSE ClockIds

\* check_and_send_platform_errors spawns a task for a record that tells of an error.
check_and_send_platform_errors(d, c, own, context) ==
    /\ at[d] = "none"
    /\ cause' = [cause EXCEPT ![d] = c]
    /\ \E i \in request_ids(own, context) : id' = [id EXCEPT ![d] = i]
    /\ at' = [at EXCEPT ![d] = "spawned"]
    /\ UNCHANGED <<SENT_ERRORS, FAILED_ERRORS, due, retrying, cleared>>

\* Mutant: an error is marked as it is looked up, not when it has been sent.
LookedUpMarked(d, key) ==
    /\ at' = [at EXCEPT ![d] = IF key \in SENT_ERRORS THEN "skipped" ELSE "sending"]
    /\ SENT_ERRORS' = SENT_ERRORS \cup {key}

\* An error of the class was sent for the request already, or this one is sent now.
LookedUp(d, key) ==
    /\ at' = [at EXCEPT ![d] = IF key \in SENT_ERRORS THEN "skipped" ELSE "sending"]
    /\ UNCHANGED SENT_ERRORS

send_lambda_error(d) ==
    /\ at[d] = "spawned"
    /\ LookedUp(d, Key(d))
    /\ UNCHANGED <<cause, id, FAILED_ERRORS, due, retrying, cleared>>

\* send_timeout_error, send_platform_fault_error or send_lambda_error, awaited by SHUTDOWN.
ShutdownError(d, c) ==
    /\ at[d] = "none"
    /\ cause' = [cause EXCEPT ![d] = c]
    /\ id' = [id EXCEPT ![d] = d.of]
    /\ LookedUp(d, [of |-> d.of, class |-> ShutdownClass(c)])
    /\ UNCHANGED <<FAILED_ERRORS, due, retrying, cleared>>

\* Marked only once the client has said Ok; else kept for the next INVOKE.
ErrorSent(d, ok) ==
    /\ at[d] = "sending"
    /\ \/ /\ ok
          /\ at' = [at EXCEPT ![d] = "sent"]
          /\ SENT_ERRORS' = SENT_ERRORS \cup {Key(d)}
          /\ UNCHANGED FAILED_ERRORS
       \/ /\ ~ok
          /\ at' = [at EXCEPT ![d] = "failed"]
          /\ FAILED_ERRORS' = Append(FAILED_ERRORS, d)
          /\ UNCHANGED SENT_ERRORS
    /\ UNCHANGED <<cause, id, due, retrying, cleared>>

\* INVOKE: the marks are cleared, and a retry is spawned.
clear_sent_errors_for_request(r) ==
    /\ SENT_ERRORS' = {}
    /\ cleared' = {d \in Detections : at[d] = "sent"}
    /\ due' = due \cup {r}
    /\ UNCHANGED <<cause, id, at, FAILED_ERRORS, retrying>>

\* The retry takes all there is, and sends one after the other.
retry_failed_errors(r) ==
    /\ r \in due
    /\ due' = due \ {r}
    /\ retrying' = [retrying EXCEPT ![r] = FAILED_ERRORS]
    /\ FAILED_ERRORS' = <<>>
    /\ at' = [d \in Detections |->
                IF \E i \in DOMAIN FAILED_ERRORS : FAILED_ERRORS[i] = d THEN "retrying" ELSE at[d]]
    /\ UNCHANGED <<cause, id, SENT_ERRORS, cleared>>

\* It does not look the errors up, and gives up those that fail again.
ErrorRetried(r, ok) ==
    LET d == Head(retrying[r])
    IN  /\ retrying[r] # <<>>
        /\ retrying' = [retrying EXCEPT ![r] = Tail(@)]
        /\ at' = [at EXCEPT ![d] = IF ok THEN "sent" ELSE "dropped"]
        /\ SENT_ERRORS' = IF ok THEN SENT_ERRORS \cup {Key(d)} ELSE SENT_ERRORS
        /\ UNCHANGED <<cause, id, FAILED_ERRORS, due, cleared>>

ErrorStep ==
    \/ \E d \in Detections : send_lambda_error(d) \/ \E ok \in BOOLEAN : ErrorSent(d, ok)
    \/ \E r \in Requests : retry_failed_errors(r) \/ \E ok \in BOOLEAN : ErrorRetried(r, ok)

-----------------------------------------------------------------------------
(* Properties.                                                             *)

\* To the extension an error is its id and its kind: two failures that got one id are one,
\* one failure whose records got two ids is two.
SameError(d, e) == d # e /\ id[d] = id[e] /\ cause[d] = cause[e]

\* A report is kept back for another one of the same id and kind only when that one was
\* sent: never for one that is still on its way and may fail, nor for another kind.
SkippedOnlyIfSent ==
    \A d \in Detections :
        at[d] = "skipped" => \E e \in Detections : SameError(d, e) /\ at[e] = "sent"

\* An error that has been reported is not reported again under the same id, whichever of
\* its records comes first, unless an INVOKE came between, or the first is retried.  (Two
\* that are on their way together are both sent.)
NoSecondSend ==
    [][\A d \in Detections :
         at'[d] = "sending" /\ at[d] # "sending" =>
             ~\E e \in Detections : SameError(d, e)' /\ at[e] = "sent" /\ e \notin cleared]_errorVars
=============================================================================
