---------------------------- MODULE InvocationEnd ----------------------------
(***************************************************************************)
(* The end of an invocation, as the event loops and their deferred tasks   *)
(* see it: platform.runtimeDone, through the Notify of the request's entry *)
(* or PREFIRED_RUNTIME_DONE, or the deadline; then the waits for immediate *)
(* sends and for an APM handshake, in what the deadline leaves.  The       *)
(* errors a runtimeDone or a SHUTDOWN tells of are ErrorSynthesis's.       *)
(*                                                                         *)
(* The mode and pipeline_flush are chosen at the start.  Time is kept as    *)
(* what is left of deadlines and waits, in ticks.  Left out: what is sent  *)
(* and flushed, and the grace for logs (ServerlessDelivery, ApmDelivery,   *)
(* LogPipeline), the cap on deferred tasks, send_function_logs off, which  *)
(* skips the wait, and a 403 or SHUTDOWN_TIMEOUT_MS, after which nothing   *)
(* happens any more.                                                       *)
(***************************************************************************)
EXTENDS ErrorSynthesis

CONSTANTS
    Scenes,    \* the configurations to begin in, each with the inputs to try in it
    MaxWait,   \* MAX_RUNTIME_DONE_WAIT_MS (15 min)
    Fallback,  \* FALLBACK_RUNTIME_DONE_WAIT_MS (5 s), for a deadline that is missing or past
    Margin,    \* INVOKE_DEADLINE_SAFETY_MARGIN_MS (500 ms)
    StaleAge   \* events after which the cleanup takes an entry (5)

\* A scene: the mode and pipeline_flush; how long after INVOKE a deadline may be (0 for
\* none); what runtimeDone may say of a request that failed, and the reason of SHUTDOWN;
\* the records of a start that failed, and the ids of their own they may have.
ASSUME InvocationEndAssumption ==
    /\ MaxWait \in Nat /\ Fallback \in Nat /\ Margin \in Nat
    /\ StaleAge \in Nat \ {0}
    /\ Scenes \subseteq
         [apm_lambda_mode : BOOLEAN, pipeline_flush : BOOLEAN, timeouts : SUBSET Nat,
          failures : SUBSET {"error", "failure", "timeout"},
          reasons : SUBSET {"failure", "timeout", "unknown"},
          starts : SUBSET Starts, own : SUBSET (Requests \cup {InstanceId, NoId})]

VARIABLES
    scene,
    loop,       \* where the event loop awaits
    patience,   \* how long it still waits for a handshake
    issued,     \* INVOKEs so far
    remaining,  \* deadline_ms - now_ms of a request; 0 when it is past, or INVOKE had none
    started,    \* requests whose platform.start has been handled
    done,       \* requests whose platform.runtimeDone has been handled
    entry,      \* the Notify in a request's entry of REQUEST_DATA, by number; 0 for no entry
    made,       \* Notifys made for a request so far
    permits,    \* Notifys with a permit
    PREFIRED_RUNTIME_DONE,
    task,       \* process_request_concurrently or process_apm_request
    held,       \* the Notify it waits for
    wait,       \* how long it still waits
    visits,     \* in APM mode: requests whose entries the tasks of an INVOKE will remove
    torn        \* history: requests that lost an entry they needed

entryVars == <<entry, made, permits, PREFIRED_RUNTIME_DONE, torn>>
taskVars  == <<task, held, wait, visits>>
vars == <<errorVars, scene, loop, patience, issued, remaining, started, done,
          entryVars, taskVars>>

\* platform.start makes an entry, INVOKE another.
Notifys == Requests \X (1..2)

TypeOK ==
    /\ ErrorTypeOK
    /\ scene \in Scenes
    /\ loop \in {"next", "begin", "join", "after", "handshake", "drain", "error", "exited"}
    /\ patience \in Nat
    /\ issued \in 0..Invocations
    /\ remaining \in [Requests -> Nat]
    /\ started \subseteq Requests /\ done \subseteq started
    /\ entry \in [Requests -> 0..2] /\ made \in [Requests -> 0..2]
    /\ permits \subseteq Notifys
    /\ PREFIRED_RUNTIME_DONE \subseteq Requests
    /\ task \in [Requests -> {"none", "processing", "waiting", "flushing", "joining", "done"}]
    /\ held \in [Requests -> 0..2]
    /\ wait \in [Requests -> Nat]
    /\ visits \in [Requests -> SUBSET Requests]
    /\ torn \subseteq Requests

Init ==
    /\ ErrorInit
    /\ scene \in Scenes
    /\ loop = "next" /\ patience = 0 /\ issued = 0
    /\ remaining = [r \in Requests |-> 0]
    /\ started = {} /\ done = {}
    /\ entry = [r \in Requests |-> 0] /\ made = [r \in Requests |-> 0]
    /\ permits = {} /\ PREFIRED_RUNTIME_DONE = {} /\ torn = {}
    /\ task = [r \in Requests |-> "none"]
    /\ held = [r \in Requests |-> 0] /\ wait = [r \in Requests |-> 0]
    /\ visits = [r \in Requests |-> {}]

Running == loop # "exited"

apm_lambda_mode == scene.apm_lambda_mode

-----------------------------------------------------------------------------
(* The waits and what bounds them.                                         *)

Least(a, b) == IF a < b THEN a ELSE b

\* Mutant: the margin is subtracted in u64 without saturation.
Wide == 2^6
bounded_wait_wrapped(left) == IF left > 0 THEN (Wide + left - Margin) % Wide ELSE 0

\* What a deadline leaves for a wait, a margin kept; its callers give no cap of their own.
bounded_wait_budget_ms(left) == IF left > Margin THEN left - Margin ELSE 0

runtime_done_wait(left) == IF left > 0 THEN Least(left, MaxWait) ELSE Fallback

-----------------------------------------------------------------------------
(* The entries of requests and their Notifys.                              *)

\* Mutant: a runtimeDone nobody can be told of is forgotten.
SignalEntryOnly(r) ==
    /\ permits' = IF entry[r] # 0 THEN permits \cup {<<r, entry[r]>>} ELSE permits
    /\ UNCHANGED PREFIRED_RUNTIME_DONE

\* runtimeDone signals the request's Notify, or is recorded until there is one.
Signal(r) ==
    /\ permits' = IF entry[r] # 0 THEN permits \cup {<<r, entry[r]>>} ELSE permits
    /\ PREFIRED_RUNTIME_DONE' = IF entry[r] # 0 THEN PREFIRED_RUNTIME_DONE
                                ELSE PREFIRED_RUNTIME_DONE \cup {r}

\* A new entry, with a new Notify: signalled already if runtimeDone came first.
NewEntry(r) ==
    /\ made' = [made EXCEPT ![r] = @ + 1]
    /\ entry' = [entry EXCEPT ![r] = made[r] + 1]
    /\ permits' = IF r \in PREFIRED_RUNTIME_DONE THEN permits \cup {<<r, made[r] + 1>>} ELSE permits
    /\ PREFIRED_RUNTIME_DONE' = PREFIRED_RUNTIME_DONE \ {r}

\* cleanup_request_processing_state_internal, the whole of it.
RemoveEntry(r) ==
    /\ entry' = [entry EXCEPT ![r] = 0]
    /\ PREFIRED_RUNTIME_DONE' = PREFIRED_RUNTIME_DONE \ {r}
    /\ torn' = torn \cup {r}
    /\ UNCHANGED <<made, permits>>

-----------------------------------------------------------------------------
(* The telemetry listener.                                                 *)

\* Lambda tells of an invocation as it begins, the event loop perhaps not yet woken.
Begun(r) == r <= issued \/ (r = issued + 1 /\ loop = "next")

restOfListener == <<scene, loop, patience, issued, remaining, taskVars>>

\* In APM mode platform.start calls ensure_lmi_request_slot.
PlatformStart(r) ==
    /\ Running
    /\ Begun(r)
    /\ r \notin started
    /\ started' = started \cup {r}
    /\ IF apm_lambda_mode /\ entry[r] = 0
       THEN NewEntry(r) /\ UNCHANGED torn
       ELSE UNCHANGED entryVars
    /\ UNCHANGED <<errorVars, done, restOfListener>>

\* The invocation context of the listener's processor, which an INVOKE updates as it makes
\* its entry.
context == IF loop = "begin" THEN issued - 1 ELSE issued

PlatformRuntimeDone(r, c) ==
    /\ Running
    /\ r \in started \ done
    /\ done' = done \cup {r}
    /\ Signal(r)
    /\ IF apm_lambda_mode \/ c = NoCause
       THEN UNCHANGED errorVars
       ELSE check_and_send_platform_errors([by |-> "runtimeDone", of |-> r], c, r, context)
    /\ UNCHANGED <<entry, made, torn, started, restOfListener>>

\* The records of a start or a restore that failed: Lambda tells of it before or with the
\* first invocation.
PlatformStartFailed(d, own) ==
    /\ Running
    /\ issued <= 1
    /\ ~apm_lambda_mode
    /\ check_and_send_platform_errors(d, "error", own, context)
    /\ UNCHANGED <<entryVars, started, done, restOfListener>>

-----------------------------------------------------------------------------
(* The event loop.                                                         *)

\* A request whose INVOKE carries no deadline has 0.
Invoke(timeout) ==
    LET r == issued + 1
    IN  /\ loop = "next"
        /\ r \in Requests
        /\ issued' = r
        /\ loop' = "begin"
        /\ remaining' = [remaining EXCEPT ![r] = timeout]
        /\ IF apm_lambda_mode THEN UNCHANGED errorVars ELSE clear_sent_errors_for_request(r)
        /\ UNCHANGED <<scene, patience, started, done, entryVars, taskVars>>

\* The awaits before it over, the entry is made, over the one of platform.start if there
\* is one, and the tasks are spawned: in APM mode they go through the other entries.
create_request_processing_state(r) ==
    /\ loop = "begin"
    /\ r = issued
    /\ NewEntry(r)
    /\ torn' = IF entry[r] # 0 THEN torn \cup {r} ELSE torn
    /\ task' = [task EXCEPT ![r] = "processing"]
    /\ visits' = [visits EXCEPT ![r] = IF apm_lambda_mode THEN {q \in Requests \ {r} : entry[q] # 0}
                                       ELSE {}]
    /\ loop' = IF scene.pipeline_flush THEN "after" ELSE "join"
    /\ UNCHANGED <<errorVars, scene, patience, issued, remaining, started, done, held, wait>>

Joined ==
    /\ loop = "join"
    /\ task[issued] = "done"
    /\ visits[issued] = {}
    /\ loop' = "after"
    /\ UNCHANGED <<errorVars, scene, patience, issued, remaining, started, done,
                   entryVars, taskVars>>

\* wait_for_apm_handshake_within_budget, when there is one in flight and time for it.
After(handshaking) ==
    LET budget == bounded_wait_budget_ms(remaining[issued])
        waits  == apm_lambda_mode /\ handshaking /\ budget > 0
    IN  /\ loop = "after"
        /\ loop' = IF waits THEN "handshake" ELSE "next"
        /\ patience' = IF waits THEN budget ELSE 0
        /\ UNCHANGED <<errorVars, scene, issued, remaining, started, done,
                       entryVars, taskVars>>

\* The handshake has ended, or the time is over.
HandshakeOver ==
    /\ loop = "handshake"
    /\ loop' = "next"
    /\ patience' = 0
    /\ UNCHANGED <<errorVars, scene, issued, remaining, started, done, entryVars, taskVars>>

\* GLOBAL_INVOCATION_COUNTER counts SHUTDOWN too.
counter == IF loop \in {"drain", "error"} THEN issued + 1 ELSE issued

\* The periodic cleanup of the serverless mode.
CleanupStale(r) ==
    /\ Running
    /\ ~apm_lambda_mode
    /\ entry[r] # 0
    /\ counter >= r + StaleAge
    /\ RemoveEntry(r)
    /\ UNCHANGED <<errorVars, started, done, restOfListener>>

-----------------------------------------------------------------------------
(* The tasks of an INVOKE.                                                 *)

restOfTask == <<scene, loop, patience, issued, remaining, started, done>>

\* process_pending_agent_payloads, and the late payloads of process_apm_request: the entry
\* of another request goes, whatever that one waits for.
EntryVisited(r, q) ==
    /\ Running
    /\ q \in visits[r]
    /\ visits' = [visits EXCEPT ![r] = @ \ {q}]
    /\ RemoveEntry(q)
    /\ UNCHANGED <<errorVars, task, held, wait, restOfTask>>

\* Without an entry there is nothing to wait for.
WaitBegins(r) ==
    /\ Running
    /\ task[r] = "processing"
    /\ task' = [task EXCEPT ![r] = IF entry[r] = 0 THEN "flushing" ELSE "waiting"]
    /\ held' = [held EXCEPT ![r] = entry[r]]
    /\ wait' = [wait EXCEPT ![r] = IF entry[r] = 0 THEN 0 ELSE runtime_done_wait(remaining[r])]
    /\ UNCHANGED <<errorVars, entryVars, visits, restOfTask>>

WaitEnds(r) ==
    /\ Running
    /\ task[r] = "waiting"
    /\ \/ /\ <<r, held[r]>> \in permits
          /\ permits' = permits \ {<<r, held[r]>>}
       \/ /\ wait[r] = 0
          /\ UNCHANGED permits
    /\ task' = [task EXCEPT ![r] = "flushing"]
    /\ held' = [held EXCEPT ![r] = 0]
    /\ wait' = [wait EXCEPT ![r] = 0]
    /\ UNCHANGED <<errorVars, entry, made, PREFIRED_RUNTIME_DONE, torn, visits, restOfTask>>

\* The serverless mode joins the immediate sends of the request, if there are any and
\* there is time for them.
FlushBegins(r, sending) ==
    LET budget == bounded_wait_budget_ms(remaining[r])
        joins  == ~apm_lambda_mode /\ sending /\ budget > 0
    IN  /\ Running
        /\ task[r] = "flushing"
        /\ task' = [task EXCEPT ![r] = IF joins THEN "joining" ELSE "done"]
        /\ wait' = [wait EXCEPT ![r] = IF joins THEN budget ELSE 0]
        /\ UNCHANGED <<errorVars, entryVars, held, visits, restOfTask>>

\* The sends have ended, or the time is over.
SendsJoined(r) ==
    /\ Running
    /\ task[r] = "joining"
    /\ task' = [task EXCEPT ![r] = "done"]
    /\ wait' = [wait EXCEPT ![r] = 0]
    /\ UNCHANGED <<errorVars, entryVars, held, visits, restOfTask>>

-----------------------------------------------------------------------------
(* SHUTDOWN.                                                               *)

restOfShutdown == <<scene, patience, issued, remaining, started, done, entryVars, taskVars>>

Shutdown ==
    /\ loop = "next"
    /\ loop' = "drain"
    /\ UNCHANGED <<errorVars, restOfShutdown>>

\* The deferred tasks first, then the error its reason tells of, for the last request.
ShutdownDrained(c) ==
    LET d == [by |-> "shutdown", of |-> issued]
    IN  /\ loop = "drain"
        /\ \A r \in Requests : task[r] \in {"none", "done"} /\ visits[r] = {}
        /\ IF apm_lambda_mode \/ issued = 0 \/ c = NoCause
           THEN loop' = "exited" /\ UNCHANGED errorVars
           ELSE loop' = "error" /\ ShutdownError(d, c)
        /\ UNCHANGED restOfShutdown

ShutdownErrorOver ==
    /\ loop = "error"
    /\ at[[by |-> "shutdown", of |-> issued]] # "sending"
    /\ loop' = "exited"
    /\ UNCHANGED <<errorVars, restOfShutdown>>

Errors == Running /\ ErrorStep /\ UNCHANGED <<loop, restOfShutdown>>

Less(n) == IF n = 0 THEN 0 ELSE n - 1

Tick ==
    /\ Running
    /\ patience > 0 \/ \E r \in Requests : remaining[r] > 0 \/ wait[r] > 0
    /\ patience' = Less(patience)
    /\ remaining' = [r \in Requests |-> Less(remaining[r])]
    /\ wait' = [r \in Requests |-> Less(wait[r])]
    /\ UNCHANGED <<errorVars, scene, loop, issued, started, done, entryVars, task, held, visits>>

Terminated == ~Running /\ UNCHANGED vars

Next ==
    \/ \E r \in Requests :
          \/ PlatformStart(r) \/ CleanupStale(r)
          \/ \E c \in scene.failures \cup {NoCause} : PlatformRuntimeDone(r, c)
          \/ create_request_processing_state(r)
          \/ \E q \in Requests : EntryVisited(r, q)
          \/ WaitBegins(r) \/ WaitEnds(r) \/ SendsJoined(r)
          \/ \E sending \in BOOLEAN : FlushBegins(r, sending)
    \/ \E d \in [by : scene.starts, of : {Start}], own \in scene.own : PlatformStartFailed(d, own)
    \/ \E t \in scene.timeouts : Invoke(t)
    \/ Joined \/ HandshakeOver \/ \E h \in BOOLEAN : After(h)
    \/ Shutdown \/ ShutdownErrorOver \/ \E c \in scene.reasons \cup {NoCause} : ShutdownDrained(c)
    \/ Errors \/ Tick \/ Terminated

Spec == Init /\ [][Next]_vars

-----------------------------------------------------------------------------
(* Properties.                                                             *)

\* A task does not sleep until its deadline for a runtimeDone that has been handled
\* already, before INVOKE had made the entry or after, or while the task was not waiting
\* yet, unless the entry its Notify was in was replaced or removed.
NoLostWakeup ==
    \A r \in Requests \ torn :
        task[r] = "waiting" /\ r \in done => <<r, held[r]>> \in permits

\* No wait goes on when the invocation's time is over.  The one for runtimeDone ends at
\* the deadline, or within the fallback; those after it leave the margin, however late
\* they begin.
WaitsInTime ==
    /\ \A r \in Requests :
          /\ task[r] = "waiting" => wait[r] <= remaining[r] \/ wait[r] <= Fallback
          /\ task[r] = "joining" /\ wait[r] > 0 => wait[r] + Margin <= remaining[r]
    /\ loop = "handshake" /\ patience > 0 => patience + Margin <= remaining[issued]
=============================================================================
