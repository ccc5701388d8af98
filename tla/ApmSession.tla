------------------------------ MODULE ApmSession ------------------------------
(***************************************************************************)
(* The session of APM mode with New Relic's collector: the handshake that  *)
(* gets a run id (apm/app.rs, apm/connection.rs), the shared session and   *)
(* its lock, and what the collector answers to a run id (apm/collector.rs).*)
(* ApmDelivery composes it with the APM event loop, LmiDelivery with the   *)
(* one of managed instances.                                               *)
(*                                                                         *)
(* The three attempts of ApmApp::new are one outcome.  Diagnostics (attempt*)
(* counters, last failure) are left out.                                   *)
(***************************************************************************)
EXTENDS Naturals

CONSTANTS
    Handshakes, \* the tasks that may do one; "background" is the start-up's
    MaxRuns     \* bound: handshakes the collector accepts

ASSUME RunsAssumption == MaxRuns \in Nat /\ "background" \in Handshakes

None == 0
Runs == 1..MaxRuns

VARIABLES
    app,       \* SharedApmApp: the run id of the session, or None
    reconnect, \* RECONNECT_NEEDED
    fatal,     \* HANDSHAKE_FATAL
    handshake, \* how far each handshake is
    issued,    \* run ids the collector has given out: 1..issued
    valid      \* the run ids it accepts

sessionVars == <<app, reconnect, fatal, handshake, issued, valid>>

Idle       == [stage |-> "idle", run |-> None]
Trying     == [stage |-> "trying", run |-> None]

SessionTypeOK ==
    /\ app \in 0..MaxRuns
    /\ reconnect \in BOOLEAN /\ fatal \in BOOLEAN
    /\ handshake \in [Handshakes -> [stage : {"idle", "trying", "connected"}, run : 0..MaxRuns]]
    /\ issued \in 0..MaxRuns
    /\ valid \in SUBSET Runs

\* The start-up spawns the first handshake, its flag already set.
SessionInit ==
    /\ app = None
    /\ reconnect = FALSE /\ fatal = FALSE
    /\ handshake = [h \in Handshakes |-> IF h = "background" THEN Trying ELSE Idle]
    /\ issued = 0 /\ valid = {}

\* ReconnectGuard: the flag is up until the task has ended.
reconnect_in_flight == handshake["background"].stage # "idle"

Connected(h) == handshake[h].stage = "connected"

\* A handshake ends with a run id, without one, or in the latch that ends them all.
Connect(h) ==
    /\ handshake[h].stage = "trying"
    /\ issued < MaxRuns
    /\ issued' = issued + 1
    /\ valid' = valid \cup {issued'}
    /\ handshake' = [handshake EXCEPT ![h] = [stage |-> "connected", run |-> issued']]
    /\ UNCHANGED <<app, reconnect, fatal>>

ConnectFails(h) ==
    /\ handshake[h].stage = "trying"
    /\ handshake' = [handshake EXCEPT ![h] = Idle]
    /\ UNCHANGED <<app, reconnect, fatal, issued, valid>>

signal_handshake_fatal(h) ==
    /\ handshake[h].stage = "trying"
    /\ handshake' = [handshake EXCEPT ![h] = Idle]
    /\ fatal' = TRUE
    /\ UNCHANGED <<app, reconnect, issued, valid>>

\* The new session is written to the shared one.
Install(h) ==
    /\ Connected(h)
    /\ app' = handshake[h].run
    /\ handshake' = [handshake EXCEPT ![h] = Idle]
    /\ UNCHANGED <<reconnect, fatal, issued, valid>>

\* The collector restarts a session, or disconnects it.
CollectorRestart ==
    /\ \E run \in valid : valid' = valid \ {run}
    /\ UNCHANGED <<app, reconnect, fatal, handshake, issued>>

\* What a send with a run id meets: a run id the collector does not know gets 401 or
\* 409 (restart), or 410 (disconnect); anything else but success is a failure.
Answers(run) == IF run \in valid THEN {"ok", "failed"}
                ELSE {"restart", "disconnect", "failed"}

\* signal_reconnect_needed: the flag does not say which run id it is about.
signal_reconnect_needed(answer) ==
    reconnect' = (reconnect \/ answer \in {"restart", "disconnect"})
=============================================================================
