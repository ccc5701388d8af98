--------------------------- MODULE PayloadCustody ---------------------------
(***************************************************************************)
(* What the extension promises about the agent payloads it reads from the  *)
(* named pipe, whatever it does to batch, pair, retry and clean them up:   *)
(* a payload it has taken custody of stays in custody until the telemetry  *)
(* endpoint has answered for it, and an orderly shutdown does not end      *)
(* while a payload received before it began is still unanswered, unless a  *)
(* task that nobody awaits has taken it.                                   *)
(***************************************************************************)
CONSTANT Payloads    \* the payloads the function's agent may write

VARIABLES
    held,      \* payloads the extension is responsible for
    detached,  \* those of them in the hands of a task that nobody awaits
    settled,   \* payloads the endpoint answered for (or a last attempt failed)
    due,       \* payloads the shutdown in progress must settle
    phase      \* "open", "closing" (shutdown has begun), "closed"

vars == <<held, detached, settled, due, phase>>

Init ==
    /\ held = {}
    /\ detached = {}
    /\ settled = {}
    /\ due = {}
    /\ phase = "open"

\* Payloads read from the pipe and filed under a request are taken into custody.
Receive ==
    /\ phase # "closed"
    /\ held' \in SUBSET Payloads
    /\ held \subseteq held'
    /\ (held' \ held) \cap settled = {}
    /\ UNCHANGED <<detached, settled, due, phase>>

\* A task that nobody awaits takes some of what is held.
Detach ==
    /\ phase # "closed"
    /\ detached' \in SUBSET held
    /\ detached \subseteq detached'
    /\ UNCHANGED <<held, settled, due, phase>>

\* An attempt settles some payloads; only settled payloads leave custody.
Settle ==
    /\ phase # "closed"
    /\ settled' \in SUBSET Payloads
    /\ settled \subseteq settled'
    /\ held' \in SUBSET held
    /\ held \ held' \subseteq settled'
    /\ detached' = detached \cap held'
    /\ UNCHANGED <<due, phase>>

\* Shutdown begins: what is held now must be settled before it ends.
Close ==
    /\ phase = "open"
    /\ phase' = "closing"
    /\ due' = held
    /\ UNCHANGED <<held, detached, settled>>

\* An orderly shutdown ends only when everything due is settled or detached.
Finish ==
    /\ phase = "closing"
    /\ due \subseteq settled \cup detached
    /\ phase' = "closed"
    /\ UNCHANGED <<held, detached, settled, due>>

\* The process is killed, in an emergency or by a timeout: no promise is kept.
Kill ==
    /\ phase # "closed"
    /\ phase' = "closed"
    /\ due' = {}
    /\ UNCHANGED <<held, detached, settled>>

Next == Receive \/ Detach \/ Settle \/ Close \/ Finish \/ Kill

Spec == Init /\ [][Next]_vars
=============================================================================
