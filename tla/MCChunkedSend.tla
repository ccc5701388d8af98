---------------------------- MODULE MCChunkedSend ----------------------------
(***************************************************************************)
(* Instances of ChunkedSend for TLC.                                       *)
(***************************************************************************)
EXTENDS ChunkedSend

In(from, sizes, low, budget, license_key, hangs) ==
    [caller |-> from, sizes |-> sizes, low |-> low, budget |-> budget,
     license_key |-> license_key, hangs |-> hangs]

\* Items that fit together, alone, or not even alone: all sizes of a batch of three.
Cuttings == {In(c, s, {2}, {}, TRUE, FALSE) :
               c \in {"flush", "preInvoke", "shutdown"}, s \in [1..3 -> {1, 4, 6}]}

\* A chunk that can be halved as often as allowed, and once more.
Halvings == {In("flush", [i \in 1..5 |-> 1], {}, {}, TRUE, FALSE)}

\* One item, under every kind of time budget and way to New Relic.
Schedules == {In(c, <<1>>, {}, b, l, h) :
                c \in {"flush", "shutdown"}, b \in {{}, {0}, {10}, {400}},
                l \in BOOLEAN, h \in BOOLEAN}

Batches == Cuttings \cup Halvings \cup Schedules
=============================================================================
