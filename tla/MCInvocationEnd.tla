--------------------------- MODULE MCInvocationEnd ---------------------------
(***************************************************************************)
(* Instances of InvocationEnd for TLC.                                     *)
(***************************************************************************)
EXTENDS InvocationEnd, TLC

Scene(apm, pipeline, timeouts, failures, reasons, starts, own) ==
    [apm_lambda_mode |-> apm, pipeline_flush |-> pipeline, timeouts |-> timeouts,
     failures |-> failures, reasons |-> reasons, starts |-> starts, own |-> own]

\* Both modes with deadlines, and the serverless one with errors: of two requests, and of
\* a start whose records name a request, an instance or nothing.
DeadlinesAndErrors ==
    {Scene(TRUE, TRUE, {3}, {}, {}, {}, {}), Scene(TRUE, FALSE, {0, 3}, {}, {}, {}, {}),
     Scene(FALSE, TRUE, {3}, {}, {}, {}, {}),
     Scene(FALSE, FALSE, {0}, {"failure"}, {"failure"}, {}, {}),
     Scene(FALSE, FALSE, {0}, {"timeout"}, {"timeout", "unknown"}, {}, {}),
     Scene(FALSE, FALSE, {0}, {"error"}, {}, {"restoreReport"}, {1}),
     Scene(FALSE, FALSE, {0}, {}, {}, {"initRuntimeDone", "initReport"}, {InstanceId}),
     Scene(FALSE, FALSE, {0}, {}, {}, {"initRuntimeDone", "initReport"}, {NoId})}

\* The ids of the clock are only ever compared.
SymmetryOfIds == Permutations(ClockIds)
=============================================================================
