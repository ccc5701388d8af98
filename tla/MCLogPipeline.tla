---------------------------- MODULE MCLogPipeline ----------------------------
(***************************************************************************)
(* Instances of LogPipeline for TLC: one or two invocations, two or three  *)
(* records.                                                                *)
(***************************************************************************)
EXTENDS LogPipeline, TLC

\* Records of one type are interchangeable.  Not used where liveness is checked.
Symmetry == Permutations(FunctionLogs) \cup Permutations(ExtensionLogs)

\* Registration's fallback ARN matters only until the first INVOKE gives one, and then states that
\* differ in it alone are the same.  Not used where liveness is checked.
View ==
    <<loop, task, ArnKnown, streamVars, preInvoke, holdVars, batch, autoVars, failed, retryCount,
      retryVars, flush, drainVars, shutVars, stampVars, sent, givenUp>>
=============================================================================
