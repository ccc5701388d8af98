------------------------ MODULE MCServerlessDelivery ------------------------
(***************************************************************************)
(* Instances of ServerlessDelivery for TLC: two or three invocations, two  *)
(* payloads.                                                               *)
(***************************************************************************)
EXTENDS ServerlessDelivery, TLC

\* Invocations are interchangeable, and so are payloads: only the order in
\* which they occur tells them apart.  Not used where liveness is checked.
Symmetry == Permutations(Requests) \cup Permutations(Payloads)
=============================================================================
