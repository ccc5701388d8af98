----------------------------- MODULE MCApmDelivery -----------------------------
(***************************************************************************)
(* Instances of ApmDelivery for TLC: one or two invocations, one or two    *)
(* payloads, one or two sessions; the constants are in the .cfg files.     *)
(***************************************************************************)
EXTENDS ApmDelivery, TLC
=============================================================================
