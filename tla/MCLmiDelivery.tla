---------------------------- MODULE MCLmiDelivery ----------------------------
(***************************************************************************)
(* Instances of LmiDelivery for TLC.                                       *)
(***************************************************************************)
EXTENDS LmiDelivery, TLC
=============================================================================
