---------------------------- MODULE MCDelivery ----------------------------
(***************************************************************************)
(* Delivery to two devices.                                                *)
(***************************************************************************)
EXTENDS Delivery

CONSTANTS A, B, e

Every == {"crash", "lost", "git"}
Quiet == {}
=============================================================================
