----------------------------- MODULE MCSealing -----------------------------
(***************************************************************************)
(* Instances of Sealing for TLC.                                           *)
(***************************************************************************)
EXTENDS Sealing, TLC

CONSTANTS s1, s2, w1, w2, x1, x2, nobody

SlotSymmetry == Permutations(Workers)
============================================================================
