---------------------------- MODULE MCSignaling -----------------------------
(* Small instances of Signaling.                                           *)
EXTENDS Signaling, TLC

Symmetry == Permutations(Pages)
=============================================================================
