------------------------------- MODULE MCChat -------------------------------
(* Small instances of Chat.                                                *)
EXTENDS Chat, TLC

Symmetry == Permutations(Calls)
=============================================================================
