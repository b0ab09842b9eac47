------------------------------ MODULE MCRoster ------------------------------
(* Small instances of Roster.                                              *)
EXTENDS Roster, TLC

CONSTANTS host, g1, g2

\* Handler slots are interchangeable.
Symmetry == Permutations(Calls)
=============================================================================
