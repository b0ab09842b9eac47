----------------------------- MODULE MCAccounts -----------------------------
(* Small instances of Accounts.                                            *)
EXTENDS Accounts, TLC

Symmetry == Permutations(Founders) \union Permutations(Calls)
=============================================================================
