----------------------------- MODULE MCRoomFeed -----------------------------
(* Small instances of RoomFeed: a host, another participant, spectators.   *)
EXTENDS RoomFeed, TLC

CONSTANTS host, guest, s1, s2

MCPatches == {{"command"}}

\* Handler slots are interchangeable.
Symmetry == Permutations(Calls)
=============================================================================
