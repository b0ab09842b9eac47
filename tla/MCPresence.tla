----------------------------- MODULE MCPresence -----------------------------
(* Small instances of Presence: one host and one guest.                    *)
EXTENDS Presence, TLC

CONSTANTS host, guest, r1, r2, h1, g1, g2

MCHostOf  == [r \in Rooms |-> host]
MCUserOf  == [s \in Sockets |-> IF s = h1 THEN host ELSE guest]
MCInvited == {<<r1, guest>>}

\* Who acts over HTTP as well, and how, in each run.
NoHttp     == {}
HostKicks  == {<<"kick", host>>}
GuestNames == {<<"join", guest>>, <<"update", guest>>, <<"moderate", guest>>}

\* Handler slots, ids and the guest's connections are interchangeable.
Symmetry == Permutations(Calls) \union Permutations(Pids)
              \union Permutations(Sockets \ {h1})
=============================================================================
