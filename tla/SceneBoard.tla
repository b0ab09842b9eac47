----------------------------- MODULE SceneBoard -----------------------------
(***************************************************************************)
(* What the shared scene promises, without handlers, packets or            *)
(* connections: the host posts versions on a board; a member sees some     *)
(* version; from the moment it has entered, what it sees never goes back,  *)
(* and never is a version that has not been posted.                        *)
(*                                                                         *)
(* RoomFeed implements it (FollowsTheBoard there).                         *)
(***************************************************************************)
EXTENDS Naturals

CONSTANT Members

VARIABLES
  ver,      \* the version on the board
  seen,     \* the version each member sees
  entered   \* the members that have entered

vars == <<ver, seen, entered>>

Init ==
  /\ ver = 0
  /\ seen = [m \in Members |-> 0]
  /\ entered = {}

Post ==
  /\ ver' = ver + 1
  /\ UNCHANGED <<seen, entered>>

\* A member is shown a version that is not older than the one it sees.
See(m) ==
  /\ \E v \in seen[m] .. ver : seen' = [seen EXCEPT ![m] = v]
  /\ UNCHANGED <<ver, entered>>

\* A member enters once, with any version: this is the only step back.
Enter(m) ==
  /\ m \notin entered
  /\ entered' = entered \union {m}
  /\ \E v \in 0 .. ver : seen' = [seen EXCEPT ![m] = v]
  /\ UNCHANGED ver

Next == Post \/ \E m \in Members : See(m) \/ Enter(m)

Spec == Init /\ [][Next]_vars
=============================================================================
