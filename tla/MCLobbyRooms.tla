---------------------------- MODULE MCLobbyRooms ----------------------------
(***************************************************************************)
(* Instances of LobbyRooms for TLC: three connections of different people. *)
(***************************************************************************)
EXTENDS LobbyRooms, TLC

MCAccountOf == [p \in Pid |-> p]

Symmetric == Permutations(Pid) \cup Permutations(Rid)

\* Two people, one of whom connects again: the names and the client limit bind.
Reconnecting == LET first == CHOOSE p \in Pid : TRUE
                IN [p \in Pid |-> IF p = first THEN "guest" ELSE "regular"]
=============================================================================
