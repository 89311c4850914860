---------------------------- MODULE RoomDirectory ----------------------------
(***************************************************************************)
(* What the lobby promises its players about rooms, whatever the awaits of *)
(* its handlers do: a player sits in at most one room; an open room has a  *)
(* host, who sits in it and changes only by leaving; a room disappears     *)
(* with its last player.                                                   *)
(***************************************************************************)
CONSTANTS Pid, Rid, NoPid, NoRid

VARIABLES seat,  \* [Pid -> Rid \cup {NoRid}]
          chair  \* [Rid -> Pid \cup {NoPid}], NoPid for a room that does not exist

vars == <<seat, chair>>

Present(r) == {p \in Pid : seat[p] = r}

Init == seat = [p \in Pid |-> NoRid] /\ chair = [r \in Rid |-> NoPid]

Open(p, r) == /\ seat[p] = NoRid /\ chair[r] = NoPid
              /\ seat' = [seat EXCEPT ![p] = r]
              /\ chair' = [chair EXCEPT ![r] = p]

Enter(p, r) == /\ seat[p] = NoRid /\ chair[r] # NoPid
               /\ seat' = [seat EXCEPT ![p] = r]
               /\ chair' = chair

Exit(p, r) == /\ seat[p] = r
              /\ seat' = [seat EXCEPT ![p] = NoRid]
              /\ \/ Present(r) = {p} /\ chair' = [chair EXCEPT ![r] = NoPid]
                 \/ Present(r) # {p} /\ chair[r] # p /\ chair' = chair
                 \/ /\ chair[r] = p
                    /\ \E h \in Present(r) \ {p} : chair' = [chair EXCEPT ![r] = h]

\* Each change moves somebody.
Next == /\ seat' # seat
        /\ \E p \in Pid, r \in Rid : Open(p, r) \/ Enter(p, r) \/ Exit(p, r)

Spec == Init /\ [][Next]_vars
=============================================================================
