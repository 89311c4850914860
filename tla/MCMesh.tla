------------------------------- MODULE MCMesh -------------------------------
(***************************************************************************)
(* The two halves of the mesh as scenes of one instance: events between    *)
(* nodes whose clocks differ, and who is present.  A behaviour stays in    *)
(* the scene it begins in.                                                 *)
(***************************************************************************)
EXTENDS MeshEvents, TLC

CONSTANTS a, b, c, Scenes, Meeting

VARIABLES scene, status, peers, round, polls, sweep

Here == INSTANCE MeshPresence WITH Nodes <- Meeting
\* The same with an entry for everybody.
Wide == INSTANCE MeshPresence WITH Nodes <- Meeting, MaxPeers <- MaxPeers + 1

ASSUME MeetingAssumption == Here!PresenceAssumption

Skewed == [n \in Nodes |-> IF n = c THEN 1 ELSE 0]

here == <<status, peers, round, polls, sweep>>
all == <<scene, vars, here>>

\* A state that Init leads to: all three nodes have met, and c has just crashed.
JustCrashed == /\ status = [n \in Meeting |-> IF n = c THEN "down" ELSE "up"]
               /\ peers = [n \in Meeting |-> IF n = c THEN Here!Nothing ELSE
                              [k \in Meeting \ {n} |-> Here!Fresh([shows |-> TRUE, live |-> {}])]]
               /\ round = [n \in Meeting |-> "rest"]
               /\ polls = [n \in Meeting |-> Here!Nothing]
               /\ sweep = [n \in Meeting |-> Here!Nothing]

In(name) == scene = name /\ UNCHANGED scene

MCInit == /\ scene \in Scenes /\ Init
          /\ IF scene = "crash" THEN JustCrashed ELSE Here!Init

MCNext == \/ In("events") /\ Next /\ UNCHANGED here
          \/ In("meeting") /\ Here!Next /\ UNCHANGED vars
          \/ In("crash") /\ Wide!Next /\ UNCHANGED vars

\* The fairness of MeshPresence, in its two scenes.
Rest == scene # "events" /\ UNCHANGED <<scene, vars>>
Polled(n) == (scene = "meeting" /\ Here!PollEnds(n)) \/ (scene = "crash" /\ Wide!PollEnds(n))

MCSpec == /\ MCInit /\ [][MCNext]_all
          /\ WF_all(Rest /\ Here!Clock)
          /\ \A n \in Meeting : /\ WF_all(Rest /\ Here!Loop(n)) /\ WF_all(Rest /\ Polled(n))
                                /\ WF_all(Rest /\ Here!Exit(n))

\* A node that is gone is forgotten for good (MeshPresence).
GoneForgotten == Here!GoneForgotten
\* A peer heard from lately is not dropped (MeshPresence).
FreshKept == Here!FreshKept
=============================================================================
