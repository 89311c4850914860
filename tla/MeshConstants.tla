--------------------------- MODULE MeshConstants ---------------------------
(***************************************************************************)
(* The limits of the guest mesh (campus_lan/mesh.py), shared by MeshEvents *)
(* and MeshPresence.                                                       *)
(***************************************************************************)
EXTENDS Integers, FiniteSets

CONSTANTS Nodes,
          Events,
          Life,        \* 45 seconds
          Window,      \* 32 events in a snapshot
          Cap,         \* 128 events in the cache
          Skew,        \* how far the wall clock of a node is ahead
          Horizon,     \* bound of the instance on the time of MeshEvents
          Expire,      \* age at which a peer is given up, 16 seconds
          MaxFailures, \* polls in a row that fail before a lost peer is forgotten, 4
          MaxPeers,    \* 16
          Bootstrap,   \* the node that knows nobody, and whom everybody knows at first
          Mortal       \* nodes of the instance that leave or crash

ASSUME MeshAssumption == /\ Life \in Nat \ {0} /\ Window \in Nat /\ Cap \in Nat
                         /\ Skew \in [Nodes -> Int] /\ Horizon \in Nat

ASSUME PresenceAssumption == /\ Expire \in Nat \ {0} /\ MaxFailures \in Nat \ {0}
                             /\ MaxPeers \in Nat \ {0} /\ Bootstrap \in Nodes
                             /\ Mortal \subseteq Nodes
=============================================================================
