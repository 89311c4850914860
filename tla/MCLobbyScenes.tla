--------------------------- MODULE MCLobbyScenes ----------------------------
(***************************************************************************)
(* Five scenes of one instance, around the lobby: its rooms, a match of    *)
(* Hex Wars in a room, the web process of a FORKNITE room, two windows of  *)
(* an account that tell of the people it tracks, and the node that such    *)
(* windows start and end.  A behaviour stays in the scene it begins in.    *)
(***************************************************************************)
EXTENDS MCLobbyRooms

CONSTANTS one, two,                                                 \* of Pid
          grower, raider, keeper, hill, homeG, homeR, homeK,        \* HexWars
          Cells, Neighbors, Players, Home, Growth, Attack, Armor,
          NeutralUnits, HomeUnits, MaxUnits, MaxTurns, Neutral, Pass, Fault,
          Member, Count, MaxLists, MaxChanges, MaxGuests,            \* ForkniteServer
          Person, Window, First, MaxPeople, MaxEvents,               \* Tracking
          MaxReloads, MaxVisits                                      \* LocalNode

VARIABLES scene,
          owner, units, faults, turn, over,
          room, lists, seats, keys, native, timer, storm, began, changes, guests,
          disk, mine, looks, missed, at, roster, poll, sight, told, events,
          marker, node, owners, child, win, visits

Nobody == [people |-> {}, muted |-> {}, ruled |-> {}, scope |-> "all"]

\* Three armies around a hill, the smallest board on which a battle has three
\* sides, and three different bots.
StarNeighbors == [c \in {hill, homeG, homeR, homeK} |->
                     IF c = hill THEN {homeG, homeR, homeK} ELSE {hill}]
StarHome == (grower :> homeG) @@ (raider :> homeR) @@ (keeper :> homeK)
StarGrowth == (grower :> 5) @@ (raider :> 1) @@ (keeper :> 1)
StarAttack == (grower :> 2) @@ (raider :> 5) @@ (keeper :> 3)
StarArmor  == (grower :> 2) @@ (raider :> 3) @@ (keeper :> 5)

Battle == INSTANCE HexWars
Web == INSTANCE ForkniteServer
Local == INSTANCE LocalNode
Track == INSTANCE Tracking
    WITH Kept <- {[Nobody EXCEPT !.ruled = Person, !.scope = "1"], [Nobody EXCEPT !.people = Person]}

ASSUME SceneAssumption == Battle!HexAssumption /\ Web!ForkniteAssumption

battle == <<owner, units, faults, turn, over>>
web == <<room, lists, seats, keys, native, timer, storm, began, changes, guests>>
track == <<disk, mine, looks, missed, at, roster, poll, sight, told, events>>
local == <<marker, node, owners, child, win, visits>>
outside == <<web, track, local>>
all == <<scene, vars, battle, outside>>

Roomed(A) == scene = "rooms" /\ A /\ UNCHANGED <<scene, battle, outside>>
Fought(A) == scene = "battle" /\ A /\ UNCHANGED <<scene, vars, outside>>
Served(A) == scene = "web" /\ A /\ UNCHANGED <<scene, vars, battle, track, local>>
Tracked(A) == scene = "people" /\ A /\ UNCHANGED <<scene, vars, battle, web, local>>
Hosted(A) == scene = "node" /\ A /\ UNCHANGED <<scene, vars, battle, web, track>>

MCInit == /\ scene \in {"rooms", "battle", "web", "people", "node"}
          /\ Init /\ Battle!Init /\ Web!Init /\ Track!Init /\ Local!Init
          \* The other scenes begin in one state.
          /\ scene = "web" \/ room = {CHOOSE m \in Member : TRUE}
          /\ scene = "people" \/ disk.data.people = {}
MCNext == \/ Roomed(Next) \/ Fought(Battle!Next) \/ Served(Web!Next)
          \/ Tracked(Track!Next) \/ Hosted(Local!Next)

\* A window keeps its choices before it asks for the campus.
TracksFirst(w) == Track!Keeps(w) \/ (~ENABLED Track!Keeps(w) /\ Track!Polls(w))

\* The fairness of the five specifications.  A behaviour has one scene, so that
\* one condition serves a process of each of them: one and two are connections,
\* and there is one window besides First.
Leading == \/ Served(Web!Exit) \/ Tracked(TracksFirst(First)) \/ Roomed(Resume(one))
           \/ Hosted(Local!Steps) \/ Fought(Battle!Turn)
Following == \/ \E w \in Window \ {First} : Tracked(TracksFirst(w))
             \/ Roomed(Resume(two))
MCSpec == /\ MCInit /\ [][MCNext]_all /\ WF_all(Leading) /\ WF_all(Following)
          /\ \A p \in Pid \ {one, two} : WF_all(Roomed(Resume(p)))

\* No order or battle leaves a hollow cell (HexWars).
NoHollowCells == Battle!NoHollowCells
\* A contested cell has one winner at most (HexWars); the board of the other
\* scenes never changes.
OneWinner == scene = "battle" => Battle!OneWinner
\* A key opens its own member's seat (ForkniteServer).
KeysFit == Web!KeysFit
\* A tournament is played by those it began with (ForkniteServer).
SameTeam == Web!SameTeam
\* Nobody is announced twice for a seat, unless the window let go of them (Tracking).
NewsIsNews == Track!NewsIsNews
\* Whatever is waited for comes, in every scene: ended connections are
\* unregistered, a match ends whatever its bots do, a round that was stopped
\* ends, windows come to know the choices of the others and who moved, and a
\* node lives as long as an owner does and no longer than its generation.
Settles == []<>(/\ scene = "rooms" => \A p \in clients : p \in open
                /\ scene = "battle" => over
                /\ scene = "web" => Web!Stopped
                /\ scene = "people" => Track!KeptUp
                /\ scene = "node" => Local!Cared)
=============================================================================
