----------------------------- MODULE LobbyRooms -----------------------------
(***************************************************************************)
(* The game rooms of a LAN42 lobby (campus_lan/server.py, class Lobby).    *)
(*                                                                         *)
(* Every connection is served by one asyncio task running Lobby.handle.    *)
(* Tasks interleave only where they await, so an action here is the code   *)
(* between two awaits, and frame[p] says at which await the task of        *)
(* connection p is suspended and what it does when the await returns.      *)
(*                                                                         *)
(* Ids are never reused (sequence and room_sequence only grow), so a fresh *)
(* id is any unused member of Pid or Rid.  A room object outlives its      *)
(* entry in Lobby.rooms when a suspended task still refers to it: rooms[r] *)
(* is the object and live is the set of keys of Lobby.rooms.               *)
(***************************************************************************)
EXTENDS Naturals, FiniteSets

CONSTANTS Pid,          \* connection ids handed out by Lobby.sequence
          Rid,          \* room ids handed out by Lobby.room_sequence
          AccountOf,    \* [Pid -> name and role the connection says hello with]
          Games,        \* games that the players of the instance open
          MaxClients,   \* 32 in the code
          MaxRooms,     \* 10 in the code
          HexSeats,     \* 6 in the code
          NoPid, NoRid

ASSUME LobbyAssumption ==
    /\ Games # {}
    /\ Games \subseteq {"tetris", "bluff", "hexwars", "forknite"}
    /\ MaxClients \in Nat /\ MaxRooms \in Nat /\ HexSeats \in Nat
    /\ NoPid \notin Pid /\ NoRid \notin Rid

VARIABLES clients,  \* keys of Lobby.clients
          open,     \* connections whose reader has not seen end of file
          rooms,    \* [Rid -> Room]
          live,     \* keys of Lobby.rooms
          frame     \* [Pid -> Frame]

vars == <<clients, open, rooms, live, frame>>

Room == [game : Games, host : Pid \cup {NoPid}, members : SUBSET Pid,
         engine : {"none", "running", "over"},
         players : SUBSET Pid, bots : SUBSET Pid, practice : BOOLEAN]

\* What leave() returns to: the rest of /leave, /game, /join, or of the finally clause.
Then == {"leave", "host", "join", "bye"}

Frame == [at : {"new", "idle", "creating", "closing", "notify", "status", "left",
                "show", "warn", "upload", "gone", "ghost"},
          then : Then, room : Rid \cup {NoRid}, arg : Rid \cup {NoRid}, game : Games]

Blank == [game |-> CHOOSE g \in Games : TRUE, host |-> NoPid, members |-> {},
          engine |-> "none", players |-> {}, bots |-> {}, practice |-> FALSE]

\* A task with no command in hand; its locals are dead.
Rest(label) == [at |-> label, then |-> "leave", room |-> NoRid, arg |-> NoRid,
                game |-> Blank.game]

At(p, label) == frame[p].at = label
Idle(p) == frame' = [frame EXCEPT ![p] = Rest("idle")]
Go(p, label) == frame' = [frame EXCEPT ![p].at = label]
GoAt(p, label, r) == frame' = [frame EXCEPT ![p].at = label, ![p].room = r]

\* room_for: the rooms (at most one) whose member set contains p.
RoomsOf(p) == {r \in live : p \in rooms[r].members}

Running(r) == rooms[r].engine = "running"
Taken(r) == Cardinality(rooms[r].members) + (IF rooms[r].practice THEN 1 ELSE 0)
HexJoinable(r) == rooms[r].game = "hexwars" => ~Running(r) /\ Taken(r) < HexSeats
-----------------------------------------------------------------------------
Init == /\ clients = {} /\ open = {} /\ live = {}
        /\ rooms = [r \in Rid |-> Blank]
        /\ frame = [p \in Pid |-> Rest("new")]

\* The handshake part of handle(): admission check and registration, no await between.
Connect(p) ==
    /\ At(p, "new")
    /\ Cardinality(clients) < MaxClients
    /\ \A q \in clients : AccountOf[q] # AccountOf[p]
    /\ clients' = clients \cup {p}
    /\ open' = open \cup {p}
    /\ Idle(p)
    /\ UNCHANGED <<rooms, live>>

\* The peer hangs up, its sign-in expires or its writer is closed.
Drop(p) == /\ p \in open
           /\ open' = open \ {p}
           /\ UNCHANGED <<clients, rooms, live, frame>>
-----------------------------------------------------------------------------
\* Mutant: leave() forgets to pass the host's chair on.
VacatedHostStays(r, p, h, e) ==
    [rooms[r] EXCEPT !.members = @ \ {p}, !.bots = @ \ {p}, !.engine = e,
                     !.players = IF rooms[r].game = "hexwars" THEN @ \ {p} ELSE @]

\* The room after p left it while others stay: a hexwars player forfeits, and the
\* host's chair passes to one of them.
Vacated(r, p, h, e) ==
    [rooms[r] EXCEPT !.members = @ \ {p}, !.bots = @ \ {p}, !.host = h, !.engine = e,
                     !.players = IF rooms[r].game = "hexwars" THEN @ \ {p} ELSE @]

\* Engine state after p's forfeit: the match may end, and must when one army is left.
AfterForfeit(r, p) ==
    IF rooms[r].game = "hexwars" /\ Running(r)
    THEN {"over"} \cup
         (IF Cardinality(rooms[r].players \ {p}) + (IF rooms[r].practice THEN 1 ELSE 0) > 1
          THEN {"running"} ELSE {})
    ELSE {rooms[r].engine}

\* `del self.rooms[rid]`: of the object nothing is read again but its players.
Remove(r, members) ==
    /\ live' = live \ {r}
    /\ rooms' = [rooms EXCEPT ![r] = [Blank EXCEPT !.host = rooms[r].host, !.members = members]]

\* leave(p) up to its first await; f is p's frame without the new label and room.
Leave(p, f) ==
    \/ /\ RoomsOf(p) = {}
       /\ frame' = [frame EXCEPT ![p] = [f EXCEPT !.at = "left", !.room = NoRid]]
       /\ UNCHANGED <<rooms, live>>
    \/ \E r \in RoomsOf(p), e \in {"none", "running", "over"} :
       /\ e \in AfterForfeit(r, p)
       /\ \/ /\ rooms[r].members = {p}
             /\ \/ /\ rooms[r].game = "forknite"
                   /\ rooms' = [rooms EXCEPT ![r] = Vacated(r, p, @.host, e)]
                   /\ frame' = [frame EXCEPT ![p] = [f EXCEPT !.at = "closing", !.room = r]]
                   /\ live' = live
                \/ /\ rooms[r].game # "forknite"
                   /\ Remove(r, {})
                   /\ frame' = [frame EXCEPT ![p] = [f EXCEPT !.at = "left", !.room = NoRid]]
          \/ \E h \in Pid \cup {NoPid} :
             /\ rooms[r].members # {p}
             /\ IF rooms[r].host = p THEN h \in rooms[r].members \ {p} ELSE h = rooms[r].host
             /\ rooms' = [rooms EXCEPT ![r] = Vacated(r, p, h, e)]
             /\ frame' = [frame EXCEPT ![p] = [f EXCEPT !.at = "notify", !.room = r]]
             /\ live' = live

\* leave(p) on behalf of the finally clause of handle().
LeaveForGood(p) == Leave(p, [Rest("left") EXCEPT !.then = "bye"])

\* An exception that handle() does not turn into a reply: nothing more is read, and the
\* finally clause runs leave(p) again.  When the exception comes from that very call the
\* entry in clients is never deleted.
Escape(p) ==
    /\ open' = open \ {p}
    /\ IF frame[p].then = "bye"
       THEN frame' = [frame EXCEPT ![p] = Rest("ghost")] /\ UNCHANGED <<rooms, live>>
       ELSE LeaveForGood(p)

\* `del self.rooms[rid]` after ForkniteRoom.close(); KeyError when it is already gone.
Closed(p) ==
    /\ At(p, "closing")
    /\ \/ /\ frame[p].room \in live
          /\ Remove(frame[p].room, rooms[frame[p].room].members)
          /\ GoAt(p, "left", NoRid)
          /\ UNCHANGED open
       \/ frame[p].room \notin live /\ Escape(p)
    /\ UNCHANGED clients

\* The "A player left" event is out; room_state() asks a forknite room for its status.
Notified(p) ==
    /\ At(p, "notify")
    /\ IF frame[p].room \in live /\ rooms[frame[p].room].game = "forknite"
       THEN Go(p, "status") ELSE GoAt(p, "left", NoRid)
    /\ UNCHANGED <<clients, open, rooms, live>>

\* The status request of room_state() inside leave(): answered, refused, or failed.
Status(p) ==
    /\ At(p, "status")
    /\ \/ GoAt(p, "left", NoRid) /\ UNCHANGED <<open, rooms, live>>
       \/ frame[p].then # "bye" /\ Idle(p) /\ UNCHANGED <<open, rooms, live>>
       \/ Escape(p)
    /\ UNCHANGED clients
-----------------------------------------------------------------------------
\* /leave
CmdLeave(p) == /\ At(p, "idle")
               /\ Leave(p, [frame[p] EXCEPT !.then = "leave"])
               /\ UNCHANGED <<clients, open>>

LeftLeave(p) == /\ At(p, "left") /\ frame[p].then = "leave"
                /\ Idle(p)
                /\ UNCHANGED <<clients, open, rooms, live>>

\* Bound of the instance: a room id is left for every /game under way.
Fresh == {r \in Rid : rooms[r].host = NoPid}
Hosting == {p \in Pid : frame[p].then = "host" /\ frame[p].at # "show"}

\* /game NAME: the room limit is read here; forknite then starts its web process.
CmdHost(p, g) ==
    /\ At(p, "idle")
    /\ Cardinality(live) < MaxRooms
    /\ Cardinality(Hosting) < Cardinality(Fresh)
    /\ LET f == [frame[p] EXCEPT !.then = "host", !.game = g]
       IN IF g = "forknite"
          THEN /\ frame' = [frame EXCEPT ![p] = [f EXCEPT !.at = "creating"]]
               /\ UNCHANGED <<rooms, live>>
          ELSE Leave(p, f)
    /\ UNCHANGED <<clients, open>>

\* Mutant: /game does not leave the room its host sits in.
CreatedStaying(p) == /\ At(p, "creating")
                     /\ GoAt(p, "left", NoRid)
                     /\ UNCHANGED <<clients, open, rooms, live>>

\* ForkniteRoom.create() returns, raises ValueError (a reply), or fails for good.
Created(p) ==
    /\ At(p, "creating")
    /\ \/ Leave(p, frame[p]) /\ open' = open
       \/ Idle(p) /\ UNCHANGED <<open, rooms, live>>
       \/ Escape(p)
    /\ UNCHANGED clients

\* The old room is left: the new one is entered in Lobby.rooms.
LeftHost(p) ==
    /\ At(p, "left") /\ frame[p].then = "host"
    /\ \E r \in Fresh :
       /\ rooms' = [rooms EXCEPT ![r] = [Blank EXCEPT !.game = frame[p].game,
                                         !.host = p, !.members = {p}]]
       /\ live' = live \cup {r}
       /\ GoAt(p, "show", r)
    /\ UNCHANGED <<clients, open>>

\* /join RID, up to the first await of leave().
CmdJoin(p, r) ==
    /\ At(p, "idle")
    /\ r \in live /\ r \notin RoomsOf(p)
    /\ rooms[r].game = "bluff" => ~Running(r)
    /\ HexJoinable(r)
    /\ Leave(p, [frame[p] EXCEPT !.then = "join", !.arg = r])
    /\ UNCHANGED <<clients, open>>

\* Mutant: /join trusts the check it made before leave() yielded.
LeftJoinUnchecked(p) ==
    /\ At(p, "left") /\ frame[p].then = "join"
    /\ LET r == frame[p].arg
       IN IF r \in live
          THEN rooms' = [rooms EXCEPT ![r].members = @ \cup {p}] /\ GoAt(p, "show", r)
          ELSE rooms' = rooms /\ Idle(p)
    /\ UNCHANGED <<clients, open, live>>

\* The rest of /join: leave() yielded, so the room and its seats are checked again.
LeftJoin(p) ==
    /\ At(p, "left") /\ frame[p].then = "join"
    /\ LET r == frame[p].arg
       IN IF r \in live /\ HexJoinable(r)
          THEN rooms' = [rooms EXCEPT ![r].members = @ \cup {p}] /\ GoAt(p, "show", r)
          ELSE rooms' = rooms /\ Idle(p)
    /\ UNCHANGED <<clients, open, live>>

\* room_state() after /game or /join: the status of a forknite room may fail as above.
Shown(p) ==
    /\ At(p, "show")
    /\ \/ Idle(p) /\ UNCHANGED <<open, rooms, live>>
       \/ /\ frame[p].room \in live /\ rooms[frame[p].room].game = "forknite"
          /\ Escape(p)
    /\ UNCHANGED clients
-----------------------------------------------------------------------------
\* The synchronous end of /start: an engine for the members of that moment.
Begin(r) == rooms' = [rooms EXCEPT ![r].engine = "running", ![r].players = rooms[r].members]

\* /start by the room's host.  With exactly two bluff players an advice event is awaited.
CmdStart(p) ==
    /\ At(p, "idle")
    /\ \E r \in RoomsOf(p) :
       /\ rooms[r].host = p /\ ~Running(r)
       /\ \/ rooms[r].game = "tetris" /\ Begin(r) /\ UNCHANGED frame
          \/ /\ rooms[r].game = "hexwars" /\ rooms[r].members \subseteq rooms[r].bots
             /\ Taken(r) \in 2..HexSeats
             /\ Begin(r) /\ UNCHANGED frame
          \/ /\ rooms[r].game = "bluff" /\ Cardinality(rooms[r].members) > 2
             /\ Begin(r) /\ UNCHANGED frame
          \/ /\ rooms[r].game = "bluff" /\ Cardinality(rooms[r].members) = 2
             /\ GoAt(p, "warn", r) /\ UNCHANGED rooms
    /\ UNCHANGED <<clients, open, live>>

Warned(p) == /\ At(p, "warn")
             /\ Begin(frame[p].room)
             /\ Idle(p)
             /\ UNCHANGED <<clients, open, live>>

\* tick(), hex_turn(), moves and votes bring a running game to its end.
EngineOver(r) == /\ r \in live /\ Running(r)
                 /\ rooms' = [rooms EXCEPT ![r].engine = "over"]
                 /\ UNCHANGED <<clients, open, live, frame>>

HexWaiting(r) == rooms[r].game = "hexwars" /\ ~Running(r)

\* /bot demo
CmdBot(p) == /\ At(p, "idle")
             /\ \E r \in RoomsOf(p) :
                HexWaiting(r) /\ rooms' = [rooms EXCEPT ![r].bots = @ \cup {p}]
             /\ UNCHANGED <<clients, open, live, frame>>

\* /practice
CmdPractice(p) ==
    /\ At(p, "idle")
    /\ \E r \in RoomsOf(p) :
       /\ HexWaiting(r) /\ rooms[r].host = p
       /\ rooms[r].practice \/ Cardinality(rooms[r].members) < HexSeats
       /\ rooms' = [rooms EXCEPT ![r].practice = ~@]
    /\ UNCHANGED <<clients, open, live, frame>>

\* upload_bot(): the module is compiled in a thread, then the room is checked again.
CmdUpload(p) == /\ At(p, "idle")
                /\ \E r \in RoomsOf(p) : HexWaiting(r) /\ GoAt(p, "upload", r)
                /\ UNCHANGED <<clients, open, rooms, live>>

Uploaded(p) ==
    /\ At(p, "upload")
    /\ LET r == frame[p].room
       IN rooms' = IF r \in live /\ p \in rooms[r].members /\ HexWaiting(r)
                   THEN [rooms EXCEPT ![r].bots = @ \cup {p}] ELSE rooms
    /\ Idle(p)
    /\ UNCHANGED <<clients, open, live>>
-----------------------------------------------------------------------------
\* Mutant: the finally clause unregisters without leaving the room.
ByeStaying(p) == /\ At(p, "idle") /\ p \notin open
                 /\ frame' = [frame EXCEPT ![p] = [Rest("left") EXCEPT !.then = "bye"]]
                 /\ UNCHANGED <<clients, open, rooms, live>>

\* End of file: the finally clause of handle() up to the first await of leave().
Bye(p) == /\ At(p, "idle") /\ p \notin open
          /\ LeaveForGood(p)
          /\ UNCHANGED <<clients, open>>

\* Mutant: the finally clause leaves the room and stays registered.
LeftByeRegistered(p) == /\ At(p, "left") /\ frame[p].then = "bye"
                        /\ frame' = [frame EXCEPT ![p] = Rest("gone")]
                        /\ UNCHANGED <<clients, open, rooms, live>>

\* `del self.clients[pid]`
LeftBye(p) == /\ At(p, "left") /\ frame[p].then = "bye"
              /\ clients' = clients \ {p}
              /\ frame' = [frame EXCEPT ![p] = Rest("gone")]
              /\ UNCHANGED <<open, rooms, live>>
-----------------------------------------------------------------------------
\* A line the client sent is read by an idle task.
Command(p) == /\ p \in open
              /\ \/ CmdLeave(p) \/ CmdStart(p) \/ CmdBot(p) \/ CmdPractice(p) \/ CmdUpload(p)
                 \/ \E g \in Games : CmdHost(p, g)
                 \/ \E r \in Rid : CmdJoin(p, r)

\* A suspended task of p goes on: what the event loop does of its own accord.
Resume(p) == \/ Closed(p) \/ Notified(p) \/ Status(p) \/ Created(p) \/ Shown(p)
             \/ LeftLeave(p) \/ LeftHost(p) \/ LeftJoin(p) \/ LeftBye(p)
             \/ Warned(p) \/ Uploaded(p) \/ Bye(p)

Next == \/ \E p \in Pid : Connect(p) \/ Drop(p) \/ Command(p) \/ Resume(p)
        \/ \E r \in Rid : EngineOver(r)

Spec == Init /\ [][Next]_vars

\* Every await of handle() is bounded: two-second drains, three-second control requests,
\* a five-second wait before the web process is killed.
FairSpec == Spec /\ \A p \in Pid : WF_vars(Resume(p))
-----------------------------------------------------------------------------
\* Every variable has the shape the dictionaries of Lobby give it.
TypeOK == /\ clients \subseteq Pid /\ open \subseteq Pid /\ live \subseteq Rid
          /\ rooms \in [Rid -> Room]
          /\ frame \in [Pid -> Frame]

\* A connection sits in at most one room, however its /game, /join and /leave interleave
\* with those of others (leave(), line 179, is awaited before a seat is taken).
OneRoomEach == \A p \in Pid, q, r \in live :
                  p \in rooms[q].members /\ p \in rooms[r].members => q = r

\* room_state() and local_rooms() look members up in clients: whoever sits in a room is
\* still registered, and its task has not ended.
MembersAreServed == \A r \in live : \A p \in rooms[r].members :
                       p \in clients /\ frame[p].at \notin {"new", "gone", "ghost"}

Closing(r) == \E p \in Pid : At(p, "closing") /\ frame[p].room = r

\* Outside the window in which the last player's leave() awaits the web process, an
\* advertised room has players and one of them is its host, so somebody can /start.
HostLeads == \A r \in live : Closing(r) \/ rooms[r].host \in rooms[r].members

\* A Hex Wars room never exceeds its six seats, the practice bot included, although
\* /join awaits leave() between its check and the seat.
HexSeatsHeld == \A r \in live : rooms[r].game = "hexwars" =>
                    Taken(r) <= HexSeats

\* During a Hex Wars match every member is one of the players it was started with.
HexMatchClosed == \A r \in live : rooms[r].game = "hexwars" /\ Running(r) =>
                     rooms[r].members \subseteq rooms[r].players

\* Whatever the handlers interleave, players see the rooms RoomDirectory describes: each
\* step of the server is one change of the directory or none (rooms without a web process).
SeatOf(p) == IF RoomsOf(p) = {} THEN NoRid ELSE CHOOSE r \in RoomsOf(p) : TRUE
ChairOf(r) == IF r \in live /\ rooms[r].members # {} THEN rooms[r].host ELSE NoPid

Directory == INSTANCE RoomDirectory WITH seat <- [p \in Pid |-> SeatOf(p)],
                                         chair <- [r \in Rid |-> ChairOf(r)]

KeepsDirectory == Directory!Spec

\* A connection that ended is eventually unregistered, and its name free again.
Unregistered == \A p \in Pid : (p \in clients /\ p \notin open) ~> p \notin clients
-----------------------------------------------------------------------------
\* /join answers "Round running. Join after the reveal.": nobody enters a running round.
BluffRoundClosed == \A r \in live : rooms[r].game = "bluff" /\ Running(r) =>
                       rooms[r].members \subseteq rooms[r].players
=============================================================================
