-------------------------- MODULE LobbyRoomsProofs --------------------------
(***************************************************************************)
(* Proofs about LobbyRooms for any number of connections and rooms.        *)
(*                                                                         *)
(* The room properties are not inductive by themselves: that a seat is     *)
(* taken by somebody without one follows from where leave() has got to,    *)
(* so the invariant also says what a suspended task may still hold.        *)
(***************************************************************************)
EXTENDS LobbyRooms, FiniteSetTheorems, TLAPS

\* Tasks that are past the synchronous part of leave().
Leaving == {"closing", "notify", "status", "left"}

\* Past leave() a connection has no seat.
MoversAreSeatless == \A p \in Pid, r \in live :
                        frame[p].at \in Leaving => p \notin rooms[r].members

\* A task that runs serves a registered connection.
TasksAreRegistered == \A p \in Pid : frame[p].at \notin {"new", "gone"} => p \in clients

\* The host of an open room was a connection once (its id marks the room as used).
HostsAreKnown == \A r \in live : rooms[r].host # NoPid

\* Only leave() runs on behalf of the finally clause.
ByeOnlyLeaves == \A p \in Pid : frame[p].then = "bye" => frame[p].at \in Leaving

Inv == /\ TypeOK /\ OneRoomEach /\ MembersAreServed /\ HostLeads /\ HexMatchClosed
       /\ MoversAreSeatless /\ TasksAreRegistered /\ HostsAreKnown /\ ByeOnlyLeaves

-----------------------------------------------------------------------------
LEMMA BlankType == Blank \in Room /\ Blank.game \in Games
BY LobbyAssumption DEF Blank, Room

LEMMA RestType == ASSUME NEW l \in {"new", "idle", "left", "gone", "ghost"}
                  PROVE  Rest(l) \in Frame /\ Rest(l).at = l
BY BlankType DEF Rest, Frame, Then

LEMMA FrameUpdate ==
    ASSUME TypeOK, NEW p \in Pid, NEW f \in Frame, NEW l \in Leaving, NEW r \in Rid \cup {NoRid},
           frame' = [frame EXCEPT ![p] = [f EXCEPT !.at = l, !.room = r]]
    PROVE  /\ frame' \in [Pid -> Frame] /\ frame'[p].at = l /\ frame'[p].room = r
           /\ \A q \in Pid \ {p} : frame'[q] = frame[q]
<1> DEFINE g == [f EXCEPT !.at = l, !.room = r]
<1>1. g \in Frame /\ g.at = l /\ g.room = r
  BY DEF Frame, Leaving
<1>2. frame' = [frame EXCEPT ![p] = g]
  OBVIOUS
<1> HIDE DEF g
<1> QED BY <1>1, <1>2 DEF TypeOK

\* What every branch of leave() has in common is enough for the invariant: p gives up
\* its seat, nobody else's changes, and the rooms that stay keep a host.
LEMMA Departure ==
    ASSUME Inv, NEW p \in Pid, TypeOK', clients' = clients,
           frame[p].at \notin {"new", "gone", "ghost"},
           frame'[p].at \in Leaving,
           \A q \in Pid \ {p} : frame'[q] = frame[q],
           live' \subseteq live,
           \A r \in live' : rooms'[r].members = rooms[r].members \ {p} /\ rooms'[r].host # NoPid,
           HostLeads', HexMatchClosed'
    PROVE  Inv'
<1>1. OneRoomEach'
  BY DEF Inv, OneRoomEach
<1>2. MembersAreServed'
  BY DEF Inv, MembersAreServed, TypeOK, Room
<1>3. MoversAreSeatless' /\ TasksAreRegistered' /\ HostsAreKnown' /\ ByeOnlyLeaves'
  BY DEF Inv, MoversAreSeatless, TasksAreRegistered, HostsAreKnown, ByeOnlyLeaves, Leaving
<1> QED BY <1>1, <1>2, <1>3 DEF Inv

\* The synchronous part of leave() keeps the invariant.
LEMMA LeaveInv ==
    ASSUME Inv, NEW p \in Pid, NEW f \in Frame, Leave(p, f),
           frame[p].at \notin {"new", "gone", "ghost"},
           frame[p].at = "closing" => frame[p].room \notin live,
           clients' = clients, open' \subseteq Pid
    PROVE  Inv'
<1> USE DEF Inv
<1>0. f \in Frame /\ NoRid \in Rid \cup {NoRid}
  OBVIOUS
\* A room being closed by q # p is closed by q afterwards too.
<1>c. ASSUME \A q \in Pid \ {p} : frame'[q] = frame[q], NEW r \in live, Closing(r)
      PROVE  Closing(r)'
  BY <1>c DEF Closing, At
<1>1. CASE /\ RoomsOf(p) = {}
           /\ frame' = [frame EXCEPT ![p] = [f EXCEPT !.at = "left", !.room = NoRid]]
           /\ UNCHANGED <<rooms, live>>
  <2>1. frame' \in [Pid -> Frame] /\ frame'[p].at = "left"
        /\ \A q \in Pid \ {p} : frame'[q] = frame[q]
    BY <1>1, FrameUpdate, "left" \in Leaving DEF Leaving
  <2>2. TypeOK'
    BY <1>1, <2>1 DEF TypeOK
  <2>3. \A r \in live' : rooms'[r].members = rooms[r].members \ {p} /\ rooms'[r].host # NoPid
    BY <1>1 DEF RoomsOf, HostsAreKnown, TypeOK, Room
  <2>4. HostLeads'
    BY <1>1, <1>c, <2>1 DEF HostLeads
  <2>5. HexMatchClosed'
    BY <1>1 DEF HexMatchClosed, Running
  <2> QED BY <1>1, <2>1, <2>2, <2>3, <2>4, <2>5, Departure DEF Leaving
<1>2. ASSUME NEW r \in RoomsOf(p), NEW e \in {"none", "running", "over"},
             rooms[r].members = {p},
             rooms' = [rooms EXCEPT ![r] = Vacated(r, p, rooms[r].host, e)],
             frame' = [frame EXCEPT ![p] = [f EXCEPT !.at = "closing", !.room = r]],
             live' = live
      PROVE  Inv'
  <2>0. r \in Rid /\ r \in live /\ rooms[r] \in Room
    BY DEF RoomsOf, TypeOK
  <2>v. /\ Vacated(r, p, rooms[r].host, e) \in Room
        /\ Vacated(r, p, rooms[r].host, e).members = {}
        /\ Vacated(r, p, rooms[r].host, e).host = rooms[r].host
    BY <1>2, <2>0 DEF Vacated, Room
  <2>1. /\ frame' \in [Pid -> Frame] /\ frame'[p].at = "closing" /\ frame'[p].room = r
        /\ \A q \in Pid \ {p} : frame'[q] = frame[q]
    BY <1>2, <2>0, FrameUpdate, "closing" \in Leaving DEF Leaving
  <2>2. TypeOK'
    BY <1>2, <2>0, <2>1, <2>v DEF TypeOK
  <2>r. \A q \in live : q # r => rooms'[q] = rooms[q] /\ p \notin rooms[q].members
    BY <1>2, <2>0 DEF OneRoomEach, TypeOK
  <2>r2. rooms'[r] = Vacated(r, p, rooms[r].host, e)
    BY <1>2, <2>0 DEF TypeOK
  <2>3. \A q \in live' : rooms'[q].members = rooms[q].members \ {p} /\ rooms'[q].host # NoPid
    BY <1>2, <2>0, <2>v, <2>r, <2>r2 DEF HostsAreKnown, TypeOK, Room
  <2>4. HostLeads'
    BY <1>2, <1>c, <2>1, <2>r DEF HostLeads, Closing, At
  <2>5. HexMatchClosed'
    BY <1>2, <2>v, <2>r, <2>r2 DEF HexMatchClosed, Running
  <2> QED BY <1>2, <2>1, <2>2, <2>3, <2>4, <2>5, Departure DEF Leaving
<1>3. ASSUME NEW r \in RoomsOf(p), Remove(r, {}), rooms[r].members = {p},
             frame' = [frame EXCEPT ![p] = [f EXCEPT !.at = "left", !.room = NoRid]]
      PROVE  Inv'
  <2>0. r \in Rid /\ r \in live /\ rooms[r] \in Room
    BY DEF RoomsOf, TypeOK
  <2>v. [Blank EXCEPT !.host = rooms[r].host, !.members = {}] \in Room
    BY <2>0, BlankType DEF Room
  <2>1. /\ frame' \in [Pid -> Frame] /\ frame'[p].at = "left"
        /\ \A q \in Pid \ {p} : frame'[q] = frame[q]
    BY <1>3, <2>0, FrameUpdate, "left" \in Leaving DEF Leaving
  <2>2. TypeOK'
    BY <1>3, <2>0, <2>1, <2>v DEF TypeOK, Remove
  <2>r. \A q \in live' : q \in live /\ rooms'[q] = rooms[q] /\ p \notin rooms[q].members
    BY <1>3, <2>0 DEF OneRoomEach, TypeOK, Remove
  <2>3. \A q \in live' : rooms'[q].members = rooms[q].members \ {p} /\ rooms'[q].host # NoPid
    BY <2>r DEF HostsAreKnown, TypeOK, Room
  <2>4. HostLeads'
    BY <1>c, <2>1, <2>r DEF HostLeads
  <2>5. HexMatchClosed'
    BY <2>r DEF HexMatchClosed, Running
  <2> QED BY <1>3, <2>1, <2>2, <2>3, <2>4, <2>5, <2>r, Departure DEF Leaving
<1>4. ASSUME NEW r \in RoomsOf(p), NEW e \in AfterForfeit(r, p),
             e \in {"none", "running", "over"}, NEW h \in Pid \cup {NoPid},
             rooms[r].members # {p},
             IF rooms[r].host = p THEN h \in rooms[r].members \ {p} ELSE h = rooms[r].host,
             rooms' = [rooms EXCEPT ![r] = Vacated(r, p, h, e)],
             frame' = [frame EXCEPT ![p] = [f EXCEPT !.at = "notify", !.room = r]],
             live' = live
      PROVE  Inv'
  <2>0. r \in Rid /\ r \in live /\ rooms[r] \in Room /\ p \in rooms[r].members
    BY DEF RoomsOf, TypeOK
  <2>v. /\ Vacated(r, p, h, e) \in Room
        /\ Vacated(r, p, h, e).members = rooms[r].members \ {p}
        /\ Vacated(r, p, h, e).host = h
        /\ Vacated(r, p, h, e).game = rooms[r].game
        /\ Vacated(r, p, h, e).engine = e
        /\ rooms[r].game = "hexwars" => Vacated(r, p, h, e).players = rooms[r].players \ {p}
    BY <1>4, <2>0 DEF Vacated, Room
  <2>1. /\ frame' \in [Pid -> Frame] /\ frame'[p].at = "notify"
        /\ \A q \in Pid \ {p} : frame'[q] = frame[q]
    BY <1>4, <2>0, FrameUpdate, "notify" \in Leaving DEF Leaving
  <2>2. TypeOK'
    BY <1>4, <2>0, <2>1, <2>v DEF TypeOK
  <2>r. \A q \in live : q # r => rooms'[q] = rooms[q] /\ p \notin rooms[q].members
    BY <1>4, <2>0 DEF OneRoomEach, TypeOK
  <2>r2. rooms'[r] = Vacated(r, p, h, e)
    BY <1>4, <2>0 DEF TypeOK
  <2>h. h # NoPid
    BY <1>4, <2>0, LobbyAssumption DEF HostsAreKnown, Room
  <2>3. \A q \in live' : rooms'[q].members = rooms[q].members \ {p} /\ rooms'[q].host # NoPid
    BY <1>4, <2>0, <2>v, <2>r, <2>r2, <2>h DEF HostsAreKnown, TypeOK, Room
  <2>4. HostLeads'
    <3>1. ASSUME NEW q \in live', q # r PROVE Closing(q)' \/ rooms'[q].host \in rooms'[q].members
      BY <1>4, <1>c, <2>1, <2>r, <3>1 DEF HostLeads
    <3>2. Closing(r)' \/ rooms'[r].host \in rooms'[r].members
      BY <1>4, <1>c, <2>0, <2>1, <2>v, <2>r2 DEF HostLeads
    <3> QED BY <3>1, <3>2 DEF HostLeads
  <2>5. HexMatchClosed'
    <3>1. rooms[r].game = "hexwars" /\ e = "running" => Running(r)
      BY <1>4 DEF AfterForfeit, Running
    <3> QED BY <1>4, <2>0, <2>v, <2>r, <2>r2, <3>1 DEF HexMatchClosed, Running
  <2> QED BY <1>4, <2>1, <2>2, <2>3, <2>4, <2>5, Departure DEF Leaving
<1> QED BY <1>1, <1>2, <1>3, <1>4 DEF Leave

LEMMA LeaveForGoodInv ==
    ASSUME Inv, NEW p \in Pid, LeaveForGood(p),
           frame[p].at \notin {"new", "gone", "ghost"},
           frame[p].at = "closing" => frame[p].room \notin live,
           clients' = clients, open' \subseteq Pid
    PROVE  Inv'
<1>1. [Rest("left") EXCEPT !.then = "bye"] \in Frame
  BY RestType DEF Frame, Then
<1> QED BY <1>1, LeaveInv DEF LeaveForGood

\* A task that only moves on, without touching a room, keeps the invariant.
LEMMA MovesOn ==
    ASSUME Inv, NEW p \in Pid, UNCHANGED <<clients, rooms, live>>, open' \subseteq Pid,
           frame' \in [Pid -> Frame], \A q \in Pid \ {p} : frame'[q] = frame[q],
           frame[p].at \notin {"new", "gone"}, frame'[p].at \notin {"new", "gone"},
           frame[p].at # "closing",
           \/ frame[p].at \in Leaving
           \/ frame'[p].at \notin Leaving \cup {"ghost"} /\ frame[p].at # "ghost",
           frame'[p].then = "bye" => frame'[p].at \in Leaving
    PROVE  Inv'
<1> USE DEF Inv
<1>1. TypeOK' /\ OneRoomEach' /\ HexMatchClosed' /\ HostsAreKnown'
  BY DEF TypeOK, OneRoomEach, HexMatchClosed, HostsAreKnown, Running
<1>2. MembersAreServed'
  BY DEF MembersAreServed, MoversAreSeatless, TypeOK, Room
<1>3. HostLeads'
  BY DEF HostLeads, Closing, At
<1>4. MoversAreSeatless' /\ TasksAreRegistered' /\ ByeOnlyLeaves'
  BY DEF MoversAreSeatless, TasksAreRegistered, ByeOnlyLeaves, Leaving
<1> QED BY <1>1, <1>2, <1>3, <1>4

\* The same for a task that ends its command.
LEMMA Finishes ==
    ASSUME Inv, NEW p \in Pid, UNCHANGED <<clients, rooms, live>>, open' \subseteq Pid, Idle(p),
           frame[p].at \notin {"new", "gone", "ghost", "closing"}
    PROVE  Inv'
<1>1. frame' \in [Pid -> Frame] /\ (\A q \in Pid \ {p} : frame'[q] = frame[q])
      /\ frame'[p] = Rest("idle")
  BY RestType DEF Idle, Inv, TypeOK
<1>2. frame'[p].at = "idle" /\ frame'[p].then = "leave"
  BY <1>1 DEF Rest
<1> QED BY <1>1, <1>2, MovesOn DEF Leaving

\* An exception keeps it too, whether it starts the finally clause or ends it.
LEMMA EscapeInv ==
    ASSUME Inv, NEW p \in Pid, Escape(p), clients' = clients,
           frame[p].at \notin {"new", "gone", "ghost"},
           frame[p].at = "closing" => frame[p].room \notin live
    PROVE  Inv'
<1>0. open' \subseteq Pid
  BY DEF Escape, Inv, TypeOK
<1>1. CASE frame[p].then # "bye"
  BY <1>0, <1>1, LeaveForGoodInv DEF Escape
<1>2. CASE frame[p].then = "bye"
  <2> USE DEF Inv
  <2>1. frame[p].at \in Leaving
    BY <1>2 DEF ByeOnlyLeaves
  <2>2. UNCHANGED <<clients, rooms, live>>
    BY <1>2 DEF Escape
  <2>3. frame' \in [Pid -> Frame] /\ (\A q \in Pid \ {p} : frame'[q] = frame[q])
        /\ frame'[p].at = "ghost" /\ frame'[p].then = "leave"
    <3>1. frame' = [frame EXCEPT ![p] = Rest("ghost")] /\ Rest("ghost") \in Frame
      BY <1>2, RestType DEF Escape
    <3>2. Rest("ghost").at = "ghost" /\ Rest("ghost").then = "leave"
      BY DEF Rest
    <3> QED BY <3>1, <3>2 DEF TypeOK
  <2>4. TypeOK' /\ OneRoomEach' /\ HexMatchClosed' /\ HostsAreKnown'
    BY <1>0, <2>2, <2>3 DEF TypeOK, OneRoomEach, HexMatchClosed, HostsAreKnown, Running
  <2>5. MembersAreServed'
    BY <2>1, <2>2, <2>3 DEF MembersAreServed, MoversAreSeatless, TypeOK, Room
  <2>6. HostLeads'
    BY <2>2, <2>3 DEF HostLeads, Closing, At
  <2>7. MoversAreSeatless' /\ TasksAreRegistered' /\ ByeOnlyLeaves'
    BY <2>2, <2>3 DEF MoversAreSeatless, TasksAreRegistered, ByeOnlyLeaves, Leaving
  <2> QED BY <2>4, <2>5, <2>6, <2>7
<1> QED BY <1>1, <1>2

\* A room whose seats and host stay as they are keeps it, if a running Hex Wars match
\* still has all its members as players.
LEMMA Adjusts ==
    ASSUME Inv, NEW r \in Rid, NEW x \in Room, rooms' = [rooms EXCEPT ![r] = x],
           x.members = rooms[r].members, x.host = rooms[r].host,
           x.game = "hexwars" /\ x.engine = "running" => x.members \subseteq x.players,
           UNCHANGED <<clients, open, live>>, frame' \in [Pid -> Frame],
           \A q \in Pid : \/ frame'[q] = frame[q]
                          \/ frame[q].at \in {"warn", "upload"} /\ frame'[q] = Rest("idle")
    PROVE  Inv'
<1> USE DEF Inv
<1>r. Rest("idle").at = "idle" /\ Rest("idle").then = "leave"
  BY DEF Rest
<1>1. rooms'[r] = x /\ (\A q \in Rid \ {r} : rooms'[q] = rooms[q]) /\ TypeOK'
  BY DEF TypeOK
<1>2. \A q \in live : rooms'[q].members = rooms[q].members /\ rooms'[q].host = rooms[q].host
  BY <1>1 DEF TypeOK
<1>3. OneRoomEach' /\ MembersAreServed' /\ MoversAreSeatless' /\ HostsAreKnown'
  <2>1. OneRoomEach' /\ HostsAreKnown'
    BY <1>2 DEF OneRoomEach, HostsAreKnown
  <2>2. MembersAreServed'
    BY <1>2, <1>r DEF MembersAreServed, TypeOK, Room
  <2>3. MoversAreSeatless'
    BY <1>2, <1>r DEF MoversAreSeatless, Leaving
  <2> QED BY <2>1, <2>2, <2>3
<1>4. HostLeads' /\ TasksAreRegistered' /\ ByeOnlyLeaves'
  <2>1. \A q \in live : Closing(q) => Closing(q)'
    BY DEF Closing, At
  <2>2. HostLeads'
    BY <1>2, <2>1 DEF HostLeads
  <2>3. TasksAreRegistered' /\ ByeOnlyLeaves'
    BY <1>r DEF TasksAreRegistered, ByeOnlyLeaves
  <2> QED BY <2>2, <2>3
<1>5. HexMatchClosed'
  BY <1>1 DEF HexMatchClosed, Running, TypeOK
<1> QED BY <1>1, <1>3, <1>4, <1>5
-----------------------------------------------------------------------------
LEMMA InitInv == Init => Inv
<1> SUFFICES ASSUME Init PROVE Inv
  OBVIOUS
<1>1. \A p \in Pid : frame[p] = Rest("new") /\ frame[p].at = "new" /\ frame[p].then = "leave"
  BY DEF Init, Rest
<1>2. TypeOK
  BY BlankType, RestType DEF Init, TypeOK
<1>3. ByeOnlyLeaves /\ TasksAreRegistered /\ MoversAreSeatless
  BY <1>1 DEF Init, ByeOnlyLeaves, TasksAreRegistered, MoversAreSeatless
<1> QED BY <1>2, <1>3 DEF Init, Inv, OneRoomEach, MembersAreServed, HostLeads,
                          HexMatchClosed, HostsAreKnown

LEMMA ConnectInv == ASSUME Inv, NEW p \in Pid, Connect(p) PROVE Inv'
<1> USE DEF Inv
<1>1. frame' \in [Pid -> Frame] /\ (\A q \in Pid \ {p} : frame'[q] = frame[q])
      /\ frame'[p].at = "idle" /\ frame'[p].then = "leave" /\ frame[p].at = "new"
  BY RestType DEF Connect, Idle, TypeOK, At, Rest
<1>2. TypeOK' /\ OneRoomEach' /\ HexMatchClosed' /\ HostsAreKnown'
  BY <1>1 DEF Connect, TypeOK, OneRoomEach, HexMatchClosed, HostsAreKnown, Running
<1>3. MembersAreServed'
  BY <1>1 DEF Connect, MembersAreServed, TypeOK, Room
<1>4. HostLeads'
  BY <1>1 DEF Connect, HostLeads, Closing, At
<1>5. MoversAreSeatless' /\ TasksAreRegistered' /\ ByeOnlyLeaves'
  BY <1>1 DEF Connect, MoversAreSeatless, TasksAreRegistered, ByeOnlyLeaves, Leaving
<1> QED BY <1>2, <1>3, <1>4, <1>5

LEMMA DropInv == ASSUME Inv, NEW p \in Pid, Drop(p) PROVE Inv'
BY DEF Drop, Inv, TypeOK, OneRoomEach, MembersAreServed, HostLeads, HexMatchClosed, Closing,
       At, Running, MoversAreSeatless, TasksAreRegistered, HostsAreKnown, ByeOnlyLeaves

LEMMA LeftByeInv == ASSUME Inv, NEW p \in Pid, LeftBye(p) PROVE Inv'
<1> USE DEF Inv
<1>0. Rest("gone") \in Frame /\ Rest("gone").at = "gone" /\ Rest("gone").then = "leave"
  BY RestType DEF Rest
<1>1. frame' \in [Pid -> Frame] /\ (\A q \in Pid \ {p} : frame'[q] = frame[q])
      /\ frame'[p].at = "gone" /\ frame'[p].then = "leave" /\ frame[p].at = "left"
  BY <1>0 DEF LeftBye, TypeOK, At
<1>2. TypeOK' /\ OneRoomEach' /\ HexMatchClosed' /\ HostsAreKnown'
  BY <1>1 DEF LeftBye, TypeOK, OneRoomEach, HexMatchClosed, HostsAreKnown, Running
<1>3. MembersAreServed'
  BY <1>1 DEF LeftBye, MembersAreServed, MoversAreSeatless, Leaving, TypeOK, Room
<1>4. HostLeads'
  BY <1>1 DEF LeftBye, HostLeads, Closing, At
<1>5. MoversAreSeatless' /\ TasksAreRegistered' /\ ByeOnlyLeaves'
  BY <1>1 DEF LeftBye, MoversAreSeatless, TasksAreRegistered, ByeOnlyLeaves, Leaving
<1> QED BY <1>2, <1>3, <1>4, <1>5

\* A task that moves on keeps its continuation.
LEMMA GoType ==
    ASSUME TypeOK, NEW p \in Pid, NEW l \in {"creating", "notify", "status", "left", "show",
                                            "warn", "upload"},
           NEW r \in Rid \cup {NoRid}, GoAt(p, l, r) \/ Go(p, l)
    PROVE  /\ frame' \in [Pid -> Frame] /\ (\A q \in Pid \ {p} : frame'[q] = frame[q])
           /\ frame'[p].at = l /\ frame'[p].then = frame[p].then
<1>1. CASE GoAt(p, l, r) BY <1>1 DEF GoAt, TypeOK, Frame
<1>2. CASE Go(p, l) BY <1>2 DEF Go, TypeOK, Frame
<1> QED BY <1>1, <1>2

\* A seat is added: p had none, and the room stays host-led.
LEMMA LeftHostInv == ASSUME Inv, NEW p \in Pid, LeftHost(p) PROVE Inv'
<1> USE DEF Inv
<1>1. PICK r \in Fresh :
        /\ rooms' = [rooms EXCEPT ![r] = [Blank EXCEPT !.game = frame[p].game,
                                          !.host = p, !.members = {p}]]
        /\ live' = live \cup {r} /\ GoAt(p, "show", r)
  BY DEF LeftHost
<1>2. r \in Rid /\ r \notin live
  BY DEF Fresh, HostsAreKnown
<1> DEFINE x == [Blank EXCEPT !.game = frame[p].game, !.host = p, !.members = {p}]
<1>3. x \in Room /\ x.members = {p} /\ x.host = p /\ x.engine = "none"
  BY BlankType DEF Blank, Room, TypeOK, Frame
<1> HIDE DEF x
<1>4. rooms'[r] = x /\ (\A q \in Rid \ {r} : rooms'[q] = rooms[q])
  BY <1>1, <1>2 DEF TypeOK, x
<1>f. frame[p].at = "left" /\ frame[p].then = "host"
  BY DEF LeftHost, At
<1>5. frame' \in [Pid -> Frame] /\ (\A q \in Pid \ {p} : frame'[q] = frame[q])
      /\ frame'[p].at = "show" /\ frame'[p].then = "host" /\ frame[p].at = "left"
  BY <1>1, <1>2, <1>f, GoType
<1>6. p \in clients /\ (\A q \in live : p \notin rooms[q].members) /\ p # NoPid
  BY <1>5, LobbyAssumption DEF TasksAreRegistered, MoversAreSeatless, Leaving
<1>7. TypeOK'
  BY <1>1, <1>2, <1>3, <1>4, <1>5 DEF TypeOK, LeftHost, x
<1>8. OneRoomEach' /\ MembersAreServed'
  BY <1>1, <1>3, <1>4, <1>5, <1>6 DEF OneRoomEach, MembersAreServed, LeftHost, TypeOK, Room
<1>9. HostLeads'
  BY <1>1, <1>3, <1>4, <1>5 DEF HostLeads, Closing, At, TypeOK
<1>10. HexMatchClosed' /\ HostsAreKnown'
  BY <1>1, <1>3, <1>4, <1>6 DEF HexMatchClosed, HostsAreKnown, Running, TypeOK
<1>11. MoversAreSeatless' /\ TasksAreRegistered' /\ ByeOnlyLeaves'
  BY <1>1, <1>3, <1>4, <1>5 DEF LeftHost, MoversAreSeatless, TasksAreRegistered, ByeOnlyLeaves,
                                Leaving, TypeOK
<1> QED BY <1>7, <1>8, <1>9, <1>10, <1>11

LEMMA LeftJoinInv == ASSUME Inv, NEW p \in Pid, LeftJoin(p) PROVE Inv'
<1> USE DEF Inv
<1> DEFINE r == frame[p].arg
<1>1. CASE r \in live /\ HexJoinable(r)
  <2>1. /\ rooms' = [rooms EXCEPT ![r].members = @ \cup {p}] /\ GoAt(p, "show", r)
        /\ UNCHANGED <<clients, open, live>> /\ frame[p].at = "left" /\ frame[p].then = "join"
        /\ r \in Rid /\ rooms[r] \in Room
    BY <1>1 DEF LeftJoin, TypeOK, At
  <2>2. /\ rooms'[r].members = rooms[r].members \cup {p} /\ rooms'[r].host = rooms[r].host
        /\ rooms'[r].game = rooms[r].game /\ rooms'[r].engine = rooms[r].engine
        /\ \A q \in Rid \ {r} : rooms'[q] = rooms[q]
        /\ rooms'[r] \in Room /\ rooms' \in [Rid -> Room]
    BY <2>1 DEF TypeOK, Room
  <2>3. frame' \in [Pid -> Frame] /\ (\A q \in Pid \ {p} : frame'[q] = frame[q])
        /\ frame'[p].at = "show" /\ frame'[p].then = "join"
    BY <2>1 DEF GoAt, TypeOK, Frame
  <2>4. p \in clients /\ \A q \in live : p \notin rooms[q].members
    BY <2>1 DEF TasksAreRegistered, MoversAreSeatless, Leaving
  <2> HIDE DEF r
  <2>5. TypeOK'
    BY <2>1, <2>2, <2>3 DEF TypeOK
  <2>6. OneRoomEach' /\ MembersAreServed' /\ HostsAreKnown'
    BY <2>1, <2>2, <2>3, <2>4 DEF OneRoomEach, MembersAreServed, HostsAreKnown, TypeOK, Room
  <2>7. HostLeads'
    BY <2>1, <2>2, <2>3 DEF HostLeads, Closing, At, TypeOK
  <2>8. HexMatchClosed'
    BY <1>1, <2>1, <2>2 DEF HexMatchClosed, HexJoinable, Running, TypeOK
  <2>9. MoversAreSeatless' /\ TasksAreRegistered' /\ ByeOnlyLeaves'
    BY <2>1, <2>2, <2>3 DEF MoversAreSeatless, TasksAreRegistered, ByeOnlyLeaves, Leaving, TypeOK
  <2> QED BY <2>5, <2>6, <2>7, <2>8, <2>9
<1>2. CASE ~(r \in live /\ HexJoinable(r))
  BY <1>2, Finishes DEF LeftJoin, At, TypeOK
<1> QED BY <1>1, <1>2

\* `del self.rooms[rid]` after the web process ended.
LEMMA ClosedInv == ASSUME Inv, NEW p \in Pid, Closed(p) PROVE Inv'
<1> USE DEF Inv
<1> DEFINE r == frame[p].room
<1>1. CASE r \in live /\ Remove(r, rooms[r].members) /\ GoAt(p, "left", NoRid) /\ open' = open
  <2>1. r \in Rid /\ rooms[r] \in Room /\ frame[p].at = "closing" /\ clients' = clients
    BY <1>1 DEF Closed, TypeOK, At
  <2>2. [Blank EXCEPT !.host = rooms[r].host, !.members = rooms[r].members] \in Room
    BY <2>1, BlankType DEF Room
  <2>3. live' \subseteq live /\ r \notin live' /\ rooms' \in [Rid -> Room]
        /\ \A q \in live' : rooms'[q] = rooms[q]
    BY <1>1, <2>1, <2>2 DEF Remove, TypeOK
  <2>4. frame' \in [Pid -> Frame] /\ (\A q \in Pid \ {p} : frame'[q] = frame[q])
        /\ frame'[p].at = "left" /\ frame'[p].then = frame[p].then
    BY <1>1 DEF GoAt, TypeOK, Frame
  <2>5. \A q \in live' : Closing(q) => Closing(q)'
    BY <2>3, <2>4 DEF Closing, At
  <2>6. TypeOK' /\ HostLeads' /\ HexMatchClosed'
    BY <1>1, <2>1, <2>3, <2>4, <2>5 DEF TypeOK, HostLeads, HexMatchClosed, Running
  <2>7. \A q \in live' : p \notin rooms[q].members /\ rooms'[q].host # NoPid
    BY <2>1, <2>3 DEF MoversAreSeatless, Leaving, HostsAreKnown
  <2>8. \A q \in live' : rooms'[q].members = rooms[q].members \ {p}
    BY <2>3, <2>7 DEF TypeOK, Room
  <2> QED BY <2>1, <2>3, <2>4, <2>6, <2>7, <2>8, Departure DEF Leaving
<1>2. CASE r \notin live /\ Escape(p)
  BY <1>2, EscapeInv DEF Closed, At
<1> QED BY <1>1, <1>2 DEF Closed

LEMMA NotifiedInv == ASSUME Inv, NEW p \in Pid, Notified(p) PROVE Inv'
<1>1. frame[p].at = "notify" /\ UNCHANGED <<clients, rooms, live>> /\ open' \subseteq Pid
  BY DEF Notified, At, Inv, TypeOK
<1>2. CASE Go(p, "status")
  BY <1>1, <1>2, GoType, MovesOn DEF Inv, Leaving
<1>3. CASE GoAt(p, "left", NoRid)
  BY <1>1, <1>3, GoType, MovesOn DEF Inv, Leaving
<1> QED BY <1>2, <1>3 DEF Notified

LEMMA StatusInv == ASSUME Inv, NEW p \in Pid, Status(p) PROVE Inv'
<1>1. frame[p].at = "status" /\ clients' = clients /\ open \subseteq Pid
  BY DEF Status, At, Inv, TypeOK
<1>2. CASE GoAt(p, "left", NoRid) /\ UNCHANGED <<open, rooms, live>>
  BY <1>1, <1>2, GoType, MovesOn DEF Inv, Leaving
<1>3. CASE Idle(p) /\ UNCHANGED <<open, rooms, live>>
  BY <1>1, <1>3, Finishes
<1>4. CASE Escape(p)
  BY <1>1, <1>4, EscapeInv
<1> QED BY <1>2, <1>3, <1>4 DEF Status

LEMMA ShownInv == ASSUME Inv, NEW p \in Pid, Shown(p) PROVE Inv'
<1>1. frame[p].at = "show" /\ clients' = clients /\ open \subseteq Pid
  BY DEF Shown, At, Inv, TypeOK
<1>2. CASE Idle(p) /\ UNCHANGED <<open, rooms, live>>
  BY <1>1, <1>2, Finishes
<1>3. CASE Escape(p)
  BY <1>1, <1>3, EscapeInv
<1> QED BY <1>2, <1>3 DEF Shown

LEMMA CreatedInv == ASSUME Inv, NEW p \in Pid, Created(p) PROVE Inv'
<1>1. frame[p].at = "creating" /\ clients' = clients /\ open \subseteq Pid /\ frame[p] \in Frame
  BY DEF Created, At, Inv, TypeOK
<1>2. CASE Idle(p) /\ UNCHANGED <<open, rooms, live>>
  BY <1>1, <1>2, Finishes
<1>3. CASE Escape(p)
  BY <1>1, <1>3, EscapeInv
<1>4. CASE Leave(p, frame[p]) /\ open' = open
  BY <1>1, <1>4, LeaveInv
<1> QED BY <1>2, <1>3, <1>4 DEF Created

LEMMA LeftLeaveInv == ASSUME Inv, NEW p \in Pid, LeftLeave(p) PROVE Inv'
BY Finishes DEF LeftLeave, At, Inv, TypeOK

LEMMA ByeInv == ASSUME Inv, NEW p \in Pid, Bye(p) PROVE Inv'
BY LeaveForGoodInv DEF Bye, At, Inv, TypeOK

-----------------------------------------------------------------------------
LEMMA CmdLeaveInv == ASSUME Inv, NEW p \in Pid, CmdLeave(p) PROVE Inv'
<1>1. [frame[p] EXCEPT !.then = "leave"] \in Frame
  BY DEF Inv, TypeOK, Frame, Then
<1> QED BY <1>1, LeaveInv DEF CmdLeave, At, Inv, TypeOK

LEMMA CmdJoinInv == ASSUME Inv, NEW p \in Pid, NEW r \in Rid, CmdJoin(p, r) PROVE Inv'
<1>1. [frame[p] EXCEPT !.then = "join", !.arg = r] \in Frame
  BY DEF Inv, TypeOK, Frame, Then
<1> QED BY <1>1, LeaveInv DEF CmdJoin, At, Inv, TypeOK

LEMMA CmdHostInv == ASSUME Inv, NEW p \in Pid, NEW g \in Games, CmdHost(p, g) PROVE Inv'
<1> DEFINE f == [frame[p] EXCEPT !.then = "host", !.game = g]
           h == [f EXCEPT !.at = "creating"]
<1>1. f \in Frame /\ h \in Frame /\ h.at = "creating" /\ h.then = "host"
  BY DEF Inv, TypeOK, Frame, Then
<1>2. frame[p].at = "idle" /\ UNCHANGED <<clients, open>> /\ open' \subseteq Pid
  BY DEF CmdHost, At, Inv, TypeOK
<1>3. CASE g = "forknite"
  <2>1. frame' = [frame EXCEPT ![p] = h] /\ UNCHANGED <<rooms, live>>
    BY <1>3 DEF CmdHost
  <2> HIDE DEF h
  <2>2. frame' \in [Pid -> Frame] /\ (\A q \in Pid \ {p} : frame'[q] = frame[q])
        /\ frame'[p].at = "creating" /\ frame'[p].then = "host"
    BY <1>1, <2>1 DEF Inv, TypeOK
  <2> QED BY <1>2, <2>1, <2>2, MovesOn DEF Leaving
<1>4. CASE g # "forknite"
  <2>1. Leave(p, f)
    BY <1>4 DEF CmdHost
  <2> HIDE DEF f
  <2> QED BY <1>1, <1>2, <2>1, LeaveInv
<1> QED BY <1>3, <1>4

LEMMA CmdUploadInv == ASSUME Inv, NEW p \in Pid, CmdUpload(p) PROVE Inv'
<1>1. PICK r \in RoomsOf(p) : GoAt(p, "upload", r)
  BY DEF CmdUpload
<1>2. r \in Rid /\ frame[p].at = "idle" /\ UNCHANGED <<clients, rooms, live>> /\ open' \subseteq Pid
  BY DEF CmdUpload, At, RoomsOf, Inv, TypeOK
<1>3. frame[p].then # "bye"
  BY <1>2 DEF Inv, ByeOnlyLeaves, Leaving
<1> QED BY <1>1, <1>2, <1>3, GoType, MovesOn DEF Inv, Leaving

\* Starting an engine, and the other changes of a waiting or running room.
LEMMA BeginInv ==
    ASSUME Inv, NEW r \in Rid, Begin(r), UNCHANGED <<clients, open, live>>,
           frame' \in [Pid -> Frame],
           \A q \in Pid : \/ frame'[q] = frame[q]
                          \/ frame[q].at \in {"warn", "upload"} /\ frame'[q] = Rest("idle")
    PROVE  Inv'
<1> DEFINE x == [rooms[r] EXCEPT !.engine = "running", !.players = rooms[r].members]
<1>1. rooms[r] \in Room
  BY DEF Inv, TypeOK
<1>2. x \in Room /\ x.members = rooms[r].members /\ x.host = rooms[r].host
      /\ x.players = rooms[r].members
  BY <1>1 DEF Room
<1>3. rooms' = [rooms EXCEPT ![r] = x]
  BY DEF Begin
<1> HIDE DEF x
<1> QED BY <1>2, <1>3, Adjusts

LEMMA CmdStartInv == ASSUME Inv, NEW p \in Pid, CmdStart(p) PROVE Inv'
<1>1. PICK r \in RoomsOf(p) : \/ Begin(r) /\ UNCHANGED frame
                              \/ GoAt(p, "warn", r) /\ UNCHANGED rooms
  BY DEF CmdStart
<1>2. r \in Rid /\ frame[p].at = "idle" /\ UNCHANGED <<clients, open, live>> /\ open' \subseteq Pid
  BY DEF CmdStart, At, RoomsOf, Inv, TypeOK
<1>3. CASE Begin(r) /\ UNCHANGED frame
  BY <1>2, <1>3, BeginInv DEF Inv, TypeOK
<1>4. CASE GoAt(p, "warn", r) /\ UNCHANGED rooms
  <2>1. frame[p].then # "bye"
    BY <1>2 DEF Inv, ByeOnlyLeaves, Leaving
  <2> QED BY <1>2, <1>4, <2>1, GoType, MovesOn DEF Inv, Leaving
<1> QED BY <1>1, <1>3, <1>4

LEMMA IdleFrame ==
    ASSUME TypeOK, NEW p \in Pid, Idle(p)
    PROVE  frame' \in [Pid -> Frame] /\ frame'[p] = Rest("idle")
           /\ \A q \in Pid \ {p} : frame'[q] = frame[q]
BY RestType DEF Idle, TypeOK

LEMMA WarnedInv == ASSUME Inv, NEW p \in Pid, Warned(p) PROVE Inv'
<1>1. frame[p].at = "warn" /\ Idle(p) /\ UNCHANGED <<clients, open, live>> /\ Begin(frame[p].room)
      /\ open' \subseteq Pid
  BY DEF Warned, At, Inv, TypeOK
<1>2. CASE frame[p].room \in Rid
  BY <1>1, <1>2, BeginInv, IdleFrame DEF Inv
<1>3. CASE frame[p].room \notin Rid
  <2>1. rooms' = rooms
    BY <1>1, <1>3 DEF Begin, Inv, TypeOK
  <2> QED BY <1>1, <2>1, Finishes
<1> QED BY <1>2, <1>3

LEMMA BotInv ==
    ASSUME Inv, NEW r \in Rid, NEW b \in SUBSET Pid, ~Running(r),
           rooms' = [rooms EXCEPT ![r].bots = b], UNCHANGED <<clients, open, live>>,
           frame' \in [Pid -> Frame],
           \A q \in Pid : \/ frame'[q] = frame[q]
                          \/ frame[q].at \in {"warn", "upload"} /\ frame'[q] = Rest("idle")
    PROVE  Inv'
<1> DEFINE x == [rooms[r] EXCEPT !.bots = b]
<1>1. rooms[r] \in Room
  BY DEF Inv, TypeOK
<1>2. x \in Room /\ x.members = rooms[r].members /\ x.host = rooms[r].host /\ x.engine # "running"
  BY <1>1 DEF Room, Running
<1>3. rooms' = [rooms EXCEPT ![r] = x]
  OBVIOUS
<1> HIDE DEF x
<1> QED BY <1>2, <1>3, Adjusts

LEMMA CmdBotInv == ASSUME Inv, NEW p \in Pid, CmdBot(p) PROVE Inv'
<1>1. PICK r \in RoomsOf(p) : HexWaiting(r) /\ rooms' = [rooms EXCEPT ![r].bots = @ \cup {p}]
  BY DEF CmdBot
<1>2. r \in Rid /\ rooms[r].bots \cup {p} \in SUBSET Pid /\ ~Running(r)
  BY <1>1 DEF RoomsOf, Inv, TypeOK, Room, HexWaiting
<1>3. rooms' = [rooms EXCEPT ![r].bots = rooms[r].bots \cup {p}]
  BY <1>1
<1> QED BY <1>2, <1>3, BotInv DEF CmdBot, Inv, TypeOK

LEMMA UploadedInv == ASSUME Inv, NEW p \in Pid, Uploaded(p) PROVE Inv'
<1> DEFINE r == frame[p].room
<1>1. frame[p].at = "upload" /\ Idle(p) /\ UNCHANGED <<clients, open, live>> /\ open' \subseteq Pid
  BY DEF Uploaded, At, Inv, TypeOK
<1>2. CASE r \in live /\ p \in rooms[r].members /\ HexWaiting(r)
  <2>1. r \in Rid /\ rooms[r].bots \cup {p} \in SUBSET Pid /\ ~Running(r)
    BY <1>2 DEF Inv, TypeOK, Room, HexWaiting
  <2>2. rooms' = [rooms EXCEPT ![r].bots = rooms[r].bots \cup {p}]
    BY <1>2 DEF Uploaded
  <2> QED BY <1>1, <2>1, <2>2, BotInv, IdleFrame DEF Inv
<1>3. CASE ~(r \in live /\ p \in rooms[r].members /\ HexWaiting(r))
  BY <1>1, <1>3, Finishes DEF Uploaded
<1> QED BY <1>2, <1>3

LEMMA CmdPracticeInv == ASSUME Inv, NEW p \in Pid, CmdPractice(p) PROVE Inv'
<1>1. PICK r \in RoomsOf(p) : HexWaiting(r) /\ rooms' = [rooms EXCEPT ![r].practice = ~@]
  BY DEF CmdPractice
<1> DEFINE x == [rooms[r] EXCEPT !.practice = ~rooms[r].practice]
<1>2. r \in Rid /\ rooms[r] \in Room /\ rooms[r].engine # "running"
  BY <1>1 DEF RoomsOf, Inv, TypeOK, HexWaiting, Running
<1>3. x \in Room /\ x.members = rooms[r].members /\ x.host = rooms[r].host /\ x.engine # "running"
  BY <1>2 DEF Room
<1>4. rooms' = [rooms EXCEPT ![r] = x]
  BY <1>1
<1> HIDE DEF x
<1> QED BY <1>2, <1>3, <1>4, Adjusts DEF CmdPractice, Inv, TypeOK

LEMMA EngineOverInv == ASSUME Inv, NEW r \in Rid, EngineOver(r) PROVE Inv'
<1> DEFINE x == [rooms[r] EXCEPT !.engine = "over"]
<1>1. x \in Room /\ x.members = rooms[r].members /\ x.host = rooms[r].host /\ x.engine # "running"
  BY DEF Inv, TypeOK, Room
<1>2. rooms' = [rooms EXCEPT ![r] = x]
  BY DEF EngineOver
<1> HIDE DEF x
<1> QED BY <1>1, <1>2, Adjusts DEF EngineOver, Inv, TypeOK
-----------------------------------------------------------------------------
LEMMA NextInv == Inv /\ [Next]_vars => Inv'
<1> SUFFICES ASSUME Inv, [Next]_vars PROVE Inv'
  OBVIOUS
<1>1. ASSUME NEW p \in Pid, Command(p) PROVE Inv'
  BY <1>1, CmdLeaveInv, CmdStartInv, CmdBotInv, CmdPracticeInv, CmdUploadInv, CmdHostInv,
     CmdJoinInv DEF Command
<1>2. ASSUME NEW p \in Pid, Resume(p) PROVE Inv'
  BY <1>2, ClosedInv, NotifiedInv, StatusInv, CreatedInv, ShownInv, LeftLeaveInv, LeftHostInv,
     LeftJoinInv, LeftByeInv, WarnedInv, UploadedInv, ByeInv DEF Resume
<1>3. CASE UNCHANGED vars
  BY <1>3 DEF vars, Inv, TypeOK, OneRoomEach, MembersAreServed, HostLeads, HexMatchClosed,
     Closing, At, Running, MoversAreSeatless, TasksAreRegistered, HostsAreKnown, ByeOnlyLeaves
<1> QED BY <1>1, <1>2, <1>3, ConnectInv, DropInv, EngineOverInv DEF Next

THEOREM Invariance == Spec => []Inv
<1>1. Init => Inv
  BY InitInv
<1>2. Inv /\ [Next]_vars => Inv'
  BY NextInv
<1> QED BY <1>1, <1>2, PTL DEF Spec

\* The state of the lobby keeps its shape whatever its clients do.
THEOREM TypeCorrect == Spec => []TypeOK
BY Invariance, PTL DEF Inv

\* No interleaving of /game, /join, /leave and disconnections seats a connection twice.
THEOREM OneSeat == Spec => []OneRoomEach
BY Invariance, PTL DEF Inv

\* Whoever sits in a room is a registered connection whose task is still running.
THEOREM SeatedAreServed == Spec => []MembersAreServed
BY Invariance, PTL DEF Inv

\* Except while its web process is being closed, a room is led by one of its players.
THEOREM RoomsAreLed == Spec => []HostLeads
BY Invariance, PTL DEF Inv

\* No interleaving lets a player into a running Hex Wars match.
THEOREM NoLateArmies == Spec => []HexMatchClosed
BY Invariance, PTL DEF Inv
-----------------------------------------------------------------------------
\* The directory of RoomDirectory.  Rooms without a web process: no task closes one.
NoWeb == "forknite" \notin Games /\ \A p \in Pid : frame[p].at # "closing"

LEMMA SeatChair ==
    ASSUME Inv, NoWeb
    PROVE  /\ \A p \in Pid : RoomsOf(p) = {} => SeatOf(p) = NoRid
           /\ \A p \in Pid, r \in live : /\ p \in rooms[r].members => SeatOf(p) = r /\ RoomsOf(p) = {r}
                                         /\ SeatOf(p) = r => p \in rooms[r].members
           /\ \A r \in live : ChairOf(r) = rooms[r].host /\ rooms[r].host \in rooms[r].members
           /\ \A r \in live : rooms[r].members \subseteq Pid /\ rooms[r].game # "forknite"
<1> USE DEF Inv
<1>1. ASSUME NEW p \in Pid, NEW r \in live, p \in rooms[r].members
      PROVE  SeatOf(p) = r /\ RoomsOf(p) = {r}
  <2>1. RoomsOf(p) = {r}
    BY <1>1 DEF RoomsOf, OneRoomEach
  <2> QED BY <2>1 DEF SeatOf
<1>2. ASSUME NEW p \in Pid, NEW r \in live, SeatOf(p) = r
      PROVE  p \in rooms[r].members
  <2>1. RoomsOf(p) # {}
    BY <1>2, LobbyAssumption DEF SeatOf, TypeOK
  <2> QED BY <1>2, <2>1 DEF SeatOf, RoomsOf
<1>3. \A r \in live : rooms[r].host \in rooms[r].members
  BY DEF HostLeads, Closing, NoWeb, At
<1>4. \A r \in live : ChairOf(r) = rooms[r].host
  BY <1>3 DEF ChairOf
<1>5. \A r \in live : rooms[r].members \subseteq Pid /\ rooms[r].game # "forknite"
  BY DEF NoWeb, TypeOK, Room
<1>6. \A p \in Pid : RoomsOf(p) = {} => SeatOf(p) = NoRid
  BY DEF SeatOf
<1> QED BY <1>1, <1>2, <1>3, <1>4, <1>5, <1>6

\* A step that leaves members and hosts alone is none of the directory.
LEMMA SameDirectory ==
    ASSUME live' = live, \A r \in live : /\ rooms'[r].members = rooms[r].members
                                         /\ rooms'[r].host = rooms[r].host
    PROVE  UNCHANGED Directory!vars
<1>1. ASSUME NEW p \in Pid PROVE SeatOf(p)' = SeatOf(p)
  <2>1. RoomsOf(p)' = RoomsOf(p)
    BY DEF RoomsOf
  <2> QED BY <2>1 DEF SeatOf
<1>2. ASSUME NEW r \in Rid PROVE ChairOf(r)' = ChairOf(r)
  BY DEF ChairOf
<1> QED BY <1>1, <1>2 DEF Directory!vars

\* Nobody but p changes seats.
LEMMA OthersStay ==
    ASSUME NEW p \in Pid, NEW S,
           \A q \in Pid \ {p} : RoomsOf(q)' = RoomsOf(q), SeatOf(p)' = S
    PROVE  [q \in Pid |-> SeatOf(q)]' = [[q \in Pid |-> SeatOf(q)] EXCEPT ![p] = S]
<1>1. ASSUME NEW q \in Pid \ {p} PROVE SeatOf(q)' = SeatOf(q)
  <2>1. RoomsOf(q)' = RoomsOf(q)
    OBVIOUS
  <2> QED BY <2>1 DEF SeatOf
<1> QED BY <1>1

\* Who changes seats changes the directory.
LEMMA Moving ==
    ASSUME NEW p \in Pid, SeatOf(p)' # SeatOf(p)
    PROVE  [q \in Pid |-> SeatOf(q)]' # [q \in Pid |-> SeatOf(q)]
<1> SUFFICES ASSUME [q \in Pid |-> SeatOf(q)'] = [q \in Pid |-> SeatOf(q)] PROVE FALSE
  OBVIOUS
<1>1. [q \in Pid |-> SeatOf(q)'][p] = [q \in Pid |-> SeatOf(q)][p]
  OBVIOUS
<1> QED BY <1>1

\* leave() is an exit, or nothing for who has no seat.
LEMMA LeaveExits ==
    ASSUME Inv, NoWeb, NEW p \in Pid, NEW f, Leave(p, f)
    PROVE  Directory!Next \/ UNCHANGED Directory!vars
<1>1. CASE UNCHANGED <<rooms, live>>
  BY <1>1, SameDirectory
<1>2. ASSUME NEW r \in RoomsOf(p), NEW e \in {"none", "running", "over"},
             \/ /\ rooms[r].members = {p} /\ Remove(r, {})
             \/ \E h \in Pid \cup {NoPid} :
                   /\ rooms[r].members # {p}
                   /\ IF rooms[r].host = p THEN h \in rooms[r].members \ {p} ELSE h = rooms[r].host
                   /\ rooms' = [rooms EXCEPT ![r] = Vacated(r, p, h, e)]
                   /\ live' = live
      PROVE  Directory!Next
  <2>0. r \in Rid /\ r \in live /\ p \in rooms[r].members /\ rooms[r] \in Room
    BY DEF RoomsOf, Inv, TypeOK
  <2>1. /\ SeatOf(p) = r /\ RoomsOf(p) = {r} /\ ChairOf(r) = rooms[r].host
        /\ \A q \in Pid : SeatOf(q) = r <=> q \in rooms[r].members
        /\ rooms[r].host \in rooms[r].members /\ rooms[r].members \subseteq Pid
    BY <2>0, SeatChair
  <2>2. Directory!Present(r) = rooms[r].members
    BY <2>1 DEF Directory!Present
  <2>3. /\ RoomsOf(p)' = {} /\ \A q \in Pid \ {p} : RoomsOf(q)' = RoomsOf(q)
        /\ \A k \in Rid \ {r} : ChairOf(k)' = ChairOf(k)
    <3>1. CASE rooms[r].members = {p} /\ Remove(r, {})
      <4>1. live' = live \ {r} /\ \A k \in live' : rooms'[k] = rooms[k]
        BY <3>1 DEF Remove, Inv, TypeOK
      <4> QED BY <2>0, <2>1, <3>1, <4>1 DEF RoomsOf, ChairOf
    <3>2. CASE \E h \in Pid \cup {NoPid} :
                  rooms' = [rooms EXCEPT ![r] = Vacated(r, p, h, e)] /\ live' = live
      <4>1. /\ live' = live /\ rooms'[r].members = rooms[r].members \ {p}
            /\ \A k \in Rid \ {r} : rooms'[k] = rooms[k]
        BY <2>0, <3>2 DEF Vacated, Inv, TypeOK, Room
      <4> QED BY <2>0, <2>1, <4>1 DEF RoomsOf, ChairOf, Inv, TypeOK
    <3> QED BY <1>2, <3>1, <3>2
  <2>4. SeatOf(p)' = NoRid
    BY <2>3 DEF SeatOf
  <2>5. [q \in Pid |-> SeatOf(q)]' = [[q \in Pid |-> SeatOf(q)] EXCEPT ![p] = NoRid]
    BY <2>3, <2>4, OthersStay
  <2>6. [k \in Rid |-> ChairOf(k)]' = [[k \in Rid |-> ChairOf(k)] EXCEPT ![r] = ChairOf(r)']
    BY <2>0, <2>3
  <2>7. Directory!Exit(p, r)
    <3>1. CASE rooms[r].members = {p} /\ Remove(r, {})
      <4>1. ChairOf(r)' = NoPid
        BY <3>1 DEF Remove, ChairOf
      <4> QED BY <2>0, <2>1, <2>2, <2>5, <2>6, <3>1, <4>1 DEF Directory!Exit
    <3>2. ASSUME NEW h \in Pid \cup {NoPid}, rooms[r].members # {p},
                 IF rooms[r].host = p THEN h \in rooms[r].members \ {p} ELSE h = rooms[r].host,
                 rooms' = [rooms EXCEPT ![r] = Vacated(r, p, h, e)], live' = live
          PROVE  Directory!Exit(p, r)
      <4>1. rooms'[r].members = rooms[r].members \ {p} /\ rooms'[r].host = h
        BY <2>0, <3>2 DEF Vacated, Inv, TypeOK, Room
      <4>2. ChairOf(r)' = h
        BY <2>0, <3>2, <4>1 DEF ChairOf
      <4>3. CASE rooms[r].host = p
        BY <2>0, <2>1, <2>2, <2>5, <2>6, <3>2, <4>2, <4>3 DEF Directory!Exit
      <4>4. CASE rooms[r].host # p
        <5>1. [k \in Rid |-> ChairOf(k)]' = [k \in Rid |-> ChairOf(k)]
          BY <2>1, <2>6, <3>2, <4>2, <4>4
        <5> QED BY <2>0, <2>1, <2>2, <2>5, <3>2, <4>4, <5>1 DEF Directory!Exit
      <4> QED BY <4>3, <4>4
    <3> QED BY <1>2, <3>1, <3>2
  <2>8. [q \in Pid |-> SeatOf(q)]' # [q \in Pid |-> SeatOf(q)]
    BY <2>0, <2>1, <2>4, LobbyAssumption, Moving
  <2> QED BY <2>0, <2>7, <2>8 DEF Directory!Next
<1>3. \A r \in RoomsOf(p) : rooms[r].game # "forknite"
  BY SeatChair DEF RoomsOf
<1> QED BY <1>1, <1>2, <1>3 DEF Leave

\* /game opens a room with its host in it.
LEMMA HostOpens == ASSUME Inv, NoWeb, NEW p \in Pid, LeftHost(p) PROVE Directory!Next
<1>1. PICK r \in Fresh :
        /\ rooms' = [rooms EXCEPT ![r] = [Blank EXCEPT !.game = frame[p].game,
                                          !.host = p, !.members = {p}]]
        /\ live' = live \cup {r}
  BY DEF LeftHost
<1>2. /\ r \in Rid /\ r \notin live /\ rooms'[r].members = {p} /\ rooms'[r].host = p
      /\ \A k \in Rid \ {r} : rooms'[k] = rooms[k]
  BY <1>1 DEF Fresh, Inv, HostsAreKnown, TypeOK, Blank
<1>3. RoomsOf(p) = {} /\ SeatOf(p) = NoRid
  <2>1. frame[p].at = "left"
    BY DEF LeftHost, At
  <2> QED BY <2>1 DEF Inv, MoversAreSeatless, Leaving, RoomsOf, SeatOf
<1>4. RoomsOf(p)' = {r} /\ \A q \in Pid \ {p} : RoomsOf(q)' = RoomsOf(q)
  BY <1>1, <1>2, <1>3 DEF RoomsOf, Inv, TypeOK
<1>5. SeatOf(p)' = r
  BY <1>4 DEF SeatOf
<1>6. [q \in Pid |-> SeatOf(q)]' = [[q \in Pid |-> SeatOf(q)] EXCEPT ![p] = r]
  BY <1>4, <1>5, OthersStay
<1>7. ChairOf(r) = NoPid /\ ChairOf(r)' = p /\ \A k \in Rid \ {r} : ChairOf(k)' = ChairOf(k)
  BY <1>1, <1>2 DEF ChairOf
<1>8. [k \in Rid |-> ChairOf(k)]' = [[k \in Rid |-> ChairOf(k)] EXCEPT ![r] = p]
  BY <1>2, <1>7
<1>9. Directory!Open(p, r)
  BY <1>2, <1>3, <1>6, <1>7, <1>8 DEF Directory!Open
<1>10. [q \in Pid |-> SeatOf(q)]' # [q \in Pid |-> SeatOf(q)]
  BY <1>2, <1>3, <1>5, LobbyAssumption, Moving
<1> QED BY <1>2, <1>9, <1>10 DEF Directory!Next

\* /join enters a room that is still there, or none.
LEMMA JoinEnters == ASSUME Inv, NoWeb, NEW p \in Pid, LeftJoin(p)
                    PROVE  Directory!Next \/ UNCHANGED Directory!vars
<1> DEFINE r == frame[p].arg
<1>1. CASE rooms' = rooms
  BY <1>1, SameDirectory DEF LeftJoin
<1>2. CASE r \in live /\ rooms' = [rooms EXCEPT ![r].members = @ \cup {p}]
  <2>1. /\ r \in Rid /\ live' = live /\ rooms'[r].members = rooms[r].members \cup {p}
        /\ rooms'[r].host = rooms[r].host /\ \A k \in Rid \ {r} : rooms'[k] = rooms[k]
    BY <1>2 DEF LeftJoin, Inv, TypeOK, Room
  <2>2. RoomsOf(p) = {} /\ SeatOf(p) = NoRid
    <3>1. frame[p].at = "left"
      BY DEF LeftJoin, At
    <3> QED BY <3>1 DEF Inv, MoversAreSeatless, Leaving, RoomsOf, SeatOf
  <2>3. RoomsOf(p)' = {r} /\ \A q \in Pid \ {p} : RoomsOf(q)' = RoomsOf(q)
    BY <1>2, <2>1, <2>2 DEF RoomsOf, Inv, TypeOK
  <2>4. SeatOf(p)' = r
    BY <2>3 DEF SeatOf
  <2>5. [q \in Pid |-> SeatOf(q)]' = [[q \in Pid |-> SeatOf(q)] EXCEPT ![p] = r]
    BY <2>3, <2>4, OthersStay
  <2>6. ChairOf(r) = rooms[r].host /\ ChairOf(r) \in Pid /\ rooms[r].members # {}
    BY <1>2, SeatChair
  <2>7. \A k \in Rid : ChairOf(k)' = ChairOf(k)
    BY <1>2, <2>1, <2>6 DEF ChairOf
  <2>8. [k \in Rid |-> ChairOf(k)]' = [k \in Rid |-> ChairOf(k)]
    BY <2>7
  <2>9. Directory!Enter(p, r)
    BY <2>1, <2>2, <2>5, <2>6, <2>8, LobbyAssumption DEF Directory!Enter
  <2>10. [q \in Pid |-> SeatOf(q)]' # [q \in Pid |-> SeatOf(q)]
    BY <2>1, <2>2, <2>4, LobbyAssumption, Moving
  <2> QED BY <2>1, <2>9, <2>10 DEF Directory!Next
<1> QED BY <1>1, <1>2 DEF LeftJoin

\* What commands do to a room without moving anybody.
LEMMA RoomsKept ==
    ASSUME Inv, NEW r \in Rid, NEW x, rooms' = [rooms EXCEPT ![r] = x], live' = live,
           x.members = rooms[r].members, x.host = rooms[r].host
    PROVE  UNCHANGED Directory!vars
BY SameDirectory DEF Inv, TypeOK

LEMMA BeginKeeps == ASSUME Inv, NEW r, Begin(r), live' = live PROVE UNCHANGED Directory!vars
<1>1. CASE r \in Rid
  <2> DEFINE x == [rooms[r] EXCEPT !.engine = "running", !.players = rooms[r].members]
  <2>1. rooms' = [rooms EXCEPT ![r] = x] /\ x.members = rooms[r].members /\ x.host = rooms[r].host
    BY <1>1 DEF Begin, Inv, TypeOK, Room
  <2> QED BY <1>1, <2>1, RoomsKept
<1>2. CASE r \notin Rid
  BY <1>2, SameDirectory DEF Begin, Inv, TypeOK
<1> QED BY <1>1, <1>2

LEMMA EscapeKeeps == ASSUME Inv, NoWeb, NEW p \in Pid, Escape(p)
                     PROVE  Directory!Next \/ UNCHANGED Directory!vars
BY LeaveExits, SameDirectory DEF Escape, LeaveForGood

LEMMA CommandKeeps == ASSUME Inv, NoWeb, NEW p \in Pid, Command(p)
                      PROVE  Directory!Next \/ UNCHANGED Directory!vars
<1>1. CASE CmdLeave(p) \/ (\E g \in Games : CmdHost(p, g)) \/ (\E r \in Rid : CmdJoin(p, r))
  BY <1>1, LeaveExits, SameDirectory DEF CmdLeave, CmdHost, CmdJoin
<1>2. CASE CmdStart(p)
  BY <1>2, BeginKeeps, SameDirectory DEF CmdStart
<1>3. CASE CmdBot(p)
  BY <1>3, SameDirectory DEF CmdBot, RoomsOf, Inv, TypeOK, Room
<1>4. CASE CmdPractice(p)
  BY <1>4, SameDirectory DEF CmdPractice, RoomsOf, Inv, TypeOK, Room
<1>5. CASE CmdUpload(p)
  BY <1>5, SameDirectory DEF CmdUpload
<1> QED BY <1>1, <1>2, <1>3, <1>4, <1>5 DEF Command

LEMMA ResumeKeeps == ASSUME Inv, NoWeb, NEW p \in Pid, Resume(p)
                     PROVE  Directory!Next \/ UNCHANGED Directory!vars
<1>1. CASE Closed(p)
  BY <1>1 DEF Closed, At, NoWeb
<1>2. CASE Notified(p) \/ LeftLeave(p) \/ LeftBye(p)
  BY <1>2, SameDirectory DEF Notified, LeftLeave, LeftBye
<1>3. CASE Status(p) \/ Created(p) \/ Shown(p)
  BY <1>3, EscapeKeeps, LeaveExits, SameDirectory DEF Status, Created, Shown
<1>4. CASE LeftHost(p) \/ LeftJoin(p)
  BY <1>4, HostOpens, JoinEnters
<1>5. CASE Warned(p)
  BY <1>5, BeginKeeps DEF Warned
<1>6. CASE Uploaded(p)
  BY <1>6, SameDirectory DEF Uploaded, Inv, TypeOK, Room
<1>7. CASE Bye(p)
  BY <1>7, LeaveExits DEF Bye, LeaveForGood
<1> QED BY <1>1, <1>2, <1>3, <1>4, <1>5, <1>6, <1>7 DEF Resume

\* Nobody comes to close a web process where there is none.
LEMMA NoWebInit == ASSUME "forknite" \notin Games, Init PROVE NoWeb
BY DEF Init, NoWeb, Rest

LEMMA NoWebLeave == ASSUME Inv, NoWeb, NEW p \in Pid, NEW f \in Frame, Leave(p, f) PROVE NoWeb'
<1>1. \A r \in RoomsOf(p) : rooms[r].game # "forknite"
  BY SeatChair DEF RoomsOf
<1>2. PICK l \in {"left", "notify"}, r \in Rid \cup {NoRid} :
         frame' = [frame EXCEPT ![p] = [f EXCEPT !.at = l, !.room = r]]
  BY <1>1 DEF Leave, RoomsOf, Inv, TypeOK
<1> QED BY <1>2, FrameUpdate DEF NoWeb, Inv, Leaving

LEMMA NoWebStep == ASSUME Inv, NoWeb, [Next]_vars PROVE NoWeb'
<1> USE DEF Inv
<1>1. ASSUME NEW p \in Pid, NEW l \in {"idle", "left", "gone", "ghost"}, frame' = [frame EXCEPT ![p] = Rest(l)]
      PROVE  NoWeb'
  BY <1>1, RestType DEF NoWeb, TypeOK
<1>2. ASSUME NEW p \in Pid, NEW l \in {"creating", "notify", "status", "left", "show", "warn", "upload"},
             NEW r \in Rid \cup {NoRid}, GoAt(p, l, r) \/ Go(p, l)
      PROVE  NoWeb'
  BY <1>2, GoType DEF NoWeb
<1>3. frame' = frame => NoWeb'
  BY DEF NoWeb
<1>4. ASSUME NEW p \in Pid, LeaveForGood(p) PROVE NoWeb'
  <2>1. [Rest("left") EXCEPT !.then = "bye"] \in Frame
    BY RestType DEF Frame, Then
  <2> QED BY <1>4, <2>1, NoWebLeave DEF LeaveForGood
<1>5. ASSUME NEW p \in Pid, Escape(p) PROVE NoWeb'
  BY <1>1, <1>4, <1>5 DEF Escape
<1>6. ASSUME NEW p \in Pid, Connect(p) \/ LeftLeave(p) \/ LeftBye(p) \/ Warned(p) \/ Uploaded(p)
      PROVE  NoWeb'
  BY <1>1, <1>6 DEF Connect, LeftLeave, LeftBye, Warned, Uploaded, Idle
<1>7. ASSUME NEW p \in Pid, Status(p) \/ Created(p) \/ Shown(p) PROVE NoWeb'
  <2>1. frame[p] \in Frame
    BY DEF TypeOK
  <2> QED BY <1>1, <1>2, <1>5, <1>7, <2>1, NoWebLeave DEF Status, Created, Shown, Idle
<1>8. ASSUME NEW p \in Pid, Notified(p) \/ LeftHost(p) \/ LeftJoin(p) PROVE NoWeb'
  BY <1>1, <1>2, <1>8 DEF Notified, LeftHost, LeftJoin, Idle, Fresh, TypeOK
<1>9. ASSUME NEW p \in Pid, Bye(p) PROVE NoWeb'
  BY <1>4, <1>9 DEF Bye
<1>10. ASSUME NEW p \in Pid, Closed(p) PROVE NoWeb'
  BY <1>10 DEF Closed, At, NoWeb
<1>11. ASSUME NEW p \in Pid, Command(p) PROVE NoWeb'
  <2>1. CASE CmdLeave(p)
    <3>1. [frame[p] EXCEPT !.then = "leave"] \in Frame
      BY DEF TypeOK, Frame, Then
    <3> QED BY <2>1, <3>1, NoWebLeave DEF CmdLeave
  <2>2. ASSUME NEW r \in Rid, CmdJoin(p, r) PROVE NoWeb'
    <3>1. [frame[p] EXCEPT !.then = "join", !.arg = r] \in Frame
      BY DEF TypeOK, Frame, Then
    <3> QED BY <2>2, <3>1, NoWebLeave DEF CmdJoin
  <2>3. ASSUME NEW g \in Games, CmdHost(p, g) PROVE NoWeb'
    <3>1. [frame[p] EXCEPT !.then = "host", !.game = g] \in Frame /\ g # "forknite"
      BY DEF TypeOK, Frame, Then, NoWeb
    <3> QED BY <2>3, <3>1, NoWebLeave DEF CmdHost
  <2>4. CASE CmdBot(p) \/ CmdPractice(p)
    BY <1>3, <2>4 DEF CmdBot, CmdPractice
  <2>5. CASE CmdStart(p) \/ CmdUpload(p)
    BY <1>2, <1>3, <2>5 DEF CmdStart, CmdUpload, RoomsOf, TypeOK
  <2> QED BY <1>11, <2>1, <2>2, <2>3, <2>4, <2>5 DEF Command
<1>12. CASE \E p \in Pid : Drop(p)
  BY <1>3, <1>12 DEF Drop
<1>13. CASE (\E r \in Rid : EngineOver(r)) \/ UNCHANGED vars
  BY <1>3, <1>13 DEF EngineOver, vars
<1> QED BY <1>5, <1>6, <1>7, <1>8, <1>9, <1>10, <1>11, <1>12, <1>13 DEF Next, Resume

\* Without FORKNITE rooms, every behaviour of the lobby, however its handlers interleave, is
\* one of the directory: each step is one change that RoomDirectory allows, or none
\* (server.py:179-196, 298-339, 449-592).
THEOREM DirectoryKept == ASSUME "forknite" \notin Games PROVE Spec => KeepsDirectory
<1>1. Init => Directory!Init
  BY DEF Init, Directory!Init, SeatOf, ChairOf, RoomsOf
<1>2. Inv /\ NoWeb /\ [Next]_vars => [Directory!Next]_(Directory!vars)
  <2> SUFFICES ASSUME Inv, NoWeb, [Next]_vars PROVE Directory!Next \/ UNCHANGED Directory!vars
    OBVIOUS
  <2>1. ASSUME NEW p \in Pid, Connect(p) \/ Drop(p) PROVE UNCHANGED Directory!vars
    BY <2>1, SameDirectory DEF Connect, Drop
  <2>2. ASSUME NEW r \in Rid, EngineOver(r) PROVE UNCHANGED Directory!vars
    BY <2>2, SameDirectory DEF EngineOver, Inv, TypeOK, Room
  <2>3. UNCHANGED vars => UNCHANGED Directory!vars
    BY SameDirectory DEF vars
  <2> QED BY <2>1, <2>2, <2>3, CommandKeeps, ResumeKeeps DEF Next
<1>3. Init => NoWeb
  BY NoWebInit
<1>4. Inv /\ NoWeb /\ [Next]_vars => NoWeb'
  BY NoWebStep
<1> QED BY <1>1, <1>2, <1>3, <1>4, Invariance, PTL DEF Spec, KeepsDirectory, Directory!Spec

-----------------------------------------------------------------------------
\* Hex Wars seats.  Member sets are finite, so that they can be counted.
SeatsCounted == \A r \in live : IsFiniteSet(rooms[r].members)
SeatInv == SeatsCounted /\ HexSeatsHeld

\* A step after which every open room was there before, and nobody entered, keeps the limit.
LEMMA NobodyEnters ==
    ASSUME Inv, SeatInv, live' \subseteq live,
           \A r \in live' : /\ rooms'[r].members \subseteq rooms[r].members
                            /\ rooms'[r].game = rooms[r].game
                            /\ rooms'[r].practice = rooms[r].practice
    PROVE  SeatInv'
<1>1. ASSUME NEW r \in live'
      PROVE  /\ IsFiniteSet(rooms'[r].members)
             /\ Cardinality(rooms'[r].members) <= Cardinality(rooms[r].members)
             /\ Cardinality(rooms'[r].members) \in Nat /\ Cardinality(rooms[r].members) \in Nat
  BY <1>1, FS_Subset, FS_CardinalityType DEF SeatInv, SeatsCounted
<1>2. ASSUME NEW r \in live', rooms'[r].game = "hexwars" PROVE Taken(r)' <= HexSeats
  <2>1. Taken(r) <= HexSeats
    BY <1>2 DEF SeatInv, HexSeatsHeld
  <2> QED BY <1>1, <1>2, <2>1, LobbyAssumption DEF Taken
<1> QED BY <1>1, <1>2 DEF SeatInv, SeatsCounted, HexSeatsHeld

LEMMA LeaveSeats == ASSUME Inv, SeatInv, NEW p \in Pid, NEW f, Leave(p, f) PROVE SeatInv'
<1>1. CASE UNCHANGED <<rooms, live>>
  BY <1>1, NobodyEnters
<1>2. ASSUME NEW r \in RoomsOf(p), Remove(r, {}) PROVE SeatInv'
  BY <1>2, NobodyEnters DEF Remove, Inv, TypeOK
<1>3. ASSUME NEW r \in RoomsOf(p), NEW h, NEW e, live' = live,
             rooms' = [rooms EXCEPT ![r] = Vacated(r, p, h, e)]
      PROVE  SeatInv'
  <2>1. r \in Rid /\ rooms[r] \in Room
    BY DEF RoomsOf, Inv, TypeOK
  <2>2. /\ rooms'[r].members \subseteq rooms[r].members /\ rooms'[r].game = rooms[r].game
        /\ rooms'[r].practice = rooms[r].practice
        /\ \A k \in Rid \ {r} : rooms'[k] = rooms[k]
    BY <1>3, <2>1 DEF Vacated, Room, Inv, TypeOK
  <2> QED BY <1>3, <2>2, NobodyEnters DEF Inv, TypeOK
<1> QED BY <1>1, <1>2, <1>3 DEF Leave

LEMMA HostSeats == ASSUME HexSeats > 0, Inv, SeatInv, NEW p \in Pid, LeftHost(p) PROVE SeatInv'
<1>1. PICK r \in Fresh :
        /\ rooms' = [rooms EXCEPT ![r] = [Blank EXCEPT !.game = frame[p].game,
                                          !.host = p, !.members = {p}]]
        /\ live' = live \cup {r}
  BY DEF LeftHost
<1>2. /\ r \in Rid /\ rooms'[r].members = {p} /\ rooms'[r].practice = FALSE
      /\ \A k \in live' \ {r} : k \in live /\ rooms'[k] = rooms[k]
  BY <1>1 DEF Fresh, Inv, TypeOK, Blank
<1>3. IsFiniteSet({p}) /\ Cardinality({p}) = 1
  BY FS_Singleton
<1>4. Taken(r)' <= HexSeats
  BY <1>2, <1>3, LobbyAssumption DEF Taken
<1>5. \A k \in live' \ {r} : Taken(k)' = Taken(k)
  BY <1>2 DEF Taken
<1> QED BY <1>2, <1>3, <1>4, <1>5 DEF SeatInv, SeatsCounted, HexSeatsHeld

\* /join looks at the seats again in the turn in which it takes one.
LEMMA JoinSeats == ASSUME Inv, SeatInv, NEW p \in Pid, LeftJoin(p) PROVE SeatInv'
<1>1. CASE rooms' = rooms
  BY <1>1, NobodyEnters DEF LeftJoin
<1>2. ASSUME NEW r \in live, HexJoinable(r), rooms' = [rooms EXCEPT ![r].members = @ \cup {p}]
      PROVE  SeatInv'
  <2>1. /\ r \in Rid /\ live' = live /\ rooms'[r].members = rooms[r].members \cup {p}
        /\ rooms'[r].game = rooms[r].game /\ rooms'[r].practice = rooms[r].practice
        /\ \A k \in Rid \ {r} : rooms'[k] = rooms[k]
    BY <1>2 DEF LeftJoin, Inv, TypeOK, Room
  <2>2. /\ IsFiniteSet(rooms'[r].members) /\ Cardinality(rooms[r].members) \in Nat
        /\ Cardinality(rooms'[r].members) \in {Cardinality(rooms[r].members),
                                               Cardinality(rooms[r].members) + 1}
    BY <1>2, <2>1, FS_AddElement, FS_CardinalityType DEF SeatInv, SeatsCounted
  <2>3. rooms'[r].game = "hexwars" => Taken(r)' <= HexSeats
    BY <1>2, <2>1, <2>2, LobbyAssumption DEF HexJoinable, Taken
  <2>4. \A k \in live \ {r} : Taken(k)' = Taken(k) /\ rooms'[k] = rooms[k]
    BY <2>1 DEF Taken, Inv, TypeOK
  <2>5. SeatsCounted'
    BY <2>1, <2>2, <2>4 DEF SeatInv, SeatsCounted
  <2>6. ASSUME NEW k \in live', rooms'[k].game = "hexwars" PROVE Taken(k)' <= HexSeats
    BY <2>1, <2>3, <2>4, <2>6 DEF SeatInv, HexSeatsHeld
  <2> QED BY <2>5, <2>6 DEF SeatInv, HexSeatsHeld
<1> QED BY <1>1, <1>2 DEF LeftJoin

LEMMA PracticeSeats == ASSUME Inv, SeatInv, NEW p \in Pid, CmdPractice(p) PROVE SeatInv'
<1>1. PICK r \in RoomsOf(p) : /\ rooms[r].practice \/ Cardinality(rooms[r].members) < HexSeats
                              /\ rooms' = [rooms EXCEPT ![r].practice = ~@]
  BY DEF CmdPractice
<1>2. /\ r \in Rid /\ r \in live /\ live' = live /\ rooms[r].practice \in BOOLEAN
      /\ rooms'[r].members = rooms[r].members /\ rooms'[r].game = rooms[r].game
      /\ \A k \in Rid \ {r} : rooms'[k] = rooms[k]
  BY <1>1 DEF CmdPractice, RoomsOf, Inv, TypeOK, Room
<1>3. rooms'[r].practice = ~rooms[r].practice
  BY <1>1, <1>2, Zenon DEF Inv, TypeOK, Room
<1>4. Cardinality(rooms[r].members) \in Nat
  BY <1>2, FS_CardinalityType DEF SeatInv, SeatsCounted
<1>5. rooms'[r].game = "hexwars" => Taken(r)' <= HexSeats
  <2>1. rooms[r].game = "hexwars" => Taken(r) <= HexSeats
    BY <1>2 DEF SeatInv, HexSeatsHeld
  <2>2. CASE rooms[r].practice = TRUE
    BY <1>2, <1>3, <1>4, <2>1, <2>2, LobbyAssumption DEF Taken
  <2>3. CASE rooms[r].practice = FALSE
    BY <1>1, <1>2, <1>3, <1>4, <2>3, LobbyAssumption DEF Taken
  <2>4. rooms[r].practice = TRUE \/ rooms[r].practice = FALSE
    BY <1>2, Zenon
  <2> QED BY <2>2, <2>3, <2>4
<1>6. \A k \in live \ {r} : Taken(k)' = Taken(k) /\ rooms'[k] = rooms[k]
  BY <1>2 DEF Taken, Inv, TypeOK
<1>7. SeatsCounted'
  BY <1>2, <1>6 DEF SeatInv, SeatsCounted
<1>8. ASSUME NEW k \in live', rooms'[k].game = "hexwars" PROVE Taken(k)' <= HexSeats
  BY <1>2, <1>5, <1>6, <1>8 DEF SeatInv, HexSeatsHeld
<1> QED BY <1>7, <1>8 DEF SeatInv, HexSeatsHeld

\* Commands and resumptions that move nobody.
LEMMA BeginSeats == ASSUME Inv, SeatInv, NEW r, Begin(r), live' = live PROVE SeatInv'
BY NobodyEnters DEF Begin, Inv, TypeOK, Room

LEMMA EscapeSeats == ASSUME Inv, SeatInv, NEW p \in Pid, Escape(p) PROVE SeatInv'
BY LeaveSeats, NobodyEnters DEF Escape, LeaveForGood

LEMMA ClosedSeats == ASSUME Inv, SeatInv, NEW p \in Pid, Closed(p) PROVE SeatInv'
BY EscapeSeats, NobodyEnters DEF Closed, Remove, Inv, TypeOK

LEMMA CommandSeats == ASSUME Inv, SeatInv, NEW p \in Pid, Command(p) PROVE SeatInv'
<1>1. CASE CmdLeave(p) \/ (\E g \in Games : CmdHost(p, g)) \/ (\E r \in Rid : CmdJoin(p, r))
  BY <1>1, LeaveSeats, NobodyEnters DEF CmdLeave, CmdHost, CmdJoin
<1>2. CASE CmdStart(p)
  BY <1>2, BeginSeats, NobodyEnters DEF CmdStart
<1>3. CASE CmdBot(p)
  BY <1>3, NobodyEnters DEF CmdBot, RoomsOf, Inv, TypeOK, Room
<1>4. CASE CmdPractice(p)
  BY <1>4, PracticeSeats
<1>5. CASE CmdUpload(p)
  BY <1>5, NobodyEnters DEF CmdUpload
<1> QED BY <1>1, <1>2, <1>3, <1>4, <1>5 DEF Command

LEMMA ResumeSeats == ASSUME HexSeats > 0, Inv, SeatInv, NEW p \in Pid, Resume(p) PROVE SeatInv'
<1>1. CASE Closed(p)
  BY <1>1, ClosedSeats
<1>2. CASE Notified(p) \/ LeftLeave(p) \/ LeftBye(p)
  BY <1>2, NobodyEnters DEF Notified, LeftLeave, LeftBye
<1>3. CASE Status(p) \/ Created(p) \/ Shown(p)
  BY <1>3, EscapeSeats, LeaveSeats, NobodyEnters DEF Status, Created, Shown
<1>4. CASE LeftHost(p) \/ LeftJoin(p)
  BY <1>4, HostSeats, JoinSeats
<1>5. CASE Warned(p)
  BY <1>5, BeginSeats DEF Warned
<1>6. CASE Uploaded(p)
  BY <1>6, NobodyEnters DEF Uploaded, Inv, TypeOK, Room
<1>7. CASE Bye(p)
  BY <1>7, LeaveSeats DEF Bye, LeaveForGood
<1> QED BY <1>1, <1>2, <1>3, <1>4, <1>5, <1>6, <1>7 DEF Resume

\* However many tasks were let through by the same free seat, a Hex Wars room and its
\* practice bot never exceed its seats (server.py:331-339).
THEOREM SeatsHeld == ASSUME HexSeats > 0 PROVE Spec => []HexSeatsHeld
<1>1. Init => SeatInv
  BY DEF Init, SeatInv, SeatsCounted, HexSeatsHeld
<1>2. Inv /\ SeatInv /\ [Next]_vars => SeatInv'
  <2> SUFFICES ASSUME Inv, SeatInv, [Next]_vars PROVE SeatInv'
    OBVIOUS
  <2>1. ASSUME NEW p \in Pid, Connect(p) \/ Drop(p) PROVE SeatInv'
    BY <2>1, NobodyEnters DEF Connect, Drop
  <2>2. ASSUME NEW r \in Rid, EngineOver(r) PROVE SeatInv'
    BY <2>2, NobodyEnters DEF EngineOver, Inv, TypeOK, Room
  <2>3. CASE UNCHANGED vars
    BY <2>3, NobodyEnters DEF vars
  <2> QED BY <2>1, <2>2, <2>3, CommandSeats, ResumeSeats DEF Next
<1>3. SeatInv => HexSeatsHeld
  BY DEF SeatInv
<1> QED BY <1>1, <1>2, <1>3, Invariance, PTL DEF Spec
=============================================================================
