----------------------------- MODULE MeshEvents -----------------------------
(***************************************************************************)
(* Chat lines and invitations that the nodes of the mesh pass on           *)
(* (campus_lan/mesh.py: publish, snapshot, merge).                         *)
(*                                                                         *)
(* A node remembers the events it knows by the monotonic time at which it  *)
(* learned of them, for Life seconds, and tells its peers the latest       *)
(* Window of them.  An event carries the wall clock reading of its         *)
(* publisher, and the wall clocks of two nodes may differ.  Who is present *)
(* is the subject of MeshPresence.                                         *)
(***************************************************************************)
EXTENDS MeshConstants

VARIABLES now,
          created,   \* wall clock of the publisher, of the events published so far
          received,  \* Mesh.events of each node: when it learned of an event
          wire,      \* exchanges under way: what is left of a snapshot to merge
          shown      \* 0 never, 1 once, 2 more often: what a node did with an event

vars == <<now, created, received, wire, shown>>

Init == /\ now = 0 /\ created = [e \in {} |-> 0] /\ wire = {}
        /\ received = [n \in Nodes |-> [e \in {} |-> 0]]
        /\ shown = [n \in Nodes |-> [e \in Events |-> 0]]

Wall(n) == now + Skew[n]

Known(n) == DOMAIN received[n]

Clock == now < Horizon /\ now' = now + 1 /\ UNCHANGED <<created, received, wire, shown>>
-----------------------------------------------------------------------------
\* n learns of e and shows it.  Two readings of a monotonic clock differ, so the times at which
\* a node learned of its events order them as the dictionary Mesh.events does.
Learn(n, e) ==
    /\ \A x \in Known(n) : received[n][x] < now
    /\ received' = [received EXCEPT ![n] = [x \in Known(n) \cup {e} |->
                                               IF x = e THEN now ELSE received[n][x]]]
    /\ shown' = [shown EXCEPT ![n][e] = IF @ = 0 THEN 1 ELSE 2]

\* publish()
Publish(n, e) == /\ e \notin DOMAIN created
                 /\ created' = [x \in DOMAIN created \cup {e} |->
                                   IF x = e THEN Wall(n) ELSE created[x]]
                 /\ Learn(n, e) /\ UNCHANGED <<now, wire>>

\* Mutant: an event is forgotten as soon as it is not forwarded any more, a second early.
UnexpiredEarly(n) == {e \in Known(n) : now - received[n][e] < Life - 1}

Unexpired(n) == {e \in Known(n) : now - received[n][e] < Life}

\* The newest k events of a set.
Newest(n, events, k) ==
    {S \in SUBSET events : /\ Cardinality(S) = IF Cardinality(events) < k
                                               THEN Cardinality(events) ELSE k
                           /\ \A x \in S, y \in events \ S : received[n][y] <= received[n][x]}

\* snapshot(), sent to m as a greeting or as the answer to one; one at a time per direction.
Send(n, m) ==
    /\ n # m /\ ~\E s \in wire : s.from = n /\ s.to = m
    /\ received' = [received EXCEPT ![n] = [e \in Unexpired(n) |-> received[n][e]]]
    /\ \E S \in Newest(n, Unexpired(n), Window) :
          wire' = wire \cup {[from |-> n, to |-> m, left |-> S]}
    /\ UNCHANGED <<now, created, shown>>

\* Mutant: an event is as fresh as the freshest copy of it.
FreshByHop(n, e) == \E m \in Nodes : e \in Known(m) /\ now - received[m][e] < Life

\* The wall clock of n says that e is young enough to be passed on, and not from the future.
Fresh(n, e) == 0 <= Wall(n) - created[e] /\ Wall(n) - created[e] < Life

\* merge() looks at one event and shows it before it goes on to the next.
Take(s, e) ==
    /\ s \in wire /\ e \in s.left
    /\ wire' = (wire \ {s}) \cup {[s EXCEPT !.left = @ \ {e}]}
    /\ \/ Fresh(s.to, e) /\ e \notin Known(s.to) /\ Learn(s.to, e)
       \/ ~(Fresh(s.to, e) /\ e \notin Known(s.to)) /\ UNCHANGED <<received, shown>>
    /\ UNCHANGED <<now, created>>

\* The end of merge(): of too many events the oldest are forgotten.
Finish(s) ==
    /\ s \in wire /\ s.left = {} /\ wire' = wire \ {s}
    /\ \E S \in Newest(s.to, Known(s.to), Cap) :
          received' = [received EXCEPT ![s.to] = [e \in S |-> received[s.to][e]]]
    /\ UNCHANGED <<now, created, shown>>

\* The exchange fails, or its receiver shuts down.
Lose(s) == s \in wire /\ wire' = wire \ {s} /\ UNCHANGED <<now, created, received, shown>>

Next == \/ Clock
        \/ \E n \in Nodes, e \in Events : Publish(n, e)
        \/ \E n, m \in Nodes : Send(n, m)
        \/ \E s \in wire : Finish(s) \/ Lose(s) \/ \E e \in s.left : Take(s, e)

Spec == Init /\ [][Next]_vars
-----------------------------------------------------------------------------
\* What a node remembers or is told was published, and learned of in the past.
TypeOK == /\ now \in Nat /\ DOMAIN created \subseteq Events
          /\ \A e \in DOMAIN created : created[e] \in Int
          /\ wire \subseteq [from : Nodes, to : Nodes, left : SUBSET DOMAIN created]
          /\ shown \in [Nodes -> [Events -> 0..2]] /\ DOMAIN received = Nodes
          /\ \A n \in Nodes : /\ received[n] = [e \in Known(n) |-> received[n][e]]
                              /\ Known(n) \subseteq DOMAIN created
                              /\ \A e \in Known(n) : received[n][e] \in 0..now

\* No cache can have overflowed: there are not more events yet than one holds.
RoomSoFar == Cardinality(DOMAIN created) <= Cap

\* "IDs prevent loops" (mesh.py:94): while the caches have room, nobody reads an event twice,
\* however often it comes back from the peers it was passed on to and whatever the wall clocks
\* of the nodes say.
ShownOnce == RoomSoFar => \A n \in Nodes, e \in Events : shown[n][e] <= 1

\* "Retain seen IDs longer than forwarding lifetime" (mesh.py:94): while the caches have room,
\* a node that would accept an event it has shown still knows it.
RetainedWhileFresh == RoomSoFar => \A n \in Nodes, e \in DOMAIN created :
                          shown[n][e] > 0 /\ Fresh(n, e) => e \in Known(n)

\* "Creation timestamps expire events after 45 seconds" (docs/protocol.md:22): an event too
\* old by every clock is not taken up any more, even where a full cache forgot that it had
\* been shown, so nothing goes round the mesh for good.
EchoesDie == [][\A e \in DOMAIN created :
                   (\A n \in Nodes : Wall(n) - created[e] >= Life) =>
                       \A n \in Nodes : (e \in Known(n))' => e \in Known(n)]_vars
=============================================================================
