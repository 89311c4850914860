---------------------------- MODULE MeshPresence ----------------------------
(***************************************************************************)
(* Who is there: the peer tables of the guest mesh (campus_lan/mesh.py).   *)
(*                                                                         *)
(* Every node polls its peers in rounds; a poll sends a snapshot of the    *)
(* node and brings back one of the peer.  The round holds Mesh.lock, but a *)
(* snapshot that a peer sends is merged by the connection handler without  *)
(* it, so it may arrive while the round waits for the answers or announces *)
(* the players it gives up.  Time is counted in ages: how long ago a peer  *)
(* was heard from, up to the age at which that does not matter any more.   *)
(* The players and rooms of a node are one bit.  Events are the subject of *)
(* MeshEvents.                                                             *)
(***************************************************************************)
EXTENDS MeshConstants

VARIABLES status,  \* "up", "leaving" (goodbye) or "down"
          peers,   \* Mesh.peers of each node
          round,   \* what the loop of a node does: "rest", "poll" or "sweep"
          polls,   \* its polls under way: the peer, and {} or the set of its one answer
          sweep    \* what is left of list(self.peers.items()) to go through

vars == <<status, peers, round, polls, sweep>>

Known(n) == DOMAIN peers[n]

Unseen == [seen |-> FALSE, age |-> 0, shows |-> FALSE, failures |-> 0]

Nothing == [k \in {} |-> Unseen]

Init == /\ status = [n \in Nodes |-> "up"]
        /\ peers = [n \in Nodes |-> IF n = Bootstrap THEN Nothing
                                  ELSE [k \in {Bootstrap} |-> Unseen]]
        /\ round = [n \in Nodes |-> "rest"]
        /\ polls = [n \in Nodes |-> Nothing] /\ sweep = [n \in Nodes |-> Nothing]

\* Time passes for everybody.
Clock == /\ peers' = [n \in Nodes |-> [k \in Known(n) |->
                         IF peers[n][k].seen /\ peers[n][k].age <= Expire
                         THEN [peers[n][k] EXCEPT !.age = @ + 1] ELSE peers[n][k]]]
         /\ UNCHANGED <<status, round, polls, sweep>>
-----------------------------------------------------------------------------
\* snapshot(): whether n has players, and the peers it heard from lately.
Snapshot(n) == [shows |-> status[n] = "up",
                live |-> {k \in Known(n) : peers[n][k].seen /\ peers[n][k].age < Expire}]

\* The table of n has an entry for k, or room for one.
Admits(n, k) == k \in Known(n) \/ Cardinality(Known(n)) < MaxPeers

Fresh(snapshot) == [seen |-> TRUE, age |-> 0, shows |-> snapshot.shows, failures |-> 0]

\* Addresses that k passed on and n does not hold.
Heard(n, k, snapshot) == snapshot.live \ (Known(n) \cup {k, n})

Room(n, k) == LET held == Cardinality(Known(n) \cup {k})
              IN IF held < MaxPeers THEN MaxPeers - held ELSE 0

\* The table of n with a new entry for k and the addresses S.
Merged(n, k, snapshot, S) ==
    [h \in Known(n) \cup {k} \cup S |-> IF h = k THEN Fresh(snapshot)
                                       ELSE IF h \in Known(n) THEN peers[n][h] ELSE Unseen]

\* The table of n after merge() of a snapshot of k, with addresses while there is room for them.
Merges(n, k, snapshot) ==
    LET heard == Heard(n, k, snapshot)
        size  == IF Cardinality(heard) < Room(n, k) THEN Cardinality(heard) ELSE Room(n, k)
    IN {Merged(n, k, snapshot, S) : S \in {T \in SUBSET heard : Cardinality(T) = size}}

\* A sweep under way keeps the object it took from the table when that is replaced.
Detached(n, k) == IF k \in DOMAIN sweep[n] THEN [sweep EXCEPT ![n][k].same = FALSE] ELSE sweep

\* loop(): all peers are polled at once.
StartRound(n) == /\ status[n] = "up" /\ round[n] = "rest" /\ Known(n) # {}
                 /\ round' = [round EXCEPT ![n] = "poll"]
                 /\ polls' = [polls EXCEPT ![n] = [k \in Known(n) |-> {}]]
                 /\ UNCHANGED <<status, peers, sweep>>

\* The greeting of n reaches k, which merges it and answers.
Greet(n, k) ==
    /\ k \in DOMAIN polls[n] /\ polls[n][k] = {}
    /\ status[k] = "up" /\ Admits(k, n) /\ UNCHANGED <<status, round>>
    /\ \E table \in Merges(k, n, Snapshot(n)) :
          /\ peers' = [peers EXCEPT ![k] = table]
          /\ polls' = [polls EXCEPT ![n][k] = {Snapshot(k)'}]
    /\ sweep' = Detached(k, n)

Without(f, k) == [x \in DOMAIN f \ {k} |-> f[x]]

\* The answer of k reaches n and is merged.
Answer(n, k) ==
    /\ k \in DOMAIN polls[n] /\ polls[n][k] # {} /\ Admits(n, k)
    /\ \E snapshot \in polls[n][k] : \E table \in Merges(n, k, snapshot) :
          peers' = [peers EXCEPT ![n] = table]
    /\ polls' = [polls EXCEPT ![n] = Without(@, k)]
    /\ UNCHANGED <<status, round, sweep>>

\* Mutant: failures are not counted.
FailUncounted(n, k) == /\ k \in DOMAIN polls[n] /\ polls' = [polls EXCEPT ![n] = Without(@, k)]
                       /\ UNCHANGED <<status, peers, round, sweep>>

\* poll() fails: k is not there, refuses, or is not heard in two seconds.
Fail(n, k) ==
    /\ k \in DOMAIN polls[n]
    /\ peers' = IF k \in Known(n)
                THEN [peers EXCEPT ![n][k].failures = IF @ < MaxFailures THEN @ + 1 ELSE @]
                ELSE peers
    /\ polls' = [polls EXCEPT ![n] = Without(@, k)]
    /\ UNCHANGED <<status, round, sweep>>

\* What the loop lists when all polls are done and it has looked at the clock.
Items(n) == [k \in Known(n) |->
                LET peer  == peers[n][k]
                    stale == peer.seen /\ peer.age > Expire
                IN [stale |-> stale, loud |-> stale /\ peer.shows, told |-> FALSE, same |-> TRUE,
                    drop |-> (stale \/ ~peer.seen) /\ peer.failures >= MaxFailures]]

Cleared(peer) == [peer EXCEPT !.seen = FALSE, !.age = 0, !.shows = FALSE]

\* The table of n when the loop is done with the items of Q: the object listed is cleared,
\* though it may not be the one in the table any more, and the key is deleted, though it may
\* stand for another object.
Swept(n, items, Q) ==
    [k \in {h \in Known(n) : h \in Q => ~items[h].drop} |->
        IF k \in Q /\ items[k].stale /\ items[k].same THEN Cleared(peers[n][k]) ELSE peers[n][k]]

\* The loop runs on until it waits for the broadcast that a player is offline, or to its end.
Walk(n, items) ==
    LET loud == {k \in DOMAIN items : items[k].loud}
        told == {k \in DOMAIN items : items[k].told}
    IN \/ /\ loud = {} /\ peers' = [peers EXCEPT ![n] = Swept(n, items, DOMAIN items)]
          /\ sweep' = [sweep EXCEPT ![n] = Nothing] /\ round' = [round EXCEPT ![n] = "rest"]
       \/ \E k \in loud : \E Q \in SUBSET (DOMAIN items \ loud) :
             /\ told \subseteq Q /\ peers' = [peers EXCEPT ![n] = Swept(n, items, Q)]
             /\ sweep' = [sweep EXCEPT ![n] =
                             [h \in DOMAIN items \ Q |->
                                 IF h = k THEN [items[h] EXCEPT !.loud = FALSE, !.told = TRUE]
                                 ELSE items[h]]]
             /\ round' = [round EXCEPT ![n] = "sweep"]

StartSweep(n) == /\ status[n] = "up" /\ round[n] = "poll" /\ DOMAIN polls[n] = {}
                 /\ Walk(n, Items(n)) /\ UNCHANGED <<status, polls>>

\* The broadcast is done.
Resume(n) == round[n] = "sweep" /\ Walk(n, sweep[n]) /\ UNCHANGED <<status, polls>>

\* goodbye(): the loop is cancelled, and all peers are told that nobody is left here.
Goodbye(n) == /\ n \in Mortal /\ status[n] = "up" /\ status' = [status EXCEPT ![n] = "leaving"]
              /\ round' = [round EXCEPT ![n] = "poll"]
              /\ polls' = [polls EXCEPT ![n] = [k \in Known(n) |-> {}]]
              /\ sweep' = [sweep EXCEPT ![n] = Nothing]
              /\ UNCHANGED peers

Ends(n) == /\ status' = [status EXCEPT ![n] = "down"] /\ round' = [round EXCEPT ![n] = "rest"]
           /\ peers' = [peers EXCEPT ![n] = Nothing] /\ polls' = [polls EXCEPT ![n] = Nothing]
           /\ sweep' = [sweep EXCEPT ![n] = Nothing]

\* The process ends after its goodbye.
Exit(n) == status[n] = "leaving" /\ DOMAIN polls[n] = {} /\ Ends(n)

Crash(n) == n \in Mortal /\ status[n] # "down" /\ Ends(n)

PollEnds(n) == \E k \in Nodes : Greet(n, k) \/ Answer(n, k) \/ Fail(n, k)

Loop(n) == StartRound(n) \/ StartSweep(n) \/ Resume(n)

Next == Clock \/ \E n \in Nodes : Loop(n) \/ PollEnds(n) \/ Goodbye(n) \/ Exit(n) \/ Crash(n)

\* Time passes, every loop goes round, and polls and a goodbye end, by their timeouts at least.
Fairness == /\ WF_vars(Clock)
            /\ \A n \in Nodes : WF_vars(Loop(n)) /\ WF_vars(PollEnds(n)) /\ WF_vars(Exit(n))

Spec == Init /\ [][Next]_vars /\ Fairness
-----------------------------------------------------------------------------
Peer == [seen : BOOLEAN, age : 0..(Expire + 1), shows : BOOLEAN, failures : 0..MaxFailures]

\* No node lists itself, and only a node that was heard from has players.
TypeOK == /\ status \in [Nodes -> {"up", "leaving", "down"}]
          /\ round \in [Nodes -> {"rest", "poll", "sweep"}]
          /\ \A n \in Nodes : /\ Known(n) \subseteq Nodes \ {n}
                              /\ \A k \in Known(n) : /\ peers[n][k] \in Peer
                                                     /\ peers[n][k].shows => peers[n][k].seen
                              /\ DOMAIN polls[n] \subseteq Nodes \ {n}
                              /\ sweep[n] # Nothing => round[n] = "sweep"

\* "There are at most 16 peers per node" (docs/protocol.md:19), whoever greets it and whatever
\* addresses it is told.
PeersBounded == \A n \in Nodes : Cardinality(Known(n)) <= MaxPeers

\* A node that is gone is forgotten for good: the others do not keep telling each other
\* its address (mesh.py:49, 166).
GoneForgotten == \A m \in Mortal : status[m] = "down" ~> [](\A n \in Nodes : m \notin Known(n))

\* "After about 16 seconds without a successful exchange, presence and advertisements expire"
\* (docs/protocol.md:15): a peer heard from since is not dropped.
FreshKept == [][\A n \in Nodes : \A k \in Known(n) :
                   peers[n][k].seen /\ peers[n][k].age <= Expire /\ (status[n] = "up")'
                       => (k \in Known(n))']_vars
=============================================================================
