----------------------------- MODULE MeshProofs -----------------------------
(***************************************************************************)
(* Proofs about the two halves of the mesh, of any size: the specification *)
(* that MeshEvents states, and the one of MeshPresence that MCMesh has     *)
(* among its nodes.                                                        *)
(***************************************************************************)
EXTENDS MCMesh, FiniteSetTheorems, TLAPS

(* Events (MeshEvents).  An event is shown once on every node, for every setting of the wall      *)
(* clocks, until a cache may have overflowed.  The invariant ties the two clocks together: a node *)
(* learned of an event no earlier, by its own wall clock, than the event was created.  So the     *)
(* memory of an event is dropped only when it is too old for the same node to accept it again.    *)

Learned(n, e) == /\ e \in DOMAIN created
                 /\ created[e] <= received[n][e] + Skew[n]
                 /\ received[n][e] <= now

\* An event that n has shown is remembered, or too old for n.
Settled(n, e) == /\ shown[n][e] <= 1
                 /\ shown[n][e] = 1 => /\ e \in DOMAIN created
                                       /\ \/ e \in Known(n)
                                          \/ Wall(n) - created[e] >= Life

\* What holds whether a cache overflowed or not.
Dated == /\ TypeOK /\ IsFiniteSet(DOMAIN created)
         /\ \A n \in Nodes : \A e \in Known(n) : Learned(n, e)

AllSettled == \A n \in Nodes, e \in Events : Settled(n, e)

IInv == Dated /\ (RoomSoFar => AllSettled)

\* A snapshot picks among the events it is taken from.
LEMMA NewestAmong == ASSUME NEW n, NEW S, NEW k, NEW T \in Newest(n, S, k)
                     PROVE  T \subseteq S
BY DEF Newest

LEMMA InitHolds == Init => IInv
<1> SUFFICES ASSUME Init PROVE IInv
    OBVIOUS
<1>1. \A n \in Nodes : Known(n) = {}
    BY DEF Init, Known
<1>2. TypeOK /\ IsFiniteSet(DOMAIN created)
    BY <1>1, FS_EmptySet DEF Init, TypeOK, Known
<1>3. AllSettled
    BY DEF Init, AllSettled, Settled
<1> QED BY <1>1, <1>2, <1>3 DEF IInv, Dated

\* What Learn does to the memory and the screens, e being published.
LEMMA LearnHolds ==
    ASSUME Dated, NEW n \in Nodes, NEW e \in Events, e \notin Known(n),
           Learn(n, e), now' = now, IsFiniteSet(DOMAIN created)',
           DOMAIN created \subseteq DOMAIN created', DOMAIN created' \subseteq Events,
           \A x \in DOMAIN created : created'[x] = created[x],
           \A x \in DOMAIN created' : created'[x] \in Int,
           e \in DOMAIN created', created'[e] <= Wall(n),
           wire' \subseteq [from : Nodes, to : Nodes, left : SUBSET DOMAIN created']
    PROVE  Dated' /\ (AllSettled /\ shown[n][e] = 0 => AllSettled')
<1> USE MeshAssumption
<1>1. /\ DOMAIN received' = Nodes /\ Known(n)' = Known(n) \cup {e}
      /\ received'[n] = [x \in Known(n) \cup {e} |-> IF x = e THEN now ELSE received[n][x]]
      /\ \A m \in Nodes \ {n} : received'[m] = received[m] /\ Known(m)' = Known(m)
    BY DEF Dated, TypeOK, Learn, Known
<1>2. /\ shown' \in [Nodes -> [Events -> 0..2]]
      /\ \A m \in Nodes, x \in Events : shown'[m][x] = IF m = n /\ x = e
                                                      THEN (IF shown[n][e] = 0 THEN 1 ELSE 2)
                                                      ELSE shown[m][x]
    BY DEF Dated, TypeOK, Learn
<1>3. ASSUME NEW m \in Nodes
      PROVE  /\ received'[m] = [x \in Known(m)' |-> received'[m][x]]
             /\ Known(m)' \subseteq DOMAIN created'
             /\ \A x \in Known(m)' : received'[m][x] \in 0..now
    <2>1. CASE m = n
        <3>1. Known(n) \subseteq DOMAIN created /\ now \in Nat
              /\ \A x \in Known(n) : received[n][x] \in 0..now
            BY DEF Dated, TypeOK
        <3>2. received'[n] = [x \in Known(n)' |-> received'[n][x]]
            BY <1>1
        <3>3. \A x \in Known(n)' : received'[n][x] \in 0..now
            BY <1>1, <3>1
        <3> QED BY <1>1, <2>1, <3>1, <3>2, <3>3
    <2>2. CASE m # n
        <3>1. received'[m] = received[m] /\ Known(m)' = Known(m)
            BY <1>1, <2>2
        <3> QED BY <3>1 DEF Dated, TypeOK
    <2> QED BY <2>1, <2>2
<1>4. TypeOK'
    BY <1>1, <1>2, <1>3 DEF Dated, TypeOK
<1>5. ASSUME NEW m \in Nodes, NEW x \in Known(m)' PROVE Learned(m, x)'
    <2>1. CASE m = n /\ x = e
        BY <1>1, <2>1 DEF Dated, TypeOK, Learned, Wall
    <2>2. CASE ~(m = n /\ x = e)
        <3>1. x \in Known(m) /\ received'[m][x] = received[m][x]
            BY <1>1, <2>2
        <3> QED BY <3>1 DEF Dated, Learned
    <2> QED BY <2>1, <2>2
<1>6. ASSUME AllSettled, shown[n][e] = 0, NEW m \in Nodes, NEW x \in Events
      PROVE  Settled(m, x)'
    <2>1. CASE m = n /\ x = e
        BY <1>1, <1>2, <1>6, <2>1 DEF Settled
    <2>2. CASE ~(m = n /\ x = e)
        <3>1. Settled(m, x) /\ shown'[m][x] = shown[m][x] /\ Known(m) \subseteq Known(m)'
            BY <1>1, <1>2, <1>6, <2>2 DEF AllSettled
        <3>2. Wall(m)' = Wall(m)
            BY DEF Wall
        <3> QED BY <3>1, <3>2 DEF Settled
    <2> QED BY <2>1, <2>2
<1> QED BY <1>4, <1>5, <1>6 DEF Dated, AllSettled

\* What forgetting does, and that forgetting what is too old for n keeps everything settled.
LEMMA ForgetHolds ==
    ASSUME Dated, NEW n \in Nodes, NEW K \in SUBSET Known(n),
           received' = [received EXCEPT ![n] = [e \in K |-> received[n][e]]],
           UNCHANGED <<now, created, shown>>,
           wire' \subseteq [from : Nodes, to : Nodes, left : SUBSET DOMAIN created]
    PROVE  /\ Dated'
           /\ AllSettled /\ (\A e \in Known(n) \ K : now - received[n][e] >= Life)
                  => AllSettled'
<1> USE MeshAssumption
<1>1. /\ DOMAIN received' = Nodes /\ Known(n)' = K
      /\ received'[n] = [e \in K |-> received[n][e]]
      /\ \A m \in Nodes \ {n} : received'[m] = received[m] /\ Known(m)' = Known(m)
    BY DEF Dated, TypeOK, Known
<1>2. ASSUME NEW m \in Nodes
      PROVE  /\ received'[m] = [x \in Known(m)' |-> received'[m][x]]
             /\ Known(m)' \subseteq DOMAIN created
             /\ \A x \in Known(m)' : received'[m][x] \in 0..now /\ Learned(m, x)'
    BY <1>1 DEF Dated, TypeOK, Learned
<1>3. TypeOK'
    BY <1>1, <1>2 DEF Dated, TypeOK
<1>4. ASSUME AllSettled, \A e \in Known(n) \ K : now - received[n][e] >= Life,
             NEW m \in Nodes, NEW x \in Events
      PROVE  Settled(m, x)'
    <2>1. Settled(m, x) /\ Wall(m)' = Wall(m)
        BY <1>4 DEF AllSettled, Wall
    <2>2. CASE m = n /\ x \in Known(n) \ K
        <3>1. x \in DOMAIN created /\ created[x] <= received[n][x] + Skew[n]
            BY <2>2 DEF Dated, Learned
        <3>2. created[x] \in Int /\ received[n][x] \in 0..now /\ now \in Nat
            BY <2>2, <3>1 DEF Dated, TypeOK
        <3>3. Wall(n) - created[x] >= Life
            <4>1. now - received[n][x] >= Life /\ Skew[n] \in Int /\ Life \in Int
                BY <1>4, <2>2
            <4> QED BY <3>1, <3>2, <4>1 DEF Wall
        <3> QED BY <2>1, <2>2, <3>1, <3>3 DEF Settled
    <2>3. CASE ~(m = n /\ x \in Known(n) \ K)
        <3>1. x \in Known(m) => x \in Known(m)'
            BY <1>1, <2>3
        <3> QED BY <2>1, <3>1 DEF Settled
    <2> QED BY <2>2, <2>3
<1> QED BY <1>2, <1>3, <1>4 DEF Dated, AllSettled

LEMMA ClockHolds == IInv /\ Clock => IInv'
<1> SUFFICES ASSUME IInv, Clock PROVE IInv'
    OBVIOUS
<1> USE MeshAssumption
<1>1. now \in Nat /\ now' = now + 1 /\ UNCHANGED <<created, received, wire, shown>>
    BY DEF IInv, Dated, TypeOK, Clock
<1>2. TypeOK'
    BY <1>1 DEF IInv, Dated, TypeOK, Known
<1>3. ASSUME AllSettled, NEW n \in Nodes, NEW e \in Events PROVE Settled(n, e)'
    <2>1. Settled(n, e)
        BY <1>3 DEF AllSettled
    <2>2. e \in DOMAIN created => created[e] \in Int /\ Skew[n] \in Int /\ Life \in Int
        BY DEF IInv, Dated, TypeOK
    <2> QED BY <1>1, <2>1, <2>2 DEF Settled, Known, Wall
<1>4. ASSUME NEW n \in Nodes, NEW e \in Known(n) PROVE Learned(n, e)'
    <2>1. Learned(n, e) /\ received[n][e] \in 0..now
        BY DEF IInv, Dated, TypeOK
    <2> QED BY <1>1, <2>1 DEF Learned
<1> QED BY <1>1, <1>2, <1>3, <1>4 DEF IInv, Dated, AllSettled, RoomSoFar, Known

LEMMA PublishHolds == ASSUME IInv, NEW n \in Nodes, NEW e \in Events, Publish(n, e)
                      PROVE  IInv'
<1> USE MeshAssumption
<1>1. e \notin DOMAIN created /\ Learn(n, e) /\ now' = now /\ wire' = wire
    BY DEF Publish
<1>2. created' = [x \in DOMAIN created \cup {e} |-> IF x = e THEN Wall(n) ELSE created[x]]
    BY DEF Publish
<1>3. Wall(n) \in Int
    BY DEF IInv, Dated, TypeOK, Wall
<1>4. e \notin Known(n) /\ (AllSettled => shown[n][e] = 0)
    <2>1. shown[n][e] \in 0..2 /\ (AllSettled => shown[n][e] <= 1 /\ shown[n][e] # 1)
        BY <1>1 DEF IInv, Dated, TypeOK, AllSettled, Settled
    <2> QED BY <1>1, <2>1 DEF IInv, Dated, TypeOK
<1>5. /\ DOMAIN created' = DOMAIN created \cup {e} /\ created'[e] = Wall(n)
      /\ \A x \in DOMAIN created : created'[x] = created[x]
    BY <1>1, <1>2
<1>6. /\ DOMAIN created' \subseteq Events
      /\ \A x \in DOMAIN created' : created'[x] \in Int
    BY <1>3, <1>5 DEF IInv, Dated, TypeOK
<1>7. wire' \subseteq [from : Nodes, to : Nodes, left : SUBSET DOMAIN created']
    BY <1>1, <1>5 DEF IInv, Dated, TypeOK
<1>8. IsFiniteSet(DOMAIN created)' /\ (RoomSoFar' => RoomSoFar)
    <2>1. IsFiniteSet(DOMAIN created)
        BY DEF IInv, Dated
    <2>2. /\ IsFiniteSet(DOMAIN created \cup {e})
          /\ Cardinality(DOMAIN created \cup {e}) = Cardinality(DOMAIN created) + 1
          /\ Cardinality(DOMAIN created) \in Nat
        BY <1>1, <2>1, FS_AddElement, FS_CardinalityType
    <2> QED BY <1>5, <2>2 DEF RoomSoFar
<1>9. Dated' /\ (AllSettled /\ shown[n][e] = 0 => AllSettled')
    BY <1>1, <1>3, <1>4, <1>5, <1>6, <1>7, <1>8, LearnHolds DEF IInv
<1> QED BY <1>4, <1>8, <1>9 DEF IInv

LEMMA SendHolds == ASSUME IInv, NEW n \in Nodes, NEW m \in Nodes, Send(n, m)
                   PROVE  IInv'
<1> USE MeshAssumption
<1>1. Unexpired(n) \subseteq Known(n) /\ Known(n) \subseteq DOMAIN created
    BY DEF IInv, Dated, TypeOK, Unexpired
<1>2. PICK S \in Newest(n, Unexpired(n), Window) :
          wire' = wire \cup {[from |-> n, to |-> m, left |-> S]}
    BY DEF Send
<1>3. wire' \subseteq [from : Nodes, to : Nodes, left : SUBSET DOMAIN created]
    BY <1>1, <1>2, NewestAmong DEF IInv, Dated, TypeOK
<1>4. \A e \in Known(n) \ Unexpired(n) : now - received[n][e] >= Life
    BY DEF IInv, Dated, TypeOK, Unexpired
<1>5. Dated' /\ (AllSettled => AllSettled')
    BY <1>1, <1>3, <1>4, ForgetHolds DEF IInv, Send
<1> QED BY <1>5 DEF IInv, RoomSoFar, Send

LEMMA TakeHolds == ASSUME IInv, NEW s \in wire, NEW e \in s.left, Take(s, e)
                   PROVE  IInv'
<1> USE MeshAssumption
<1>1. /\ s.from \in Nodes /\ s.to \in Nodes /\ s.left \subseteq DOMAIN created
      /\ s = [from |-> s.from, to |-> s.to, left |-> s.left]
    BY DEF IInv, Dated, TypeOK
<1>2. [s EXCEPT !.left = @ \ {e}] = [from |-> s.from, to |-> s.to, left |-> s.left \ {e}]
    BY <1>1
<1>3. wire' \subseteq [from : Nodes, to : Nodes, left : SUBSET DOMAIN created]
    BY <1>1, <1>2 DEF IInv, Dated, TypeOK, Take
<1>4. e \in Events /\ e \in DOMAIN created /\ UNCHANGED <<now, created>>
    BY <1>1 DEF IInv, Dated, TypeOK, Take
<1>5. CASE Fresh(s.to, e) /\ e \notin Known(s.to) /\ Learn(s.to, e)
    <2>1. created[e] \in Int /\ Wall(s.to) \in Int /\ Life \in Nat
        BY <1>1, <1>4 DEF IInv, Dated, TypeOK, Wall
    <2>2. created[e] <= Wall(s.to) /\ ~(Wall(s.to) - created[e] >= Life)
        BY <1>5, <2>1 DEF Fresh
    <2>3. AllSettled => shown[s.to][e] = 0
        <3>1. shown[s.to][e] \in 0..2 /\ (AllSettled => Settled(s.to, e))
            BY <1>1, <1>4 DEF IInv, Dated, TypeOK, AllSettled
        <3> QED BY <1>5, <2>2, <3>1 DEF Settled
    <2>4. /\ DOMAIN created \subseteq Events /\ IsFiniteSet(DOMAIN created)
          /\ \A x \in DOMAIN created : created[x] \in Int
        BY DEF IInv, Dated, TypeOK
    <2>5. Dated' /\ (AllSettled /\ shown[s.to][e] = 0 => AllSettled')
        BY <1>1, <1>3, <1>4, <1>5, <2>2, <2>4, LearnHolds DEF IInv
    <2> QED BY <1>4, <2>3, <2>5 DEF IInv, RoomSoFar
<1>6. CASE UNCHANGED <<received, shown>>
    BY <1>3, <1>4, <1>6
    DEF IInv, Dated, AllSettled, RoomSoFar, TypeOK, Settled, Learned, Known, Wall
<1> QED BY <1>5, <1>6 DEF Take

\* As long as a cache cannot have overflowed, its newest Cap events are all it holds.
LEMMA RoomKeepsAll ==
    ASSUME IInv, RoomSoFar, NEW n \in Nodes, NEW S \in Newest(n, Known(n), Cap)
    PROVE  S = Known(n)
<1> USE MeshAssumption
<1>1. IsFiniteSet(DOMAIN created) /\ Known(n) \subseteq DOMAIN created
    BY DEF IInv, Dated, TypeOK
<1>2. /\ IsFiniteSet(Known(n)) /\ Cardinality(Known(n)) \in Nat
      /\ Cardinality(DOMAIN created) \in Nat
      /\ Cardinality(Known(n)) <= Cardinality(DOMAIN created)
    BY <1>1, FS_Subset, FS_CardinalityType
<1>3. S \subseteq Known(n) /\ Cardinality(S) = Cardinality(Known(n))
    BY <1>2 DEF RoomSoFar, Newest
<1> QED BY <1>2, <1>3, FS_Subset

LEMMA FinishHolds == ASSUME IInv, NEW s \in wire, Finish(s)
                     PROVE  IInv'
<1> USE MeshAssumption
<1>1. s.to \in Nodes /\ UNCHANGED <<now, created, shown>>
      /\ wire' \subseteq [from : Nodes, to : Nodes, left : SUBSET DOMAIN created]
    BY DEF IInv, Dated, TypeOK, Finish
<1>2. PICK S \in Newest(s.to, Known(s.to), Cap) :
          received' = [received EXCEPT ![s.to] = [e \in S |-> received[s.to][e]]]
    BY DEF Finish
<1>3. S \subseteq Known(s.to)
    BY NewestAmong
<1>4. /\ Dated'
      /\ AllSettled /\ (\A e \in Known(s.to) \ S : now - received[s.to][e] >= Life) => AllSettled'
    BY <1>1, <1>2, <1>3, ForgetHolds DEF IInv
<1>5. ASSUME RoomSoFar PROVE AllSettled'
    <2>1. S = Known(s.to)
        BY <1>1, <1>5, RoomKeepsAll
    <2> QED BY <1>4, <1>5, <2>1 DEF IInv
<1> QED BY <1>1, <1>4, <1>5 DEF IInv, RoomSoFar

LEMMA StepHolds == ASSUME IInv, [Next]_vars PROVE IInv'
<1> USE DEF Dated, AllSettled, RoomSoFar
<1>1. CASE Clock
    BY <1>1, ClockHolds
<1>2. CASE \E n \in Nodes, e \in Events : Publish(n, e)
    BY <1>2, PublishHolds
<1>3. CASE \E n, m \in Nodes : Send(n, m)
    BY <1>3, SendHolds
<1>4. ASSUME NEW s \in wire, Finish(s) PROVE IInv'
    BY <1>4, FinishHolds
<1>5. ASSUME NEW s \in wire, Lose(s) PROVE IInv'
    BY <1>5 DEF Lose, IInv, TypeOK, Settled, Learned, Known, Wall
<1>6. ASSUME NEW s \in wire, NEW e \in s.left, Take(s, e) PROVE IInv'
    BY <1>6, TakeHolds
<1>7. CASE UNCHANGED vars
    BY <1>7 DEF vars, IInv, TypeOK, Settled, Learned, Known, Wall
<1> QED BY <1>1, <1>2, <1>3, <1>4, <1>5, <1>6, <1>7 DEF Next

LEMMA Holds == Spec => []IInv
<1>1. Init => IInv
    BY InitHolds
<1>2. IInv /\ [Next]_vars => IInv'
    BY StepHolds
<1> QED BY <1>1, <1>2, PTL DEF Spec

\* "IDs prevent loops" (mesh.py:94): until a cache may have overflowed, no node shows an event
\* twice, whatever the wall clocks of the nodes say and however snapshots are delayed.
THEOREM EventsShownOnce == Spec => []ShownOnce
<1>1. IInv => ShownOnce
    BY DEF IInv, AllSettled, Settled, ShownOnce
<1> QED BY <1>1, Holds, PTL

\* "Retain seen IDs longer than forwarding lifetime" (mesh.py:94): until a cache may have
\* overflowed, a node still knows what it has shown and would accept again.
THEOREM SeenIdsRetained == Spec => []RetainedWhileFresh
<1>1. IInv => RetainedWhileFresh
    <2> SUFFICES ASSUME IInv, RoomSoFar, NEW n \in Nodes, NEW e \in DOMAIN created,
                        shown[n][e] > 0, Fresh(n, e)
                 PROVE  e \in Known(n)
        BY DEF RetainedWhileFresh
    <2>1. e \in Events /\ shown[n][e] \in 0..2 /\ created[e] \in Int
        BY DEF IInv, Dated, TypeOK
    <2>2. Settled(n, e)
        BY <2>1 DEF IInv, AllSettled
    <2>3. Wall(n) \in Int /\ Life \in Int
        BY MeshAssumption DEF IInv, Dated, TypeOK, Wall
    <2> QED BY <2>1, <2>2, <2>3 DEF Settled, Fresh
<1> QED BY <1>1, Holds, PTL

\* "Creation timestamps expire events after 45 seconds" (docs/protocol.md:22): no node takes up
\* an event that is too old by the wall clocks of all, whether or not a cache overflowed.
THEOREM OldEventsDie == Spec => EchoesDie
<1> DEFINE TooOld(e) == \A n \in Nodes : Wall(n) - created[e] >= Life
           Told(e)   == \A n \in Nodes : (e \in Known(n))' => e \in Known(n)
<1>1. ASSUME IInv, [Next]_vars, NEW e \in DOMAIN created, TooOld(e) PROVE Told(e)
    <2>1. \A n \in Nodes : /\ Wall(n) - created[e] >= Life /\ ~Fresh(n, e)
                           /\ \A x : x \in Known(n) => x \in DOMAIN created
        BY <1>1, MeshAssumption DEF Fresh, IInv, Dated, TypeOK, Wall
    <2>2. DOMAIN received = Nodes
        BY <1>1 DEF IInv, Dated, TypeOK
    <2>3. ASSUME NEW n \in Nodes, NEW x \in Events, Learn(n, x), x # e PROVE Told(e)
        BY <2>2, <2>3 DEF Learn, Known
    <2>4. CASE \E n \in Nodes, x \in Events : Publish(n, x)
        BY <2>3, <2>4 DEF Publish
    <2>5. CASE \E n, m \in Nodes : Send(n, m)
        BY <2>2, <2>5 DEF Send, Known, Unexpired
    <2>6. ASSUME NEW s \in wire, NEW x \in s.left, Take(s, x) PROVE Told(e)
        <3>1. s.to \in Nodes /\ x \in Events
            BY <1>1 DEF IInv, Dated, TypeOK
        <3>2. CASE UNCHANGED <<received, shown>>
            BY <3>2 DEF Known
        <3>3. CASE Fresh(s.to, x) /\ Learn(s.to, x)
            BY <2>1, <2>3, <3>1, <3>3
        <3> QED BY <2>6, <3>2, <3>3 DEF Take
    <2>7. ASSUME NEW s \in wire, Finish(s) PROVE Told(e)
        <3>1. PICK S \in Newest(s.to, Known(s.to), Cap) :
                 received' = [received EXCEPT ![s.to] = [y \in S |-> received[s.to][y]]]
            BY <2>7 DEF Finish
        <3>2. S \subseteq Known(s.to)
            BY NewestAmong
        <3> QED BY <2>2, <3>1, <3>2 DEF Known
    <2>8. CASE UNCHANGED received
        BY <2>8 DEF Known
    <2> QED BY <1>1, <2>4, <2>5, <2>6, <2>7, <2>8 DEF Next, Clock, Lose, vars
<1>2. IInv /\ [Next]_vars
        => [\A e \in DOMAIN created : TooOld(e) => Told(e)]_vars
    BY <1>1
<1>3. Spec => [][Next]_vars
    BY DEF Spec
<1> QED BY <1>2, <1>3, Holds, PTL DEF EchoesDie

-----------------------------------------------------------------------------
(* Presence (MeshPresence).  The table of a node keeps its bound.  It is checked for room and     *)
(* filled without a pause in between, so the bound is inductive once tables and snapshots are     *)
(* known to be finite.                                                                            *)

\* Tables are within the bound, and answers under way list finitely many addresses.
TablesInv == /\ DOMAIN peers = Meeting /\ DOMAIN polls = Meeting
             /\ \A n \in Meeting : IsFiniteSet(Here!Known(n)) /\ Cardinality(Here!Known(n)) <= MaxPeers
             /\ \A n \in Meeting : \A k \in DOMAIN polls[n] : \A snapshot \in polls[n][k] :
                   IsFiniteSet(snapshot.live)

\* The cardinality that MeshPresence counts with is the one of the theorems about finite sets.
LEMMA TablesCounted == \A S : Here!Cardinality(S) = Cardinality(S)
BY DEF Here!Cardinality, Cardinality, Here!IsFiniteSet, IsFiniteSet

\* A smaller table keeps the bound.
LEMMA Smaller == ASSUME NEW S, IsFiniteSet(S), Cardinality(S) <= MaxPeers, NEW T \in SUBSET S
                 PROVE  IsFiniteSet(T) /\ Cardinality(T) <= MaxPeers
<1>1. /\ IsFiniteSet(T) /\ Cardinality(T) <= Cardinality(S)
      /\ Cardinality(T) \in Nat /\ Cardinality(S) \in Nat
    BY FS_Subset, FS_CardinalityType
<1> QED BY <1>1, MeetingAssumption

\* merge() fills the table up to the bound.
LEMMA MergeBound == ASSUME TablesInv, NEW n \in Meeting, NEW k, NEW snapshot, Here!Admits(n, k),
                           IsFiniteSet(snapshot.live), NEW table \in Here!Merges(n, k, snapshot)
                    PROVE  IsFiniteSet(DOMAIN table) /\ Cardinality(DOMAIN table) <= MaxPeers
<1> DEFINE base  == Here!Known(n) \cup {k}
           heard == Here!Heard(n, k, snapshot)
<1>1. IsFiniteSet(base) /\ Cardinality(base) \in Nat /\ Cardinality(base) <= MaxPeers
    <2>1. /\ IsFiniteSet(Here!Known(n)) /\ Cardinality(Here!Known(n)) \in Nat
          /\ Cardinality(Here!Known(n)) <= MaxPeers
        BY FS_CardinalityType DEF TablesInv
    <2>2. /\ IsFiniteSet(base) /\ Cardinality(base) \in Nat
          /\ Cardinality(base) = IF k \in Here!Known(n) THEN Cardinality(Here!Known(n))
                                 ELSE Cardinality(Here!Known(n)) + 1
        BY <2>1, FS_AddElement, FS_CardinalityType
    <2> QED BY <2>1, <2>2, MeetingAssumption, TablesCounted DEF Here!Admits
<1>2. IsFiniteSet(heard) /\ Cardinality(heard) \in Nat
    BY FS_Subset, FS_CardinalityType DEF Here!Heard
<1>3. PICK S \in SUBSET heard :
         /\ Cardinality(S) = IF Cardinality(heard) < Here!Room(n, k) THEN Cardinality(heard)
                             ELSE Here!Room(n, k)
         /\ table = Here!Merged(n, k, snapshot, S)
    BY TablesCounted DEF Here!Merges
<1>4. IsFiniteSet(S) /\ Cardinality(S) \in Nat
    BY <1>2, FS_Subset, FS_CardinalityType
<1>5. Cardinality(S) <= MaxPeers - Cardinality(base)
    BY <1>1, <1>2, <1>3, MeetingAssumption, TablesCounted DEF Here!Room
<1>6. /\ IsFiniteSet(base \cup S) /\ Cardinality(base \cup S) <= Cardinality(base) + Cardinality(S)
      /\ Cardinality(base \cup S) \in Nat
    <2>1. /\ IsFiniteSet(base \cup S) /\ IsFiniteSet(base \cap S)
          /\ Cardinality(base \cup S)
                = Cardinality(base) + Cardinality(S) - Cardinality(base \cap S)
        BY <1>1, <1>4, FS_Union, FS_Intersection
    <2>2. Cardinality(base \cap S) \in Nat /\ Cardinality(base \cup S) \in Nat
        BY <2>1, FS_CardinalityType
    <2> QED BY <1>1, <1>4, <2>1, <2>2
<1>7. DOMAIN table = base \cup S
    BY <1>3 DEF Here!Merged
<1> QED BY <1>1, <1>4, <1>5, <1>6, <1>7, MeetingAssumption

\* Answers under way stay finite when polls only end or start.
LEMMA Replaced ==
    ASSUME TablesInv, NEW n \in Meeting, NEW table, peers' = [peers EXCEPT ![n] = table],
           IsFiniteSet(DOMAIN table), Cardinality(DOMAIN table) <= MaxPeers
    PROVE  /\ DOMAIN peers' = Meeting
           /\ \A m \in Meeting : IsFiniteSet(Here!Known(m)') /\ Cardinality(Here!Known(m)') <= MaxPeers
<1>1. DOMAIN peers' = Meeting
    BY DEF TablesInv
<1>2. \A m \in Meeting : Here!Known(m)' = IF m = n THEN DOMAIN table ELSE Here!Known(m)
    BY DEF TablesInv, Here!Known
<1> QED BY <1>1, <1>2 DEF TablesInv

\* The polls of n become some of what they were, or are all without an answer.
Fewer(n) == /\ DOMAIN polls' = Meeting
            /\ \A m \in Meeting : \A k \in DOMAIN polls'[m] :
                  polls'[m][k] = {} \/ (k \in DOMAIN polls[m] /\ polls'[m][k] = polls[m][k])

LEMMA FewerFinite == ASSUME TablesInv, NEW n, Fewer(n)
                     PROVE  \A m \in Meeting : \A k \in DOMAIN polls'[m] :
                               \A snapshot \in polls'[m][k] : IsFiniteSet(snapshot.live)
BY DEF TablesInv, Fewer

LEMMA GreetHolds == ASSUME TablesInv, NEW n \in Meeting, NEW k \in Meeting, Here!Greet(n, k)
                    PROVE  TablesInv'
<1>1. IsFiniteSet(Here!Snapshot(n).live)
    BY FS_Subset DEF TablesInv, Here!Snapshot
<1>2. PICK table \in Here!Merges(k, n, Here!Snapshot(n)) :
         /\ peers' = [peers EXCEPT ![k] = table]
         /\ polls' = [polls EXCEPT ![n][k] = {Here!Snapshot(k)'}]
    BY DEF Here!Greet
<1>3. IsFiniteSet(DOMAIN table) /\ Cardinality(DOMAIN table) <= MaxPeers
    BY <1>1, MergeBound DEF Here!Greet
<1>4. /\ DOMAIN peers' = Meeting
      /\ \A m \in Meeting : IsFiniteSet(Here!Known(m)') /\ Cardinality(Here!Known(m)') <= MaxPeers
    BY <1>2, <1>3, Replaced
<1>5. IsFiniteSet(Here!Snapshot(k).live)'
    <2>1. Here!Snapshot(k).live' \subseteq Here!Known(k)'
        BY DEF Here!Snapshot
    <2> QED BY <1>4, <2>1, FS_Subset
<1>6. DOMAIN polls' = Meeting
    BY <1>2 DEF TablesInv
<1>7. ASSUME NEW m \in Meeting, NEW h \in DOMAIN polls'[m], NEW snapshot \in polls'[m][h]
      PROVE  IsFiniteSet(snapshot.live)
    <2>1. CASE m = n /\ h = k
        BY <1>2, <1>5, <2>1 DEF TablesInv, Here!Greet
    <2>2. CASE ~(m = n /\ h = k)
        <3>1. h \in DOMAIN polls[m] /\ snapshot \in polls[m][h]
            BY <1>2, <2>2 DEF TablesInv
        <3> QED BY <3>1 DEF TablesInv
    <2> QED BY <2>1, <2>2
<1> QED BY <1>4, <1>6, <1>7 DEF TablesInv

LEMMA AnswerHolds == ASSUME TablesInv, NEW n \in Meeting, NEW k \in Meeting, Here!Answer(n, k)
                     PROVE  TablesInv'
<1>1. PICK snapshot \in polls[n][k] : \E table \in Here!Merges(n, k, snapshot) :
          peers' = [peers EXCEPT ![n] = table]
    BY DEF Here!Answer
<1>2. PICK table \in Here!Merges(n, k, snapshot) : peers' = [peers EXCEPT ![n] = table]
    BY <1>1
<1>3. IsFiniteSet(snapshot.live)
    BY <1>1 DEF Here!Answer, TablesInv
<1>4. IsFiniteSet(DOMAIN table) /\ Cardinality(DOMAIN table) <= MaxPeers
    BY <1>2, <1>3, MergeBound DEF Here!Answer
<1>5. Fewer(n)
    BY DEF TablesInv, Fewer, Here!Answer, Here!Without
<1> QED BY <1>2, <1>4, <1>5, Replaced, FewerFinite DEF TablesInv, Fewer

LEMMA FailHolds == ASSUME TablesInv, NEW n \in Meeting, NEW k \in Meeting, Here!Fail(n, k)
                   PROVE  TablesInv'
<1>1. DOMAIN peers' = Meeting /\ \A m \in Meeting : Here!Known(m)' = Here!Known(m)
    BY DEF TablesInv, Here!Fail, Here!Known
<1>2. Fewer(n)
    BY DEF TablesInv, Fewer, Here!Fail, Here!Without
<1> QED BY <1>1, <1>2, FewerFinite DEF TablesInv, Fewer

LEMMA WalkHolds == ASSUME TablesInv, NEW n \in Meeting, NEW items, Here!Walk(n, items),
                          polls' = polls
                   PROVE  TablesInv'
<1>1. PICK Q : peers' = [peers EXCEPT ![n] = Here!Swept(n, items, Q)]
    BY DEF Here!Walk
<1>2. DOMAIN Here!Swept(n, items, Q) \subseteq Here!Known(n)
    BY DEF Here!Swept
<1>3. /\ IsFiniteSet(DOMAIN Here!Swept(n, items, Q))
      /\ Cardinality(DOMAIN Here!Swept(n, items, Q)) <= MaxPeers
    BY <1>2, Smaller DEF TablesInv
<1> QED BY <1>1, <1>3, Replaced DEF TablesInv

LEMMA EndsHolds == ASSUME TablesInv, NEW n \in Meeting, Here!Ends(n) PROVE TablesInv'
<1>1. DOMAIN Here!Nothing = {}
    BY DEF Here!Nothing
<1>2. IsFiniteSet(DOMAIN Here!Nothing) /\ Cardinality(DOMAIN Here!Nothing) <= MaxPeers
    BY <1>1, FS_EmptySet, MeetingAssumption
<1>3. Fewer(n)
    BY <1>1 DEF TablesInv, Fewer, Here!Ends
<1> QED BY <1>2, <1>3, Replaced, FewerFinite DEF TablesInv, Fewer, Here!Ends

LEMMA TablesStep == ASSUME TablesInv, [Here!Next]_Here!vars PROVE TablesInv'
<1>1. CASE Here!Clock
    <2>1. DOMAIN peers' = Meeting /\ \A m \in Meeting : Here!Known(m)' = Here!Known(m)
        BY <1>1 DEF Here!Clock, TablesInv, Here!Known
    <2> QED BY <1>1, <2>1 DEF Here!Clock, TablesInv
<1>2. ASSUME NEW n \in Meeting, Here!StartRound(n) \/ Here!Goodbye(n) PROVE TablesInv'
    <2>1. Fewer(n)
        BY <1>2 DEF TablesInv, Fewer, Here!StartRound, Here!Goodbye
    <2>2. peers' = peers
        BY <1>2 DEF Here!StartRound, Here!Goodbye
    <2> QED BY <2>1, <2>2, FewerFinite DEF TablesInv, Fewer, Here!Known
<1>3. ASSUME NEW n \in Meeting, Here!StartSweep(n) PROVE TablesInv'
    BY <1>3, WalkHolds DEF Here!StartSweep
<1>4. ASSUME NEW n \in Meeting, Here!Resume(n) PROVE TablesInv'
    BY <1>4, WalkHolds DEF Here!Resume
<1>5. ASSUME NEW n \in Meeting, Here!PollEnds(n) PROVE TablesInv'
    BY <1>5, GreetHolds, AnswerHolds, FailHolds DEF Here!PollEnds
<1>6. ASSUME NEW n \in Meeting, Here!Exit(n) \/ Here!Crash(n) PROVE TablesInv'
    BY <1>6, EndsHolds DEF Here!Exit, Here!Crash
<1>7. CASE UNCHANGED Here!vars
    BY <1>7 DEF Here!vars, TablesInv, Here!Known
<1> QED BY <1>1, <1>2, <1>3, <1>4, <1>5, <1>6, <1>7 DEF Here!Next, Here!Loop

LEMMA TablesBegin == Here!Init => TablesInv
<1> SUFFICES ASSUME Here!Init PROVE TablesInv
    OBVIOUS
<1>1. ASSUME NEW n \in Meeting
      PROVE  IsFiniteSet(Here!Known(n)) /\ Cardinality(Here!Known(n)) <= MaxPeers
    <2>1. Here!Known(n) = {} \/ Here!Known(n) = {Bootstrap}
        BY DEF Here!Init, Here!Known, Here!Nothing
    <2>2. /\ IsFiniteSet({}) /\ Cardinality({}) = 0
          /\ IsFiniteSet({Bootstrap}) /\ Cardinality({Bootstrap}) = 1
        BY FS_EmptySet, FS_Singleton
    <2> QED BY <2>1, <2>2, MeetingAssumption
<1>2. \A n \in Meeting : DOMAIN polls[n] = {}
    BY DEF Here!Init, Here!Nothing
<1> QED BY <1>1, <1>2 DEF Here!Init, TablesInv

\* "There are at most 16 peers per node" (docs/protocol.md:19) for every mesh: greetings,
\* answers and the addresses they pass on never overfill a table.
THEOREM PeerTablesBounded == Here!Spec => []Here!PeersBounded
<1>1. Here!Init => TablesInv
    BY TablesBegin
<1>2. TablesInv /\ [Here!Next]_Here!vars => TablesInv'
    BY TablesStep
<1>3. TablesInv => Here!PeersBounded
    BY TablesCounted DEF TablesInv, Here!PeersBounded
<1> QED BY <1>1, <1>2, <1>3, PTL DEF Here!Spec
=============================================================================
