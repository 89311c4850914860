---------------------------- MODULE HexWarsProofs ----------------------------
(***************************************************************************)
(* Proofs about HexWars for any board, any players and any bots: about the *)
(* instance that MCLobbyScenes makes of it, of whose constants nothing is  *)
(* used but what HexWars assumes of them.                                  *)
(***************************************************************************)
EXTENDS MCLobbyScenes, Integers, FiniteSetTheorems, TLAPS

Sides == Players \cup {Neutral}

\* A board as step() and forfeit() leave it.
SoundBoard(o, u) == /\ o \in [Cells -> Sides] /\ u \in [Cells -> 0..MaxUnits]
                    /\ \A c \in Cells : o[c] # Neutral => u[c] >= 1

HexInv == Battle!TypeOK /\ Battle!NoHollowCells /\ Battle!DisqualifiedHoldNothing /\ Battle!OverInTime

\* What is assumed of the board, the players and their bots.
LEMMA Board ==
    /\ Neighbors \in [Cells -> SUBSET Cells]
    /\ Home \in [Players -> Cells] /\ \A p, q \in Players : Home[p] = Home[q] => p = q
    /\ {Growth, Attack, Armor} \subseteq [Players -> 1..5]
    /\ MaxUnits \in Nat \ {0} /\ NeutralUnits \in 0..MaxUnits /\ HomeUnits \in 1..MaxUnits
    /\ MaxTurns \in Nat \ {0}
    /\ Neutral \notin Players /\ IsFiniteSet(Players)
    /\ \E p, q \in Players : p # q
<1>1. Battle!IsFiniteSet(Players) <=> IsFiniteSet(Players)
  BY DEF Battle!IsFiniteSet, IsFiniteSet
<1> QED BY <1>1, SceneAssumption DEF Battle!HexAssumption

\* Dividing a positive margin by the winner's factor leaves at least one unit.
LEMMA CeilDivPositive ==
    ASSUME NEW m \in Nat \ {0}, NEW f \in 6..10
    PROVE  Battle!CeilDiv(m, f) \in Nat \ {0}
<1>1. CASE f = 6 BY <1>1 DEF Battle!CeilDiv
<1>2. CASE f = 7 BY <1>2 DEF Battle!CeilDiv
<1>3. CASE f = 8 BY <1>3 DEF Battle!CeilDiv
<1>4. CASE f = 9 BY <1>4 DEF Battle!CeilDiv
<1>5. CASE f = 10 BY <1>5 DEF Battle!CeilDiv
<1> QED BY <1>1, <1>2, <1>3, <1>4, <1>5

LEMMA CapRange == ASSUME NEW n \in Nat PROVE Battle!Cap(n) \in 0..MaxUnits /\ (n >= 1 => Battle!Cap(n) >= 1)
BY Board DEF Battle!Cap

LEMMA FactorRange == ASSUME NEW o, NEW c, NEW p \in Sides PROVE Battle!Factor(o, c, p) \in 6..10
<1>1. p \in Players => Armor[p] \in 1..5 /\ Attack[p] \in 1..5
  BY Board
<1> QED BY <1>1 DEF Battle!Factor, Sides

\* Removing armies keeps the board sound.
LEMMA WithoutSound ==
    ASSUME Battle!TypeOK, Battle!NoHollowCells, NEW gone \in SUBSET Players
    PROVE  SoundBoard(Battle!OwnerWithout(gone), Battle!UnitsWithout(gone))
BY Board DEF Battle!TypeOK, Battle!NoHollowCells, SoundBoard, Battle!OwnerWithout, Battle!UnitsWithout, Sides

\* Orders that valid() accepts on the snapshot, as step() applies them.
SoundOrders(o, u, orders) ==
    \A p \in DOMAIN orders :
       /\ p \in Players
       /\ orders[p] \in [from : Cells, to : Cells, n : 1..MaxUnits]
       /\ o[orders[p].from] = p /\ orders[p].n < u[orders[p].from]

LEMMA GarrisonStays ==
    ASSUME NEW o, NEW u, SoundBoard(o, u), NEW orders, SoundOrders(o, u, orders), NEW c \in Cells
    PROVE  /\ u[c] - Battle!Sent(o, orders, c) \in 0..MaxUnits
           /\ o[c] # Neutral => u[c] - Battle!Sent(o, orders, c) >= 1
BY Board DEF SoundBoard, SoundOrders, Battle!Sent, Sides

\* A battle leaves either an owner with units or a neutral cell.
LEMMA FoughtSound ==
    ASSUME NEW o, NEW u, SoundBoard(o, u), NEW orders, SoundOrders(o, u, orders), NEW c \in Cells
    PROVE  LET b == Battle!Fought(o, u, orders, c)
           IN b[1] \in Sides /\ b[2] \in 0..MaxUnits /\ (b[1] # Neutral => b[2] >= 1)
<1>1. CASE ~Battle!Attacked(orders, c)
  BY <1>1, GarrisonStays DEF Battle!Fought, SoundBoard
<1>2. CASE Battle!Attacked(orders, c) /\ Battle!Winners(o, u, orders, c) = {}
  BY <1>2, Board DEF Battle!Fought, Sides
<1>3. CASE Battle!Attacked(orders, c) /\ Battle!Winners(o, u, orders, c) # {}
  <2> DEFINE w == CHOOSE q \in Battle!Winners(o, u, orders, c) : TRUE
             m == Battle!Margin(o, u, orders, c, w)
             n == Battle!CeilDiv(m, Battle!Factor(o, c, w))
  <2>1. w \in Battle!Winners(o, u, orders, c)
    BY <1>3
  <2>2. w \in Sides /\ m \in Nat \ {0}
    BY <2>1 DEF Battle!Winners, Battle!Armies, Battle!Arriving, Sides, SoundBoard, SoundOrders
  <2>3. n \in Nat \ {0}
    BY <2>2, FactorRange, CeilDivPositive
  <2>4. Battle!Fought(o, u, orders, c) = <<w, Battle!Cap(n)>>
    BY <1>3 DEF Battle!Fought
  <2> HIDE DEF w, m, n
  <2> QED BY <2>2, <2>3, <2>4, CapRange
<1> QED BY <1>1, <1>2, <1>3

LEMMA GrownSound ==
    ASSUME NEW b1 \in Sides, NEW b2 \in 0..MaxUnits, b1 # Neutral => b2 >= 1
    PROVE  /\ Battle!Grown(<<b1, b2>>) \in 0..MaxUnits
           /\ b1 # Neutral => Battle!Grown(<<b1, b2>>) >= 1
<1>1. b1 # Neutral => Growth[b1] \in Nat /\ b2 + Growth[b1] \in Nat /\ b2 + Growth[b1] >= 1
  BY Board DEF Sides
<1> QED BY <1>1, CapRange DEF Battle!Grown
-----------------------------------------------------------------------------
LEMMA InitHex == Battle!Init => HexInv
<1> SUFFICES ASSUME Battle!Init PROVE HexInv
  OBVIOUS
<1>1. Battle!TypeOK /\ Battle!NoHollowCells
  <2>1. ASSUME NEW c \in Cells
        PROVE  /\ owner[c] \in Sides /\ units[c] \in 0..MaxUnits
               /\ owner[c] # Neutral => units[c] >= 1
    <3>1. CASE \E p \in Players : Home[p] = c
      BY <3>1, Board DEF Battle!Init, Sides
    <3>2. CASE ~\E p \in Players : Home[p] = c
      BY <3>2, Board DEF Battle!Init, Sides
    <3> QED BY <3>1, <3>2
  <2>2. owner = [c \in Cells |-> owner[c]] /\ units = [c \in Cells |-> units[c]]
    BY DEF Battle!Init
  <2>3. faults = [p \in Players |-> 0] /\ turn = 0 /\ over = FALSE
    BY DEF Battle!Init
  <2>4. faults \in [Players -> 0..3]
    BY <2>3
  <2>5. MaxTurns \in Nat
    BY Board
  <2>6. turn \in 0..MaxTurns
    BY <2>3, <2>5
  <2>7. over \in BOOLEAN
    BY <2>3
  <2> QED BY <2>1, <2>2, <2>4, <2>6, <2>7 DEF Battle!TypeOK, Battle!NoHollowCells, Sides
<1>2. \A p \in Players : owner[Home[p]] = p
  BY Board DEF Battle!Init
<1>3. Battle!Contested(owner)
  <2>1. \A p \in Players : Battle!AliveIn(owner, p)
    BY <1>2, Board DEF Battle!AliveIn
  <2> QED BY <2>1, Board DEF Battle!Contested
<1>4. turn < MaxTurns /\ \A p \in Players : faults[p] = 0
  BY Board DEF Battle!Init
<1>5. Battle!DisqualifiedHoldNothing /\ Battle!OverInTime
  BY <1>3, <1>4 DEF Battle!DisqualifiedHoldNothing, Battle!OverInTime
<1> QED BY <1>1, <1>5 DEF HexInv

LEMMA ForfeitHex == ASSUME HexInv, NEW p \in Players, Battle!Forfeit(p) PROVE HexInv'
<1> USE DEF HexInv
<1>1. SoundBoard(owner', units')
  BY WithoutSound DEF Battle!Forfeit
<1>2. Battle!TypeOK' /\ Battle!NoHollowCells'
  BY <1>1 DEF SoundBoard, Battle!Forfeit, Battle!TypeOK, Battle!NoHollowCells, Battle!Finished, Sides
<1>3. \A q \in Players : Battle!Alive(q)' => Battle!Alive(q)
  BY Board DEF Battle!Forfeit, Battle!OwnerWithout, Battle!Alive, Battle!AliveIn
<1>4. Battle!DisqualifiedHoldNothing'
  BY <1>3 DEF Battle!Forfeit, Battle!DisqualifiedHoldNothing
<1>5. Battle!OverInTime'
  BY DEF Battle!Forfeit, Battle!OverInTime, Battle!Finished, Battle!TypeOK
<1> QED BY <1>2, <1>4, <1>5

\* The orders step() gathers were valid on the board it fights on: a disqualified player
\* gave none.
LEMMA OrderedSound ==
    ASSUME Battle!TypeOK, NEW r \in Battle!Replies, NEW gone \in SUBSET {p \in DOMAIN r : r[p] = Fault}
    PROVE  SoundOrders(Battle!OwnerWithout(gone), Battle!UnitsWithout(gone), Battle!Ordered(r))
<1>1. ASSUME NEW p \in DOMAIN Battle!Ordered(r)
      PROVE  /\ p \in Players /\ p \notin gone
             /\ Battle!Ordered(r)[p] \in Battle!Orders(p)
  BY DEF Battle!Replies, Battle!Ordered
<1>2. ASSUME NEW p \in DOMAIN Battle!Ordered(r)
      PROVE  /\ p \in Players
             /\ Battle!Ordered(r)[p] \in [from : Cells, to : Cells, n : 1..MaxUnits]
             /\ Battle!OwnerWithout(gone)[Battle!Ordered(r)[p].from] = p
             /\ Battle!Ordered(r)[p].n < Battle!UnitsWithout(gone)[Battle!Ordered(r)[p].from]
  BY <1>1 DEF Battle!Orders, Battle!OwnerWithout, Battle!UnitsWithout
<1> QED BY <1>2 DEF SoundOrders

LEMMA StepHex == ASSUME HexInv, NEW r \in Battle!Replies, Battle!Step(r) PROVE HexInv'
<1> USE DEF HexInv
<1> DEFINE failed == {p \in DOMAIN r : r[p] = Fault}
           gone == {p \in failed : faults[p] >= 2}
           orders == Battle!Ordered(r)
           o == Battle!OwnerWithout(gone)
           u == Battle!UnitsWithout(gone)
           board == [c \in Cells |-> Battle!Fought(o, u, orders, c)]
<1>r. DOMAIN r = {p \in Players : Battle!Alive(p)}
  BY DEF Battle!Replies
<1>1. /\ ~over
      /\ faults' = [p \in Players |-> IF p \in failed THEN faults[p] + 1 ELSE faults[p]]
      /\ \/ /\ Battle!Finished(o, turn) /\ owner' = o /\ units' = u /\ turn' = turn /\ over' = TRUE
         \/ /\ ~Battle!Finished(o, turn)
            /\ owner' = [c \in Cells |-> board[c][1]]
            /\ units' = [c \in Cells |-> Battle!Grown(board[c])]
            /\ turn' = turn + 1 /\ over' = Battle!Finished(owner', turn + 1)
  BY DEF Battle!Step
<1>2. SoundBoard(o, u)
  BY <1>r, WithoutSound
<1>3. SoundOrders(o, u, orders)
  BY OrderedSound
<1>g. gone \subseteq Players /\ failed \subseteq {p \in Players : Battle!Alive(p)}
  BY <1>r
<1>o. /\ o \in [Cells -> Sides] /\ \A c \in Cells : o[c] \notin gone
      /\ \A q \in Players : Battle!AliveIn(o, q) => Battle!Alive(q) /\ q \notin gone
  BY <1>g, <1>2, Board DEF Battle!OwnerWithout, Battle!Alive, Battle!AliveIn, SoundBoard
\* A cell is won by the army that held it or by one whose order points at it.
<1>w. ASSUME NEW c \in Cells, Battle!Fought(o, u, orders, c)[1] # Neutral
      PROVE  Battle!Fought(o, u, orders, c)[1] \in DOMAIN orders \cup {o[c]}
  <2>1. CASE ~Battle!Attacked(orders, c)
    BY <2>1 DEF Battle!Fought
  <2>2. CASE Battle!Attacked(orders, c) /\ Battle!Winners(o, u, orders, c) # {}
    <3>1. Battle!Fought(o, u, orders, c)[1] \in Battle!Winners(o, u, orders, c)
      BY <2>2 DEF Battle!Fought
    <3> QED BY <3>1 DEF Battle!Winners, Battle!Armies, Battle!Arriving
  <2>3. CASE Battle!Attacked(orders, c) /\ Battle!Winners(o, u, orders, c) = {}
    BY <2>3, <1>w DEF Battle!Fought
  <2> QED BY <2>1, <2>2, <2>3
<1>d. \A p \in DOMAIN orders : p \in Players /\ Battle!Alive(p) /\ p \notin gone
  BY <1>r, <1>g DEF Battle!Ordered
<1>b. ASSUME NEW c \in Cells
      PROVE  /\ board[c][1] \in Sides /\ Battle!Grown(board[c]) \in 0..MaxUnits
             /\ board[c][1] # Neutral => Battle!Grown(board[c]) >= 1
  <2> DEFINE b == Battle!Fought(o, u, orders, c)
  <2>1. b[1] \in Sides /\ b[2] \in 0..MaxUnits /\ (b[1] # Neutral => b[2] >= 1)
    BY <1>2, <1>3, FoughtSound
  <2>2. board[c] = b /\ Battle!Grown(b) = Battle!Grown(<<b[1], b[2]>>)
    BY DEF Battle!Grown
  <2> HIDE DEF b
  <2> QED BY <2>1, <2>2, GrownSound
<1>f. faults' \in [Players -> 0..3] /\ \A p \in Players : faults'[p] = 3 => p \in gone \/ faults[p] = 3
  <2>1. \A p \in failed : faults[p] \in 0..3 /\ faults[p] # 3
    BY <1>g DEF Battle!TypeOK, Battle!DisqualifiedHoldNothing
  <2> QED BY <1>1, <2>1 DEF Battle!TypeOK
<1>3s. CASE Battle!Finished(o, turn) /\ owner' = o /\ units' = u /\ turn' = turn /\ over' = TRUE
  <2>1. Battle!TypeOK' /\ Battle!NoHollowCells'
    BY <1>2, <1>3s, <1>f DEF SoundBoard, Battle!TypeOK, Battle!NoHollowCells, Sides
  <2>2. Battle!DisqualifiedHoldNothing'
    BY <1>3s, <1>f, <1>o DEF Battle!DisqualifiedHoldNothing, Battle!Alive
  <2> QED BY <1>3s, <2>1, <2>2 DEF Battle!OverInTime
<1>4s. CASE /\ ~Battle!Finished(o, turn)
            /\ owner' = [c \in Cells |-> board[c][1]]
            /\ units' = [c \in Cells |-> Battle!Grown(board[c])]
            /\ turn' = turn + 1 /\ over' = Battle!Finished(owner', turn + 1)
  <2>1. owner' \in [Cells -> Sides] /\ units' \in [Cells -> 0..MaxUnits] /\ Battle!NoHollowCells'
    BY <1>4s, <1>b DEF Battle!NoHollowCells
  <2>2. turn' \in 0..MaxTurns /\ over' \in BOOLEAN /\ turn' = turn + 1
    BY <1>4s, Board DEF Battle!Finished, Battle!TypeOK
  <2>3. Battle!TypeOK'
    BY <2>1, <2>2, <1>f DEF Battle!TypeOK, Sides
  <2>4. \A p \in Players : Battle!AliveIn(owner', p) => Battle!AliveIn(owner, p) /\ p \notin gone
    <3>1. ASSUME NEW p \in Players, NEW c \in Cells, owner'[c] = p
          PROVE  Battle!AliveIn(owner, p) /\ p \notin gone
      <4>1. Battle!Fought(o, u, orders, c)[1] = p /\ p # Neutral
        BY <1>4s, <3>1, Board
      <4>2. CASE p \in DOMAIN orders
        BY <4>2, <1>d DEF Battle!Alive
      <4>3. CASE p = o[c]
        BY <4>3, <1>o DEF Battle!Alive, Battle!AliveIn
      <4> QED BY <4>1, <4>2, <4>3, <1>w
    <3> QED BY <3>1 DEF Battle!AliveIn
  <2>5. Battle!DisqualifiedHoldNothing'
    BY <2>4, <1>f DEF Battle!DisqualifiedHoldNothing, Battle!Alive
  <2>6. Battle!OverInTime'
    <3>1. ~over' => Battle!Contested(owner') /\ ~(turn + 1 >= MaxTurns)
      BY <1>4s DEF Battle!Finished
    <3>2. Battle!Contested(owner)' <=> Battle!Contested(owner')
      BY DEF Battle!Contested, Battle!AliveIn
    <3> QED BY <3>1, <3>2, <2>2, Board DEF Battle!OverInTime, Battle!TypeOK
  <2> QED BY <2>1, <2>3, <2>5, <2>6
<1> QED BY <1>1, <1>3s, <1>4s

LEMMA NextHex == HexInv /\ [Battle!Next]_Battle!vars => HexInv'
<1> SUFFICES ASSUME HexInv, [Battle!Next]_Battle!vars PROVE HexInv'
  OBVIOUS
<1>1. CASE UNCHANGED Battle!vars
  BY <1>1 DEF Battle!vars, HexInv, Battle!TypeOK, Battle!NoHollowCells,
     Battle!DisqualifiedHoldNothing, Battle!OverInTime, Battle!Contested, Battle!Alive, Battle!AliveIn
<1> QED BY <1>1, ForfeitHex, StepHex DEF Battle!Next, Battle!Turn

Conquest == \A c \in Cells : owner'[c] \notin {owner[c], Neutral} =>
                \E d \in Cells : c \in Neighbors[d] /\ owner[d] = owner'[c] /\ units[d] >= 2

LEMMA StepConquest == ASSUME Battle!TypeOK, NEW r \in Battle!Replies, Battle!Step(r) PROVE Conquest
<1> DEFINE gone == {p \in {q \in DOMAIN r : r[q] = Fault} : faults[p] >= 2}
           orders == Battle!Ordered(r)
           o == Battle!OwnerWithout(gone)
           u == Battle!UnitsWithout(gone)
<1>1. \/ owner' = o
      \/ owner' = [c \in Cells |-> [d \in Cells |-> Battle!Fought(o, u, orders, d)][c][1]]
  BY DEF Battle!Step
<1>2. \A c \in Cells : o[c] \in {owner[c], Neutral}
  BY DEF Battle!OwnerWithout
<1>3. SUFFICES ASSUME NEW c \in Cells, owner'[c] \notin {owner[c], Neutral}
               PROVE  \E d \in Cells : c \in Neighbors[d] /\ owner[d] = owner'[c] /\ units[d] >= 2
  BY DEF Conquest
<1>4. owner'[c] = Battle!Fought(o, u, orders, c)[1] /\ owner'[c] # o[c] /\ owner'[c] # Neutral
  BY <1>1, <1>2, <1>3
<1>5. owner'[c] \in Battle!Arriving(orders, c)
  <2>1. Battle!Attacked(orders, c) /\ Battle!Winners(o, u, orders, c) # {}
    BY <1>4 DEF Battle!Fought
  <2>2. owner'[c] \in Battle!Winners(o, u, orders, c)
    BY <1>4, <2>1 DEF Battle!Fought
  <2> QED BY <1>4, <2>2 DEF Battle!Winners, Battle!Armies
<1>6. /\ owner'[c] \in DOMAIN orders /\ orders[owner'[c]].to = c
      /\ orders[owner'[c]] \in Battle!Orders(owner'[c])
  BY <1>5 DEF Battle!Arriving, Battle!Ordered, Battle!Replies
<1>7. PICK d \in Cells : d = orders[owner'[c]].from
  BY <1>6 DEF Battle!Orders
<1>8. c \in Neighbors[d] /\ owner[d] = owner'[c] /\ orders[owner'[c]].n \in 1..MaxUnits
      /\ orders[owner'[c]].n < units[d] /\ units[d] \in 0..MaxUnits
  BY <1>6, <1>7 DEF Battle!Orders, Battle!TypeOK
<1> QED BY <1>8, Board

THEOREM HexInvariance == Battle!Spec => []HexInv
BY InitHex, NextHex, PTL DEF Battle!Spec

\* Units, owners, faults and the turn stay in range whatever the bots answer.
THEOREM HexTypeCorrect == Battle!Spec => []Battle!TypeOK
BY HexInvariance, PTL DEF HexInv

\* No order, battle, growth or forfeit leaves an owned cell without units.
THEOREM NoHollowCellsEver == Battle!Spec => []NoHollowCells
BY HexInvariance, PTL DEF HexInv, NoHollowCells

\* A disqualified army holds nothing at any later time.
THEOREM DisqualifiedForGood == Battle!Spec => []Battle!DisqualifiedHoldNothing
BY HexInvariance, PTL DEF HexInv

\* A match that is not over has two armies and a turn left.
THEOREM OverWhenDecided == Battle!Spec => []Battle!OverInTime
BY HexInvariance, PTL DEF HexInv

\* A cell changes hands only towards an army that had units to send next door.
THEOREM ConquestsAreMarches == Battle!Spec => Battle!ConqueredFromNextDoor
<1>1. ASSUME Battle!TypeOK, [Battle!Next]_Battle!vars PROVE [Conquest]_Battle!vars
  <2>1. CASE \E p \in Players : Battle!Forfeit(p)
    BY <2>1 DEF Battle!Forfeit, Battle!OwnerWithout, Conquest
  <2>2. CASE Battle!Turn
    BY <1>1, <2>2, StepConquest DEF Battle!Turn
  <2> QED BY <1>1, <2>1, <2>2 DEF Battle!Next
<1>2. Battle!ConqueredFromNextDoor <=> [][Conquest]_Battle!vars
  BY PTL DEF Battle!ConqueredFromNextDoor, Conquest
<1> QED BY <1>1, <1>2, HexTypeCorrect, PTL DEF Battle!Spec
-----------------------------------------------------------------------------
(* Sums.  Margin() adds the strengths of an army's opponents with MapThenSumSet, a recursive      *)
(* function on the subsets of a set.  That there is such a function follows from one that is not  *)
(* recursive: the number of marks, when everybody gets as many as he weighs.                      *)

Pick(s) == CHOOSE x \in s : TRUE

\* f adds up weights as MapThenSumSet does.
Adds(S, w, f) == f = [s \in SUBSET S |-> IF s = {} THEN 0 ELSE w[Pick(s)] + f[s \ {Pick(s)}]]

LEMMA SumExists == ASSUME NEW S, IsFiniteSet(S), NEW w \in [S -> Nat]
                   PROVE  \E f : Adds(S, w, f)
<1> DEFINE Mark(x)  == {x} \X (1..w[x])
           Marks(s) == UNION {Mark(x) : x \in s}
           f        == [s \in SUBSET S |-> Cardinality(Marks(s))]
<1>1. ASSUME NEW x \in S PROVE IsFiniteSet(Mark(x)) /\ Cardinality(Mark(x)) = w[x]
  <2>1. IsFiniteSet({x}) /\ Cardinality({x}) = 1
    BY FS_Singleton
  <2>2. w[x] \in Nat
    OBVIOUS
  <2>3. IsFiniteSet(1..w[x]) /\ Cardinality(1..w[x]) = w[x]
    BY <2>2, FS_Interval
  <2>4. IsFiniteSet(Mark(x)) /\ Cardinality(Mark(x)) = Cardinality({x}) * Cardinality(1..w[x])
    BY <2>1, <2>3, FS_Product
  <2> QED BY <2>1, <2>2, <2>3, <2>4
<1>2. ASSUME NEW s \in SUBSET S PROVE IsFiniteSet(Marks(s))
  <2> DEFINE T == {Mark(x) : x \in s}
             g == [x \in s |-> Mark(x)]
  <2>1. g \in Surjection(s, T)
    BY DEF Surjection
  <2>2. IsFiniteSet(T)
    BY <2>1, FS_Subset, FS_Surjection DEF ExistsSurjection
  <2>3. \A U \in T : IsFiniteSet(U)
    BY <1>1
  <2> QED BY <2>2, <2>3, FS_UNION
<1>3. ASSUME NEW s \in SUBSET S, s # {} PROVE f[s] = w[Pick(s)] + f[s \ {Pick(s)}]
  <2> DEFINE x == Pick(s)
             t == s \ {x}
  <2>1. x \in s
    BY <1>3 DEF Pick
  <2> HIDE DEF x
  <2>2. Marks(s) = Marks(t) \cup Mark(x) /\ Marks(t) \cap Mark(x) = {}
    BY <2>1
  <2>3. /\ IsFiniteSet(Marks(t)) /\ IsFiniteSet(Mark(x)) /\ Cardinality(Mark(x)) = w[x]
        /\ Cardinality(Marks(t)) \in Nat /\ w[x] \in Nat
    BY <1>1, <1>2, <2>1, FS_CardinalityType
  <2> HIDE DEF Mark, Marks
  <2>4. Cardinality(Marks(s)) = Cardinality(Marks(t)) + Cardinality(Mark(x))
    <3>1. Cardinality(Marks(t) \cup Mark(x))
             = Cardinality(Marks(t)) + Cardinality(Mark(x)) - Cardinality(Marks(t) \cap Mark(x))
      BY <2>3, FS_Union
    <3>2. Cardinality(Marks(t) \cap Mark(x)) = 0
      BY <2>2, FS_EmptySet
    <3> QED BY <2>2, <2>3, <3>1, <3>2
  <2>5. f[s] = Cardinality(Marks(s)) /\ f[t] = Cardinality(Marks(t))
    OBVIOUS
  <2> QED BY <2>3, <2>4, <2>5 DEF x
<1>4. f[{}] = 0
  <2>1. Marks({}) = {}
    OBVIOUS
  <2> HIDE DEF Marks
  <2> QED BY <2>1, FS_EmptySet
<1>5. f = [s \in SUBSET S |-> f[s]]
  OBVIOUS
<1> HIDE DEF f
<1>6. f = [s \in SUBSET S |-> IF s = {} THEN 0 ELSE w[Pick(s)] + f[s \ {Pick(s)}]]
  BY <1>3, <1>4, <1>5
<1> QED BY <1>6 DEF Adds

\* A sum of natural numbers is at least each of them.
LEMMA SumCovers == ASSUME NEW S, IsFiniteSet(S), NEW w \in [S -> Nat], NEW f, Adds(S, w, f)
                   PROVE  f[S] \in Nat /\ \A q \in S : w[q] <= f[S]
<1> DEFINE Covers(s) == f[s] \in Nat /\ \A q \in s : w[q] <= f[s]
           Bad == {s \in SUBSET S : ~Covers(s)}
<1>1. SUFFICES ASSUME Bad # {} PROVE FALSE
  OBVIOUS
<1>2. PICK s \in Bad : \A t \in Bad : ~ (<<t, s>> \in StrictSubsetOrdering(S))
  <2>1. Bad \subseteq FiniteSubsetsOf(S)
    BY FS_Subset DEF FiniteSubsetsOf
  <2>2. IsWellFoundedOn(StrictSubsetOrdering(S), FiniteSubsetsOf(S))
    BY FS_StrictSubsetOrderingWellFounded
  <2> QED BY <1>1, <2>1, <2>2, WFMin, Zenon
<1>3. s \in SUBSET S /\ ~Covers(s)
  OBVIOUS
<1>4. f[s] = IF s = {} THEN 0 ELSE w[Pick(s)] + f[s \ {Pick(s)}]
  BY <1>3, Zenon DEF Adds
<1>5. s # {}
  BY <1>3, <1>4
<1> DEFINE x == Pick(s)
           t == s \ {x}
<1>6. x \in s
  BY <1>5 DEF Pick
<1> HIDE DEF x
<1>7. t \in SUBSET S /\ t \subseteq s /\ t # s
  BY <1>3, <1>6
<1>8. Covers(t)
  BY <1>2, <1>3, <1>7 DEF StrictSubsetOrdering
<1>9. w[x] \in Nat /\ f[s] = w[x] + f[t] /\ \A q \in s : w[q] \in Nat /\ (q = x \/ q \in t)
  BY <1>3, <1>4, <1>5, <1>6 DEF x
<1> HIDE DEF t
<1>10. Covers(s)
  BY <1>8, <1>9
<1> QED BY <1>3, <1>10
-----------------------------------------------------------------------------
\* What step() compares at a cell.
Strength(o, u, orders, c, p) == Battle!Army(o, u, orders, c, p) * Battle!Factor(o, c, p)

\* An army that comes out on top is stronger than each of the others, by its margin at least.
LEMMA MarginBound ==
    ASSUME NEW o, NEW u, NEW orders, NEW c, IsFiniteSet(Battle!Armies(o, orders, c)),
           \A q \in Battle!Armies(o, orders, c) : Strength(o, u, orders, c, q) \in Nat,
           NEW p \in Battle!Armies(o, orders, c), NEW q \in Battle!Armies(o, orders, c) \ {p}
    PROVE  /\ Battle!Margin(o, u, orders, c, p) \in Int
           /\ Battle!Margin(o, u, orders, c, p)
                 <= Strength(o, u, orders, c, p) - Strength(o, u, orders, c, q)
<1> DEFINE S == Battle!Armies(o, orders, c) \ {p}
           w == [x \in S |-> Strength(o, u, orders, c, x)]
           Goes(f) == f = [s \in SUBSET S |->
                             IF s = {} THEN 0
                             ELSE Strength(o, u, orders, c, Pick(s)) + f[s \ {Pick(s)}]]
           f == CHOOSE f : Goes(f)
<1>1. Battle!Margin(o, u, orders, c, p) = Strength(o, u, orders, c, p) - f[S]
  BY Zenon DEF Battle!Margin, Strength, Battle!MapThenSumSet, Battle!MapThenFoldSet, Pick
<1>2. IsFiniteSet(S) /\ w \in [S -> Nat]
  BY FS_Subset
<1>3. \A s \in SUBSET S : s # {} => w[Pick(s)] = Strength(o, u, orders, c, Pick(s))
  BY DEF Pick
<1>4. \A g : Adds(S, w, g) <=> Goes(g)
  BY <1>3 DEF Adds
<1> HIDE DEF w, Goes
<1>5. \E g : Goes(g)
  BY <1>2, <1>4, SumExists, Zenon
<1>6. Adds(S, w, f)
  BY <1>4, <1>5, Zenon
<1> HIDE DEF f
<1>7. f[S] \in Nat /\ \A x \in S : w[x] <= f[S]
  BY <1>2, <1>6, SumCovers
<1>8. w[q] = Strength(o, u, orders, c, q)
  BY DEF w
<1>9. Strength(o, u, orders, c, p) \in Nat /\ Strength(o, u, orders, c, q) \in Nat /\ q \in S
  OBVIOUS
<1> HIDE DEF S
<1> QED BY <1>1, <1>7, <1>8, <1>9

\* Two armies cannot both be stronger than all the others at a cell together, so step() picks the
\* owner of a cell without regard to the order in which it met the orders.
THEOREM OneWinnerEach == Battle!Spec => []OneWinner
<1>1. HexInv => OneWinner
  <2> SUFFICES ASSUME HexInv, NEW r \in Battle!Replies, NEW c \in Cells,
                      NEW p \in Battle!Winners(owner, units, Battle!Ordered(r), c),
                      NEW q \in Battle!Winners(owner, units, Battle!Ordered(r), c), p # q
               PROVE  FALSE
    BY DEF OneWinner, Battle!OneWinner
  <2> DEFINE orders == Battle!Ordered(r)
             armies == Battle!Armies(owner, orders, c)
             Power(x) == Strength(owner, units, orders, c, x)
  <2>1. SoundBoard(owner, units)
    BY DEF HexInv, Battle!TypeOK, Battle!NoHollowCells, SoundBoard, Sides
  <2>2. SoundOrders(owner, units, orders)
    <3>1. Battle!OwnerWithout({}) = owner /\ Battle!UnitsWithout({}) = units
      BY DEF Battle!OwnerWithout, Battle!UnitsWithout, HexInv, Battle!TypeOK
    <3>2. SoundOrders(Battle!OwnerWithout({}), Battle!UnitsWithout({}), orders)
      BY OrderedSound DEF HexInv
    <3> QED BY <3>1, <3>2
  <2> HIDE DEF orders
  <2>3. armies \subseteq Sides
    BY <2>1, <2>2 DEF Battle!Armies, Battle!Arriving, SoundBoard, SoundOrders
  <2>4. IsFiniteSet(armies)
    <3>1. IsFiniteSet(Sides)
      BY Board, FS_AddElement DEF Sides
    <3> QED BY <2>3, <3>1, FS_Subset
  <2>5. ASSUME NEW x \in armies PROVE Power(x) \in Nat
    <3>1. x \in Battle!Arriving(orders, c) => orders[x].n \in Nat
      BY <2>2 DEF Battle!Arriving, SoundOrders
    <3>2. units[c] - Battle!Sent(owner, orders, c) \in Nat
      BY <2>1, <2>2, GarrisonStays
    <3>3. Battle!Army(owner, units, orders, c, x) \in Nat
      BY <3>1, <3>2 DEF Battle!Army
    <3>4. Battle!Factor(owner, c, x) \in Nat
      BY <2>3, FactorRange
    <3> QED BY <3>3, <3>4 DEF Strength
  <2>6. p \in armies /\ q \in armies
    BY DEF Battle!Winners, orders
  <2>7. /\ Battle!Margin(owner, units, orders, c, p) >= 1 /\ Battle!Margin(owner, units, orders, c, q) >= 1
    BY DEF Battle!Winners, orders
  <2>8. /\ Battle!Margin(owner, units, orders, c, p) \in Int /\ Battle!Margin(owner, units, orders, c, q) \in Int
        /\ Battle!Margin(owner, units, orders, c, p) <= Power(p) - Power(q)
        /\ Battle!Margin(owner, units, orders, c, q) <= Power(q) - Power(p)
    BY <2>4, <2>5, <2>6, MarginBound
  <2>9. Power(p) \in Nat /\ Power(q) \in Nat
    BY <2>5, <2>6
  <2> HIDE DEF Power
  <2> QED BY <2>7, <2>8, <2>9
<1> QED BY <1>1, HexInvariance, PTL
=============================================================================
