------------------------------- MODULE HexWars -------------------------------
(***************************************************************************)
(* The rules of Hex Wars (campus_lan/hexwars.py): simultaneous turns on a  *)
(* board of cells, armies fighting where their orders meet.                *)
(*                                                                         *)
(* The board is any graph: the code's 61 cells enter only through their    *)
(* neighbours and the home corners.  A reply of a bot is one order, a      *)
(* pass (zero units), or a fault (no reply, a runtime failure, an invalid  *)
(* order).                                                                 *)
(***************************************************************************)
EXTENDS Integers, FiniteSetsExt

CONSTANTS Cells, Neighbors,       \* [Cells -> SUBSET Cells]
          Players, Home,          \* [Players -> Cells]
          Growth, Attack, Armor,  \* [Players -> 1..5], the bots' attributes
          NeutralUnits, HomeUnits, MaxUnits, MaxTurns,
          Neutral, Pass, Fault

\* What an instance must satisfy.
HexAssumption ==
    /\ Neighbors \in [Cells -> SUBSET Cells]
    /\ Home \in [Players -> Cells] /\ \A p, q \in Players : Home[p] = Home[q] => p = q
    /\ {Growth, Attack, Armor} \subseteq [Players -> 1..5]
    /\ \A p \in Players : Growth[p] + Attack[p] + Armor[p] = 9
    /\ MaxUnits \in Nat \ {0} /\ NeutralUnits \in 0..MaxUnits /\ HomeUnits \in 1..MaxUnits
    /\ MaxTurns \in Nat \ {0}
    /\ Neutral \notin Players /\ IsFiniteSet(Players)
    /\ \E p, q \in Players : p # q

VARIABLES owner,   \* [Cells -> Players \cup {Neutral}]
          units,   \* [Cells -> 0..MaxUnits]
          faults,  \* [Players -> 0..3]
          turn, over

vars == <<owner, units, faults, turn, over>>

AliveIn(o, p) == \E c \in Cells : o[c] = p
Alive(p) == AliveIn(owner, p)
Contested(o) == \E p, q \in Players : p # q /\ AliveIn(o, p) /\ AliveIn(o, q)

\* finish_if_needed() on a board o at turn t.
Finished(o, t) == over \/ ~Contested(o) \/ t >= MaxTurns

Init == /\ owner = [c \in Cells |-> IF \E p \in Players : Home[p] = c
                                    THEN CHOOSE p \in Players : Home[p] = c ELSE Neutral]
        /\ units = [c \in Cells |-> IF \E p \in Players : Home[p] = c
                                    THEN HomeUnits ELSE NeutralUnits]
        /\ faults = [p \in Players |-> 0]
        /\ turn = 0 /\ over = FALSE

\* valid(): an order moves some, never all, units of a cell of one's own to a neighbour.
Orders(p) == {o \in [from : Cells, to : Cells, n : 1..MaxUnits] :
                 owner[o.from] = p /\ o.to \in Neighbors[o.from] /\ o.n < units[o.from]}
-----------------------------------------------------------------------------
\* Mutant: forfeit() empties the cells and leaves them their owner.
OwnerKept(gone) == owner

\* forfeit(): the cells of the players in gone become empty and neutral.
OwnerWithout(gone) == [c \in Cells |-> IF owner[c] \in gone THEN Neutral ELSE owner[c]]
UnitsWithout(gone) == [c \in Cells |-> IF owner[c] \in gone THEN 0 ELSE units[c]]

\* A player leaves the room during the match.
Forfeit(p) == /\ ~over
              /\ owner' = OwnerWithout({p})
              /\ units' = UnitsWithout({p})
              /\ over' = Finished(owner', turn)
              /\ UNCHANGED <<faults, turn>>

\* Units an order takes out of cell c: only its owner can send them, and by one order.
Sent(o, orders, c) ==
    IF o[c] \in DOMAIN orders THEN IF orders[o[c]].from = c THEN orders[o[c]].n ELSE 0 ELSE 0

\* The armies that meet at cell c, and the units of each: arrivals and, for the owner, the
\* garrison left after every order has been deducted.  o and u are the board of this turn.
Arriving(orders, c) == {p \in DOMAIN orders : orders[p].to = c}
Attacked(orders, c) == Arriving(orders, c) # {}
Armies(o, orders, c) == Arriving(orders, c) \cup {o[c]}
Army(o, u, orders, c, p) ==
    (IF p \in Arriving(orders, c) THEN orders[p].n ELSE 0)
    + (IF o[c] = p THEN u[c] - Sent(o, orders, c) ELSE 0)
Factor(o, c, p) == IF p = Neutral THEN 8 ELSE 5 + (IF p = o[c] THEN Armor[p] ELSE Attack[p])

\* Strength of p at c beyond that of everybody else there.
Margin(o, u, orders, c, p) ==
    LET Power(q) == Army(o, u, orders, c, q) * Factor(o, c, q)
    IN Power(p) - MapThenSumSet(Power, Armies(o, orders, c) \ {p})

\* Mutant: a tie counts as a victory.
WinnersOfTies(o, u, orders, c) ==
    {p \in Armies(o, orders, c) : Margin(o, u, orders, c, p) \in Nat}

Winners(o, u, orders, c) ==
    {p \in Armies(o, orders, c) : Margin(o, u, orders, c, p) \in Nat \ {0}}

CeilDiv(a, b) == (a + b - 1) \div b

Cap(n) == IF n > MaxUnits THEN MaxUnits ELSE n

\* The board after combat, before growth: owner and units of cell c.
Fought(o, u, orders, c) ==
    IF ~Attacked(orders, c) THEN <<o[c], u[c] - Sent(o, orders, c)>>
    ELSE IF Winners(o, u, orders, c) = {} THEN <<Neutral, 0>>
    ELSE LET p == CHOOSE q \in Winners(o, u, orders, c) : TRUE
         IN <<p, Cap(CeilDiv(Margin(o, u, orders, c, p), Factor(o, c, p)))>>

Grown(b) == IF b[1] = Neutral THEN b[2] ELSE Cap(b[2] + Growth[b[1]])

Ordered(replies) ==
    [p \in {q \in DOMAIN replies : replies[q] \notin {Fault, Pass}} |-> replies[p]]

\* step(): faults first, with disqualification at the third; then every order of the same
\* snapshot at once, growth, and the end of the match.
Step(replies) ==
    /\ ~over
    /\ LET failed == {p \in DOMAIN replies : replies[p] = Fault}
           gone == {p \in failed : faults[p] >= 2}
           orders == Ordered(replies)
           o == OwnerWithout(gone)
           u == UnitsWithout(gone)
           board == [c \in Cells |-> Fought(o, u, orders, c)]
       IN /\ faults' = [p \in Players |-> IF p \in failed THEN faults[p] + 1 ELSE faults[p]]
          /\ IF Finished(o, turn)
             THEN owner' = o /\ units' = u /\ turn' = turn /\ over' = TRUE
             ELSE /\ owner' = [c \in Cells |-> board[c][1]]
                  /\ units' = [c \in Cells |-> Grown(board[c])]
                  /\ turn' = turn + 1
                  /\ over' = Finished(owner', turn + 1)

Replies == {r \in [{p \in Players : Alive(p)} ->
                   UNION {Orders(p) : p \in Players} \cup {Pass, Fault}] :
               \A p \in DOMAIN r : r[p] \in Orders(p) \cup {Pass, Fault}}

Turn == \E r \in Replies : Step(r)
Next == Turn \/ \E p \in Players : Forfeit(p)

Spec == Init /\ [][Next]_vars
-----------------------------------------------------------------------------
TypeOK == /\ owner \in [Cells -> Players \cup {Neutral}]
          /\ units \in [Cells -> 0..MaxUnits]
          /\ faults \in [Players -> 0..3]
          /\ turn \in 0..MaxTurns /\ over \in BOOLEAN

\* An army that holds a cell has units there: no order or battle leaves a hollow cell, so
\* "alive" means there is something left to move or to fight.
NoHollowCells == \A c \in Cells : owner[c] # Neutral => units[c] >= 1

\* The third fault, or leaving, ends an army for good; a match that goes on has at least two
\* armies and a turn left.
DisqualifiedHoldNothing == \A p \in Players : faults[p] = 3 => ~Alive(p)
OverInTime == ~over => Contested(owner) /\ turn < MaxTurns

\* A cell changes hands only towards an army that had units to send in the next cell: the
\* disqualified and the beaten never come back, whatever step() does in one turn.
ConqueredFromNextDoor ==
    [][\A c \in Cells : owner'[c] \notin {owner[c], Neutral} =>
          \E d \in Cells : c \in Neighbors[d] /\ owner[d] = owner'[c] /\ units[d] >= 2]_vars

\* Several armies cannot win the same cell, so the order in which max() meets equal powers
\* in step() does not matter.
OneWinner == \A r \in Replies : \A c \in Cells :
                \A p, q \in Winners(owner, units, Ordered(r), c) : p = q
=============================================================================
