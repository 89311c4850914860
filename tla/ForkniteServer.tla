--------------------------- MODULE ForkniteServer ---------------------------
(***************************************************************************)
(* The web process of a FORKNITE room (minigames/forknite/server.js and    *)
(* auth.js) and the lobby that tells it who is in the room (room_state of  *)
(* server.py).  The lobby sends a list of the members at every change of   *)
(* the room, each from a thread of its own, so that lists arrive in any    *)
(* order.  The process seats the members, gives each a key to its pages,   *)
(* runs rounds of the philosophers and shuffles the seats for each.        *)
(*                                                                         *)
(* A ticket and the session it opens are one key.  A native run ends as it *)
(* likes; its timings and the shrinking deadline are left out.  Any        *)
(* arrangement may come out of a shuffle.  Bounds of the model: MaxLists   *)
(* for the lists on the way, MaxChanges for the changes of the room and    *)
(* MaxGuests for the strangers who take a seat in a browser.               *)
(***************************************************************************)
EXTENDS Naturals, FiniteSets

CONSTANTS Member, Count, MaxLists, MaxChanges, MaxGuests

\* What an instance must satisfy.
ForkniteAssumption == Count \in Nat

VARIABLES room,      \* the members, as the lobby has them
          lists,     \* lists of members on the way to the process
          seats,     \* who sits where
          keys,      \* the member and the seat of each key
          native,    \* what runs: nothing, a round, a round that was killed
          timer,     \* the next round of a storm is set
          storm,     \* rounds follow each other
          began,     \* the members with whom the last tournament began
          changes, guests

vars == <<room, lists, seats, keys, native, timer, storm, began, changes, guests>>

Slot == 1..Count
Free == [is |-> "free", id |-> 0]
Sabo == [is |-> "sabo", id |-> 0]         \* somebody seated by /sabo
Diner == [is |-> "diner", id |-> 0]       \* one of /diners
Guest == [is |-> "guest", id |-> 0]       \* who came through the browser
Of(m) == [is |-> "member", id |-> m]

Taken == {s \in Slot : seats[s] # Free}
Seated == {m \in Member : \E s \in Slot : seats[s] = Of(m)}
Playing == native = "runs" \/ timer
Busy == native # "none" \/ timer

Init == /\ \E m \in Member : room = {m}
        /\ lists = {room}
        /\ seats = [s \in Slot |-> Free] /\ keys = {}
        /\ native = "none" /\ timer = FALSE /\ storm = TRUE /\ began = {}
        /\ changes = 0 /\ guests = 0

\* Somebody joins or leaves, or asks for the browser again with /browser: the
\* lobby sends the members as they are then.
Send == /\ changes < MaxChanges /\ changes' = changes + 1 /\ Cardinality(lists) < MaxLists
        /\ \E people \in SUBSET Member \ {{}} :
              /\ Cardinality((people \ room) \cup (room \ people)) <= 1
              /\ room' = people /\ lists' = lists \cup {people}
        /\ UNCHANGED <<seats, keys, native, timer, storm, began, guests>>

\* A list the process did not answer in three seconds.
Lose == /\ \E list \in lists : lists' = lists \ {list}
        /\ UNCHANGED <<room, seats, keys, native, timer, storm, began, changes, guests>>

\* The members of a list who have no seat, in their order, take the lowest
\* seats that are free or only kept by a stand-in, while there are any.
Rank(n, set) == Cardinality({x \in set : x < n})
Placed(list, kept) ==
    LET new == {m \in list : \A s \in Slot : kept[s] # Of(m)}
        open == {s \in Slot : kept[s].is \in {"free", "sabo", "diner"}}
    IN [s \in Slot |-> IF s \in open /\ \E m \in new : Rank(m, new) = Rank(s, open)
                       THEN Of(CHOOSE m \in new : Rank(m, new) = Rank(s, open)) ELSE kept[s]]

\* Mutant: only the number of members is compared.
ChangesCounted(list) == Cardinality(Seated) # Cardinality(list)

\* Whether a list has other members than those who are seated.
ChangesTeam(list) == Seated # list

\* A list arrives (action "members").  The keys and the seats of members it
\* does not name are taken away, and a tournament that runs with others is
\* stopped.  A member who finds no seat gets no key.
Arrives(list) ==
    /\ list \in lists /\ lists' = lists \ {list}
    /\ LET kept == [s \in Slot |-> IF seats[s].is = "member" /\ seats[s].id \notin list
                                   THEN Free ELSE seats[s]]
           placed == Placed(list, kept)
       IN /\ seats' = placed
          /\ keys' = {k \in keys : k.id \in list}
                \cup {[id |-> placed[s].id, slot |-> s] : s \in {x \in Slot : placed[x].is = "member"}}
    /\ IF Busy /\ ChangesTeam(list)
       THEN timer' = FALSE /\ native' = IF native = "runs" THEN "killed" ELSE native
       ELSE UNCHANGED <<timer, native>>
    /\ UNCHANGED <<room, storm, began, changes, guests>>

\* A page of a member takes the seat of its key (POST /join); a page of a
\* stranger takes one that no player has.
Enter(k) == /\ k \in keys /\ seats[k.slot] \notin {Guest} \cup {Of(m) : m \in Member \ {k.id}}
            /\ seats' = [seats EXCEPT ![k.slot] = Of(k.id)]
            /\ UNCHANGED <<room, lists, keys, native, timer, storm, began, changes, guests>>
EnterGuest(s) == /\ seats[s].is \in {"free", "sabo", "diner"}
                 /\ guests < MaxGuests /\ guests' = guests + 1
                 /\ seats' = [seats EXCEPT ![s] = Guest]
                 /\ UNCHANGED <<room, lists, keys, native, timer, storm, began, changes>>

\* Stand-ins, while nothing is played: one of /sabo takes the first free
\* seat; /diners fills the table up to a number that the others fit into.
SaboProfile == /\ ~Busy
               /\ \E s \in Slot \ Taken : /\ \A x \in Slot \ Taken : s <= x
                                          /\ seats' = [seats EXCEPT ![s] = Sabo]
               /\ UNCHANGED <<room, lists, keys, native, timer, storm, began, changes, guests>>
Diners(n) == /\ ~Busy
             /\ LET others == {s \in Taken : seats[s] # Diner}
                IN /\ Cardinality(others) <= n
                   /\ seats' = [s \in Slot |->
                         IF s \in others THEN seats[s]
                         ELSE IF Rank(s, Slot \ others) < n - Cardinality(others) THEN Diner ELSE Free]
             /\ UNCHANGED <<room, lists, keys, native, timer, storm, began, changes, guests>>
Configure == /\ ~Busy /\ storm' = ~storm
             /\ UNCHANGED <<room, lists, seats, keys, native, timer, began, changes, guests>>

\* Mutant: the keys keep the seats they were issued for.
ShuffleSeats ==
    \E to \in [Taken -> 1..Cardinality(Taken)] :
       /\ \A s, x \in Taken : to[s] = to[x] => s = x
       /\ seats' = [s \in Slot |-> IF \E x \in Taken : to[x] = s
                                   THEN seats[CHOOSE x \in Taken : to[x] = s] ELSE Free]
       /\ UNCHANGED keys

\* A round begins in new seats, and the keys follow.
Shuffle ==
    \E to \in [Taken -> 1..Cardinality(Taken)] :
       /\ \A s, x \in Taken : to[s] = to[x] => s = x
       /\ seats' = [s \in Slot |-> IF \E x \in Taken : to[x] = s
                                   THEN seats[CHOOSE x \in Taken : to[x] = s] ELSE Free]
       /\ keys' = {[k EXCEPT !.slot = IF k.id \in Seated
                                      THEN to[CHOOSE s \in Taken : seats[s] = Of(k.id)] ELSE @] : k \in keys}

Begin == IF Cardinality(Taken) < 2 THEN /\ timer' = FALSE /\ UNCHANGED <<seats, keys, native>>
         ELSE Shuffle /\ timer' = FALSE /\ native' = "runs"

Start == /\ ~Busy /\ Cardinality(Taken) >= 2
         /\ Begin /\ began' = Seated
         /\ UNCHANGED <<room, lists, storm, changes, guests>>
Stop == /\ Busy
        /\ timer' = FALSE /\ native' = IF native = "runs" THEN "killed" ELSE native
        /\ UNCHANGED <<room, lists, seats, keys, storm, began, changes, guests>>

\* The native process ends, killed or on its own, and in a storm without a
\* death the next round is set.
Exit == /\ native # "none" /\ native' = "none"
        /\ timer' \in IF native = "runs" /\ storm THEN BOOLEAN ELSE {FALSE}
        /\ UNCHANGED <<room, lists, seats, keys, storm, began, changes, guests>>
NextRound == /\ timer /\ Begin
             /\ UNCHANGED <<room, lists, storm, began, changes, guests>>

Next == \/ Send \/ Lose \/ SaboProfile \/ Configure \/ Start \/ Stop \/ Exit \/ NextRound
        \/ \E list \in lists : Arrives(list)
        \/ \E k \in keys : Enter(k)
        \/ \E s \in Slot : EnterGuest(s)
        \/ \E n \in 2..Count : Diners(n)
Spec == Init /\ [][Next]_vars /\ WF_vars(Exit)

TypeOK == /\ room \subseteq Member /\ lists \subseteq SUBSET Member
          /\ seats \in [Slot -> {Free, Sabo, Diner, Guest} \cup {Of(m) : m \in Member}]
          /\ keys \subseteq [id : Member, slot : Slot]
          /\ native \in {"none", "runs", "killed"}

\* A key opens the seat of its own member, through every shuffle and change of
\* the room, and nobody has two seats (server.js:64-66, auth.js:25).
KeysFit == /\ \A k \in keys : seats[k.slot] = Of(k.id)
           /\ \A s, x \in Slot : seats[s].is = "member" /\ seats[s] = seats[x] => s = x

\* A tournament is played by the members it began with: a change of the room
\* stops it, whether rounds run or the next one is set (server.js:188).
SameTeam == Playing => Seated = began

\* A round that was stopped ends, and another one can start.
Stopped == native # "killed"
=============================================================================
