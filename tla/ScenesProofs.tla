---------------------------- MODULE ScenesProofs ----------------------------
(***************************************************************************)
(* Proofs about three scenes around the lobby, MCLobbyScenes.  They are    *)
(* about the specifications of its instances, for all values of their      *)
(* constants that their assumptions allow, and not about the instance of   *)
(* the run.                                                                *)
(***************************************************************************)
EXTENDS MCLobbyScenes, Integers, FiniteSetTheorems, TLAPS

(* The web process of a FORKNITE room (ForkniteServer). *)

Seat == {Web!Free, Web!Sabo, Web!Diner, Web!Guest} \cup {Web!Of(m) : m \in Member}

WebForm == /\ lists \subseteq SUBSET Member
           /\ seats \in [Web!Slot -> Seat]
           /\ keys \subseteq [id : Member, slot : Web!Slot]

WebInv == WebForm /\ Web!KeysFit /\ Web!SameTeam

\* Counting is counting, also where the process is an instance.
LEMMA Counted == \A S : Web!Cardinality(S) = Cardinality(S)
BY DEF Web!Cardinality, Cardinality

LEMMA Kinds == /\ Web!Free \in Seat /\ Web!Sabo \in Seat /\ Web!Diner \in Seat /\ Web!Guest \in Seat
               /\ Web!Free.is = "free" /\ Web!Sabo.is = "sabo" /\ Web!Diner.is = "diner" /\ Web!Guest.is = "guest"
               /\ \A m \in Member : Web!Of(m) \in Seat /\ Web!Of(m).is = "member" /\ Web!Of(m).id = m
               /\ \A x \in Seat : x.is = "member" => x.id \in Member /\ x = Web!Of(x.id)
               /\ \A x \in Seat : x.is \in {"free", "sabo", "diner", "guest", "member"}
<1>1. Web!Free \in Seat /\ Web!Sabo \in Seat /\ Web!Diner \in Seat /\ Web!Guest \in Seat
  BY Zenon DEF Seat
<1>2. Web!Free.is = "free" /\ Web!Sabo.is = "sabo" /\ Web!Diner.is = "diner" /\ Web!Guest.is = "guest"
  BY DEF Web!Free, Web!Sabo, Web!Diner, Web!Guest
<1>3. \A m : Web!Of(m).is = "member" /\ Web!Of(m).id = m
  BY DEF Web!Of
<1>4. \A m \in Member : Web!Of(m) \in Seat
  BY Zenon DEF Seat
<1>5. \A x \in Seat : x \in {Web!Free, Web!Sabo, Web!Diner, Web!Guest} \/ \E m \in Member : x = Web!Of(m)
  BY Zenon DEF Seat
<1> QED BY <1>1, <1>2, <1>3, <1>4, <1>5

\* No two seats of a set have the same rank in it.
LEMMA RankApart == ASSUME Web!ForkniteAssumption, NEW S, S \subseteq Web!Slot, NEW s \in S,
                          NEW x \in S, Web!Rank(s, S) = Web!Rank(x, S)
                   PROVE  s = x
<1>1. IsFiniteSet(S)
  <2>1. IsFiniteSet(1..Count)
    BY FS_Interval DEF Web!ForkniteAssumption
  <2> QED BY <2>1, FS_Subset DEF Web!Slot
<1>2. ASSUME NEW y \in S, NEW z \in S, y < z PROVE Web!Rank(y, S) < Web!Rank(z, S)
  <2> DEFINE A == {v \in S : v < y}
             B == {v \in S : v < z}
  <2>1. \A v \in S : v \in Nat
    BY DEF Web!Slot, Web!ForkniteAssumption
  <2>2. A \subseteq B /\ y \in B /\ y \notin A
    BY <1>2, <2>1
  <2>3. IsFiniteSet(B)
    BY <1>1, FS_Subset
  <2>4. /\ Cardinality(A) \in Nat /\ Cardinality(B) \in Nat /\ Cardinality(A) <= Cardinality(B)
        /\ Cardinality(A) = Cardinality(B) => A = B
    BY <2>2, <2>3, FS_Subset, FS_CardinalityType
  <2>5. Cardinality(A) < Cardinality(B)
    BY <2>2, <2>4
  <2> QED BY <2>5, Counted DEF Web!Rank
<1>3. Web!Rank(s, S) \in Nat
  <2> DEFINE A == {v \in S : v < s}
  <2>1. IsFiniteSet(A)
    BY <1>1, FS_Subset
  <2>2. Cardinality(A) \in Nat
    BY <2>1, FS_CardinalityType
  <2> QED BY <2>2, Counted DEF Web!Rank
<1>4. s \in Nat /\ x \in Nat
  BY DEF Web!Slot, Web!ForkniteAssumption
<1>5. ~(s < x) /\ ~(x < s)
  BY <1>2, <1>3
<1> QED BY <1>4, <1>5

\* The members of a list who are new get seats that no member has, each one.
Settled(list, kept, placed) ==
    /\ placed \in [Web!Slot -> Seat]
    /\ \A s \in Web!Slot : \/ placed[s] = kept[s]
                           \/ \E m \in list : /\ placed[s] = Web!Of(m) /\ kept[s].is # "member"
                                              /\ \A x \in Web!Slot : kept[x] # Web!Of(m)
    /\ \A s, x \in Web!Slot, m \in list :
          placed[s] = Web!Of(m) /\ placed[x] = Web!Of(m) /\ (\A y \in Web!Slot : kept[y] # Web!Of(m)) => s = x

LEMMA PlacedIs == ASSUME Web!ForkniteAssumption, NEW list, list \subseteq Member,
                         NEW kept \in [Web!Slot -> Seat]
                  PROVE  Settled(list, kept, Web!Placed(list, kept))
<1> DEFINE new == {m \in list : \A s \in Web!Slot : kept[s] # Web!Of(m)}
           vacant == {s \in Web!Slot : kept[s].is \in {"free", "sabo", "diner"}}
           Gets(s) == s \in vacant /\ \E m \in new : Web!Rank(m, new) = Web!Rank(s, vacant)
           who(s) == CHOOSE m \in new : Web!Rank(m, new) = Web!Rank(s, vacant)
<1>1. Web!Placed(list, kept) = [s \in Web!Slot |-> IF Gets(s) THEN Web!Of(who(s)) ELSE kept[s]]
  BY DEF Web!Placed
<1>2. \A s \in Web!Slot : Gets(s) => who(s) \in new /\ Web!Rank(who(s), new) = Web!Rank(s, vacant)
  OBVIOUS
<1>3. \A s \in Web!Slot : /\ Gets(s) => Web!Placed(list, kept)[s] = Web!Of(who(s))
                          /\ ~Gets(s) => Web!Placed(list, kept)[s] = kept[s]
  BY <1>1, Zenon
<1>4. Web!Placed(list, kept) \in [Web!Slot -> Seat]
  <2>1. \A s \in Web!Slot : (IF Gets(s) THEN Web!Of(who(s)) ELSE kept[s]) \in Seat
    BY <1>2, Kinds
  <2> QED BY <1>1, <2>1, Zenon
<1>5. ASSUME NEW s \in Web!Slot, Web!Placed(list, kept)[s] # kept[s]
      PROVE  \E m \in list : /\ Web!Placed(list, kept)[s] = Web!Of(m) /\ kept[s].is # "member"
                             /\ \A x \in Web!Slot : kept[x] # Web!Of(m)
  <2>1. Gets(s)
    BY <1>3, <1>5
  <2>2. Web!Placed(list, kept)[s] = Web!Of(who(s)) /\ who(s) \in new /\ s \in vacant
    BY <1>2, <1>3, <2>1
  <2> QED BY <2>2
<1>6. ASSUME NEW s \in Web!Slot, NEW x \in Web!Slot, NEW m \in list,
             Web!Placed(list, kept)[s] = Web!Of(m), 
             Web!Placed(list, kept)[x] = Web!Of(m), \A y \in Web!Slot : kept[y] # Web!Of(m)
      PROVE  s = x
  <2>1. Gets(s) /\ Gets(x)
    BY <1>3, <1>6
  <2>2. Web!Of(who(s)) = Web!Of(m) /\ Web!Of(who(x)) = Web!Of(m)
    BY <1>3, <1>6, <2>1
  <2>3. who(s) = m /\ who(x) = m
    <3>1. who(s) \in Member /\ who(x) \in Member /\ m \in Member
      BY <1>2, <2>1
    <3> HIDE DEF who
    <3> QED BY <2>2, <3>1, Kinds
  <2>4. Web!Rank(s, vacant) = Web!Rank(x, vacant) /\ s \in vacant /\ x \in vacant
    BY <1>2, <2>1, <2>3
  <2> QED BY <2>4, RankApart
<1> QED BY <1>4, <1>5, <1>6 DEF Settled

LEMMA SeatedIs == ASSUME WebForm, NEW m \in Member
                  PROVE  m \in Web!Seated <=> \E s \in Web!Slot : seats[s] = Web!Of(m)
BY DEF Web!Seated

\* A list takes away what it does not name, and keeps the keys to the seats of the others.
LEMMA ArrivesStep == ASSUME Web!ForkniteAssumption, WebInv, NEW list \in lists, Web!Arrives(list)
                     PROVE  WebInv'
<1> DEFINE kept == [s \in Web!Slot |-> IF seats[s].is = "member" /\ seats[s].id \notin list THEN Web!Free ELSE seats[s]]
           placed == Web!Placed(list, kept)
<1>1. list \subseteq Member /\ seats \in [Web!Slot -> Seat] /\ keys \subseteq [id : Member, slot : Web!Slot]
  BY DEF WebInv, WebForm
<1>2. kept \in [Web!Slot -> Seat]
  BY <1>1, Kinds
<1>3. /\ placed \in [Web!Slot -> Seat]
      /\ \A s \in Web!Slot : \/ placed[s] = kept[s]
                             \/ \E m \in list : /\ placed[s] = Web!Of(m) /\ kept[s].is # "member"
                                                /\ \A x \in Web!Slot : kept[x] # Web!Of(m)
      /\ \A s, x \in Web!Slot, m \in list :
            placed[s] = Web!Of(m) /\ placed[x] = Web!Of(m) /\ (\A y \in Web!Slot : kept[y] # Web!Of(m)) => s = x
  <2>1. Settled(list, kept, placed)
    BY <1>1, <1>2, PlacedIs
  <2> HIDE DEF kept, placed
  <2> QED BY <2>1 DEF Settled
<1>4. /\ seats' = placed /\ lists' = lists \ {list} /\ began' = began
      /\ keys' = {k \in keys : k.id \in list}
           \cup {[id |-> placed[s].id, slot |-> s] : s \in {x \in Web!Slot : placed[x].is = "member"}}
  BY DEF Web!Arrives
<1>5. \A s \in Web!Slot, m \in Member : kept[s] = Web!Of(m) <=> seats[s] = Web!Of(m) /\ m \in list
  BY <1>1, Kinds
<1> HIDE DEF kept, placed
<1>6. WebForm'
  <2>1. \A s \in Web!Slot : placed[s].is = "member" => placed[s].id \in Member
    BY <1>3, Kinds
  <2>2. keys' \subseteq [id : Member, slot : Web!Slot]
    BY <1>1, <1>4, <2>1
  <2> QED BY <1>3, <1>4, <2>2 DEF WebInv, WebForm
<1>7. \A k \in keys' : seats'[k.slot] = Web!Of(k.id)
  <2>1. ASSUME NEW k \in keys, k.id \in list PROVE placed[k.slot] = Web!Of(k.id)
    <3>1. kept[k.slot] = Web!Of(k.id) /\ k.slot \in Web!Slot /\ k.id \in Member
      BY <1>1, <1>5, <2>1 DEF WebInv, Web!KeysFit
    <3> QED BY <1>3, <3>1, Kinds
  <2>2. ASSUME NEW s \in Web!Slot, placed[s].is = "member" PROVE placed[s] = Web!Of(placed[s].id)
    BY <1>3, <2>2, Kinds
  <2> QED BY <1>4, <2>1, <2>2
<1>8. ASSUME NEW s \in Web!Slot, NEW x \in Web!Slot, placed[s].is = "member", placed[s] = placed[x]
      PROVE  s = x
  <2>1. PICK m \in Member : placed[s] = Web!Of(m) /\ placed[x] = Web!Of(m)
    BY <1>3, <1>8, Kinds
  <2>2. CASE \E y \in Web!Slot : kept[y] = Web!Of(m)
    <3>1. kept[s] = Web!Of(m) /\ kept[x] = Web!Of(m)
      BY <1>1, <1>3, <2>1, <2>2, Kinds
    <3>2. seats[s] = Web!Of(m) /\ seats[x] = Web!Of(m)
      BY <1>5, <3>1
    <3> QED BY <3>2, Kinds DEF WebInv, Web!KeysFit
  <2>3. CASE \A y \in Web!Slot : kept[y] # Web!Of(m)
    <3>1. m \in list
      BY <1>1, <1>3, <2>1, <2>3, Kinds
    <3> QED BY <1>3, <2>1, <2>3, <3>1
  <2> QED BY <2>2, <2>3
<1>9. Web!SameTeam'
  <2>1. CASE ~Web!Busy \/ Web!ChangesTeam(list)
    <3>1. ~Web!Playing'
      BY <2>1 DEF Web!Arrives, Web!Busy, Web!Playing
    <3> QED BY <3>1 DEF Web!SameTeam
  <2>2. CASE Web!Busy /\ ~Web!ChangesTeam(list)
    <3>1. Web!Seated = list /\ UNCHANGED <<timer, native>>
      BY <2>2 DEF Web!Arrives, Web!ChangesTeam
    <3>2. \A m \in Member : (\E s \in Web!Slot : seats'[s] = Web!Of(m)) <=> m \in list
      <4>1. ASSUME NEW m \in list PROVE \E s \in Web!Slot : placed[s] = Web!Of(m)
        <5>1. PICK s \in Web!Slot : kept[s] = Web!Of(m)
          BY <1>1, <1>5, <3>1 DEF Web!Seated
        <5>2. placed[s] = Web!Of(m)
          BY <1>1, <1>3, <5>1, Kinds
        <5> QED BY <5>2
      <4>2. ASSUME NEW m \in Member, NEW s \in Web!Slot, placed[s] = Web!Of(m) PROVE m \in list
        BY <1>1, <1>3, <1>5, <4>2, Kinds
      <4> QED BY <1>1, <1>4, <4>1, <4>2
    <3>3. Web!Seated' = Web!Seated
      BY <1>1, <3>1, <3>2 DEF Web!Seated
    <3> QED BY <1>4, <3>1, <3>3 DEF WebInv, Web!SameTeam, Web!Playing
  <2> QED BY <2>1, <2>2
<1> QED BY <1>4, <1>6, <1>7, <1>8, <1>9 DEF WebInv, Web!KeysFit

\* A new round moves everybody who is seated to a seat of his own, and the keys with him.
LEMMA ShuffleStep == ASSUME Web!ForkniteAssumption, WebInv, Web!Shuffle, UNCHANGED lists
                     PROVE  WebForm' /\ Web!KeysFit' /\ Web!Seated' = Web!Seated
<1> DEFINE N == Web!Cardinality(Web!Taken)
<1>1. PICK to \in [Web!Taken -> 1..N] :
         /\ \A s, x \in Web!Taken : to[s] = to[x] => s = x
         /\ seats' = [s \in Web!Slot |-> IF \E x \in Web!Taken : to[x] = s
                                         THEN seats[CHOOSE x \in Web!Taken : to[x] = s] ELSE Web!Free]
         /\ keys' = {[k EXCEPT !.slot = IF k.id \in Web!Seated
                                        THEN to[CHOOSE s \in Web!Taken : seats[s] = Web!Of(k.id)] ELSE @] : k \in keys}
  BY Zenon DEF Web!Shuffle
<1>2. 1..N \subseteq Web!Slot
  <2>1. Count \in Nat /\ IsFiniteSet(1..Count) /\ Cardinality(1..Count) = Count
    BY FS_Interval, FS_CardinalityType DEF Web!ForkniteAssumption
  <2>2. Web!Taken \subseteq 1..Count
    BY DEF Web!Taken, Web!Slot
  <2>3. Web!Cardinality(Web!Taken) \in Nat /\ Web!Cardinality(Web!Taken) <= Count
    BY <2>1, <2>2, FS_Subset, FS_CardinalityType, Counted
  <2> QED BY <2>1, <2>3, Counted DEF Web!Slot
<1> HIDE DEF N
<1>3. seats \in [Web!Slot -> Seat] /\ keys \subseteq [id : Member, slot : Web!Slot]
  BY DEF WebInv, WebForm
<1>4. \A x \in Web!Taken : to[x] \in Web!Slot /\ seats'[to[x]] = seats[x] /\ x \in Web!Slot
  <2> SUFFICES ASSUME NEW x \in Web!Taken
               PROVE  to[x] \in Web!Slot /\ seats'[to[x]] = seats[x] /\ x \in Web!Slot
    OBVIOUS
  <2>1. to[x] \in Web!Slot /\ x \in Web!Slot
    BY <1>1, <1>2 DEF Web!Taken
  <2>2. (CHOOSE y \in Web!Taken : to[y] = to[x]) = x
    BY <1>1
  <2>3. seats'[to[x]] = seats[CHOOSE y \in Web!Taken : to[y] = to[x]]
    BY <1>1, <2>1
  <2> QED BY <2>1, <2>2, <2>3
<1>5. \A s \in Web!Slot : seats'[s] = Web!Free \/ \E x \in Web!Taken : to[x] = s /\ seats'[s] = seats[x]
  <2> SUFFICES ASSUME NEW s \in Web!Slot, seats'[s] # Web!Free
               PROVE  \E x \in Web!Taken : to[x] = s /\ seats'[s] = seats[x]
    OBVIOUS
  <2>1. PICK x \in Web!Taken : to[x] = s
    BY <1>1
  <2> QED BY <1>4, <2>1
<1>6. seats' \in [Web!Slot -> Seat]
  <2>1. \A s \in Web!Slot : seats'[s] \in Seat
    BY <1>3, <1>4, <1>5, Kinds
  <2> QED BY <1>1, <2>1
<1>7. \A s \in Web!Slot, m \in Member : seats[s] = Web!Of(m) => s \in Web!Taken
  BY Kinds DEF Web!Taken
<1>8. Web!Seated' = Web!Seated
  <2>1. \A m \in Member : (\E s \in Web!Slot : seats'[s] = Web!Of(m)) => \E s \in Web!Slot : seats[s] = Web!Of(m)
    BY <1>4, <1>5, Kinds
  <2>2. \A m \in Member : (\E s \in Web!Slot : seats[s] = Web!Of(m)) => \E s \in Web!Slot : seats'[s] = Web!Of(m)
    BY <1>4, <1>7
  <2> QED BY <2>1, <2>2 DEF Web!Seated
<1>9. \A k \in keys' : k \in [id : Member, slot : Web!Slot] /\ seats'[k.slot] = Web!Of(k.id)
  <2> SUFFICES ASSUME NEW j \in keys'
               PROVE  j \in [id : Member, slot : Web!Slot] /\ seats'[j.slot] = Web!Of(j.id)
    OBVIOUS
  <2>1. PICK k \in keys : j = [k EXCEPT !.slot = IF k.id \in Web!Seated
                                                 THEN to[CHOOSE s \in Web!Taken : seats[s] = Web!Of(k.id)] ELSE @]
    BY <1>1, Zenon
  <2>2. k.id \in Member /\ k.slot \in Web!Slot /\ seats[k.slot] = Web!Of(k.id)
    BY <1>3 DEF WebInv, Web!KeysFit
  <2>3. k.id \in Web!Seated /\ k.slot \in Web!Taken
    BY <1>7, <2>2 DEF Web!Seated
  <2>4. PICK s : s = CHOOSE x \in Web!Taken : seats[x] = Web!Of(k.id)
    OBVIOUS
  <2>5. s \in Web!Taken /\ seats[s] = Web!Of(k.id)
    BY <2>2, <2>3, <2>4
  <2>6. j = [k EXCEPT !.slot = to[s]]
    BY <2>1, <2>3, <2>4
  <2>7. k \in [id : Member, slot : Web!Slot] /\ to[s] \in Web!Slot /\ seats'[to[s]] = Web!Of(k.id)
    BY <1>3, <1>4, <2>5
  <2> QED BY <2>6, <2>7
<1>10. \A s, x \in Web!Slot : seats'[s].is = "member" /\ seats'[s] = seats'[x] => s = x
  <2> SUFFICES ASSUME NEW s \in Web!Slot, NEW x \in Web!Slot, seats'[s].is = "member",
                      seats'[s] = seats'[x]
               PROVE  s = x
    OBVIOUS
  <2>1. PICK y \in Web!Taken : to[y] = s /\ seats'[s] = seats[y]
    BY <1>5, Kinds
  <2>2. PICK z \in Web!Taken : to[z] = x /\ seats'[x] = seats[z]
    BY <1>5, Kinds
  <2>3. y = z
    BY <1>4, <2>1, <2>2 DEF WebInv, Web!KeysFit
  <2> QED BY <2>1, <2>2, <2>3
<1> QED BY <1>6, <1>8, <1>9, <1>10 DEF WebInv, WebForm, Web!KeysFit

\* Seats that no member has, come and go without touching keys or members.
LEMMA OthersStep == ASSUME WebInv, UNCHANGED <<lists, keys>>, seats' \in [Web!Slot -> Seat],
                           \A s \in Web!Slot : seats'[s] = seats[s] \/ (seats[s].is # "member" /\ seats'[s].is # "member")
                    PROVE  WebForm' /\ Web!KeysFit' /\ Web!Seated' = Web!Seated
<1>1. \A s \in Web!Slot, m \in Member : seats'[s] = Web!Of(m) <=> seats[s] = Web!Of(m)
  BY Kinds
<1>2. Web!Seated' = Web!Seated
  BY <1>1 DEF Web!Seated
<1>3. WebForm'
  BY DEF WebInv, WebForm
<1>4. \A k \in keys' : seats'[k.slot] = Web!Of(k.id)
  BY <1>1 DEF WebInv, WebForm, Web!KeysFit
<1>5. \A s, x \in Web!Slot : seats'[s].is = "member" /\ seats'[s] = seats'[x] => s = x
  BY DEF WebInv, Web!KeysFit
<1> QED BY <1>2, <1>3, <1>4, <1>5 DEF Web!KeysFit

LEMMA BeginStep == ASSUME Web!ForkniteAssumption, WebInv, Web!Begin, UNCHANGED lists
                   PROVE  WebForm' /\ Web!KeysFit' /\ Web!Seated' = Web!Seated
<1>1. CASE Web!Cardinality(Web!Taken) < 2
  BY <1>1, OthersStep DEF Web!Begin, WebInv, WebForm
<1>2. CASE ~(Web!Cardinality(Web!Taken) < 2)
  BY <1>2, ShuffleStep DEF Web!Begin
<1> QED BY <1>1, <1>2

\* Whoever is seated by a page or by hand.
LEMMA SeatsStep == ASSUME WebInv, (\E k \in keys : Web!Enter(k)) \/ (\E s \in Web!Slot : Web!EnterGuest(s))
                                  \/ Web!SaboProfile \/ \E n \in 2..Count : Web!Diners(n)
                   PROVE  WebInv'
<1> USE DEF WebInv
<1>1. seats \in [Web!Slot -> Seat] /\ keys \subseteq [id : Member, slot : Web!Slot]
  BY DEF WebForm
<1>2. ASSUME NEW k \in keys, Web!Enter(k) PROVE WebInv'
  <2>1. seats[k.slot] = Web!Of(k.id) /\ k.slot \in Web!Slot
    BY <1>1 DEF Web!KeysFit
  <2>2. seats' = seats /\ UNCHANGED <<lists, keys, native, timer, began>>
    BY <1>1, <1>2, <2>1 DEF Web!Enter
  <2> QED BY <2>2 DEF WebForm, Web!KeysFit, Web!SameTeam, Web!Playing, Web!Seated
<1>3. ASSUME NEW s \in Web!Slot, Web!EnterGuest(s) PROVE WebInv'
  <2>1. /\ UNCHANGED <<lists, keys, native, timer, began>> /\ seats' = [seats EXCEPT ![s] = Web!Guest]
        /\ seats[s].is # "member"
    BY <1>3 DEF Web!EnterGuest
  <2>2. seats' \in [Web!Slot -> Seat]
    BY <1>1, <2>1, Kinds
  <2>3. \A x \in Web!Slot : seats'[x] = seats[x] \/ (seats[x].is # "member" /\ seats'[x].is # "member")
    BY <1>1, <2>1, Kinds
  <2>4. WebForm' /\ Web!KeysFit' /\ Web!Seated' = Web!Seated
    BY <2>1, <2>2, <2>3, OthersStep
  <2> QED BY <2>1, <2>4 DEF Web!SameTeam, Web!Playing
<1>4. CASE Web!SaboProfile
  <2>1. PICK s \in Web!Slot : seats' = [seats EXCEPT ![s] = Web!Sabo] /\ seats[s] = Web!Free
    BY <1>4 DEF Web!SaboProfile, Web!Taken
  <2>2. UNCHANGED <<lists, keys, native, timer, began>> /\ ~Web!Playing
    BY <1>4 DEF Web!SaboProfile, Web!Busy, Web!Playing
  <2>3. seats' \in [Web!Slot -> Seat]
    BY <1>1, <2>1, Kinds
  <2>4. \A x \in Web!Slot : seats'[x] = seats[x] \/ (seats[x].is # "member" /\ seats'[x].is # "member")
    BY <1>1, <2>1, Kinds
  <2>5. WebForm' /\ Web!KeysFit'
    BY <2>2, <2>3, <2>4, OthersStep
  <2> QED BY <2>2, <2>5 DEF Web!SameTeam, Web!Playing
<1>5. ASSUME NEW n, Web!Diners(n) PROVE WebInv'
  <2>1. UNCHANGED <<lists, keys, native, timer, began>> /\ ~Web!Playing
    BY <1>5 DEF Web!Diners, Web!Busy, Web!Playing
  <2> DEFINE others == {s \in Web!Taken : seats[s] # Web!Diner}
  <2>2. /\ DOMAIN seats' = Web!Slot /\ seats' = [s \in Web!Slot |-> seats'[s]]
        /\ \A s \in Web!Slot : seats'[s] = seats[s] \/ (s \notin others /\ seats'[s] \in {Web!Diner, Web!Free})
    BY <1>5 DEF Web!Diners
  <2>3. \A s \in Web!Slot : s \notin others => seats[s].is # "member"
    BY <1>1, Kinds DEF Web!Taken
  <2> HIDE DEF others
  <2>4. \A x \in Web!Slot : seats'[x] = seats[x] \/ (seats[x].is # "member" /\ seats'[x].is # "member")
    BY <2>2, <2>3, Kinds
  <2>5. \A x \in Web!Slot : seats'[x] \in Seat
    BY <1>1, <2>2, Kinds
  <2>6. seats' \in [Web!Slot -> Seat]
    BY <2>2, <2>5
  <2>7. WebForm' /\ Web!KeysFit'
    BY <2>1, <2>4, <2>6, OthersStep
  <2> QED BY <2>1, <2>7 DEF Web!SameTeam, Web!Playing
<1> QED BY <1>2, <1>3, <1>4, <1>5

LEMMA RunStep == ASSUME Web!ForkniteAssumption, WebInv,
                        Web!Start \/ Web!Stop \/ Web!Exit \/ Web!NextRound
                 PROVE  WebInv'
<1> USE DEF WebInv
<1>1. CASE Web!Start
  <2>1. WebForm' /\ Web!KeysFit' /\ Web!Seated' = Web!Seated
    BY <1>1, BeginStep DEF Web!Start
  <2> QED BY <1>1, <2>1 DEF Web!Start, Web!SameTeam
<1>2. CASE Web!NextRound
  <2>1. WebForm' /\ Web!KeysFit' /\ Web!Seated' = Web!Seated /\ began' = began
    BY <1>2, BeginStep DEF Web!NextRound
  <2> QED BY <1>2, <2>1 DEF Web!NextRound, Web!SameTeam, Web!Playing
<1>3. CASE Web!Stop
  BY <1>3 DEF Web!Stop, WebForm, Web!KeysFit, Web!SameTeam, Web!Playing, Web!Seated
<1>4. CASE Web!Exit
  <2>1. Web!Playing' => Web!Playing
    BY <1>4 DEF Web!Exit, Web!Playing
  <2> QED BY <1>4, <2>1 DEF Web!Exit, WebForm, Web!KeysFit, Web!SameTeam, Web!Seated
<1> QED BY <1>1, <1>2, <1>3, <1>4

LEMMA WebStep == ASSUME Web!ForkniteAssumption, WebInv, [Web!Next]_Web!vars PROVE WebInv'
<1>1. CASE Web!Send \/ Web!Lose \/ Web!Configure \/ UNCHANGED Web!vars
  <2>1. UNCHANGED <<seats, keys, native, timer, began>>
    BY <1>1 DEF Web!Send, Web!Lose, Web!Configure, Web!vars
  <2>2. lists' \subseteq SUBSET Member
    BY <1>1 DEF Web!Send, Web!Lose, Web!Configure, Web!vars, WebInv, WebForm
  <2> QED BY <2>1, <2>2 DEF WebInv, WebForm, Web!KeysFit, Web!SameTeam, Web!Playing, Web!Seated
<1> QED BY <1>1, ArrivesStep, SeatsStep, RunStep DEF Web!Next

LEMMA WebInit == Web!Init => WebInv
BY Kinds DEF Web!Init, WebInv, WebForm, Web!KeysFit, Web!SameTeam, Web!Playing

LEMMA WebInductive == ASSUME Web!ForkniteAssumption PROVE Web!Spec => []WebInv
BY WebInit, WebStep, PTL DEF Web!Spec

\* Through every shuffle, and lists of members that arrive in any order, a key opens the seat
\* of its own member and nobody has two seats (server.js:64-66, auth.js:25).
THEOREM KeysOpenOwnSeats == ASSUME Web!ForkniteAssumption PROVE Web!Spec => []KeysFit
<1>1. WebInv => KeysFit
  BY DEF WebInv, KeysFit
<1> QED BY <1>1, WebInductive, PTL

\* The rounds of a tournament are played by the members it began with, whoever joins, leaves
\* or is seated by hand meanwhile (server.js:188).
THEOREM TeamStays == ASSUME Web!ForkniteAssumption PROVE Web!Spec => []SameTeam
<1>1. WebInv => SameTeam
  BY DEF WebInv, SameTeam
<1> QED BY <1>1, WebInductive, PTL

-----------------------------------------------------------------------------
(* The windows of an account that tracks people (Tracking). *)

Note == Track!Place \cup {Track!LetGo}
Glance == [Person -> Track!Place]
Question == [is : {"silent", "asked"}, seen : Glance]

\* The last word on a person is where the window sees them, or that it let go of
\* somebody whom it does not see; and the word before it was another.
Right(news, seen) == /\ news \in Note \X Note /\ news[1] # news[2]
                     /\ news[2] = seen \/ (news[2] = Track!LetGo /\ seen = "gone")
AllRight(news, seen) == \A p \in Person : Right(news[p], seen[p])

TrackForm == /\ at \in [Track!Source -> Glance] /\ roster \in [Window -> Glance]
             /\ poll \in [Window -> Question]
             /\ sight \in [Window -> [Track!Source -> Glance]]
             /\ told \in [Window -> [Track!Source -> [Person -> Note \X Note]]]
TrackRight == \A w \in Window, s \in Track!Source : AllRight(told[w][s], sight[w][s])
TrackInv == TrackForm /\ TrackRight

\* A comparison keeps it right: it tells of a move of whom it looks for, and of nothing else.
LEMMA TellsRight ==
    ASSUME NEW d, NEW s, NEW seen \in Glance, NEW before \in Glance,
           NEW news \in [Person -> Note \X Note], AllRight(news, before)
    PROVE  /\ AllRight(Track!Tells(d, s, seen, before, news), Track!Sees(d, s, seen, before))
           /\ Track!Tells(d, s, seen, before, news) \in [Person -> Note \X Note]
           /\ Track!Sees(d, s, seen, before) \in Glance
<1> SUFFICES ASSUME NEW p \in Person
             PROVE  /\ Right(Track!Tells(d, s, seen, before, news)[p], Track!Sees(d, s, seen, before)[p])
                    /\ Track!Tells(d, s, seen, before, news)[p] \in Note \X Note
                    /\ Track!Sees(d, s, seen, before)[p] \in Track!Place
  BY DEF AllRight, Track!Tells, Track!Sees, Glance
<1>1. Right(news[p], before[p]) /\ seen[p] \in Track!Place /\ before[p] \in Track!Place
  BY DEF AllRight, Glance
<1>2. Track!LetGo \notin Track!Place /\ Track!LetGo \in Note /\ "gone" \in Track!Place
  BY DEF Track!Place, Note, Track!LetGo
<1>3. CASE p \notin Track!Targets(d, s, seen, before)
  <2>1. Track!Tells(d, s, seen, before, news)[p] = Track!Released(news[p]) /\ Track!Sees(d, s, seen, before)[p] = "gone"
    BY <1>3 DEF Track!Tells, Track!Sees
  <2> QED BY <1>1, <1>2, <2>1 DEF Track!Released, Right
<1>4. CASE p \in Track!Targets(d, s, seen, before)
  <2>1. /\ Track!Tells(d, s, seen, before, news)[p] = IF seen[p] # before[p] THEN <<news[p][2], seen[p]>> ELSE news[p]
        /\ Track!Sees(d, s, seen, before)[p] = seen[p]
    BY <1>4 DEF Track!Tells, Track!Sees
  <2> QED BY <1>1, <1>2, <2>1 DEF Right, Note
<1> QED BY <1>3, <1>4

LEMMA ComparedRight ==
    ASSUME TrackInv, NEW w \in Window, NEW s \in Track!Source, NEW d, NEW seen \in Glance,
           Track!Compare(w, d, s, seen), UNCHANGED <<at, poll>>, roster' \in [Window -> Glance]
    PROVE  TrackForm' /\ TrackRight'
<1> DEFINE T == Track!Tells(d, s, seen, sight[w][s], told[w][s])
           S == Track!Sees(d, s, seen, sight[w][s])
<1>0. /\ sight[w][s] \in Glance /\ told[w][s] \in [Person -> Note \X Note]
      /\ AllRight(told[w][s], sight[w][s])
  BY DEF TrackInv, TrackForm, TrackRight
<1>1. AllRight(T, S) /\ T \in [Person -> Note \X Note] /\ S \in Glance
  BY <1>0, TellsRight
<1>2. sight' = [sight EXCEPT ![w][s] = S] /\ told' = [told EXCEPT ![w][s] = T]
  BY DEF Track!Compare
<1> HIDE DEF T, S
<1> QED BY <1>1, <1>2 DEF TrackInv, TrackForm, TrackRight

\* Whom the user takes off is let go of at once.
LEMMA DroppedRight ==
    ASSUME NEW gone, NEW seen \in Glance, NEW news \in [Person -> Note \X Note], AllRight(news, seen)
    PROVE  /\ AllRight(Track!Dropped(news, gone), Track!Without(seen, gone))
           /\ Track!Dropped(news, gone) \in [Person -> Note \X Note] /\ Track!Without(seen, gone) \in Glance
<1> SUFFICES ASSUME NEW p \in Person
             PROVE  /\ Right(Track!Dropped(news, gone)[p], Track!Without(seen, gone)[p])
                    /\ Track!Dropped(news, gone)[p] \in Note \X Note /\ Track!Without(seen, gone)[p] \in Track!Place
  BY DEF AllRight, Track!Dropped, Track!Without, Glance
<1>1. Right(news[p], seen[p]) /\ seen[p] \in Track!Place
  BY DEF AllRight, Glance
<1>2. Track!LetGo \notin Track!Place /\ Track!LetGo \in Note /\ "gone" \in Track!Place
  BY DEF Track!Place, Note, Track!LetGo
<1> QED BY <1>1, <1>2 DEF Track!Dropped, Track!Without, Track!Released, Right

LEMMA EditedRight == ASSUME TrackInv, NEW w \in Window, Track!Edit(w)
                     PROVE  TrackForm' /\ TrackRight'
<1>1. PICK c \in Track!Changes(mine[w].data) :
        /\ sight' = [sight EXCEPT ![w] =
              [campus |-> Track!Without(@["campus"], c.gone),
               lobby |-> Track!Sees(c.data, "lobby", roster[w], Track!Without(sight[w]["lobby"], c.gone))]]
        /\ told' = [told EXCEPT ![w] =
              [campus |-> Track!Dropped(@["campus"], c.gone),
               lobby |-> Track!Tells(c.data, "lobby", roster[w], Track!Without(sight[w]["lobby"], c.gone),
                                     Track!Dropped(told[w]["lobby"], c.gone))]]
  BY Zenon DEF Track!Edit
<1> DEFINE S == [campus |-> Track!Without(sight[w]["campus"], c.gone),
                 lobby |-> Track!Sees(c.data, "lobby", roster[w], Track!Without(sight[w]["lobby"], c.gone))]
           T == [campus |-> Track!Dropped(told[w]["campus"], c.gone),
                 lobby |-> Track!Tells(c.data, "lobby", roster[w], Track!Without(sight[w]["lobby"], c.gone),
                                       Track!Dropped(told[w]["lobby"], c.gone))]
<1>2. \A s \in Track!Source : /\ AllRight(Track!Dropped(told[w][s], c.gone), Track!Without(sight[w][s], c.gone))
                              /\ Track!Dropped(told[w][s], c.gone) \in [Person -> Note \X Note]
                              /\ Track!Without(sight[w][s], c.gone) \in Glance
  BY DroppedRight DEF TrackInv, TrackForm, TrackRight
<1>3. /\ AllRight(T.lobby, S.lobby) /\ T.lobby \in [Person -> Note \X Note] /\ S.lobby \in Glance
  BY <1>2, TellsRight DEF TrackInv, TrackForm, Track!Source
<1>4. \A s \in Track!Source : AllRight(T[s], S[s]) /\ T[s] \in [Person -> Note \X Note] /\ S[s] \in Glance
  BY <1>2, <1>3 DEF Track!Source
<1>5. T \in [Track!Source -> [Person -> Note \X Note]] /\ S \in [Track!Source -> Glance]
  BY <1>4 DEF Track!Source
<1>6. sight' = [sight EXCEPT ![w] = S] /\ told' = [told EXCEPT ![w] = T]
  BY <1>1
<1>7. UNCHANGED <<at, roster, poll>>
  BY DEF Track!Edit
<1> HIDE DEF S, T
<1> QED BY <1>4, <1>5, <1>6, <1>7 DEF TrackInv, TrackForm, TrackRight

LEMMA TrackInit == Track!Init => TrackInv
<1> SUFFICES ASSUME Track!Init PROVE TrackInv
  OBVIOUS
<1>1. Track!Nowhere \in Glance /\ Track!Untold \in [Person -> Note \X Note] /\ AllRight(Track!Untold, Track!Nowhere)
  BY DEF Track!Nowhere, Track!Untold, Glance, Note, Track!Place, Track!LetGo, AllRight, Right
<1>2. [p \in Person |-> "1"] \in Glance
  BY DEF Glance, Track!Place
<1> QED BY <1>1, <1>2 DEF Track!Init, Track!Silent, Question, Track!Source, TrackInv, TrackForm,
           TrackRight

\* However the choices are edited in two windows, read again, missed and asked for, nobody is
\* announced twice in a row for the same seat, unless the window let go of the person in between
\* (tracking.py:85, client.py:576).
THEOREM ToldOnce == Track!Spec => []NewsIsNews
<1>1. TrackInv /\ [Track!Next]_Track!vars => TrackInv'
  <2> SUFFICES ASSUME TrackInv, [Track!Next]_Track!vars PROVE TrackForm' /\ TrackRight'
    BY DEF TrackInv
  <2>1. ASSUME NEW w \in Window, Track!Edit(w) PROVE TrackForm' /\ TrackRight'
    BY <2>1, EditedRight
  <2>2. ASSUME NEW w \in Window, Track!State(w) PROVE TrackForm' /\ TrackRight'
    BY <2>2, ComparedRight DEF Track!State, Track!Source, TrackInv, TrackForm
  <2>3. ASSUME NEW w \in Window, Track!Arrive(w) PROVE TrackForm' /\ TrackRight'
    <3>1. /\ sight' = [sight EXCEPT ![w]["campus"] = Track!Sees(mine[w].data, "campus", poll[w].seen, @)]
          /\ told' = [told EXCEPT ![w]["campus"] = Track!Tells(mine[w].data, "campus", poll[w].seen,
                                                               sight[w]["campus"], @)]
          /\ poll' = [poll EXCEPT ![w] = Track!Silent] /\ UNCHANGED <<at, roster>>
      BY <2>3 DEF Track!Arrive, Track!Compare
    <3>2. poll[w].seen \in Glance /\ "campus" \in Track!Source /\ Track!Silent \in Question
      BY DEF TrackInv, TrackForm, Track!Source, Track!Silent, Track!Nowhere, Glance, Track!Place,
         Question
    <3> DEFINE S == Track!Sees(mine[w].data, "campus", poll[w].seen, sight[w]["campus"])
               T == Track!Tells(mine[w].data, "campus", poll[w].seen, sight[w]["campus"], told[w]["campus"])
    <3>0. /\ sight[w]["campus"] \in Glance /\ told[w]["campus"] \in [Person -> Note \X Note]
          /\ AllRight(told[w]["campus"], sight[w]["campus"])
      BY <3>2 DEF TrackInv, TrackForm, TrackRight
    <3>3. AllRight(T, S) /\ T \in [Person -> Note \X Note] /\ S \in Glance
      BY <3>0, <3>2, TellsRight
    <3>4. sight' = [sight EXCEPT ![w]["campus"] = S] /\ told' = [told EXCEPT ![w]["campus"] = T]
      BY <3>1
    <3> HIDE DEF S, T
    <3> QED BY <3>1, <3>2, <3>3, <3>4 DEF TrackInv, TrackForm, TrackRight
  <2>4. ASSUME NEW w \in Window,
               Track!Look(w) \/ Track!Reload(w) \/ Track!Ask(w) \/ Track!NoAnswer(w)
        PROVE  TrackForm' /\ TrackRight'
    <3>1. UNCHANGED <<at, roster, sight, told>>
      BY <2>4 DEF Track!Look, Track!Reload, Track!Ask, Track!NoAnswer
    <3>2. Track!Nowhere \in Glance /\ at["campus"] \in Glance
      BY DEF TrackInv, TrackForm, Track!Source, Track!Nowhere, Glance, Track!Place
    <3>3. Track!Silent \in Question /\ [is |-> "asked", seen |-> at["campus"]] \in Question
      BY <3>2 DEF Question, Track!Silent
    <3>4. poll' \in [Window -> Question]
      BY <2>4, <3>3 DEF Track!Look, Track!Reload, Track!Ask, Track!NoAnswer, TrackInv, TrackForm
    <3> QED BY <3>1, <3>4 DEF TrackInv, TrackForm, TrackRight
  <2>5. ASSUME NEW s \in Track!Source, NEW p \in Person, Track!Walk(s, p)
        PROVE  TrackForm' /\ TrackRight'
    <3>1. at' \in [Track!Source -> Glance]
      BY <2>5 DEF Track!Walk, TrackInv, TrackForm, Glance
    <3> QED BY <2>5, <3>1 DEF Track!Walk, TrackInv, TrackForm, TrackRight
  <2>6. CASE UNCHANGED Track!vars
    BY <2>6 DEF Track!vars, TrackInv, TrackForm, TrackRight
  <2> QED BY <2>1, <2>2, <2>3, <2>4, <2>5, <2>6 DEF Track!Next, Track!Keeps, Track!Polls
<1>2. TrackInv => NewsIsNews
  BY DEF TrackInv, TrackRight, AllRight, Right, Track!NewsIsNews, NewsIsNews
<1> QED BY <1>1, <1>2, TrackInit, PTL DEF Track!Spec

-----------------------------------------------------------------------------
(* The node of an account and its windows (LocalNode). *)

\* What the windows and the node are like, and when the node has met nobody yet.
NodeForm == /\ node \in [at : {"none", "starting", "up", "closing"}, gen : Int,
                         started : BOOLEAN, shutdown : BOOLEAN]
            /\ win = [w \in Window |-> win[w]]
            /\ \A w \in Window : win[w] = [at |-> win[w].at, code |-> win[w].code,
                                           known |-> win[w].known, missed |-> win[w].missed]
            /\ marker \in Int

Unmet == node.at = "starting" => ~node.started /\ owners = {} /\ \A w \in Window : win[w].at # "greeting"

NodeInv == NodeForm /\ Local!TypeOK /\ Unmet /\ Local!LastOwnerCloses

LEMMA WholeWindow == ASSUME NodeInv, NEW w \in Window
                     PROVE  win[w] = [at |-> win[w].at, code |-> win[w].code, known |-> win[w].known,
                                      missed |-> win[w].missed]
BY DEF NodeInv, NodeForm

\* Two fields of a window are set, one after the other.
LEMMA RunsSet == ASSUME NEW r, NEW x, NEW y,
                       r = [at |-> r.at, code |-> r.code, known |-> r.known, missed |-> r.missed]
                PROVE  [r EXCEPT !.at = x, !.known = y]
                         = [at |-> x, code |-> r.code, known |-> y, missed |-> r.missed]
<1> DEFINE s == [at |-> x, code |-> r.code, known |-> r.known, missed |-> r.missed]
<1>1. [r EXCEPT !.at = x] = s
  OBVIOUS
<1>2. [r EXCEPT !.at = x, !.known = y] = [[r EXCEPT !.at = x] EXCEPT !.known = y]
  BY Zenon
<1>3. [s EXCEPT !.known = y] = [at |-> x, code |-> r.code, known |-> y, missed |-> r.missed]
  OBVIOUS
<1> HIDE DEF s
<1> QED BY <1>1, <1>2, <1>3, Zenon

LEMMA WaySet == ASSUME NEW r, NEW x, NEW y,
                       r = [at |-> r.at, code |-> r.code, known |-> r.known, missed |-> r.missed]
                PROVE  [r EXCEPT !.at = x, !.missed = y]
                         = [at |-> x, code |-> r.code, known |-> r.known, missed |-> y]
<1> DEFINE s == [at |-> x, code |-> r.code, known |-> r.known, missed |-> r.missed]
<1>1. [r EXCEPT !.at = x] = s
  OBVIOUS
<1>2. [r EXCEPT !.at = x, !.missed = y] = [[r EXCEPT !.at = x] EXCEPT !.missed = y]
  BY Zenon
<1>3. [s EXCEPT !.missed = y] = [at |-> x, code |-> r.code, known |-> r.known, missed |-> y]
  OBVIOUS
<1> HIDE DEF s
<1> QED BY <1>1, <1>2, <1>3, Zenon

\* A window whose connection ends leaves a node that is told to close, or has other owners.
LEMMA LeavesWell == ASSUME NodeInv, NEW w \in Window, Local!Leaves(w),
                           NEW to, win' = [win EXCEPT ![w] = to], to.at # "greeting",
                           to = [at |-> to.at, code |-> to.code, known |-> to.known, missed |-> to.missed],
                           child' \in [Window -> {"none", "new", "node", "failed"}],
                           UNCHANGED marker
                    PROVE  NodeInv'
<1> USE DEF NodeInv
<1>1. /\ node' \in [at : {"none", "starting", "up", "closing"}, gen : Int, started : BOOLEAN, shutdown : BOOLEAN]
      /\ node'.at = node.at /\ node'.started = node.started
      /\ node'.shutdown = (node.shutdown \/ owners = {w}) /\ owners' = owners \ {w}
  BY DEF Local!Leaves, NodeForm
<1>2. /\ win' = [v \in Window |-> win'[v]] /\ win'[w] = to
      /\ \A v \in Window \ {w} : win'[v] = win[v]
  BY DEF NodeForm
<1>3. NodeForm'
  BY <1>1, <1>2 DEF NodeForm
<1>4. Local!TypeOK'
  BY <1>1, <1>2 DEF Local!TypeOK
<1>5. Unmet'
  BY <1>1, <1>2 DEF Unmet
<1>6. Local!LastOwnerCloses'
  BY <1>1, <1>2 DEF Local!LastOwnerCloses
<1> QED BY <1>3, <1>4, <1>5, <1>6

LEMMA GoneWell == ASSUME NodeInv, NEW w \in Window, Local!Gone(w) PROVE NodeInv'
<1>1. Local!Closed.at # "greeting"
  BY DEF Local!Closed
<1>2. Local!Closed = [at |-> Local!Closed.at, code |-> Local!Closed.code, known |-> Local!Closed.known, missed |-> Local!Closed.missed]
  BY DEF Local!Closed
<1>3. child' \in [Window -> {"none", "new", "node", "failed"}]
  BY DEF Local!Gone, NodeInv, Local!TypeOK
<1> QED BY <1>1, <1>2, <1>3, LeavesWell DEF Local!Gone

\* A window goes on without the node's being told.
LEMMA GoesOn == ASSUME NodeInv, NEW w \in Window, NEW to, win' = [win EXCEPT ![w] = to],
                       to = [at |-> to.at, code |-> to.code, known |-> to.known, missed |-> to.missed],
                       to.at = "greeting" => node.at = "up",
                       w \in owners => to.at \in {"owner", "running", "between"},
                       child' \in [Window -> {"none", "new", "node", "failed"}],
                       UNCHANGED <<marker, node, owners>>
                PROVE  NodeInv'
<1> USE DEF NodeInv
<1>1. /\ win' = [v \in Window |-> win'[v]] /\ win'[w] = to
      /\ \A v \in Window \ {w} : win'[v] = win[v]
  BY DEF NodeForm
<1>2. NodeForm'
  BY <1>1 DEF NodeForm
<1>3. Local!TypeOK'
  BY <1>1 DEF Local!TypeOK
<1>4. Unmet'
  BY <1>1 DEF Unmet
<1>5. Local!LastOwnerCloses'
  BY <1>1 DEF Local!LastOwnerCloses
<1> QED BY <1>2, <1>3, <1>4, <1>5

\* The process of the node goes on, or ends with every connection.
LEMMA ServesWell == ASSUME NodeInv, NEW to \in {"up", "closing", node.at}, NEW shutdown \in BOOLEAN,
                           Local!Serves(to, shutdown), node.at # "none", node.shutdown => shutdown,
                           to = "starting" => node.at = "starting"
                    PROVE  NodeInv'
<1>1. /\ node' \in [at : {"none", "starting", "up", "closing"}, gen : Int, started : BOOLEAN, shutdown : BOOLEAN]
      /\ node'.at = to /\ node'.started = node.started /\ node'.shutdown = shutdown
  BY DEF Local!Serves, NodeForm, NodeInv
<1> QED BY <1>1 DEF Local!Serves, NodeInv, NodeForm, Local!TypeOK, Unmet, Local!LastOwnerCloses

LEMMA EndsWell == ASSUME NodeInv, Local!Ends PROVE NodeInv'
<1>1. Local!NoNode.at = "none" /\ Local!NoNode.started = FALSE
      /\ Local!NoNode \in [at : {"none", "starting", "up", "closing"}, gen : Int, started : BOOLEAN, shutdown : BOOLEAN]
  BY DEF Local!NoNode
<1>2. /\ Local!Closed.at # "greeting"
      /\ Local!Closed = [at |-> Local!Closed.at, code |-> Local!Closed.code, known |-> Local!Closed.known, missed |-> Local!Closed.missed]
  BY DEF Local!Closed
<1>3. node' = Local!NoNode /\ owners' = {} /\ marker' = marker
  BY DEF Local!Ends
<1>4. /\ win' = [v \in Window |-> win'[v]]
      /\ \A w \in Window : win'[w] = IF win[w].at = "greeting" THEN Local!Closed ELSE win[w]
  BY DEF Local!Ends
<1>5. child' \in [Window -> {"none", "new", "node", "failed"}]
  BY DEF Local!Ends, NodeInv, Local!TypeOK
<1>6. NodeForm'
  BY <1>1, <1>2, <1>3, <1>4 DEF NodeInv, NodeForm
<1>7. (Local!TypeOK /\ Unmet /\ Local!LastOwnerCloses)'
  BY <1>1, <1>2, <1>3, <1>4, <1>5 DEF Local!TypeOK, Unmet, Local!LastOwnerCloses
<1> QED BY <1>6, <1>7 DEF NodeInv

\* The node meets an owner, also one that is gone when it answers him.
LEMMA GreetWell == ASSUME NodeInv, NEW w \in Window, Local!Greet(w) PROVE NodeInv'
<1> USE DEF NodeInv
<1>1. /\ node' \in [at : {"none", "starting", "up", "closing"}, gen : Int, started : BOOLEAN, shutdown : BOOLEAN]
      /\ node'.at = node.at /\ node'.shutdown = node.shutdown
  BY DEF Local!Greet, NodeForm
<1>2. node.at \notin {"none", "starting"}
  BY DEF Local!Greet, Unmet, Local!LastOwnerCloses
<1>3. /\ win' = [v \in Window |-> win'[v]] /\ win'[w] = [win[w] EXCEPT !.at = "owner"]
      /\ \A v \in Window \ {w} : win'[v] = win[v]
  BY DEF Local!Greet, Local!Move, NodeForm
<1>4. win'[w].at = "owner" /\ win'[w] = [at |-> win'[w].at, code |-> win'[w].code, known |-> win'[w].known,
                                         missed |-> win'[w].missed]
  BY <1>3 DEF NodeForm
<1>5. NodeForm'
  BY <1>1, <1>3, <1>4 DEF Local!Greet, NodeForm
<1> QED BY <1>1, <1>2, <1>3, <1>4, <1>5 DEF Local!Greet, Local!TypeOK, Unmet, Local!LastOwnerCloses

LEMMA DiesWell == ASSUME NodeInv, NEW w \in Window, Local!Dies(w) PROVE NodeInv'
<1> USE DEF NodeInv
<1>1. CASE Local!Gone(w)
  BY <1>1, GoneWell
<1>2. CASE /\ win[w].at = "greeting"
           /\ node' = [node EXCEPT !.started = TRUE, !.shutdown = @ \/ owners = {}]
           /\ win' = [win EXCEPT ![w] = Local!Closed] /\ child' = [child EXCEPT ![w] = "none"]
           /\ UNCHANGED <<marker, owners, visits>>
  <2>1. /\ node' \in [at : {"none", "starting", "up", "closing"}, gen : Int, started : BOOLEAN, shutdown : BOOLEAN]
        /\ node'.at = node.at /\ node'.shutdown = (node.shutdown \/ owners = {})
    BY <1>2 DEF NodeForm
  <2>2. node.at \notin {"none", "starting"}
    BY <1>2 DEF Unmet, Local!LastOwnerCloses
  <2>3. /\ win' = [v \in Window |-> win'[v]] /\ win'[w] = Local!Closed
        /\ \A v \in Window \ {w} : win'[v] = win[v]
    BY <1>2 DEF NodeForm
  <2>4. w \notin owners
    BY <1>2 DEF Local!TypeOK
  <2>5. NodeForm'
    BY <1>2, <2>1, <2>3 DEF Local!Closed, NodeForm
  <2>6. child' \in [Window -> {"none", "new", "node", "failed"}]
    BY <1>2 DEF Local!TypeOK
  <2> QED BY <1>2, <2>1, <2>2, <2>3, <2>4, <2>5, <2>6 DEF Local!Closed, Local!TypeOK, Unmet,
             Local!LastOwnerCloses
<1> QED BY <1>1, <1>2 DEF Local!Dies

LEMMA SignalWell == ASSUME NodeInv, Local!Signal PROVE NodeInv'
<1> USE DEF NodeInv
<1>1. \A w \in Window : win'[w] = [win[w] EXCEPT !.missed = @ \/ win[w].at \notin {"closed", "running"}]
  BY DEF Local!Signal
<1>2. \A w \in Window : /\ win'[w].at = win[w].at
                        /\ win'[w] = [at |-> win'[w].at, code |-> win'[w].code, known |-> win'[w].known,
                                      missed |-> win'[w].missed]
  BY <1>1 DEF NodeForm
<1>3. win' = [w \in Window |-> win'[w]] /\ node' = node
  BY DEF Local!Signal
<1>4. marker' \in Int
  BY DEF Local!Signal, NodeForm
<1>5. NodeForm'
  BY <1>2, <1>3, <1>4 DEF NodeForm
<1> QED BY <1>2, <1>5 DEF Local!Signal, Local!TypeOK, Unmet, Local!LastOwnerCloses

LEMMA TakesWell == ASSUME NodeInv, NEW w \in Window, Local!Takes(w) PROVE NodeInv'
<1> USE DEF NodeInv
<1>1. child' \in [Window -> {"none", "new", "node", "failed"}]
  BY DEF Local!Takes, Local!TypeOK
<1>2. CASE node.at = "none"
  <2>1. node' = [Local!NoNode EXCEPT !.at = "starting", !.gen = marker]
    BY <1>2 DEF Local!Takes
  <2>2. /\ node' \in [at : {"none", "starting", "up", "closing"}, gen : Int, started : BOOLEAN, shutdown : BOOLEAN]
        /\ node'.at = "starting" /\ ~node'.started
    BY <2>1 DEF Local!NoNode, NodeForm
  <2> QED BY <1>1, <1>2, <2>2 DEF Local!Takes, NodeForm, Local!TypeOK, Unmet, Local!LastOwnerCloses
<1>3. CASE node.at # "none"
  BY <1>1, <1>3 DEF Local!Takes, NodeForm, Local!TypeOK, Unmet, Local!LastOwnerCloses
<1> QED BY <1>2, <1>3

\* What a window does by itself, or its user, while the node stays as it is.
LEMMA WindowWell == ASSUME NodeInv, NEW w \in Window,
                           \/ Local!Open(w) \/ Local!Probe(w) \/ Local!Confirm(w) \/ Local!Connects(w) \/ Local!Enter(w) \/ Local!Travels(w)
                           \/ Local!Arrives(w) \/ Local!Again(w)
                    PROVE  NodeInv'
<1> DEFINE Whole(to) == to = [at |-> to.at, code |-> to.code, known |-> to.known, missed |-> to.missed]
<1>1. child \in [Window -> {"none", "new", "node", "failed"}]
  BY DEF NodeInv, Local!TypeOK
<1>2. w \in owners => win[w].at \in {"owner", "running", "between"}
  BY DEF NodeInv, Local!TypeOK
<1>3. ASSUME NEW to, Local!Move(w, to), to = "greeting" => node.at = "up",
             w \in owners => to \in {"owner", "running", "between"},
             child' \in [Window -> {"none", "new", "node", "failed"}],
             UNCHANGED <<marker, node, owners>>
      PROVE  NodeInv'
  <2>1. [win[w] EXCEPT !.at = to].at = to /\ Whole([win[w] EXCEPT !.at = to])
    BY DEF NodeInv, NodeForm
  <2>2. win' = [win EXCEPT ![w] = [win[w] EXCEPT !.at = to]]
    BY <1>3 DEF Local!Move
  <2> QED BY <1>3, <2>1, <2>2, GoesOn
<1>4. ASSUME win' = [win EXCEPT ![w] = Local!Fresh], w \notin owners,
             child' \in [Window -> {"none", "new", "node", "failed"}], UNCHANGED <<marker, node, owners>>
      PROVE  NodeInv'
  <2>1. Local!Fresh.at = "probing" /\ Whole(Local!Fresh)
    BY DEF Local!Fresh
  <2> QED BY <1>4, <2>1, GoesOn
<1>5. ASSUME Local!Runs(w) PROVE NodeInv'
  <2> DEFINE to == [win[w] EXCEPT !.at = "running", !.known = marker]
  <2>1. to = [at |-> "running", code |-> win[w].code, known |-> marker, missed |-> win[w].missed]
    BY WholeWindow, RunsSet, Zenon
  <2> HIDE DEF to
  <2>2. to.at = "running" /\ Whole(to)
    BY <2>1
  <2>3. win' = [win EXCEPT ![w] = to] /\ child' = child /\ UNCHANGED <<marker, node, owners>>
    BY <1>5 DEF Local!Runs, to
  <2> QED BY <1>1, <2>3, <2>2, GoesOn
<1>6. CASE Local!Open(w)
  BY <1>1, <1>2, <1>4, <1>6 DEF Local!Open
<1>7. CASE Local!Probe(w)
  <2>1. child' \in [Window -> {"none", "new", "node", "failed"}]
    BY <1>1, <1>7 DEF Local!Probe
  <2> QED BY <1>2, <1>3, <1>7, <2>1 DEF Local!Probe
<1>8. CASE Local!Confirm(w)
  BY <1>1, <1>2, <1>3, <1>8, GoneWell DEF Local!Confirm
<1>9. CASE Local!Connects(w)
  BY <1>1, <1>2, <1>3, <1>9, GoneWell DEF Local!Connects, Local!Answers
<1>10. CASE Local!Enter(w)
  BY <1>5, <1>10, GoneWell DEF Local!Enter
<1>11. CASE Local!Travels(w)
  <2>1. PICK late : late = (win[w].missed \/ win[w].known # marker)
    BY Zenon
  <2> DEFINE to == [win[w] EXCEPT !.at = "between", !.missed = late]
  <2>2. win[w] = [at |-> win[w].at, code |-> win[w].code, known |-> win[w].known, missed |-> win[w].missed]
    BY WholeWindow
  <2>3. [win[w] EXCEPT !.at = "between", !.missed = late]
          = [at |-> "between", code |-> win[w].code, known |-> win[w].known, missed |-> late]
    BY <2>2, WaySet, Zenon
  <2>4. to = [at |-> "between", code |-> win[w].code, known |-> win[w].known, missed |-> late]
    BY <2>3
  <2> HIDE DEF to
  <2>5. to.at = "between" /\ Whole(to)
    BY <2>4
  <2>6. win' = [win EXCEPT ![w] = to] /\ child' = child /\ UNCHANGED <<marker, node, owners>>
    <3>1. [win[w] EXCEPT !.at = "between", !.missed = win[w].missed \/ win[w].known # marker] = to
      BY <2>1, Zenon DEF to
    <3>2. win' = [win EXCEPT ![w] =
                    [win[w] EXCEPT !.at = "between", !.missed = win[w].missed \/ win[w].known # marker]]
      BY <1>11, Zenon DEF Local!Travels
    <3>3. win' = [win EXCEPT ![w] = to]
      BY <3>1, <3>2, Zenon
    <3> QED BY <1>11, <3>3, Zenon DEF Local!Travels
  <2> QED BY <1>1, <2>6, <2>5, GoesOn
<1>12. CASE Local!Arrives(w)
  BY <1>5, <1>12, GoneWell DEF Local!Arrives
<1>13. CASE Local!Again(w)
  <2>1. child' \in [Window -> {"none", "new", "node", "failed"}]
    BY <1>1, <1>13 DEF Local!Again
  <2> QED BY <1>2, <1>4, <1>13, <2>1 DEF Local!Again
<1> QED BY <1>6, <1>7, <1>8, <1>9, <1>10, <1>11, <1>12, <1>13

\* A window that restarts, or is not heard of, gives up the node.
LEMMA GivesUp == ASSUME NodeInv, NEW w \in Window, Local!Restarts(w) \/ Local!Stall(w)
                 PROVE  NodeInv'
<1>1. child \in [Window -> {"none", "new", "node", "failed"}]
  BY DEF NodeInv, Local!TypeOK
<1>2. CASE Local!Restarts(w)
  <2> DEFINE to == [win[w] EXCEPT !.at = "restarting"]
  <2>1. to.at = "restarting" /\ to = [at |-> to.at, code |-> to.code, known |-> to.known, missed |-> to.missed]
    BY DEF NodeInv, NodeForm
  <2>2. win' = [win EXCEPT ![w] = to] /\ child' = child /\ marker' = marker /\ Local!Leaves(w)
    BY <1>2 DEF Local!Restarts, Local!Move
  <2> QED BY <1>1, <2>1, <2>2, LeavesWell
<1>3. CASE Local!Stall(w)
  <2>1. win[w].at # "greeting"
    BY <1>3 DEF Local!Stall, NodeInv, Local!TypeOK
  <2>2. win = [win EXCEPT ![w] = win[w]]
    <3>1. win = [v \in Window |-> win[v]]
      BY DEF NodeInv, NodeForm
    <3> QED BY <3>1
  <2>3. win[w] = [at |-> win[w].at, code |-> win[w].code, known |-> win[w].known, missed |-> win[w].missed]
    BY DEF NodeInv, NodeForm
  <2>4. win' = [win EXCEPT ![w] = win[w]] /\ child' = child /\ marker' = marker /\ Local!Leaves(w)
    BY <1>3, <2>2 DEF Local!Stall
  <2> QED BY <1>1, <2>1, <2>3, <2>4, LeavesWell
<1> QED BY <1>2, <1>3

LEMMA NodeStep == ASSUME NodeInv, [Local!Next]_Local!vars PROVE NodeInv'
<1>1. ASSUME NEW w \in Window, Local!Acts(w) PROVE NodeInv'
  BY <1>1, WindowWell, GreetWell, GivesUp, TakesWell DEF Local!Acts, Local!Check
<1>2. CASE Local!Serve
  BY <1>2, ServesWell DEF Local!Serve, NodeInv, NodeForm
<1>3. CASE Local!Watch
  BY <1>3, ServesWell DEF Local!Watch
<1>4. CASE Local!Main
  BY <1>4, ServesWell DEF Local!Main, Local!Answers
<1>5. CASE Local!Alone
  BY <1>5, ServesWell DEF Local!Alone, Local!Answers, NodeInv, NodeForm
<1>6. CASE Local!Exit \/ Local!Crash
  BY <1>6, EndsWell DEF Local!Exit, Local!Crash
<1>7. ASSUME NEW w \in Window,
             Local!Open(w) \/ Local!Travels(w) \/ Local!UserRestart(w) \/ Local!Dies(w) \/ Local!Stall(w)
      PROVE  NodeInv'
  BY <1>7, WindowWell, GivesUp, DiesWell DEF Local!UserRestart
<1>8. CASE UNCHANGED Local!vars
  BY <1>8 DEF Local!vars, NodeInv, NodeForm, Local!TypeOK, Unmet, Local!LastOwnerCloses
<1> QED BY <1>1, <1>2, <1>3, <1>4, <1>5, <1>6, <1>7, <1>8, SignalWell DEF Local!Next, Local!Steps

\* However windows open, travel, restart, stall and die, and the node starts, closes and
\* crashes: nobody is connected to a node that has ended, and one whose last owner has left,
\* or left before it knew him, is told to close (server.py:787, server.py:880).
THEOREM LeftNodeCloses == Local!Spec => [](Local!TypeOK /\ Local!LastOwnerCloses)
<1>1. Local!Init => NodeInv
  <2> SUFFICES ASSUME Local!Init PROVE NodeInv
    OBVIOUS
  <2>1. NodeForm
    BY DEF Local!Init, Local!NoNode, Local!Closed, NodeForm
  <2> QED BY <2>1 DEF Local!Init, Local!NoNode, Local!Closed, NodeInv, Local!TypeOK, Unmet,
             Local!LastOwnerCloses
<1>2. NodeInv /\ [Local!Next]_Local!vars => NodeInv'
  BY NodeStep
<1>3. NodeInv => Local!TypeOK /\ Local!LastOwnerCloses
  BY DEF NodeInv
<1> QED BY <1>1, <1>2, <1>3, PTL DEF Local!Spec
=============================================================================
