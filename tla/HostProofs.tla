----------------------------- MODULE HostProofs -----------------------------
(***************************************************************************)
(* Proofs about the services of the verified host that MCHost runs next to *)
(* the broker: the gate for remote guests, the announcement desk with the  *)
(* windows that poll it, and the snapshots of the campus.  They are about  *)
(* the specifications of the instances, for all values of their constants. *)
(***************************************************************************)
EXTENDS MCHost, Integers, Sequences, FiniteSetTheorems, TLAPS

(* The gate (RemoteGate). *)

\* Counting is counting, also where the gate is an instance.
LEMMA Count == \A S : Gate!Cardinality(S) = Cardinality(S)
BY DEF Gate!Cardinality, Cardinality

\* Both dictionaries are finite, so that they can be counted.
Counted == IsFiniteSet(Gate!Pending) /\ IsFiniteSet(Gate!Active)

GateInv == Gate!TypeOK /\ Counted /\ Gate!GateBounded

LEMMA RecentType == ASSUME Gate!TypeOK PROVE Gate!Recent \in [Gate!Sources -> Int]
BY DEF Gate!TypeOK, Gate!Recent

\* A step that adds nobody to either dictionary keeps the bound.
LEMMA NobodyAdded == ASSUME Gate!GateAssumption, Counted, Gate!GateBounded,
                            Gate!Pending' \subseteq Gate!Pending, Gate!Active' \subseteq Gate!Active
                     PROVE  Counted' /\ Gate!GateBounded'
<1>1. /\ IsFiniteSet(Gate!Pending') /\ Cardinality(Gate!Pending') <= Cardinality(Gate!Pending)
      /\ IsFiniteSet(Gate!Active') /\ Cardinality(Gate!Active') <= Cardinality(Gate!Active)
  BY FS_Subset DEF Counted
<1>2. /\ Cardinality(Gate!Pending') \in Nat /\ Cardinality(Gate!Active') \in Nat
      /\ Cardinality(Gate!Pending) \in Nat /\ Cardinality(Gate!Active) \in Nat
  BY <1>1, FS_CardinalityType DEF Counted
<1> QED BY <1>1, <1>2, Count DEF Counted, Gate!GateBounded, Gate!GateAssumption

LEMMA GateInit == Gate!GateAssumption /\ Gate!Init => GateInv
<1> SUFFICES ASSUME Gate!GateAssumption, Gate!Init PROVE GateInv
  OBVIOUS
<1>1. Gate!TypeOK
  BY DEF Gate!Init, Gate!TypeOK, Gate!Sources
<1>2. Gate!Pending = {} /\ Gate!Active = {}
  BY DEF Gate!Init, Gate!Pending, Gate!Active
<1>3. Cardinality({}) = 0 /\ IsFiniteSet({})
  BY FS_EmptySet
<1> QED BY <1>1, <1>2, <1>3, Count DEF GateInv, Counted, Gate!GateBounded, Gate!GateAssumption

\* A guest who asks is counted as pending, and was let in below both limits.
LEMMA AskInv == ASSUME Gate!GateAssumption, GateInv, NEW g \in Guest, Gate!Ask(g) PROVE GateInv'
<1> USE DEF GateInv
<1>1. Gate!TypeOK'
  <2>1. recent' \in [Gate!Sources -> Int]
    BY RecentType DEF Gate!Ask, Gate!TypeOK, Gate!Sources
  <2>2. at' \in [Guest -> {"new", "asking", "approved", "denied", "served", "revoked", "gone"}]
    BY DEF Gate!Ask, Gate!TypeOK
  <2>3. since' \in [Guest -> Nat]
    BY DEF Gate!Ask, Gate!TypeOK
  <2>4. up' \in [Guest -> BOOLEAN]
    <3>1. up' = up \/ up' = [up EXCEPT ![g] = FALSE]
      BY DEF Gate!Ask
    <3> QED BY <3>1, Zenon DEF Gate!TypeOK
  <2> QED BY <2>1, <2>2, <2>3, <2>4 DEF Gate!Ask, Gate!TypeOK, Gate!Sources
<1>2. CASE Gate!Room /\ at' = [at EXCEPT ![g] = "asking"]
  <2>1. Gate!Pending' = Gate!Pending \cup {g} /\ Gate!Active' = Gate!Active /\ g \notin Gate!Pending
    BY <1>2 DEF Gate!Ask, Gate!Pending, Gate!Active, Gate!TypeOK
  <2>2. /\ IsFiniteSet(Gate!Pending') /\ Cardinality(Gate!Pending') = Cardinality(Gate!Pending) + 1
        /\ Cardinality(Gate!Pending) \in Nat /\ Cardinality(Gate!Active) \in Nat
    BY <2>1, FS_AddElement, FS_CardinalityType DEF Counted
  <2>3. Cardinality(Gate!Pending') + Cardinality(Gate!Active') <= Asking + MaxActive - 1
    BY <1>2, <2>1, <2>2, Count DEF Gate!Room, Gate!GateAssumption
  <2> QED BY <1>1, <2>1, <2>2, <2>3, Count DEF Counted, Gate!GateBounded
<1>3. CASE at' = [at EXCEPT ![g] = "gone"]
  <2>1. Gate!Pending' \subseteq Gate!Pending /\ Gate!Active' \subseteq Gate!Active
    BY <1>3 DEF Gate!Ask, Gate!Pending, Gate!Active, Gate!TypeOK
  <2> QED BY <1>1, <2>1, NobodyAdded
<1> QED BY <1>2, <1>3 DEF Gate!Ask

\* An approval moves a socket from one dictionary to the other: the sum stays.
LEMMA ResumeInv == ASSUME Gate!GateAssumption, GateInv, NEW g \in Guest, Gate!Resume(g)
                   PROVE  GateInv'
<1> USE DEF GateInv
<1>1. Gate!TypeOK'
  BY DEF Gate!Resume, Gate!Away, Gate!TypeOK, Gate!Sources
<1>2. CASE at[g] = "approved" /\ at' = [at EXCEPT ![g] = "served"]
  <2>1. /\ Gate!Pending' = Gate!Pending \ {g} /\ g \in Gate!Pending
        /\ Gate!Active' = Gate!Active \cup {g} /\ g \notin Gate!Active
    BY <1>2 DEF Gate!Pending, Gate!Active, Gate!TypeOK
  <2>2. /\ IsFiniteSet(Gate!Pending') /\ Cardinality(Gate!Pending') = Cardinality(Gate!Pending) - 1
        /\ IsFiniteSet(Gate!Active') /\ Cardinality(Gate!Active') = Cardinality(Gate!Active) + 1
        /\ Cardinality(Gate!Pending) \in Nat /\ Cardinality(Gate!Active) \in Nat
    BY <2>1, FS_AddElement, FS_RemoveElement, FS_CardinalityType DEF Counted
  <2> QED BY <1>1, <2>2, Count DEF Counted, Gate!GateBounded, Gate!GateAssumption
<1>3. CASE Gate!Away(g)
  <2>1. Gate!Pending' \subseteq Gate!Pending /\ Gate!Active' \subseteq Gate!Active
    BY <1>3 DEF Gate!Away, Gate!Pending, Gate!Active, Gate!TypeOK
  <2> QED BY <1>1, <2>1, NobodyAdded
<1> QED BY <1>2, <1>3 DEF Gate!Resume

\* Nothing else puts a socket into a dictionary it was not in.
LEMMA GuestInv == ASSUME Gate!GateAssumption, GateInv, NEW g \in Guest,
                         Gate!Decide(g) \/ Gate!Leave(g) \/ Gate!Revoke(g) \/ Gate!HangUp(g)
                  PROVE  GateInv'
<1> USE DEF GateInv
<1>1. Gate!TypeOK'
  BY DEF Gate!Decide, Gate!Leave, Gate!Revoke, Gate!HangUp, Gate!Away, Gate!TypeOK, Gate!Sources
<1>2. Gate!Pending' \subseteq Gate!Pending /\ Gate!Active' \subseteq Gate!Active
  <2>1. CASE Gate!Decide(g)
    BY <2>1 DEF Gate!Decide, Gate!Pending, Gate!Active, Gate!TypeOK
  <2>2. CASE Gate!Leave(g) \/ Gate!Revoke(g) \/ Gate!HangUp(g)
    BY <2>2 DEF Gate!Leave, Gate!Revoke, Gate!HangUp, Gate!Away, Gate!Pending, Gate!Active,
       Gate!TypeOK
  <2> QED BY <2>1, <2>2
<1> QED BY <1>1, <1>2, NobodyAdded

LEMMA HostInv == ASSUME Gate!GateAssumption, GateInv,
                        Gate!Clock \/ Gate!Close \/ Gate!Shut \/ UNCHANGED Gate!vars
                 PROVE  GateInv'
<1> USE DEF GateInv
<1>1. Gate!TypeOK'
  <2>1. CASE Gate!Clock
    BY <2>1 DEF Gate!Clock, Gate!TypeOK, Gate!Sources
  <2>2. CASE Gate!Close
    <3>1. at' \in [Guest -> {"new", "asking", "approved", "denied", "served", "revoked", "gone"}]
      BY <2>2 DEF Gate!Close, Gate!TypeOK
    <3>2. up' \in [Guest -> BOOLEAN]
      BY <2>2, Zenon DEF Gate!Close, Gate!TypeOK
    <3> QED BY <2>2, <3>1, <3>2 DEF Gate!Close, Gate!TypeOK, Gate!Sources
  <2>3. CASE Gate!Shut
    <3>1. up' \in [Guest -> BOOLEAN]
      BY <2>3, Zenon DEF Gate!Shut, Gate!TypeOK
    <3> QED BY <2>3, <3>1 DEF Gate!Shut, Gate!TypeOK, Gate!Sources
  <2>4. CASE UNCHANGED Gate!vars
    BY <2>4 DEF Gate!vars, Gate!TypeOK, Gate!Sources
  <2> QED BY <2>1, <2>2, <2>3, <2>4
<1>2. Gate!Pending' \subseteq Gate!Pending /\ Gate!Active' \subseteq Gate!Active
  BY DEF Gate!Clock, Gate!Close, Gate!Shut, Gate!vars, Gate!Pending, Gate!Active
<1> QED BY <1>1, <1>2, NobodyAdded

LEMMA GateInductive == ASSUME Gate!GateAssumption PROVE Gate!Spec => []GateInv
<1>1. Gate!Init => GateInv
  BY GateInit
<1>2. GateInv /\ [Gate!Next]_Gate!vars => GateInv'
  <2> SUFFICES ASSUME GateInv, [Gate!Next]_Gate!vars PROVE GateInv'
    OBVIOUS
  <2>1. CASE \E g \in Guest : Gate!Ask(g)
    BY <2>1, AskInv
  <2>2. CASE \E g \in Guest : Gate!Resume(g)
    BY <2>2, ResumeInv
  <2>3. CASE \E g \in Guest : Gate!Decide(g) \/ Gate!Leave(g) \/ Gate!Revoke(g) \/ Gate!HangUp(g)
    BY <2>3, GuestInv
  <2>4. CASE Gate!Clock \/ Gate!Close \/ Gate!Shut \/ UNCHANGED Gate!vars
    BY <2>4, HostInv
  <2> QED BY <2>1, <2>2, <2>3, <2>4 DEF Gate!Next, Gate!Task
<1> QED BY <1>1, <1>2, PTL DEF Gate!Spec

\* The gate keeps its dictionaries, clocks and sockets well-formed for any number of
\* guests (remote_access.py:28-90).
THEOREM GateTypeCorrect == ASSUME Gate!GateAssumption PROVE Gate!Spec => []Gate!TypeOK
BY GateInductive, PTL DEF GateInv

\* However long approvals take and in whatever order they come, pending and active guests
\* together never reach the sum of the two limits, although the active ones are not counted
\* again when one is added (remote_access.py:66, 76).
THEOREM GuestsBounded == ASSUME Gate!GateAssumption PROVE Gate!Spec => []GateBounded
<1>1. GateInv => GateBounded
  BY DEF GateInv, GateBounded
<1> QED BY <1>1, GateInductive, PTL

\* Nobody is served whom the operator did not approve while the gate was open, and a guest
\* who was revoked, declined or timed out never comes back on the same socket
\* (remote_access.py:57, 76-90).
Admission == \A g \in Guest : /\ at'[g] = "served" /\ at[g] # "served" => at[g] = "approved"
                              /\ at'[g] = "approved" /\ at[g] # "approved" => gate = "open"
                              /\ at[g] \in {"revoked", "denied"} => at'[g] \in {at[g], "gone"}
                              /\ at[g] = "gone" => at'[g] = "gone"

THEOREM OnlyApproved == ASSUME Gate!GateAssumption PROVE Gate!Spec => [][Admission]_Gate!vars
<1>1. Gate!TypeOK /\ [Gate!Next]_Gate!vars => [Admission]_Gate!vars
  <2> SUFFICES ASSUME Gate!TypeOK, Gate!Next PROVE Admission
    BY DEF Gate!vars
  <2>1. CASE Gate!Clock \/ Gate!Close \/ Gate!Shut
    BY <2>1 DEF Gate!Clock, Gate!Close, Gate!Shut, Gate!TypeOK, Admission
  <2>2. ASSUME NEW g \in Guest,
               Gate!Ask(g) \/ Gate!Decide(g) \/ Gate!Task(g) \/ Gate!Revoke(g) \/ Gate!HangUp(g)
        PROVE  Admission
    BY <2>2 DEF Gate!Ask, Gate!Decide, Gate!Task, Gate!Resume, Gate!Leave, Gate!Revoke,
                Gate!HangUp, Gate!Away, Gate!TypeOK, Admission
  <2> QED BY <2>1, <2>2 DEF Gate!Next
<1> QED BY <1>1, GateTypeCorrect, PTL DEF Gate!Spec
-----------------------------------------------------------------------------
(* The announcement desk (Announcements, HostWatch). *)

Request == [by : Student \cup Admin, created : Nat,
            status : {"pending", "approved", "rejected", "expired"}]

\* The table of requests holds requests, of identifiers that were drawn.
Form == /\ now \in Nat /\ made \in Nat /\ published \in [Desk!Id -> 0..2]
        /\ requests \in [DOMAIN requests -> Request]
        /\ DOMAIN requests \subseteq Desk!Id /\ \A i \in DOMAIN requests : i <= made

\* What was not drawn yet was not published.
Undrawn == \A i \in Desk!Id : i > made => published[i] = 0

DeskInv == Form /\ Undrawn /\ Desk!Verdicts

\* prune() forgets requests and lets them expire; no verdict changes.
LEMMA Pruned == ASSUME Form
                PROVE  /\ Desk!Requests \in [DOMAIN Desk!Requests -> Request]
                       /\ DOMAIN Desk!Requests \subseteq DOMAIN requests
                       /\ \A i \in DOMAIN Desk!Requests :
                             /\ Desk!Requests[i].status = "approved" <=> requests[i].status = "approved"
                             /\ Desk!Requests[i].status = "pending" => requests[i].status = "pending"
<1>1. DOMAIN Desk!Requests = Desk!Kept /\ Desk!Kept \subseteq DOMAIN requests
  BY DEF Desk!Requests, Desk!Kept
<1>2. ASSUME NEW i \in Desk!Kept
      PROVE  /\ Desk!Requests[i] = [requests[i] EXCEPT !.status = Desk!Status(i)]
             /\ requests[i] \in Request
             /\ Desk!Status(i) \in {requests[i].status, "expired"}
             /\ Desk!Status(i) = "expired" => requests[i].status \in {"pending", "expired"}
  BY <1>1, <1>2 DEF Desk!Requests, Desk!Status, Form
<1>3. ASSUME NEW i \in Desk!Kept
      PROVE  /\ Desk!Requests[i] \in Request
             /\ Desk!Requests[i].status = "approved" <=> requests[i].status = "approved"
             /\ Desk!Requests[i].status = "pending" => requests[i].status = "pending"
  BY <1>2 DEF Request
<1>4. Desk!Requests \in [Desk!Kept -> Request]
  BY <1>3 DEF Desk!Requests
<1> QED BY <1>1, <1>3, <1>4

LEMMA DeskInit == MaxIds \in Nat /\ Desk!Init => DeskInv
<1> SUFFICES ASSUME MaxIds \in Nat, Desk!Init PROVE DeskInv
  OBVIOUS
<1>1. Form
  BY DEF Desk!Init, Desk!DeskInit, Form, Desk!Id
<1>2. Undrawn /\ Desk!Verdicts
  BY DEF Desk!Init, Desk!DeskInit, Undrawn, Desk!Verdicts
<1> QED BY <1>1, <1>2 DEF DeskInv

\* A step that only prunes.
LEMMA PruneInv == ASSUME DeskInv, requests' = Desk!Requests, UNCHANGED <<now, made, published>>
                  PROVE  DeskInv'
<1>1. Form'
  BY Pruned DEF DeskInv, Form
<1>2. Undrawn'
  BY DEF DeskInv, Undrawn
<1>3. Desk!Verdicts'
  BY Pruned DEF DeskInv, Desk!Verdicts
<1> QED BY <1>1, <1>2, <1>3 DEF DeskInv

\* publish() of an identifier that was not published.
LEMMA Published == ASSUME Form, NEW i \in Desk!Id, published[i] = 0, Desk!Publish(i)
                   PROVE  /\ published' \in [Desk!Id -> 0..2] /\ published'[i] = 1
                          /\ \A j \in Desk!Id \ {i} : published'[j] = published[j]
BY DEF Form, Desk!Publish

LEMMA BroadcastInv == ASSUME MaxIds \in Nat, DeskInv,
                             NEW p \in Admin, NEW i \in Desk!Id, Desk!Broadcast(p, i)
                      PROVE  DeskInv'
<1> USE DEF DeskInv
<1>1. i = made + 1 /\ made' = i /\ requests' = Desk!Requests /\ now' = now
  BY DEF Desk!Broadcast, Desk!Draw
<1>2. published[i] = 0 /\ Desk!Publish(i)
  BY <1>1 DEF Desk!Broadcast, Undrawn, Form
<1>3. i \notin DOMAIN Desk!Requests
  BY <1>1, Pruned DEF Form
<1>4. Form'
  BY <1>1, <1>2, Pruned, Published DEF Form, Desk!Id
<1>5. Undrawn'
  BY <1>1, <1>2, Published DEF Undrawn, Form, Desk!Id
<1>6. Desk!Verdicts'
  BY <1>1, <1>2, <1>3, Pruned, Published DEF Desk!Verdicts, Form
<1> QED BY <1>4, <1>5, <1>6

LEMMA SubmitInv == ASSUME MaxIds \in Nat, DeskInv, NEW p \in Student, NEW i \in Desk!Id,
                          Desk!Submit(p, i)
                   PROVE  DeskInv'
<1> USE DEF DeskInv
<1>1. i = made + 1 /\ made' = i /\ UNCHANGED <<now, published>>
  BY DEF Desk!Submit, Desk!Draw
<1>2. published[i] = 0
  BY <1>1 DEF Undrawn, Form
<1>3. PICK room \in Desk!Roomy :
          requests' = [k \in DOMAIN room \cup {i} |->
                          IF k = i THEN [by |-> p, created |-> now, status |-> "pending"] ELSE room[k]]
  BY DEF Desk!Submit
<1>4. DOMAIN room \subseteq DOMAIN Desk!Requests /\ \A k \in DOMAIN room : room[k] = Desk!Requests[k]
  BY <1>3 DEF Desk!Roomy
<1>5. i \notin DOMAIN Desk!Requests
  BY <1>1, Pruned DEF Form
<1>6. /\ DOMAIN requests' = DOMAIN room \cup {i}
      /\ requests'[i] = [by |-> p, created |-> now, status |-> "pending"]
      /\ \A k \in DOMAIN room : requests'[k] = Desk!Requests[k] /\ k \in DOMAIN Desk!Requests
  BY <1>3, <1>4, <1>5
<1>7. Form'
  <2>1. [by |-> p, created |-> now, status |-> "pending"] \in Request
    BY DEF Request, Form
  <2>2. \A k \in DOMAIN room : Desk!Requests[k] \in Request
    BY <1>4, Pruned
  <2>3. requests' \in [DOMAIN requests' -> Request]
    BY <1>3, <1>6, <2>1, <2>2
  <2>4. DOMAIN requests' \subseteq Desk!Id /\ \A k \in DOMAIN requests' : k <= made'
    BY <1>1, <1>4, <1>6, Pruned DEF Form, Desk!Id
  <2> QED BY <1>1, <2>3, <2>4 DEF Form
<1>8. Undrawn'
  BY <1>1 DEF Undrawn, Form, Desk!Id
<1>9. Desk!Verdicts'
  BY <1>1, <1>2, <1>4, <1>6, Pruned DEF Desk!Verdicts, Form
<1> QED BY <1>7, <1>8, <1>9

\* A button: only the first one that is pressed in time counts.
LEMMA DecideInv == ASSUME DeskInv, NEW i \in Desk!Id, NEW d \in {"approved", "rejected"},
                          Desk!Decide(i, d)
                   PROVE  DeskInv'
<1> USE DEF DeskInv
<1>1. i \in DOMAIN Desk!Requests /\ UNCHANGED <<now, made>>
  BY DEF Desk!Decide
<1>2. CASE Desk!Requests[i].status # "pending"
  BY <1>1, <1>2, PruneInv DEF Desk!Decide
<1>3. CASE Desk!Requests[i].status = "pending"
  <2>1. requests' = [Desk!Requests EXCEPT ![i].status = d]
    BY <1>3 DEF Desk!Decide
  <2>2. requests[i].status = "pending" /\ published[i] = 0
    BY <1>1, <1>3, Pruned DEF Desk!Verdicts, Form
  <2>3. /\ DOMAIN requests' = DOMAIN Desk!Requests /\ requests'[i] \in Request /\ requests'[i].status = d
        /\ \A k \in DOMAIN Desk!Requests \ {i} : requests'[k] = Desk!Requests[k]
    BY <1>1, <2>1, Pruned DEF Request
  <2>4. requests' \in [DOMAIN requests' -> Request]
    BY <2>1, <2>3, Pruned
  <2>5. CASE d = "approved"
    <3>1. Desk!Publish(i)
      BY <1>3, <2>5 DEF Desk!Decide
    <3>2. Form'
      BY <1>1, <2>2, <2>3, <2>4, <3>1, Pruned, Published DEF Form
    <3>3. Undrawn'
      <4>1. \A j \in Desk!Id : j > made => j # i
        BY <1>1, Pruned DEF Form, Desk!Id
      <4> QED BY <1>1, <2>2, <3>1, <4>1, Published DEF Undrawn
    <3>4. Desk!Verdicts'
      BY <2>2, <2>3, <2>5, <3>1, Pruned, Published DEF Desk!Verdicts, Form
    <3> QED BY <3>2, <3>3, <3>4
  <2>6. CASE d = "rejected"
    <3>1. published' = published
      BY <1>3, <2>6 DEF Desk!Decide
    <3>2. Form'
      BY <1>1, <2>3, <2>4, <3>1, Pruned DEF Form
    <3>3. Undrawn'
      BY <1>1, <3>1 DEF Undrawn
    <3>4. Desk!Verdicts'
      BY <2>2, <2>3, <2>6, <3>1, Pruned DEF Desk!Verdicts, Form
    <3> QED BY <3>2, <3>3, <3>4
  <2> QED BY <2>5, <2>6
<1> QED BY <1>2, <1>3

LEMMA RestartInv == ASSUME DeskInv, Desk!Restart PROVE DeskInv'
<1>1. DOMAIN requests' = {} /\ UNCHANGED <<now, made, published>>
  BY DEF Desk!Restart
<1>2. requests' \in [DOMAIN requests' -> Request]
  BY DEF Desk!Restart
<1> QED BY <1>1, <1>2 DEF DeskInv, Form, Undrawn, Desk!Verdicts

LEMMA DeskInductive == ASSUME MaxIds \in Nat PROVE Desk!Spec => []DeskInv
<1>1. Desk!Init => DeskInv
  BY DeskInit
<1>2. DeskInv /\ [Desk!Next]_<<Desk!desk, Desk!watch>> => DeskInv'
  <2> SUFFICES ASSUME DeskInv, [Desk!Next]_<<Desk!desk, Desk!watch>> PROVE DeskInv'
    OBVIOUS
  <2>1. CASE \E i \in Desk!Id : \/ \E p \in Student : Desk!Submit(p, i)
                                \/ \E p \in Admin : Desk!Broadcast(p, i)
                                \/ \E d \in {"approved", "rejected"} : Desk!Decide(i, d)
    BY <2>1, SubmitInv, BroadcastInv, DecideInv
  <2>2. CASE Desk!Restart
    BY <2>2, RestartInv
  <2>3. CASE Desk!Tick
    BY <2>3 DEF Desk!Tick, DeskInv, Form, Undrawn, Desk!Verdicts
  <2>4. CASE \E w \in Lobby : Desk!Poll(w)
    BY <2>4, PruneInv DEF Desk!Poll, Desk!Prune
  <2>5. CASE UNCHANGED Desk!desk
    BY <2>5 DEF Desk!desk, DeskInv, Form, Undrawn, Desk!Verdicts
  <2>6. (\E w \in Lobby : Desk!Miss(w) \/ Desk!Show(w)) => UNCHANGED Desk!desk
    BY DEF Desk!Miss, Desk!Show
  <2>7. CASE Desk!DeskNext
    BY <2>1, <2>2, <2>3, <2>7 DEF Desk!DeskNext
  <2>8. CASE \E w \in Lobby : Desk!Poll(w) \/ Desk!Miss(w) \/ Desk!Show(w)
    BY <2>4, <2>5, <2>6, <2>8
  <2> QED BY <2>5, <2>7, <2>8 DEF Desk!Next
<1> QED BY <1>1, <1>2, PTL DEF Desk!Spec


-----------------------------------------------------------------------------
(* What the windows hear. *)

\* An announcement that a window has shown, or has in its inbox.
Seen(w, i) == shown[w][i] > 0 \/ \E m \in 1..Len(inbox[w]) : i \in inbox[w][m].news

\* The processes of the host, by epoch, that an announcement is known to be of.
Of(n, i) == \/ <<n, i>> \in claimed
            \/ n = epoch /\ \E e \in feed : e.id = i
            \/ \E w \in Lobby : \E m \in 1..Len(inbox[w]) :
                  inbox[w][m].epoch = n /\ i \in inbox[w][m].news

Entry == [seq : Nat, id : Desk!Id, created : Nat]
Message == [epoch : Nat, news : SUBSET Desk!Id]
WatchForm == /\ epoch \in Nat /\ sequence \in Nat /\ feed \subseteq Entry
             /\ cursor \in [Lobby -> Nat] /\ known \in [Lobby -> Nat]
             /\ \A w \in Lobby : known[w] <= epoch
             /\ inbox \in [Lobby -> Seq(Message)]
             /\ shown \in [Lobby -> [Desk!Id -> Nat]] /\ popups \in [Desk!Id -> Nat]
             /\ claimed \subseteq Nat \X Desk!Id

\* Every entry of a feed has a number and an announcement of its own.
FeedForm == /\ \A e \in feed : e.seq <= sequence /\ published[e.id] > 0
            /\ \A e, f \in feed : e.id = f.id => e = f

\* An announcement is of one process of the host.
OneEpoch == \A i \in Desk!Id : \A n, k \in Nat : Of(n, i) => published[i] > 0 /\ (Of(k, i) => n = k)

\* A popup, or a line in a window, was claimed.
Claimed == \A i \in Desk!Id : /\ popups[i] > 0 => \E n \in Nat : <<n, i>> \in claimed
                              /\ \A w \in Lobby : shown[w][i] > 0 => \E n \in Nat : <<n, i>> \in claimed

\* What a window has seen of the feed is not above its cursor.
Passed == \A w \in Lobby : \A e \in feed : Seen(w, e.id) => known[w] = epoch /\ e.seq <= cursor[w]

\* What is in an inbox is in one message of it, and was not shown yet.
Single == \A w \in Lobby : \A i \in Desk!Id : \A m \in 1..Len(inbox[w]) :
              i \in inbox[w][m].news =>
                  /\ shown[w][i] = 0
                  /\ \A k \in 1..Len(inbox[w]) : i \in inbox[w][k].news => m = k

Heard == WatchForm /\ FeedForm /\ OneEpoch /\ Claimed /\ Passed /\ Single /\ Desk!HeardOnce

LEMMA InitHeard == Desk!Init => Heard
<1> SUFFICES ASSUME Desk!Init PROVE Heard
  OBVIOUS
<1> USE DEF Desk!Init, Desk!DeskInit
<1>1. WatchForm /\ FeedForm
  BY DEF WatchForm, FeedForm
<1>2. \A i \in Desk!Id : \A n \in Nat : ~Of(n, i)
  BY DEF Of
<1>3. OneEpoch
  BY <1>2 DEF OneEpoch
<1>4. Claimed /\ Passed /\ Single /\ Desk!HeardOnce
  BY DEF Claimed, Passed, Single, Desk!HeardOnce
<1> QED BY <1>1, <1>3, <1>4 DEF Heard

\* What a step of the desk does to what the windows see: nothing but forget, publish one
\* announcement that was not published, or begin a new epoch.
Publishes(i) == /\ published[i] = 0 /\ published' = [published EXCEPT ![i] = 1]
                /\ epoch' = epoch /\ sequence' = sequence + 1
                /\ feed' \subseteq feed \cup {[seq |-> sequence + 1, id |-> i, created |-> now]}
Forgets == feed' \subseteq feed /\ UNCHANGED <<epoch, sequence, published>>
Begins == feed' = {} /\ epoch' = epoch + 1 /\ sequence' = 0 /\ UNCHANGED published

LEMMA FeedShrinks == Desk!Feed \subseteq feed
BY DEF Desk!Feed, Desk!Newest

LEMMA PublishStep == ASSUME DeskInv, NEW i \in Desk!Id, published[i] = 0, Desk!Publish(i),
                            epoch' = epoch
                     PROVE  Publishes(i)
<1>1. feed' \subseteq feed \cup {[seq |-> sequence + 1, id |-> i, created |-> now]}
  BY FeedShrinks DEF Desk!Publish, Desk!Newest
<1>2. published' = [published EXCEPT ![i] = 1]
  BY DEF Desk!Publish, DeskInv, Form
<1> QED BY <1>1, <1>2 DEF Publishes, Desk!Publish

LEMMA DeskStep == ASSUME DeskInv, Desk!DeskNext
                  PROVE  Forgets \/ Begins \/ \E i \in Desk!Id : Publishes(i)
<1>1. CASE Desk!Tick
  BY <1>1 DEF Desk!Tick, Forgets
<1>2. CASE Desk!Restart
  BY <1>2 DEF Desk!Restart, Begins
<1>3. ASSUME NEW i \in Desk!Id, NEW p \in Student, Desk!Submit(p, i) PROVE Forgets
  BY <1>3, FeedShrinks DEF Desk!Submit, Forgets
<1>4. ASSUME NEW i \in Desk!Id, NEW p \in Admin, Desk!Broadcast(p, i) PROVE Publishes(i)
  <2>1. published[i] = 0
    BY <1>4 DEF Desk!Broadcast, Desk!Draw, DeskInv, Undrawn, Form
  <2> QED BY <1>4, <2>1, PublishStep DEF Desk!Broadcast
<1>5. ASSUME NEW i \in Desk!Id, NEW d \in {"approved", "rejected"}, Desk!Decide(i, d)
      PROVE  Forgets \/ Publishes(i)
  <2>1. CASE Desk!Requests[i].status = "pending" /\ d = "approved"
    <3>1. published[i] = 0
      BY <1>5, <2>1, Pruned DEF Desk!Decide, DeskInv, Desk!Verdicts, Form
    <3> QED BY <1>5, <2>1, <3>1, PublishStep DEF Desk!Decide
  <2>2. CASE ~(Desk!Requests[i].status = "pending" /\ d = "approved")
    BY <1>5, <2>2, FeedShrinks DEF Desk!Decide, Forgets
  <2> QED BY <2>1, <2>2
<1> QED BY <1>1, <1>2, <1>3, <1>4, <1>5 DEF Desk!DeskNext

\* A step that gives no announcement to another process of the host.
LEMMA SameEpochs ==
    ASSUME OneEpoch, \A i \in Desk!Id : published'[i] >= published[i],
           published \in [Desk!Id -> 0..2], published' \in [Desk!Id -> 0..2],
           \A i \in Desk!Id : \A n \in Nat :
               Of(n, i)' => \/ Of(n, i)
                            \/ n = epoch' /\ published[i] = 0 /\ published'[i] > 0
    PROVE  OneEpoch'
BY DEF OneEpoch

LEMMA DeskHeard == ASSUME DeskInv, DeskInv', Heard, Desk!DeskNext, UNCHANGED Desk!watch PROVE Heard'
<1> USE DEF Heard
<1>1. /\ UNCHANGED <<cursor, known, inbox, shown, claimed, popups>>
      /\ published \in [Desk!Id -> 0..2] /\ published' \in [Desk!Id -> 0..2] /\ now \in Nat
  BY DEF Desk!watch, DeskInv, Form
<1>2. Claimed' /\ Single' /\ Desk!HeardOnce'
  BY <1>1 DEF Claimed, Single, Desk!HeardOnce
<1>3. \A w \in Lobby, i \in Desk!Id : Seen(w, i)' <=> Seen(w, i)
  BY <1>1 DEF Seen
<1>4. \A w \in Lobby, i \in Desk!Id : Seen(w, i) => published[i] > 0
  <2> SUFFICES ASSUME NEW w \in Lobby, NEW i \in Desk!Id, Seen(w, i) PROVE published[i] > 0
    OBVIOUS
  <2>1. PICK n \in Nat : Of(n, i)
    <3>1. CASE shown[w][i] > 0
      BY <3>1 DEF Claimed, Of
    <3>2. CASE \E m \in 1..Len(inbox[w]) : i \in inbox[w][m].news
      <4>1. PICK m \in 1..Len(inbox[w]) : i \in inbox[w][m].news
        BY <3>2
      <4>2. inbox[w] \in Seq(Message)
        BY DEF WatchForm
      <4>3. inbox[w][m] \in Message
        BY <4>1, <4>2
      <4>4. inbox[w][m].epoch \in Nat
        BY <4>3 DEF Message
      <4> QED BY <4>1, <4>4 DEF Of
    <3> QED BY <3>1, <3>2 DEF Seen
  <2> QED BY <2>1 DEF OneEpoch
<1>5. CASE Forgets
  <2>1. WatchForm' /\ FeedForm'
    BY <1>1, <1>5 DEF Forgets, WatchForm, FeedForm
  <2>4. Passed'
    <3> SUFFICES ASSUME NEW w \in Lobby, NEW e \in feed', Seen(w, e.id)'
                 PROVE  known'[w] = epoch' /\ e.seq <= cursor'[w]
      BY DEF Passed
    <3>1. e \in feed /\ e.id \in Desk!Id
      BY <1>5 DEF Forgets, WatchForm, Entry
    <3> QED BY <1>1, <1>3, <1>5, <3>1 DEF Forgets, Passed
  <2>2. \A i \in Desk!Id : \A n \in Nat : Of(n, i)' => Of(n, i)
    BY <1>1, <1>5 DEF Forgets, Of
  <2>3. OneEpoch'
    BY <1>5, <2>2 DEF Forgets, OneEpoch
  <2> QED BY <1>2, <2>1, <2>3, <2>4
<1>6. CASE Begins
  <2>1. WatchForm' /\ FeedForm' /\ Passed'
    BY <1>1, <1>6 DEF Begins, WatchForm, FeedForm, Passed
  <2>2. \A i \in Desk!Id : \A n \in Nat : Of(n, i)' => Of(n, i)
    BY <1>1, <1>6 DEF Begins, Of
  <2>3. OneEpoch'
    BY <1>6, <2>2 DEF Begins, OneEpoch
  <2> QED BY <1>2, <2>1, <2>3
<1>7. ASSUME NEW i \in Desk!Id, Publishes(i) PROVE Heard'
  <2> DEFINE new == [seq |-> sequence + 1, id |-> i, created |-> now]
  <2>1. new \in Entry /\ new.id = i /\ new.seq = sequence + 1
    BY <1>1 DEF Entry, WatchForm
  <2>2. /\ feed' \subseteq feed \cup {new} /\ epoch' = epoch /\ sequence' = sequence + 1
        /\ published[i] = 0 /\ published'[i] = 1
        /\ \A j \in Desk!Id \ {i} : published'[j] = published[j]
    BY <1>1, <1>7 DEF Publishes
  <2> HIDE DEF new
  <2>3. WatchForm'
    BY <1>1, <2>1, <2>2 DEF WatchForm
  <2>4. \A e \in feed : e \in Entry /\ e.id # i /\ e.seq \in Nat /\ e.seq <= sequence
    BY <2>2 DEF FeedForm, WatchForm, Entry
  <2>5. FeedForm'
    <3>1. ASSUME NEW e \in feed' PROVE e.seq <= sequence' /\ published'[e.id] > 0
      <4>1. CASE e = new
        BY <2>1, <2>2, <4>1 DEF WatchForm
      <4>2. CASE e \in feed
        <5>1. e.id \in Desk!Id \ {i} /\ published[e.id] > 0 /\ sequence \in Nat
          BY <2>4, <4>2 DEF FeedForm, Entry, WatchForm
        <5> QED BY <2>2, <2>4, <4>2, <5>1
      <4> QED BY <2>2, <4>1, <4>2
    <3>2. \A e, f \in feed' : e.id = f.id => e = f
      BY <2>1, <2>2, <2>4 DEF FeedForm
    <3> QED BY <3>1, <3>2 DEF FeedForm
  <2>6. Passed'
    <3> SUFFICES ASSUME NEW w \in Lobby, NEW e \in feed', Seen(w, e.id)'
                 PROVE  known'[w] = epoch' /\ e.seq <= cursor'[w]
      BY DEF Passed
    <3>1. e.id \in Desk!Id
      BY <2>1, <2>2, <2>4 DEF Entry
    <3>2. Seen(w, e.id) /\ published[e.id] > 0
      BY <1>3, <1>4, <3>1
    <3>3. e \in feed
      BY <2>1, <2>2, <3>2
    <3> QED BY <1>1, <2>2, <3>2, <3>3 DEF Passed
  <2>7. OneEpoch'
    <3>1. ASSUME NEW j \in Desk!Id, NEW n \in Nat, Of(n, j)'
          PROVE  Of(n, j) \/ (n = epoch' /\ published[j] = 0 /\ published'[j] > 0)
      <4>1. n = epoch /\ j = i => n = epoch' /\ published[j] = 0 /\ published'[j] > 0
        BY <2>2
      <4>2. (\E e \in feed' : e.id = j) => (\E e \in feed : e.id = j) \/ j = i
        BY <2>1, <2>2
      <4> QED BY <1>1, <2>2, <3>1, <4>1, <4>2 DEF Of
    <3>2. \A j \in Desk!Id : published'[j] >= published[j]
      BY <1>1, <2>2
    <3> QED BY <1>1, <3>1, <3>2, SameEpochs
  <2> QED BY <1>2, <2>3, <2>5, <2>6, <2>7
<1> QED BY <1>5, <1>6, <1>7, DeskStep

\* put(): a message goes to the end of the inbox of one window, or is dropped.
LEMMA PutAdds ==
    ASSUME WatchForm, NEW w \in Lobby, NEW message \in Message, Desk!Put(w, message)
    PROVE  /\ inbox' \in [Lobby -> Seq(Message)]
           /\ \A v \in Lobby \ {w} : inbox'[v] = inbox[v]
           /\ \/ inbox'[w] = inbox[w]
              \/ inbox'[w] = Append(inbox[w], message)
BY DEF WatchForm, Desk!Put

LEMMA Entries ==
    ASSUME WatchForm, NEW w \in Lobby, NEW m \in 1..Len(inbox[w])
    PROVE  inbox[w][m] \in Message /\ inbox[w][m].epoch \in Nat /\ inbox[w][m].news \subseteq Desk!Id
<1>1. inbox[w] \in Seq(Message)
  BY DEF WatchForm
<1>2. inbox[w][m] \in Message
  BY <1>1
<1> QED BY <1>2 DEF Message

\* What was put into the inbox of a window is the message, and the rest was there.
LEMMA PutMessages ==
    ASSUME WatchForm, NEW w \in Lobby, NEW message \in Message, Desk!Put(w, message)
    PROVE  /\ \A v \in Lobby \ {w} : inbox'[v] = inbox[v]
           /\ \A k \in 1..Len(inbox'[w]) :
                 \/ k \in 1..Len(inbox[w]) /\ inbox'[w][k] = inbox[w][k]
                 \/ k = Len(inbox[w]) + 1 /\ inbox'[w][k] = message
<1>1. inbox[w] \in Seq(Message)
  BY DEF WatchForm
<1> QED BY <1>1, PutAdds

LEMMA MissHeard == ASSUME Heard, NEW w \in Lobby, Desk!Miss(w) PROVE Heard'
<1> USE DEF Heard
<1> DEFINE message == [epoch |-> known[w], news |-> {}]
<1>1. /\ UNCHANGED <<epoch, sequence, feed, published, cursor, known, shown, claimed, popups>>
      /\ Desk!Put(w, message) \/ inbox' = inbox
  BY DEF Desk!Miss, Desk!desk
<1>2. message \in Message /\ message.news = {}
  BY DEF Message, WatchForm
<1> HIDE DEF message
<1>3. WatchForm'
  BY <1>1, <1>2, PutAdds DEF WatchForm
<1>4. \A v \in Lobby : \A k \in 1..Len(inbox'[v]) :
          \/ k \in 1..Len(inbox[v]) /\ inbox'[v][k] = inbox[v][k]
          \/ inbox'[v][k].news = {}
  BY <1>1, <1>2, PutMessages
<1>5. \A v \in Lobby, i \in Desk!Id : Seen(v, i)' => Seen(v, i)
  BY <1>1, <1>4 DEF Seen
<1>6. \A n \in Nat, i \in Desk!Id : Of(n, i)' => Of(n, i)
  BY <1>1, <1>4 DEF Of
<1>7. FeedForm' /\ Claimed' /\ Desk!HeardOnce'
  BY <1>1 DEF FeedForm, Claimed, Desk!HeardOnce
<1>8. OneEpoch'
  BY <1>1, <1>6 DEF OneEpoch
<1>9. Passed'
  BY <1>1, <1>5 DEF Passed, WatchForm, Entry
<1>10. Single'
  BY <1>1, <1>4 DEF Single
<1> QED BY <1>3, <1>7, <1>8, <1>9, <1>10

\* What a window shows is of the message at the head, and no other one has it.
LEMMA ShowHeard == ASSUME Heard, NEW w \in Lobby, Desk!Show(w) PROVE Heard'
<1> USE DEF Heard
<1> DEFINE message == Head(inbox[w])
           mine == {i \in message.news : <<message.epoch, i>> \notin claimed}
<1>1. /\ inbox[w] # <<>> /\ inbox' = [inbox EXCEPT ![w] = Tail(@)]
      /\ shown' = [shown EXCEPT ![w] =
                       [i \in Desk!Id |-> IF i \in message.news THEN Desk!More(@[i]) ELSE @[i]]]
      /\ popups' = [i \in Desk!Id |-> IF i \in mine THEN Desk!More(popups[i]) ELSE popups[i]]
      /\ claimed' = claimed \cup {<<message.epoch, i>> : i \in mine}
      /\ UNCHANGED <<epoch, sequence, feed, published, cursor, known>>
  BY DEF Desk!Show, Desk!Claim, Desk!desk
<1>2. inbox[w] \in Seq(Message) /\ 1 \in 1..Len(inbox[w]) /\ message = inbox[w][1]
  BY <1>1 DEF WatchForm
<1>3. message \in Message /\ message.epoch \in Nat /\ message.news \subseteq Desk!Id
  BY <1>2, Entries
<1>4. /\ inbox' \in [Lobby -> Seq(Message)]
      /\ \A v \in Lobby \ {w} : inbox'[v] = inbox[v]
      /\ Len(inbox'[w]) = Len(inbox[w]) - 1
      /\ \A k \in 1..Len(inbox'[w]) : k + 1 \in 1..Len(inbox[w]) /\ inbox'[w][k] = inbox[w][k+1]
  BY <1>1, <1>2 DEF WatchForm
<1> HIDE DEF message
<1>5. \A v \in Lobby, i \in Desk!Id :
          shown'[v][i] = IF v = w /\ i \in message.news THEN Desk!More(shown[v][i]) ELSE shown[v][i]
  BY <1>1 DEF WatchForm
<1>6. \A i \in message.news : shown[w][i] = 0
  BY <1>2, <1>3 DEF Single
<1>7. \A i \in Desk!Id : i \in message.news => Of(message.epoch, i)
  BY <1>2 DEF Of
<1>8. WatchForm'
  <2>1. shown' \in [Lobby -> [Desk!Id -> Nat]] /\ popups' \in [Desk!Id -> Nat]
    BY <1>1 DEF WatchForm, Desk!More
  <2>2. claimed' \subseteq Nat \X Desk!Id
    <3>1. \A i \in mine : <<message.epoch, i>> \in Nat \X Desk!Id
      BY <1>3
    <3> HIDE DEF mine
    <3> QED BY <1>1, <3>1 DEF WatchForm
  <2> QED BY <1>1, <1>4, <2>1, <2>2 DEF WatchForm
<1>9. FeedForm'
  BY <1>1 DEF FeedForm
<1>10. \A v \in Lobby, i \in Desk!Id : Seen(v, i)' => Seen(v, i)
  <2> SUFFICES ASSUME NEW v \in Lobby, NEW i \in Desk!Id, Seen(v, i)' PROVE Seen(v, i)
    OBVIOUS
  <2>1. CASE shown'[v][i] > 0
    BY <1>2, <1>5, <2>1 DEF Seen
  <2>2. CASE \E m \in 1..Len(inbox'[v]) : i \in inbox'[v][m].news
    BY <1>4, <2>2 DEF Seen
  <2> QED BY <2>1, <2>2 DEF Seen
<1>11. Passed'
  BY <1>1, <1>10 DEF Passed, WatchForm, Entry
<1>12. OneEpoch'
  <2>1. ASSUME NEW i \in Desk!Id, NEW n \in Nat, Of(n, i)' PROVE Of(n, i)
    <3>1. CASE <<n, i>> \in claimed'
      BY <1>1, <1>7, <3>1 DEF Of
    <3>2. CASE n = epoch' /\ \E e \in feed' : e.id = i
      BY <1>1, <3>2 DEF Of
    <3>3. CASE \E v \in Lobby : \E m \in 1..Len(inbox'[v]) :
                   inbox'[v][m].epoch = n /\ i \in inbox'[v][m].news
      BY <1>4, <3>3 DEF Of
    <3> QED BY <2>1, <3>1, <3>2, <3>3 DEF Of
  <2> QED BY <1>1, <2>1 DEF OneEpoch
<1>13. \A i \in message.news : <<message.epoch, i>> \in claimed'
  BY <1>1
<1>14. Claimed'
  <2>1. \A i \in Desk!Id : \A n \in Nat : <<n, i>> \in claimed => <<n, i>> \in claimed'
    BY <1>1
  <2>2. ASSUME NEW i \in Desk!Id, i \in message.news PROVE \E n \in Nat : <<n, i>> \in claimed'
    BY <1>3, <1>13, <2>2
  <2>3. ASSUME NEW i \in Desk!Id, i \notin message.news
        PROVE  popups'[i] = popups[i] /\ \A v \in Lobby : shown'[v][i] = shown[v][i]
    BY <1>1, <1>5, <2>3
  <2> QED BY <2>1, <2>2, <2>3 DEF Claimed
<1>15. Single'
  <2> SUFFICES ASSUME NEW v \in Lobby, NEW i \in Desk!Id, NEW m \in 1..Len(inbox'[v]),
                      i \in inbox'[v][m].news
               PROVE  /\ shown'[v][i] = 0
                      /\ \A k \in 1..Len(inbox'[v]) : i \in inbox'[v][k].news => m = k
    BY DEF Single
  <2>1. CASE v # w
    <3>1. inbox'[v] = inbox[v] /\ shown'[v][i] = shown[v][i]
      BY <1>4, <1>5, <2>1
    <3> QED BY <3>1 DEF Single
  <2>2. CASE v = w
    <3>1. m + 1 \in 1..Len(inbox[w]) /\ i \in inbox[w][m+1].news
      BY <1>4, <2>2
    <3>2. i \notin message.news
      BY <1>2, <3>1 DEF Single
    <3>3. shown'[v][i] = 0
      BY <1>5, <2>2, <3>1, <3>2 DEF Single
    <3>4. ASSUME NEW k \in 1..Len(inbox'[v]), i \in inbox'[v][k].news PROVE m = k
      <4>1. k + 1 \in 1..Len(inbox[w]) /\ i \in inbox[w][k+1].news
        BY <1>4, <2>2, <3>4
      <4>2. m + 1 = k + 1
        BY <3>1, <4>1 DEF Single
      <4> QED BY <4>2
    <3> QED BY <3>3, <3>4
  <2> QED BY <2>1, <2>2
<1>16. Desk!HeardOnce'
  <2> SUFFICES ASSUME NEW i \in Desk!Id PROVE popups'[i] <= 1 /\ \A v \in Lobby : shown'[v][i] <= 1
    BY DEF Desk!HeardOnce
  <2>1. \A v \in Lobby : shown'[v][i] <= 1
    BY <1>5, <1>6 DEF Desk!HeardOnce, Desk!More
  <2>2. ASSUME i \in mine PROVE popups[i] = 0
    <3>1. i \in message.news /\ <<message.epoch, i>> \notin claimed
      BY <2>2
    <3>2. i \in Desk!Id /\ popups[i] \in Nat
      BY <1>3, <3>1 DEF WatchForm
    <3>3. ~ \E n \in Nat : <<n, i>> \in claimed
      <4>1. \A n \in Nat : Of(n, i) => n = message.epoch
        BY <1>3, <1>7, <3>1, <3>2 DEF OneEpoch
      <4>2. \A n \in Nat : <<n, i>> \in claimed => Of(n, i)
        BY DEF Of
      <4> QED BY <3>1, <4>1, <4>2
    <3>4. ~(popups[i] > 0)
      BY <3>2, <3>3 DEF Claimed
    <3> QED BY <3>2, <3>4
  <2>3. popups'[i] <= 1
    BY <1>1, <2>2 DEF Desk!HeardOnce, Desk!More
  <2> QED BY <2>1, <2>3
<1> QED BY <1>8, <1>9, <1>11, <1>12, <1>14, <1>15, <1>16

\* A poll brings what is above the cursor, and moves the cursor past it.
LEMMA PollHeard == ASSUME DeskInv, Heard, NEW w \in Lobby, Desk!Poll(w) PROVE Heard'
<1> USE DEF Heard
<1> DEFINE valid == {e \in Desk!Answer(w) : e.seq > Desk!Reset(w)}
           message == [epoch |-> epoch, news |-> {e.id : e \in valid}]
<1>1. /\ feed' \subseteq feed
      /\ UNCHANGED <<epoch, sequence, published, shown, claimed, popups>>
      /\ Desk!Put(w, message) /\ known' = [known EXCEPT ![w] = epoch]
      /\ \/ valid = {} /\ cursor' = [cursor EXCEPT ![w] = Desk!Reset(w)]
         \/ \E newest \in valid : /\ \A e \in valid : e.seq <= newest.seq
                                  /\ cursor' = [cursor EXCEPT ![w] = newest.seq]
  BY FeedShrinks DEF Desk!Poll, Desk!Prune
<1>2. /\ valid \subseteq feed /\ Desk!Reset(w) \in Nat
      /\ \A e \in feed : e.seq \in Nat /\ e.id \in Desk!Id
      /\ \A e \in valid : e.seq > cursor[w] /\ e.seq > Desk!Reset(w)
  BY FeedShrinks DEF Desk!Answer, Desk!Reset, WatchForm, Entry
<1>3. /\ message \in Message /\ message.epoch = epoch
      /\ \A i \in Desk!Id : i \in message.news <=> \E e \in valid : e.id = i
  BY <1>2 DEF Message, WatchForm
<1>4. /\ \A v \in Lobby \ {w} : cursor'[v] = cursor[v] /\ known'[v] = known[v]
      /\ known'[w] = epoch /\ cursor'[w] \in Nat /\ cursor'[w] >= Desk!Reset(w)
      /\ \A e \in valid : e.seq <= cursor'[w]
      /\ cursor' \in [Lobby -> Nat]
  <2>1. PICK c \in Nat : /\ cursor' = [cursor EXCEPT ![w] = c] /\ c >= Desk!Reset(w)
                         /\ \A e \in valid : e.seq <= c
    <3>1. CASE valid = {} /\ cursor' = [cursor EXCEPT ![w] = Desk!Reset(w)]
      <4>1. Desk!Reset(w) \in Nat /\ Desk!Reset(w) >= Desk!Reset(w) /\ \A e \in valid : e.seq <= Desk!Reset(w)
        BY <1>2, <3>1
      <4> HIDE DEF valid
      <4> QED BY <3>1, <4>1
    <3>2. ASSUME NEW newest \in valid, \A e \in valid : e.seq <= newest.seq,
                 cursor' = [cursor EXCEPT ![w] = newest.seq]
          PROVE  \E c \in Nat : /\ cursor' = [cursor EXCEPT ![w] = c] /\ c >= Desk!Reset(w)
                                /\ \A e \in valid : e.seq <= c
      <4>1. newest.seq \in Nat /\ newest.seq > Desk!Reset(w)
        BY <1>2
      <4>2. newest.seq >= Desk!Reset(w)
        BY <1>2, <4>1
      <4> HIDE DEF valid
      <4> QED BY <3>2, <4>1, <4>2
    <3> QED BY <1>1, <3>1, <3>2
  <2> HIDE DEF valid
  <2> QED BY <1>1, <2>1 DEF WatchForm
<1> HIDE DEF valid, message
<1>5. WatchForm'
  <2>1. inbox' \in [Lobby -> Seq(Message)]
    BY <1>1, <1>3, PutAdds
  <2>2. known' \in [Lobby -> Nat] /\ \A v \in Lobby : known'[v] <= epoch'
    BY <1>1, <1>4 DEF WatchForm
  <2> QED BY <1>1, <1>4, <2>1, <2>2 DEF WatchForm
<1>6. FeedForm' /\ Claimed' /\ Desk!HeardOnce'
  BY <1>1 DEF FeedForm, Claimed, Desk!HeardOnce
<1>7. /\ \A v \in Lobby \ {w} : inbox'[v] = inbox[v]
      /\ \A k \in 1..Len(inbox'[w]) :
            \/ k \in 1..Len(inbox[w]) /\ inbox'[w][k] = inbox[w][k]
            \/ k = Len(inbox[w]) + 1 /\ inbox'[w][k] = message
  BY <1>1, <1>3, PutMessages
\* What is new to this window was not seen by it.
<1>8. \A e \in valid : ~Seen(w, e.id)
  <2> SUFFICES ASSUME NEW e \in valid, Seen(w, e.id) PROVE FALSE
    OBVIOUS
  <2>1. e \in feed /\ known[w] = epoch /\ e.seq <= cursor[w]
    BY <1>2 DEF Passed
  <2> QED BY <1>2, <2>1 DEF WatchForm
<1>9. Passed'
  <2> SUFFICES ASSUME NEW v \in Lobby, NEW e \in feed', Seen(v, e.id)'
               PROVE  known'[v] = epoch' /\ e.seq <= cursor'[v]
    BY DEF Passed
  <2>1. e \in feed /\ e.seq \in Nat /\ e.id \in Desk!Id
    BY <1>1, <1>2
  <2>2. CASE v # w
    <3>1. Seen(v, e.id)
      BY <1>1, <1>7, <2>2 DEF Seen
    <3> QED BY <1>1, <1>4, <2>1, <2>2, <3>1 DEF Passed
  <2>3. CASE v = w /\ Seen(w, e.id)
    <3>1. known[w] = epoch /\ e.seq <= cursor[w]
      BY <2>1, <2>3 DEF Passed
    <3>2. Desk!Reset(w) = cursor[w]
      BY <3>1 DEF Desk!Reset
    <3> QED BY <1>1, <1>2, <1>4, <2>1, <2>3, <3>1, <3>2
  <2>4. CASE v = w /\ ~Seen(w, e.id)
    <3>1. e.id \in message.news
      BY <1>1, <1>7, <2>4 DEF Seen
    <3>2. PICK f \in valid : f.id = e.id
      BY <1>3, <2>1, <3>1
    <3>3. f = e
      BY <1>2, <2>1, <3>2 DEF FeedForm
    <3> QED BY <1>1, <1>4, <2>4, <3>2, <3>3
  <2> QED BY <2>2, <2>3, <2>4
<1>10. OneEpoch'
  <2>1. ASSUME NEW i \in Desk!Id, NEW n \in Nat, Of(n, i)' PROVE Of(n, i)
    <3>1. CASE <<n, i>> \in claimed'
      BY <1>1, <3>1 DEF Of
    <3>2. CASE n = epoch' /\ \E e \in feed' : e.id = i
      BY <1>1, <3>2 DEF Of
    <3>3. CASE \E v \in Lobby : \E m \in 1..Len(inbox'[v]) :
                   inbox'[v][m].epoch = n /\ i \in inbox'[v][m].news
      <4>1. PICK v \in Lobby :
                \E m \in 1..Len(inbox'[v]) : inbox'[v][m].epoch = n /\ i \in inbox'[v][m].news
        BY <3>3
      <4>4. PICK m \in 1..Len(inbox'[v]) : inbox'[v][m].epoch = n /\ i \in inbox'[v][m].news
        BY <4>1
      <4>2. CASE m \in 1..Len(inbox[v]) /\ inbox'[v][m] = inbox[v][m]
        BY <4>4, <4>2 DEF Of
      <4>3. CASE inbox'[v][m] = message
        BY <1>2, <1>3, <4>4, <4>3 DEF Of
      <4> QED BY <1>7, <4>2, <4>3
    <3> QED BY <2>1, <3>1, <3>2, <3>3 DEF Of
  <2> QED BY <1>1, <2>1 DEF OneEpoch
<1>11. Single'
  <2> SUFFICES ASSUME NEW v \in Lobby, NEW i \in Desk!Id, NEW m \in 1..Len(inbox'[v]),
                      i \in inbox'[v][m].news
               PROVE  /\ shown'[v][i] = 0
                      /\ \A k \in 1..Len(inbox'[v]) : i \in inbox'[v][k].news => m = k
    BY DEF Single
  <2>1. CASE v # w
    BY <1>1, <1>7, <2>1 DEF Single
  <2>2. CASE v = w /\ i \in message.news
    <3>1. ~Seen(w, i)
      BY <1>3, <1>8, <2>2
    <3>2. \A k \in 1..Len(inbox'[w]) : i \in inbox'[w][k].news => k = Len(inbox[w]) + 1
      BY <1>7, <3>1 DEF Seen
    <3> QED BY <1>1, <2>2, <3>1, <3>2 DEF Seen, WatchForm
  <2>3. CASE v = w /\ i \notin message.news
    BY <1>1, <1>7, <2>3 DEF Single
  <2> QED BY <2>1, <2>2, <2>3
<1> QED BY <1>5, <1>6, <1>9, <1>10, <1>11

LEMMA HeardInductive == ASSUME MaxIds \in Nat PROVE Desk!Spec => []Heard
<1>1. Desk!Init => Heard
  BY InitHeard
<1>2. DeskInv /\ DeskInv' /\ Heard /\ [Desk!Next]_<<Desk!desk, Desk!watch>> => Heard'
  <2> SUFFICES ASSUME DeskInv, DeskInv', Heard, [Desk!Next]_<<Desk!desk, Desk!watch>> PROVE Heard'
    OBVIOUS
  <2>1. CASE Desk!DeskNext /\ UNCHANGED Desk!watch
    BY <2>1, DeskHeard
  <2>2. CASE \E w \in Lobby : Desk!Poll(w) \/ Desk!Miss(w) \/ Desk!Show(w)
    BY <2>2, PollHeard, MissHeard, ShowHeard
  <2>3. CASE UNCHANGED <<Desk!desk, Desk!watch>>
    <3>1. /\ UNCHANGED <<epoch, sequence, feed, published, cursor, known, inbox, shown>>
          /\ UNCHANGED <<claimed, popups>>
      BY <2>3 DEF Desk!desk, Desk!watch
    <3>2. WatchForm' /\ FeedForm'
      BY <3>1 DEF Heard, WatchForm, FeedForm
    <3>5. Claimed' /\ Single' /\ Desk!HeardOnce'
      BY <3>1 DEF Heard, Claimed, Single, Desk!HeardOnce
    <3>3. OneEpoch'
      BY <3>1 DEF Heard, OneEpoch, Of
    <3>4. Passed'
      BY <3>1 DEF Heard, Passed, Seen
    <3> QED BY <3>2, <3>3, <3>4, <3>5 DEF Heard
  <2> QED BY <2>1, <2>2, <2>3 DEF Desk!Next
<1> QED BY <1>1, <1>2, DeskInductive, PTL DEF Desk!Spec

\* Whatever is pressed twice, late, or after a restart of the host, an announcement is
\* published once, and only if its request was approved (announcements.py:90-99).
THEOREM VerdictsStand == ASSUME MaxIds \in Nat PROVE Desk!Spec => []Verdicts
<1>1. DeskInv => Verdicts
  BY DEF DeskInv, Verdicts
<1> QED BY <1>1, DeskInductive, PTL

\* A window shows an announcement once and a computer one popup of it, for any windows,
\* inboxes that are full, polls that are missed, and restarts of the host
\* (announcement_client.py:82-115, announcement_ui.py:198-209).
THEOREM NewsHeardOnce == ASSUME MaxIds \in Nat PROVE Desk!Spec => []HeardOnce
<1>1. Heard => HeardOnce
  BY DEF Heard, HeardOnce
<1> QED BY <1>1, HeardInductive, PTL
-----------------------------------------------------------------------------
(* The snapshots of the campus (CampusView). *)

\* Whoever asks the API holds the lock of its process, alone, and the snapshot is too old
\* until the answer comes.
Crawling(w) == job[w] = "crawls"
Snapshot == [known : BOOLEAN, who : [Person -> Seat \cup {0}]]
Cached == [snap : Snapshot, age : 0..Fresh]
CrawlInv ==
    /\ cache \in [Campus!Process -> Cached]
    /\ lock \in [Campus!Process -> {"free", "taken"}]
    /\ job \in [Campus!Asker -> {"none", "crawls"}]
    /\ sits \in [Person -> Seat \cup {0}]
    /\ \A w \in Campus!Asker : Crawling(w) => lock[Campus!Home(w)] = "taken" /\ ~Campus!Young(w)
    /\ \A v, w \in Campus!Asker : Crawling(v) /\ Crawling(w) /\ Campus!Home(v) = Campus!Home(w) => v = w

\* Every window has a process that asks for it.
LEMMA HomeType == \A w \in Campus!Asker : Campus!Home(w) \in Campus!Process
BY DEF Campus!Process

LEMMA CrawlInit == Fresh \in Nat /\ Campus!Init => CrawlInv
BY HomeType DEF Campus!Init, CrawlInv, Cached, Snapshot, Crawling,
                Campus!Young, Campus!Unknown, Campus!Nobody

\* A window's own steps, and what people do, leave the snapshots alone.
LEMMA CrawlIdle == ASSUME CrawlInv, UNCHANGED Campus!host, sits' \in [Person -> Seat \cup {0}]
                   PROVE  CrawlInv'
<1>1. UNCHANGED <<cache, lock, job>>
  BY DEF Campus!host
<1> QED BY <1>1 DEF CrawlInv, Crawling, Campus!Young

LEMMA CrawlLook == ASSUME CrawlInv, NEW w \in Campus!Asker, Campus!Look(w) PROVE CrawlInv'
<1>1. UNCHANGED <<sits, cache>>
  BY DEF Campus!Look
<1>2. CASE UNCHANGED <<lock, job>>
  BY <1>1, <1>2 DEF CrawlInv, Crawling, Campus!Young
<1>3. CASE /\ ~Campus!Young(w) /\ lock' = [lock EXCEPT ![Campus!Home(w)] = "taken"]
           /\ job' = [job EXCEPT ![w] = "crawls"]
  <2>1. lock[Campus!Home(w)] = "free" /\ Campus!Home(w) \in Campus!Process
    BY HomeType DEF Campus!Look
  <2>2. \A v \in Campus!Asker : Crawling(v) => Campus!Home(v) # Campus!Home(w)
    BY <2>1 DEF CrawlInv
  <2>3. \A v \in Campus!Asker : Crawling(v)' <=> v = w \/ Crawling(v)
    BY <1>3 DEF Crawling, CrawlInv
  <2>4. \A v \in Campus!Asker : Campus!Young(v)' <=> Campus!Young(v)
    BY <1>1 DEF Campus!Young
  <2>5. \A v \in Campus!Asker : /\ Campus!Home(v) \in Campus!Process
                                /\ Crawling(v)' => lock'[Campus!Home(v)] = "taken" /\ ~Campus!Young(v)'
    BY <1>3, <2>1, <2>3, <2>4, HomeType DEF CrawlInv
  <2>6. /\ lock' \in [Campus!Process -> {"free", "taken"}]
        /\ job' \in [Campus!Asker -> {"none", "crawls"}]
    BY <1>3 DEF CrawlInv
  <2>7. \A u, v \in Campus!Asker : Crawling(u)' /\ Crawling(v)' /\ Campus!Home(u) = Campus!Home(v) => u = v
    BY <2>2, <2>3 DEF CrawlInv
  <2> QED BY <1>1, <2>5, <2>6, <2>7 DEF CrawlInv
<1> QED BY <1>2, <1>3 DEF Campus!Look

\* The thread that ends was the only one of its process.
LEMMA CrawlEnds ==
    ASSUME CrawlInv, NEW w \in Campus!Asker, Campus!Ends(w),
           cache' \in [Campus!Process -> Cached],
           \A h \in Campus!Process \ {Campus!Home(w)} : cache'[h] = cache[h]
    PROVE  CrawlInv'
<1>1. /\ Crawling(w) /\ job' = [job EXCEPT ![w] = "none"]
      /\ lock' = [lock EXCEPT ![Campus!Home(w)] = "free"] /\ sits' = sits
  BY DEF Campus!Ends, Crawling
<1>2. \A v \in Campus!Asker : Crawling(v)' <=> v # w /\ Crawling(v)
  BY <1>1 DEF Crawling, CrawlInv
<1>3. \A v \in Campus!Asker : Crawling(v)' => Campus!Home(v) \in Campus!Process \ {Campus!Home(w)}
  BY <1>1, <1>2, HomeType DEF CrawlInv
<1>4. \A v \in Campus!Asker : Crawling(v)' => /\ lock'[Campus!Home(v)] = lock[Campus!Home(v)]
                                               /\ (Campus!Young(v)' <=> Campus!Young(v))
  BY <1>1, <1>3 DEF Campus!Young, CrawlInv
<1>5. \A v \in Campus!Asker : Crawling(v)' => lock'[Campus!Home(v)] = "taken" /\ ~Campus!Young(v)'
  BY <1>2, <1>4 DEF CrawlInv
<1>6. lock' \in [Campus!Process -> {"free", "taken"}] /\ job' \in [Campus!Asker -> {"none", "crawls"}]
  BY <1>1 DEF CrawlInv
<1>7. \A u, v \in Campus!Asker : Crawling(u)' /\ Crawling(v)' /\ Campus!Home(u) = Campus!Home(v) => u = v
  BY <1>2 DEF CrawlInv
<1> QED BY <1>1, <1>5, <1>6, <1>7 DEF CrawlInv

LEMMA CrawlTick == ASSUME Fresh \in Nat, CrawlInv, Campus!Tick PROVE CrawlInv'
<1>1. /\ cache' = [h \in Campus!Process |-> [cache[h] EXCEPT !.age = Campus!Grown(@, Fresh)]]
      /\ UNCHANGED <<sits, lock, job>>
  BY DEF Campus!Tick
<1>2. \A h \in Campus!Process : /\ cache[h].age \in 0..Fresh
                                /\ cache[h].snap \in Snapshot
                                /\ cache[h] \in Cached
  BY DEF CrawlInv, Cached
<1>3. \A h \in Campus!Process : /\ cache'[h].snap = cache[h].snap /\ cache'[h].age = Campus!Grown(cache[h].age, Fresh)
                                /\ cache'[h] = [snap |-> cache[h].snap, age |-> Campus!Grown(cache[h].age, Fresh)]
  BY <1>1, <1>2 DEF Cached
<1>4. \A h \in Campus!Process : /\ Campus!Grown(cache[h].age, Fresh) \in 0..Fresh
                                /\ Campus!Grown(cache[h].age, Fresh) >= cache[h].age
  BY <1>2 DEF Campus!Grown
<1>5. cache' \in [Campus!Process -> Cached]
  BY <1>1, <1>2, <1>3, <1>4 DEF Cached
<1>6. \A g \in Campus!Process : /\ cache[g].age \in Nat /\ cache'[g].age \in Nat
                                 /\ cache'[g].snap = cache[g].snap /\ cache'[g].age >= cache[g].age
  <2>1. \A g \in Campus!Process : cache[g].age \in Nat /\ Campus!Grown(cache[g].age, Fresh) \in Nat
    BY <1>2, <1>4
  <2> QED BY <1>3, <1>4, <2>1
<1>7. \A w \in Campus!Asker : ~Campus!Young(w) => ~Campus!Young(w)'
  BY <1>6, HomeType DEF Campus!Young
<1> QED BY <1>1, <1>5, <1>7 DEF CrawlInv, Crawling

LEMMA CrawlStep ==
    ASSUME Fresh \in Nat, CrawlInv, Campus!Next
    PROVE  CrawlInv' /\ Campus!Spaced
<1> USE DEF Campus!Spaced
<1>1. ASSUME cache' = cache PROVE Campus!Spaced
  BY <1>1 DEF CrawlInv, Cached
<1>2. CASE Campus!Tick
  <2>1. \A h \in Campus!Process : cache[h].age \in 0..Fresh /\ cache'[h].age = Campus!Grown(cache[h].age, Fresh)
    BY <1>2 DEF Campus!Tick, CrawlInv, Cached
  <2>2. Campus!Spaced
    BY <2>1 DEF Campus!Grown
  <2> QED BY <1>2, <2>2, CrawlTick
<1>3. ASSUME NEW p \in Person, Campus!Move(p) PROVE CrawlInv' /\ Campus!Spaced
  <2>1. sits' \in [Person -> Seat \cup {0}] /\ UNCHANGED Campus!host
    BY <1>3 DEF Campus!Move, CrawlInv
  <2> QED BY <1>1, <2>1, CrawlIdle DEF Campus!host
<1>4. ASSUME NEW w \in Campus!Asker, Campus!Look(w) PROVE CrawlInv' /\ Campus!Spaced
  BY <1>1, <1>4, CrawlLook DEF Campus!Look
<1>5. ASSUME NEW w \in Campus!Asker, Campus!Crawl(w) PROVE CrawlInv' /\ Campus!Spaced
  <2> DEFINE snap == [known |-> TRUE, who |-> sits]
  <2>1. /\ Campus!Ends(w) /\ Crawling(w) /\ Campus!Home(w) \in Campus!Process
        /\ cache' = [cache EXCEPT ![Campus!Home(w)] = [snap |-> snap, age |-> 0]]
    BY <1>5, HomeType DEF Campus!Crawl, Campus!Ends, Crawling
  <2>2. snap \in Snapshot
    BY DEF CrawlInv, Snapshot
  <2> HIDE DEF snap
  <2>3. cache' \in [Campus!Process -> Cached]
    BY <2>1, <2>2 DEF CrawlInv, Cached
  <2>4. \A h \in Campus!Process \ {Campus!Home(w)} : cache'[h] = cache[h]
    BY <2>1 DEF CrawlInv
  <2>5. CrawlInv'
    BY <2>1, <2>3, <2>4, CrawlEnds
  <2>6. cache[Campus!Home(w)].snap.known => cache[Campus!Home(w)].age = Fresh
    <3>1. ~Campus!Young(w) /\ cache[Campus!Home(w)].age \in 0..Fresh
      BY <2>1 DEF CrawlInv, Cached
    <3> QED BY <3>1 DEF Campus!Young
  <2>7. \A h \in Campus!Process : cache[h].age \in 0..Fresh
    BY DEF CrawlInv, Cached
  <2> QED BY <2>4, <2>5, <2>6, <2>7
<1>6. ASSUME NEW w \in Campus!Asker, Campus!Fail(w) PROVE CrawlInv' /\ Campus!Spaced
  <2>1. Campus!Ends(w) /\ cache' = cache
    BY <1>6 DEF Campus!Fail
  <2> QED BY <1>1, <2>1, CrawlEnds DEF CrawlInv
<1>7. ASSUME NEW w \in Campus!Terminal,
             \/ Campus!SignOut(w) \/ Campus!Receive(w) \/ Campus!No(w) \/ Campus!Yes(w)
             \/ \E n : Campus!Type(w, n)
      PROVE  CrawlInv' /\ Campus!Spaced
  <2>1. UNCHANGED Campus!host /\ sits' = sits
    BY <1>7 DEF Campus!SignOut, Campus!Receive, Campus!No, Campus!Yes, Campus!Type
  <2> QED BY <1>1, <2>1, CrawlIdle DEF Campus!host, CrawlInv
<1>8. ASSUME NEW v \in Hq \cup Viewer, Campus!Auto(v) \/ Campus!Again(v) \/ Campus!Lapse(v)
      PROVE  CrawlInv' /\ Campus!Spaced
  <2>1. UNCHANGED Campus!host /\ sits' = sits
    BY <1>8 DEF Campus!Auto, Campus!Again, Campus!Lapse
  <2> QED BY <1>1, <2>1, CrawlIdle DEF Campus!host, CrawlInv
<1> QED BY <1>2, <1>3, <1>4, <1>5, <1>6, <1>7, <1>8 DEF Campus!Next, Campus!Thread

\* However many windows ask at once, and whatever fails, a snapshot is replaced only when it
\* is too old (clusters.py:25-30).
THEOREM CrawlsApart == ASSUME Fresh \in Nat PROVE Campus!Spec => CrawlsSpaced
<1>1. Campus!Init => CrawlInv
  BY CrawlInit
<1>2. CrawlInv /\ [Campus!Next]_Campus!vars => CrawlInv'
  <2>1. CASE UNCHANGED Campus!vars
    BY <2>1, CrawlIdle DEF Campus!vars, Campus!host, CrawlInv
  <2> QED BY <2>1, CrawlStep
<1>3. CrawlInv /\ [Campus!Next]_Campus!vars => [Campus!Spaced]_Campus!vars
  BY CrawlStep
<1> QED BY <1>1, <1>2, <1>3, PTL DEF Campus!Spec, CrawlsSpaced, Campus!CrawlsSpaced

\* Something is done only about the person somebody said yes to, who still has the number
\* and the seat on the screen (numbered_occupants.py:65-70).
THEOREM OccupantIsRight == Campus!Spec => RightOccupant
<1>1. [Campus!Next]_Campus!vars => [Campus!OnlyThem]_Campus!vars
  <2> SUFFICES ASSUME Campus!Next, acted' # acted PROVE Campus!OnlyThem
    BY DEF Campus!OnlyThem
  <2>1. PICK w \in Campus!Terminal : Campus!Yes(w)
    BY DEF Campus!Next, Campus!Tick, Campus!Move, Campus!Thread, Campus!Look, Campus!Crawl,
       Campus!Ends,
           Campus!Fail, Campus!windows, Campus!SignOut, Campus!Receive, Campus!No, Campus!Type,
           Campus!Auto, Campus!Again, Campus!Lapse
  <2> QED BY <2>1 DEF Campus!Yes, Campus!OnlyThem
<1> QED BY <1>1, PTL DEF Campus!Spec, RightOccupant, Campus!RightOccupant
=============================================================================
