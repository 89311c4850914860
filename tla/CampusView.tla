----------------------------- MODULE CampusView -----------------------------
(***************************************************************************)
(* Who sits where on campus, as the windows show it: the snapshot of the   *)
(* API that every thread of a process shares (campus_lan/clusters.py), the *)
(* verified host that keeps it fresh and answers /clusters, HQ and the     *)
(* cluster window (cluster_viewer.py), and what is done about an occupant  *)
(* who was chosen by a number (numbered_occupants.py).                     *)
(*                                                                         *)
(* A window in Local is on the API owner's computer: it asks the API in a  *)
(* thread of its own.  What is done about an occupant is one step (a page, *)
(* somebody tracked, a place on the map).  Times are ages, which stop to   *)
(* grow when nothing tells them apart any more, and a lock that is free is *)
(* taken before the next tick.  Bounds of the model: MaxEvents for what    *)
(* happens (moves of people, failures of the API, numbers and refreshes    *)
(* that are typed, sessions that end) and MaxAsked for questions on their  *)
(* way.                                                                    *)
(***************************************************************************)
EXTENDS Naturals, Sequences, FiniteSets

CONSTANTS Person, Seat,           \* positive numbers, in the order of the roster
          Hq, Viewer, Local,      \* windows, and those of the API owner
          Fresh, Rest,            \* 30 s of a snapshot, 60 s between two of the host
          Patience, Pause, Retry, \* 30 s of a lookup; 30 s and 120 s between refreshes
          MaxEvents, MaxAsked

Terminal == Hq \cup Viewer
Host == "host"
Asker == Terminal \cup {Host}
Home(w) == IF w \in Local THEN w ELSE Host   \* whose process asks the API
Process == {Home(w) : w \in Asker}

VARIABLES sits,     \* where people sit, 0 for nowhere
          cache,    \* the snapshot of a process, and its age
          lock,     \* the lock on it: free, or taken
          job,      \* what a thread does: none, or it crawls
          rest,     \* time since the host last asked the API for itself
          asked,    \* /clusters of a window that were sent, and not answered
          wire,     \* answers on their way
          view,     \* what a window shows
          choice,   \* the number it will ask about when a snapshot comes, 0 for none
          age,      \* of that choice in HQ, of the last refresh in a cluster window
          awaiting, \* cluster windows that wait for an answer
          question, \* the occupant a window asks about
          acted,    \* the last one that something was done about
          on, live, \* windows with a session, and those that believe so
          events

vars == <<sits, cache, lock, job, rest, asked, wire, view, choice, age, awaiting,
          question, acted, on, live, events>>
host == <<cache, lock, job, rest>>
windows == <<view, choice, age, awaiting, question, acted, live>>

Nobody == [p \in Person |-> 0]
Unknown == [known |-> FALSE, who |-> Nobody]
NoOne == [number |-> 0, person |-> 0, seat |-> 0]
Message(kind, got) == [is |-> kind, got |-> got]
Grown(n, most) == IF n < most THEN n + 1 ELSE most

\* roster(): those who are there are numbered from 1, by seat and by name.
Before(who, q, p) == who[q] # 0 /\ (who[q] < who[p] \/ (who[q] = who[p] /\ q < p))
Entry(who, p) == [number |-> 1 + Cardinality({q \in Person : Before(who, q, p)}),
                  person |-> p, seat |-> who[p]]
Roster(who) == {Entry(who, p) : p \in {q \in Person : who[q] # 0}}

Init == /\ sits = [p \in Person |-> IF p \in Seat THEN p ELSE 0]
        /\ cache = [h \in Process |-> [snap |-> Unknown, age |-> Fresh]]
        /\ lock = [h \in Process |-> "free"]
        /\ job = [w \in Asker |-> "none"] /\ rest = Rest
        /\ asked = [w \in Terminal |-> IF w \in Viewer THEN 1 ELSE 0]
        /\ wire = [w \in Terminal |-> <<>>] /\ view = [w \in Terminal |-> Unknown]
        /\ choice = [w \in Terminal |-> 0] /\ age = [w \in Terminal |-> 0]
        /\ awaiting = Viewer /\ question = [w \in Terminal |-> NoOne] /\ acted = NoOne
        /\ on = Terminal /\ live = Terminal /\ events = 0

Event == events < MaxEvents /\ events' = events + 1

Move(p) == /\ Event /\ \E s \in (Seat \cup {0}) \ {sits[p]} : sits' = [sits EXCEPT ![p] = s]
           /\ UNCHANGED <<host, asked, wire, windows, on>>
-----------------------------------------------------------------------------
\* The host asks for itself, and again a minute after the answer; a window
\* when it has sent a command, of which the host takes one at a time.
Wants(w) == job[w] = "none" /\ IF w = Host THEN rest = Rest ELSE asked[w] > 0
Young(w) == cache[Home(w)].snap.known /\ cache[Home(w)].age < Fresh

\* What a thread found is sent, if the window is still connected.
Answer(w, m) ==
    IF w = Host THEN rest' = 0 /\ UNCHANGED <<asked, wire>>
    ELSE /\ asked' = [asked EXCEPT ![w] = IF @ > 0 THEN @ - 1 ELSE 0]
         /\ wire' = [wire EXCEPT ![w] = IF w \in on THEN Append(@, m) ELSE @]
         /\ UNCHANGED rest

\* Mutant: the age of the snapshot is looked at before the lock is taken.
LookFirst(w) ==
    /\ UNCHANGED <<sits, cache, windows, on, events>>
    /\ \/ /\ Wants(w) /\ Young(w) /\ UNCHANGED <<lock, job>>
          /\ Answer(w, Message("clusters", cache[Home(w)].snap))
       \/ /\ Wants(w) /\ ~Young(w) /\ job' = [job EXCEPT ![w] = "old"]
          /\ UNCHANGED <<lock, asked, wire, rest>>
       \/ /\ job[w] = "old" /\ lock[Home(w)] = "free"
          /\ lock' = [lock EXCEPT ![Home(w)] = "taken"] /\ job' = [job EXCEPT ![w] = "crawls"]
          /\ UNCHANGED <<asked, wire, rest>>

\* snapshot(): a snapshot that is young when the lock is taken is good enough;
\* else the API is asked for another one, with the lock held.
Look(w) ==
    /\ Wants(w) /\ lock[Home(w)] = "free"
    /\ IF Young(w) THEN /\ Answer(w, Message("clusters", cache[Home(w)].snap))
                        /\ UNCHANGED <<lock, job>>
                   ELSE /\ lock' = [lock EXCEPT ![Home(w)] = "taken"]
                        /\ job' = [job EXCEPT ![w] = "crawls"]
                        /\ UNCHANGED <<asked, wire, rest>>
    /\ UNCHANGED <<sits, cache, windows, on, events>>

Ends(w) == /\ job[w] = "crawls" /\ job' = [job EXCEPT ![w] = "none"]
           /\ lock' = [lock EXCEPT ![Home(w)] = "free"]
           /\ UNCHANGED <<sits, windows, on>>

\* The API tells where people sit.
Crawl(w) == LET snap == [known |-> TRUE, who |-> sits]
            IN /\ Ends(w) /\ Answer(w, Message("clusters", snap))
               /\ cache' = [cache EXCEPT ![Home(w)] = [snap |-> snap, age |-> 0]]
               /\ UNCHANGED events

\* The API fails, and the last snapshot is kept.
Fail(w) == /\ Event /\ Ends(w) /\ Answer(w, Message("error", Unknown))
           /\ UNCHANGED cache

Thread(w) == Look(w) \/ Crawl(w)

\* The session of a window ends: it is told, and its connection closed.
SignOut(w) == /\ Event /\ w \in on \ Local
              /\ on' = on \ {w} /\ asked' = [asked EXCEPT ![w] = 0]
              /\ wire' = [wire EXCEPT ![w] = Append(@, Message("over", Unknown))]
              /\ UNCHANGED <<sits, host, windows>>
-----------------------------------------------------------------------------
\* /clusters is sent; on the owner's computer not while a thread is busy.
Busy(w) == w \in Local /\ (asked[w] > 0 \/ job[w] # "none")
Sends(w) == /\ asked[w] < MaxAsked
            /\ asked' = [asked EXCEPT ![w] = IF Busy(w) \/ w \notin on THEN @ ELSE @ + 1]
Refresh(v) == /\ Sends(v) /\ age' = [age EXCEPT ![v] = 0]
              /\ awaiting' = IF Busy(v) THEN awaiting ELSE awaiting \cup {v}

\* A cluster window that has read its answers asks again by itself, unless it
\* waits for its user.
Auto(v) == /\ wire[v] = <<>> /\ v \in live /\ choice[v] = 0 /\ question[v] = NoOne
           /\ age[v] >= IF v \in awaiting THEN Retry ELSE Pause
           /\ Refresh(v)
           /\ UNCHANGED <<sits, host, wire, view, choice, question, acted, on, live, events>>

\* r, Enter or /clusters in a cluster window.
Again(v) == /\ Event /\ v \in live /\ Refresh(v)
            /\ UNCHANGED <<sits, host, wire, view, choice, question, acted, on, live>>

\* The occupant with a number is asked about, if there is one.
Ask(w, who, n) ==
    question' = [question EXCEPT ![w] =
        IF \E e \in Roster(who) : e.number = n
        THEN CHOOSE e \in Roster(who) : e.number = n ELSE NoOne]

\* Before the first snapshot the number is kept.  HQ keeps one, and only while
\* it is signed in; a cluster window the last one.
FirstLoad(v, n) == Refresh(v) /\ choice' = [choice EXCEPT ![v] = n]
Lookup(h, n) == /\ h \in live /\ choice[h] = 0 /\ Sends(h)
                /\ age' = [age EXCEPT ![h] = 0] /\ choice' = [choice EXCEPT ![h] = n]
                /\ UNCHANGED awaiting

\* A number is typed.  HQ takes it for an answer while it asks; a cluster
\* window takes it for a no, and goes on with it.
Type(w, n) ==
    /\ Event /\ (w \in Viewer \/ question[w] = NoOne)
    /\ \/ view[w].known /\ Ask(w, view[w].who, n) /\ UNCHANGED <<asked, choice, age, awaiting>>
       \/ ~view[w].known /\ w \in Viewer /\ FirstLoad(w, n) /\ UNCHANGED question
       \/ ~view[w].known /\ w \in Hq /\ Lookup(w, n) /\ UNCHANGED question
    /\ UNCHANGED <<sits, host, wire, view, acted, on, live>>

\* A snapshot replaces what the window shows, and the number it waited for is
\* looked up in it.  HQ asks for one only then: it keeps the first.
Shows(w, snap) ==
    /\ view' = [view EXCEPT ![w] = snap] /\ choice' = [choice EXCEPT ![w] = 0]
    /\ IF choice[w] = 0 THEN UNCHANGED question ELSE Ask(w, snap.who, choice[w])
    /\ UNCHANGED live

\* HQ forgets the snapshot with the session, a cluster window keeps it.
SignedOut(w) ==
    /\ live' = live \ {w} /\ UNCHANGED question
    /\ IF w \in Viewer THEN UNCHANGED <<view, choice>>
       ELSE view' = [view EXCEPT ![w] = Unknown] /\ choice' = [choice EXCEPT ![w] = 0]

\* The answers of a window come one after the other.
Receive(w) ==
    /\ wire[w] # <<>> /\ wire' = [wire EXCEPT ![w] = Tail(@)]
    /\ awaiting' = awaiting \ {w}
    /\ LET m == Head(wire[w])
       IN \/ m.is = "clusters" /\ Shows(w, m.got)
          \/ m.is = "error" /\ UNCHANGED <<view, choice, question, live>>
          \/ m.is = "over" /\ SignedOut(w)
    /\ UNCHANGED <<sits, host, asked, age, acted, on, events>>

\* HQ gives a lookup up after thirty seconds.
Lapse(h) == /\ choice[h] # 0 /\ age[h] > Patience
            /\ choice' = [choice EXCEPT ![h] = 0]
            /\ UNCHANGED <<sits, host, asked, wire, view, age, awaiting, question, acted,
                           on, live, events>>

No(w) == /\ question[w] # NoOne /\ question' = [question EXCEPT ![w] = NoOne]
         /\ UNCHANGED <<sits, host, asked, wire, view, choice, age, awaiting, acted,
                        on, live, events>>

\* Mutant: the person and the seat are compared, and not the number.
YesToSeat(w) ==
    /\ question[w] # NoOne /\ question' = [question EXCEPT ![w] = NoOne]
    /\ view[w].known /\ view[w].who[question[w].person] = question[w].seat
    /\ acted' = question[w]
    /\ UNCHANGED <<sits, host, asked, wire, view, choice, age, awaiting, on, live, events>>

\* A yes is carried out if the occupant still has the number and the seat.
Yes(w) ==
    /\ question[w] # NoOne /\ question' = [question EXCEPT ![w] = NoOne]
    /\ view[w].known /\ question[w] \in Roster(view[w].who)
    /\ acted' = question[w]
    /\ UNCHANGED <<sits, host, asked, wire, view, choice, age, awaiting, on, live, events>>
-----------------------------------------------------------------------------
Tick == /\ \A w \in Asker : Wants(w) => lock[Home(w)] # "free"
        /\ cache' = [h \in Process |-> [cache[h] EXCEPT !.age = Grown(@, Fresh)]]
        /\ rest' = Grown(rest, Rest)
        /\ age' = [w \in Terminal |-> IF w \in Viewer THEN Grown(age[w], Retry)
                                    ELSE IF choice[w] # 0 THEN Grown(age[w], Patience + 1) ELSE 0]
        /\ UNCHANGED <<sits, lock, job, asked, wire, view, choice, awaiting, question, acted,
                       on, live, events>>

Next == \/ Tick
        \/ \E p \in Person : Move(p)
        \/ \E w \in Asker : Thread(w) \/ Fail(w)
        \/ \E w \in Terminal : \/ SignOut(w) \/ Receive(w) \/ No(w) \/ Yes(w)
                             \/ \E n \in 1..Cardinality(Person) : Type(w, n)
        \/ \E v \in Viewer : Auto(v) \/ Again(v)
        \/ \E h \in Hq : Lapse(h)

WindowStep(w) == Receive(w) \/ (w \in Viewer /\ Auto(w)) \/ (w \in Hq /\ Lapse(w))
Spec == /\ Init /\ [][Next]_vars /\ WF_vars(Tick)
        /\ \A w \in Asker : WF_vars(Thread(w))
        /\ \A w \in Terminal : WF_vars(WindowStep(w))

TypeOK == /\ sits \in [Person -> Seat \cup {0}]
          /\ \A h \in Process : cache[h].age \in 0..Fresh /\ lock[h] \in {"free", "taken"}
          /\ asked \in [Terminal -> 0..MaxAsked] /\ choice \in [Terminal -> 0..Cardinality(Person)]
          /\ awaiting \subseteq Viewer /\ on \subseteq Terminal /\ live \subseteq Terminal

\* However many windows ask, a process asks the API once in thirty seconds: a snapshot is
\* only replaced when it is too old, also by a thread that waited for the lock meanwhile
\* (clusters.py:25-30).
Spaced == \A h \in Process : cache[h].snap.known /\ cache'[h].age < cache[h].age
                                => cache[h].age = Fresh
CrawlsSpaced == [][Spaced]_vars

\* Something is done about the person the user said yes to, and only if the window shows
\* that person under the number and on the seat of the question, whatever came in between
\* (numbered_occupants.py:65-70).
OnlyThem == acted' # acted =>
                \E w \in Terminal : /\ question[w] = acted' /\ view[w].known
                                    /\ acted' \in Roster(view[w].who)
RightOccupant == [][OnlyThem]_vars

\* A number that was typed before the first snapshot came, and whose lookup failed: the
\* cluster window waits for it and does not refresh any more (cluster_viewer.py:144, 182).
Stalled(v) == choice[v] # 0 /\ asked[v] = 0 /\ job[v] = "none" /\ wire[v] = <<>>

\* A cluster window that is not asking its user comes to show where people sit, although
\* answers of the API are missing, and HQ gives up a lookup that has no answer
\* (cluster_viewer.py:141-147, client.py:376).
ViewsKeepUp == /\ \A v \in Viewer : \/ v \notin live \/ Stalled(v) \/ question[v] # NoOne
                                    \/ view[v].known /\ view[v].who = sits
               /\ \A h \in Hq : choice[h] = 0
=============================================================================
