------------------------------ MODULE Tracking ------------------------------
(***************************************************************************)
(* The people one account tracks (campus_lan/tracking.py) and the HQ       *)
(* windows that tell of them (TrackingTick and Update of client.py).  The  *)
(* choices are in one file, which every window reads, edits through its    *)
(* copy, and reads again when the time of the file is not the one it saw.  *)
(* A window compares each snapshot of the campus, for which it asks now    *)
(* and then, and each state of the lobby with the last one of its kind.    *)
(*                                                                         *)
(* The selectors of the cluster rules and the lists they name stand for    *)
(* the people they resolve to, ruled; they are none while the rules are    *)
(* off.  Whether somebody in the lobby is verified travels with the seat   *)
(* and is left out.  Bound of the model: MaxEvents for what happens, the   *)
(* edits of the file, people's moves and answers that are lost.            *)
(***************************************************************************)
EXTENDS Naturals, FiniteSets

CONSTANTS Person, Window, MaxPeople, MaxEvents, Kept

VARIABLES disk,      \* the file: its choices, and its time
          mine,      \* what a window read or wrote: the same two
          looks,     \* the window has yet to look at the time of the file
          missed,    \* it took the time of a file that it had not read
          at,        \* where people are, in the campus and in the lobby
          roster,    \* the lobby as a window last heard of it
          poll,      \* the question of a window about the campus
          sight,     \* where a window last saw the people it looks for
          told,      \* the last two things its user saw of a person: where the
                     \* window said they are, or that it let go of them
          events

vars == <<disk, mine, looks, missed, at, roster, poll, sight, told, events>>

Source == {"campus", "lobby"}
Place == {"gone", "1", "2"}      \* the cluster of the seat
Nowhere == [p \in Person |-> "gone"]
Silent == [is |-> "silent", seen |-> Nowhere]
LetGo == "-"
Untold == [p \in Person |-> <<LetGo, "gone">>]

Init == /\ disk \in [data : Kept, time : {0}]
        /\ mine = [w \in Window |-> disk]
        /\ looks = {} /\ missed = {}
        /\ at = [campus |-> [p \in Person |-> "1"], lobby |-> Nowhere]
        /\ roster = [w \in Window |-> Nowhere]
        /\ poll = [w \in Window |-> Silent]
        /\ sight = [w \in Window |-> [s \in Source |-> Nowhere]]
        /\ told = [w \in Window |-> [s \in Source |-> Untold]]
        /\ events = 0

\* Whom a window looks for in a source.  A rule for one cluster goes on for
\* those who were last seen there, for a notice of where they went.
Targets(d, s, now, before) ==
       {p \in d.people : <<p, s>> \notin d.muted}
  \cup {p \in d.ruled : d.scope = "all" \/ d.scope \in {now[p], before[p]}}

\* A window with the choices d compares a snapshot with what it saw before.
\* It forgets people it does not look for, and tells of the others' moves.
Sees(d, s, now, before) ==
    [p \in Person |-> IF p \in Targets(d, s, now, before) THEN now[p] ELSE "gone"]

\* What the user has seen of everybody after that.
Released(news) == IF news[2] = LetGo THEN news ELSE <<news[2], LetGo>>
Tells(d, s, now, before, news) ==
    [p \in Person |-> IF p \notin Targets(d, s, now, before) THEN Released(news[p])
                      ELSE IF now[p] # before[p] THEN <<news[p][2], now[p]>> ELSE news[p]]

Compare(w, d, s, now) ==
    /\ sight' = [sight EXCEPT ![w][s] = Sees(d, s, now, @)]
    /\ told' = [told EXCEPT ![w][s] = Tells(d, s, now, sight[w][s], @)]

\* What one command can make of the choices d, and whom it takes off: track,
\* untrack, the alerts of a person on and off, the rules or a list they name,
\* their cluster.  Also somebody whom only a rule covers can be taken off.
Taken(d, gone) == [d EXCEPT !.people = @ \ gone, !.muted = @ \ (gone \X Source)]
Made(d) ==
       {[d EXCEPT !.people = @ \cup {p}] : p \in Person}
  \cup {[d EXCEPT !.people = @ \cup {p}, !.muted = @ \cup {<<p, s>>}] : p \in Person, s \in Source}
  \cup {[d EXCEPT !.people = @ \cup {p}, !.muted = @ \ {<<p, s>>}] : p \in Person, s \in Source}
  \cup {[d EXCEPT !.ruled = people] : people \in SUBSET Person}
  \cup {[d EXCEPT !.scope = x] : x \in {"all", "1", "2"}}
Changes(d) == {[data |-> e, gone |-> {}] : e \in Made(d)}
         \cup {[data |-> Taken(d, gone), gone |-> gone] : gone \in SUBSET Person}
Fits(d) == Cardinality(d.people) <= MaxPeople

\* What was seen of the people in gone is forgotten, and their users know it.
Without(seen, gone) == [p \in Person |-> IF p \in gone THEN "gone" ELSE seen[p]]
Dropped(news, gone) == [p \in Person |-> IF p \in gone THEN Released(news[p]) ELSE news[p]]

\* /track, /untrack and /settings clusters: the window writes its copy,
\* changed, over the file, forgets at once what it saw of the people that it
\* takes off, and compares the lobby again.
Edit(w) ==
    /\ w \notin looks /\ events < MaxEvents /\ events' = events + 1
    /\ \E c \in Changes(mine[w].data) :
          LET before == Without(sight[w]["lobby"], c.gone)
              news == Dropped(told[w]["lobby"], c.gone)
          IN /\ Fits(c.data)
             /\ disk' = [data |-> c.data, time |-> disk.time + 1]
             /\ mine' = [mine EXCEPT ![w].data = c.data]
             /\ sight' = [sight EXCEPT ![w] =
                   [campus |-> Without(@["campus"], c.gone),
                    lobby |-> Sees(c.data, "lobby", roster[w], before)]]
             /\ told' = [told EXCEPT ![w] =
                   [campus |-> Dropped(@["campus"], c.gone),
                    lobby |-> Tells(c.data, "lobby", roster[w], before, news)]]
    /\ looks' = looks \cup {w}
    /\ UNCHANGED <<missed, at, roster, poll>>

\* The window looks at the time of the file it has just written or read.  If
\* another one wrote it in between, the window takes the time of that.
Look(w) ==
    /\ w \in looks /\ looks' = looks \ {w}
    /\ mine' = [mine EXCEPT ![w].time = disk.time]
    /\ missed' = IF mine[w].data = disk.data THEN missed \ {w} ELSE missed \cup {w}
    /\ UNCHANGED <<disk, at, roster, poll, sight, told, events>>

\* Mutant: the choices that were read again come without what was seen.
ReloadAnew(w) ==
    /\ w \notin looks /\ mine[w].time # disk.time
    /\ mine' = [mine EXCEPT ![w].data = disk.data]
    /\ looks' = looks \cup {w}
    /\ sight' = [sight EXCEPT ![w] = [s \in Source |-> Nowhere]]
    /\ UNCHANGED <<disk, missed, at, roster, poll, told, events>>

\* Every five seconds: choices that were changed by another window are read
\* again, and what was seen before is kept.
Reload(w) ==
    /\ w \notin looks /\ mine[w].time # disk.time
    /\ mine' = [mine EXCEPT ![w].data = disk.data]
    /\ looks' = looks \cup {w}
    /\ UNCHANGED <<disk, missed, at, roster, poll, sight, told, events>>

\* A person comes, goes or takes another seat.
Walk(s, p) ==
    /\ events < MaxEvents /\ events' = events + 1
    /\ \E x \in Place \ {at[s][p]} : at' = [at EXCEPT ![s][p] = x]
    /\ UNCHANGED <<disk, mine, looks, missed, roster, poll, sight, told>>

\* The state of the lobby reaches a window.
State(w) ==
    /\ roster[w] # at["lobby"] /\ w \notin looks
    /\ roster' = [roster EXCEPT ![w] = at["lobby"]]
    /\ Compare(w, mine[w].data, "lobby", at["lobby"])
    /\ UNCHANGED <<disk, mine, looks, missed, at, poll, events>>

\* Every five minutes, and after an edit, a window asks for the campus, if
\* it looks for somebody and no question has been out for less than 90 s.
\* The answer has the campus as it was at that time.
Ask(w) ==
    /\ poll[w] = Silent /\ w \notin looks
    /\ mine[w].data.people \cup mine[w].data.ruled # {}
    /\ poll' = [poll EXCEPT ![w] = [is |-> "asked", seen |-> at["campus"]]]
    /\ UNCHANGED <<disk, mine, looks, missed, at, roster, sight, told, events>>

\* The answer is an error, or it is lost and the question is forgotten: what
\* was seen is kept.
NoAnswer(w) ==
    /\ poll[w] # Silent /\ events < MaxEvents /\ events' = events + 1
    /\ poll' = [poll EXCEPT ![w] = Silent]
    /\ UNCHANGED <<disk, mine, looks, missed, at, roster, sight, told>>
Arrive(w) ==
    /\ poll[w] # Silent /\ w \notin looks
    /\ Compare(w, mine[w].data, "campus", poll[w].seen)
    /\ poll' = [poll EXCEPT ![w] = Silent]
    /\ UNCHANGED <<disk, mine, looks, missed, at, roster, events>>

Polls(w) == Ask(w) \/ Arrive(w)
Keeps(w) == Look(w) \/ Reload(w) \/ State(w)
Next == \/ \E w \in Window : Edit(w) \/ Keeps(w) \/ Polls(w) \/ NoAnswer(w)
        \/ \E s \in Source, p \in Person : Walk(s, p)
Spec == /\ Init /\ [][Next]_vars
        /\ \A w \in Window : WF_vars(Keeps(w)) /\ WF_vars(Polls(w))

TypeOK == /\ \A w \in Window : mine[w].data.people \subseteq Person
          /\ looks \subseteq Window /\ missed \subseteq Window
          /\ at \in [Source -> [Person -> Place]]
          /\ sight \in [Window -> [Source -> [Person -> Place]]]

\* Nobody is announced twice in a row for the same seat, or gone twice, in
\* whatever window the choices are made, reread or lost, and whatever answer
\* comes late ("reports online/offline and seat changes once",
\* docs/campus-guide.md:251) -- unless the window let go of the person in
\* between: its user took the person off, or a comparison found that the
\* choices cover the person no longer (tracking.py:85, 226, client.py:576).
NewsIsNews == \A w \in Window, s \in Source, p \in Person :
    told[w][s][p][1] # told[w][s][p][2]

\* A window comes to have the choices the file has, wherever they were made,
\* unless it missed an edit, and to say where the people are on campus,
\* although answers are lost.  Of the lobby it has to wait for the next state
\* (client.py:568-586).
KeptUp == \A w \in Window \ missed :
    LET d == mine[w].data
        seen == sight[w]["campus"]
    IN /\ d = disk.data
       /\ \A p \in Targets(d, "campus", at["campus"], seen) : seen[p] = at["campus"][p]
=============================================================================
