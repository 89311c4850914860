----------------------------- MODULE AlarmClock -----------------------------
(***************************************************************************)
(* The alarms and timers of one account (campus_lan/time_tools.py).  They  *)
(* are a list in one file, which every HQ window of the account edits      *)
(* under a lock: it reads the list, changes its copy and writes it back.   *)
(* A window also looks once a second for entries that are due, and rings   *)
(* at most MaxFired of them.                                               *)
(*                                                                         *)
(* Entries are added to the end of the list and never moved, so that the   *)
(* number of an entry tells its place: the list is the set of its entries. *)
(*                                                                         *)
(* Time is in whole units and stands still while a window holds the lock.  *)
(* A schedule on the wall clock is a set of moments of a week of Week      *)
(* units.  Bounds of the model: Horizon for time, MaxMade for the entries  *)
(* made, MaxTurns for the times a user sets one again.                     *)
(***************************************************************************)
EXTENDS Integers, FiniteSets

CONSTANTS Window, MaxAlarms, MaxFired, Length, Every, Week, Wall, LastDue,
          Horizon, MaxMade, MaxTurns

\* What an instance must satisfy.
ClockAssumption == {Horizon, MaxMade, MaxTurns} \cup Length \subseteq Nat

VARIABLES now,
          alarms,   \* the file: its entries
          held,     \* what a window that has the lock is doing, and its copy
          open,     \* the windows that run
          made,     \* how many entries were made; the last one is its name
          rung      \* how often each turn of an entry rang

vars == <<now, alarms, held, open, made, rung>>

Id == 1..MaxMade
Idle == [op |-> "idle"]

\* An entry.  A turn begins whenever its due time is set; left is the time
\* a timer still has to run in it, counted by the clock and not by the code.
Entry(i, kind, due, every, wall) ==
    [id |-> i, kind |-> kind, due |-> due, every |-> every, wall |-> wall,
     enabled |-> TRUE, paused |-> FALSE, remaining |-> 0, turn |-> 0, left |-> due - now]

Init == /\ now = 0 /\ alarms = {} /\ made = 0
        /\ held = [w \in Window |-> Idle] /\ open = Window
        /\ rung = [o \in Id \X (0..(Horizon + MaxTurns)) |-> 0]

Running(e) == e.enabled /\ ~e.paused
Later(x, y) == IF x > y THEN x ELSE y

Tick == /\ now < Horizon /\ \A w \in Window : held[w] = Idle
        /\ now' = now + 1
        /\ alarms' = {IF Running(e) THEN [e EXCEPT !.left = Later(0, @ - 1)] ELSE e : e \in alarms}
        /\ UNCHANGED <<held, open, made, rung>>

\* The next moment of a schedule: the first one after t (next_wall).
NextWall(wall, t) == CHOOSE d \in t+1..t+Week :
    d % Week \in wall /\ \A x \in t+1..d-1 : x % Week \notin wall

\* What a user may add now: a timer, an alarm after a duration or at a
\* date, one that recurs after an interval, and one on the wall clock.
Added(i) ==
       {Entry(i, "timer", now + n, 0, {}) : n \in Length}
  \cup {Entry(i, "alarm", d, 0, {}) : d \in {now + n : n \in Length} \cup {LastDue + 1}}
  \cup {Entry(i, "alarm", now + n, n, {}) : n \in Every}
  \cup {Entry(i, "alarm", NextWall(p, now), 0, p) : p \in Wall}

\* An entry starts a turn: it is due in n.
Again(e, n) == [e EXCEPT !.due = now + n, !.enabled = TRUE, !.paused = FALSE,
                         !.turn = @ + 1, !.left = n]

\* What the operations of change() make of an entry.
Paused(e) == IF e.paused THEN e
             ELSE [e EXCEPT !.remaining = Later(0, e.due - now), !.paused = TRUE]
Resumed(e) == IF e.paused THEN [Again(e, e.remaining) EXCEPT !.left = e.left] ELSE e

Alter(job, e) == CASE job.op = "pause" -> Paused(e)
                   [] job.op = "resume" -> Resumed(e)
                   [] job.op = "snooze" -> Again(e, job.n)
                   [] OTHER -> e

\* Due entries, the first MaxFired of the list; and what is left of one that
\* rang: its next moment, or an entry that is over.
\* Mutant: only the first entries are looked at.
FiresFirst(list) == {e \in list : /\ Cardinality({f \in list : f.id < e.id}) < MaxFired
                                  /\ Running(e) /\ e.due <= now}
Fires(list) == LET due == {e \in list : Running(e) /\ e.due <= now}
               IN  {e \in due : Cardinality({f \in due : f.id < e.id}) < MaxFired}

Rearmed(e) == IF e.every > 0
                THEN Again(e, e.due + ((now - e.due) \div e.every + 1) * e.every - now)
              ELSE IF e.wall # {} THEN Again(e, NextWall(e.wall, now) - now)
              ELSE [e EXCEPT !.enabled = FALSE]

\* What a job makes of the list it was given.
Written(job) ==
    CASE job.op = "poll" -> {IF e \in Fires(job.copy) THEN Rearmed(e) ELSE e : e \in job.copy}
      [] job.op = "add" -> job.copy \cup {job.entry}
      [] job.op = "cancel" -> {e \in job.copy : e.id # job.id}
      [] job.op = "clear" -> {e \in job.copy : e.kind # job.kind}
      [] OTHER -> {IF e.id = job.id THEN Alter(job, e) ELSE e : e \in job.copy}

\* load() refuses the whole file if one entry is out of its limits.
Readable == Cardinality(alarms) <= MaxAlarms /\ \A e \in alarms : e.due <= LastDue

\* edit(): a window takes the lock and reads the file ...
\* Mutant: no lock.
FreeUnlocked == TRUE
Free == \A w \in Window : held[w] = Idle

Hold(w, job) == /\ w \in open /\ held[w] = Idle /\ Free /\ Readable
                /\ held' = [held EXCEPT ![w] = [job EXCEPT !.copy = alarms]]
                /\ UNCHANGED <<now, alarms, open, rung>>

\* ... and writes it.  What rang is shown by this window alone.
Save(w) == /\ held[w] # Idle
           /\ alarms' = Written(held[w])
           /\ held' = [held EXCEPT ![w] = Idle]
           /\ rung' = [o \in DOMAIN rung |-> IF /\ held[w].op = "poll"
                                             /\ \E e \in Fires(held[w].copy) : o = <<e.id, e.turn>>
                                          THEN rung[o] + 1 ELSE rung[o]]
           /\ UNCHANGED <<now, open, made>>

Poll(w) == Hold(w, [op |-> "poll", copy |-> {}]) /\ UNCHANGED made

\* The commands.  One without "am" or "pm" that needs it changes nothing yet.
Add(w) == /\ Cardinality(alarms) < MaxAlarms /\ made < MaxMade /\ made' = made + 1
          /\ \E e \in Added(made + 1) : Hold(w, [op |-> "add", entry |-> e, copy |-> {}])
Mine(i, kinds) == \E e \in alarms : e.id = i /\ e.kind \in kinds /\ e.turn < MaxTurns
Change(w) == /\ \E i \in Id :
                  \/ /\ Mine(i, {"timer"})
                     /\ \E op \in {"pause", "resume"} : Hold(w, [op |-> op, id |-> i, copy |-> {}])
                  \/ /\ Mine(i, {"timer", "alarm"})
                     /\ \E n \in Length : Hold(w, [op |-> "snooze", id |-> i, n |-> n, copy |-> {}])
                  \/ /\ Mine(i, {"timer", "alarm"})
                     /\ Hold(w, [op |-> "cancel", id |-> i, copy |-> {}])
             /\ UNCHANGED made
Clear(w) == /\ alarms # {}
            /\ \E kind \in {"timer", "alarm"} : Hold(w, [op |-> "clear", kind |-> kind, copy |-> {}])
            /\ UNCHANGED made

\* A window ends at any moment, which frees its lock, and may be opened again.
Close(w) == /\ w \in open /\ open' = open \ {w}
            /\ held' = [held EXCEPT ![w] = Idle] /\ UNCHANGED <<now, alarms, made, rung>>
Open(w) == w \notin open /\ open' = open \cup {w} /\ UNCHANGED <<now, alarms, held, made, rung>>

Next == Tick \/ \E w \in Window : \/ Poll(w) \/ Save(w) \/ Add(w) \/ Change(w)
                                  \/ Clear(w) \/ Close(w) \/ Open(w)

Looks == \E w \in Window : Poll(w)
Rings == \E w \in Window : held[w].op = "poll" /\ Save(w)
\* Every open window looks once a second, keeps no lock, and is not killed each time it writes.
Spec == Init /\ [][Next]_vars /\ WF_vars(Tick) /\ SF_vars(Looks) /\ SF_vars(Rings)
        /\ \A w \in Window : WF_vars(Save(w))
-----------------------------------------------------------------------------
\* However many windows look at the same moment, and whatever else they write,
\* one turn of an entry rings once: edit() reads and writes under one lock.
RungOnce == \A o \in DOMAIN rung : rung[o] <= 1

\* A timer rings when it has run for as long as it was set to, however often
\* and in whatever order it was paused, resumed and snoozed.
Measured == \A e \in alarms : e.kind = "timer" =>
    /\ e.paused => e.remaining = e.left
    /\ Running(e) => (e.due > now => e.left = e.due - now) /\ (e.due <= now => e.left = 0)

\* Both: an entry rings once, and in time.
RungInTime == RungOnce /\ Measured

\* An entry that is due rings (or is changed): those before it in the list
\* do not keep it from its turn, although a poll rings only the first few.
Overdue(i) == /\ open # {} /\ Readable
              /\ \E e \in alarms : e.id = i /\ Running(e) /\ e.due <= now
NothingOverdue == \A i \in Id : ~Overdue(i)
EveryAlarmRings == []<>NothingOverdue

\* What the commands write, load() accepts.
FileReadable == Readable
=============================================================================
