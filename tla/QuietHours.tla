----------------------------- MODULE QuietHours -----------------------------
(***************************************************************************)
(* When LAN42 keeps its sounds to itself (exam_quiet.py, audio_quiet.py,   *)
(* quiet_ui.py) and the sounds it makes (koel_sound.py, and sound_tick,    *)
(* uwu_auto_tick and uwu_command of client.py).  The API host reads exams  *)
(* and events from the calendar of the campus, an admin adds a window of   *)
(* quiet by hand, and every answer of the host carries the windows that    *)
(* are left.  The HQ windows of an account put what they hear in one file. *)
(* The bird calls on /uwu, or every now and then for who turned that on;   *)
(* if the output is muted, the user is asked first and answers later.      *)
(*                                                                         *)
(* Kind has the lists of the calendar, exams and events, which are alike.  *)
(* A window of quiet is a pair of times.  An answer of the host is good    *)
(* for Fresh units (120 s); an automatic call may be made at any time.     *)
(* The choice of a session and the one for good are one here, sound.       *)
(* Bounds of the model: Horizon for time, MaxIssued for the answers of the *)
(* host, MaxEdits for what users and the calendar change.                  *)
(***************************************************************************)
EXTENDS Integers, FiniteSets

CONSTANTS Window, Kind, Exam, Default, Fresh, Manual, Horizon, MaxIssued, MaxEdits

\* What an instance must satisfy.
HoursAssumption == Exam \subseteq Nat \X Nat /\ Manual \subseteq Nat

VARIABLES now,
          calendar,   \* what the campus has announced, in two lists
          sources,    \* the same as the host last read it
          manual,     \* the window an admin has set, in a set
          issued,     \* the answers the host gave so far
          mail,       \* answers on their way, any of which may be late
          file,       \* what the windows of the account heard of the host
          newest,     \* the newest answer that reached one of them
          sound,      \* the user wants to hear the bird
          autoFile,   \* and wants it to call now and then
          auto,       \* the same as a window last read it
          asking,     \* a call waits for the user's word on the volume
          quiet,      \* a window last said that it is quiet
          noise,      \* a sound that should not have been heard
          edits

vars == <<now, calendar, sources, manual, issued, mail, file, newest, sound, autoFile,
          auto, asking, quiet, noise, edits>>
host == <<calendar, sources, manual, issued>>
heard == <<mail, file, newest>>
calls == <<sound, autoFile, auto, asking, quiet, noise>>

Left(windows) == {x \in windows : x[2] > now}
In(windows) == \E x \in windows : x[1] <= now /\ now < x[2]
Nothing == [issued |-> 0, at |-> 0, windows |-> {}]

Init == /\ now = 0 /\ calendar = [k \in Kind |-> Exam]
        /\ sources = [k \in Kind |-> {}] /\ manual = {}
        /\ issued = 0 /\ mail = {} /\ file = Nothing /\ newest = Nothing
        /\ sound = TRUE /\ autoFile = TRUE
        /\ auto = [w \in Window |-> autoFile]
        /\ asking = [w \in Window |-> "nothing"]
        /\ quiet = [w \in Window |-> FALSE] /\ noise = FALSE /\ edits = 0

Tick == /\ now < Horizon /\ now' = now + 1
        /\ UNCHANGED <<host, heard, calls, edits>>

\* The campus announces an exam, or calls one off.
Announce == /\ edits < MaxEdits /\ edits' = edits + 1
            /\ \E k \in Kind, x \in Exam :
                  calendar' = [calendar EXCEPT ![k] = IF x \in @ THEN @ \ {x} ELSE @ \cup {x}]
            /\ UNCHANGED <<now, sources, manual, issued, heard, calls>>

\* Once an hour the host reads both lists.  Of one it cannot read it keeps
\* what it knew.
Refresh == \E read \in SUBSET Kind :
    /\ sources' = [k \in Kind |-> Left(IF k \in read THEN calendar[k] ELSE sources[k])]
    /\ UNCHANGED <<now, calendar, manual, issued, heard, calls, edits>>

\* /quiet MINUTES and /quiet off.
SetQuiet == /\ edits < MaxEdits /\ edits' = edits + 1
            /\ \E n \in Manual \cup {0} : manual' = IF n = 0 THEN {} ELSE {<<now, now + n>>}
            /\ UNCHANGED <<now, calendar, sources, issued, heard, calls>>

\* The host answers somebody: what is left of its windows goes with it.
Answer == /\ issued < MaxIssued /\ issued' = issued + 1
          /\ mail' = mail \cup {[issued |-> issued + 1, at |-> now,
                                 windows |-> Left(manual \cup UNION {sources[k] : k \in Kind})]}
          /\ UNCHANGED <<now, calendar, sources, manual, file, newest, calls, edits>>

\* Mutant: what arrives last is kept, whenever it was issued.
NewerAny(m) == now - m.at <= Fresh

\* An answer is taken if it is fresh and not older than the one in the file.
Newer(m) == now - m.at <= Fresh /\ m.issued >= file.issued

Accept(m) == /\ m \in mail /\ mail' = mail \ {m}
             /\ file' = IF Newer(m) THEN [m EXCEPT !.windows = Left(@)] ELSE file
             /\ newest' = IF now - m.at <= Fresh /\ m.issued > newest.issued THEN m ELSE newest
             /\ UNCHANGED <<now, host, calls, edits>>

\* It is quiet in the hours of the usual exams, and in those the host named.
Active == In(Default \cup file.windows)

\* A window says when quiet begins and ends, every fifteen seconds.
Tell(w) == /\ quiet[w] # Active /\ quiet' = [quiet EXCEPT ![w] = Active]
           /\ UNCHANGED <<now, host, heard, sound, autoFile, auto, asking, noise, edits>>

\* The user turns the bird on or off; /uwu auto and /uwu off in a window are
\* kept in a file that the others read every two seconds.
Choose == /\ edits < MaxEdits /\ edits' = edits + 1 /\ sound' = ~sound
          /\ UNCHANGED <<now, host, heard, autoFile, auto, asking, quiet, noise>>
SetAuto(w) == /\ edits < MaxEdits /\ edits' = edits + 1
           /\ autoFile' = ~auto[w] /\ auto' = [auto EXCEPT ![w] = ~@]
           /\ sound' = (sound \/ ~auto[w])
           /\ UNCHANGED <<now, host, heard, asking, quiet, noise>>
Sync(w) == /\ auto[w] # autoFile
           /\ auto' = [auto EXCEPT ![w] = autoFile]
           /\ UNCHANGED <<now, host, heard, sound, autoFile, asking, quiet, noise, edits>>

\* Mutant: what was wanted when the user was asked is played.
WantedOnce(w, what) == TRUE

\* What is still wanted when the sound is to be played.
Wanted(w, what) == sound /\ (what = "auto" => auto[w])

\* The sound itself, unless it is quiet.  noise says that the user had turned
\* it off, or had been told of quiet hours by the host.
Play(w, what) ==
    noise' = (noise \/ (/\ Wanted(w, what) /\ ~Active
                        /\ \/ ~sound \/ (what = "auto" /\ ~auto[w])
                           \/ In(newest.windows)))

\* A call is not made in quiet hours.  With the output muted the user is
\* asked, once, whether to raise it.
Call(w, what) ==
    \/ Active /\ UNCHANGED <<asking, noise>>
    \/ ~Active /\ Play(w, what) /\ UNCHANGED asking
    \/ /\ ~Active /\ UNCHANGED noise
       /\ asking' = [asking EXCEPT ![w] = IF @ = "nothing" THEN what ELSE @]

\* /uwu, with the bird turned on.
Uwu(w) == /\ edits < MaxEdits /\ edits' = edits + 1 /\ sound /\ Call(w, "uwu")
          /\ UNCHANGED <<now, host, heard, sound, autoFile, auto, quiet>>

\* An automatic call, ten to fifteen minutes after the last one.
AutoCall(w) == /\ auto[w] /\ sound /\ Call(w, "auto")
               /\ UNCHANGED <<now, host, heard, sound, autoFile, auto, quiet, edits>>

\* The user's word on the volume, which may come much later.
Raise(w) == /\ asking[w] # "nothing" /\ asking' = [asking EXCEPT ![w] = "nothing"]
            /\ IF Active THEN UNCHANGED noise ELSE Play(w, asking[w])
            /\ UNCHANGED <<now, host, heard, sound, autoFile, auto, quiet, edits>>
Decline(w) == /\ asking[w] # "nothing" /\ asking' = [asking EXCEPT ![w] = "nothing"]
              /\ UNCHANGED <<now, host, heard, sound, autoFile, auto, quiet, noise, edits>>

Turn(w) == Tell(w) \/ Sync(w)
Next == \/ Tick \/ Announce \/ Refresh \/ SetQuiet \/ Answer \/ Choose
        \/ \E m \in mail : Accept(m)
        \/ \E w \in Window : Turn(w) \/ AutoCall(w) \/ SetAuto(w) \/ Uwu(w) \/ Raise(w) \/ Decline(w)
Spec == Init /\ [][Next]_vars /\ \A w \in Window : WF_vars(Turn(w))

TypeOK == /\ \A k \in Kind : sources[k] \subseteq Exam
          /\ file.issued <= issued /\ newest.issued <= issued
          /\ asking \in [Window -> {"nothing", "uwu", "auto"}]

\* No sound in hours that the host has called quiet in the newest answer that
\* reached the account, nor one that the user has turned off by the time it
\* would be heard, whatever waited for an answer of theirs
\* (audio_quiet.py:46, local_console.py:124, client.py:213).
Hushed == ~noise

\* A window comes to say what is so, and to know that the calls are off.
TellsQuiet == \A w \in Window : quiet[w] = Active /\ auto[w] = autoFile
=============================================================================
