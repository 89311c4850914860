------------------------------ MODULE SingleUse ------------------------------
(***************************************************************************)
(* What the sign-in broker promises about the grants it hands out: a grant *)
(* is handed out once, goes to the provider at most once and alone, and is *)
(* a session only if it comes from there.  Grants and sessions may lapse   *)
(* at any time.                                                            *)
(***************************************************************************)
CONSTANT Grant

VARIABLES handed,   \* ever handed out
          waiting,  \* for their code
          asked,    \* at the provider
          live      \* sessions

vars == <<handed, waiting, asked, live>>

Init == handed = {} /\ waiting = {} /\ asked = {} /\ live = {}

\* At most these wait and live afterwards.
Keeps(w, l) == waiting' \subseteq w /\ live' \subseteq l

Lapse == Keeps(waiting, live) /\ UNCHANGED <<handed, asked>>

Hand(g) == /\ g \notin handed /\ handed' = handed \cup {g}
           /\ Keeps(waiting \cup {g}, live) /\ UNCHANGED asked

Ask(g) == /\ g \in waiting /\ asked = {} /\ asked' = {g}
          /\ Keeps(waiting \ {g}, live) /\ UNCHANGED handed

Answer == asked' = {} /\ Keeps(waiting, live \cup asked) /\ UNCHANGED handed

Next == Lapse \/ Answer \/ \E g \in Grant : Hand(g) \/ Ask(g)

Spec == Init /\ [][Next]_vars
-----------------------------------------------------------------------------
\* A grant is in one place at a time, and one at most is at the provider.
Once == /\ waiting \cap asked = {} /\ waiting \cap live = {} /\ asked \cap live = {}
        /\ \A g, h \in asked : g = h
=============================================================================
