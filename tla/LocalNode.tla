----------------------------- MODULE LocalNode ------------------------------
(***************************************************************************)
(* The node of an account on its machine, and the HQ windows that keep it  *)
(* alive (__main__.py, the life of serve() and of an owner's connection in *)
(* server.py, the loop of client.py, updater.py).  A window that finds no  *)
(* node starts one in the background; a lock file lets one run.  The node  *)
(* ends when its last owner has left, when nobody came for thirty seconds, *)
(* or when a reload is signalled; a window that sees the signal restarts.  *)
(*                                                                         *)
(* The file of reloads is a number.  The node is the one started by a      *)
(* window (--managed); a server started by hand, and game windows, are not *)
(* modelled.  A window starts anew only when a child it had left behind    *)
(* has tried the lock.  Bounds of the model: MaxReloads signals, MaxVisits *)
(* for what users do (open a window, travel, /restart).                    *)
(***************************************************************************)
EXTENDS Integers

CONSTANTS Window, MaxReloads, MaxVisits

VARIABLES marker,   \* of the last reload
          node,     \* [at, gen: the marker it began with, started, shutdown]
          owners,   \* the windows whose connection holds the node
          child,    \* [window -> what became of the server it started]
          win,      \* [window -> [at, code: the marker its program was read at,
                    \*   known: the marker run() compares, missed: a reload that
                    \*   came when it did not look]]
          visits

vars == <<marker, node, owners, child, win, visits>>

NoNode == [at |-> "none", gen |-> 0, started |-> FALSE, shutdown |-> FALSE]
Closed == [at |-> "closed", code |-> 0, known |-> 0, missed |-> FALSE]
Fresh == [at |-> "probing", code |-> marker, known |-> marker, missed |-> FALSE]
Expecting(w) == win[w].at \in {"waiting", "found", "greeting"}

Init == /\ marker = 0 /\ node = NoNode /\ owners = {} /\ visits = 0
        /\ child = [w \in Window |-> "none"] /\ win = [w \in Window |-> Closed]

\* probe(): the listener is open from the start of the server to its cleanup.
Answers == node.at = "up"

Visit == visits < MaxVisits /\ visits' = visits + 1
Move(w, to) == win' = [win EXCEPT ![w].at = to]

\* The connection of an owner ends.  After the last one the node is to close.
Leaves(w) == /\ owners' = owners \ {w}
             /\ node' = [node EXCEPT !.shutdown = @ \/ owners = {w}]

\* The window ends, by an error or by /quit; a server it started goes on.
Gone(w) == /\ win' = [win EXCEPT ![w] = Closed] /\ Leaves(w)
           /\ child' = [child EXCEPT ![w] = IF @ = "new" THEN @ ELSE "none"]
           /\ UNCHANGED <<marker, visits>>
-----------------------------------------------------------------------------
\* A window is opened, looks for a node, and starts one if none answers.
Open(w) == /\ win[w].at = "closed" /\ child[w] = "none" /\ Visit
           /\ win' = [win EXCEPT ![w] = Fresh] /\ UNCHANGED <<marker, node, owners, child>>

Probe(w) == /\ win[w].at = "probing"
            /\ IF Answers THEN Move(w, "found") /\ UNCHANGED child
               ELSE Move(w, "waiting") /\ child' = [child EXCEPT ![w] = "new"]
            /\ UNCHANGED <<marker, node, owners, visits>>

\* start_background() looks whether its child has ended before it looks for a
\* node, and gives up after fifty looks.
Confirm(w) == /\ win[w].at = "waiting"
              /\ IF Answers /\ child[w] # "failed"
                 THEN Move(w, "found") /\ UNCHANGED <<marker, node, owners, child, visits>>
                 ELSE Gone(w)

\* The connection of the owner, its handshake, and that of the lobby.  The
\* handshake is answered also when the node is to close, or cleans up.
Connects(w) == /\ win[w].at = "found"
               /\ IF Answers THEN Move(w, "greeting") /\ UNCHANGED <<marker, node, owners, child, visits>>
                  ELSE Gone(w)
Greet(w) == /\ win[w].at = "greeting" /\ Move(w, "owner")
            /\ owners' = owners \cup {w} /\ node' = [node EXCEPT !.started = TRUE]
            /\ UNCHANGED <<marker, child, visits>>
Runs(w) == /\ win' = [win EXCEPT ![w].at = "running", ![w].known = marker]
           /\ UNCHANGED <<marker, node, owners, child, visits>>
Enter(w) == win[w].at = "owner" /\ IF Answers THEN Runs(w) ELSE Gone(w)

\* To another lobby and back: run() ends, and begins with a new connection.  A
\* signal that came since the last look, or on the way, is not seen.
Travels(w) == /\ win[w].at = "running" /\ Visit
              /\ win' = [win EXCEPT ![w].at = "between", ![w].missed = @ \/ win[w].known # marker]
              /\ UNCHANGED <<marker, node, owners, child>>
Arrives(w) == win[w].at = "between" /\ (Runs(w) \/ (~Answers /\ Gone(w)))

\* A signal, or /restart, takes the window out of curses; main() closes its
\* connection to the node before restart() waits for the node.
Restarts(w) == /\ win[w].at = "running" /\ Move(w, "restarting") /\ Leaves(w)
               /\ UNCHANGED <<marker, child>>
Check(w) == win[w].known # marker /\ Restarts(w) /\ UNCHANGED visits
UserRestart(w) == Visit /\ Restarts(w)

\* restart() waits until the lock is free, for three seconds: enough for a node
\* that has had an owner to learn that it has to close, but not always for the
\* cleanup.
Lasting == node.at = "closing" \/ ~node.started \/ (node.gen = marker /\ ~node.shutdown)
Again(w) == /\ win[w].at = "restarting" /\ child[w] # "new" /\ (node.at = "none" \/ Lasting)
            /\ win' = [win EXCEPT ![w] = Fresh] /\ child' = [child EXCEPT ![w] = "none"]
            /\ UNCHANGED <<marker, node, owners, visits>>

\* A window is killed.  If the node has its hello already, it comes and goes.
Dies(w) == /\ win[w].at # "closed"
           /\ \/ Gone(w)
              \/ /\ win[w].at = "greeting"
                 /\ node' = [node EXCEPT !.started = TRUE, !.shutdown = @ \/ owners = {}]
                 /\ win' = [win EXCEPT ![w] = Closed] /\ child' = [child EXCEPT ![w] = "none"]
                 /\ UNCHANGED <<marker, owners, visits>>

\* Nothing was heard of an owner for sixteen seconds (its terminal is stopped).
Stall(w) == w \in owners /\ Leaves(w) /\ UNCHANGED <<marker, child, win, visits>>

\* notify_reload(), of an update, of setup, or of a window that restarts.
Signal == /\ marker < MaxReloads /\ marker' = marker + 1
          /\ win' = [w \in Window |->
                        [win[w] EXCEPT !.missed = @ \/ win[w].at \notin {"closed", "running"}]]
          /\ UNCHANGED <<node, owners, child, visits>>
-----------------------------------------------------------------------------
\* A server takes the lock, or fails on it.
Takes(w) ==
    /\ child[w] = "new"
    /\ IF node.at = "none"
       THEN /\ node' = [NoNode EXCEPT !.at = "starting", !.gen = marker]
            /\ child' = [child EXCEPT ![w] = IF Expecting(w) THEN "node" ELSE "none"]
       ELSE /\ child' = [child EXCEPT ![w] = IF Expecting(w) THEN "failed" ELSE "none"]
            /\ UNCHANGED node
    /\ UNCHANGED <<marker, owners, win, visits>>

Serves(at, shutdown) == /\ node' = [node EXCEPT !.at = at, !.shutdown = shutdown]
                        /\ UNCHANGED <<marker, owners, child, win, visits>>
Serve == node.at = "starting" /\ Serves("up", node.shutdown)

\* watch_updates(), five times a second.
Watch == node.at \in {"starting", "up"} /\ node.gen # marker /\ ~node.shutdown /\ Serves(node.at, TRUE)

\* serve() waits for a first owner, then to be shut down.  The window that
\* started it comes within the thirty seconds, if it comes.
Main == Answers /\ node.started /\ node.shutdown /\ Serves("closing", TRUE)
Alone == /\ Answers /\ ~node.started
         /\ \A w \in Window : child[w] = "node" => ~Expecting(w)
         /\ Serves("closing", node.shutdown)

\* The process ends, and with it the lock and every connection.
Ends == /\ node' = NoNode /\ owners' = {}
        /\ win' = [w \in Window |-> IF win[w].at = "greeting" THEN Closed ELSE win[w]]
        /\ child' = [w \in Window |->
                        IF child[w] # "node" THEN child[w]
                        ELSE IF win[w].at = "waiting" THEN "failed" ELSE "none"]
        /\ UNCHANGED <<marker, visits>>
Exit == node.at = "closing" /\ Ends
Crash == node.at # "none" /\ Ends

\* What the programs do by themselves, and what users and machines do to them.
Acts(w) == \/ Probe(w) \/ Confirm(w) \/ Connects(w) \/ Greet(w) \/ Enter(w)
           \/ Arrives(w) \/ Check(w) \/ Again(w) \/ Takes(w)
Steps == Serve \/ Watch \/ Main \/ Alone \/ Exit \/ \E w \in Window : Acts(w)
Next == \/ Steps \/ Signal \/ Crash
        \/ \E w \in Window : Open(w) \/ Travels(w) \/ UserRestart(w) \/ Dies(w) \/ Stall(w)

Spec == Init /\ [][Next]_vars /\ WF_vars(Steps)

TypeOK == /\ node.at \in {"none", "starting", "up", "closing"}
          /\ owners \subseteq Window /\ child \in [Window -> {"none", "new", "node", "failed"}]
          /\ node.at = "none" => owners = {}
          /\ \A w \in owners : win[w].at \in {"owner", "running", "between"}

\* The lock is held as long as anybody is connected, and a node whose last owner left is told to
\* close, also by an owner who left before the node knew him (server.py:880).
LastOwnerCloses == /\ node.at = "none" => owners = {} /\ \A w \in Window : win[w].at # "greeting"
                   /\ node.started /\ owners = {} => node.shutdown

\* No node is left behind, of the old generation or without an owner, no window
\* hangs on its way, and one that was running when a reload was signalled has
\* its code, whoever opened, left, reloaded, stalled or crashed in between
\* (server.py:787, server.py:880, __main__.py:48, client.py:1567).
Cared == /\ node.at # "none" => node.gen = marker /\ owners # {}
         /\ \A w \in Window : \/ win[w].at = "closed"
                              \/ win[w].at = "running" /\ (win[w].code = marker \/ win[w].missed)
CaredFor == []<>Cared
=============================================================================
