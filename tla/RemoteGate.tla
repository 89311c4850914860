----------------------------- MODULE RemoteGate -----------------------------
(***************************************************************************)
(* Admission of remote guests (campus_lan/remote_access.py, RemoteGate;    *)
(* its calls in campus_lan/server.py and auth_server.py).                  *)
(*                                                                         *)
(* A guest is one socket.  admit() runs undisturbed up to its await, and   *)
(* on from there to the registration of the client; the operator decides   *)
(* in between, through the control socket.  A decision sets a future: the  *)
(* request stays pending until its task goes on.  If the minute is over by *)
(* then, some versions of asyncio.wait_for() keep the decision and others  *)
(* drop it.  The limit of lobby clients is any refusal at registration.    *)
(***************************************************************************)
EXTENDS Integers, FiniteSets

CONSTANTS Guest, SourceOf,      \* sockets, and the address each comes from
          MaxPending, MaxActive, \* 16 and 32
          Wait, Pause,          \* 60 seconds, and 10 between requests of one address
          Horizon               \* bound of the instance on the clock

\* What an instance must satisfy.
GateAssumption == /\ {MaxPending, MaxActive} \subseteq Nat \ {0}
                  /\ {Wait, Pause, Horizon} \subseteq Nat

VARIABLES now,
          at,      \* of a socket: new, asking, approved, denied, served, revoked or gone
          since,   \* when it asked
          recent,  \* RemoteGate.recent: when an address asked, -1000 for never
          up,      \* the socket is open
          gate     \* open, closing (RemoteGate.close() ran) or shut

vars == <<now, at, since, recent, up, gate>>

Sources == {SourceOf[g] : g \in Guest}
Pending == {g \in Guest : at[g] \in {"asking", "approved", "denied"}}
Active == {g \in Guest : at[g] = "served"}

Init == /\ now = 0 /\ at = [g \in Guest |-> "new"] /\ since = [g \in Guest |-> 0]
        /\ recent = [s \in Sources |-> -1000]
        /\ up = [g \in Guest |-> TRUE] /\ gate = "open"

Clock == now < Horizon /\ now' = now + 1 /\ UNCHANGED <<at, since, recent, up, gate>>

\* Only addresses that asked lately are kept.
Recent == [s \in Sources |-> IF now - recent[s] < Pause THEN recent[s] ELSE -1000]
-----------------------------------------------------------------------------
Room == Cardinality(Pending) < MaxPending /\ Cardinality(Active) < MaxActive

\* Mutant: only the requests are counted.
AskUncounted(g) ==
    /\ gate = "open" /\ at[g] = "new"
    /\ \/ /\ Cardinality(Pending) < MaxPending /\ Recent[SourceOf[g]] = -1000
          /\ at' = [at EXCEPT ![g] = "asking"] /\ since' = [since EXCEPT ![g] = now]
          /\ recent' = [Recent EXCEPT ![SourceOf[g]] = now] /\ UNCHANGED up
    /\ UNCHANGED <<now, gate>>

\* admit() up to its await: both dictionaries are looked at once.  The listeners
\* close before the gate does (auth_server.py:251-257), so nobody asks after that.
Ask(g) ==
    /\ gate = "open" /\ at[g] = "new"
    /\ \/ /\ Room /\ Recent[SourceOf[g]] = -1000
          /\ at' = [at EXCEPT ![g] = "asking"] /\ since' = [since EXCEPT ![g] = now]
          /\ recent' = [Recent EXCEPT ![SourceOf[g]] = now] /\ UNCHANGED up
       \/ /\ ~(Room /\ Recent[SourceOf[g]] = -1000)
          /\ at' = [at EXCEPT ![g] = "gone"] /\ up' = [up EXCEPT ![g] = FALSE]
          /\ recent' = Recent /\ UNCHANGED since
    /\ UNCHANGED <<now, gate>>

\* control(): an undecided request is approved or denied.
Decide(g) == /\ gate = "open" /\ at[g] = "asking"
             /\ \E decision \in {"approved", "denied"} : at' = [at EXCEPT ![g] = decision]
             /\ UNCHANGED <<now, since, recent, up, gate>>

Late(g) == now - since[g] >= Wait

Away(g) == at' = [at EXCEPT ![g] = "gone"] /\ up' = [up EXCEPT ![g] = FALSE]

\* admit() goes on: what it returns to registers the client in the same turn, or fails.
Resume(g) == /\ \/ at[g] = "approved" /\ at' = [at EXCEPT ![g] = "served"] /\ UNCHANGED up
                \/ at[g] \in {"approved", "denied"} /\ Away(g)
                \/ at[g] = "asking" /\ Late(g) /\ Away(g)
             /\ UNCHANGED <<now, since, recent, gate>>

\* control(): an active guest is revoked; only the socket is closed here.
Revoke(g) == /\ gate = "open" /\ at[g] = "served"
             /\ at' = [at EXCEPT ![g] = "revoked"] /\ up' = [up EXCEPT ![g] = FALSE]
             /\ UNCHANGED <<now, since, recent, gate>>

\* The guest hangs up; a task that waits for a decision does not notice.
HangUp(g) == /\ up[g] /\ at[g] # "gone" /\ up' = [up EXCEPT ![g] = FALSE]
             /\ UNCHANGED <<now, at, since, recent, gate>>

\* handle(): the reader of a closed socket ends, and the finally clause runs.
Leave(g) == /\ at[g] \in {"served", "revoked"} /\ ~up[g] /\ Away(g)
            /\ UNCHANGED <<now, since, recent, gate>>
-----------------------------------------------------------------------------
\* close(): undecided requests are declined and the sockets of active guests closed.
Close == /\ gate = "open" /\ gate' = "closing"
         /\ at' = [g \in Guest |-> IF at[g] = "asking" THEN "denied" ELSE at[g]]
         /\ up' = [g \in Guest |-> up[g] /\ at[g] # "served"]
         /\ UNCHANGED <<now, since, recent>>

\* serve_auth(), after it waited for its other tasks: the sockets of all lobby clients close.
Shut == /\ gate = "closing" /\ Pending = {} /\ gate' = "shut"
        /\ up' = [g \in Guest |-> up[g] /\ at[g] # "served"]
        /\ UNCHANGED <<now, at, since, recent>>

Task(g) == Resume(g) \/ Leave(g)

Next == \/ Clock \/ Close \/ Shut
        \/ \E g \in Guest : Ask(g) \/ Decide(g) \/ Task(g) \/ Revoke(g) \/ HangUp(g)

\* Time passes, a task that can go on does, and a host that shuts down gets to its end.
Spec == Init /\ [][Next]_vars
FairSpec == Spec /\ WF_vars(Clock) /\ WF_vars(Shut) /\ \A g \in Guest : WF_vars(Task(g))
-----------------------------------------------------------------------------
TypeOK == /\ now \in Nat
          /\ at \in [Guest -> {"new", "asking", "approved", "denied", "served", "revoked", "gone"}]
          /\ since \in [Guest -> Nat] /\ recent \in [Sources -> Int]
          /\ up \in [Guest -> BOOLEAN] /\ gate \in {"open", "closing", "shut"}

\* The active guests are counted when a guest asks and added to a minute later
\* (remote_access.py:66, 76), so there can be more than MaxActive of them; but requests and
\* guests together were below both limits when the last one asked, and a decision only moves
\* a socket from one dictionary to the other.
GateBounded == Cardinality(Pending) + Cardinality(Active) <= MaxPending + MaxActive - 1

Expelled(g) == at[g] = "revoked" \/ (gate # "open" /\ at[g] \notin {"new", "gone"})

\* A guest who was revoked, or who is still there when the host shuts down, is disconnected,
\* also one whose approval was under way at that moment (remote_access.py:57, auth_server.py:272).
GuestsCleared == \A g \in Guest : ~Expelled(g)
=============================================================================
