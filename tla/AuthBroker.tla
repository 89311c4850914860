----------------------------- MODULE AuthBroker -----------------------------
(***************************************************************************)
(* The sign-in broker of the verified host (campus_lan/auth.py, class      *)
(* Broker) and the lobby connections that live on its sessions             *)
(* (campus_lan/server.py).                                                 *)
(*                                                                         *)
(* exchange() awaits the provider once, so it is two actions.  A session   *)
(* token is fresh for every redemption and a state for every flow; both    *)
(* are named by the flow.  expires[f] is the expiry of what f is now, a    *)
(* pending flow or a session.                                              *)
(***************************************************************************)
EXTENDS Naturals, FiniteSets

CONSTANTS Flow, Source, Conn,
          FlowTTL, SessionTTL,         \* 300 and 3600 seconds
          RateWindow, MaxStarts,       \* 60 seconds, 5 flow starts
          MaxPending, MaxSessions,     \* 64 and 256
          Window, MaxExchanges, Gap,   \* 3600 seconds, 100 exchanges, 3 seconds
          NoFlow,
          Horizon                      \* bound of the instance on the clock

ASSUME AuthAssumption ==
    /\ {FlowTTL, SessionTTL, RateWindow, MaxStarts, Window, MaxExchanges, Horizon} \subseteq Nat
    /\ {MaxPending, MaxSessions, Gap} \subseteq Nat \ {0}
    /\ NoFlow \notin Flow

VARIABLES now,
          issued,     \* flows begin() ever handed out: states never repeat
          pending,    \* keys of Broker.pending
          inflight,   \* flows whose exchange awaits the provider
          sessions,   \* keys of Broker.sessions
          expires,    \* [Flow -> Nat]
          rates,      \* [Source -> started and count]; count 0 is no entry
          exchanges,  \* times of the exchanges of the last hour: Gap keeps them apart
          busy,
          conn        \* [Conn -> state of the connection and its session]

vars == <<now, issued, pending, inflight, sessions, expires, rates, exchanges, busy, conn>>

NoRate == [started |-> 0, count |-> 0]
Away == [at |-> "away", flow |-> NoFlow]

Init == /\ now = 0 /\ issued = {} /\ pending = {} /\ inflight = {} /\ sessions = {}
        /\ expires = [f \in Flow |-> 0]
        /\ rates = [s \in Source |-> NoRate]
        /\ exchanges = {} /\ busy = FALSE
        /\ conn = [c \in Conn |-> Away]

Tick == /\ now < Horizon
        /\ now' = now + 1
        /\ UNCHANGED <<issued, pending, inflight, sessions, expires, rates, exchanges, busy, conn>>
-----------------------------------------------------------------------------
\* prune(), which begin() and exchange() call before they decide anything.
Unexpired(flows) == {f \in flows : expires[f] > now}
Current == [s \in Source |-> IF rates[s].count > 0 /\ rates[s].started + RateWindow > now
                             THEN rates[s] ELSE NoRate]
Recent == {t \in exchanges : t + Window >= now}

Paced == \A t \in Recent : t + Gap <= now

\* A request that is refused: bad input, wrong proof, or a limit.
Refused == /\ pending' = Unexpired(pending)
           /\ sessions' = Unexpired(sessions)
           /\ rates' = Current
           /\ exchanges' = Recent
           /\ UNCHANGED <<now, issued, inflight, expires, busy, conn>>

\* Mutant: pending flows are not counted.
BeginUncounted(f, s) ==
    /\ f \notin issued
    /\ Current[s].count < MaxStarts
    /\ Cardinality(Unexpired(sessions)) < MaxSessions
    /\ rates' = [Current EXCEPT ![s] = [started |-> IF @.count = 0 THEN now ELSE @.started,
                                        count |-> @.count + 1]]
    /\ issued' = issued \cup {f}
    /\ pending' = Unexpired(pending) \cup {f}
    /\ sessions' = Unexpired(sessions)
    /\ expires' = [expires EXCEPT ![f] = now + FlowTTL]
    /\ exchanges' = Recent
    /\ UNCHANGED <<now, inflight, busy, conn>>

\* begin().  That it also refuses when 512 addresses are in rates is left out: it
\* may begin more here.
Begin(f, s) ==
    /\ f \notin issued
    /\ Current[s].count < MaxStarts
    /\ Cardinality(Unexpired(pending)) < MaxPending
    /\ Cardinality(Unexpired(sessions)) < MaxSessions
    /\ rates' = [Current EXCEPT ![s] = [started |-> IF @.count = 0 THEN now ELSE @.started,
                                        count |-> @.count + 1]]
    /\ issued' = issued \cup {f}
    /\ pending' = Unexpired(pending) \cup {f}
    /\ sessions' = Unexpired(sessions)
    /\ expires' = [expires EXCEPT ![f] = now + FlowTTL]
    /\ exchanges' = Recent
    /\ UNCHANGED <<now, inflight, busy, conn>>

\* Mutant: the pending grant is consumed only when the provider answered.
ExchangeKeepingGrant(f) ==
    /\ f \in Unexpired(pending)
    /\ ~busy /\ Cardinality(Recent) < MaxExchanges
    /\ Paced
    /\ pending' = Unexpired(pending)
    /\ sessions' = Unexpired(sessions)
    /\ inflight' = inflight \cup {f}
    /\ busy' = TRUE
    /\ exchanges' = Recent \cup {now}
    /\ rates' = Current
    /\ UNCHANGED <<now, issued, expires, conn>>

\* Mutant: the exchanges of the last hour are not counted.
ExchangeUncounted(f) ==
    /\ f \in Unexpired(pending)
    /\ ~busy
    /\ Paced
    /\ pending' = Unexpired(pending) \ {f}
    /\ sessions' = Unexpired(sessions)
    /\ inflight' = inflight \cup {f}
    /\ busy' = TRUE
    /\ exchanges' = Recent \cup {now}
    /\ rates' = Current
    /\ UNCHANGED <<now, issued, expires, conn>>

\* exchange() up to its await: the grant is consumed first.
Exchange(f) ==
    /\ f \in Unexpired(pending)
    /\ ~busy /\ Cardinality(Recent) < MaxExchanges
    /\ Paced
    /\ pending' = Unexpired(pending) \ {f}
    /\ sessions' = Unexpired(sessions)
    /\ inflight' = inflight \cup {f}
    /\ busy' = TRUE
    /\ exchanges' = Recent \cup {now}
    /\ rates' = Current
    /\ UNCHANGED <<now, issued, expires, conn>>

\* The provider answered: an identity the policy admits, or any failure.
Identified(f) ==
    /\ f \in inflight
    /\ inflight' = inflight \ {f}
    /\ busy' = FALSE
    /\ \/ /\ sessions' = sessions \cup {f}
          /\ expires' = [expires EXCEPT ![f] = now + SessionTTL]
       \/ UNCHANGED <<sessions, expires>>
    /\ UNCHANGED <<now, issued, pending, rates, exchanges, conn>>
-----------------------------------------------------------------------------
\* active().  A connection whose owner the policy does not admit any more is
\* closed like one that ends by itself (Quit).
Active(f) == f \in sessions /\ expires[f] > now

\* Lobby.handle(): hello with a session, then for a remote source the host's approval is
\* awaited (RemoteGate.admit), then the connection is registered.
Hello(c, f) == /\ conn[c].at = "away" /\ Active(f)
               /\ conn' = [conn EXCEPT ![c] = [at |-> "asking", flow |-> f]]
               /\ UNCHANGED <<now, issued, pending, inflight, sessions, expires, rates, exchanges, busy>>

Register(c) == /\ conn[c].at = "asking"
               /\ \/ conn' = [conn EXCEPT ![c].at = "served"]
                  \/ conn' = [conn EXCEPT ![c] = Away]
               /\ UNCHANGED <<now, issued, pending, inflight, sessions, expires, rates, exchanges, busy>>

\* /signout on a served connection whose session is active: the session is dropped and every
\* registered connection that uses it is closed.
Signout(c) ==
    /\ conn[c].at = "served" /\ Active(conn[c].flow)
    /\ sessions' = sessions \ {conn[c].flow}
    /\ conn' = [d \in Conn |-> IF conn[d].at = "served" /\ conn[d].flow = conn[c].flow
                               THEN Away ELSE conn[d]]
    /\ UNCHANGED <<now, issued, pending, inflight, expires, rates, exchanges, busy>>

\* Mutant: tick() closes expired sessions and forgets the ones signed out elsewhere.
SweepListed(c) ==
    /\ conn[c].at = "served" /\ conn[c].flow \in sessions /\ ~Active(conn[c].flow)
    /\ conn' = [conn EXCEPT ![c] = Away]
    /\ UNCHANGED <<now, issued, pending, inflight, sessions, expires, rates, exchanges, busy>>

\* tick(), or the next message of c, finds the session gone and closes the connection.
Sweep(c) == /\ conn[c].at = "served" /\ ~Active(conn[c].flow)
            /\ conn' = [conn EXCEPT ![c] = Away]
            /\ UNCHANGED <<now, issued, pending, inflight, sessions, expires, rates, exchanges, busy>>

Quit(c) == /\ conn[c].at = "served"
           /\ conn' = [conn EXCEPT ![c] = Away]
           /\ UNCHANGED <<now, issued, pending, inflight, sessions, expires, rates, exchanges, busy>>

Next == \/ Tick \/ Refused
        \/ \E f \in Flow : Exchange(f) \/ Identified(f) \/ \E s \in Source : Begin(f, s)
        \/ \E c \in Conn : \/ Register(c) \/ Signout(c) \/ Sweep(c) \/ Quit(c)
                           \/ \E f \in Flow : Hello(c, f)

Spec == Init /\ [][Next]_vars

\* Time passes and tick() runs every 0.2 seconds; an approval is awaited at most 60 seconds.
FairSpec == Spec /\ WF_vars(Tick) /\ \A c \in Conn : WF_vars(Sweep(c)) /\ WF_vars(Register(c))
-----------------------------------------------------------------------------
TypeOK == /\ now \in Nat /\ busy \in BOOLEAN
          /\ issued \subseteq Flow /\ pending \subseteq issued
          /\ inflight \subseteq issued /\ sessions \subseteq issued
          /\ expires \in [Flow -> Nat]
          /\ rates \in [Source -> [started : Nat, count : Nat]]
          /\ exchanges \subseteq Nat
          /\ conn \in [Conn -> [at : {"away", "asking", "served"}, flow : Flow \cup {NoFlow}]]

\* A grant is in one place at a time: waiting for its code, at the provider, or redeemed;
\* and the provider is asked about at most one.
OneUse == /\ pending \cap inflight = {} /\ pending \cap sessions = {} /\ inflight \cap sessions = {}
          /\ Cardinality(inflight) = IF busy THEN 1 ELSE 0

\* A callback's code buys one session at most (auth.py:219, 231): whatever happens to the other
\* grants, to clocks and to limits, each goes its way from the page to the provider to a session.
Grants == INSTANCE SingleUse
    WITH Grant <- Flow, handed <- issued, waiting <- pending, asked <- inflight, live <- sessions
KeepsGrants == Grants!Spec

\* A grant that was redeemed, failed or expired never reaches the provider (again),
\* whatever callbacks are replayed.
NoReplay == [][\A f \in issued : f \notin pending =>
                  f \notin pending' /\ (f \in inflight' => f \in inflight)]_vars

\* begin() bounds what exchange() adds later without looking: grants become sessions only
\* through the one exchange, so the broker's memory stays bounded.
Bounded == Cardinality(pending) + Cardinality(inflight) + Cardinality(sessions)
              <= MaxPending + MaxSessions

\* Sessions live as long as an exchange is remembered, so the provider budget bounds them
\* too: one more than the exchanges of an hour, for the one under way when the hour began.
SessionsWithinBudget == SessionTTL <= Window => Cardinality(sessions) <= MaxExchanges + 1

\* A connection whose session was signed out or expired is closed, even one that was still
\* waiting for the host's approval when that happened.
Swept == \A c \in Conn : conn[c].at = "away" \/ Active(conn[c].flow)
=============================================================================
