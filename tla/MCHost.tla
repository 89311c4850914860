------------------------------- MODULE MCHost -------------------------------
(***************************************************************************)
(* Four scenes of one instance, the services of the verified host: the     *)
(* sign-in broker, the gate for remote guests, the announcement desk with  *)
(* the windows that poll it, and the snapshot of the campus with windows   *)
(* that show it.  A behaviour stays in the scene it begins in.             *)
(***************************************************************************)
EXTENDS AuthBroker, TLC

CONSTANTS Guest, SourceOf, Asking, MaxActive, Wait, Pause,           \* RemoteGate
          Student, Admin, StudentPause, AdminPause,                  \* Announcements
          Expiry, Retention, QueueSize, FeedSize, MaxIds, MaxEpochs,
          Lobby, InboxSize,                                          \* HostWatch
          Person, Seat, Hq, Viewer, Local, Fresh, Rest, Patience,    \* CampusView
          Every, Retry, MaxEvents, MaxAsked

VARIABLES scene,
          at, since, recent, up, gate,                               \* RemoteGate
          epoch, sequence, requests, feed, last, made, published,    \* Announcements
          cursor, known, online, inbox, shown, claimed, popups,      \* HostWatch
          sits, cache, lock, job, rest, asked, wire, view, choice,   \* CampusView
          age, awaiting, question, acted, on, live, events

Gate == INSTANCE RemoteGate WITH MaxPending <- Asking, Horizon <- Horizon - 1
Desk == INSTANCE HostWatch WITH Window <- Lobby, Horizon <- Horizon - 2
Campus == INSTANCE CampusView WITH Pause <- Every

OneAddress == [g \in Guest |-> 1]

ASSUME SceneAssumption == Gate!GateAssumption

broker == <<issued, pending, inflight, sessions, expires, rates, exchanges, busy, conn>>
door == <<at, since, recent, up, gate>>
desk == <<epoch, sequence, requests, feed, last, made, published,
          cursor, known, online, inbox, shown, claimed, popups>>
campus == <<sits, cache, lock, job, rest, asked, wire, view, choice,
            age, awaiting, question, acted, on, live, events>>
all == <<scene, vars, door, desk, campus>>

Broker(A) == scene = "broker" /\ A /\ UNCHANGED <<scene, door, desk, campus>>
Door(A) == scene = "gate" /\ A /\ UNCHANGED <<scene, broker, desk, campus>>
Board(A) == scene = "desk" /\ A /\ UNCHANGED <<scene, broker, door, campus>>
Seats(A) == scene = "campus" /\ A /\ UNCHANGED <<scene, vars, door, desk>>

\* Flows that were not issued yet are alike: begin() hands out the first of them.
InOrder == issued' # issued => issued' = issued \cup {CHOOSE f \in Flow : f \notin issued}

MCInit == /\ scene \in {"broker", "gate", "desk", "campus"}
          /\ Init /\ Gate!Init /\ Desk!Init /\ Campus!Init
MCNext == Broker(Next /\ InOrder) \/ Door(Gate!Next) \/ Board(Desk!Next) \/ Seats(Campus!Next)

\* The fairness of AuthBroker, RemoteGate and CampusView.  A behaviour has one
\* scene, so that the first condition serves the clocks of all of them.
MCSpec == /\ MCInit /\ [][MCNext]_all
          /\ WF_all(Broker(Tick) \/ Door(Gate!Clock) \/ Seats(Campus!Tick))
          /\ WF_all(Door(Gate!Shut) \/ Seats(Campus!Thread(Campus!Host)))
          /\ \A c \in Conn : WF_all(Broker(Sweep(c))) /\ WF_all(Broker(Register(c)))
          /\ \A g \in Guest : WF_all(Door(Gate!Task(g)))
          /\ \A w \in Hq \cup Viewer : /\ WF_all(Seats(Campus!Thread(w)))
                                       /\ WF_all(Seats(Campus!WindowStep(w)))

\* Requests and guests together stay within both limits (RemoteGate).
GateBounded == Gate!GateBounded
\* An announcement is published once, and only if it was approved (Announcements).
Verdicts == Desk!Verdicts
\* A window and a machine hear of an announcement once (HostWatch).
HeardOnce == Desk!HeardOnce
\* The API is asked once in thirty seconds, by however many windows (CampusView).
CrawlsSpaced == Campus!CrawlsSpaced
\* An action reaches the occupant the user said yes to (CampusView).
RightOccupant == Campus!RightOccupant
\* What has ended goes, in every scene: connections without a session, guests
\* who were expelled, and what windows show of a campus that is not so any more.
OldGoes == []<>(/\ scene = "broker" => Swept
                /\ scene = "gate" => Gate!GuestsCleared
                /\ scene = "campus" => Campus!ViewsKeepUp)
=============================================================================
