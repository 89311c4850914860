------------------------------ MODULE HostMove ------------------------------
(***************************************************************************)
(* The verified host moves with its owner from seat to seat.  The owner's  *)
(* files are the same on every seat; dailylogin (campus_lan/auth_daily.py) *)
(* writes the seat into them under a lock, and has the service started or  *)
(* restarted there; a service (auth_server.py) runs on the seat that the   *)
(* files name and stops when they change; clients (auth_client.py,         *)
(* auth_locator.py) learn of the new seat, and follow it when it shows     *)
(* that it has the key they trust.                                         *)
(*                                                                         *)
(* The two files are written one after the other, so dailylogin may die    *)
(* between them.  Bounds of the model: MaxGen generations, MaxDeaths.      *)
(***************************************************************************)
EXTENDS Naturals

CONSTANTS Seat, Client, First, MaxGen, MaxDeaths, NoSeat

\* What an instance must satisfy.
MoveAssumption == First \in Seat

VARIABLES settings,   \* auth-server.json: host and generation
          trust,      \* auth-trust.json of the owner
          applied,    \* auth-service-applied.json
          gen,        \* the last generation that was drawn
          login,      \* [Seat -> where dailylogin is]
          moved,      \* [Seat -> what its prepare() returned]
          mind,       \* [Seat -> the settings that its dailylogin read last]
          service,    \* [Seat -> "off", "starting", or the settings it was started with]
          published,  \* the seat on the auth-seat branch
          copy,       \* what set-owner read of the settings, on its way to write them
          client,     \* [Client -> the seat in its auth-trust.json]
          served,     \* seats on which the service has run with the key
          deaths

vars == <<settings, trust, applied, gen, login, moved, mind, service, published, copy, client, served, deaths>>

Off == [host |-> NoSeat, gen |-> 0, at |-> "off"]
Starting == [Off EXCEPT !.at = "starting"]
Up(s) == [host |-> s.host, gen |-> s.gen, at |-> "up"]
NoCopy == [host |-> NoSeat, gen |-> 0]

\* The first seat was set up by hand, and has been applied.
Init == /\ settings = [host |-> First, gen |-> 1] /\ applied = settings /\ gen = 1
        /\ trust = First /\ published = First /\ served = {First}
        /\ login = [s \in Seat |-> "idle"] /\ moved = [s \in Seat |-> FALSE]
        /\ mind = [s \in Seat |-> settings]
        /\ service = [s \in Seat |-> IF s = First THEN Up(settings) ELSE Off]
        /\ copy = NoCopy /\ client = [c \in Client |-> First] /\ deaths = 0

At(s, here, there) == login[s] = here /\ login' = [login EXCEPT ![s] = there]
Locked == \E s \in Seat : login[s] # "idle"

\* start(): the lock; prepare() writes the settings, with a new generation if
\* the seat is another, ...
Begin(s) == /\ At(s, "idle", "settings") /\ ~Locked /\ gen < MaxGen
            /\ moved' = [moved EXCEPT ![s] = settings.host # s] /\ mind' = [mind EXCEPT ![s] = settings]
            /\ UNCHANGED <<settings, trust, applied, gen, service, published, copy, client, served, deaths>>
NextGen == gen' = gen + 1
WriteSettings(s) == /\ At(s, "settings", "trust")
                    /\ IF moved[s] THEN NextGen /\ settings' = [host |-> s, gen |-> gen + 1]
                       ELSE settings' = mind[s] /\ UNCHANGED gen
                    /\ UNCHANGED <<trust, applied, moved, mind, service, published, copy, client, served, deaths>>
\* ... and the public trust, and drops the session of the owner's client.
WriteTrust(s) == /\ At(s, "trust", "unit") /\ trust' = s
                 /\ UNCHANGED <<settings, applied, gen, moved, mind, service, published, copy, client, served, deaths>>

\* systemctl: a service that runs is restarted if the settings changed since the
\* last time that dailylogin finished.
Running(s) == service[s].at = "up"
Desired(s) == [host |-> s, gen |-> settings.gen]
\* Mutant: only a seat that moved, not one that an earlier login left half done.
StaleMoved(s) == moved[s]
Stale(s) == moved[s] \/ applied # Desired(s)

Manage(s) == /\ At(s, "unit", "ping")
             /\ service' = [service EXCEPT ![s] = IF Running(s) /\ ~Stale(s) THEN @ ELSE Starting]
             /\ mind' = [mind EXCEPT ![s] = Desired(s)]
             /\ UNCHANGED <<settings, trust, applied, gen, moved, published, copy, client, served, deaths>>

\* The service answers over TLS at the seat of the trust file: it is recorded
\* what was to be applied, and published.
Ready(s) == /\ At(s, "ping", "publish") /\ trust = s /\ Running(s)
            /\ applied' = mind[s]
            /\ UNCHANGED <<settings, trust, gen, moved, mind, service, published, copy, client, served, deaths>>
Publish(s) == /\ At(s, "publish", "idle") /\ published' \in {s, published}
              /\ UNCHANGED <<settings, trust, applied, gen, moved, mind, service, copy, client, served, deaths>>

\* It did not become ready in three seconds; or dailylogin is killed.
GivesUp(s) == /\ At(s, "ping", "idle")
              /\ UNCHANGED <<settings, trust, applied, gen, moved, mind, service, published, copy, client, served, deaths>>
Dies(s) == /\ login[s] # "idle" /\ login' = [login EXCEPT ![s] = "idle"]
           /\ deaths < MaxDeaths /\ deaths' = deaths + 1
           /\ UNCHANGED <<settings, trust, applied, gen, moved, mind, service, published, copy, client, served>>

\* set-owner reads the settings and writes them, with a new generation and
\* without the lock.
ReadOwner == /\ copy = NoCopy /\ gen < MaxGen /\ copy' = settings
             /\ UNCHANGED <<settings, trust, applied, gen, login, moved, mind, service, published, client, served, deaths>>
WriteOwner == /\ copy # NoCopy /\ copy' = NoCopy
              /\ NextGen /\ settings' = [host |-> copy.host, gen |-> gen + 1]
              /\ UNCHANGED <<trust, applied, login, moved, mind, service, published, client, served, deaths>>

\* serve_auth --current-seat: the service of another seat stays stopped.
Serve(s) == /\ service[s] = Starting
            /\ service' = [service EXCEPT ![s] = IF settings.host = s THEN Up(settings) ELSE Off]
            /\ served' = IF settings.host = s THEN served \cup {s} ELSE served
            /\ UNCHANGED <<settings, trust, applied, gen, login, moved, mind, published, copy, client, deaths>>

\* wait_for_host_move(): it looks once a second, and stops.
Superseded(s) == service[s].gen # settings.gen \/ service[s].host # settings.host

Stop(s) == /\ Running(s) /\ Superseded(s) /\ service' = [service EXCEPT ![s] = Off]
           /\ UNCHANGED <<settings, trust, applied, gen, login, moved, mind, published, copy, client, served, deaths>>

\* It also starts again when the package was updated, and stops when it cannot
\* read the settings.
Renew(s) == /\ Running(s) /\ deaths < MaxDeaths /\ deaths' = deaths + 1
            /\ service' \in {[service EXCEPT ![s] = Off], [service EXCEPT ![s] = Starting]}
            /\ UNCHANGED <<settings, trust, applied, gen, login, moved, mind, published, copy, client, served>>

\* The seat is switched off; the unit starts again with the next session.
Reboot(s) == /\ deaths < MaxDeaths /\ deaths' = deaths + 1
             /\ service' \in {[service EXCEPT ![s] = Off], [service EXCEPT ![s] = Starting]}
             /\ login' = [login EXCEPT ![s] = "idle"]
             /\ UNCHANGED <<settings, trust, applied, gen, moved, mind, published, copy, client, served>>

\* refresh() and change_host(): a client asks the seat that is published, or
\* one its user names, for a proof, and then writes its trust.
Proof(s) == Running(s)

Follow(c, s) == /\ Proof(s) /\ client' = [client EXCEPT ![c] = s]
                /\ UNCHANGED <<settings, trust, applied, gen, login, moved, mind, service, published, copy, served, deaths>>
Refresh(c) == published # client[c] /\ Follow(c, published)
Named(c) == \E s \in Seat : s # client[c] /\ Follow(c, s)

Daily(s) == Begin(s) \/ WriteSettings(s) \/ WriteTrust(s) \/ Manage(s) \/ Ready(s) \/ Publish(s) \/ GivesUp(s)
Next == \/ ReadOwner \/ WriteOwner \/ \E c \in Client : Refresh(c) \/ Named(c)
        \/ \E s \in Seat : Daily(s) \/ Dies(s) \/ Serve(s) \/ Stop(s) \/ Renew(s) \/ Reboot(s)

\* Only the service is sure to go on: the owner may never log in again.
Spec == Init /\ [][Next]_vars /\ \A s \in Seat : WF_vars(Serve(s)) /\ WF_vars(Stop(s))
-----------------------------------------------------------------------------
\* What answers dailylogin is no older service that is about to stop: wherever
\* an earlier dailylogin died, whatever it had written, and although set-owner
\* changes the files without the lock, the service was started with the
\* generation that is then recorded as applied, or with a later one.
ReadyRuns == \A s \in Seat : login[s] = "publish" /\ Running(s) => service[s].gen >= mind[s].gen

\* The seat the owner left stops serving by itself, also when dailylogin died
\* on the new seat before it started anything there.
OneGeneration == \A s \in Seat : Running(s) => service[s].gen = settings.gen
OldSeatStops == []<>OneGeneration

\* A client goes only to a seat that has shown the key, whatever is published
\* and whatever its user types.
ProvedFirst == \A c \in Client : client[c] \in served

Followed == ReadyRuns /\ ProvedFirst
=============================================================================
