--------------------------- MODULE Announcements ---------------------------
(***************************************************************************)
(* The announcement desk of the verified host (campus_lan/announcements.py)*)
(*                                                                         *)
(* Requests and the feed live in the memory of one process; a restart      *)
(* begins a new epoch with an empty desk.  Every operation first prunes.   *)
(* An announcement is its identifier.  The code draws it at random, so it  *)
(* is new; here they are numbered as they are drawn.                       *)
(***************************************************************************)
EXTENDS Integers, Sequences, FiniteSets

CONSTANTS Student, Admin,           \* people, by numeric 42 identity
          StudentPause, AdminPause, \* 30 and 5 seconds between submissions
          Expiry, Retention,        \* 300 and 900 seconds
          QueueSize, FeedSize,      \* 64 and 10
          MaxIds, Horizon, MaxEpochs \* bounds: announcements, clock, processes

VARIABLES now, epoch, sequence,
          requests,  \* Announcements.requests: by, created, status
          feed,      \* Announcements.feed, in the order of seq: seq, id, created
          last,      \* when a person submitted something, -1000 for not lately
          made,      \* identifiers drawn so far
          published  \* how often an identifier entered a feed: 0, 1 or 2 for more

Id == 1..MaxIds
desk == <<now, epoch, sequence, requests, feed, last, made, published>>

DeskInit == /\ now = 0 /\ epoch = 1 /\ sequence = 0
            /\ requests = [i \in {} |-> 0] /\ feed = {}
            /\ last = [p \in Student \cup Admin |-> -1000]
            /\ made = 0 /\ published = [i \in Id |-> 0]

Tick == now < Horizon /\ now' = now + 1
        /\ UNCHANGED <<epoch, sequence, requests, feed, last, made, published>>

-----------------------------------------------------------------------------
\* prune(): requests expire and are forgotten, the feed keeps the latest that are young.
Status(i) == IF requests[i].status = "pending" /\ now - requests[i].created >= Expiry
             THEN "expired" ELSE requests[i].status
Kept == {i \in DOMAIN requests : now - requests[i].created < Retention}
Requests == [i \in Kept |-> [requests[i] EXCEPT !.status = Status(i)]]
Newest(entries) == {e \in entries : Cardinality({f \in entries : f.seq > e.seq}) < FeedSize}
Feed == Newest({e \in feed : now - e.created < Retention})
Lately == [p \in DOMAIN last |-> IF now - last[p] < 60 THEN last[p] ELSE -1000]

\* A request that is refused, or answered from what is there.
Prune == /\ requests' = Requests /\ feed' = Feed /\ last' = Lately
         /\ UNCHANGED <<now, epoch, sequence, made, published>>

\* publish()
Publish(i) == /\ sequence' = sequence + 1
              /\ feed' = Newest(Feed \cup {[seq |-> sequence + 1, id |-> i, created |-> now]})
              /\ published' = [published EXCEPT ![i] = IF @ = 0 THEN 1 ELSE 2]

Draw(i) == made < MaxIds /\ i = made + 1 /\ made' = i

\* submit() by an administrator.
Broadcast(p, i) == /\ p \in Admin /\ Draw(i) /\ now - Lately[p] >= AdminPause
                   /\ Publish(i) /\ requests' = Requests
                   /\ last' = [Lately EXCEPT ![p] = now]
                   /\ UNCHANGED <<now, epoch>>

\* The requests after room was made for one more: of a full queue, one that is decided goes.
Roomy == IF Cardinality(DOMAIN Requests) < QueueSize THEN {Requests}
         ELSE {[k \in DOMAIN Requests \ {i} |-> Requests[k]] :
                  i \in {j \in DOMAIN Requests : Requests[j].status # "pending"}}

\* submit() by a student: one waiting request at a time.
Submit(p, i) ==
    /\ p \in Student /\ Draw(i) /\ now - Lately[p] >= StudentPause
    /\ ~\E k \in DOMAIN Requests : Requests[k].by = p /\ Requests[k].status = "pending"
    /\ \E room \in Roomy :
          requests' = [k \in DOMAIN room \cup {i} |->
                          IF k = i THEN [by |-> p, created |-> now, status |-> "pending"]
                          ELSE room[k]]
    /\ last' = [Lately EXCEPT ![p] = now] /\ feed' = Feed
    /\ UNCHANGED <<now, epoch, sequence, published>>

\* Mutant: a button that is pressed again decides again.
DecideAgain(i, decision) ==
    /\ i \in DOMAIN Requests
    /\ requests' = [Requests EXCEPT ![i].status = decision]
    /\ IF decision = "approved" THEN Publish(i) ELSE feed' = Feed /\ UNCHANGED <<sequence, published>>
    /\ last' = Lately /\ UNCHANGED <<now, epoch, made>>

\* decide(), by an administrator: only a pending request changes.
Decide(i, decision) ==
    /\ i \in DOMAIN Requests
    /\ IF Requests[i].status = "pending"
       THEN /\ requests' = [Requests EXCEPT ![i].status = decision]
            /\ IF decision = "approved" THEN Publish(i)
               ELSE feed' = Feed /\ UNCHANGED <<sequence, published>>
       ELSE requests' = Requests /\ feed' = Feed /\ UNCHANGED <<sequence, published>>
    /\ last' = Lately /\ UNCHANGED <<now, epoch, made>>

\* The process ends and another begins.
Restart == /\ epoch < MaxEpochs /\ epoch' = epoch + 1 /\ sequence' = 0
           /\ requests' = [i \in {} |-> 0] /\ feed' = {}
           /\ last' = [p \in DOMAIN last |-> -1000]
           /\ UNCHANGED <<now, made, published>>

DeskNext == \/ Tick \/ Restart
            \/ \E i \in Id : \/ \E p \in Student : Submit(p, i)
                             \/ \E p \in Admin : Broadcast(p, i)
                             \/ \E d \in {"approved", "rejected"} : Decide(i, d)

\* "Approval is idempotent; expired/rejected requests cannot be turned into announcements by
\* replaying a button press" (docs/sign-in.md:323): whatever is pressed twice, late or after the
\* request expired, an identifier is published once, and only if its request was approved.
Verdicts == \A i \in Id : /\ published[i] <= 1
                          /\ i \in DOMAIN requests =>
                                (published[i] = 1 <=> requests[i].status = "approved")
=============================================================================
