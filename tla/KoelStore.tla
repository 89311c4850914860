----------------------------- MODULE KoelStore -----------------------------
(***************************************************************************)
(* The host's side of KoelDrop (campus_lan/file_sharing): the campus flock *)
(* in the SQLite store, its members and invitations, numbered additions,   *)
(* and the blobs next to the rows (store.py, runtime.py, http.py,          *)
(* flock.py, security.py).                                                 *)
(*                                                                         *)
(* A transaction holds the store's lock, so an action is a transaction,    *)
(* except that put() writes and syncs its blob before its rows commit: the *)
(* writer is then between Write and Commit, and the process may fail or    *)
(* die there.  A request that the gate, a rate or a quota refuses changes  *)
(* nothing, and so needs no action: campus presence, fresh proofs and the  *)
(* 90 requests a minute only refuse.  Sessions live in the memory of the   *)
(* process, rows and blobs outlive it.                                     *)
(***************************************************************************)
EXTENDS KoelNames

CONSTANTS Person, Session, Owner,      \* Owner[s] is the person signed in as s
          Letter,                      \* the parts of names that people choose
          UserName, Digest, Version,   \* names people choose; contents; object ids
          MaxMembers, MaxNames,        \* 16 members, 64 reserved names
          MaxFiles,                    \* 512 files, 4096 versions, bytes
          MaxGroups,                   \* 8 live groups, 32 retained
          Window, MaxAdditions,        \* 60 seconds, 6 (own folder: 30) additions
          None,
          Horizon, MaxCrashes          \* bounds of the instance

\* What a name is made of, a row that put() is about to commit, and a row that it committed.
Name == Seq(Letter \cup Person \cup Nat)
Requests == Name \X (Version \cup {None}) \X Digest
Rows == [by : Person, source : Name, request : Requests, path : Name, number : Nat, version : Version]
Additions == [by : Person, source : Name, request : Requests, path : Name, number : Nat,
              version : Version, at : Nat]

ASSUME KoelAssumption ==
    /\ Owner \in [Session -> Person]
    /\ None \notin Session \cup Version \cup Rows
    /\ UserName \subseteq Name
    /\ {MaxMembers, MaxNames, MaxFiles, MaxGroups, Window, MaxAdditions, Horizon, MaxCrashes} \subseteq Nat

VARIABLES now,
          signed,     \* [Session -> "fresh", "active" or "ended"], in the broker
          hosting,    \* "down", "created" (flock made but not recorded) or "up"
          groups,     \* how many groups the database holds
          flock,      \* is there a row in service_flocks
          members,    \* [Person -> Session or None], rows of the flock
          names,      \* people with a reserved name, rows of identities
          invited,    \* people with an unused invitation
          additions,  \* rows of additions, each with its version and file
          blobs,      \* objects on the disk
          writer,     \* the row put() is about to commit, or None
          crashes

vars == <<now, signed, hosting, groups, flock, members, names, invited, additions, blobs, writer, crashes>>

Nobody == [p \in Person |-> None]
Members == {p \in Person : members[p] # None}
Versions == {a.version : a \in additions}

Init == /\ now = 0 /\ signed = [s \in Session |-> "fresh"]
        /\ hosting = "down" /\ groups = 0 /\ flock = FALSE
        /\ members = Nobody /\ names = {} /\ invited = {}
        /\ additions = {} /\ blobs = {} /\ writer = None /\ crashes = 0

Tick == /\ now < Horizon
        /\ now' = now + 1
        /\ UNCHANGED <<signed, hosting, groups, flock, members, names, invited, additions, blobs, writer, crashes>>
-----------------------------------------------------------------------------
\* start_flock() when no flock is recorded: create() commits before its record does.
Create == /\ hosting = "down" /\ ~flock
          /\ groups < MaxGroups
          /\ groups' = groups + 1
          /\ hosting' = "created"
          /\ UNCHANGED <<now, signed, flock, members, names, invited, additions, blobs, writer, crashes>>

Record == /\ hosting = "created"
          /\ flock' = TRUE
          /\ hosting' = "up"
          /\ UNCHANGED <<now, signed, groups, members, names, invited, additions, blobs, writer, crashes>>

\* start_flock() of a later process: files stay, memberships and invitations do not.
Resume == /\ hosting = "down" /\ flock
          /\ members' = Nobody
          /\ invited' = {}
          /\ hosting' = "up"
          /\ UNCHANGED <<now, signed, groups, flock, names, additions, blobs, writer, crashes>>

\* The process dies or is stopped: open transactions roll back, a blob that was
\* written stays, sessions are gone.
Crash == /\ hosting # "down" /\ crashes < MaxCrashes
         /\ hosting' = "down"
         /\ signed' = [s \in Session |-> IF signed[s] = "active" THEN "ended" ELSE signed[s]]
         /\ writer' = None
         /\ crashes' = crashes + 1
         /\ UNCHANGED <<now, groups, flock, members, names, invited, additions, blobs>>

SignIn(s) == /\ hosting = "up" /\ signed[s] = "fresh"
             /\ signed' = [signed EXCEPT ![s] = "active"]
             /\ UNCHANGED <<now, hosting, groups, flock, members, names, invited, additions, blobs, writer, crashes>>

SignOut(s) == /\ signed[s] = "active"
              /\ signed' = [signed EXCEPT ![s] = "ended"]
              /\ UNCHANGED <<now, hosting, groups, flock, members, names, invited, additions, blobs, writer, crashes>>
-----------------------------------------------------------------------------
\* Requests wait for the lock; Gate.check() and _group() let them in.
Served(s) == hosting = "up" /\ writer = None /\ signed[s] = "active"
Member(s) == Served(s) /\ members[Owner[s]] = s

\* join_flock() drops members whose session has ended.
Kept == [p \in Person |-> IF members[p] # None /\ signed[members[p]] = "active" THEN members[p] ELSE None]

Join(s) ==
    LET p == Owner[s] IN
    /\ Served(s)
    /\ Cardinality({q \in Person : Kept[q] # None} \cup {p}) <= MaxMembers
    /\ Cardinality(names \cup {p}) <= MaxNames
    /\ members' = [Kept EXCEPT ![p] = s]
    /\ names' = names \cup {p}
    /\ UNCHANGED <<now, signed, hosting, groups, flock, invited, additions, blobs, writer, crashes>>

\* The limit of 32 invitations that are out is left out: there may be more here.
Invite(p) ==
    /\ hosting = "up" /\ writer = None
    /\ Cardinality(names \cup {p}) <= MaxNames
    /\ invited' = invited \cup {p}
    /\ names' = names \cup {p}
    /\ UNCHANGED <<now, signed, hosting, groups, flock, members, additions, blobs, writer, crashes>>

\* Mutant: an invitation is a reserved place.
AcceptUncounted(s) ==
    /\ Served(s) /\ Owner[s] \in invited
    /\ members' = [members EXCEPT ![Owner[s]] = s]
    /\ invited' = invited \ {Owner[s]}
    /\ UNCHANGED <<now, signed, hosting, groups, flock, names, additions, blobs, writer, crashes>>

\* accept() does not prune, and counts the sender's own row as well.
Accept(s) ==
    /\ Served(s) /\ Owner[s] \in invited
    /\ Cardinality(Members) < MaxMembers
    /\ members' = [members EXCEPT ![Owner[s]] = s]
    /\ invited' = invited \ {Owner[s]}
    /\ UNCHANGED <<now, signed, hosting, groups, flock, names, additions, blobs, writer, crashes>>

Leave(s) ==
    /\ Member(s)
    /\ members' = [members EXCEPT ![Owner[s]] = None]
    /\ UNCHANGED <<now, signed, hosting, groups, flock, names, invited, additions, blobs, writer, crashes>>
-----------------------------------------------------------------------------

\* Additions of the last minute, read from the rows: restarts do not reset them.
RecentBy(p) == {a \in additions : a.by = p /\ a.at + Window > now}

\* put() up to the synced blob.  A repeated request gets its receipt and adds nothing.
Write(s, path, expected, digest, version) ==
    LET p == Owner[s] IN
    /\ Member(s)
    /\ Prior(additions, p, path, expected, digest) = {}
    /\ Cardinality(RecentBy(p)) < MaxAdditions
    /\ Cardinality(additions) < MaxFiles
    /\ version \notin blobs
    /\ writer' = Row(additions, p, path, expected, digest, version)
    /\ blobs' = blobs \cup {version}
    /\ UNCHANGED <<now, signed, hosting, groups, flock, members, names, invited, additions, crashes>>

Stamped(row) == [by |-> row.by, source |-> row.source, request |-> row.request, path |-> row.path,
                 number |-> row.number, version |-> row.version, at |-> now]

Commit == /\ writer # None
          /\ additions' = additions \cup {Stamped(writer)}
          /\ writer' = None
          /\ UNCHANGED <<now, signed, hosting, groups, flock, members, names, invited, blobs, crashes>>

\* Mutant: a failed write keeps its rows and loses its blob.
FailAfterRows == /\ writer # None
                 /\ additions' = additions \cup {Stamped(writer)}
                 /\ blobs' = blobs \ {writer.version}
                 /\ writer' = None
                 /\ UNCHANGED <<now, signed, hosting, groups, flock, members, names, invited, crashes>>

\* The disk, the audit quota or SQLite refuses: rows roll back, the blob is unlinked.
Fail == /\ writer # None
        /\ blobs' = blobs \ {writer.version}
        /\ writer' = None
        /\ UNCHANGED <<now, signed, hosting, groups, flock, members, names, invited, additions, crashes>>

Put(s) == \E path \in UserName \cup {a.path : a \in additions}, digest \in Digest,
             expected \in Versions \cup {None}, version \in Version :
              Write(s, path, expected, digest, version)

Next == \/ Tick \/ Create \/ Record \/ Resume \/ Crash \/ Commit \/ Fail
        \/ \E s \in Session : SignIn(s) \/ SignOut(s) \/ Join(s) \/ Accept(s) \/ Leave(s) \/ Put(s)
        \/ \E p \in Person : Invite(p)

Spec == Init /\ [][Next]_vars
-----------------------------------------------------------------------------
\* The tables, the objects and the broker's sessions keep their form.
TypeOK ==
    /\ {now, groups, crashes} \subseteq Nat
    /\ signed \in [Session -> {"fresh", "active", "ended"}]
    /\ hosting \in {"down", "created", "up"} /\ flock \in BOOLEAN
    /\ members \in [Person -> Session \cup {None}]
    /\ names \subseteq Person /\ invited \subseteq Person
    /\ additions \subseteq Additions /\ blobs \subseteq Version
    /\ writer \in Rows \cup {None}

\* Every row names an object that is there, at every instant a process may die, and
\* only a death leaves an object that no row names (store.py:258).
BlobsMatchRows ==
    /\ Versions \cup (IF writer = None THEN {} ELSE {writer.version}) \subseteq blobs
    /\ Cardinality(blobs \ Versions) <= crashes + (IF writer = None THEN 0 ELSE 1)

\* The design: a repeated identical request returns its receipt and adds nothing
\* (docs/file-sharing-design.md:151).  The code does not keep this, see ServedOnce.
AddedOnce == \A a, b \in additions : a.by = b.by /\ a.request = b.request => a = b

\* A lost answer is sent again.  The repetition is taken for a new request only if the
\* name it goes to was given to another file since it was served first, which changed
\* the source that the name leads to (store.py:212-217).
ServedOnce ==
    \A a, b \in additions :
        a.by = b.by /\ a.request = b.request /\ a # b =>
            /\ a.request[1] \in {c.path : c \in additions}
            /\ a.request[1] \in {a.source, b.source}

\* No minute holds more additions of a person than the limit, across restarts,
\* sign-outs and a writer that commits late (store.py:219).
RateKept ==
    \A p \in Person, t \in 0 .. now :
        Cardinality({a \in additions : a.by = p /\ a.at <= t /\ a.at + Window > t}) <= MaxAdditions

\* Joining, accepting and the pruning of ended sessions never overfill the flock.
MembersBounded == Cardinality(Members) <= MaxMembers

\* Both limits, whatever races for the last place.
WithinLimits == RateKept /\ MembersBounded
=============================================================================
