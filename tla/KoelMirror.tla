----------------------------- MODULE KoelMirror -----------------------------
(***************************************************************************)
(* A member's side of KoelDrop (campus_lan/file_sharing): the dedicated    *)
(* folder (sync.py), the passes over it (controller.py) and the courier    *)
(* thread that makes them (client.py, remote.py), next to an editor that   *)
(* changes the folder whenever it likes.  The host is what KoelStore       *)
(* promises: additions with the names of KoelNames.                        *)
(*                                                                         *)
(* The courier does one operation at a time.  worker says where it is, and *)
(* what it read before; the editor may act between any two of its steps,   *)
(* an answer of the host may be lost, and the courier may stop anywhere    *)
(* and join the same folder again.  Contents stand for their digests, and  *)
(* an object id is the name it was added under.                            *)
(***************************************************************************)
EXTENDS KoelNames, TLC

CONSTANTS Me, Other, UserName, Content, None,
          Mine,                       \* contents this member's editor writes
          MaxFiles,                   \* files of the flock, 512
          MaxLost, MaxJoins, MaxEdits \* bounds of the instance

VARIABLES local,     \* files of the folder: path -> content
          backups,   \* contents in .lan42-file-backups
          known,     \* path -> version and digest of Mirror.known
          shared,    \* additions on the host
          worker,    \* the operation of the courier, and what it read
          kept,      \* contents the member wrote and has not replaced or removed
          lost, joins, edits

\* Contents are digests of bytes, and the editor's contents are contents.
MirrorAssumption == Mine \subseteq Content /\ None \notin Content

vars == <<local, backups, known, shared, worker, kept, lost, joins, edits>>

Step(at, path, content, expected) ==
    [at |-> at, path |-> path, content |-> content, expected |-> expected, offer |-> {}, held |-> None]
Idle == Step("idle", << >>, None, None)
Unknown == [version |-> None, digest |-> None]

In(path) == IF path \in DOMAIN local THEN local[path] ELSE None
Known(path) == IF path \in DOMAIN known THEN known[path] ELSE Unknown
Put(path, content) == [q \in DOMAIN local \cup {path} |-> IF q = path THEN content ELSE local[q]]
Link(path, content) == IF path \in DOMAIN local THEN local ELSE Put(path, content)
Without(path) == [q \in DOMAIN local \ {path} |-> local[q]]
Learn(path, version, digest) == (path :> [version |-> version, digest |-> digest]) @@ known

Init == /\ local = << >> /\ backups = {} /\ known = << >>
        /\ shared = {} /\ worker = Idle
        /\ kept = {} /\ lost = 0 /\ joins = 1 /\ edits = 0
-----------------------------------------------------------------------------
Written == kept \cup backups \cup {local[p] : p \in DOMAIN local} \cup {a.request[3] : a \in shared}

\* The editor saves a new content under a name of its own or one that is there.
Edit(path, content) ==
    /\ edits < MaxEdits
    /\ edits' = edits + 1
    /\ path \in UserName \cup DOMAIN local
    /\ content \in Mine \ Written
    /\ local' = Put(path, content)
    /\ kept' = (kept \ {In(path)}) \cup {content}
    /\ UNCHANGED <<backups, known, shared, worker, lost, joins>>

Remove(path) ==
    /\ edits < MaxEdits
    /\ edits' = edits + 1
    /\ path \in DOMAIN local
    /\ local' = Without(path)
    /\ kept' = kept \ {local[path]}
    /\ UNCHANGED <<backups, known, shared, worker, lost, joins>>

Offers == {a \in shared : Known(a.path).version # a.version}

Add(by, path, expected, content) ==
    LET source == Source(shared, path)
        version == Assigned(source, by, Number(shared, by, source))
    IN  shared' = shared \cup {Row(shared, by, path, expected, content, version)}

\* Another member adds a file.
OtherAdds(path, content) ==
    /\ Cardinality(shared) < MaxFiles
    /\ content \in Content \ (Mine \cup Written)
    /\ Add(Other, path, None, content)
    /\ UNCHANGED <<local, backups, known, worker, kept, lost, joins, edits>>
-----------------------------------------------------------------------------
\* scan_writable() and upload(): a file that differs from what is known is read
\* and sent, with the version known of it.
Changed(path) == In(path) # None /\ In(path) # Known(path).digest

Send(path) ==
    /\ worker = Idle /\ Changed(path)
    /\ worker' = Step("sent", path, In(path), Known(path).version)
    /\ UNCHANGED <<local, backups, known, shared, kept, lost, joins, edits>>

\* keep_both(): the member's bytes are copied under a name of their own and sent;
\* the copy has the number no host assigns.
KeepBoth(offer) ==
    LET copy == Assigned(offer.path, Me, 0) IN
    /\ worker = Idle /\ offer \in Offers /\ offer.by # Me
    /\ In(offer.path) # None /\ In(copy) = None
    /\ local' = Put(copy, In(offer.path))
    /\ worker' = [Step("sent", copy, In(offer.path), Known(copy).version) EXCEPT !.offer = {offer}]
    /\ UNCHANGED <<backups, known, shared, kept, lost, joins, edits>>

\* The additions that answer the request under way; the receipt names one of them.
Receipts == Prior(shared, Me, worker.path, worker.expected, worker.content)

\* The host adds the file, or finds the addition of the same request.
Serve == /\ worker.at = "sent"
         /\ Receipts # {} \/ Cardinality(shared) < MaxFiles
         /\ IF Receipts = {} THEN Add(Me, worker.path, worker.expected, worker.content) ELSE UNCHANGED shared
         /\ \E receipt \in IF Receipts = {} THEN shared' \ shared ELSE Receipts :
               worker' = [worker EXCEPT !.at = "served", !.held = receipt.path]
         /\ UNCHANGED <<local, backups, known, kept, lost, joins, edits>>

\* The flock is full: the file waits.
Refuse == /\ worker.at = "sent" /\ Receipts = {} /\ Cardinality(shared) >= MaxFiles
          /\ worker' = Idle
          /\ UNCHANGED <<local, backups, known, shared, kept, lost, joins, edits>>

\* The request or its answer is lost: the next pass tries again.
Lose == /\ worker.at \in {"sent", "served"} /\ lost < MaxLost
        /\ worker' = Idle
        /\ lost' = lost + 1
        /\ UNCHANGED <<local, backups, known, shared, kept, joins, edits>>

\* keep_both() goes on to move the original away.
Onward == IF worker.offer = {} THEN Idle
          ELSE LET offer == CHOOSE o \in worker.offer : TRUE
               IN  [worker EXCEPT !.at = "replace", !.path = offer.path, !.expected = offer.version]

\* The assigned name is known if it holds the same bytes, the file that was sent in any case.
Received == (IF In(worker.held) \in {None, worker.content}
             THEN worker.held :> [version |-> worker.held, digest |-> worker.content]
             ELSE << >>)
            @@ Learn(worker.path, worker.held, worker.content)

\* Mutant: only the assigned name is known, not the file that was sent.
InstallUnlearned ==
    /\ worker.at = "served"
    /\ local' = Link(worker.held, worker.content)
    /\ known' = Learn(worker.held, worker.held, worker.content)
    /\ worker' = Onward
    /\ UNCHANGED <<backups, shared, kept, lost, joins, edits>>

\* The receipt: the assigned name is created if it is vacant.
Install ==
    /\ worker.at = "served"
    /\ local' = Link(worker.held, worker.content)
    /\ known' = Received
    /\ worker' = Onward
    /\ UNCHANGED <<backups, shared, kept, lost, joins, edits>>
-----------------------------------------------------------------------------
\* receive(), approved by the member or by the policy: only over what is known.
Receive(offer) ==
    /\ worker = Idle /\ offer \in Offers
    /\ In(offer.path) = Known(offer.path).digest
    /\ worker' = Step("fetched", offer.path, offer.request[3], offer.version)
    /\ UNCHANGED <<local, backups, known, shared, kept, lost, joins, edits>>

\* The file is looked at again once the bytes are here; a vacant name needs no backup.
Recheck ==
    /\ worker.at = "fetched"
    /\ worker' = IF In(worker.path) # Known(worker.path).digest THEN Idle
                 ELSE [worker EXCEPT !.at = IF In(worker.path) = None THEN "place" ELSE "backup"]
    /\ UNCHANGED <<local, backups, known, shared, kept, lost, joins, edits>>

Baseline == IF worker.at = "replace" THEN worker.content ELSE Known(worker.path).digest
Moved == IF worker.at = "replace"
         THEN Step("fetched", worker.path, (CHOOSE o \in worker.offer : TRUE).request[3], worker.expected)
         ELSE [worker EXCEPT !.at = "place"]

\* Mutant: what was moved away is not compared with what was known, and deleted.
BackupBlind ==
    /\ worker.at \in {"backup", "replace"} /\ In(worker.path) # None
    /\ local' = Without(worker.path)
    /\ known' = IF worker.at = "replace" THEN Learn(worker.path, None, None) ELSE known
    /\ worker' = Moved
    /\ UNCHANGED <<backups, shared, kept, lost, joins, edits>>

\* _backup() moves whatever is there now, and then looks at what it moved.
Backup ==
    /\ worker.at \in {"backup", "replace"}
    /\ backups' = backups \cup ({In(worker.path)} \ {None})
    /\ local' = Without(worker.path)
    /\ known' = IF worker.at = "replace" /\ In(worker.path) = Baseline
                THEN Learn(worker.path, None, None) ELSE known
    /\ worker' = CASE In(worker.path) = None -> Idle
                   [] In(worker.path) = Baseline -> Moved
                   [] OTHER -> [worker EXCEPT !.at = "restore", !.held = In(worker.path)]
    /\ UNCHANGED <<shared, kept, lost, joins, edits>>

\* An unexpected file goes back, unless its name was taken meanwhile.
Restore ==
    /\ worker.at = "restore"
    /\ IF In(worker.path) = None
       THEN local' = Put(worker.path, worker.held) /\ backups' = backups \ {worker.held}
       ELSE UNCHANGED <<local, backups>>
    /\ worker' = Idle
    /\ UNCHANGED <<known, shared, kept, lost, joins, edits>>

\* The file is linked to its name, if that is still vacant.
Place ==
    /\ worker.at = "place"
    /\ local' = Link(worker.path, worker.content)
    /\ known' = IF In(worker.path) = None THEN Learn(worker.path, worker.expected, worker.content) ELSE known
    /\ worker' = Idle
    /\ UNCHANGED <<backups, shared, kept, lost, joins, edits>>

\* The courier stops anywhere and joins again the same day: copies that match an
\* offer are known, nothing else is.
Rejoin ==
    /\ joins < MaxJoins
    /\ known' = LET same == {a \in shared : In(a.path) = a.request[3]}
                IN  [p \in {a.path : a \in same} |->
                        [version |-> p, digest |-> In(p)]]
    /\ worker' = Idle
    /\ joins' = joins + 1
    /\ UNCHANGED <<local, backups, shared, kept, lost, edits>>
-----------------------------------------------------------------------------
Pass == \/ \E path \in DOMAIN local : Send(path)
        \/ Serve \/ Refuse \/ Install \/ Recheck \/ Backup \/ Restore \/ Place

Next == \/ Pass \/ Lose \/ Rejoin
        \/ \E path \in UserName \cup DOMAIN local, content \in Mine : Edit(path, content)
        \/ \E path \in DOMAIN local : Remove(path)
        \/ \E path \in {p \in UserName : Len(p) = 1}, content \in Content \ Mine : OtherAdds(path, content)
        \/ \E offer \in shared : Receive(offer) \/ KeepBoth(offer)

Fairness == WF_vars(Pass)
Spec == Init /\ [][Next]_vars /\ Fairness
-----------------------------------------------------------------------------
Held == {local[p] : p \in DOMAIN local}
Sent == {a.request[3] : a \in shared}

\* Whatever the member wrote and did not replace or remove is in the folder or in
\* its backups, wherever the editor acts during a receive, an upload or keep_both
\* and wherever the courier stops (sync.py:112-169, 189-197).
NothingLost == kept \subseteq Held \cup backups

\* A saved file reaches the host, or is replaced or removed: lost answers and
\* conflicts are tried again in a later pass (controller.py:18-27).
EditsShared ==
    \A c \in Mine : (c \in Held) ~> (c \in Sent \/ c \notin Held \/ Cardinality(shared) = MaxFiles)

\* No content is added twice from one source: "Resume matching copies without
\* re-uploading or re-offering them" (client.py:56).
UploadedOnce ==
    \A a, b \in shared :
        a.by = Me /\ b.by = Me /\ a.source = b.source /\ a.request[3] = b.request[3] => a = b
=============================================================================
