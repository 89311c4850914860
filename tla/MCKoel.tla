------------------------------- MODULE MCKoel -------------------------------
(***************************************************************************)
(* KoelDrop on both sides.  The host (KoelStore) and a member's folder     *)
(* (KoelMirror, over what the host promises) are checked as two scenes of  *)
(* one instance: a behaviour stays in the scene it begins in.              *)
(***************************************************************************)
EXTENDS KoelStore, TLC

CONSTANTS x, y, s1, s2, f, Scenes, MineNames, Mine, Others, MirrorFiles, MaxLost, MaxJoins, MaxEdits

VARIABLES scene, local, backups, known, shared, worker, kept, lost, joins, edits

Mirror == INSTANCE KoelMirror WITH Me <- x, Other <- y, UserName <- MineNames,
                                   Content <- Mine \cup Others, MaxFiles <- MirrorFiles

\* The rows of the store, and the additions that a member's folder sees, as one register.
Stored == INSTANCE KoelRegister WITH rows <- additions
Seen == INSTANCE KoelRegister WITH rows <- shared

ASSUME SceneAssumption == Mirror!MirrorAssumption /\ MineNames \subseteq Name /\ {x, y} \subseteq Person

MCOwner == (s1 :> x) @@ (s2 :> y)
Plain == {<<f>>}
Confusing == {<<f>>, <<f, y, 1>>}    \* and the name the host will give to a file of y

mirror == <<local, backups, known, shared, worker, kept, lost, joins, edits>>
all == <<vars, scene, mirror>>

HostStep == scene = "host" /\ Next /\ UNCHANGED <<scene, mirror>>
MemberStep == scene = "member" /\ Mirror!Next /\ UNCHANGED <<scene, vars>>
MemberPass == scene = "member" /\ Mirror!Pass /\ UNCHANGED <<scene, vars>>

MCInit == scene \in Scenes /\ Init /\ Mirror!Init
MCNext == HostStep \/ MemberStep
MCSpec == MCInit /\ [][MCNext]_all /\ WF_all(MemberPass)

\* KoelMirror's properties, under the names the runs list.
\* Whatever the member wrote and did not replace is in the folder or its backups.
NothingLost == Mirror!NothingLost
\* A saved file reaches the host, or is replaced or removed.
EditsShared == Mirror!EditsShared
\* No content is added twice from one source (client.py:56).
UploadedOnce == Mirror!UploadedOnce
\* Both sides keep the register of KoelRegister: the host adds to its rows, and a
\* member sees additions, only as the register does (store.py:204-236).
KeepsRegister == Stored!Spec /\ Seen!Spec
=============================================================================
