----------------------------- MODULE KoelNames -----------------------------
(***************************************************************************)
(* How a KoelDrop host names additions (Store.put in                       *)
(* campus_lan/file_sharing/store.py).  A row of the table `additions' is a *)
(* record; the name stem_login_number.suffix is the sequence of the source *)
(* followed by the login and the number, so that a name somebody chose may *)
(* be the name the host would assign, as in the code.                      *)
(***************************************************************************)
EXTENDS Naturals, Sequences, FiniteSetsExt

\* An upload of an assigned name advances the lineage it came from.
Source(added, path) ==
    IF \E a \in added : a.path = path THEN (CHOOSE a \in added : a.path = path).source ELSE path

Assigned(source, by, number) == source \o <<by, number>>

\* What identifies a repeated request: request_key.
Request(path, expected, digest) == <<path, expected, digest>>

\* Mutant: the lineage is forgotten, so a retry after a rename is not recognized.
PriorBlind(added, by, path, expected, digest) == {}

\* The receipt of the same request, if it was served before.
Prior(added, by, path, expected, digest) ==
    {a \in added : /\ a.by = by
                   /\ a.source = Source(added, path)
                   /\ a.request = Request(path, expected, digest)}

\* max(number) + 1 of this sender and source, and on past names that are taken.
Number(added, by, source) ==
    LET low == Max({a.number : a \in {b \in added : b.by = by /\ b.source = source}} \cup {0}) + 1
        taken == {a.path : a \in added}
    IN  Min({n \in low .. low + Cardinality(taken) : Assigned(source, by, n) \notin taken})

\* Mutant: the row is filed under the name that was sent, not under its source.
RowAstray(added, by, path, expected, digest, version) ==
    LET number == Number(added, by, path)
    IN  [by |-> by, source |-> path, request |-> Request(path, expected, digest),
         path |-> Assigned(path, by, number), number |-> number, version |-> version]

\* The row that put() inserts.
Row(added, by, path, expected, digest, version) ==
    LET source == Source(added, path)
        number == Number(added, by, source)
    IN  [by |-> by, source |-> source, request |-> Request(path, expected, digest),
         path |-> Assigned(source, by, number), number |-> number, version |-> version]
=============================================================================
