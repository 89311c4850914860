---------------------------- MODULE KoelRegister ----------------------------
(***************************************************************************)
(* What KoelDrop promises about the files of a flock: rows are added one   *)
(* at a time and stay as they are; a name is given once; what is sent      *)
(* under a name that was given belongs to the lineage of that name; the    *)
(* numbers of a sender grow along a lineage, and the same request enters a *)
(* lineage once.                                                           *)
(***************************************************************************)
EXTENDS KoelNames

VARIABLE rows

Init == rows = {}

Lineage(by, source) == {a \in rows : a.by = by /\ a.source = source}

Enter(row) ==
    /\ row.path = Assigned(row.source, row.by, row.number)
    /\ \A a \in rows : a.path # row.path
    /\ row.source = Source(rows, row.request[1])
    /\ \A a \in Lineage(row.by, row.source) : a.number < row.number /\ a.request # row.request
    /\ rows' = rows \cup {row}

Next == \E row \in rows' : Enter(row)

Spec == Init /\ [][Next]_rows
=============================================================================
