----------------------------- MODULE KoelProofs -----------------------------
(***************************************************************************)
(* Proofs about KoelDrop: the host's store (KoelStore), for any members,   *)
(* names, limits and crashes, and a member's folder (KoelMirror, the       *)
(* instance Mirror of MCKoel).                                             *)
(***************************************************************************)
EXTENDS MCKoel, FiniteSetTheorems, WellFoundedInduction, TLAPS

(* Numbers and names. *)

\* A finite set of numbers has a largest and a smallest one: a counterexample
\* with no smaller counterexample below it becomes one when a number is taken away.
LEMMA Extremes == ASSUME NEW S, S \subseteq Nat, S # {}, IsFiniteSet(S)
                  PROVE  /\ \E n \in S : \A m \in S : n >= m
                         /\ \E n \in S : \A m \in S : n <= m
<1> DEFINE Ends(U) == /\ \E n \in U : \A m \in U : n >= m
                      /\ \E n \in U : \A m \in U : n <= m
           Bad == {U \in SUBSET S : U # {} /\ ~ Ends(U)}
<1>1. SUFFICES ASSUME Bad # {} PROVE FALSE
  BY DEF Bad
<1>2. PICK U \in Bad : \A V \in Bad : ~ (<<V, U>> \in StrictSubsetOrdering(S))
  <2>1. Bad \subseteq FiniteSubsetsOf(S)
    BY FS_Subset DEF FiniteSubsetsOf
  <2>2. IsWellFoundedOn(StrictSubsetOrdering(S), FiniteSubsetsOf(S))
    BY FS_StrictSubsetOrderingWellFounded
  <2> QED BY <1>1, <2>1, <2>2, WFMin, Zenon
<1>3. PICK u \in U : TRUE
  OBVIOUS
<1> DEFINE V == U \ {u}
<1>4. V \in SUBSET S /\ U \in SUBSET S /\ V \subseteq U /\ V # U
  BY <1>3
<1>5. V \notin Bad
  BY <1>2, <1>4 DEF StrictSubsetOrdering
<1>6. CASE V = {}
  BY <1>3, <1>4, <1>6
<1>7. CASE Ends(V)
  <2>1. PICK n \in V : \A m \in V : n >= m
    BY <1>7
  <2>2. PICK k \in V : \A m \in V : k <= m
    BY <1>7
  <2>3. \E h \in U : \A m \in U : h >= m
    BY <1>3, <1>4, <2>1
  <2>4. \E h \in U : \A m \in U : h <= m
    BY <1>3, <1>4, <2>2
  <2> QED BY <2>3, <2>4
<1> QED BY <1>4, <1>5, <1>6, <1>7

LEMMA MaxIn == ASSUME NEW S, S \subseteq Nat, S # {}, IsFiniteSet(S)
               PROVE  Max(S) \in S /\ \A n \in S : n <= Max(S)
BY Extremes DEF Max

LEMMA MinIn == ASSUME NEW S, S \subseteq Nat, S # {}, IsFiniteSet(S) PROVE Min(S) \in S
BY Extremes DEF Min

\* The parts of a name can be told apart.
LEMMA AssignedName ==
    ASSUME NEW source \in Name, NEW by \in Person, NEW n \in Nat
    PROVE  /\ Assigned(source, by, n) \in Name
           /\ Len(Assigned(source, by, n)) = Len(source) + 2
           /\ Assigned(source, by, n)[Len(source) + 2] = n
<1>1. <<by, n>> \in Seq(Letter \cup Person \cup Nat)
  OBVIOUS
<1> QED BY <1>1 DEF Assigned, Name

\* Rows that a name and a number can be drawn from.
Registered(T) == /\ IsFiniteSet(T)
                 /\ \A a \in T : a.source \in Name /\ a.path \in Name /\ a.number \in Nat

\* The number that put() picks is above all of its lineage, and makes a name that
\* no row has: there are more candidates than rows.
LEMMA NumberFree ==
    ASSUME NEW T, Registered(T), NEW by \in Person, NEW source \in Name
    PROVE  /\ Number(T, by, source) \in Nat \ {0}
           /\ \A a \in T : a.path # Assigned(source, by, Number(T, by, source))
           /\ \A a \in T : a.by = by /\ a.source = source => a.number < Number(T, by, source)
<1> DEFINE lineage == {b \in T : b.by = by /\ b.source = source}
           old == {a.number : a \in lineage}
           top == Max(old \cup {0})
           low == top + 1
           taken == {a.path : a \in T}
           candidates == low .. low + Cardinality(taken)
           free == {n \in candidates : Assigned(source, by, n) \notin taken}
<1>1. IsFiniteSet(old) /\ old \subseteq Nat
  <2>1. [a \in lineage |-> a.number] \in Surjection(lineage, old)
    BY DEF Surjection
  <2>2. IsFiniteSet(lineage)
    BY FS_Subset DEF Registered
  <2>3. IsFiniteSet(old)
    BY <2>1, <2>2, FS_Surjection
  <2> QED BY <2>3 DEF Registered
<1>2. low \in Nat \ {0} /\ \A n \in old : n < low
  <2>1. IsFiniteSet(old \cup {0}) /\ old \cup {0} \subseteq Nat
    BY <1>1, FS_AddElement
  <2>2. top \in Nat /\ \A n \in old \cup {0} : n <= top
    <3> HIDE DEF old
    <3> QED BY <2>1, MaxIn
  <2> HIDE DEF top, old
  <2> QED BY <1>1, <2>2
<1>3. IsFiniteSet(taken) /\ Cardinality(taken) \in Nat
  <2>1. [a \in T |-> a.path] \in Surjection(T, taken)
    BY DEF Surjection
  <2>2. IsFiniteSet(taken)
    BY <2>1, FS_Surjection DEF Registered
  <2> QED BY <2>2, FS_CardinalityType
<1>4. free # {}
  <2> SUFFICES ASSUME free = {} PROVE FALSE
    OBVIOUS
  <2> DEFINE g == [n \in candidates |-> Assigned(source, by, n)]
  <2>1. g \in [candidates -> taken]
    OBVIOUS
  <2>2. IsFiniteSet(candidates) /\ Cardinality(candidates) = Cardinality(taken) + 1
    <3>1. low \in Nat
      BY <1>2
    <3> HIDE DEF low, taken
    <3> QED BY <3>1, <1>3, FS_Interval
  <2>3. PICK m, n \in candidates : m # n /\ g[m] = g[n]
    <3> HIDE DEF candidates, taken, g
    <3> QED BY <1>3, <2>1, <2>2, FS_PigeonHole
  <2>4. Assigned(source, by, m) = Assigned(source, by, n) /\ m \in Nat /\ n \in Nat
    BY <1>2, <2>3
  <2> QED BY <2>3, <2>4, AssignedName
<1>5. free \subseteq Nat \ {0} /\ IsFiniteSet(free) /\ \A n \in free, k \in old : k < n
  <2>1. candidates \subseteq Nat \ {0} /\ \A n \in candidates : low <= n
    <3> HIDE DEF low, taken
    <3> QED BY <1>2, <1>3
  <2>2. IsFiniteSet(candidates)
    <3> HIDE DEF low, taken
    <3> QED BY <1>2, <1>3, FS_Interval
  <2>3. \A n \in candidates, k \in old : k < n
    <3> HIDE DEF candidates, low, old
    <3> QED BY <1>1, <1>2, <2>1
  <2> HIDE DEF candidates
  <2> QED BY <2>1, <2>2, <2>3, FS_Subset
<1>6. Min(free) \in free
  <2> HIDE DEF free
  <2> QED BY <1>4, <1>5, MinIn
<1>7. Number(T, by, source) = Min(free)
  BY DEF Number
<1>8. \A a \in T : a.by = by /\ a.source = source => a.number \in old
  OBVIOUS
<1>9. Min(free) \in Nat \ {0} /\ \A k \in old : k < Min(free)
  <2> HIDE DEF free, old
  <2> QED BY <1>5, <1>6
<1>10. \A a \in T : a.path # Assigned(source, by, Min(free))
  BY <1>6
<1> HIDE DEF free, old
<1> QED BY <1>7, <1>8, <1>9, <1>10

LEMMA AdditionsRegistered ==
    ASSUME IsFiniteSet(additions), additions \subseteq Additions PROVE Registered(additions)
BY DEF Additions, Registered

\* What put() promises of a row that it adds to T.
Fits(T, row) ==
    /\ row.path = Assigned(row.source, row.by, row.number)
    /\ \A a \in T : a.path # row.path
    /\ row.source = Source(T, row.request[1])
    /\ \A a \in T : a.by = row.by /\ a.source = row.source =>
          a.number < row.number /\ a.request # row.request

LEMMA RowFits ==
    ASSUME NEW T, Registered(T), NEW by \in Person, NEW path \in Name,
           NEW expected, NEW digest, NEW version,
           Prior(T, by, path, expected, digest) = {}
    PROVE  Fits(T, Row(T, by, path, expected, digest, version))
<1> DEFINE source == Source(T, path)
           number == Number(T, by, source)
           row == Row(T, by, path, expected, digest, version)
<1>1. source \in Name
  BY DEF Source, Registered
<1>2. /\ row.path = Assigned(source, by, number) /\ row.number = number
      /\ row.source = source /\ row.by = by /\ row.request = <<path, expected, digest>>
  BY DEF Row, Request
<1>3. \A a \in T : a.by = by /\ a.source = source => a.request # <<path, expected, digest>>
  BY DEF Prior, Request
<1>4. /\ \A a \in T : a.path # Assigned(source, by, number)
      /\ \A a \in T : a.by = by /\ a.source = source => a.number < number
  <2> HIDE DEF source
  <2> QED BY <1>1, NumberFree
<1>5. row.source = Source(T, row.request[1])
  BY <1>2
<1>6. row.path = Assigned(row.source, row.by, row.number) /\ \A a \in T : a.path # row.path
  BY <1>2, <1>4, Zenon
<1>7. \A a \in T : a.by = row.by /\ a.source = row.source => a.number < row.number /\ a.request # row.request
  <2> HIDE DEF row, source, number
  <2> QED BY <1>2, <1>3, <1>4
<1> QED BY <1>5, <1>6, <1>7, Zenon DEF Fits

(* Types. *)

LEMMA RowType ==
    ASSUME IsFiniteSet(additions), additions \subseteq Additions,
           NEW by \in Person, NEW path \in Name, NEW expected \in Version \cup {None},
           NEW digest \in Digest, NEW version \in Version
    PROVE  Row(additions, by, path, expected, digest, version) \in Rows
<1> DEFINE source == Source(additions, path)
           number == Number(additions, by, source)
<1>1. source \in Name
  BY DEF Source, Additions
<1>2. number \in Nat /\ Assigned(source, by, number) \in Name
  BY <1>1, AdditionsRegistered, NumberFree, AssignedName
<1> HIDE DEF source, number
<1>3. Request(path, expected, digest) \in Requests
  BY DEF Request, Requests
<1> QED BY <1>1, <1>2, <1>3 DEF Row, Rows, source, number

\* What put() may be asked for.
LEMMA Asked ==
    ASSUME KoelAssumption, TypeOK, IsFiniteSet(additions), NEW s \in Session, Put(s)
    PROVE  \E path \in Name, expected \in Version \cup {None}, digest \in Digest, version \in Version :
              /\ path \in UserName \cup {a.path : a \in additions}
              /\ Write(s, path, expected, digest, version)
              /\ Owner[s] \in Person
              /\ writer' = Row(additions, Owner[s], path, expected, digest, version)
              /\ writer' \in Rows /\ writer' # None /\ writer = None
              /\ writer'.version = version /\ writer'.by = Owner[s]
<1>1. PICK path \in UserName \cup {a.path : a \in additions}, digest \in Digest,
           expected \in Versions \cup {None}, version \in Version :
              Write(s, path, expected, digest, version)
  BY DEF Put
<1>2. path \in Name /\ expected \in Version \cup {None} /\ Owner[s] \in Person
  BY DEF KoelAssumption, TypeOK, Additions, Versions
<1>3. Row(additions, Owner[s], path, expected, digest, version) \in Rows
  BY <1>2, RowType DEF TypeOK
<1>4. writer' = Row(additions, Owner[s], path, expected, digest, version) /\ writer = None
  BY <1>1 DEF Write, Member, Served
<1>5. writer'.version = version /\ writer'.by = Owner[s]
  BY <1>4 DEF Row
<1> QED BY <1>1, <1>2, <1>3, <1>4, <1>5 DEF KoelAssumption

LEMMA StampedType ==
    ASSUME TypeOK, writer # None
    PROVE  /\ Stamped(writer) \in Additions
           /\ Stamped(writer).version = writer.version /\ Stamped(writer).at = now
           /\ Stamped(writer).by = writer.by /\ Stamped(writer).path = writer.path
           /\ Stamped(writer).source = writer.source /\ Stamped(writer).request = writer.request
BY DEF TypeOK, Stamped, Rows, Additions

LEMMA TypeStep == ASSUME KoelAssumption, TypeOK, IsFiniteSet(additions), [Next]_vars PROVE TypeOK'
<1>1. CASE Tick
  BY <1>1 DEF Tick, TypeOK, KoelAssumption
<1>2. CASE Create
  BY <1>2 DEF Create, TypeOK
<1>13. CASE Record
  BY <1>13 DEF Record, TypeOK
<1>3. CASE Resume
  BY <1>3 DEF Resume, TypeOK, Nobody
<1>4. CASE Crash
  BY <1>4 DEF Crash, TypeOK, KoelAssumption
<1>5. CASE Commit
  BY <1>5, StampedType DEF Commit, TypeOK
<1>6. CASE Fail
  BY <1>6 DEF Fail, TypeOK
<1>7. ASSUME NEW s \in Session, SignIn(s) \/ SignOut(s) PROVE TypeOK'
  BY <1>7 DEF SignIn, SignOut, TypeOK
<1>8. ASSUME NEW s \in Session, Join(s) PROVE TypeOK'
  <2>1. Owner[s] \in Person /\ Kept \in [Person -> Session \cup {None}]
    BY DEF KoelAssumption, Kept, TypeOK
  <2> QED BY <1>8, <2>1 DEF Join, TypeOK
<1>9. ASSUME NEW s \in Session, Accept(s) \/ Leave(s) PROVE TypeOK'
  BY <1>9 DEF Accept, Leave, TypeOK, KoelAssumption
<1>10. ASSUME NEW s \in Session, Put(s) PROVE TypeOK'
  <2>1. PICK path \in Name, expected \in Version \cup {None}, digest \in Digest, version \in Version :
           Write(s, path, expected, digest, version) /\ writer' \in Rows
    BY <1>10, Asked
  <2> QED BY <2>1 DEF Write, TypeOK
<1>11. ASSUME NEW p \in Person, Invite(p) PROVE TypeOK'
  BY <1>11 DEF Invite, TypeOK
<1>12. CASE UNCHANGED vars
  BY <1>12 DEF vars, TypeOK
<1> QED BY <1>1, <1>2, <1>3, <1>4, <1>5, <1>6, <1>7, <1>8, <1>9, <1>10, <1>11, <1>12, <1>13 DEF Next

(* Objects and rows. *)

Countable == IsFiniteSet(additions) /\ IsFiniteSet(blobs) /\ IsFiniteSet(Members)

\* The row under way has an object of its own.
OwnBlob == writer # None => writer.version \notin Versions

\* Steps that write neither rows nor objects.
StoreStep == Crash \/ Commit \/ Fail \/ \E s \in Session : Put(s)

LEMMA StoreStays == ASSUME [Next]_vars PROVE StoreStep \/ UNCHANGED <<additions, blobs, writer, crashes>>
BY DEF Next, vars, StoreStep, Tick, Create, Record, Resume, SignIn, SignOut, Join, Accept, Leave, Invite

LEMMA StoreCounted == ASSUME KoelAssumption, TypeOK, Countable, [Next]_vars
                      PROVE  IsFiniteSet(additions') /\ IsFiniteSet(blobs')
<1>1. CASE Commit
  BY <1>1, FS_AddElement DEF Commit, Countable
<1>2. CASE Fail
  BY <1>2, FS_RemoveElement DEF Fail, Countable
<1>3. ASSUME NEW s \in Session, Put(s) PROVE IsFiniteSet(additions') /\ IsFiniteSet(blobs')
  <2>1. PICK path \in Name, expected \in Version \cup {None}, digest \in Digest, version \in Version :
           Write(s, path, expected, digest, version)
    BY <1>3, Asked DEF Countable
  <2> QED BY <2>1, FS_AddElement DEF Write, Countable
<1>4. CASE Crash \/ UNCHANGED <<additions, blobs, writer, crashes>>
  BY <1>4 DEF Crash, Countable
<1> QED BY <1>1, <1>2, <1>3, <1>4, StoreStays DEF StoreStep

LEMMA BlobsStep == ASSUME KoelAssumption, TypeOK, Countable, OwnBlob, BlobsMatchRows, [Next]_vars
                   PROVE  OwnBlob' /\ BlobsMatchRows'
<1> DEFINE loose == blobs \ Versions
<1>0. IsFiniteSet(loose) /\ Cardinality(loose) \in Nat /\ crashes \in Nat
  BY FS_Subset, FS_CardinalityType DEF Countable, TypeOK
<1>1. CASE Commit
  <2>1. Versions' = Versions \cup {writer.version} /\ writer # None /\ blobs' = blobs /\ crashes' = crashes
    BY <1>1, StampedType DEF Commit, Versions
  <2>2. blobs' \ Versions' = loose \ {writer.version} /\ writer.version \in loose
    BY <2>1 DEF OwnBlob, BlobsMatchRows
  <2>3. Cardinality(loose \ {writer.version}) = Cardinality(loose) - 1
    BY <1>0, <2>2, FS_RemoveElement
  <2>4. Cardinality(blobs' \ Versions') <= crashes
    BY <1>0, <2>1, <2>2, <2>3 DEF BlobsMatchRows
  <2>5. writer' = None /\ Versions' \subseteq blobs'
    BY <1>1, <2>1 DEF Commit, BlobsMatchRows
  <2> QED BY <1>0, <2>1, <2>4, <2>5 DEF OwnBlob, BlobsMatchRows
<1>2. CASE Fail
  <2>1. /\ Versions' = Versions /\ writer # None /\ writer' = None
        /\ blobs' = blobs \ {writer.version} /\ crashes' = crashes
    BY <1>2 DEF Fail, Versions
  <2>2. blobs' \ Versions' = loose \ {writer.version} /\ writer.version \in loose
    BY <2>1 DEF OwnBlob, BlobsMatchRows
  <2>3. Cardinality(loose \ {writer.version}) = Cardinality(loose) - 1
    BY <1>0, <2>2, FS_RemoveElement
  <2>4. Versions' \subseteq blobs'
    BY <2>1 DEF OwnBlob, BlobsMatchRows
  <2>5. Cardinality(blobs' \ Versions') <= crashes
    BY <1>0, <2>1, <2>2, <2>3 DEF BlobsMatchRows
  <2> QED BY <1>0, <2>1, <2>4, <2>5 DEF OwnBlob, BlobsMatchRows
<1>3. CASE Crash
  BY <1>0, <1>3 DEF Crash, Versions, OwnBlob, BlobsMatchRows
<1>4. ASSUME NEW s \in Session, Put(s) PROVE OwnBlob' /\ BlobsMatchRows'
  <2>1. PICK path \in Name, expected \in Version \cup {None}, digest \in Digest, version \in Version :
           /\ Write(s, path, expected, digest, version)
           /\ writer' # None /\ writer = None /\ writer'.version = version
    BY <1>4, Asked DEF Countable
  <2>2. /\ version \notin blobs /\ blobs' = blobs \cup {version}
        /\ Versions' = Versions /\ crashes' = crashes
    BY <2>1 DEF Write, Versions
  <2>3. blobs' \ Versions' = loose \cup {version} /\ version \notin loose /\ version \notin Versions
    BY <2>2 DEF BlobsMatchRows
  <2>4. Cardinality(loose \cup {version}) = Cardinality(loose) + 1
    BY <1>0, <2>3, FS_AddElement
  <2>5. Cardinality(blobs' \ Versions') <= crashes + 1
    <3>1. Cardinality(loose) <= crashes + 0
      BY <2>1 DEF BlobsMatchRows
    <3>2. Cardinality(blobs' \ Versions') = Cardinality(loose \cup {version})
      BY <2>3, Zenon
    <3> HIDE DEF loose
    <3> QED BY <1>0, <2>4, <3>1, <3>2
  <2>6. OwnBlob'
    BY <2>1, <2>2, <2>3 DEF OwnBlob
  <2>7. Versions' \subseteq blobs' /\ version \in blobs'
    BY <2>1, <2>2 DEF BlobsMatchRows
  <2> QED BY <2>1, <2>2, <2>5, <2>6, <2>7 DEF BlobsMatchRows
<1>5. CASE UNCHANGED <<additions, blobs, writer, crashes>>
  BY <1>5 DEF Versions, OwnBlob, BlobsMatchRows
<1> QED BY <1>1, <1>2, <1>3, <1>4, <1>5, StoreStays DEF StoreStep

(* Places and rates. *)

LEMMA MembersStep == ASSUME KoelAssumption, TypeOK, Countable, MembersBounded, [Next]_vars
                     PROVE  IsFiniteSet(Members') /\ MembersBounded'
<1>0. Cardinality(Members) \in Nat /\ IsFiniteSet(Members) /\ MaxMembers \in Nat
  BY FS_CardinalityType DEF Countable, KoelAssumption
<1>1. ASSUME Members' \subseteq Members PROVE IsFiniteSet(Members') /\ MembersBounded'
  <2>1. IsFiniteSet(Members') /\ Cardinality(Members') <= Cardinality(Members)
    BY <1>0, <1>1, FS_Subset
  <2>2. Cardinality(Members') \in Nat
    BY <2>1, FS_CardinalityType
  <2> QED BY <1>0, <2>1, <2>2 DEF MembersBounded
<1>2. ASSUME NEW s \in Session, Join(s) PROVE IsFiniteSet(Members') /\ MembersBounded'
  <2> DEFINE staying == {q \in Person : Kept[q] # None}
  <2>1. Owner[s] \in Person /\ s # None
    BY DEF KoelAssumption
  <2>2. Members' = staying \cup {Owner[s]}
    BY <1>2, <2>1 DEF Join, Members, Kept
  <2>3. staying \subseteq Members
    BY DEF Members, Kept
  <2>4. IsFiniteSet(Members')
    BY <1>0, <2>2, <2>3, FS_Subset, FS_AddElement
  <2>5. Cardinality(Members') <= MaxMembers
    BY <1>2, <2>2, Zenon DEF Join
  <2> QED BY <2>4, <2>5 DEF MembersBounded, KoelAssumption
<1>3. ASSUME NEW s \in Session, Accept(s) PROVE IsFiniteSet(Members') /\ MembersBounded'
  <2>1. Owner[s] \in Person /\ s # None
    BY DEF KoelAssumption
  <2>2. Members' = Members \cup {Owner[s]}
    BY <1>3, <2>1 DEF Accept, Members, TypeOK
  <2>3. IsFiniteSet(Members') /\ Cardinality(Members') <= Cardinality(Members) + 1
    <3> DEFINE more == Members \cup {Owner[s]}
    <3>1. Cardinality(Members) \in Nat
      BY <1>0, FS_CardinalityType
    <3>2. /\ IsFiniteSet(more)
          /\ Cardinality(more) = IF Owner[s] \in Members THEN Cardinality(Members)
                                 ELSE Cardinality(Members) + 1
      BY <1>0, FS_AddElement
    <3>3. Cardinality(more) <= Cardinality(Members) + 1
      BY <3>1, <3>2
    <3> HIDE DEF more
    <3> QED BY <2>2, <3>2, <3>3 DEF more
  <2>4. Cardinality(Members) < MaxMembers /\ Cardinality(Members') \in Nat
    BY <1>3, <2>3, FS_CardinalityType DEF Accept
  <2> QED BY <1>0, <2>3, <2>4 DEF MembersBounded
<1>4. ASSUME NEW s \in Session, Leave(s) PROVE Members' \subseteq Members
  BY <1>4 DEF Leave, Members, TypeOK
<1>5. CASE Resume
  BY <1>1, <1>5 DEF Resume, Members, Nobody
<1>6. CASE UNCHANGED members
  BY <1>1, <1>6 DEF Members
<1>7. \/ Resume \/ UNCHANGED members
      \/ \E s \in Session : Join(s) \/ Accept(s) \/ Leave(s)
  BY DEF Next, vars, Tick, Create, Record, Crash, Commit, Fail, SignIn, SignOut, Put, Write, Invite
<1> QED BY <1>1, <1>2, <1>3, <1>4, <1>5, <1>6, <1>7

\* Additions of p that count at the instant t.
RecentAt(p, t) == {a \in additions : a.by = p /\ a.at <= t /\ a.at + Window > t}

\* Rows are not from the future, and the row under way is within its sender's rate.
Rated == /\ \A a \in additions : a.at <= now
         /\ \A p \in Person : writer # None /\ writer.by = p => Cardinality(RecentBy(p)) < MaxAdditions

LEMMA RecentIsNow == ASSUME TypeOK, Rated, NEW p PROVE RecentAt(p, now) = RecentBy(p)
BY DEF TypeOK, Rated, RecentAt, RecentBy, Additions

LEMMA RecentFinite == ASSUME KoelAssumption, IsFiniteSet(additions), NEW p, NEW t
                      PROVE  /\ IsFiniteSet(RecentBy(p)) /\ Cardinality(RecentBy(p)) \in Nat
                             /\ IsFiniteSet(RecentAt(p, t)) /\ Cardinality(RecentAt(p, t)) \in Nat
BY FS_Subset, FS_CardinalityType DEF RecentBy, RecentAt

LEMMA RateStep == ASSUME KoelAssumption, TypeOK, Countable, Rated, RateKept, [Next]_vars
                  PROVE  Rated' /\ RateKept'
<1> USE DEF Countable
<1>0. now \in Nat /\ Window \in Nat /\ MaxAdditions \in Nat
  BY DEF TypeOK, KoelAssumption
<1>1. \A p \in Person, t \in 0 .. now : Cardinality(RecentAt(p, t)) <= MaxAdditions
  BY Zenon DEF RateKept, RecentAt
<1>2. (\A p \in Person, t \in 0 .. now' : Cardinality(RecentAt(p, t)') <= MaxAdditions) => RateKept'
  BY Zenon DEF RateKept, RecentAt
<1>3. CASE Tick
  <2>1. now' = now + 1 /\ additions' = additions /\ writer' = writer
    BY <1>3 DEF Tick
  <2>2. ASSUME NEW p PROVE RecentBy(p)' \subseteq RecentBy(p)
    BY <1>0, <2>1 DEF RecentBy, TypeOK, Additions
  <2>3. ASSUME NEW p PROVE Cardinality(RecentBy(p)') <= Cardinality(RecentBy(p))
    BY <2>2, RecentFinite, FS_Subset
  <2>4. ASSUME NEW p PROVE Cardinality(RecentBy(p)') \in Nat /\ Cardinality(RecentBy(p)) \in Nat
    BY <2>2, RecentFinite, FS_Subset, FS_CardinalityType
  <2>5. Rated'
    <3>1. ASSUME NEW p \in Person, writer # None, writer.by = p PROVE Cardinality(RecentBy(p)') < MaxAdditions
      <4>1. Cardinality(RecentBy(p)) < MaxAdditions
        BY <3>1 DEF Rated
      <4> QED BY <1>0, <2>3, <2>4, <4>1
    <3>2. \A a \in additions' : a.at <= now'
      BY <1>0, <2>1 DEF Rated, TypeOK, Additions
    <3> QED BY <2>1, <3>1, <3>2 DEF Rated
  <2>6. ASSUME NEW p \in Person, NEW t \in 0 .. now + 1 PROVE Cardinality(RecentAt(p, t)') <= MaxAdditions
    <3>1. CASE t <= now
      <4>1. RecentAt(p, t)' = RecentAt(p, t)
        BY <2>1 DEF RecentAt
      <4> QED BY <1>0, <1>1, <3>1, <4>1
    <3>2. CASE t = now + 1
      <4>1. RecentAt(p, t)' \subseteq RecentAt(p, now)
        BY <1>0, <2>1, <3>2 DEF RecentAt, Rated, TypeOK, Additions
      <4>2. /\ Cardinality(RecentAt(p, t)') <= Cardinality(RecentAt(p, now))
            /\ Cardinality(RecentAt(p, t)') \in Nat
        BY <4>1, RecentFinite, FS_Subset, FS_CardinalityType
      <4>3. Cardinality(RecentAt(p, now)) <= MaxAdditions
        BY <1>0, <1>1
      <4> QED BY <1>0, <4>2, <4>3, RecentFinite
    <3> QED BY <1>0, <3>1, <3>2
  <2> QED BY <1>2, <2>1, <2>5, <2>6
<1>4. CASE Commit
  <2> DEFINE row == Stamped(writer)
  <2>1. /\ additions' = additions \cup {row} /\ now' = now /\ writer # None /\ writer' = None
        /\ row.by = writer.by /\ row.at = now
    BY <1>4, StampedType DEF Commit
  <2> HIDE DEF row
  <2>2. Rated'
    BY <1>0, <2>1 DEF Rated
  <2>3. ASSUME NEW p \in Person, NEW t \in 0 .. now PROVE Cardinality(RecentAt(p, t)') <= MaxAdditions
    <3>1. CASE t = now /\ p = writer.by
      <4>1. RecentAt(p, t)' \subseteq RecentBy(p) \cup {row}
        BY <2>1, <3>1 DEF RecentAt, RecentBy
      <4>2. /\ IsFiniteSet(RecentBy(p) \cup {row})
            /\ Cardinality(RecentBy(p) \cup {row}) <= Cardinality(RecentBy(p)) + 1
        <5>1. IsFiniteSet(RecentBy(p)) /\ Cardinality(RecentBy(p)) \in Nat
          BY RecentFinite
        <5>2. /\ IsFiniteSet(RecentBy(p) \cup {row})
              /\ Cardinality(RecentBy(p) \cup {row}) =
                    IF row \in RecentBy(p) THEN Cardinality(RecentBy(p)) ELSE Cardinality(RecentBy(p)) + 1
          BY <5>1, FS_AddElement, Zenon
        <5> QED BY <5>1, <5>2
      <4>3. Cardinality(RecentAt(p, t)') <= Cardinality(RecentBy(p) \cup {row})
        BY <4>1, <4>2, FS_Subset
      <4>4. Cardinality(RecentAt(p, t)') \in Nat /\ Cardinality(RecentBy(p) \cup {row}) \in Nat
        BY <4>1, <4>2, FS_Subset, FS_CardinalityType
      <4>5. Cardinality(RecentBy(p)) < MaxAdditions /\ Cardinality(RecentBy(p)) \in Nat
        BY <2>1, <3>1, RecentFinite DEF Rated
      <4> QED BY <1>0, <4>2, <4>3, <4>4, <4>5
    <3>2. CASE t # now \/ p # writer.by
      <4>1. RecentAt(p, t)' = RecentAt(p, t)
        BY <1>0, <2>1, <3>2 DEF RecentAt
      <4> QED BY <1>1, <4>1
    <3> QED BY <3>1, <3>2
  <2> QED BY <1>2, <2>1, <2>2, <2>3
<1>5. ASSUME additions' = additions, now' = now PROVE RateKept'
  <2>1. \A p, t : RecentAt(p, t)' = RecentAt(p, t)
    BY <1>5 DEF RecentAt
  <2> QED BY <1>1, <1>2, <1>5, <2>1
<1>6. ASSUME NEW s \in Session, Put(s) PROVE Rated' /\ RateKept'
  <2>1. PICK path \in Name, expected \in Version \cup {None}, digest \in Digest, version \in Version :
           Write(s, path, expected, digest, version) /\ writer'.by = Owner[s] /\ Owner[s] \in Person
    BY <1>6, Asked
  <2>2. /\ additions' = additions /\ now' = now
        /\ Cardinality(RecentBy(Owner[s])) < MaxAdditions
    BY <2>1 DEF Write
  <2>3. \A p : RecentBy(p)' = RecentBy(p)
    BY <2>2 DEF RecentBy
  <2> QED BY <1>5, <2>1, <2>2, <2>3 DEF Rated
<1>7. CASE Crash \/ Fail
  <2>1. writer' = None /\ additions' = additions /\ now' = now
    BY <1>7 DEF Crash, Fail
  <2> QED BY <1>5, <2>1 DEF Rated
<1>8. CASE UNCHANGED <<additions, now, writer>>
  <2>1. \A p : RecentBy(p)' = RecentBy(p)
    BY <1>8 DEF RecentBy
  <2> QED BY <1>5, <1>8, <2>1 DEF Rated
<1>9. \/ Tick \/ Commit \/ Crash \/ Fail \/ UNCHANGED <<additions, now, writer>>
      \/ \E s \in Session : Put(s)
  BY DEF Next, vars, Create, Record, Resume, SignIn, SignOut, Join, Accept, Leave, Invite
<1> QED BY <1>3, <1>4, <1>6, <1>7, <1>8, <1>9

(* Names and requests. *)

\* No two rows share a name.
NamesOnce == \A a, b \in additions : a.path = b.path => a = b

\* The row under way has a name that no row has.
NewName == writer # None => \A a \in additions : a.path # writer.path

\* Steps that change rows or the row under way.
RowStep == Commit \/ Crash \/ Fail \/ \E s \in Session : Put(s)

LEMMA RowsStay == ASSUME [Next]_vars PROVE RowStep \/ UNCHANGED <<additions, writer>>
BY DEF Next, vars, RowStep, Tick, Create, Record, Resume, SignIn, SignOut, Join, Accept, Leave, Invite

LEMMA RowName ==
    ASSUME IsFiniteSet(additions), additions \subseteq Additions,
           NEW by \in Person, NEW path \in Name, NEW expected, NEW digest, NEW version,
           NEW row, row = Row(additions, by, path, expected, digest, version)
    PROVE  /\ \A a \in additions : a.path # row.path
           /\ row.by = by /\ row.source = Source(additions, path) /\ row.source \in Name
           /\ row.request = <<path, expected, digest>>
           /\ \E n \in Nat \ {0} : row.path = Assigned(row.source, by, n)
<1>1. Source(additions, path) \in Name
  BY DEF Source, Additions
<1> DEFINE number == Number(additions, by, Source(additions, path))
<1>2. /\ number \in Nat \ {0}
      /\ \A a \in additions : a.path # Assigned(Source(additions, path), by, number)
  BY <1>1, AdditionsRegistered, NumberFree
<1> QED BY <1>1, <1>2 DEF Row, Request

LEMMA NamesStep == ASSUME KoelAssumption, TypeOK, Countable, NamesOnce, NewName, [Next]_vars
                   PROVE  NamesOnce' /\ NewName'
<1>1. CASE Commit
  <2>1. additions' = additions \cup {Stamped(writer)} /\ Stamped(writer).path = writer.path
        /\ writer # None /\ writer' = None
    BY <1>1, StampedType DEF Commit
  <2> QED BY <2>1 DEF NamesOnce, NewName
<1>2. ASSUME NEW s \in Session, Put(s) PROVE NamesOnce' /\ NewName'
  <2>1. PICK path \in Name, expected \in Version \cup {None}, digest \in Digest, version \in Version :
           /\ Write(s, path, expected, digest, version) /\ Owner[s] \in Person
           /\ writer' = Row(additions, Owner[s], path, expected, digest, version)
    BY <1>2, Asked DEF Countable
  <2>2. additions' = additions
    BY <2>1 DEF Write
  <2>3. \A a \in additions : a.path # writer'.path
    BY <2>1, RowName DEF TypeOK, Countable
  <2> QED BY <2>2, <2>3 DEF NamesOnce, NewName
<1>3. CASE Crash \/ Fail \/ UNCHANGED <<additions, writer>>
  BY <1>3 DEF Crash, Fail, NamesOnce, NewName
<1> QED BY <1>1, <1>2, <1>3, RowsStay DEF RowStep

\* The row under way fits the rows until it joins them: the lock is held meanwhile.
NewFits == writer # None => Fits(additions, writer)

LEMMA FitsEnters == ASSUME NEW row, Fits(additions, row), additions' = additions \cup {row}
                    PROVE  Stored!Next
<1>1. Stored!Assigned(row.source, row.by, row.number) = Assigned(row.source, row.by, row.number)
  BY DEF Stored!Assigned, Assigned
<1>2. Stored!Source(additions, row.request[1]) = Source(additions, row.request[1])
  BY DEF Stored!Source, Source
<1>3. Stored!Enter(row)
  BY <1>1, <1>2 DEF Stored!Enter, Stored!Lineage, Fits
<1> QED BY <1>3 DEF Stored!Next

LEMMA FitsStep == ASSUME KoelAssumption, TypeOK, Countable, NewFits, [Next]_vars
                  PROVE  NewFits' /\ [Stored!Next]_additions
<1>1. CASE Commit
  <2> DEFINE row == Stamped(writer)
  <2>1. /\ additions' = additions \cup {row} /\ writer # None /\ writer' = None
        /\ row.path = writer.path /\ row.by = writer.by /\ row.number = writer.number
        /\ row.source = writer.source /\ row.request = writer.request
    BY <1>1, StampedType DEF Commit, Stamped
  <2>2. Fits(additions, row)
    BY <2>1 DEF NewFits, Fits
  <2>3. NewFits'
    BY <2>1 DEF NewFits
  <2> QED BY <2>1, <2>2, <2>3, FitsEnters
<1>2. ASSUME NEW s \in Session, Put(s) PROVE NewFits' /\ additions' = additions
  <2>1. PICK path \in Name, expected \in Version \cup {None}, digest \in Digest, version \in Version :
           /\ Write(s, path, expected, digest, version) /\ Owner[s] \in Person
           /\ writer' = Row(additions, Owner[s], path, expected, digest, version)
    BY <1>2, Asked DEF Countable
  <2>2. /\ additions' = additions
        /\ Prior(additions, Owner[s], path, expected, digest) = {}
    BY <2>1 DEF Write
  <2>3. Fits(additions, writer')
    BY <2>1, <2>2, AdditionsRegistered, RowFits DEF TypeOK, Countable
  <2> QED BY <2>2, <2>3 DEF NewFits
<1>3. CASE Crash \/ Fail \/ UNCHANGED <<additions, writer>>
  BY <1>3 DEF Crash, Fail, NewFits
<1> QED BY <1>1, <1>2, <1>3, RowsStay DEF RowStep

(* The store. *)

StoreInv == /\ TypeOK /\ Countable
            /\ OwnBlob /\ BlobsMatchRows
            /\ Rated /\ RateKept /\ MembersBounded
            /\ NamesOnce /\ NewName

LEMMA StoreInit == KoelAssumption /\ Init => StoreInv
<1> SUFFICES ASSUME KoelAssumption, Init PROVE StoreInv
  OBVIOUS
<1>1. TypeOK
  <2>1. signed \in [Session -> {"fresh", "active", "ended"}] /\ members \in [Person -> Session \cup {None}]
    BY DEF Init, Nobody
  <2>2. {now, groups, crashes} \subseteq Nat
    BY DEF Init
  <2> QED BY <2>1, <2>2 DEF Init, TypeOK
<1>2. Members = {} /\ additions = {} /\ blobs = {} /\ writer = None /\ crashes = 0 /\ Versions = {}
  BY DEF Init, Members, Nobody, Versions
<1>3. IsFiniteSet({}) /\ Cardinality({}) = 0
  BY FS_EmptySet
<1>4. Countable /\ MembersBounded
  BY <1>2, <1>3 DEF Countable, MembersBounded, KoelAssumption
<1>5. OwnBlob /\ BlobsMatchRows
  <2>1. blobs \ Versions = {}
    BY <1>2
  <2> QED BY <1>2, <1>3, <2>1 DEF OwnBlob, BlobsMatchRows
<1>6. Rated
  BY <1>2 DEF Rated
<1>7. RateKept
  <2>1. \A p, t : {a \in additions : a.by = p /\ a.at <= t /\ a.at + Window > t} = {}
    BY <1>2
  <2>2. MaxAdditions \in Nat
    BY DEF KoelAssumption
  <2> QED BY <1>3, <2>1, <2>2 DEF RateKept
<1>8. NamesOnce /\ NewName
  BY <1>2 DEF NamesOnce, NewName
<1> QED BY <1>1, <1>4, <1>5, <1>6, <1>7, <1>8 DEF StoreInv

LEMMA StoreStepInv == KoelAssumption /\ StoreInv /\ [Next]_vars => StoreInv'
<1> SUFFICES ASSUME KoelAssumption, StoreInv, [Next]_vars PROVE StoreInv'
  OBVIOUS
<1>1. TypeOK' /\ IsFiniteSet(additions') /\ IsFiniteSet(blobs')
  BY TypeStep, StoreCounted DEF StoreInv, Countable
<1>2. OwnBlob' /\ BlobsMatchRows'
  BY BlobsStep DEF StoreInv
<1>3. Rated' /\ RateKept'
  BY RateStep DEF StoreInv
<1>4. IsFiniteSet(Members') /\ MembersBounded'
  BY MembersStep DEF StoreInv
<1>5. NamesOnce' /\ NewName'
  BY NamesStep DEF StoreInv
<1>6. Countable'
  BY <1>1, <1>4 DEF Countable
<1> QED BY <1>1, <1>2, <1>3, <1>4, <1>5, <1>6 DEF StoreInv

LEMMA StoreSafe == Spec => []StoreInv
<1>1. Init => StoreInv
  BY StoreInit, KoelAssumption
<1>2. StoreInv /\ [Next]_vars => StoreInv'
  BY StoreStepInv, KoelAssumption
<1> QED BY <1>1, <1>2, PTL DEF Spec

\* The tables, the objects and the sessions keep their form, for any members,
\* names, versions and limits.
THEOREM StoreTypeCorrect == Spec => []TypeOK
<1>1. StoreInv => TypeOK
  BY DEF StoreInv
<1> QED BY <1>1, StoreSafe, PTL

\* Every row has its object at every instant a process may die, and only a death
\* leaves an object without a row (store.py:258): at most one for each.
THEOREM RowsHaveBlobs == Spec => []BlobsMatchRows
<1>1. StoreInv => BlobsMatchRows
  BY DEF StoreInv
<1> QED BY <1>1, StoreSafe, PTL

\* No minute holds more additions of a person than the limit, and no race for the
\* last place overfills the flock (store.py:185, 219), for any limits and crashes.
THEOREM LimitsHold == Spec => []WithinLimits
<1>1. StoreInv => WithinLimits
  BY DEF StoreInv, WithinLimits
<1> QED BY <1>1, StoreSafe, PTL

\* A name that was given is never given again (store.py:230), whatever names
\* people choose: also names the host would have given.
THEOREM NamesGivenOnce == Spec => []NamesOnce
<1>1. StoreInv => NamesOnce
  BY DEF StoreInv
<1> QED BY <1>1, StoreSafe, PTL

\* Seen from its rows the host is the register (store.py:204-267): each addition
\* takes a new name, in the lineage of what was sent, with a higher number than that
\* lineage had, whatever crashes or fails between the choice of the name and the
\* commit of the row.
THEOREM HostKeepsRegister == Spec => Stored!Spec
<1> DEFINE Inv == StoreInv /\ NewFits
<1>1. Init => Inv /\ Stored!Init
  <2>1. Init => NewFits /\ Stored!Init
    BY DEF Init, NewFits, Stored!Init
  <2> QED BY <2>1, StoreInit, KoelAssumption
<1>2. Inv /\ [Next]_vars => Inv' /\ [Stored!Next]_additions
  <2>1. StoreInv /\ [Next]_vars => StoreInv'
    BY StoreStepInv, KoelAssumption
  <2>2. Inv /\ [Next]_vars => NewFits' /\ [Stored!Next]_additions
    BY FitsStep, KoelAssumption DEF StoreInv
  <2> QED BY <2>1, <2>2
<1> HIDE DEF Inv
<1> QED BY <1>1, <1>2, PTL DEF Spec, Stored!Spec

\* The primary keys of the tables files and additions (store.py:53-56).
Keyed == \A a, b \in additions :
    \/ a.path = b.path
    \/ a.by = b.by /\ a.source = b.source /\ a.request = b.request
    => a = b

\* No row that put() inserts meets another under its key, whatever names people
\* choose: the register alone implies it.
THEOREM KeysKept == Spec => []Keyed
<1>1. Stored!Init => Keyed
  BY DEF Stored!Init, Keyed
<1>2. Keyed /\ [Stored!Next]_additions => Keyed'
  BY DEF Keyed, Stored!Next, Stored!Enter, Stored!Lineage
<1>3. Stored!Spec => []Keyed
  BY <1>1, <1>2, PTL DEF Stored!Spec
<1> QED BY <1>3, HostKeepsRegister

\* A row is filed under the name it was sent to, or under the source of the file that
\* had been given that name.
Traced == \A a \in additions :
    \/ a.source = a.request[1]
    \/ \E c \in additions : c.path = a.request[1] /\ c.source = a.source

LEMMA SourceOf == ASSUME NEW T, NEW path
                  PROVE  \/ Source(T, path) = path
                         \/ \E c \in T : c.path = path /\ c.source = Source(T, path)
BY DEF Source

LEMMA TracedStep == ASSUME Traced, [Stored!Next]_additions PROVE Traced'
<1>1. CASE Stored!Next
  <2>1. PICK row \in additions' : Stored!Enter(row)
    BY <1>1 DEF Stored!Next
  <2>2. additions' = additions \cup {row} /\ row.source = Source(additions, row.request[1])
    BY <2>1 DEF Stored!Enter, Stored!Source, Source
  <2>3. \/ row.source = row.request[1]
        \/ \E c \in additions : c.path = row.request[1] /\ c.source = row.source
    BY <2>2, SourceOf
  <2> QED BY <2>2, <2>3 DEF Traced
<1>2. CASE UNCHANGED additions
  BY <1>2 DEF Traced
<1> QED BY <1>1, <1>2

\* A request that was served is served again only if its name was given to another
\* file in between (store.py:212-217), whatever names people choose, whatever crashes,
\* and however often the request is sent.
THEOREM RequestsServedOnce == Spec => []ServedOnce
<1>1. Stored!Init => Traced
  BY DEF Stored!Init, Traced
<1>2. Traced /\ [Stored!Next]_additions => Traced'
  BY TracedStep
<1>3. Stored!Spec => []Traced
  BY <1>1, <1>2, PTL DEF Stored!Spec
<1>4. Keyed /\ Traced => ServedOnce
  <2> SUFFICES ASSUME Keyed, Traced, NEW a \in additions, NEW b \in additions,
                      a.by = b.by, a.request = b.request, a # b
               PROVE  /\ a.request[1] \in {c.path : c \in additions}
                      /\ a.request[1] \in {a.source, b.source}
    BY DEF ServedOnce
  <2>1. a.source # b.source
    BY DEF Keyed
  <2>2. \A c, d \in additions : c.path = d.path => c.source = d.source
    BY DEF Keyed
  <2> QED BY <2>1, <2>2 DEF Traced
<1> QED BY <1>3, <1>4, KeysKept, HostKeepsRegister, PTL

-----------------------------------------------------------------------------
(* A member's folder (KoelMirror). *)

\* Every file of the folder, every addition and every operation under way has a
\* content, and what keep_both() goes on to replace is an offer.
Filled ==
    /\ \A p \in DOMAIN local : local[p] # None
    /\ \A a \in shared : a.request[3] # None
    /\ worker = [at |-> worker.at, path |-> worker.path, content |-> worker.content,
                 expected |-> worker.expected, offer |-> worker.offer, held |-> worker.held]
    /\ worker.offer \subseteq shared
    /\ worker.at # "idle" => worker.content # None
    /\ worker.at = "replace" => worker.offer # {}
    /\ worker.at = "restore" => worker.held # None

MirrorInv == Filled /\ NothingLost

LEMMA Vacant == ASSUME Filled, NEW p PROVE Mirror!In(p) = None <=> p \notin DOMAIN local
BY DEF Filled, Mirror!In

\* A file that is put under a vacant name takes nothing away.
LEMMA PutVacant == ASSUME Filled, NEW p, p \notin DOMAIN local, NEW c, c # None, local' = Mirror!Put(p, c)
                   PROVE  /\ \A q \in DOMAIN local' : local'[q] # None
                          /\ Mirror!Held' = Mirror!Held \cup {c}
<1>1. /\ DOMAIN local' = DOMAIN local \cup {p} /\ local'[p] = c
      /\ \A q \in DOMAIN local : local'[q] = local[q]
  BY DEF Mirror!Put
<1> QED BY <1>1 DEF Filled, Mirror!Held

LEMMA LinkKeeps == ASSUME Filled, NEW p, NEW c, c # None, local' = Mirror!Link(p, c)
                   PROVE  /\ \A q \in DOMAIN local' : local'[q] # None
                          /\ Mirror!Held \subseteq Mirror!Held'
<1>1. CASE p \in DOMAIN local
  BY <1>1 DEF Mirror!Link, Filled, Mirror!Held
<1>2. CASE p \notin DOMAIN local
  BY <1>2, PutVacant DEF Mirror!Link
<1> QED BY <1>1, <1>2

LEMMA WithoutHeld == ASSUME Filled, NEW p, local' = Mirror!Without(p)
                     PROVE  /\ \A q \in DOMAIN local' : local'[q] # None
                            /\ Mirror!Held \subseteq Mirror!Held' \cup ({Mirror!In(p)} \ {None})
<1>1. DOMAIN local' = DOMAIN local \ {p} /\ \A q \in DOMAIN local' : local'[q] = local[q]
  BY DEF Mirror!Without
<1> QED BY <1>1 DEF Filled, Mirror!Held, Mirror!In

LEMMA AddFilled == ASSUME Filled, NEW by, NEW p, NEW e, NEW c, c # None, Mirror!Add(by, p, e, c)
                   PROVE  shared \subseteq shared' /\ \A a \in shared' : a.request[3] # None
BY DEF Filled, Mirror!Add, Mirror!Row, Mirror!Request

LEMMA IdleFilled == Mirror!Idle = [at |-> "idle", path |-> << >>, content |-> None,
                                  expected |-> None, offer |-> {}, held |-> None]
BY DEF Mirror!Idle, Mirror!Step

LEMMA MirrorInit == Mirror!MirrorAssumption /\ Mirror!Init => MirrorInv
BY IdleFilled DEF Mirror!Init, MirrorInv, Filled, NothingLost, Mirror!NothingLost

LEMMA EditInv == ASSUME Mirror!MirrorAssumption, MirrorInv, NEW p, NEW c \in Mine, Mirror!Edit(p, c)
                 PROVE  MirrorInv'
<1>1. /\ DOMAIN local' = DOMAIN local \cup {p} /\ local'[p] = c
      /\ \A q \in DOMAIN local \ {p} : local'[q] = local[q]
  BY DEF Mirror!Edit, Mirror!Put
<1>2. c # None
  BY DEF Mirror!MirrorAssumption
<1>3. Filled'
  BY <1>1, <1>2 DEF Mirror!Edit, MirrorInv, Filled
<1>4. NothingLost'
  BY <1>1 DEF Mirror!Edit, MirrorInv, NothingLost, Mirror!NothingLost, Mirror!Held, Mirror!In
<1> QED BY <1>3, <1>4 DEF MirrorInv

LEMMA RemoveInv == ASSUME MirrorInv, NEW p, Mirror!Remove(p) PROVE MirrorInv'
<1>1. DOMAIN local' = DOMAIN local \ {p} /\ \A q \in DOMAIN local' : local'[q] = local[q]
  BY DEF Mirror!Remove, Mirror!Without
<1> QED BY <1>1 DEF Mirror!Remove, MirrorInv, Filled, NothingLost, Mirror!NothingLost, Mirror!Held

\* Steps that leave the folder, its backups and the editor's files alone.
LEMMA FolderKept == ASSUME MirrorInv, UNCHANGED <<local, backups, kept>> PROVE NothingLost'
BY DEF MirrorInv, NothingLost, Mirror!NothingLost, Mirror!Held

LEMMA IdleInv == ASSUME MirrorInv, UNCHANGED <<local, backups, kept, shared>>, worker' = Mirror!Idle
                 PROVE  MirrorInv'
BY FolderKept, IdleFilled DEF MirrorInv, Filled

LEMMA SendInv == ASSUME MirrorInv, NEW p, Mirror!Send(p) PROVE MirrorInv'
BY FolderKept DEF Mirror!Send, Mirror!Changed, Mirror!Step, MirrorInv, Filled

LEMMA KeepBothInv == ASSUME MirrorInv, NEW offer \in shared, Mirror!KeepBoth(offer) PROVE MirrorInv'
<1> DEFINE copy == Mirror!Assigned(offer.path, x, 0)
<1> HIDE DEF copy
<1>1. /\ Mirror!In(copy) = None /\ Mirror!In(offer.path) # None
      /\ local' = Mirror!Put(copy, Mirror!In(offer.path))
      /\ worker' = [Mirror!Step("sent", copy, Mirror!In(offer.path), Mirror!Known(copy).version)
                       EXCEPT !.offer = {offer}]
      /\ UNCHANGED <<backups, kept, shared>>
  BY DEF Mirror!KeepBoth, copy
<1>2. (\A q \in DOMAIN local' : local'[q] # None) /\ Mirror!Held \subseteq Mirror!Held'
  BY <1>1, Vacant, PutVacant DEF MirrorInv
<1>3. Filled'
  BY <1>1, <1>2 DEF MirrorInv, Filled, Mirror!Step
<1>4. NothingLost'
  BY <1>1, <1>2 DEF MirrorInv, NothingLost, Mirror!NothingLost
<1> QED BY <1>3, <1>4 DEF MirrorInv

LEMMA ServeInv == ASSUME MirrorInv, Mirror!Serve PROVE MirrorInv'
<1>1. shared \subseteq shared' /\ \A a \in shared' : a.request[3] # None
  <2>1. CASE Mirror!Receipts = {}
    BY <2>1, AddFilled DEF Mirror!Serve, MirrorInv, Filled
  <2>2. CASE Mirror!Receipts # {}
    BY <2>2 DEF Mirror!Serve, MirrorInv, Filled
  <2> QED BY <2>1, <2>2
<1>2. \E held : worker' = [worker EXCEPT !.at = "served", !.held = held]
  BY DEF Mirror!Serve
<1> QED BY <1>1, <1>2, FolderKept DEF Mirror!Serve, MirrorInv, Filled

LEMMA InstallInv == ASSUME MirrorInv, Mirror!Install PROVE MirrorInv'
<1>1. (\A q \in DOMAIN local' : local'[q] # None) /\ Mirror!Held \subseteq Mirror!Held'
  BY LinkKeeps DEF Mirror!Install, MirrorInv, Filled
<1>2. NothingLost'
  BY <1>1 DEF Mirror!Install, MirrorInv, NothingLost, Mirror!NothingLost
<1>3. CASE worker.offer = {}
  BY <1>1, <1>2, <1>3, IdleFilled DEF Mirror!Install, Mirror!Onward, MirrorInv, Filled
<1>4. CASE worker.offer # {}
  <2>1. \E p, e : worker' = [worker EXCEPT !.at = "replace", !.path = p, !.expected = e]
    BY <1>4, Zenon DEF Mirror!Install, Mirror!Onward
  <2> QED BY <1>1, <1>2, <1>4, <2>1 DEF Mirror!Install, MirrorInv, Filled
<1> QED BY <1>3, <1>4

LEMMA ReceiveInv == ASSUME MirrorInv, NEW offer \in shared, Mirror!Receive(offer) PROVE MirrorInv'
BY FolderKept DEF Mirror!Receive, Mirror!Step, MirrorInv, Filled

LEMMA RecheckInv == ASSUME MirrorInv, Mirror!Recheck PROVE MirrorInv'
<1>1. CASE worker' = Mirror!Idle
  BY <1>1, IdleInv DEF Mirror!Recheck
<1>2. CASE \E where \in {"place", "backup"} : worker' = [worker EXCEPT !.at = where]
  BY <1>2, FolderKept DEF Mirror!Recheck, MirrorInv, Filled
<1> QED BY <1>1, <1>2 DEF Mirror!Recheck

LEMMA BackupInv == ASSUME MirrorInv, Mirror!Backup PROVE MirrorInv'
<1>1. /\ \A q \in DOMAIN local' : local'[q] # None
      /\ Mirror!Held \subseteq Mirror!Held' \cup ({Mirror!In(worker.path)} \ {None})
  BY WithoutHeld DEF Mirror!Backup, MirrorInv
<1>2. NothingLost'
  BY <1>1 DEF Mirror!Backup, MirrorInv, NothingLost, Mirror!NothingLost
<1>3. shared' = shared
  BY DEF Mirror!Backup
<1>4. CASE worker' = Mirror!Idle
  BY <1>1, <1>2, <1>3, <1>4, IdleFilled DEF MirrorInv, Filled
<1>5. CASE worker' = [worker EXCEPT !.at = "restore", !.held = Mirror!In(worker.path)] /\ Mirror!In(worker.path) # None
  BY <1>1, <1>2, <1>3, <1>5 DEF Mirror!Backup, MirrorInv, Filled
<1>6. CASE worker' = Mirror!Moved
  <2>1. CASE worker.at = "replace"
    <3>1. (CHOOSE o \in worker.offer : TRUE) \in shared
      BY <2>1 DEF MirrorInv, Filled
    <3> QED BY <1>1, <1>2, <1>3, <1>6, <2>1, <3>1 DEF Mirror!Moved, Mirror!Step, MirrorInv, Filled
  <2>2. CASE worker.at # "replace"
    BY <1>1, <1>2, <1>3, <1>6, <2>2 DEF Mirror!Backup, Mirror!Moved, MirrorInv, Filled
  <2> QED BY <2>1, <2>2
<1> QED BY <1>4, <1>5, <1>6 DEF Mirror!Backup

LEMMA RestoreInv == ASSUME MirrorInv, Mirror!Restore PROVE MirrorInv'
<1>1. CASE Mirror!In(worker.path) = None
  <2>1. /\ local' = Mirror!Put(worker.path, worker.held) /\ backups' = backups \ {worker.held}
        /\ UNCHANGED <<kept, shared>> /\ worker' = Mirror!Idle /\ worker.held # None
    BY <1>1 DEF Mirror!Restore, MirrorInv, Filled
  <2>2. (\A q \in DOMAIN local' : local'[q] # None) /\ Mirror!Held' = Mirror!Held \cup {worker.held}
    BY <1>1, <2>1, Vacant, PutVacant DEF MirrorInv
  <2>3. NothingLost'
    BY <2>1, <2>2 DEF MirrorInv, NothingLost, Mirror!NothingLost
  <2> QED BY <2>1, <2>2, <2>3, IdleFilled DEF MirrorInv, Filled
<1>2. CASE Mirror!In(worker.path) # None
  BY <1>2, IdleInv DEF Mirror!Restore
<1> QED BY <1>1, <1>2

LEMMA PlaceInv == ASSUME MirrorInv, Mirror!Place PROVE MirrorInv'
<1>1. (\A q \in DOMAIN local' : local'[q] # None) /\ Mirror!Held \subseteq Mirror!Held'
  BY LinkKeeps DEF Mirror!Place, MirrorInv, Filled
<1>2. NothingLost'
  BY <1>1 DEF Mirror!Place, MirrorInv, NothingLost, Mirror!NothingLost
<1> QED BY <1>1, <1>2, IdleFilled DEF Mirror!Place, MirrorInv, Filled

LEMMA OtherAddsInv == ASSUME Mirror!MirrorAssumption, MirrorInv, NEW p, NEW c \in Mine \cup Others,
                             Mirror!OtherAdds(p, c)
                      PROVE  MirrorInv'
<1>1. shared \subseteq shared' /\ \A a \in shared' : a.request[3] # None
  BY AddFilled DEF Mirror!OtherAdds, Mirror!MirrorAssumption, MirrorInv
<1> QED BY <1>1, FolderKept DEF Mirror!OtherAdds, MirrorInv, Filled

LEMMA MirrorStep == ASSUME Mirror!MirrorAssumption, MirrorInv, Mirror!Next PROVE MirrorInv'
<1>1. ASSUME NEW p, Mirror!Send(p) PROVE MirrorInv'
  BY <1>1, SendInv
<1>2. CASE Mirror!Serve \/ Mirror!Install \/ Mirror!Recheck \/ Mirror!Backup \/ Mirror!Restore \/ Mirror!Place
  BY <1>2, ServeInv, InstallInv, RecheckInv, BackupInv, RestoreInv, PlaceInv
<1>3. CASE Mirror!Refuse \/ Mirror!Lose \/ Mirror!Rejoin
  BY <1>3, IdleInv DEF Mirror!Refuse, Mirror!Lose, Mirror!Rejoin
<1>4. ASSUME NEW p, NEW c \in Mine, Mirror!Edit(p, c) PROVE MirrorInv'
  BY <1>4, EditInv
<1>5. ASSUME NEW p, Mirror!Remove(p) PROVE MirrorInv'
  BY <1>5, RemoveInv
<1>6. ASSUME NEW p, NEW c \in Mine \cup Others, Mirror!OtherAdds(p, c) PROVE MirrorInv'
  BY <1>6, OtherAddsInv
<1>7. ASSUME NEW offer \in shared, Mirror!Receive(offer) \/ Mirror!KeepBoth(offer) PROVE MirrorInv'
  BY <1>7, ReceiveInv, KeepBothInv
<1> QED BY <1>1, <1>2, <1>3, <1>4, <1>5, <1>6, <1>7 DEF Mirror!Next, Mirror!Pass

\* Whatever the member wrote and did not replace or remove is in the folder or in
\* its backups (sync.py:112-169, 189-197), for any names and contents, edits during
\* any step, lost answers and rejoins.
THEOREM NothingIsLost == Mirror!Spec => []NothingLost
<1>1. Mirror!Init => MirrorInv
  BY MirrorInit, SceneAssumption
<1>2. MirrorInv /\ [Mirror!Next]_Mirror!vars => MirrorInv'
  <2>1. ASSUME MirrorInv, UNCHANGED Mirror!vars PROVE MirrorInv'
    BY <2>1 DEF Mirror!vars, MirrorInv, Filled, NothingLost, Mirror!NothingLost, Mirror!Held
  <2> QED BY <2>1, MirrorStep, SceneAssumption
<1>3. MirrorInv => NothingLost
  BY DEF MirrorInv
<1> QED BY <1>1, <1>2, <1>3, PTL DEF Mirror!Spec

(* The additions a member sees. *)

\* Files, the operation under way and what the host said of it have names, and a
\* name and a number can be drawn from the additions.
Named == /\ Registered(shared)
         /\ DOMAIN local \subseteq Name /\ worker.path \in Name
         /\ worker.at = "served" => worker.held \in Name

SeenInv == MirrorInv /\ Named

LEMMA Same == ASSUME NEW T, NEW by, NEW p, NEW n, NEW e, NEW c, NEW v
              PROVE  /\ Mirror!Assigned(p, by, n) = Assigned(p, by, n)
                     /\ Seen!Assigned(p, by, n) = Assigned(p, by, n)
                     /\ Mirror!Source(T, p) = Source(T, p) /\ Seen!Source(T, p) = Source(T, p)
                     /\ Mirror!Number(T, by, p) = Number(T, by, p)
                     /\ Mirror!Prior(T, by, p, e, c) = Prior(T, by, p, e, c)
                     /\ Mirror!Row(T, by, p, e, c, v) = Row(T, by, p, e, c, v)
<1>1. Mirror!Assigned(p, by, n) = Assigned(p, by, n) /\ Seen!Assigned(p, by, n) = Assigned(p, by, n)
  BY DEF Mirror!Assigned, Seen!Assigned, Assigned
<1>2. Mirror!Source(T, p) = Source(T, p) /\ Seen!Source(T, p) = Source(T, p)
  BY DEF Mirror!Source, Seen!Source, Source
<1>3. \A q : Mirror!Number(T, by, q) = Number(T, by, q)
  <2>1. \A S : Mirror!Max(S) = Max(S) /\ Mirror!Min(S) = Min(S)
    BY Zenon DEF Mirror!Max, Max, Mirror!Min, Min
  <2>2. \A q, m : Mirror!Assigned(q, by, m) = Assigned(q, by, m)
    BY DEF Mirror!Assigned, Assigned
  <2>3. \A S : Mirror!Cardinality(S) = Cardinality(S)
    BY DEF Mirror!Cardinality, Cardinality
  <2> TAKE q
  <2> DEFINE old == {a.number : a \in {b \in T : b.by = by /\ b.source = q}} \cup {0}
             taken == {a.path : a \in T}
             theirs == {k \in Mirror!Max(old) + 1 .. Mirror!Max(old) + 1 + Cardinality(taken) :
                           Mirror!Assigned(q, by, k) \notin taken}
             ours == {k \in Max(old) + 1 .. Max(old) + 1 + Cardinality(taken) :
                           Assigned(q, by, k) \notin taken}
  <2>4. Mirror!Number(T, by, q) = Mirror!Min(theirs) /\ Number(T, by, q) = Min(ours)
    BY <2>3 DEF Mirror!Number, Number
  <2>5. Mirror!Max(old) = Max(old)
    BY <2>1
  <2>6. theirs = ours
    <3> HIDE DEF old, taken
    <3> QED BY <2>2, <2>5
  <2> HIDE DEF theirs, ours
  <2> QED BY <2>1, <2>4, <2>6
<1>4. Mirror!Prior(T, by, p, e, c) = Prior(T, by, p, e, c)
  BY <1>2 DEF Mirror!Prior, Prior, Mirror!Request, Request
<1>5. Mirror!Row(T, by, p, e, c, v) = Row(T, by, p, e, c, v)
  BY <1>2, <1>3 DEF Mirror!Row, Row, Mirror!Request, Request, Mirror!Assigned, Assigned
<1> QED BY <1>1, <1>2, <1>3, <1>4, <1>5

\* A new addition of either member is an entry of the register.
LEMMA AddEnters ==
    ASSUME Registered(shared), NEW by \in Person, NEW p \in Name, NEW e, NEW c,
           Prior(shared, by, p, e, c) = {}, Mirror!Add(by, p, e, c)
    PROVE  /\ Registered(shared') /\ Seen!Next
           /\ \A a \in shared' \ shared : a.path \in Name
<1> DEFINE version == Assigned(Source(shared, p), by, Number(shared, by, Source(shared, p)))
           row == Row(shared, by, p, e, c, version)
<1>1. shared' = shared \cup {row}
  BY Same DEF Mirror!Add
<1>2. Fits(shared, row)
  BY RowFits
<1>3. row.source \in Name /\ row.number \in Nat /\ row.path \in Name
  <2>1. Source(shared, p) \in Name
    BY DEF Source, Registered
  <2> QED BY <2>1, NumberFree, AssignedName DEF Row
<1> HIDE DEF row
<1>4. Registered(shared')
  BY <1>1, <1>3, FS_AddElement DEF Registered
<1>5. Seen!Enter(row)
  <2>1. Seen!Assigned(row.source, row.by, row.number) = Assigned(row.source, row.by, row.number)
    BY Same
  <2>2. Seen!Source(shared, row.request[1]) = Source(shared, row.request[1])
    BY Same
  <2> QED BY <1>1, <1>2, <2>1, <2>2 DEF Seen!Enter, Seen!Lineage, Fits
<1> QED BY <1>1, <1>3, <1>4, <1>5 DEF Seen!Next

\* Steps that move files and the operation under way among names.
LEMMA NamedStays ==
    ASSUME Named, shared' = shared, NEW p \in Name, DOMAIN local' \subseteq DOMAIN local \cup {p},
           worker'.path \in Name, worker'.at # "served"
    PROVE  Named' /\ [Seen!Next]_shared
BY DEF Named, Registered

LEMMA IdleNamed == worker' = Mirror!Idle => worker'.path \in Name /\ worker'.at # "served"
BY IdleFilled DEF Name

LEMMA PutNames == ASSUME NEW p, NEW c
                  PROVE  /\ DOMAIN Mirror!Put(p, c) \subseteq DOMAIN local \cup {p}
                         /\ DOMAIN Mirror!Link(p, c) \subseteq DOMAIN local \cup {p}
BY DEF Mirror!Put, Mirror!Link

LEMMA ServeSeen == ASSUME {x, y} \subseteq Person, SeenInv, Mirror!Serve PROVE Named' /\ [Seen!Next]_shared
<1>1. worker.path \in Name /\ Registered(shared) /\ local' = local
  BY DEF SeenInv, Named, Mirror!Serve
<1>2. Mirror!Receipts = Prior(shared, x, worker.path, worker.expected, worker.content)
  BY Same DEF Mirror!Receipts
<1>3. \E a : worker' = [worker EXCEPT !.at = "served", !.held = a.path]
             /\ a \in IF Mirror!Receipts = {} THEN shared' \ shared ELSE Mirror!Receipts
  BY DEF Mirror!Serve
<1>4. ASSUME Registered(shared'),
             \A a \in IF Mirror!Receipts = {} THEN shared' \ shared ELSE Mirror!Receipts : a.path \in Name
      PROVE  Named'
  <2>1. worker'.path = worker.path /\ worker'.held \in Name
    BY <1>3, <1>4 DEF SeenInv, MirrorInv, Filled
  <2>2. DOMAIN local \subseteq Name
    BY DEF SeenInv, Named
  <2> QED BY <1>1, <1>4, <2>1, <2>2 DEF Named
<1>5. CASE Mirror!Receipts = {}
  <2>1. Mirror!Add(x, worker.path, worker.expected, worker.content)
    BY <1>5 DEF Mirror!Serve
  <2>2. Registered(shared') /\ Seen!Next /\ \A a \in shared' \ shared : a.path \in Name
    BY <1>1, <1>2, <1>5, <2>1, AddEnters
  <2> QED BY <1>4, <1>5, <2>2
<1>6. CASE Mirror!Receipts # {}
  <2>1. shared' = shared
    BY <1>6 DEF Mirror!Serve
  <2>2. \A a \in Mirror!Receipts : a.path \in Name
    BY <1>1, <1>2 DEF Prior, Registered
  <2>3. Registered(shared')
    BY <1>1, <2>1
  <2> QED BY <1>4, <1>6, <2>1, <2>2, <2>3
<1> QED BY <1>5, <1>6

LEMMA OtherAddsSeen ==
    ASSUME {x, y} \subseteq Person, MineNames \subseteq Name, SeenInv,
           NEW p \in MineNames, NEW c, Mirror!OtherAdds(p, c)
    PROVE  Named' /\ [Seen!Next]_shared
<1>1. \A a \in shared : a.request # <<p, None, c>>
  BY DEF Mirror!OtherAdds, Mirror!Written
<1>2. Prior(shared, y, p, None, c) = {}
  BY <1>1 DEF Prior, Request
<1>3. Mirror!Add(y, p, None, c) /\ UNCHANGED <<local, worker>>
  BY DEF Mirror!OtherAdds
<1>4. Registered(shared') /\ Seen!Next
  BY <1>2, <1>3, AddEnters DEF SeenInv, Named
<1> QED BY <1>3, <1>4 DEF SeenInv, Named

LEMMA SeenStep == ASSUME {x, y} \subseteq Person, MineNames \subseteq Name, SeenInv, Mirror!Next
                  PROVE  Named' /\ [Seen!Next]_shared
<1> USE DEF SeenInv
<1>0. worker.path \in Name /\ DOMAIN local \subseteq Name /\ <<>> \in Name
  BY DEF Named, Name
<1>1. ASSUME NEW p \in DOMAIN local, Mirror!Send(p) PROVE Named' /\ [Seen!Next]_shared
  BY <1>0, <1>1, NamedStays DEF Mirror!Send, Mirror!Step
<1>2. CASE Mirror!Serve
  BY <1>2, ServeSeen
<1>3. CASE Mirror!Refuse \/ Mirror!Lose \/ Mirror!Rejoin
  BY <1>0, <1>3, NamedStays, IdleNamed DEF Mirror!Refuse, Mirror!Lose, Mirror!Rejoin
<1>4. CASE Mirror!Install
  <2>1. worker.held \in Name /\ local' = Mirror!Link(worker.held, worker.content) /\ shared' = shared
        /\ worker' = Mirror!Onward
    BY <1>4 DEF Mirror!Install, Named
  <2>2. CASE worker.offer = {}
    BY <2>1, <2>2, NamedStays, IdleNamed, PutNames DEF Mirror!Onward
  <2>3. CASE worker.offer # {}
    <3> DEFINE offer == CHOOSE o \in worker.offer : TRUE
    <3>1. offer \in shared /\ offer.path \in Name
      BY <2>3 DEF MirrorInv, Filled, Named, Registered
    <3>2. worker' = [worker EXCEPT !.at = "replace", !.path = offer.path, !.expected = offer.version]
      BY <2>1, <2>3 DEF Mirror!Onward
    <3>3. worker'.path = offer.path /\ worker'.at = "replace"
      BY <3>2 DEF MirrorInv, Filled
    <3> QED BY <2>1, <3>1, <3>3, NamedStays, PutNames
  <2> QED BY <2>2, <2>3
<1>5. CASE Mirror!Recheck
  <2>1. worker'.path \in Name /\ worker'.at # "served"
    BY <1>0, <1>5, IdleNamed DEF Mirror!Recheck, MirrorInv, Filled
  <2> QED BY <1>0, <1>5, <2>1, NamedStays DEF Mirror!Recheck
<1>6. CASE Mirror!Backup
  <2>1. worker'.path \in Name /\ worker'.at # "served"
    BY <1>0, <1>6, IdleNamed DEF Mirror!Backup, Mirror!Moved, Mirror!Step, MirrorInv, Filled
  <2>2. DOMAIN local' \subseteq DOMAIN local /\ shared' = shared
    BY <1>6 DEF Mirror!Backup, Mirror!Without
  <2> QED BY <1>0, <2>1, <2>2, NamedStays
<1>7. CASE Mirror!Restore \/ Mirror!Place
  <2>1. DOMAIN local' \subseteq DOMAIN local \cup {worker.path} /\ shared' = shared /\ worker' = Mirror!Idle
    BY <1>7, PutNames DEF Mirror!Restore, Mirror!Place
  <2> QED BY <1>0, <2>1, NamedStays, IdleNamed
<1>8. ASSUME NEW p \in MineNames \cup DOMAIN local, NEW c, Mirror!Edit(p, c) \/ Mirror!Remove(p)
      PROVE  Named' /\ [Seen!Next]_shared
  <2>1. DOMAIN local' \subseteq DOMAIN local \cup {p} /\ shared' = shared /\ worker' = worker
    BY <1>8, PutNames DEF Mirror!Edit, Mirror!Remove, Mirror!Without
  <2> QED BY <1>0, <2>1 DEF Named, Registered
<1>9. ASSUME NEW p \in MineNames, NEW c, Mirror!OtherAdds(p, c) PROVE Named' /\ [Seen!Next]_shared
  BY <1>9, OtherAddsSeen
<1>10. ASSUME NEW offer \in shared, Mirror!Receive(offer) PROVE Named' /\ [Seen!Next]_shared
  BY <1>0, <1>10, NamedStays DEF Mirror!Receive, Mirror!Step, Named, Registered
<1>11. ASSUME NEW offer \in shared, Mirror!KeepBoth(offer) PROVE Named' /\ [Seen!Next]_shared
  <2> DEFINE copy == Mirror!Assigned(offer.path, x, 0)
  <2>1. copy \in Name
    <3>1. offer.path \in Name /\ x \in Person /\ 0 \in Nat
      BY DEF Named, Registered
    <3>2. Assigned(offer.path, x, 0) \in Name
      BY <3>1, AssignedName
    <3> QED BY <3>2, Same
  <2> HIDE DEF copy
  <2>2. /\ local' = Mirror!Put(copy, Mirror!In(offer.path)) /\ shared' = shared
        /\ worker' = [Mirror!Step("sent", copy, Mirror!In(offer.path), Mirror!Known(copy).version)
                         EXCEPT !.offer = {offer}]
    BY <1>11 DEF Mirror!KeepBoth, copy
  <2>3. worker'.path = copy /\ worker'.at = "sent"
    BY <2>2 DEF Mirror!Step
  <2> QED BY <2>1, <2>2, <2>3, NamedStays, PutNames
<1> QED BY <1>1, <1>2, <1>3, <1>4, <1>5, <1>6, <1>7, <1>8, <1>9, <1>10, <1>11 DEF Mirror!Next, Mirror!Pass

\* The additions to which a member's folder leads are a register as well: however
\* its editor, keep_both, lost answers and rejoins interleave, a request enters a
\* lineage once and no name is given twice (store.py:215-234, sync.py:171-201).
THEOREM MemberSeesRegister == Mirror!Spec => Seen!Spec
<1>1. Mirror!Init => SeenInv /\ Seen!Init
  <2>1. Mirror!Init => Named /\ Seen!Init
    BY FS_EmptySet, IdleFilled DEF Mirror!Init, Named, Registered, Seen!Init, Name
  <2> QED BY <2>1, MirrorInit, SceneAssumption DEF SeenInv
<1>2. SeenInv /\ [Mirror!Next]_Mirror!vars => SeenInv' /\ [Seen!Next]_shared
  <2>1. ASSUME SeenInv, UNCHANGED Mirror!vars PROVE SeenInv' /\ shared' = shared
    BY <2>1 DEF Mirror!vars, SeenInv, MirrorInv, Filled, NothingLost, Mirror!NothingLost, Mirror!Held,
                Named, Registered
  <2>2. ASSUME SeenInv, Mirror!Next PROVE SeenInv' /\ [Seen!Next]_shared
    BY <2>2, MirrorStep, SeenStep, SceneAssumption DEF SeenInv
  <2> QED BY <2>1, <2>2
<1> QED BY <1>1, <1>2, PTL DEF Mirror!Spec, Seen!Spec

\* Both sides keep one contract: the store promises what the folder presumes of it.
THEOREM RegisterKept == Spec /\ Mirror!Spec => KeepsRegister
BY HostKeepsRegister, MemberSeesRegister DEF KeepsRegister
=============================================================================
