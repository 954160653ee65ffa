------------------------- MODULE CommitRefreshProofs -------------------------
(***************************************************************************)
(* What a worker keeps of autoland, for any number of commits, failures    *)
(* and restarts, whatever days they are of: the file of commits has no     *)
(* gaps but around a merge of mozilla-central, each commit counts in the   *)
(* databases as it is stored, and a refresh that gets through leaves       *)
(* nothing uncounted.                                                      *)
(*                                                                         *)
(* FileInv says where in autoland the file ends and the mining goes on,    *)
(* CountInv relates the counts to the file; the second needs the first.    *)
(***************************************************************************)
EXTENDS CommitRefresh, FiniteSetTheorems, SequenceTheorems, WellFoundedInduction, TLAPS

-------------------------------------------------------------------------------
(* The invariants                                                            *)

RowType == [node : Nodes, out : BOOLEAN]

Old(n) == [node |-> n, out |-> FALSE]

Images == {[db |-> <<Old(First)>>, last |-> First]}
            \cup {[db |-> <<Old(First), Old(Central)>>, last |-> n] : n \in {First, Central}}

\* autoland starts with First, and no commit lands twice.
Repository ==
  /\ autoland \in Seq(Nodes) /\ Len(autoland) >= 1 /\ autoland[1] = First
  /\ \A x, y \in DOMAIN autoland : autoland[x] = autoland[y] => x = y
  /\ onto \in BOOLEAN

\* The file has nothing that did not land, but for the commit of
\* mozilla-central if the image had it, and that alone more than once.
Stored ==
  /\ image \in Images
  /\ db \in Seq(RowType) /\ Len(db) >= 1 /\ db[1].node = First
  /\ \A x \in DOMAIN db : db[x].node \in Range(autoland) \cup {Central}
  /\ Mined(Central) /\ Central \notin Range(autoland) => ImageHas(Central)
  /\ \A x, y \in DOMAIN db : db[x].node = db[y].node /\ db[x].node # Central => x = y

NoGaps ==
  \A x, y \in DOMAIN autoland :
    x < y /\ Mined(autoland[y]) => Mined(autoland[x]) \/ Excused(x, y)

\* The file reaches up to a: all that landed before is mined, or passed over as
\* in FileIsWhole, and nothing behind.
Reaches(a) ==
  /\ a \in DOMAIN autoland
  /\ \A x \in 1 .. a : Mined(autoland[x]) \/ Excused(x, a)
  /\ \A y \in a + 1 .. Len(autoland) : Mined(autoland[y]) => autoland[y] = Central

\* The rows being mined are those of autoland after a.
Follow(a) ==
  /\ a + Len(revs) <= Len(autoland)
  /\ \A x \in DOMAIN revs : revs[x].node = autoland[a + x]

\* A mining goes on where the file ends; unless nothing was mined since the
\* container started, its last row tells where that is.
Continues ==
  /\ revs \in Seq(RowType) /\ pc \in {"idle", "mining", "appending", "touching", "dead"}
  /\ pc \in {"mining", "appending"} => \E a \in Nat : Reaches(a) /\ Follow(a)
  /\ db # image.db => \E a \in Nat : Reaches(a) /\ db[Len(db)].node = autoland[a]

FileInv == Repository /\ Stored /\ NoGaps /\ Continues

\* The experiences count what is stored, what is about to be, and failures.
Experienced ==
  /\ failures \in Nat /\ restarts \in Nat /\ exp \in [Nodes -> Int]
  /\ \A n \in Nodes : exp[n] - Occurrences(n) - Coming(n) \in 0 .. failures

\* The touched together database counts up to where last is in the file.
TouchedTo(e) ==
  /\ \A n \in Nodes : touched[n] <= 1
  /\ \A x \in DOMAIN db : touched[db[x].node] > 0 => x <= e
  /\ \A x \in DOMAIN db : x <= e /\ ~db[x].out => touched[db[x].node] > 0 \/ db[x].node \in halves

Together ==
  /\ touched \in [Nodes -> Nat] /\ Mined(last)
  /\ \A n \in Nodes : touched[n] > 0 => Mined(n)
  /\ ~CentralTwice => TouchedTo(FirstAt(db, last))
  /\ pc = "touching" => revs # <<>> /\ EndRevision = db[Len(db)].node

CountInv == FileInv /\ Experienced /\ Together

-------------------------------------------------------------------------------
(* Numbers and counts                                                        *)

LEMMA MinExists ==
  ASSUME NEW S \in SUBSET Int, IsFiniteSet(S), S # {}
  PROVE  Min(S) \in S /\ \A y \in S : Min(S) <= y
<1>1. PICK side : side = [x \in S |-> {y \in S : y <= x}]
  OBVIOUS
<1>2. PICK T : T = {side[x] : x \in S}
  OBVIOUS
<1>3. T \subseteq SUBSET S /\ T # {}
  BY <1>1, <1>2
<1>4. IsWellFoundedOn(StrictSubsetOrdering(S), SUBSET S)
  BY FS_StrictSubsetOrderingWellFounded, FS_FiniteSubsetsOfFinite
<1>5. PICK t \in T : \A u \in T : <<u, t>> \notin StrictSubsetOrdering(S)
  BY <1>3, <1>4, WFMin
<1>6. PICK x \in S : t = side[x]
  BY <1>2, <1>5
<1>7. ASSUME NEW y \in S PROVE x <= y
  <2>1. SUFFICES ASSUME y < x PROVE FALSE
    OBVIOUS
  <2>2. side[y] \subseteq side[x] /\ x \in side[x] /\ x \notin side[y]
    <3>1. side[y] = {z \in S : z <= y} /\ side[x] = {z \in S : z <= x} /\ x \in Int /\ y \in Int
      BY <1>1
    <3>2. \A z \in S : z <= y => z <= x
      BY <2>1, <3>1
    <3>3. x <= x /\ ~(x <= y)
      BY <2>1, <3>1
    <3>4. side[y] \subseteq side[x]
      BY <3>1, <3>2
    <3>5. QED
      BY <3>1, <3>3, <3>4
  <2>3. side[y] \in T /\ side[y] \in SUBSET S /\ side[x] \in SUBSET S
    BY <1>1, <1>2
  <2>4. <<side[y], side[x]>> \in StrictSubsetOrdering(S)
    BY <2>2, <2>3 DEF StrictSubsetOrdering
  <2>5. QED
    BY <1>5, <1>6, <2>3, <2>4
<1>8. QED
  BY <1>7 DEF Min

LEMMA MaxIs ==
  ASSUME NEW S \in SUBSET Int, NEW m \in S, \A y \in S : y <= m
  PROVE  Max(S) = m
<1>1. Max(S) \in S /\ \A y \in S : Max(S) >= y
  BY DEF Max
<1>2. m >= Max(S) /\ Max(S) >= m /\ m \in Int /\ Max(S) \in Int
  BY <1>1
<1>3. QED
  BY <1>2

LEMMA NodesAre == First \in Nodes /\ Central \in Nodes /\ Landings \subseteq Nodes /\ First # Central
BY RefreshAssumption DEF First, Central, Nodes, Landings

\* A set with no two elements counts at most one.
LEMMA AtMostOne ==
  ASSUME NEW S, IsFiniteSet(S), \A x, y \in S : x = y
  PROVE  Cardinality(S) \in 0 .. 1
<1>1. CASE S = {}
  BY <1>1, FS_EmptySet
<1>2. CASE S # {}
  <2>1. PICK x \in S : S = {x}
    BY <1>2
  <2>2. QED
    BY <2>1, FS_Singleton
<1>3. QED
  BY <1>1, <1>2

\* And the other way round.
LEMMA OneAtMost ==
  ASSUME NEW S, IsFiniteSet(S), Cardinality(S) <= 1, NEW x \in S, NEW y \in S
  PROVE  x = y
<1>1. SUFFICES ASSUME x # y PROVE FALSE
  OBVIOUS
<1>2. IsFiniteSet({x}) /\ Cardinality({x}) = 1
  BY FS_Singleton
<1>3. IsFiniteSet({x} \cup {y}) /\ Cardinality({x} \cup {y}) = 2
  <2>1. /\ IsFiniteSet({x} \cup {y})
        /\ Cardinality({x} \cup {y}) = IF y \in {x} THEN Cardinality({x}) ELSE Cardinality({x}) + 1
    BY <1>2, FS_AddElement
  <2>2. QED
    BY <1>1, <1>2, <2>1
<1>4. Cardinality({x} \cup {y}) <= Cardinality(S)
  BY FS_Subset
<1>5. Cardinality(S) \in Nat
  BY FS_CardinalityType
<1>6. QED
  BY <1>3, <1>4, <1>5

LEMMA RowsCount ==
  ASSUME NEW rows, NEW S, IsFiniteSet(S), NEW n
  PROVE  /\ Rows(rows, S, n) \in Nat /\ IsFiniteSet({x \in S : rows[x].node = n})
         /\ Rows(rows, S, n) > 0 <=> \E x \in S : rows[x].node = n
<1>1. IsFiniteSet({x \in S : rows[x].node = n})
  BY FS_Subset
<1>2. QED
  BY <1>1, FS_CardinalityType, FS_EmptySet DEF Rows

LEMMA RowsOnce ==
  ASSUME NEW rows, NEW S, IsFiniteSet(S), NEW n,
         \A x, y \in S : rows[x].node = n /\ rows[y].node = n => x = y
  PROVE  Rows(rows, S, n) \in 0 .. 1
<1>1. IsFiniteSet({x \in S : rows[x].node = n})
  BY RowsCount
<1>2. QED
  BY <1>1, AtMostOne DEF Rows

LEMMA IndicesFinite ==
  ASSUME NEW T, NEW rows \in Seq(T)
  PROVE  DOMAIN rows = 1 .. Len(rows) /\ Len(rows) \in Nat /\ IsFiniteSet(DOMAIN rows)
<1>1. DOMAIN rows = 1 .. Len(rows) /\ Len(rows) \in Nat
  OBVIOUS
<1>2. QED
  BY <1>1, FS_Interval

LEMMA RowsOfConcat ==
  ASSUME NEW T, NEW rows \in Seq(T), NEW more \in Seq(T), NEW n
  PROVE  Rows(rows \o more, DOMAIN (rows \o more), n)
           = Rows(rows, DOMAIN rows, n) + Rows(more, DOMAIN more, n)
<1>1. PICK A, B, C, k : /\ A = {x \in DOMAIN rows : rows[x].node = n}
                        /\ B = {x \in DOMAIN more : more[x].node = n}
                        /\ C = {k + x : x \in B} /\ k = Len(rows)
  OBVIOUS
<1>2. /\ DOMAIN rows = 1 .. k /\ k \in Nat /\ DOMAIN more = 1 .. Len(more) /\ Len(more) \in Nat
      /\ DOMAIN (rows \o more) = 1 .. k + Len(more)
      /\ \A x \in 1 .. k + Len(more) : (rows \o more)[x] = IF x <= k THEN rows[x] ELSE more[x - k]
  BY <1>1, ConcatProperties
<1>3. IsFiniteSet(A) /\ IsFiniteSet(B) /\ B \subseteq 1 .. Len(more)
  <2>1. IsFiniteSet(DOMAIN rows) /\ IsFiniteSet(DOMAIN more)
    BY IndicesFinite
  <2>2. A \in SUBSET DOMAIN rows /\ B \in SUBSET DOMAIN more
    BY <1>1
  <2>3. QED
    BY <1>2, <2>1, <2>2, FS_Subset
<1>4. IsFiniteSet(C) /\ Cardinality(C) = Cardinality(B)
  <2>1. PICK f : f = [x \in B |-> k + x]
    OBVIOUS
  <2>2. f \in Bijection(B, C)
    <3>1. \A x \in B : x \in Int /\ k \in Int
      BY <1>2, <1>3
    <3>2. \A x, y \in B : k + x = k + y => x = y
      BY <3>1
    <3>3. f \in [B -> C] /\ \A x, y \in B : f[x] = f[y] => x = y
      BY <1>1, <2>1, <3>2
    <3>4. \A z \in C : \E x \in B : f[x] = z
      BY <1>1, <2>1
    <3>5. QED
      BY <3>3, <3>4 DEF Bijection, Injection, Surjection, IsInjective
  <2>3. ExistsBijection(B, C)
    BY <2>2 DEF ExistsBijection
  <2>4. QED
    BY <1>3, <2>3, FS_Bijection
<1>5. {x \in DOMAIN (rows \o more) : (rows \o more)[x].node = n} = A \cup C
  <2>1. ASSUME NEW x \in DOMAIN (rows \o more), (rows \o more)[x].node = n PROVE x \in A \cup C
    <3>1. CASE x <= k
      BY <1>1, <1>2, <2>1, <3>1
    <3>2. CASE x > k
      <4>1. x - k \in DOMAIN more /\ more[x - k].node = n /\ x = k + (x - k)
        <5>1. x \in 1 .. k + Len(more) /\ ~(x <= k)
          BY <1>2, <2>1, <3>2
        <5>2. x - k \in 1 .. Len(more) /\ x = k + (x - k)
          BY <1>2, <5>1
        <5>3. QED
          BY <1>2, <2>1, <5>1, <5>2
      <4>2. QED
        BY <1>1, <4>1
    <3>3. QED
      BY <1>2, <3>1, <3>2
  <2>2. ASSUME NEW x \in A
        PROVE  x \in DOMAIN (rows \o more) /\ (rows \o more)[x].node = n
    BY <1>1, <1>2
  <2>3. ASSUME NEW y \in B
        PROVE  k + y \in DOMAIN (rows \o more) /\ (rows \o more)[k + y].node = n
    <3>1. y \in 1 .. Len(more) /\ more[y].node = n
      BY <1>1, <1>2
    <3>2. k + y \in 1 .. k + Len(more) /\ ~(k + y <= k) /\ (k + y) - k = y
      BY <1>2, <3>1
    <3>3. QED
      BY <1>2, <3>1, <3>2
  <2>4. QED
    BY <1>1, <2>1, <2>2, <2>3
<1>6. A \cap C = {}
  BY <1>1, <1>2, <1>3
<1>7. Cardinality(A \cup C) = Cardinality(A) + Cardinality(B)
  <2>1. Cardinality(A \cup C) = Cardinality(A) + Cardinality(C) - Cardinality(A \cap C)
    BY <1>3, <1>4, FS_Union
  <2>2. Cardinality(A) \in Nat /\ Cardinality(B) \in Nat /\ Cardinality(A \cap C) = 0
    BY <1>3, <1>6, FS_CardinalityType, FS_EmptySet
  <2>3. QED
    BY <1>4, <2>1, <2>2
<1>8. QED
  BY <1>1, <1>5, <1>7 DEF Rows

\* The first row of a commit that is there.
LEMMA FirstExists ==
  ASSUME NEW T, NEW rows \in Seq(T), NEW n, \E x \in DOMAIN rows : rows[x].node = n
  PROVE  /\ FirstAt(rows, n) \in DOMAIN rows /\ rows[FirstAt(rows, n)].node = n
         /\ \A y \in DOMAIN rows : rows[y].node = n => FirstAt(rows, n) <= y
<1>1. PICK S : S = {x \in DOMAIN rows : rows[x].node = n}
  OBVIOUS
<1>2. S \in SUBSET Int /\ S # {} /\ IsFiniteSet(S)
  <2>1. IsFiniteSet(DOMAIN rows) /\ DOMAIN rows \subseteq Int
    BY IndicesFinite
  <2>2. QED
    BY <1>1, <2>1, FS_Subset
<1>3. FirstAt(rows, n) = Min(S)
  BY <1>1, <1>2 DEF FirstAt
<1>4. QED
  BY <1>1, <1>2, <1>3, MinExists

LEMMA FirstIs ==
  ASSUME NEW T, NEW rows \in Seq(T), NEW f \in DOMAIN rows,
         \A y \in DOMAIN rows : rows[y].node = rows[f].node => f <= y
  PROVE  FirstAt(rows, rows[f].node) = f
<1>1. PICK m : m = FirstAt(rows, rows[f].node)
  OBVIOUS
<1>2. m \in DOMAIN rows /\ rows[m].node = rows[f].node /\ m <= f
  BY <1>1, FirstExists
<1>3. QED
  BY <1>1, <1>2

-------------------------------------------------------------------------------
(* The file                                                                  *)

LEMMA FileTypes ==
  ASSUME Repository, Stored
  PROVE  /\ DOMAIN autoland = 1 .. Len(autoland) /\ Len(autoland) \in Nat /\ 1 \in DOMAIN autoland
         /\ DOMAIN db = 1 .. Len(db) /\ Len(db) \in Nat /\ 1 \in DOMAIN db /\ Len(db) \in DOMAIN db
         /\ Mined(First)
<1>1. /\ DOMAIN autoland = 1 .. Len(autoland) /\ Len(autoland) \in Nat
      /\ DOMAIN db = 1 .. Len(db) /\ Len(db) \in Nat
  BY DEF Repository, Stored
<1>2. 1 \in DOMAIN autoland /\ 1 \in DOMAIN db /\ Len(db) \in DOMAIN db
  BY <1>1 DEF Repository, Stored
<1>3. QED
  BY <1>1, <1>2 DEF Stored, Mined

\* What is passed over up to y stays so farther on.
LEMMA ExcusedFarther ==
  ASSUME NEW x \in Int, NEW y \in Int, NEW z \in Int, y <= z, Excused(x, y)
  PROVE  Excused(x, z)
<1>1. x + 1 .. y \subseteq x + 1 .. z
  OBVIOUS
<1>2. QED
  BY <1>1 DEF Excused

LEMMA ExcusedStays ==
  ASSUME UNCHANGED <<autoland, onto, image>>
  PROVE  \A x, y : Excused(x, y)' <=> Excused(x, y)
BY DEF Excused, ImageHas

\* What the databases of an image are.
LEMMA OfImage ==
  ASSUME NEW im \in Images
  PROVE  /\ im.db \in Seq(RowType) /\ im.last \in Nodes
         /\ \/ im.db = <<Old(First)>> /\ im.last = First
            \/ im.db = <<Old(First), Old(Central)>>
         /\ \E x \in DOMAIN im.db : im.db[x].node = im.last
         /\ \A x, y \in DOMAIN im.db : im.db[x].node = im.db[y].node => x = y
<1>1. Old(First) \in RowType /\ Old(Central) \in RowType
  BY NodesAre DEF Old, RowType
<1>2. CASE im = [db |-> <<Old(First)>>, last |-> First]
  <2>1. im.db = <<Old(First)>> /\ im.last = First
    BY <1>2
  <2>2. DOMAIN im.db = {1} /\ im.db[1].node = First
    BY <2>1 DEF Old
  <2>3. im.db \in Seq(RowType)
    BY <1>1, <2>1
  <2>4. QED
    BY <2>1, <2>2, <2>3, NodesAre
<1>3. ASSUME NEW n \in {First, Central},
             im = [db |-> <<Old(First), Old(Central)>>, last |-> n]
      PROVE  /\ im.db \in Seq(RowType) /\ im.last \in Nodes
             /\ im.db = <<Old(First), Old(Central)>>
             /\ \E x \in DOMAIN im.db : im.db[x].node = im.last
             /\ \A x, y \in DOMAIN im.db : im.db[x].node = im.db[y].node => x = y
  <2>1. DOMAIN im.db = {1, 2} /\ im.db[1].node = First /\ im.db[2].node = Central
    BY <1>3 DEF Old
  <2>2. im.db = <<Old(First), Old(Central)>> /\ im.last = n
    BY <1>3
  <2>3. im.db \in Seq(RowType)
    BY <1>1, <2>2
  <2>4. QED
    BY <2>1, <2>2, <2>3, NodesAre
<1>4. QED
  BY <1>2, <1>3 DEF Images

\* The file is the image's: only First and Central are mined.
LEMMA ImageStored ==
  ASSUME Repository, image \in Images, db = image.db
  PROVE  /\ Stored /\ NoGaps
         /\ \A n : Mined(n) => n \in {First, Central} /\ ImageHas(n)
<1>1. \/ db = <<Old(First)>> \/ db = <<Old(First), Old(Central)>>
  BY OfImage
<1>2. db \in Seq(RowType)
  BY OfImage
<1>3. /\ DOMAIN db \subseteq {1, 2} /\ Len(db) >= 1 /\ db[1].node = First
      /\ \A x \in DOMAIN db : db[x].node = IF x = 1 THEN First ELSE Central
  <2>1. CASE db = <<Old(First)>>
    <3>1. DOMAIN db = {1} /\ Len(db) = 1 /\ db[1].node = First
      BY <2>1 DEF Old
    <3>2. QED
      BY <3>1
  <2>2. CASE db = <<Old(First), Old(Central)>>
    <3>1. DOMAIN db = {1, 2} /\ Len(db) = 2 /\ db[1].node = First /\ db[2].node = Central
      BY <2>2 DEF Old
    <3>2. QED
      BY <3>1
  <2>3. QED
    BY <1>1, <2>1, <2>2
<1>4. DOMAIN autoland = 1 .. Len(autoland) /\ Len(autoland) \in Nat /\ 1 \in DOMAIN autoland
  BY DEF Repository
<1>5. First \in Range(autoland)
  BY <1>4 DEF Repository, Range
<1>7. ASSUME NEW n, Mined(n) PROVE n \in {First, Central} /\ ImageHas(n)
  BY <1>3, <1>7 DEF Mined, ImageHas
<1>6. Stored
  BY <1>2, <1>3, <1>5, <1>7, NodesAre DEF Stored
<1>8. ASSUME NEW x \in DOMAIN autoland, NEW y \in DOMAIN autoland, x < y, Mined(autoland[y])
      PROVE  Excused(x, y)
  <2>1. autoland[y] # First
    BY <1>4, <1>8 DEF Repository
  <2>2. autoland[y] = Central
    BY <1>7, <1>8, <2>1
  <2>3. y \in x + 1 .. y
    BY <1>4, <1>8
  <2>4. ImageHas(Central)
    BY <1>7, <1>8, <2>2
  <2>5. QED
    BY <2>2, <2>3, <2>4 DEF Excused
<1>9. QED
  BY <1>6, <1>7, <1>8 DEF NoGaps

LEMMA ImageReaches ==
  ASSUME Repository, image \in Images, db = image.db,
         NEW a \in DOMAIN autoland, Mined(autoland[a])
  PROVE  Reaches(a)
<1>1. \A n : Mined(n) => n \in {First, Central} /\ ImageHas(n)
  BY ImageStored
<1>2. Stored
  BY ImageStored
<1>3. DOMAIN autoland = 1 .. Len(autoland) /\ Len(autoland) \in Nat
  BY <1>2, FileTypes
<1>4. \A x \in DOMAIN autoland : x # 1 => autoland[x] # First
  BY <1>2, FileTypes DEF Repository
<1>5. ASSUME NEW x \in 1 .. a
      PROVE  Mined(autoland[x]) \/ Excused(x, a)
  <2>1. CASE x = a
    BY <2>1
  <2>2. CASE x < a
    <3>1. a \in x + 1 .. a /\ a # 1
      BY <1>3, <2>2
    <3>2. autoland[a] = Central /\ ImageHas(Central)
      BY <1>1, <1>4, <3>1
    <3>3. QED
      BY <3>1, <3>2 DEF Excused
  <2>3. QED
    BY <1>3, <2>1, <2>2
<1>6. ASSUME NEW y \in a + 1 .. Len(autoland), Mined(autoland[y])
      PROVE  autoland[y] = Central
  <2>1. y \in DOMAIN autoland /\ y # 1
    BY <1>3
  <2>2. QED
    BY <1>1, <1>4, <1>6, <2>1
<1>7. QED
  BY <1>5, <1>6 DEF Reaches

\* The mining starts where the file ends.
LEMMA StartReaches ==
  ASSUME FileInv
  PROVE  \E a \in DOMAIN autoland : autoland[a] = StartNode /\ Reaches(a)
<1>1. /\ DOMAIN autoland = 1 .. Len(autoland) /\ DOMAIN db = 1 .. Len(db) /\ Len(db) \in Nat
      /\ 1 \in DOMAIN db /\ Len(db) \in DOMAIN db /\ 1 \in DOMAIN autoland
  BY FileTypes DEF FileInv
<1>2. PICK X : X = {x \in DOMAIN db : db[x].node \in Range(autoland)}
  OBVIOUS
<1>3. X \in SUBSET Int /\ StartNode = db[Max(X)].node
  BY <1>1, <1>2 DEF StartNode
<1>4. CASE db # image.db
  <2>1. PICK a \in Nat : Reaches(a) /\ db[Len(db)].node = autoland[a]
    BY <1>4 DEF FileInv, Continues
  <2>2. Len(db) \in X
    BY <1>1, <1>2, <2>1 DEF Reaches, Range
  <2>3. Max(X) = Len(db)
    <3>1. \A y \in X : y <= Len(db)
      BY <1>1, <1>2
    <3>2. QED
      BY <1>3, <2>2, <3>1, MaxIs
  <2>4. QED
    BY <1>3, <2>1, <2>3 DEF Reaches
<1>5. CASE db = image.db
  <2>1. \E m \in X : \A y \in X : y <= m
    <3>1. 1 \in X
      BY <1>1, <1>2 DEF FileInv, Stored, Repository, Range
    <3>2. CASE 2 \in X
      <4>1. DOMAIN db \subseteq {1, 2}
        BY <1>5, OfImage DEF FileInv, Stored
      <4>2. QED
        BY <1>2, <3>2, <4>1
    <3>3. CASE 2 \notin X
      <4>1. DOMAIN db \subseteq {1, 2}
        BY <1>5, OfImage DEF FileInv, Stored
      <4>2. QED
        BY <1>2, <3>1, <3>3, <4>1
    <3>4. QED
      BY <3>2, <3>3
  <2>2. PICK m \in X : \A y \in X : y <= m
    BY <2>1
  <2>3. Max(X) = m
    BY <1>3, <2>2, MaxIs
  <2>4. PICK a \in DOMAIN autoland : autoland[a] = db[m].node
    BY <1>2, <2>2 DEF Range
  <2>5. Mined(autoland[a])
    BY <1>2, <2>2, <2>4 DEF Mined
  <2>6. Reaches(a)
    BY <1>5, <2>5, ImageReaches DEF FileInv, Stored
  <2>7. QED
    BY <1>3, <2>3, <2>4, <2>6
<1>6. QED
  BY <1>4, <1>5

LEMMA FileInit == Init => FileInv
<1> SUFFICES ASSUME Init PROVE FileInv
  OBVIOUS
<1>1. Repository
  <2>1. onto \in BOOLEAN
    BY DEF Init
  <2>2. QED
    BY <2>1, NodesAre DEF Init, Repository
<1>2. image \in Images
  <2>1. Row(First) = Old(First) /\ Row(Central) = Old(Central)
    <3>1. outs = {}
      BY DEF Init
    <3>2. \A n : (n \in outs) = FALSE
      BY <3>1
    <3>3. QED
      BY <3>2 DEF Row, Old
  <2>2. QED
    BY <2>1 DEF Init, Images
<1>3. Stored /\ NoGaps
  BY <1>1, <1>2, ImageStored DEF Init
<1>4. QED
  BY <1>1, <1>3 DEF Init, FileInv, Continues

\* Something lands.
LEMMA LandingKeeps ==
  ASSUME FileInv, NEW n \in Nodes \ Range(autoland), n = Central \/ ~Mined(n),
         autoland' = Append(autoland, n), onto' \in BOOLEAN, n = Central \/ onto' = onto,
         UNCHANGED <<image, db, pc, revs>>
  PROVE  FileInv'
<1>1. PICK k : k = Len(autoland)
  OBVIOUS
<1>2. /\ DOMAIN autoland = 1 .. k /\ k \in Nat /\ 1 \in DOMAIN autoland
      /\ DOMAIN autoland' = 1 .. k + 1 /\ Len(autoland') = k + 1
      /\ autoland' \in Seq(Nodes)
      /\ \A x \in 1 .. k : autoland'[x] = autoland[x]
      /\ autoland'[k + 1] = n
  <2>1. autoland \in Seq(Nodes) /\ DOMAIN autoland = 1 .. k /\ k \in Nat /\ 1 \in DOMAIN autoland
    BY <1>1, FileTypes DEF FileInv, Repository
  <2>2. QED
    BY <1>1, <2>1, AppendProperties
<1>3. \A x \in 1 .. k : autoland[x] # n
  BY <1>2 DEF Range
<1>4. Repository'
  BY <1>2, <1>3 DEF FileInv, Repository
<1>5. Range(autoland) \subseteq Range(autoland')
  BY <1>2 DEF Range
<1>7. \A m : (Mined(m)' <=> Mined(m)) /\ (ImageHas(m)' <=> ImageHas(m))
  BY DEF Mined, ImageHas
<1>6. Stored'
  BY <1>5, <1>7 DEF FileInv, Stored
<1> DEFINE Still(x, y) == Excused(x, y) => Excused(x, y)'
<1>13. ASSUME NEW x \in 1 .. k, NEW y \in 1 .. k PROVE Still(x, y)
  <2>1. SUFFICES ASSUME Excused(x, y) PROVE Excused(x, y)'
    OBVIOUS
  <2>2. CASE autoland[x] = Central /\ ~onto
    BY <1>2, <1>3, <2>2 DEF Excused
  <2>3. CASE ImageHas(Central) /\ \E z \in x + 1 .. y : autoland[z] = Central
    <3>1. PICK z \in x + 1 .. y : autoland[z] = Central
      BY <2>3
    <3>2. z \in 1 .. k
      BY <1>2
    <3>3. QED
      BY <1>2, <1>7, <2>3, <3>1, <3>2 DEF Excused
  <2>4. QED
    BY <2>1, <2>2, <2>3 DEF Excused
<1>8. NoGaps'
  <2>1. SUFFICES ASSUME NEW x \in 1 .. k + 1, NEW y \in 1 .. k + 1, x < y, Mined(autoland'[y])
                 PROVE  Mined(autoland'[x]) \/ Excused(x, y)'
    BY <1>2, <1>7 DEF NoGaps
  <2>2. CASE y = k + 1
    <3>1. autoland'[y] = Central /\ y \in x + 1 .. y /\ n = Central
      BY <1>2, <2>1, <2>2
    <3>2. ImageHas(Central)
      BY <2>1, <3>1 DEF FileInv, Stored
    <3>3. QED
      BY <1>7, <3>1, <3>2 DEF Excused
  <2>3. CASE y # k + 1
    <3>1. x \in 1 .. k /\ y \in 1 .. k
      BY <1>2, <2>1, <2>3
    <3>2. Mined(autoland[x]) \/ Excused(x, y)
      BY <1>2, <2>1, <3>1 DEF FileInv, NoGaps
    <3>3. QED
      BY <1>2, <1>13, <3>1, <3>2
  <2>4. QED
    BY <2>2, <2>3
<1>9. ASSUME NEW a \in Nat, Reaches(a) PROVE Reaches(a)' /\ autoland'[a] = autoland[a]
  <2>1. a \in 1 .. k /\ autoland'[a] = autoland[a] /\ a \in DOMAIN autoland'
    BY <1>2, <1>9 DEF Reaches
  <2>2. \A x \in 1 .. a : x \in 1 .. k
    BY <1>2, <2>1
  <2>3. \A x \in 1 .. a : Mined(autoland'[x]) \/ Excused(x, a)'
    BY <1>2, <1>9, <1>13, <2>1, <2>2 DEF Reaches
  <2>4. ASSUME NEW y \in a + 1 .. k + 1, Mined(autoland'[y]) PROVE autoland'[y] = Central
    <3>1. CASE y = k + 1
      <4>1. autoland'[y] = n
        BY <1>2, <3>1
      <4>2. QED
        BY <2>4, <4>1
    <3>2. CASE y # k + 1
      <4>1. y \in a + 1 .. Len(autoland) /\ y \in 1 .. k
        <5>1. a \in Nat /\ k \in Nat /\ y \in Int /\ a + 1 <= y /\ y <= k + 1
          BY <1>2
        <5>2. y <= k /\ 1 <= y
          BY <3>2, <5>1
        <5>3. QED
          BY <1>1, <5>1, <5>2
      <4>2. Mined(autoland[y])
        BY <1>2, <2>4, <4>1
      <4>3. QED
        BY <1>2, <1>9, <4>1, <4>2 DEF Reaches
    <3>3. QED
      BY <3>1, <3>2
  <2>5. QED
    BY <1>2, <1>7, <2>1, <2>3, <2>4 DEF Reaches
<1>10. ASSUME NEW a \in Nat, Reaches(a), Follow(a) PROVE Follow(a)'
  <2>1. \A x \in DOMAIN revs : a + x \in 1 .. k
    BY <1>1, <1>2, <1>10 DEF Follow, Reaches, FileInv, Continues
  <2>2. Len(revs) \in Nat /\ a + Len(revs) <= k + 1
    BY <1>1, <1>2, <1>10 DEF Follow, FileInv, Continues
  <2>3. QED
    BY <1>2, <1>10, <2>1, <2>2 DEF Follow
<1>11. Continues'
  BY <1>9, <1>10 DEF FileInv, Continues
<1>12. QED
  BY <1>4, <1>6, <1>8, <1>11 DEF FileInv

LEMMA WorldKeeps ==
  ASSUME FileInv, World
  PROVE  FileInv'
<1>1. CASE Land
  <2>1. Unused \in SUBSET Int /\ Unused # {} /\ Unused \subseteq Nodes \ Range(autoland)
    BY <1>1, NodesAre DEF Land, Unused, Landings
  <2>2. IsFiniteSet(Unused)
    <3>1. IsFiniteSet(3 .. MaxNodes)
      BY RefreshAssumption, FS_Interval
    <3>2. Unused \in SUBSET (3 .. MaxNodes)
      BY DEF Unused, Landings
    <3>3. QED
      BY <3>1, <3>2, FS_Subset
  <2>3. NextNode \in Unused
    <3>1. Min(Unused) \in Unused /\ \A y \in Unused : Min(Unused) <= y
      BY <2>1, <2>2, MinExists
    <3>2. QED
      BY <3>1 DEF NextNode
  <2>4. NextNode # Central
    BY <2>3 DEF Unused, Landings, Central
  <2>5. ~Mined(NextNode)
    BY <2>1, <2>3, <2>4 DEF FileInv, Stored, Mined
  <2>6. onto' = onto /\ onto \in BOOLEAN
    BY <1>1 DEF Land, FileInv, Repository
  <2>7. QED
    BY <1>1, <2>1, <2>3, <2>5, <2>6, LandingKeeps DEF World, Land, databases
<1>2. CASE MergeCentral
  <2>1. /\ Central \in Nodes \ Range(autoland) /\ autoland' = Append(autoland, Central)
        /\ onto' \in BOOLEAN
    BY <1>2, NodesAre DEF MergeCentral
  <2>2. UNCHANGED <<image, db, pc, revs>>
    BY DEF World, databases
  <2>3. QED
    BY <2>1, <2>2, LandingKeeps
<1>3. ASSUME NEW n \in Nodes, BackOut(n) PROVE FileInv'
  <2>1. UNCHANGED <<autoland, onto, image, db, pc, revs>>
    BY <1>3 DEF BackOut, World, databases
  <2>2. QED
    BY <2>1 DEF FileInv, Repository, Stored, NoGaps, Continues, Reaches, Follow, Mined, Excused,
                ImageHas
<1>4. QED
  BY <1>1, <1>2, <1>3 DEF World

LEMMA PositionIs ==
  ASSUME Repository, NEW a \in DOMAIN autoland
  PROVE  Position(autoland[a]) = a
BY DEF Repository, Position

\* The rows to mine follow what the file reaches, where they start behind the
\* commit of mozilla-central too.
LEMMA BehindReaches ==
  ASSUME FileInv
  PROVE  Behind(StartNode) \in DOMAIN autoland /\ Reaches(Behind(StartNode))
<1>1. PICK a \in DOMAIN autoland : autoland[a] = StartNode /\ Reaches(a)
  BY StartReaches
<1>2. DOMAIN autoland = 1 .. Len(autoland) /\ Len(autoland) \in Nat /\ Position(StartNode) = a
  BY <1>1, FileTypes, PositionIs DEF FileInv
<1>3. CASE a < Len(autoland) /\ autoland[a + 1] = Central /\ ~onto
  <2>1. Behind(StartNode) = a + 1
    BY <1>2, <1>3 DEF Behind
  <2>2. a + 1 \in DOMAIN autoland
    BY <1>2, <1>3
  <2>3. ASSUME NEW x \in 1 .. a + 1 PROVE Mined(autoland[x]) \/ Excused(x, a + 1)
    <3>1. CASE x = a + 1
      BY <1>3, <3>1 DEF Excused
    <3>2. CASE x # a + 1
      <4>1. x \in 1 .. a /\ x \in Int /\ a \in Int /\ a + 1 \in Int /\ a <= a + 1
        BY <1>2, <3>2
      <4>2. Mined(autoland[x]) \/ Excused(x, a)
        BY <1>1, <4>1 DEF Reaches
      <4>3. QED
        BY <4>1, <4>2, ExcusedFarther
    <3>3. QED
      BY <3>1, <3>2
  <2>4. ASSUME NEW y \in (a + 1) + 1 .. Len(autoland), Mined(autoland[y])
        PROVE  autoland[y] = Central
    <3>1. y \in a + 1 .. Len(autoland)
      BY <1>2
    <3>2. QED
      BY <1>1, <2>4, <3>1 DEF Reaches
  <2>5. QED
    BY <2>1, <2>2, <2>3, <2>4 DEF Reaches
<1>4. CASE ~(a < Len(autoland) /\ autoland[a + 1] = Central /\ ~onto)
  BY <1>1, <1>2, <1>4 DEF Behind
<1>5. QED
  BY <1>3, <1>4

LEMMA StartKeeps ==
  ASSUME FileInv, Start, UNCHANGED <<world, image>>
  PROVE  FileInv'
<1>1. PICK a : a = Behind(StartNode) /\ a \in DOMAIN autoland /\ Reaches(a)
  BY BehindReaches
<1>2. DOMAIN autoland = 1 .. Len(autoland) /\ Len(autoland) \in Nat
  BY FileTypes DEF FileInv
<1>3. PICK m : m = Len(autoland) - a /\ m \in Nat
  BY <1>1, <1>2
<1>4. revs' = [x \in 1 .. m |-> Row(autoland[a + x])]
  BY <1>1, <1>3 DEF Start, NewRevs, RowsBehind
<1>5. \A x \in 1 .. m : a + x \in 1 .. Len(autoland)
  BY <1>1, <1>2, <1>3
<1>6. \A x \in 1 .. m : Row(autoland[a + x]) \in RowType
  BY <1>2, <1>5 DEF FileInv, Repository, Row, RowType
<1>7. revs' \in Seq(RowType) /\ Len(revs') = m /\ DOMAIN revs' = 1 .. m
  <2>1. revs' \in [1 .. m -> RowType]
    BY <1>4, <1>6
  <2>2. QED
    BY <1>3, <2>1
<1>8. \A x \in DOMAIN revs' : revs'[x].node = autoland[a + x]
  BY <1>4, <1>7 DEF Row
<1>9. a \in Nat /\ a + m = Len(autoland)
  BY <1>1, <1>2, <1>3
<1>10. UNCHANGED <<autoland, onto, image, db>> /\ pc' = "mining"
  BY DEF Start, world, databases
<1>14. \A x, y : Excused(x, y)' <=> Excused(x, y)
  BY <1>10, ExcusedStays
<1>11. Reaches(a)' /\ Follow(a)'
  BY <1>1, <1>7, <1>8, <1>9, <1>10, <1>14 DEF Reaches, Follow, Mined
<1>12. Continues'
  <2>1. db' # image.db' => \E b \in Nat : Reaches(b)' /\ db'[Len(db')].node = autoland'[b]
    BY <1>10, <1>14 DEF FileInv, Continues, Reaches, Mined
  <2>2. QED
    BY <1>7, <1>9, <1>10, <1>11, <2>1 DEF Continues
<1>13. QED
  BY <1>10, <1>12, <1>14 DEF FileInv, Repository, Stored, NoGaps, Mined, ImageHas

\* The refresh goes on to the append, or is over before it or after the last step.
LEMMA MiningKeeps ==
  ASSUME FileInv, UNCHANGED <<world, image, db>>,
         \/ pc = "mining" /\ pc' = "appending" /\ revs' = revs
         \/ pc' \in {"idle", "dead"} /\ revs' = <<>>
  PROVE  FileInv'
<1>1. UNCHANGED <<autoland, onto, image, db>>
  BY DEF world
<1>8. \A x, y : Excused(x, y)' <=> Excused(x, y)
  BY <1>1, ExcusedStays
<1>2. \A a \in Nat : Reaches(a) => Reaches(a)'
  BY <1>1, <1>8 DEF Reaches, Mined
<1>3. revs' \in Seq(RowType) /\ pc' \in {"idle", "mining", "appending", "touching", "dead"}
  <2>1. revs \in Seq(RowType) /\ <<>> \in Seq(RowType)
    BY DEF FileInv, Continues
  <2>2. QED
    BY <2>1
<1>4. pc' \in {"mining", "appending"} => \E a \in Nat : Reaches(a)' /\ Follow(a)'
  <2>1. SUFFICES ASSUME pc = "mining", revs' = revs PROVE \E a \in Nat : Reaches(a)' /\ Follow(a)'
    OBVIOUS
  <2>2. PICK a \in Nat : Reaches(a) /\ Follow(a)
    BY <2>1 DEF FileInv, Continues
  <2>3. Follow(a)'
    BY <1>1, <2>1, <2>2 DEF Follow
  <2>4. QED
    BY <1>2, <2>2, <2>3
<1>5. db' # image.db' => \E a \in Nat : Reaches(a)' /\ db'[Len(db')].node = autoland'[a]
  BY <1>1, <1>2 DEF FileInv, Continues
<1>6. Continues'
  BY <1>3, <1>4, <1>5 DEF Continues
<1>7. QED
  BY <1>1, <1>6, <1>8 DEF FileInv, Repository, Stored, NoGaps, Mined, ImageHas

\* What the append makes of the file.
LEMMA AppendIs ==
  ASSUME FileInv, AppendRows
  PROVE  /\ DOMAIN db = 1 .. Len(db) /\ DOMAIN revs = 1 .. Len(revs)
         /\ Len(db) \in Nat /\ Len(revs) \in Nat
         /\ db' \in Seq(RowType) /\ DOMAIN db' = 1 .. Len(db) + Len(revs)
         /\ Len(db') = Len(db) + Len(revs)
         /\ \A x \in DOMAIN db : x \in DOMAIN db' /\ db'[x] = db[x]
         /\ \A x \in DOMAIN revs : Len(db) + x \in DOMAIN db' /\ db'[Len(db) + x] = revs[x]
         /\ \A x \in DOMAIN db' : \/ x \in DOMAIN db
                                  \/ \E y \in DOMAIN revs : x = Len(db) + y
<1>1. db \in Seq(RowType) /\ revs \in Seq(RowType) /\ db' = db \o revs
  BY DEF FileInv, Stored, Continues, AppendRows
<1>2. PICK k, m : k = Len(db) /\ m = Len(revs)
  OBVIOUS
<1>3. /\ DOMAIN db = 1 .. k /\ DOMAIN revs = 1 .. m /\ k \in Nat /\ m \in Nat
      /\ db' \in Seq(RowType) /\ DOMAIN db' = 1 .. k + m /\ Len(db') = k + m
      /\ \A x \in 1 .. k + m : db'[x] = IF x <= k THEN db[x] ELSE revs[x - k]
  BY <1>1, <1>2, ConcatProperties
<1>4. \A x \in 1 .. k : x \in 1 .. k + m /\ x <= k
  BY <1>3
<1>5. \A x \in 1 .. m : k + x \in 1 .. k + m /\ ~(k + x <= k) /\ (k + x) - k = x
  BY <1>3
<1>6. \A x \in 1 .. k + m : x \in 1 .. k \/ (x - k \in 1 .. m /\ x = k + (x - k))
  BY <1>3
<1>7. \A x \in DOMAIN db : x \in DOMAIN db' /\ db'[x] = db[x]
  BY <1>3, <1>4
<1>8. \A x \in DOMAIN revs : k + x \in DOMAIN db' /\ db'[k + x] = revs[x]
  BY <1>3, <1>5
<1>9. \A x \in DOMAIN db' : x \in DOMAIN db \/ \E y \in DOMAIN revs : x = k + y
  BY <1>3, <1>6
<1>10. QED
  BY <1>2, <1>3, <1>7, <1>8, <1>9

\* The commits that are mined are one row each.
LEMMA MinedOnce ==
  ASSUME FileInv, pc \in {"mining", "appending"}
  PROVE  \A x, y \in DOMAIN revs : revs[x].node = revs[y].node => x = y
<1>1. PICK a \in Nat : Reaches(a) /\ Follow(a)
  BY DEF FileInv, Continues
<1>2. DOMAIN revs = 1 .. Len(revs) /\ Len(revs) \in Nat /\ revs \in Seq(RowType)
  BY DEF FileInv, Continues
<1>3. DOMAIN autoland = 1 .. Len(autoland) /\ Len(autoland) \in Nat
  BY FileTypes DEF FileInv
<1>4. a + Len(revs) <= Len(autoland)
  BY <1>1 DEF Follow
<1>5. \A x \in 1 .. Len(revs) : a + x \in 1 .. Len(autoland)
  BY <1>2, <1>3, <1>4
<1>6. ASSUME NEW x \in DOMAIN revs, NEW y \in DOMAIN revs, revs[x].node = revs[y].node
      PROVE  x = y
  <2>1. autoland[a + x] = autoland[a + y] /\ a + x \in DOMAIN autoland /\ a + y \in DOMAIN autoland
    BY <1>1, <1>2, <1>3, <1>5, <1>6 DEF Follow
  <2>2. a + x = a + y
    BY <2>1 DEF FileInv, Repository
  <2>3. x \in Nat /\ y \in Nat
    BY <1>2
  <2>4. QED
    BY <2>2, <2>3
<1>7. QED
  BY <1>6

LEMMA AppendKeeps ==
  ASSUME FileInv, AppendRows, UNCHANGED <<world, image>>, revs # <<>>
  PROVE  FileInv'
<1> DEFINE k == Len(db)  m == Len(revs)
<1>1. PICK a \in Nat : Reaches(a) /\ Follow(a)
  BY DEF FileInv, Continues, AppendRows
<1>2. PICK b : b = a + m
  OBVIOUS
<1>3. /\ DOMAIN autoland = 1 .. Len(autoland) /\ Len(autoland) \in Nat
      /\ a \in 1 .. Len(autoland) /\ DOMAIN db = 1 .. k /\ k \in Nat
      /\ DOMAIN revs = 1 .. m /\ m \in Nat /\ m # 0
  <2>1. DOMAIN autoland = 1 .. Len(autoland) /\ Len(autoland) \in Nat /\ DOMAIN db = 1 .. k /\ k \in Nat
    BY FileTypes DEF FileInv
  <2>2. revs \in Seq(RowType)
    BY DEF FileInv, Continues
  <2>3. DOMAIN revs = 1 .. m /\ m \in Nat /\ m # 0
    BY <2>2, EmptySeq
  <2>4. QED
    BY <1>1, <2>1, <2>3 DEF Reaches
<1>4. b \in 1 .. Len(autoland) /\ b \in Nat /\ a < b
  <2>1. a + m <= Len(autoland)
    BY <1>1 DEF Follow
  <2>2. QED
    BY <1>2, <1>3, <2>1
<1>5. \A x \in 1 .. m : a + x \in DOMAIN autoland /\ a + x \in a + 1 .. b /\ revs[x].node = autoland[a + x]
  <2>1. \A x \in 1 .. m : a + x \in DOMAIN autoland /\ a + x \in a + 1 .. b
    BY <1>2, <1>3, <1>4
  <2>2. QED
    BY <1>1, <1>3, <2>1 DEF Follow
<1>6. UNCHANGED <<autoland, onto, image, revs>> /\ pc' = "touching"
  BY DEF AppendRows, world
<1>18. \A x, y : Excused(x, y)' <=> Excused(x, y)
  BY <1>6, ExcusedStays
<1>7. /\ db' \in Seq(RowType) /\ DOMAIN db' = 1 .. k + m /\ Len(db') = k + m
      /\ \A x \in DOMAIN db : x \in DOMAIN db' /\ db'[x] = db[x]
      /\ \A x \in DOMAIN revs : k + x \in DOMAIN db' /\ db'[k + x] = revs[x]
      /\ \A x \in DOMAIN db' : x \in DOMAIN db \/ \E y \in DOMAIN revs : x = k + y
  BY AppendIs
<1>8. \A n : Mined(n)' <=> Mined(n) \/ \E x \in DOMAIN revs : revs[x].node = n
  <2>1. ASSUME NEW n, Mined(n)' PROVE Mined(n) \/ \E x \in DOMAIN revs : revs[x].node = n
    <3>1. PICK x \in DOMAIN db' : db'[x].node = n
      BY <2>1 DEF Mined
    <3>2. QED
      BY <1>7, <3>1 DEF Mined
  <2>2. ASSUME NEW n, NEW x \in DOMAIN db, db[x].node = n PROVE Mined(n)'
    BY <1>7, <2>2 DEF Mined
  <2>3. ASSUME NEW n, NEW x \in DOMAIN revs, revs[x].node = n PROVE Mined(n)'
    BY <1>7, <2>3 DEF Mined
  <2>4. QED
    BY <2>1, <2>2, <2>3 DEF Mined
<1>9. \A y \in DOMAIN autoland : Mined(autoland[y])' => Mined(autoland[y]) \/ y \in a + 1 .. b
  <2>1. SUFFICES ASSUME NEW y \in DOMAIN autoland, NEW x \in DOMAIN revs, revs[x].node = autoland[y]
                 PROVE  y \in a + 1 .. b
    BY <1>6, <1>8
  <2>2. autoland[a + x] = autoland[y] /\ a + x \in DOMAIN autoland /\ a + x \in a + 1 .. b
    BY <1>3, <1>5, <2>1
  <2>3. QED
    BY <2>2 DEF FileInv, Repository
<1>10. \A y \in a + 1 .. b : Mined(autoland[y])'
  <2>1. SUFFICES ASSUME NEW y \in a + 1 .. b PROVE Mined(autoland[y])'
    OBVIOUS
  <2>2. y - a \in 1 .. m /\ a + (y - a) = y
    BY <1>2, <1>3
  <2>3. revs[y - a].node = autoland[y]
    BY <1>5, <2>2
  <2>4. QED
    BY <1>3, <1>6, <1>8, <2>2, <2>3
<1>11. \A x \in DOMAIN revs : Mined(revs[x].node) => revs[x].node = Central
  <2>1. SUFFICES ASSUME NEW x \in DOMAIN revs, Mined(revs[x].node) PROVE revs[x].node = Central
    OBVIOUS
  <2>2. revs[x].node = autoland[a + x] /\ a + x \in DOMAIN autoland /\ a + x \in a + 1 .. b
    BY <1>3, <1>5
  <2>3. a + x \in a + 1 .. Len(autoland)
    BY <1>3, <1>4, <2>2
  <2>4. QED
    BY <1>1, <2>1, <2>2, <2>3 DEF Reaches
<1>12. Stored'
  <2>1. db' \in Seq(RowType) /\ Len(db') >= 1 /\ db'[1].node = First
    <3>1. 1 \in DOMAIN db
      BY FileTypes DEF FileInv
    <3>2. k + m >= 1
      BY <1>3
    <3>3. QED
      BY <1>7, <3>1, <3>2 DEF FileInv, Stored
  <2>2. ASSUME NEW x \in DOMAIN db' PROVE db'[x].node \in Range(autoland) \cup {Central}
    <3>1. CASE x \in DOMAIN db
      BY <1>7, <3>1 DEF FileInv, Stored
    <3>2. CASE x \notin DOMAIN db
      <4>1. PICK y \in DOMAIN revs : x = k + y
        BY <1>7, <3>2
      <4>2. db'[x].node = autoland[a + y] /\ a + y \in DOMAIN autoland
        BY <1>3, <1>5, <1>7, <4>1
      <4>3. QED
        BY <4>2 DEF Range
    <3>3. QED
      BY <3>1, <3>2
  <2>3. ASSUME NEW x \in DOMAIN db', NEW y \in DOMAIN db', db'[x].node = db'[y].node,
               db'[x].node # Central
        PROVE  x = y
    <3>1. CASE x \in DOMAIN db /\ y \in DOMAIN db
      BY <1>7, <2>3, <3>1 DEF FileInv, Stored
    <3>2. CASE x \notin DOMAIN db /\ y \notin DOMAIN db
      <4>1. PICK u \in DOMAIN revs, v \in DOMAIN revs : x = k + u /\ y = k + v
        BY <1>7, <3>2
      <4>2. revs[u].node = revs[v].node
        BY <1>7, <2>3, <4>1
      <4>3. u = v
        BY <4>2, MinedOnce DEF AppendRows
      <4>4. QED
        BY <4>1, <4>3
    <3>3. CASE x \in DOMAIN db /\ y \notin DOMAIN db
      <4>1. PICK v \in DOMAIN revs : y = k + v
        BY <1>7, <3>3
      <4>2. db[x].node = revs[v].node
        BY <1>7, <2>3, <3>3, <4>1
      <4>3. Mined(revs[v].node)
        BY <3>3, <4>2 DEF Mined
      <4>4. QED
        BY <1>7, <1>11, <2>3, <3>3, <4>2, <4>3
    <3>4. CASE x \notin DOMAIN db /\ y \in DOMAIN db
      <4>1. PICK v \in DOMAIN revs : x = k + v
        BY <1>7, <3>4
      <4>2. db[y].node = revs[v].node
        BY <1>7, <2>3, <3>4, <4>1
      <4>3. Mined(revs[v].node)
        BY <3>4, <4>2 DEF Mined
      <4>4. QED
        BY <1>7, <1>11, <2>3, <3>4, <4>2, <4>3
    <3>5. QED
      BY <3>1, <3>2, <3>3, <3>4
  <2>4. ASSUME Mined(Central)', Central \notin Range(autoland) PROVE ImageHas(Central)
    <3>1. ASSUME NEW x \in DOMAIN revs, revs[x].node = Central PROVE FALSE
      BY <1>3, <1>5, <2>4, <3>1 DEF Range
    <3>2. Mined(Central)
      BY <1>8, <2>4, <3>1
    <3>3. QED
      BY <2>4, <3>2 DEF FileInv, Stored
  <2>5. QED
    BY <1>6, <2>1, <2>2, <2>3, <2>4 DEF Stored, FileInv, ImageHas
<1>13. Reaches(b)'
  <2>1. ASSUME NEW x \in 1 .. b
        PROVE  Mined(autoland[x])' \/ Excused(x, b)
    <3>1. CASE x \in 1 .. a
      <4>1. Mined(autoland[x]) \/ Excused(x, a)
        BY <1>1, <3>1 DEF Reaches
      <4>2. x \in Int /\ a \in Int /\ b \in Int /\ a <= b
        BY <1>3, <1>4, <3>1
      <4>3. Mined(autoland[x]) \/ Excused(x, b)
        BY <4>1, <4>2, ExcusedFarther
      <4>4. QED
        BY <1>6, <1>8, <4>3
    <3>2. CASE x \notin 1 .. a
      <4>1. x \in a + 1 .. b
        BY <1>3, <1>4, <3>2
      <4>2. QED
        BY <1>10, <4>1
    <3>3. QED
      BY <3>1, <3>2
  <2>2. ASSUME NEW y \in b + 1 .. Len(autoland), Mined(autoland[y])' PROVE autoland[y] = Central
    <3>1. y \in DOMAIN autoland /\ y \notin a + 1 .. b /\ y \in a + 1 .. Len(autoland)
      BY <1>3, <1>4
    <3>2. Mined(autoland[y])
      BY <1>9, <2>2, <3>1
    <3>3. QED
      BY <1>1, <3>1, <3>2 DEF Reaches
  <2>3. QED
    BY <1>3, <1>4, <1>6, <1>18, <2>1, <2>2 DEF Reaches
<1>14. NoGaps'
  <2>1. SUFFICES ASSUME NEW x \in DOMAIN autoland, NEW y \in DOMAIN autoland, x < y, Mined(autoland[y])'
                 PROVE  Mined(autoland[x])' \/ Excused(x, y)
    BY <1>6, <1>18 DEF NoGaps
  <2>2. CASE Mined(autoland[y])
    <3>1. Mined(autoland[x]) \/ Excused(x, y)
      BY <2>1, <2>2 DEF FileInv, NoGaps
    <3>2. QED
      BY <1>6, <1>8, <3>1
  <2>3. CASE ~Mined(autoland[y])
    <3>1. y \in a + 1 .. b
      BY <1>9, <2>1, <2>3
    <3>2. CASE x \in 1 .. a
      <4>1. Mined(autoland[x]) \/ Excused(x, a)
        BY <1>1, <3>2 DEF Reaches
      <4>2. x \in Int /\ a \in Int /\ y \in Int /\ a <= y
        BY <1>3, <3>1, <3>2
      <4>3. Mined(autoland[x]) \/ Excused(x, y)
        BY <4>1, <4>2, ExcusedFarther
      <4>4. QED
        BY <1>6, <1>8, <4>3
    <3>3. CASE x \notin 1 .. a
      <4>1. x \in a + 1 .. b
        BY <1>3, <1>4, <2>1, <3>1, <3>3
      <4>2. QED
        BY <1>10, <4>1
    <3>4. QED
      BY <3>2, <3>3
  <2>4. QED
    BY <2>2, <2>3
<1>15. db'[Len(db')].node = autoland[b]
  <2>1. m \in 1 .. m /\ Len(db') = k + m
    BY <1>3, <1>7
  <2>2. db'[k + m] = revs[m]
    BY <1>3, <1>7, <2>1
  <2>3. QED
    BY <1>2, <1>5, <2>1, <2>2
<1>16. Continues'
  <2>1. revs' \in Seq(RowType) /\ pc' = "touching"
    BY <1>6 DEF FileInv, Continues
  <2>2. QED
    BY <1>4, <1>6, <1>13, <1>15, <2>1 DEF Continues
<1>17. QED
  BY <1>6, <1>12, <1>14, <1>16 DEF FileInv, Repository

\* The file of an image, in the state a restart leaves.
LEMMA ImageHolds == Repository /\ image \in Images /\ db = image.db => Stored /\ NoGaps
BY ImageStored

LEMMA RestartKeeps ==
  ASSUME FileInv, Restart, UNCHANGED <<world, image>>
  PROVE  FileInv'
<1>1. UNCHANGED <<autoland, onto, image>> /\ db' = image.db /\ pc' = "idle" /\ revs' = <<>>
  BY DEF Restart, world
<1>2. image' \in Images /\ Repository' /\ db' = image'.db
  BY <1>1 DEF FileInv, Repository, Stored
<1>3. (Repository /\ image \in Images /\ db = image.db => Stored /\ NoGaps)'
  BY ImageHolds, PTL
<1>4. Stored' /\ NoGaps'
  <2>1. (image \in Images)' /\ (db = image.db)'
    BY <1>2 DEF Images
  <2>2. QED
    BY <1>2, <1>3, <2>1
<1>5. Continues'
  <2>1. revs' \in Seq(RowType) /\ db' = image'.db
    BY <1>1
  <2>2. QED
    BY <1>1, <2>1 DEF Continues
<1>6. QED
  BY <1>2, <1>4, <1>5 DEF FileInv

LEMMA FileStep == FileInv /\ [Next]_vars => FileInv'
<1> SUFFICES ASSUME FileInv, [Next]_vars PROVE FileInv'
  OBVIOUS
<1>1. CASE World
  BY <1>1, WorldKeeps
<1>2. CASE Refresh
  <2> USE <1>2
  <2>1. UNCHANGED <<world, image>>
    BY DEF Refresh
  <2>2. CASE Start
    BY <2>1, <2>2, StartKeeps
  <2>3. CASE SaveExperiences
    BY <2>1, <2>3, MiningKeeps DEF SaveExperiences
  <2>4. CASE MiningFails
    BY <2>1, <2>4, MiningKeeps DEF MiningFails, Fails
  <2>9. CASE MiningRaises
    BY <2>1, <2>9, MiningKeeps DEF MiningRaises, Fails
  <2>5. CASE AppendRows
    <3>1. CASE revs = <<>>
      <4>1. db' = db /\ revs' = <<>> /\ pc' = "idle"
        <5>1. db \in Seq(RowType)
          BY DEF FileInv, Stored
        <5>2. db \o <<>> = db
          BY <5>1, ConcatEmptySeq
        <5>3. QED
          BY <2>5, <3>1, <5>2 DEF AppendRows
      <4>2. QED
        BY <2>1, <4>1, MiningKeeps
    <3>2. CASE revs # <<>>
      BY <2>1, <2>5, <3>2, AppendKeeps
    <3>3. QED
      BY <3>1, <3>2
  <2>6. CASE AppendFails
    BY <2>1, <2>6, MiningKeeps DEF AppendFails, Fails, databases
  <2>7. CASE Touch
    BY <2>1, <2>7, MiningKeeps DEF Touch, CountTogether
  <2>10. CASE TouchFails
    BY <2>1, <2>10, MiningKeeps DEF TouchFails, Fails, CountTogether
  <2>8. QED
    BY <2>2, <2>3, <2>4, <2>5, <2>6, <2>7, <2>9, <2>10 DEF Refresh
<1>3. CASE Restart /\ UNCHANGED <<world, image>>
  BY <1>3, RestartKeeps
<1>6. CASE Killed /\ UNCHANGED <<world, image, restarts>>
  BY <1>6, MiningKeeps DEF Killed, databases
<1>4. CASE UNCHANGED vars
  BY <1>4 DEF vars, world, databases, FileInv, Repository, Stored, NoGaps, Continues, Reaches,
              Follow, Mined, Excused, ImageHas
<1>5. QED
  BY <1>1, <1>2, <1>3, <1>4, <1>6 DEF Next, Dies

-------------------------------------------------------------------------------
(* The counts                                                                *)

LEMMA CountedIs ==
  ASSUME NEW counts, NEW rows, NEW S, NEW n \in Nodes
  PROVE  Counted(counts, rows, S)[n] = counts[n] + Rows(rows, S, n)
BY DEF Counted

\* No commit is in the file twice, unless the one of mozilla-central is.
LEMMA Distinct ==
  ASSUME NEW rows \in Seq(RowType),
         \A x, y \in DOMAIN rows : rows[x].node = rows[y].node /\ rows[x].node # Central => x = y,
         ~(Rows(rows, DOMAIN rows, Central) > 1)
  PROVE  \A x, y \in DOMAIN rows : rows[x].node = rows[y].node => x = y
<1>1. SUFFICES ASSUME NEW x \in DOMAIN rows, NEW y \in DOMAIN rows,
                      rows[x].node = Central, rows[y].node = Central
               PROVE  x = y
  OBVIOUS
<1>2. PICK S : S = {z \in DOMAIN rows : rows[z].node = Central}
  OBVIOUS
<1>3. IsFiniteSet(S) /\ Cardinality(S) \in Nat /\ ~(Cardinality(S) > 1)
  <2>1. IsFiniteSet(DOMAIN rows)
    BY IndicesFinite
  <2>2. IsFiniteSet(S)
    BY <1>2, <2>1, RowsCount
  <2>3. QED
    BY <1>2, <2>2, FS_CardinalityType DEF Rows
<1>4. Cardinality(S) <= 1
  BY <1>3
<1>5. x \in S /\ y \in S
  BY <1>1, <1>2
<1>6. QED
  BY <1>3, <1>4, <1>5, OneAtMost

\* The touched together database of an image counted each commit up to its last once.
LEMMA ImageCounted ==
  ASSUME NEW im \in Images, NEW t, t = Counted(Zero, im.db, 1 .. FirstAt(im.db, im.last))
  PROVE  /\ im.db \in Seq(RowType) /\ t \in [Nodes -> Nat]
         /\ \E x \in DOMAIN im.db : im.db[x].node = im.last
         /\ \A n \in Nodes : t[n] <= 1
         /\ \A n \in Nodes : t[n] > 0 => \E x \in DOMAIN im.db : im.db[x].node = n
         /\ \A x \in DOMAIN im.db : t[im.db[x].node] > 0 => x <= FirstAt(im.db, im.last)
         /\ \A x \in DOMAIN im.db : x <= FirstAt(im.db, im.last) => t[im.db[x].node] > 0
<1>1. PICK rows, f : rows = im.db /\ f = FirstAt(im.db, im.last)
  OBVIOUS
<1>2. rows \in Seq(RowType) /\ \E x \in DOMAIN rows : rows[x].node = im.last
  BY <1>1, OfImage
<1>3. \A x, y \in DOMAIN rows : rows[x].node = rows[y].node => x = y
  BY <1>1, OfImage
<1>4. DOMAIN rows = 1 .. Len(rows) /\ Len(rows) \in Nat
  BY <1>2
<1>5. f \in DOMAIN rows
  BY <1>1, <1>2, FirstExists
<1>6. 1 .. f \subseteq DOMAIN rows /\ f \in Nat /\ IsFiniteSet(1 .. f)
  <2>1. f \in 1 .. Len(rows) /\ f \in Int /\ 1 \in Int
    BY <1>4, <1>5
  <2>2. 1 .. f \subseteq DOMAIN rows /\ f \in Nat
    BY <1>4, <2>1
  <2>3. IsFiniteSet(1 .. f)
    BY <2>1, FS_Interval
  <2>4. QED
    BY <2>2, <2>3
<1>7. \A n \in Nodes : t[n] = Rows(rows, 1 .. f, n) /\ t[n] \in 0 .. 1
  <2>1. SUFFICES ASSUME NEW n \in Nodes PROVE t[n] = Rows(rows, 1 .. f, n) /\ t[n] \in 0 .. 1
    OBVIOUS
  <2>2. t[n] = Zero[n] + Rows(rows, 1 .. f, n) /\ Zero[n] = 0
    BY <1>1, CountedIs DEF Zero
  <2>3. Rows(rows, 1 .. f, n) \in 0 .. 1
    BY <1>3, <1>6, RowsOnce
  <2>4. QED
    BY <2>2, <2>3
<1>8. t \in [Nodes -> Nat]
  <2>1. DOMAIN t = Nodes /\ t = [n \in Nodes |-> t[n]]
    BY DEF Counted
  <2>2. \A n \in Nodes : t[n] \in Nat
    BY <1>7
  <2>3. QED
    BY <2>1, <2>2
<1>9. \A n \in Nodes : t[n] > 0 <=> \E x \in 1 .. f : rows[x].node = n
  <2>1. \A n \in Nodes : Rows(rows, 1 .. f, n) > 0 <=> \E x \in 1 .. f : rows[x].node = n
    BY <1>6, RowsCount
  <2>2. QED
    BY <1>7, <2>1
<1>10. \A x \in DOMAIN rows : rows[x].node \in Nodes
  <2>1. \A x \in DOMAIN rows : rows[x] \in RowType
    BY <1>2
  <2>2. QED
    BY <2>1 DEF RowType
<1>11. \A x \in DOMAIN rows : t[rows[x].node] > 0 => x <= f
  <2>1. SUFFICES ASSUME NEW x \in DOMAIN rows, t[rows[x].node] > 0 PROVE x <= f
    OBVIOUS
  <2>2. PICK y \in 1 .. f : rows[y].node = rows[x].node
    BY <1>9, <1>10, <2>1
  <2>3. x = y
    BY <1>3, <1>6, <2>2
  <2>4. QED
    BY <1>6, <2>3
<1>12. \A x \in DOMAIN rows : x <= f => t[rows[x].node] > 0
  <2>1. SUFFICES ASSUME NEW x \in DOMAIN rows, x <= f PROVE t[rows[x].node] > 0
    OBVIOUS
  <2>2. x \in 1 .. f
    BY <1>4, <1>6, <2>1
  <2>3. QED
    BY <1>9, <1>10, <2>2
<1>13. \A n \in Nodes : t[n] <= 1
  BY <1>7
<1>14. \A n \in Nodes : t[n] > 0 => \E x \in DOMAIN rows : rows[x].node = n
  BY <1>6, <1>9
<1>15. QED
  BY <1>1, <1>2, <1>8, <1>11, <1>12, <1>13, <1>14

\* What an image holds counted once.
LEMMA ImageExperienced ==
  ASSUME NEW im \in Images, NEW t, t = Counted(Zero, im.db, DOMAIN im.db)
  PROVE  t \in [Nodes -> Int] /\ \A n \in Nodes : t[n] - Rows(im.db, DOMAIN im.db, n) = 0
<1>1. im.db \in Seq(RowType)
  BY OfImage
<1>2. IsFiniteSet(DOMAIN im.db)
  BY <1>1, IndicesFinite
<1>3. \A n \in Nodes : t[n] = Rows(im.db, DOMAIN im.db, n) /\ t[n] \in Nat
  <2>1. SUFFICES ASSUME NEW n \in Nodes PROVE t[n] = Rows(im.db, DOMAIN im.db, n) /\ t[n] \in Nat
    OBVIOUS
  <2>2. t[n] = Zero[n] + Rows(im.db, DOMAIN im.db, n) /\ Zero[n] = 0
    BY CountedIs DEF Zero
  <2>3. Rows(im.db, DOMAIN im.db, n) \in Nat
    BY <1>2, RowsCount
  <2>4. QED
    BY <2>2, <2>3
<1>4. t \in [Nodes -> Int]
  <2>1. t = [n \in Nodes |-> t[n]]
    BY DEF Counted
  <2>2. \A n \in Nodes : t[n] \in Int
    BY <1>3
  <2>3. QED
    BY <2>1, <2>2
<1>5. \A n \in Nodes : t[n] - Rows(im.db, DOMAIN im.db, n) = 0
  BY <1>3
<1>6. QED
  BY <1>4, <1>5

LEMMA CountTypes ==
  ASSUME FileInv
  PROVE  /\ db \in Seq(RowType) /\ revs \in Seq(RowType)
         /\ IsFiniteSet(DOMAIN db) /\ IsFiniteSet(DOMAIN revs)
         /\ \A n : Occurrences(n) \in Nat /\ Rows(revs, DOMAIN revs, n) \in Nat
         /\ \A x \in DOMAIN db : db[x].node \in Nodes
<1>1. db \in Seq(RowType) /\ revs \in Seq(RowType)
  BY DEF FileInv, Stored, Continues
<1>2. IsFiniteSet(DOMAIN db) /\ IsFiniteSet(DOMAIN revs)
  BY <1>1, IndicesFinite
<1>3. \A n : Occurrences(n) \in Nat /\ Rows(revs, DOMAIN revs, n) \in Nat
  BY <1>2, RowsCount DEF Occurrences
<1>4. \A x \in DOMAIN db : db[x] \in RowType
  BY <1>1
<1>5. QED
  BY <1>1, <1>2, <1>3, <1>4 DEF RowType

LEMMA CountInit == Init => CountInv
<1> SUFFICES ASSUME Init PROVE CountInv
  OBVIOUS
<1>1. FileInv /\ image \in Images
  BY FileInit DEF FileInv, Stored
<1>2. exp = Counted(Zero, image.db, DOMAIN image.db) /\ db = image.db /\ pc = "idle"
      /\ failures = 0 /\ restarts = 0
  BY DEF Init, ImageCounts
<1>3. exp \in [Nodes -> Int] /\ \A n \in Nodes : exp[n] - Rows(image.db, DOMAIN image.db, n) = 0
  BY <1>1, <1>2, ImageExperienced
<1>4. Experienced
  <2>1. \A n \in Nodes : Occurrences(n) = Rows(image.db, DOMAIN image.db, n) /\ Coming(n) = 0
    BY <1>2 DEF Occurrences, Coming
  <2>2. \A n \in Nodes : Occurrences(n) \in Nat /\ exp[n] \in Int
    BY <1>1, <1>3, CountTypes
  <2>3. \A n \in Nodes : exp[n] - Occurrences(n) - Coming(n) = 0
    BY <1>3, <2>1, <2>2
  <2>4. QED
    BY <1>2, <1>3, <2>3 DEF Experienced
<1>5. touched = Counted(Zero, image.db, 1 .. FirstAt(image.db, image.last)) /\ last = image.last
  BY DEF Init, ImageTouched
<1>6. Together
  BY <1>1, <1>2, <1>5, ImageCounted DEF Together, TouchedTo, Mined
<1>7. QED
  BY <1>1, <1>4, <1>6 DEF CountInv

LEMMA RestartCounts ==
  ASSUME CountInv, Restart, UNCHANGED <<world, image>>
  PROVE  CountInv'
<1>1. FileInv' /\ image \in Images
  BY RestartKeeps DEF CountInv, FileInv, Stored
<1>2. exp' = Counted(Zero, image.db, DOMAIN image.db) /\ db' = image.db /\ pc' = "idle"
      /\ failures' = 0 /\ restarts' = restarts + 1
  BY DEF Restart, ImageCounts
<1>3. exp' \in [Nodes -> Int] /\ \A n \in Nodes : exp'[n] - Rows(image.db, DOMAIN image.db, n) = 0
  BY <1>1, <1>2, ImageExperienced
<1>4. Experienced'
  <2>1. \A n \in Nodes : Occurrences(n)' = Rows(image.db, DOMAIN image.db, n) /\ Coming(n)' = 0
    BY <1>2 DEF Occurrences, Coming
  <2>2. \A n \in Nodes : Rows(image.db, DOMAIN image.db, n) \in Nat /\ exp'[n] \in Int
    <3>1. IsFiniteSet(DOMAIN image.db)
      BY <1>1, OfImage, IndicesFinite
    <3>2. QED
      BY <1>3, <3>1, RowsCount
  <2>3. \A n \in Nodes : exp'[n] - Occurrences(n)' - Coming(n)' = 0
    BY <1>3, <2>1, <2>2
  <2>4. failures' \in Nat /\ restarts' \in Nat
    BY <1>2 DEF CountInv, Experienced
  <2>5. QED
    BY <1>2, <1>3, <2>3, <2>4 DEF Experienced
<1>5. touched' = Counted(Zero, image.db, 1 .. FirstAt(image.db, image.last)) /\ last' = image.last
  BY DEF Restart, ImageTouched
<1>6. Together'
  BY <1>1, <1>2, <1>5, ImageCounted DEF Together, TouchedTo, Mined, FirstAt
<1>7. QED
  BY <1>1, <1>4, <1>6 DEF CountInv

\* A step that leaves what was touched and does not go on to the update.
LEMMA TogetherStays ==
  ASSUME Together, UNCHANGED <<db, last, touched, halves>>, pc' = "touching" => pc = "touching" /\ revs' = revs
  PROVE  Together'
BY DEF Together, TouchedTo, Mined, CentralTwice, Occurrences, EndRevision

\* A refresh that failed or was killed counts each of its commits once too
\* often, at most.
LEMMA FailureCounts ==
  ASSUME CountInv, failures' = failures + 1, pc' \in {"idle", "dead"},
         db' = db, restarts' = restarts,
         \/ pc = "mining" /\ \E done \in 0 .. Len(revs) : exp' = Counted(exp, revs, 1 .. done)
         \/ exp' = exp
  PROVE  Experienced'
<1>1. /\ failures \in Nat /\ failures' = failures + 1 /\ restarts' \in Nat /\ exp \in [Nodes -> Int]
      /\ pc' # "appending"
  BY DEF CountInv, Experienced
<1>2. pc \in {"mining", "appending"} =>
        \A x, y \in DOMAIN revs : revs[x].node = revs[y].node => x = y
  BY MinedOnce DEF CountInv
<1>3. IsFiniteSet(DOMAIN revs) /\ DOMAIN revs = 1 .. Len(revs) /\ Len(revs) \in Nat
  BY CountTypes, IndicesFinite DEF CountInv
<1>4. ASSUME NEW n \in Nodes
      PROVE  exp'[n] \in Int /\ exp'[n] - Occurrences(n)' - Coming(n)' \in 0 .. failures'
  <2>1. Occurrences(n)' = Occurrences(n) /\ Occurrences(n) \in Nat /\ Coming(n)' = 0 /\ exp[n] \in Int
    BY <1>1, CountTypes DEF Occurrences, Coming, CountInv
  <2>2. exp[n] - Occurrences(n) - Coming(n) \in 0 .. failures
    BY DEF CountInv, Experienced
  <2>3. CASE pc = "mining" /\ \E done \in 0 .. Len(revs) : exp' = Counted(exp, revs, 1 .. done)
    <3>1. PICK done \in 0 .. Len(revs) : exp' = Counted(exp, revs, 1 .. done)
      BY <2>3
    <3>2. 1 .. done \in SUBSET DOMAIN revs
      BY <1>3
    <3>3. IsFiniteSet(1 .. done)
      BY <1>3, <3>2, FS_Subset
    <3>4. Rows(revs, 1 .. done, n) \in 0 .. 1
      BY <1>2, <2>3, <3>2, <3>3, RowsOnce
    <3>5. exp'[n] = exp[n] + Rows(revs, 1 .. done, n)
      BY <3>1, CountedIs
    <3>6. Coming(n) = 0
      BY <2>3 DEF Coming
    <3>7. QED
      BY <1>1, <2>1, <2>2, <3>4, <3>5, <3>6
  <2>4. CASE exp' = exp
    <3>1. Coming(n) \in 0 .. 1
      <4>1. CASE pc = "appending"
        BY <1>2, <1>3, <4>1, RowsOnce DEF Coming
      <4>2. CASE pc # "appending"
        BY <4>2 DEF Coming
      <4>3. QED
        BY <4>1, <4>2
    <3>2. QED
      BY <1>1, <2>1, <2>2, <2>4, <3>1
  <2>5. QED
    BY <2>3, <2>4
<1>5. exp' \in [Nodes -> Int]
  <2>1. DOMAIN exp' = Nodes /\ exp' = [n \in Nodes |-> exp'[n]]
    BY <1>1 DEF Counted
  <2>2. QED
    BY <1>4, <2>1
<1>6. QED
  BY <1>1, <1>4, <1>5 DEF Experienced

\* Nor does one that raises at its first row count anything.
LEMMA RaiseCounts ==
  ASSUME CountInv, MiningRaises, restarts' = restarts
  PROVE  Experienced'
<1>1. PICK L, d : L = Late(revs) /\ d = Min(Late(revs)) - 1
  OBVIOUS
<1>2. /\ pc = "mining" /\ L # {} /\ exp' = Counted(exp, revs, 1 .. d) /\ db' = db
      /\ IF d = 0 THEN pc' = "idle" /\ failures' = failures
                  ELSE pc' = "idle" /\ failures' = failures + 1
  BY <1>1 DEF MiningRaises, Fails
<1>3. DOMAIN revs = 1 .. Len(revs) /\ Len(revs) \in Nat /\ IsFiniteSet(DOMAIN revs)
  BY CountTypes, IndicesFinite DEF CountInv
<1>4. d \in 0 .. Len(revs)
  <2>1. L \in SUBSET DOMAIN revs
    BY <1>1 DEF Late
  <2>2. IsFiniteSet(L)
    BY <1>3, <2>1, FS_Subset
  <2>3. L \in SUBSET Int
    BY <1>3, <2>1
  <2>4. Min(L) \in L
    BY <1>2, <2>2, <2>3, MinExists
  <2>5. Min(L) \in 1 .. Len(revs)
    BY <1>3, <2>1, <2>4
  <2>6. QED
    BY <1>1, <1>3, <2>5
<1>5. CASE d # 0
  <2>1. failures' = failures + 1 /\ pc' \in {"idle", "dead"}
    BY <1>2, <1>5
  <2>2. QED
    BY <1>2, <1>4, <2>1, FailureCounts
<1>6. CASE d = 0
  <2>1. pc' = "idle" /\ failures' = failures /\ 1 .. d = {}
    BY <1>2, <1>6
  <2>2. failures \in Nat /\ restarts' \in Nat /\ exp \in [Nodes -> Int]
    BY DEF CountInv, Experienced
  <2>3. \A n \in Nodes : exp'[n] = exp[n]
    <3>1. SUFFICES ASSUME NEW n \in Nodes PROVE exp'[n] = exp[n]
      OBVIOUS
    <3>2. Rows(revs, {}, n) = 0
      <4>1. {x \in {} : revs[x].node = n} = {}
        OBVIOUS
      <4>2. QED
        BY <4>1, FS_EmptySet DEF Rows
    <3>3. exp'[n] = exp[n] + Rows(revs, {}, n) /\ exp[n] \in Int
      BY <1>2, <2>1, <2>2, CountedIs
    <3>4. QED
      BY <3>2, <3>3
  <2>4. exp' = exp
    <3>1. exp' = [n \in Nodes |-> exp'[n]]
      BY <1>2 DEF Counted
    <3>2. QED
      BY <2>2, <2>3, <3>1
  <2>5. \A n \in Nodes : Occurrences(n)' = Occurrences(n) /\ Coming(n)' = Coming(n)
    BY <1>2, <2>1 DEF Occurrences, Coming
  <2>6. QED
    BY <2>1, <2>2, <2>4, <2>5 DEF CountInv, Experienced
<1>7. QED
  BY <1>5, <1>6

LEMMA SaveCounts ==
  ASSUME CountInv, SaveExperiences, restarts' = restarts
  PROVE  Experienced'
<1>1. /\ failures' = failures /\ failures \in Nat /\ restarts' \in Nat /\ exp \in [Nodes -> Int]
      /\ db' = db /\ revs' = revs /\ pc = "mining" /\ pc' = "appending"
      /\ exp' = Counted(exp, revs, DOMAIN revs)
  BY DEF CountInv, Experienced, SaveExperiences
<1>2. ASSUME NEW n \in Nodes
      PROVE  exp'[n] \in Int /\ exp'[n] - Occurrences(n)' - Coming(n)' \in 0 .. failures'
  <2>1. PICK r : r = Rows(revs, DOMAIN revs, n)
    OBVIOUS
  <2>2. Occurrences(n)' = Occurrences(n) /\ Coming(n)' = r /\ Coming(n) = 0
    BY <1>1, <2>1 DEF Occurrences, Coming
  <2>3. r \in Nat /\ Occurrences(n) \in Nat /\ exp[n] \in Int
    BY <1>1, <2>1, CountTypes DEF CountInv
  <2>4. exp'[n] = exp[n] + r
    BY <1>1, <2>1, CountedIs
  <2>5. exp[n] - Occurrences(n) - Coming(n) \in 0 .. failures
    BY DEF CountInv, Experienced
  <2>6. QED
    BY <1>1, <2>2, <2>3, <2>4, <2>5
<1>3. exp' \in [Nodes -> Int]
  <2>1. exp' = [n \in Nodes |-> exp'[n]]
    BY <1>1 DEF Counted
  <2>2. QED
    BY <1>2, <2>1
<1>4. QED
  BY <1>1, <1>2, <1>3 DEF Experienced

LEMMA OccurrencesAppended ==
  ASSUME FileInv, AppendRows
  PROVE  \A n : Occurrences(n)' = Occurrences(n) + Rows(revs, DOMAIN revs, n)
BY CountTypes, RowsOfConcat DEF AppendRows, Occurrences

LEMMA AppendExperienced ==
  ASSUME CountInv, AppendRows, restarts' = restarts
  PROVE  Experienced'
<1>1. /\ failures' = failures /\ failures \in Nat /\ restarts' \in Nat /\ exp \in [Nodes -> Int]
      /\ exp' = exp /\ pc = "appending" /\ pc' # "appending"
  BY DEF CountInv, Experienced, AppendRows
<1>2. ASSUME NEW n \in Nodes PROVE exp'[n] - Occurrences(n)' - Coming(n)' \in 0 .. failures'
  <2>1. PICK r : r = Rows(revs, DOMAIN revs, n)
    OBVIOUS
  <2>2. Coming(n)' = 0 /\ Coming(n) = r
    BY <1>1, <2>1 DEF Coming
  <2>3. r \in Nat /\ Occurrences(n) \in Nat /\ exp[n] \in Int
    BY <1>1, <2>1, CountTypes DEF CountInv
  <2>4. Occurrences(n)' = Occurrences(n) + r
    BY <2>1, OccurrencesAppended DEF CountInv
  <2>5. exp[n] - Occurrences(n) - Coming(n) \in 0 .. failures
    BY DEF CountInv, Experienced
  <2>6. QED
    BY <1>1, <2>2, <2>3, <2>4, <2>5
<1>3. QED
  BY <1>1, <1>2 DEF Experienced

\* What is appended does not move what was counted.
LEMMA AppendTogether ==
  ASSUME CountInv, AppendRows, UNCHANGED <<world, image>>, revs # <<>>
  PROVE  Together'
<1> DEFINE f == FirstAt(db, last)
<1>1. FileInv /\ FileInv' /\ Together
  BY AppendKeeps DEF CountInv
<1>2. UNCHANGED <<last, touched, halves, revs>>
  BY DEF AppendRows
<1>3. /\ DOMAIN db = 1 .. Len(db) /\ DOMAIN revs = 1 .. Len(revs)
      /\ Len(db) \in Nat /\ Len(revs) \in Nat
      /\ db' \in Seq(RowType) /\ DOMAIN db' = 1 .. Len(db) + Len(revs)
      /\ Len(db') = Len(db) + Len(revs)
      /\ \A x \in DOMAIN db : x \in DOMAIN db' /\ db'[x] = db[x]
      /\ \A x \in DOMAIN revs : Len(db) + x \in DOMAIN db' /\ db'[Len(db) + x] = revs[x]
      /\ \A x \in DOMAIN db' : x \in DOMAIN db \/ \E y \in DOMAIN revs : x = Len(db) + y
  BY <1>1, AppendIs
<1>4. db \in Seq(RowType) /\ Mined(last) /\ \E x \in DOMAIN db : db[x].node = last
  BY <1>1, CountTypes DEF Together, Mined
<1>5. f \in DOMAIN db /\ db[f].node = last /\ \A y \in DOMAIN db : db[y].node = last => f <= y
  BY <1>4, FirstExists
<1>6. FirstAt(db', last) = f
  <2>1. ASSUME NEW y \in DOMAIN db', db'[y].node = last PROVE f <= y
    <3>1. CASE y \in DOMAIN db
      BY <1>3, <1>5, <2>1, <3>1
    <3>2. CASE y \notin DOMAIN db
      <4>1. f \in 1 .. Len(db) /\ y \in 1 .. Len(db) + Len(revs) /\ ~(y \in 1 .. Len(db))
        BY <1>3, <1>5, <3>2
      <4>2. QED
        BY <1>3, <4>1
    <3>3. QED
      BY <3>1, <3>2
  <2>2. f \in DOMAIN db' /\ db'[f].node = last
    BY <1>3, <1>5
  <2>3. QED
    BY <1>3, <2>1, <2>2, FirstIs
<1>7. \A n : Mined(n) => Mined(n)'
  BY <1>3 DEF Mined
<1>8. touched' \in [Nodes -> Nat] /\ Mined(last)' /\ \A n \in Nodes : touched'[n] > 0 => Mined(n)'
  <2>1. \A n \in Nodes : touched[n] > 0 => Mined(n)'
    BY <1>1, <1>7 DEF Together
  <2>2. \E x \in DOMAIN db' : db'[x].node = last
    BY <1>3, <1>4
  <2>3. QED
    BY <1>1, <1>2, <2>1, <2>2 DEF Together, Mined
<1>9. ASSUME ~CentralTwice' PROVE TouchedTo(FirstAt(db, last))'
  <2>1. \A x, y \in DOMAIN db' : db'[x].node = db'[y].node => x = y
    <3>1. \A x, y \in DOMAIN db' : db'[x].node = db'[y].node /\ db'[x].node # Central => x = y
      BY <1>1 DEF FileInv, Stored
    <3>2. ~(Rows(db', DOMAIN db', Central) > 1)
      BY <1>9 DEF CentralTwice, Occurrences
    <3>3. QED
      BY <1>3, <3>1, <3>2, Distinct
  <2>2. ~CentralTwice
    <3>1. Occurrences(Central)' = Occurrences(Central) + Rows(revs, DOMAIN revs, Central)
      BY <1>1, OccurrencesAppended
    <3>2. Occurrences(Central) \in Nat /\ Rows(revs, DOMAIN revs, Central) \in Nat
      BY <1>1, CountTypes
    <3>3. QED
      BY <1>9, <3>1, <3>2 DEF CentralTwice
  <2>3. /\ \A n \in Nodes : touched[n] <= 1
        /\ \A x \in DOMAIN db : touched[db[x].node] > 0 => x <= f
        /\ \A x \in DOMAIN db : x <= f /\ ~db[x].out =>
             touched[db[x].node] > 0 \/ db[x].node \in halves
    BY <1>1, <2>2 DEF Together, TouchedTo
  <2>4. ASSUME NEW x \in DOMAIN db', touched[db'[x].node] > 0 PROVE x <= f
    <3>1. x \in DOMAIN db
      <4>1. db'[x].node \in Nodes
        <5>1. db'[x] \in RowType
          BY <1>3
        <5>2. QED
          BY <5>1 DEF RowType
      <4>2. PICK y \in DOMAIN db : db[y].node = db'[x].node
        BY <1>1, <2>4, <4>1 DEF Together, Mined
      <4>3. x = y
        BY <1>3, <2>1, <4>2
      <4>4. QED
        BY <4>3
    <3>2. QED
      BY <1>3, <2>3, <2>4, <3>1
  <2>5. ASSUME NEW x \in DOMAIN db', x <= f, ~db'[x].out
        PROVE  touched[db'[x].node] > 0 \/ db'[x].node \in halves
    <3>1. x \in DOMAIN db
      <4>1. x \in 1 .. Len(db) + Len(revs) /\ f \in 1 .. Len(db)
        BY <1>3, <1>5
      <4>2. QED
        BY <1>3, <2>5, <4>1
    <3>2. QED
      BY <1>3, <2>3, <2>5, <3>1
  <2>6. FirstAt(db', last') = f
    BY <1>2, <1>6
  <2>7. QED
    BY <1>2, <2>3, <2>4, <2>5, <2>6 DEF TouchedTo, FirstAt
<1>10. revs' # <<>> /\ EndRevision' = db'[Len(db')].node
  <2>1. revs \in Seq(RowType)
    BY <1>1, CountTypes
  <2>2. Len(revs) # 0
    BY <2>1, EmptySeq
  <2>3. Len(revs) \in DOMAIN revs
    BY <1>3, <2>2
  <2>4. db'[Len(db')] = revs[Len(revs)]
    BY <1>3, <2>3
  <2>5. QED
    BY <1>2, <2>4 DEF EndRevision
<1>11. QED
  BY <1>8, <1>9, <1>10 DEF Together

\* What the update counts up to some place of the file, where it may have failed.
LEMMA PrefixCounts ==
  ASSUME CountInv, pc = "touching", NEW u \in Int, NEW half,
         CountTogether({x \in Analyzed : x <= u}, half), pc' \in {"idle", "dead"}
  PROVE  /\ Together'
         /\ ~CentralTwice =>
              \A x \in DOMAIN db :
                (x <= FirstAt(db, last) \/ (x \in Analyzed /\ x <= u)) /\ ~db[x].out =>
                  touched'[db[x].node] > 0 \/ db[x].node \in halves'
<1> DEFINE f == FirstAt(db, last)
           e == FirstAt(db, EndRevision)
<1>0. PICK B, A : B = {x \in Analyzed : x <= u} /\ A = {x \in B \ half : ~db[x].out}
  OBVIOUS
<1>1. FileInv /\ Together
  BY DEF CountInv
<1>2. /\ db \in Seq(RowType) /\ DOMAIN db = 1 .. Len(db) /\ Len(db) \in Nat
      /\ Len(db) \in DOMAIN db /\ IsFiniteSet(DOMAIN db)
      /\ \A x \in DOMAIN db : db[x].node \in Nodes
  BY <1>1, CountTypes, FileTypes DEF FileInv
<1>3. f \in DOMAIN db /\ db[f].node = last
  <2>1. \E x \in DOMAIN db : db[x].node = last
    BY <1>1 DEF Together, Mined
  <2>2. QED
    BY <1>2, <2>1, FirstExists
<1>4. e \in DOMAIN db
  <2>1. EndRevision = db[Len(db)].node
    BY <1>1 DEF Together
  <2>2. \E x \in DOMAIN db : db[x].node = EndRevision
    BY <1>2, <2>1
  <2>3. QED
    BY <1>2, <2>1, <2>2, FirstExists
<1>5. /\ B = {x \in f + 1 .. e : x <= u} /\ B \in SUBSET DOMAIN db /\ f \in Nat /\ e \in Nat
      /\ A \in SUBSET DOMAIN db
  <2>1. f \in 1 .. Len(db) /\ e \in 1 .. Len(db)
    BY <1>2, <1>3, <1>4
  <2>2. f + 1 .. e \subseteq 1 .. Len(db) /\ f \in Nat /\ e \in Nat
    BY <1>2, <2>1
  <2>3. QED
    BY <1>0, <1>2, <2>2 DEF Analyzed
<1>6. IsFiniteSet(A)
  BY <1>2, <1>5, FS_Subset
<1>7. db' = db /\ touched' = Counted(touched, db, A)
      /\ last' = IF B = {} THEN last ELSE db[Max(B)].node
  <2>1. CountTogether(B, half)
    BY <1>0
  <2>2. touched' = Counted(touched, db, {x \in B \ half : ~db[x].out})
        /\ last' = (IF B = {} THEN last ELSE db[Max(B)].node) /\ db' = db
    BY <2>1 DEF CountTogether
  <2>3. QED
    BY <1>0, <2>2
<1>17. /\ \A n : n \in halves => n \in halves'
       /\ \A x \in half : db[x].node \in halves'
  <2>1. CountTogether(B, half)
    BY <1>0
  <2>2. halves' = halves \cup {db[x].node : x \in half}
    BY <2>1 DEF CountTogether
  <2>3. QED
    BY <2>2
<1>8. \A n \in Nodes : /\ touched'[n] = touched[n] + Rows(db, A, n) /\ touched[n] \in Nat
                       /\ Rows(db, A, n) \in Nat
                       /\ Rows(db, A, n) > 0 <=> \E x \in A : db[x].node = n
  <2>1. SUFFICES ASSUME NEW n \in Nodes
                 PROVE  /\ touched'[n] = touched[n] + Rows(db, A, n) /\ touched[n] \in Nat
                        /\ Rows(db, A, n) \in Nat
                        /\ Rows(db, A, n) > 0 <=> \E x \in A : db[x].node = n
    OBVIOUS
  <2>2. touched'[n] = touched[n] + Rows(db, A, n)
    BY <1>7, CountedIs
  <2>3. touched[n] \in Nat
    BY <1>1 DEF Together
  <2>4. Rows(db, A, n) \in Nat /\ (Rows(db, A, n) > 0 <=> \E x \in A : db[x].node = n)
    BY <1>6, RowsCount
  <2>5. QED
    BY <2>2, <2>3, <2>4
<1>9. touched' \in [Nodes -> Nat]
  <2>1. touched' = [n \in Nodes |-> touched'[n]]
    BY <1>7 DEF Counted
  <2>2. \A n \in Nodes : touched'[n] \in Nat
    BY <1>8
  <2>3. QED
    BY <2>1, <2>2
<1>10. ASSUME NEW n \in Nodes, touched'[n] > 0 PROVE Mined(n)
  <2>1. touched[n] > 0 \/ Rows(db, A, n) > 0
    BY <1>8, <1>10
  <2>2. CASE touched[n] > 0
    BY <1>1, <2>2 DEF Together
  <2>3. CASE Rows(db, A, n) > 0
    BY <1>5, <1>8, <2>3 DEF Mined
  <2>4. QED
    BY <2>1, <2>2, <2>3
<1>11. PICK g \in DOMAIN db : /\ g = IF B = {} THEN f ELSE Max(B)
                              /\ db[g].node = last' /\ B = f + 1 .. g /\ f <= g
  <2>1. CASE B = {}
    <3>1. B = f + 1 .. f
      BY <1>5, <2>1
    <3>2. QED
      BY <1>3, <1>5, <1>7, <2>1, <3>1
  <2>2. CASE B # {}
    <3>1. PICK m : m = IF u <= e THEN u ELSE e
      OBVIOUS
    <3>2. m \in B /\ \A y \in B : y <= m
      <4>1. PICK y \in B : TRUE
        BY <2>2
      <4>2. y \in Int /\ f + 1 <= y /\ y <= e /\ y <= u
        BY <1>5, <4>1
      <4>3. m \in f + 1 .. e /\ m <= u
        BY <1>5, <3>1, <4>2
      <4>4. \A z \in B : z <= m
        BY <1>5, <3>1
      <4>5. QED
        BY <1>5, <4>3, <4>4
    <3>3. Max(B) = m
      <4>1. B \in SUBSET Int
        BY <1>2, <1>5
      <4>2. QED
        BY <3>2, <4>1, MaxIs
    <3>4. m \in f + 1 .. e /\ m <= u
      BY <1>5, <3>2
    <3>5. B = f + 1 .. m
      BY <1>5, <3>2, <3>4
    <3>6. f <= m /\ m \in DOMAIN db
      BY <1>5, <3>2, <3>4
    <3>7. QED
      BY <1>7, <2>2, <3>3, <3>5, <3>6
  <2>3. QED
    BY <2>1, <2>2
<1>12. g \in Nat
  BY <1>2
<1>13. ASSUME ~CentralTwice
       PROVE  /\ FirstAt(db, last') = g
              /\ \A n \in Nodes : touched'[n] <= 1
              /\ \A x \in DOMAIN db : touched'[db[x].node] > 0 => x <= g
              /\ \A x \in DOMAIN db : x <= g /\ ~db[x].out =>
                   touched'[db[x].node] > 0 \/ db[x].node \in halves'
  <2>1. \A x, y \in DOMAIN db : db[x].node = db[y].node => x = y
    <3>1. \A x, y \in DOMAIN db : db[x].node = db[y].node /\ db[x].node # Central => x = y
      BY <1>1 DEF FileInv, Stored
    <3>2. ~(Rows(db, DOMAIN db, Central) > 1)
      BY <1>13 DEF CentralTwice, Occurrences
    <3>3. QED
      BY <1>2, <3>1, <3>2, Distinct
  <2>2. FirstAt(db, last') = g
    <3>1. \A y \in DOMAIN db : db[y].node = db[g].node => g <= y
      BY <1>12, <2>1
    <3>2. FirstAt(db, db[g].node) = g
      BY <1>2, <3>1, FirstIs
    <3>3. QED
      BY <1>11, <3>2
  <2>3. /\ \A n \in Nodes : touched[n] <= 1
        /\ \A x \in DOMAIN db : touched[db[x].node] > 0 => x <= f
        /\ \A x \in DOMAIN db : x <= f /\ ~db[x].out =>
             touched[db[x].node] > 0 \/ db[x].node \in halves
    BY <1>1, <1>13 DEF Together, TouchedTo
  <2>4. \A x \in A : x \in DOMAIN db /\ x \in f + 1 .. g
    BY <1>0, <1>5, <1>11
  <2>5. ASSUME NEW n \in Nodes PROVE touched'[n] <= 1
    <3>1. Rows(db, A, n) \in 0 .. 1
      <4>1. \A x, y \in A : db[x].node = n /\ db[y].node = n => x = y
        BY <2>1, <2>4
      <4>2. QED
        BY <1>6, <4>1, RowsOnce
    <3>2. CASE touched[n] > 0
      <4>1. ~(Rows(db, A, n) > 0)
        <5>1. SUFFICES ASSUME NEW x \in A, db[x].node = n PROVE FALSE
          BY <1>8
        <5>2. x \in DOMAIN db /\ x \in f + 1 .. g
          BY <2>4
        <5>3. x <= f
          BY <2>3, <3>2, <5>1, <5>2
        <5>4. QED
          BY <1>5, <5>2, <5>3
      <4>2. QED
        BY <1>8, <2>3, <3>1, <4>1
    <3>3. CASE ~(touched[n] > 0)
      BY <1>8, <3>1, <3>3
    <3>4. QED
      BY <3>2, <3>3
  <2>6. ASSUME NEW x \in DOMAIN db, touched'[db[x].node] > 0 PROVE x <= g
    <3>1. touched[db[x].node] > 0 \/ Rows(db, A, db[x].node) > 0
      BY <1>2, <1>8, <2>6
    <3>2. CASE touched[db[x].node] > 0
      <4>1. x <= f /\ x \in Int
        BY <1>2, <2>3, <3>2
      <4>2. QED
        BY <1>5, <1>11, <1>12, <4>1
    <3>3. CASE Rows(db, A, db[x].node) > 0
      <4>1. PICK y \in A : db[y].node = db[x].node
        BY <1>2, <1>8, <3>3
      <4>2. y \in DOMAIN db /\ y \in f + 1 .. g
        BY <2>4
      <4>3. x = y
        BY <2>1, <4>1, <4>2
      <4>4. QED
        BY <1>5, <1>12, <4>2, <4>3
    <3>4. QED
      BY <3>1, <3>2, <3>3
  <2>7. ASSUME NEW x \in DOMAIN db, x <= g, ~db[x].out
        PROVE  touched'[db[x].node] > 0 \/ db[x].node \in halves'
    <3>1. PICK n \in Nodes : n = db[x].node
      BY <1>2
    <3>2. CASE x <= f
      <4>1. CASE touched[n] > 0
        BY <1>8, <3>1, <4>1
      <4>2. CASE n \in halves
        BY <1>17, <3>1, <4>2
      <4>3. QED
        BY <2>3, <2>7, <3>1, <3>2, <4>1, <4>2
    <3>4. CASE x \in half
      BY <1>17, <3>4
    <3>3. CASE ~(x <= f) /\ x \notin half
      <4>1. x \in f + 1 .. g
        <5>1. x \in 1 .. Len(db)
          BY <1>2
        <5>2. QED
          BY <1>5, <1>12, <2>7, <3>3, <5>1
      <4>2. x \in A
        BY <1>0, <1>11, <2>7, <3>3, <4>1
      <4>3. QED
        BY <1>8, <3>1, <4>2
    <3>5. QED
      BY <3>2, <3>3, <3>4
  <2>8. QED
    BY <2>2, <2>5, <2>6, <2>7
<1>14. Together'
  <2>1. Mined(last)' /\ \A n \in Nodes : touched'[n] > 0 => Mined(n)'
    <3>1. \E x \in DOMAIN db : db[x].node = last'
      BY <1>11
    <3>2. QED
      BY <1>7, <1>10, <3>1 DEF Mined
  <2>2. ASSUME ~CentralTwice' PROVE TouchedTo(FirstAt(db, last))'
    <3>1. ~CentralTwice
      BY <1>7, <2>2 DEF CentralTwice, Occurrences
    <3>2. FirstAt(db', last') = g
      BY <1>7, <1>13, <3>1
    <3>3. QED
      BY <1>7, <1>13, <3>1, <3>2 DEF TouchedTo, FirstAt
  <2>3. QED
    BY <1>9, <2>1, <2>2 DEF Together
<1>15. ASSUME ~CentralTwice, NEW x \in DOMAIN db, x <= f \/ (x \in Analyzed /\ x <= u), ~db[x].out
       PROVE  touched'[db[x].node] > 0 \/ db[x].node \in halves'
  <2>1. x <= g
    <3>1. CASE x <= f
      <4>1. x \in Int
        BY <1>2
      <4>2. QED
        BY <1>5, <1>11, <1>12, <3>1, <4>1
    <3>2. CASE x \in Analyzed /\ x <= u
      <4>1. x \in f + 1 .. g
        BY <1>0, <1>11, <3>2
      <4>2. QED
        BY <1>5, <1>12, <4>1
    <3>3. QED
      BY <1>15, <3>1, <3>2
  <2>2. QED
    BY <1>13, <1>15, <2>1
<1>16. QED
  BY <1>14, <1>15

\* The update that gets through counts what the file holds behind the last
\* commit that was counted.
LEMMA TouchCounts ==
  ASSUME CountInv, Touch
  PROVE  /\ Together'
         /\ ~CentralTwice =>
              \A x \in DOMAIN db : ~db[x].out => touched'[db[x].node] > 0 \/ db[x].node \in halves
<1>1. PICK f, e : f = FirstAt(db, last) /\ e = FirstAt(db, EndRevision)
  OBVIOUS
<1>2. FileInv /\ Together /\ pc = "touching" /\ pc' = "idle" /\ CountTogether(Analyzed, {})
      /\ halves' = halves
  BY DEF CountInv, Touch, CountTogether
<1>3. /\ db \in Seq(RowType) /\ DOMAIN db = 1 .. Len(db) /\ Len(db) \in Nat /\ Len(db) \in DOMAIN db
  BY <1>2, CountTypes, FileTypes DEF FileInv
<1>4. f \in 1 .. Len(db) /\ e \in 1 .. Len(db) /\ db[e].node = db[Len(db)].node
  <2>1. EndRevision = db[Len(db)].node /\ \E x \in DOMAIN db : db[x].node = last
    BY <1>2 DEF Together, Mined
  <2>2. e \in DOMAIN db /\ db[e].node = EndRevision
    <3>1. \E x \in DOMAIN db : db[x].node = EndRevision
      BY <1>3, <2>1
    <3>2. QED
      BY <1>1, <1>3, <3>1, FirstExists
  <2>3. f \in DOMAIN db
    BY <1>1, <1>3, <2>1, FirstExists
  <2>4. QED
    BY <1>3, <2>1, <2>2, <2>3
<1>5. Analyzed = f + 1 .. e /\ {x \in Analyzed : x <= e} = Analyzed
  <2>1. Analyzed = f + 1 .. e
    BY <1>1 DEF Analyzed
  <2>2. \A x \in f + 1 .. e : x <= e
    BY <1>4
  <2>3. QED
    BY <2>1, <2>2
<1>6. CountTogether({x \in Analyzed : x <= e}, {}) /\ e \in Int
  <2>1. e \in Int
    BY <1>4
  <2>2. QED
    BY <1>2, <1>5, <2>1
<1>7. /\ Together'
      /\ ~CentralTwice => \A x \in DOMAIN db : (x <= f \/ (x \in Analyzed /\ x <= e)) /\ ~db[x].out =>
                            touched'[db[x].node] > 0 \/ db[x].node \in halves'
  BY <1>1, <1>2, <1>6, PrefixCounts
<1>8. ASSUME ~CentralTwice, NEW x \in DOMAIN db PROVE x <= f \/ (x \in Analyzed /\ x <= e)
  <2>1. \A y, z \in DOMAIN db : db[y].node = db[z].node => y = z
    <3>1. \A y, z \in DOMAIN db : db[y].node = db[z].node /\ db[y].node # Central => y = z
      BY <1>2 DEF FileInv, Stored
    <3>2. ~(Rows(db, DOMAIN db, Central) > 1)
      BY <1>8 DEF CentralTwice, Occurrences
    <3>3. QED
      BY <1>3, <3>1, <3>2, Distinct
  <2>2. e = Len(db)
    BY <1>3, <1>4, <2>1
  <2>3. x \in 1 .. Len(db)
    BY <1>3
  <2>4. QED
    BY <1>3, <1>4, <1>5, <2>2, <2>3
<1>9. QED
  BY <1>2, <1>7, <1>8

\* One that fails counts a part of it, or nothing.
LEMMA TouchFailureCounts ==
  ASSUME CountInv, TouchFails
  PROVE  Together'
<1>1. PICK u \in {0} \cup Analyzed : \E half : CountTogether({x \in Analyzed : x <= u}, half)
  BY DEF TouchFails
<1>2. u \in Int
  BY DEF Analyzed
<1>3. pc = "touching" /\ pc' \in {"idle", "dead"}
  BY DEF TouchFails, Fails
<1>4. QED
  BY <1>1, <1>2, <1>3, PrefixCounts

LEMMA CountStep == CountInv /\ [Next]_vars => CountInv'
<1> SUFFICES ASSUME CountInv, [Next]_vars PROVE CountInv'
  OBVIOUS
<1>1. FileInv'
  BY FileStep DEF CountInv
<1>2. Experienced /\ Together
  BY DEF CountInv
<1>3. CASE World
  <2>1. UNCHANGED <<db, exp, last, touched, halves, pc, revs, failures, restarts>>
    BY <1>3 DEF World, databases
  <2>2. Experienced'
    BY <1>2, <2>1 DEF Experienced, Occurrences, Coming
  <2>3. QED
    BY <1>1, <1>2, <2>1, <2>2, TogetherStays DEF CountInv
<1>4. CASE Refresh
  <2> USE <1>4
  <2>1. UNCHANGED <<world, image, restarts>>
    BY DEF Refresh
  <2>2. CASE Start
    <3>1. UNCHANGED <<db, exp, last, touched, halves, failures, restarts>> /\ pc = "idle" /\ pc' = "mining"
      BY <2>1, <2>2 DEF Start, databases
    <3>2. Experienced'
      BY <1>2, <3>1 DEF Experienced, Occurrences, Coming
    <3>3. QED
      BY <1>1, <1>2, <3>1, <3>2, TogetherStays DEF CountInv
  <2>3. CASE SaveExperiences
    <3>1. Experienced'
      BY <2>1, <2>3, SaveCounts
    <3>2. Together'
      BY <1>2, <2>3, TogetherStays DEF SaveExperiences
    <3>3. QED
      BY <1>1, <3>1, <3>2 DEF CountInv
  <2>4. CASE MiningFails
    <3>1. Experienced'
      BY <2>1, <2>4, FailureCounts DEF MiningFails, Fails
    <3>2. Together'
      BY <1>2, <2>4, TogetherStays DEF MiningFails, Fails
    <3>3. QED
      BY <1>1, <3>1, <3>2 DEF CountInv
  <2>9. CASE MiningRaises
    <3>1. Experienced'
      BY <2>1, <2>9, RaiseCounts
    <3>2. UNCHANGED <<db, last, touched, halves>> /\ pc' = "idle"
      BY <2>9 DEF MiningRaises, Fails
    <3>3. Together'
      BY <1>2, <3>2, TogetherStays
    <3>4. QED
      BY <1>1, <3>1, <3>3 DEF CountInv
  <2>5. CASE AppendRows
    <3>1. Experienced'
      BY <2>1, <2>5, AppendExperienced
    <3>2. CASE revs # <<>>
      <4>1. Together'
        BY <2>1, <2>5, <3>2, AppendTogether
      <4>2. QED
        BY <1>1, <3>1, <4>1 DEF CountInv
    <3>3. CASE revs = <<>>
      <4>1. db' = db
        <5>1. db \in Seq(RowType)
          BY CountTypes DEF CountInv
        <5>2. db \o <<>> = db
          BY <5>1, ConcatEmptySeq
        <5>3. QED
          BY <2>5, <3>3, <5>2 DEF AppendRows
      <4>2. UNCHANGED <<last, touched, halves>> /\ pc' = "idle"
        BY <2>5, <3>3 DEF AppendRows
      <4>3. Together'
        BY <1>2, <4>1, <4>2, TogetherStays
      <4>4. QED
        BY <1>1, <3>1, <4>3 DEF CountInv
    <3>4. QED
      BY <3>2, <3>3
  <2>6. CASE AppendFails
    <3>1. UNCHANGED <<db, exp, last, touched, halves>> /\ pc = "appending" /\ Fails
      BY <2>6 DEF AppendFails, databases
    <3>2. Experienced'
      BY <2>1, <3>1, FailureCounts DEF Fails
    <3>3. Together'
      BY <1>2, <3>1, TogetherStays DEF Fails
    <3>4. QED
      BY <1>1, <3>2, <3>3 DEF CountInv
  <2>7. CASE Touch
    <3>1. UNCHANGED <<db, exp, failures, restarts>> /\ pc = "touching" /\ pc' = "idle"
      BY <2>1, <2>7 DEF Touch, CountTogether
    <3>2. Experienced'
      BY <1>2, <3>1 DEF Experienced, Occurrences, Coming
    <3>3. Together'
      BY <2>7, TouchCounts
    <3>4. QED
      BY <1>1, <3>2, <3>3 DEF CountInv
  <2>10. CASE TouchFails
    <3>1. UNCHANGED <<db, exp, restarts>> /\ pc' \in {"idle", "dead"} /\ failures' = failures + 1
      BY <2>1, <2>10 DEF TouchFails, Fails, CountTogether
    <3>2. Experienced'
      BY <3>1, FailureCounts
    <3>3. Together'
      BY <2>10, TouchFailureCounts
    <3>4. QED
      BY <1>1, <3>2, <3>3 DEF CountInv
  <2>8. QED
    BY <2>2, <2>3, <2>4, <2>5, <2>6, <2>7, <2>9, <2>10 DEF Refresh
<1>5. CASE Restart /\ UNCHANGED <<world, image>>
  BY <1>5, RestartCounts
<1>8. CASE Killed /\ UNCHANGED <<world, image, restarts>>
  <2>1. UNCHANGED <<db, exp, last, touched, halves, restarts>> /\ pc' = "dead" /\ failures' = failures + 1
    BY <1>8 DEF Killed, databases
  <2>2. Experienced'
    BY <2>1, FailureCounts
  <2>3. Together'
    BY <1>2, <2>1, TogetherStays
  <2>4. QED
    BY <1>1, <2>2, <2>3 DEF CountInv
<1>6. CASE UNCHANGED vars
  <2>1. UNCHANGED <<db, exp, last, touched, halves, pc, revs, failures, restarts>>
    BY <1>6 DEF vars, databases
  <2>2. Experienced'
    BY <1>2, <2>1 DEF Experienced, Occurrences, Coming
  <2>3. QED
    BY <1>1, <1>2, <2>1, <2>2, TogetherStays DEF CountInv
<1>7. QED
  BY <1>3, <1>4, <1>5, <1>6, <1>8 DEF Next, Dies

LEMMA CountAlways == Spec => []CountInv
<1>1. Init => CountInv
  BY CountInit
<1>2. CountInv /\ [Next]_vars => CountInv'
  BY CountStep
<1>3. QED
  BY <1>1, <1>2, PTL DEF Spec

-------------------------------------------------------------------------------
(* The theorems                                                              *)

\* data/commits.json has no gaps but a commit of mozilla-central that came as a
\* side of a merge, and what landed before one that the image had already, and no
\* commit twice but that one: download_commits goes on where the file ends,
\* whatever failed before.
THEOREM FileWhole == Spec => []FileIsWhole
<1>1. ASSUME CountInv PROVE FileIsWhole
  <2>1. ASSUME NEW n \in Nodes \ {Central} PROVE Occurrences(n) <= 1
    <3>1. \A x, y \in DOMAIN db : db[x].node = n /\ db[y].node = n => x = y
      BY <1>1 DEF CountInv, FileInv, Stored
    <3>2. IsFiniteSet(DOMAIN db)
      BY <1>1, CountTypes DEF CountInv
    <3>3. Rows(db, DOMAIN db, n) \in 0 .. 1
      BY <3>1, <3>2, RowsOnce
    <3>4. QED
      BY <3>3 DEF Occurrences
  <2>2. QED
    BY <1>1, <2>1 DEF FileIsWhole, CountInv, FileInv, NoGaps
<1>2. CountInv => FileIsWhole
  BY <1>1
<1>3. QED
  BY <1>2, CountAlways, PTL

\* calculate_experiences and update_touched_together count a commit as often as
\* it is stored, but for the refreshes that failed or were killed, once each, and
\* for the commit of mozilla-central.
THEOREM CountsFollow == Spec => []CountedAsStored
<1>1. CountInv => CountedAsStored
  BY DEF CountInv, Experienced, Together, TouchedTo, CountedAsStored
<1>2. QED
  BY <1>1, CountAlways, PTL

\* When update_touched_together gets through, every commit of the file has counted
\* that is not backed out, what earlier updates that failed had left included, but
\* for the commit amid which one failed; unless the commit of mozilla-central is
\* stored twice.
THEOREM UpdateCatchesUp == Spec => TouchCatchesUp
<1>1. ASSUME CountInv, Next, pc = "touching", pc' = "idle", failures' = failures,
             restarts' = restarts, ~CentralTwice
      PROVE  \A x \in DOMAIN db : ~db[x].out => touched'[db[x].node] > 0 \/ db[x].node \in halves
  <2>1. Touch
    <3>1. ~World
      BY <1>1 DEF World
    <3>2. ~Restart
      BY <1>1 DEF Restart, CountInv, Experienced
    <3>3. Refresh
      BY <1>1, <3>1, <3>2 DEF Next, Dies, Killed
    <3>4. ~Fails
      BY <1>1 DEF Fails, CountInv, Experienced
    <3>5. QED
      BY <1>1, <3>3, <3>4 DEF Refresh, Start, SaveExperiences, MiningRaises, MiningFails, AppendRows,
                              AppendFails, TouchFails
  <2>2. QED
    BY <1>1, <2>1, TouchCounts
<1>2. CountInv /\ [Next]_vars =>
        [pc = "touching" /\ pc' = "idle" /\ failures' = failures /\ restarts' = restarts
           /\ ~CentralTwice =>
           \A x \in DOMAIN db :
             ~db[x].out => touched'[db[x].node] > 0 \/ db[x].node \in halves]_vars
  BY <1>1
<1>3. QED
  BY <1>2, CountAlways, PTL DEF Spec, TouchCatchesUp

==============================================================================
