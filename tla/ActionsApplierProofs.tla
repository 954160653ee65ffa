------------------------ MODULE ActionsApplierProofs ------------------------
(***************************************************************************)
(* What hackbot-api does with recorded actions, for any number of them of  *)
(* any kinds on any bugs.  First coalescing: what is dispatched at once    *)
(* covers what is pending, each action once.  Then one pass of coalesced   *)
(* PUTs (BugzillaPuts), and the actions applier, for any sessions, deaths, *)
(* policies and leases, outlived ones included.                            *)
(***************************************************************************)
EXTENDS ActionsApplier, BugzillaPuts, FiniteSetTheorems, WellFoundedInduction, TLAPS

-------------------------------------------------------------------------------
(* Coalescing                                                                *)

\* The image of a finite set under a function is finite.
LEMMA ImageIsFinite ==
  ASSUME NEW S, IsFiniteSet(S), NEW T, NEW f \in [S -> T],
         NEW I, I = {f[x] : x \in S}
  PROVE  IsFiniteSet(I)
<1>1. f \in Surjection(S, I)
  BY DEF Surjection
<1>2. QED
  BY <1>1, FS_Surjection

\* No element of S has fewer elements on its side of S than x has.
Extreme(S, side, x) == \A y \in S : ~(side[y] \subseteq side[x] /\ side[y] # side[x])

\* Strict inclusion is well-founded on the subsets of a finite set, which is
\* all the induction that the extrema of finite sets need.
LEMMA ExtremeExists ==
  ASSUME NEW S, IsFiniteSet(S), S # {}, NEW side \in [S -> SUBSET S]
  PROVE  \E x \in S : Extreme(S, side, x)
<1>1. IsWellFoundedOn(StrictSubsetOrdering(S), SUBSET S)
  BY FS_StrictSubsetOrderingWellFounded, FS_FiniteSubsetsOfFinite
<1>2. PICK T : T = {side[x] : x \in S}
  OBVIOUS
<1>3. T \subseteq SUBSET S /\ T # {}
  BY <1>2
<1>4. PICK t \in T : \A y \in T : <<y, t>> \notin StrictSubsetOrdering(S)
  BY <1>1, <1>3, WFMin
<1>5. PICK x \in S : t = side[x]
  BY <1>2
<1>6. ASSUME NEW y \in S PROVE ~(side[y] \subseteq side[x] /\ side[y] # side[x])
  <2>1. <<side[y], side[x]>> \notin StrictSubsetOrdering(S)
    BY <1>2, <1>4, <1>5
  <2>2. QED
    BY <2>1 DEF StrictSubsetOrdering
<1>7. QED
  BY <1>6 DEF Extreme

LEMMA MinExists ==
  ASSUME NEW S \in SUBSET Int, IsFiniteSet(S), S # {}
  PROVE  Min(S) \in S /\ \A y \in S : Min(S) <= y
<1>1. PICK side \in [S -> SUBSET S] : \A x \in S : side[x] = {y \in S : y <= x}
  <2>1. [x \in S |-> {y \in S : y <= x}] \in [S -> SUBSET S]
    OBVIOUS
  <2>2. QED
    BY <2>1
<1>2. PICK x \in S : Extreme(S, side, x)
  BY ExtremeExists
<1>3. ASSUME NEW y \in S PROVE x <= y
  <2>1. x \in Int /\ y \in Int
    OBVIOUS
  <2>2. SUFFICES ASSUME y < x PROVE FALSE
    BY <2>1
  <2>3. ASSUME NEW z \in side[y] PROVE z \in side[x]
    <3>1. z \in S /\ z \in Int
      BY <1>1
    <3>2. QED
      BY <1>1, <2>1, <2>2, <3>1
  <2>4. x \in side[x] /\ x \notin side[y]
    BY <1>1, <2>1, <2>2
  <2>5. QED
    BY <1>2, <2>3, <2>4 DEF Extreme
<1>4. QED
  BY <1>3 DEF Min

LEMMA MaxExists ==
  ASSUME NEW S \in SUBSET Int, IsFiniteSet(S), S # {}
  PROVE  Max(S) \in S /\ \A y \in S : y <= Max(S)
<1>1. PICK side \in [S -> SUBSET S] : \A x \in S : side[x] = {y \in S : y >= x}
  <2>1. [x \in S |-> {y \in S : y >= x}] \in [S -> SUBSET S]
    OBVIOUS
  <2>2. QED
    BY <2>1
<1>2. PICK x \in S : Extreme(S, side, x)
  BY ExtremeExists
<1>3. ASSUME NEW y \in S PROVE x >= y
  <2>1. x \in Int /\ y \in Int
    OBVIOUS
  <2>2. SUFFICES ASSUME y > x PROVE FALSE
    BY <2>1
  <2>3. ASSUME NEW z \in side[y] PROVE z \in side[x]
    <3>1. z \in S /\ z \in Int
      BY <1>1
    <3>2. QED
      BY <1>1, <2>1, <2>2, <3>1
  <2>4. x \in side[x] /\ x \notin side[y]
    BY <1>1, <2>1, <2>2
  <2>5. QED
    BY <1>2, <2>3, <2>4 DEF Extreme
<1>4. PICK m \in S : m = Max(S) /\ \A y \in S : m >= y
  BY <1>3 DEF Max
<1>5. QED
  BY <1>4

\* Places are counted, so gaps are numbers.
LEMMA GapIsNat ==
  ASSUME NEW P \in SUBSET Int, IsFiniteSet(P), NEW i \in P, NEW j \in P
  PROVE  Gap(P, i, j) \in Int
<1>1. \A k \in P : Place(P, k) \in Nat
  <2> TAKE k \in P
  <2>1. IsFiniteSet({l \in P : l < k})
    BY FS_Subset
  <2>2. QED
    BY <2>1, FS_CardinalityType DEF Place
<1>2. QED
  BY <1>1 DEF Gap

\* A bug with updates and comments has a closest comment.
LEMMA ClosestExists ==
  ASSUME NEW A, NEW P \in SUBSET Int, IsFiniteSet(P), NEW b,
         Updates(A, P, b) # {}, Comments(A, P, b) # {}
  PROVE  ClosestComment(A, P, b) \in Comments(A, P, b)
<1> DEFINE U == Updates(A, P, b)
           C == Comments(A, P, b)
           Gaps(c) == {Gap(P, c, u) : u \in U}
           Near(c) == Min(Gaps(c))
<1>1. U \subseteq P /\ C \subseteq P /\ IsFiniteSet(U) /\ IsFiniteSet(C)
  <2>1. U \subseteq P /\ C \subseteq P
    BY DEF Updates, Comments
  <2>2. QED
    BY <2>1, FS_Subset
<1>2. ASSUME NEW c \in C PROVE Near(c) \in Int
  <2>1. Gaps(c) \in SUBSET Int
    BY <1>1, GapIsNat
  <2>2. PICK f \in [U -> Int] : \A u \in U : f[u] = Gap(P, c, u)
    <3>1. [u \in U |-> Gap(P, c, u)] \in [U -> Int]
      BY <1>1, GapIsNat
    <3>2. QED
      BY <3>1
  <2>3. Gaps(c) = {f[u] : u \in U} /\ Gaps(c) # {}
    BY <2>2
  <2>4. IsFiniteSet(Gaps(c))
    <3>1. PICK G : G = Gaps(c)
      OBVIOUS
    <3>2. G = {f[u] : u \in U}
      BY <2>3, <3>1
    <3> HIDE DEF Gaps, U, C
    <3>3. IsFiniteSet(G)
      BY <1>1, <3>2, ImageIsFinite
    <3>4. QED
      BY <3>1, <3>3
  <2> HIDE DEF Gaps
  <2>5. QED
    BY <2>1, <2>3, <2>4, MinExists
<1> HIDE DEF U, C, Near
<1>3. PICK n \in {Near(c) : c \in C} : \A c \in C : n <= Near(c)
  <2> DEFINE S == {Near(c) : c \in C}
  <2>1. S \in SUBSET Int /\ S # {}
    BY <1>2 DEF C
  <2>a. PICK f \in [C -> Int] : \A c \in C : f[c] = Near(c)
    <3>1. [c \in C |-> Near(c)] \in [C -> Int]
      BY <1>2
    <3>2. QED
      BY <3>1
  <2>b. S = {f[c] : c \in C}
    BY <2>a
  <2> HIDE DEF S
  <2>2. IsFiniteSet(S)
    BY <1>1, <2>a, <2>b, ImageIsFinite
  <2>3. Min(S) \in S /\ \A y \in S : Min(S) <= y
    BY <2>1, <2>2, MinExists
  <2>4. QED
    BY <2>3 DEF S
<1>4. PICK c \in C : Near(c) = n /\ \A d \in C : Near(d) = n => c <= d
  <2> DEFINE S == {c \in C : Near(c) = n}
  <2>1. S \in SUBSET Int /\ S # {} /\ IsFiniteSet(S)
    BY <1>1, <1>3, FS_Subset
  <2>2. Min(S) \in S /\ \A y \in S : Min(S) <= y
    BY <2>1, MinExists
  <2>3. QED
    BY <2>2
<1>5. \A d \in C : Near(c) < Near(d) \/ (Near(c) = Near(d) /\ c <= d)
  BY <1>2, <1>3, <1>4
<1>6. QED
  BY <1>5 DEF ClosestComment, C, U, Near

LEMMA GroupIsPending ==
  ASSUME NEW A, NEW P \in SUBSET Int, IsFiniteSet(P), NEW b, Updates(A, P, b) # {}
  PROVE  /\ Group(A, P, b) \subseteq Updates(A, P, b) \cup Comments(A, P, b)
         /\ Updates(A, P, b) \subseteq Group(A, P, b)
         /\ Group(A, P, b) \subseteq P
<1>1. Updates(A, P, b) \cup Comments(A, P, b) \subseteq P
  BY DEF Updates, Comments
<1>2. QED
  BY <1>1, ClosestExists DEF Group

\* No action is in the groups of two bugs.
LEMMA GroupsDisjoint ==
  ASSUME NEW A, NEW P \in SUBSET Int, IsFiniteSet(P), NEW b, NEW c,
         Updates(A, P, b) # {}, Updates(A, P, c) # {}, b # c
  PROVE  Group(A, P, b) \cap Group(A, P, c) = {}
<1>1. \A i \in Group(A, P, b) : A[i].bug = b
  BY GroupIsPending DEF Updates, Comments
<1>2. \A i \in Group(A, P, c) : A[i].bug = c
  BY GroupIsPending DEF Updates, Comments
<1>3. QED
  BY <1>1, <1>2

\* The units cover what is pending and nothing else, and do not meet.
THEOREM UnitsPartition ==
  ASSUME NEW A, NEW P \in SUBSET Int, IsFiniteSet(P)
  PROVE  /\ Units(A, P) \in SUBSET (SUBSET P)
         /\ UNION Units(A, P) = P
         /\ {} \notin Units(A, P)
         /\ \A u, v \in Units(A, P) : u # v => u \cap v = {}
<1> DEFINE groups == {G \in PlanCoalescedGroups(A, P) : G \cap Referenced(A, P) = {}}
<1>1. ASSUME NEW G \in groups
      PROVE  \E b \in Bugs : Updates(A, P, b) # {} /\ G = Group(A, P, b)
  BY DEF PlanCoalescedGroups
<1>2. ASSUME NEW G \in groups PROVE G \subseteq P /\ G # {}
  <2>1. PICK b \in Bugs : Updates(A, P, b) # {} /\ G = Group(A, P, b)
    BY <1>1
  <2>2. QED
    BY <2>1, GroupIsPending
<1>3. \A G, H \in groups : G # H => G \cap H = {}
  BY <1>1, GroupsDisjoint
<1>4. Units(A, P) = groups \cup {{i} : i \in P \ UNION groups}
  BY DEF Units
<1> HIDE DEF groups
<1>5. Units(A, P) \in SUBSET (SUBSET P) /\ {} \notin Units(A, P)
  BY <1>2, <1>4
<1>6. UNION Units(A, P) = P
  BY <1>2, <1>4
<1>7. ASSUME NEW u \in Units(A, P), NEW v \in Units(A, P), u # v
      PROVE  u \cap v = {}
  <2>1. CASE u \in groups /\ v \in groups
    BY <1>3, <1>7, <2>1
  <2>2. CASE u \notin groups
    <3>1. PICK i \in P \ UNION groups : u = {i}
      BY <1>4, <2>2
    <3>2. QED
      BY <1>4, <1>7, <3>1
  <2>3. CASE v \notin groups
    <3>1. PICK i \in P \ UNION groups : v = {i}
      BY <1>4, <2>3
    <3>2. QED
      BY <1>4, <1>7, <3>1
  <2>4. QED
    BY <2>1, <2>2, <2>3
<1>8. QED
  BY <1>5, <1>6, <1>7

\* There is a next unit as long as there is one.
LEMMA NextUnitExists ==
  ASSUME NEW S \in SUBSET Int, IsFiniteSet(S), NEW T \in SUBSET (SUBSET S),
         T # {}, {} \notin T
  PROVE  NextUnit(T) \in T /\ \A v \in T : Max(NextUnit(T)) <= Max(v)
<1>1. \A u \in T : Max(u) \in S
  BY MaxExists, FS_Subset
<1> DEFINE M == {Max(u) : u \in T}
<1>2. M \in SUBSET S /\ M # {}
  BY <1>1
<1>3. IsFiniteSet(M)
  BY <1>2, FS_Subset
<1>4. Min(M) \in M /\ \A y \in M : Min(M) <= y
  BY <1>2, <1>3, MinExists
<1>5. PICK u \in T : Max(u) = Min(M)
  BY <1>4
<1>6. \A v \in T : Max(u) <= Max(v)
  BY <1>4, <1>5
<1>7. QED
  BY <1>6 DEF NextUnit

-------------------------------------------------------------------------------
(* One pass of PUTs: order and completeness                                  *)

\* What is still to be sent is part of the plan, and everything else was sent
\* once.  References point backwards.
PutsInv ==
  /\ \A i \in Positions : actions[i].refs \subseteq 1..(i - 1)
  /\ unsent \subseteq Units(actions, Positions)
  /\ sent = [i \in Positions |-> IF i \in UNION unsent THEN 0 ELSE 1]

LEMMA PositionsFinite == Positions \in SUBSET Int /\ IsFiniteSet(Positions)
BY PutsAssumption, FS_Interval DEF Positions

LEMMA PutsInitInv == PutsInit => PutsInv
<1> SUFFICES ASSUME PutsInit PROVE PutsInv
  OBVIOUS
<1>1. PICK what \in [Positions -> Recordable], refs \in References :
        actions = [i \in Positions |-> [type |-> what[i].type, bug |-> what[i].bug,
                                     changes |-> what[i].changes, refs |-> refs[i]]]
  BY DEF PutsInit
<1>2. \A i \in Positions : actions[i].refs \subseteq 1..(i - 1)
  BY <1>1 DEF RefSets, References
<1>3. UNION unsent = Positions
  BY PositionsFinite, UnitsPartition DEF PutsInit
<1>4. QED
  BY <1>2, <1>3 DEF PutsInit, PutsInv

\* What is sent next is a unit of the plan, and shares nothing with the others.
LEMMA NextIsPlanned ==
  ASSUME PutsInv, unsent # {}
  PROVE  /\ NextUnit(unsent) \in unsent
         /\ \A v \in unsent : Max(NextUnit(unsent)) <= Max(v)
         /\ \A v \in unsent : v \in SUBSET Positions /\ v # {}
         /\ \A v \in unsent \ {NextUnit(unsent)} : v \cap NextUnit(unsent) = {}
<1>1. /\ Units(actions, Positions) \in SUBSET (SUBSET Positions) /\ {} \notin Units(actions, Positions)
      /\ \A u, v \in Units(actions, Positions) : u # v => u \cap v = {}
  BY PositionsFinite, UnitsPartition
<1>2. unsent \in SUBSET (SUBSET Positions) /\ {} \notin unsent
  BY <1>1 DEF PutsInv
<1>3. NextUnit(unsent) \in unsent /\ \A v \in unsent : Max(NextUnit(unsent)) <= Max(v)
  BY <1>2, PositionsFinite, NextUnitExists
<1>4. \A v \in unsent \ {NextUnit(unsent)} : v \cap NextUnit(unsent) = {}
  BY <1>1, <1>3 DEF PutsInv
<1>5. QED
  BY <1>2, <1>3, <1>4

LEMMA PutsStepKeeps == PutsInv /\ [PutsNext]_putsVars => PutsInv'
<1> SUFFICES ASSUME PutsInv, [PutsNext]_putsVars PROVE PutsInv'
  OBVIOUS
<1>1. CASE UNCHANGED putsVars
  BY <1>1 DEF PutsInv, putsVars
<1>2. CASE PutsNext
  <2>1. PICK u \in unsent : u = NextUnit(unsent) /\ Send(u)
    BY <1>2, NextIsPlanned DEF PutsNext
  <2>a. \A v \in unsent \ {u} : v \cap u = {}
    BY <2>1, NextIsPlanned
  <2>b. unsent' = unsent \ {u}
    BY <2>1 DEF Send
  <2>2. \A i \in Positions : i \in UNION unsent' <=> (i \in UNION unsent /\ i \notin u)
    BY <2>a, <2>b
  <2>c. \A i \in u : i \in UNION unsent
    OBVIOUS
  <2>3. sent' = [i \in Positions |-> IF i \in UNION unsent' THEN 0 ELSE 1]
    <3>1. sent' = [i \in Positions |-> IF i \in u THEN sent[i] + 1 ELSE sent[i]]
      BY <2>1 DEF Send
    <3>2. \A i \in Positions : sent[i] = IF i \in UNION unsent THEN 0 ELSE 1
      BY DEF PutsInv
    <3>3. \A i \in Positions : (IF i \in u THEN sent[i] + 1 ELSE sent[i])
                          = (IF i \in UNION unsent' THEN 0 ELSE 1)
      BY <2>2, <2>c, <3>2
    <3>4. QED
      BY <3>1, <3>3
  <2>4. QED
    BY <2>1, <2>b, <2>3 DEF Send, PutsInv
<1>3. QED
  BY <1>1, <1>2

THEOREM PutsInvariance == PutsSpec => []PutsInv
BY PutsInitInv, PutsStepKeeps, PTL DEF PutsSpec

-----------------------------------------------------------------------------
(* What a unit is                                                          *)

\* A unit is a single action, or the updates of a bug and at most one of its
\* comments, to which no pending action refers.
LEMMA UnitShape ==
  ASSUME NEW u \in Units(actions, Positions)
  PROVE  \/ \E i \in Positions : u = {i}
         \/ /\ u \cap Referenced(actions, Positions) = {}
            /\ \E b \in Bugs : \A i \in u : actions[i].bug = b
            /\ \E c \in Positions : \A i \in u : actions[i].type = "bugzilla.add_comment" => i = c
<1>1. CASE u \in PlanCoalescedGroups(actions, Positions) /\ u \cap Referenced(actions, Positions) = {}
  <2>1. PICK b \in Bugs : Updates(actions, Positions, b) # {} /\ u = Group(actions, Positions, b)
    BY <1>1 DEF PlanCoalescedGroups
  <2>2. \A i \in u : actions[i].bug = b
    BY <2>1, PositionsFinite, GroupIsPending DEF Updates, Comments
  <2>3. \E c \in Positions : \A i \in u : actions[i].type = "bugzilla.add_comment" => i = c
    <3>1. CASE Comments(actions, Positions, b) = {}
      BY <2>1, <3>1 DEF Group, Updates
    <3>2. CASE Comments(actions, Positions, b) # {}
      <4>1. ClosestComment(actions, Positions, b) \in Comments(actions, Positions, b)
        BY <2>1, <3>2, PositionsFinite, ClosestExists
      <4>2. PICK c \in Positions : c = ClosestComment(actions, Positions, b)
        BY <4>1 DEF Comments
      <4>3. u = Updates(actions, Positions, b) \cup {c}
        BY <2>1, <3>2, <4>2 DEF Group
      <4>4. QED
        BY <4>2, <4>3 DEF Updates
    <3>3. QED
      BY <3>1, <3>2
  <2>4. QED
    BY <1>1, <2>2, <2>3
<1>2. CASE ~(u \in PlanCoalescedGroups(actions, Positions) /\ u \cap Referenced(actions, Positions) = {})
  BY <1>2 DEF Units
<1>3. QED
  BY <1>1, <1>2

\* Every action takes effect once, and what is sent at once is one comment and
\* one bug at most (plan_coalesced_groups, merge_resolved).
THEOREM OnceEach == PutsSpec => []EachOnce
<1>1. ASSUME PutsInv PROVE EachOnce
  <2>1. \A i \in Positions : sent[i] <= 1 /\ (unsent = {} => sent[i] = 1)
    BY <1>1 DEF PutsInv
  <2>2. ASSUME NEW u \in unsent
        PROVE  /\ Cardinality({i \in u : actions[i].type = "bugzilla.add_comment"}) <= 1
               /\ Cardinality(u) > 1 => \A i, j \in u : actions[i].bug = actions[j].bug
    <3>1. u \in Units(actions, Positions)
      BY <1>1 DEF PutsInv
    <3>2. PICK c \in Positions : {i \in u : actions[i].type = "bugzilla.add_comment"} \subseteq {c}
      <4>1. CASE \E i \in Positions : u = {i}
        BY <4>1
      <4>2. CASE \E c \in Positions : \A i \in u : actions[i].type = "bugzilla.add_comment" => i = c
        BY <4>2
      <4>3. QED
        BY <3>1, <4>1, <4>2, UnitShape
    <3>3. Cardinality({i \in u : actions[i].type = "bugzilla.add_comment"}) <= 1
      <4>1. IsFiniteSet({c}) /\ Cardinality({c}) = 1
        BY FS_Singleton
      <4>2. QED
        BY <3>2, <4>1, FS_Subset
    <3>4. Cardinality(u) > 1 => \A i, j \in u : actions[i].bug = actions[j].bug
      <4>1. CASE \E i \in Positions : u = {i}
        BY <4>1, FS_Singleton
      <4>2. CASE \E b \in Bugs : \A i \in u : actions[i].bug = b
        BY <4>2
      <4>3. QED
        BY <3>1, <4>1, <4>2, UnitShape
    <3>5. QED
      BY <3>3, <3>4
  <2>3. QED
    BY <2>1, <2>2 DEF EachOnce
<1>2. QED
  BY <1>1, PutsInvariance, PTL

\* What is sent next awaits no result that is still to come: coalescing never
\* reorders a reference before what it refers to (_apply_pending_rows).
THEOREM Backwards == PutsSpec => []DependenciesFirst
<1>1. ASSUME PutsInv PROVE DependenciesFirst
  <2>1. SUFFICES ASSUME NEW u \in unsent, u = NextUnit(unsent), NEW i \in u,
                        NEW v \in unsent, NEW j \in v, j \in actions[i].refs
                 PROVE  FALSE
    BY <1>1, NextIsPlanned DEF DependenciesFirst
  <2>2. i \in Positions /\ j \in Positions /\ v \subseteq Positions /\ u \subseteq Positions
    BY <1>1, NextIsPlanned
  <2>3. j < i
    BY <1>1, <2>1, <2>2 DEF PutsInv, Positions
  <2>4. j \in Referenced(actions, Positions)
    BY <2>1, <2>2 DEF Referenced
  <2>5. v = {j}
    <3>1. v \in Units(actions, Positions)
      BY <1>1 DEF PutsInv
    <3>2. QED
      BY <2>4, <3>1, UnitShape
  <2>6. Max(u) <= Max(v)
    BY <1>1, <2>1, NextIsPlanned
  <2>7. i <= Max(u)
    BY <2>2, PositionsFinite, FS_Subset, MaxExists
  <2>8. Max(v) = j
    <3>1. v \in SUBSET Int /\ IsFiniteSet(v) /\ v # {}
      BY <2>2, <2>5, PositionsFinite, FS_Subset
    <3>2. Max(v) \in v
      BY <3>1, MaxExists
    <3>3. QED
      BY <2>5, <3>2
  <2>9. Max(u) \in Int
    BY <2>2, PositionsFinite, FS_Subset, MaxExists
  <2>10. QED
    BY <2>2, <2>3, <2>6, <2>7, <2>8, <2>9, PositionsFinite
<1>2. QED
  BY <1>1, PutsInvariance, PTL

-------------------------------------------------------------------------------
(* One pass of PUTs: the outcome                                             *)

\* Only updates change fields.
OnlyUpdates ==
  \A i \in Positions : actions[i].type # "bugzilla.update_bug" => actions[i].changes = [f \in Fields |-> NoChange]

LEMMA MaxOfUnion ==
  ASSUME NEW S \in SUBSET Int, IsFiniteSet(S), NEW T \in SUBSET Int, IsFiniteSet(T), T # {},
         \A i \in S : i <= Max(T)
  PROVE  Max(S \cup T) = Max(T)
<1>1. S \cup T \in SUBSET Int /\ IsFiniteSet(S \cup T) /\ S \cup T # {}
  BY FS_Union
<1>2. Max(S \cup T) \in S \cup T /\ \A y \in S \cup T : y <= Max(S \cup T)
  BY <1>1, MaxExists
<1>3. Max(T) \in T /\ \A y \in T : y <= Max(T)
  BY MaxExists
<1>4. Max(S \cup T) <= Max(T)
  BY <1>2, <1>3
<1>5. Max(T) <= Max(S \cup T)
  BY <1>2, <1>3
<1>6. Max(S \cup T) \in Int /\ Max(T) \in Int
  BY <1>1, <1>2, <1>3
<1>7. QED
  BY <1>4, <1>5, <1>6

LEMMA MaxOfOne ==
  ASSUME NEW i \in Int
  PROVE  Max({i}) = i
<1>1. {i} \in SUBSET Int /\ {i} # {} /\ IsFiniteSet({i})
  BY FS_Singleton
<1>2. Max({i}) \in {i}
  BY <1>1, MaxExists
<1>3. QED
  BY <1>2

\* One step of Plainly, of the recursion g.
PlainStep(g, k) ==
  IF k = 0 THEN Fresh
  ELSE [b \in Bugs |-> IF actions[k].bug = b THEN AfterPut(g[k - 1][b], actions[k].changes)
                       ELSE g[k - 1][b]]

PlainUpTo(g, n) == g = [k \in 0..n |-> PlainStep(g, k)]

\* The recursion has a solution, up to any number of actions.
LEMMA PlainExists ==
  ASSUME NEW n \in 0..Length
  PROVE  \E g : PlainUpTo(g, n)
<1> DEFINE None == {m \in 0..Length : ~ \E g : PlainUpTo(g, m)}
<1>1. Length \in Nat
  BY PutsAssumption
<1>2. SUFFICES ASSUME None # {} PROVE FALSE
  OBVIOUS
<1>3. None \in SUBSET Int /\ IsFiniteSet(None)
  <2>1. IsFiniteSet(0..Length)
    BY <1>1, FS_Interval
  <2>2. None \in SUBSET (0..Length) /\ None \in SUBSET Int
    OBVIOUS
  <2>3. QED
    BY <2>1, <2>2, FS_Subset
<1>4. PICK m \in None : \A l \in None : m <= l
  BY <1>2, <1>3, MinExists
<1>5. m \in 0..Length /\ ~ \E g : PlainUpTo(g, m)
  BY <1>4
<1>6. CASE m = 0
  <2>1. PICK g : g = [k \in 0..0 |-> Fresh]
    OBVIOUS
  <2>2. PlainUpTo(g, 0)
    BY <2>1 DEF PlainUpTo, PlainStep
  <2>3. QED
    BY <1>5, <1>6, <2>2
<1>7. CASE m # 0
  <2>1. m - 1 \in 0..Length /\ m - 1 < m
    BY <1>1, <1>5, <1>7
  <2>2. PICK g : PlainUpTo(g, m - 1)
    BY <1>4, <2>1
  <2>3. PICK h : h = [k \in 0..m |-> IF k < m THEN g[k] ELSE PlainStep(g, m)]
    OBVIOUS
  <2>4. ASSUME NEW k \in 0..m PROVE h[k] = PlainStep(h, k)
    <3>1. k # 0 => h[k - 1] = g[k - 1]
      BY <1>5, <2>3
    <3>2. PlainStep(h, k) = PlainStep(g, k)
      BY <3>1 DEF PlainStep
    <3>3. k < m => g[k] = PlainStep(g, k)
      BY <1>5, <2>2 DEF PlainUpTo
    <3>4. k < m \/ k = m
      BY <1>5
    <3>5. h[k] = IF k < m THEN g[k] ELSE PlainStep(g, m)
      BY <2>3
    <3>6. QED
      BY <1>5, <3>2, <3>3, <3>4, <3>5
  <2>5. PlainUpTo(h, m)
    BY <2>3, <2>4 DEF PlainUpTo
  <2>6. QED
    BY <1>5, <2>5
<1>8. QED
  BY <1>6, <1>7

\* The bugs when the first actions are sent on their own.
After == CHOOSE g : PlainUpTo(g, Length)

LEMMA PlainlyIs ==
  /\ Plainly = After[Length]
  /\ \A k \in 0..Length : After[k] = PlainStep(After, k)
<1>1. Length \in 0..Length
  BY PutsAssumption
<1>2. PlainUpTo(After, Length)
  BY <1>1, PlainExists DEF After
<1>3. \A k \in 0..Length : After[k] = PlainStep(After, k)
  BY <1>2 DEF PlainUpTo
<1>4. Plainly = After[Length]
  BY DEF Plainly, After, PlainUpTo, PlainStep
<1>5. QED
  BY <1>3, <1>4

\* An action that does not change a field of a bug leaves it.
LEMMA PlainKeeps ==
  ASSUME NEW b \in Bugs, NEW f \in Fields,
         NEW m \in 0..Length, NEW n \in 0..Length, m <= n,
         \A k \in Positions : m < k /\ k <= n => k \notin Writers(Positions, b, f)
  PROVE  After[n][b][f] = After[m][b][f]
<1> DEFINE Off == {k \in m..n : After[k][b][f] # After[m][b][f]}
<1>1. Length \in Nat
  BY PutsAssumption
<1>2. SUFFICES ASSUME Off # {} PROVE FALSE
  BY <1>1
<1>3. Off \in SUBSET Int /\ IsFiniteSet(Off)
  <2>1. IsFiniteSet(m..n)
    BY <1>1, FS_Interval
  <2>2. Off \in SUBSET (m..n) /\ Off \in SUBSET Int
    BY <1>1
  <2>3. QED
    BY <2>1, <2>2, FS_Subset
<1>4. PICK k \in Off : \A l \in Off : k <= l
  BY <1>2, <1>3, MinExists
<1>5. k \in m..n /\ k # m /\ k - 1 \in m..n /\ k \in Positions /\ k \in 0..Length /\ k # 0
  BY <1>1, <1>4 DEF Positions
<1>6. After[k - 1][b][f] = After[m][b][f]
  <2>1. k - 1 \notin Off
    BY <1>4, <1>5
  <2>2. QED
    BY <1>5, <2>1
<1>7. actions[k].bug # b \/ actions[k].changes[f] = NoChange
  BY <1>5 DEF Writers
<1>8. After[k][b][f] = After[k - 1][b][f]
  <2>1. After[k][b] = IF actions[k].bug = b THEN AfterPut(After[k - 1][b], actions[k].changes)
                      ELSE After[k - 1][b]
    <3>1. After[k] = PlainStep(After, k)
      BY <1>5, PlainlyIs
    <3>2. QED
      BY <1>5, <3>1 DEF PlainStep
  <2>2. CASE actions[k].bug # b
    BY <2>1, <2>2
  <2>3. CASE actions[k].bug = b /\ actions[k].changes[f] = NoChange
    <3>1. PICK x, c : x = After[k - 1][b] /\ c = actions[k].changes
      OBVIOUS
    <3>2. AfterPut(x, c)[f] = x[f]
      BY <2>3, <3>1 DEF AfterPut
    <3>3. QED
      BY <2>1, <2>3, <3>1, <3>2
  <2>4. QED
    BY <1>7, <2>2, <2>3
<1>9. QED
  BY <1>4, <1>6, <1>8

\* One that does, changes it.
LEMMA PlainChanges ==
  ASSUME NEW b \in Bugs, NEW f \in Fields, NEW k \in Writers(Positions, b, f)
  PROVE  After[k][b][f] =
           (After[k - 1][b][f] \cap actions[k].changes[f].keep) \cup actions[k].changes[f].add
<1>1. k \in Positions /\ k \in 0..Length /\ k # 0 /\ actions[k].bug = b
      /\ actions[k].changes[f] # NoChange
  BY PutsAssumption DEF Writers, Positions
<1>2. After[k][b] = AfterPut(After[k - 1][b], actions[k].changes)
  BY <1>1, PlainlyIs DEF PlainStep
<1>3. QED
  BY <1>1, <1>2 DEF AfterPut

\* Two updates of one bug are sent together or each on its own.
LEMMA UpdatesApart ==
  ASSUME NEW u \in Units(actions, Positions), NEW v \in Units(actions, Positions), u # v,
         NEW i \in u, NEW j \in v, actions[i].bug = actions[j].bug,
         actions[i].type = "bugzilla.update_bug"
  PROVE  v = {j}
<1>1. u \cap v = {} /\ u \subseteq Positions /\ v \subseteq Positions
  BY PositionsFinite, UnitsPartition
<1>2. SUFFICES ASSUME v # {j} PROVE FALSE
  OBVIOUS
<1>3. v \in PlanCoalescedGroups(actions, Positions)
  BY <1>2 DEF Units
<1>4. PICK b \in Bugs : Updates(actions, Positions, b) # {} /\ v = Group(actions, Positions, b)
  BY <1>3 DEF PlanCoalescedGroups
<1>5. actions[j].bug = b /\ Updates(actions, Positions, b) \subseteq v
  BY <1>4, PositionsFinite, GroupIsPending DEF Updates, Comments
<1>6. i \in Updates(actions, Positions, b)
  BY <1>1, <1>5 DEF Updates
<1>7. QED
  BY <1>1, <1>5, <1>6

Sent == Positions \ UNION unsent

\* The last of those sent that changed the field, or 0.
LastOf(W) == IF W = {} THEN 0 ELSE Max(W)

\* The last change of a field is in force.
InForce(b, f, W) ==
  W # {} => LET last == actions[Max(W)].changes[f]
            IN last.add \subseteq bugs[b][f] /\ bugs[b][f] \ last.add \subseteq last.keep

\* A field holds what it would hold after the last sent action that changes it,
\* if none of its changes is overwritten; its last change is in force.
FieldSame(b, f, W) ==
  /\ ~Overwritten(b, f) => bugs[b][f] = After[LastOf(W)][b][f]
  /\ InForce(b, f, W)

\* And the units were sent in the order of their last members.
OutcomeInv ==
  /\ PutsInv /\ OnlyUpdates
  /\ \A b \in Bugs, f \in Fields : FieldSame(b, f, Writers(Sent, b, f))
  /\ \A u \in Units(actions, Positions) \ unsent, v \in unsent : Max(u) <= Max(v)

LEMMA OutcomeInit == PutsInit => OutcomeInv
<1> SUFFICES ASSUME PutsInit PROVE OutcomeInv
  OBVIOUS
<1>1. PutsInv
  BY PutsInitInv
<1>2. OnlyUpdates
  BY PutsAssumption DEF PutsInit, OnlyUpdates
<1>3. Sent = {}
  BY PositionsFinite, UnitsPartition DEF PutsInit, Sent
<1>4. After[0] = Fresh
  <2>1. 0 \in 0..Length
    BY PutsAssumption
  <2>2. After[0] = PlainStep(After, 0)
    BY <2>1, PlainlyIs
  <2>3. QED
    BY <2>2 DEF PlainStep
<1>5. \A b \in Bugs, f \in Fields : FieldSame(b, f, Writers(Sent, b, f))
  BY <1>3, <1>4 DEF PutsInit, FieldSame, InForce, LastOf, Writers
<1>6. QED
  BY <1>1, <1>2, <1>5 DEF OutcomeInv, PutsInit

\* The writers of a field among the actions sent by now, and in the unit that
\* is sent: all in the unit, or alone in it and behind the others.
LEMMA UnitWriters ==
  ASSUME OutcomeInv, NEW u \in unsent, \A v \in unsent : Max(u) <= Max(v),
         NEW b \in Bugs, NEW f \in Fields, NEW j \in Writers(u, b, f)
  PROVE  \/ Writers(Positions, b, f) = Writers(u, b, f)
         \/ /\ u = {j}
            /\ \A i \in Writers(Sent, b, f) : i < j
            /\ \A i \in Writers(Positions, b, f) : i < j => i \in Sent
<1>1. /\ u \in Units(actions, Positions) /\ u \subseteq Positions /\ unsent \subseteq Units(actions, Positions)
      /\ UNION Units(actions, Positions) = Positions
  BY PositionsFinite, UnitsPartition DEF OutcomeInv, PutsInv
<1>2. \A i \in Writers(Positions, b, f) : actions[i].type = "bugzilla.update_bug" /\ actions[i].bug = b
                                          /\ i \in Positions
  BY DEF OutcomeInv, OnlyUpdates, Writers
<1>3. j \in Writers(Positions, b, f) /\ j \in u
  BY <1>1 DEF Writers
<1>4. SUFFICES ASSUME Writers(Positions, b, f) # Writers(u, b, f)
               PROVE  /\ u = {j}
                      /\ \A i \in Writers(Sent, b, f) : i < j
                      /\ \A i \in Writers(Positions, b, f) : i < j => i \in Sent
  OBVIOUS
<1>5. ASSUME NEW i \in Writers(Positions, b, f), i \notin u
      PROVE  \E v \in Units(actions, Positions) : v = {i} /\ u = {j} /\ v # u
  <2>1. PICK v \in Units(actions, Positions) : i \in v
    BY <1>1, <1>2
  <2>2. v # u
    BY <1>5, <2>1
  <2>3. v = {i} /\ u = {j}
    BY <1>1, <1>2, <1>3, <2>1, <2>2, UpdatesApart
  <2>4. QED
    BY <2>2, <2>3
<1>6. u = {j}
  <2>1. PICK i \in Writers(Positions, b, f) : i \notin u
    BY <1>1, <1>4 DEF Writers
  <2>2. QED
    BY <1>5, <2>1
<1>7. j \in Int /\ Max(u) = j
  BY <1>2, <1>3, <1>6, PositionsFinite, MaxOfOne
<1>8. ASSUME NEW i \in Writers(Sent, b, f) PROVE i < j
  <2>1. i \in Writers(Positions, b, f) /\ i \notin u /\ i \in Sent
    BY <1>1 DEF Writers, Sent
  <2>2. PICK v \in Units(actions, Positions) : v = {i} /\ v # u
    BY <1>5, <2>1
  <2>3. v \notin unsent
    BY <2>1, <2>2 DEF Sent
  <2>4. Max(v) <= Max(u)
    BY <2>2, <2>3 DEF OutcomeInv
  <2>5. i \in Int /\ i # j
    BY <1>2, <1>3, <2>1, PositionsFinite
  <2>6. Max(v) = i
    BY <2>2, <2>5, MaxOfOne
  <2>7. QED
    BY <1>7, <2>4, <2>5, <2>6
<1>9. ASSUME NEW i \in Writers(Positions, b, f), i < j PROVE i \in Sent
  <2>1. i \in Int /\ i # j /\ i \notin u
    BY <1>2, <1>6, <1>7, <1>9, PositionsFinite
  <2>2. PICK v \in Units(actions, Positions) : v = {i}
    BY <1>5, <2>1
  <2>3. Max(v) = i
    BY <2>1, <2>2, MaxOfOne
  <2>4. v \notin unsent
    BY <1>7, <1>9, <2>1, <2>3
  <2>5. i \notin UNION unsent
    <3>1. SUFFICES ASSUME NEW w \in unsent, i \in w PROVE FALSE
      OBVIOUS
    <3>2. w = v
      BY <1>1, <2>2, <3>1, PositionsFinite, UnitsPartition
    <3>3. QED
      BY <2>4, <3>2
  <2>6. QED
    BY <1>2, <2>5 DEF Sent
<1>10. QED
  BY <1>6, <1>8, <1>9

\* What one PUT does to a field it changes.
LEMMA PutSays ==
  ASSUME NEW u \in SUBSET Positions, NEW b \in Bugs, NEW f \in Fields,
         \A i \in u : actions[i].bug = b, Writers(u, b, f) # {},
         NEW before, NEW last, last = actions[Max(Writers(u, b, f))].changes[f]
  PROVE  AfterPut(before, MergeResolved(actions, u))[f]
           = (before[f] \cap last.keep) \cup last.add
<1>1. PICK W : W = Writers(u, b, f)
  OBVIOUS
<1>2. {i \in u : actions[i].changes[f] # NoChange} = W
  BY <1>1 DEF Writers
<1>3. W \in SUBSET Int /\ IsFiniteSet(W) /\ W # {}
  <2>1. W \in SUBSET Positions
    BY <1>1 DEF Writers
  <2>2. QED
    BY <1>1, <2>1, PositionsFinite, FS_Subset
<1>4. Max(W) \in W
  BY <1>3, MaxExists
<1>5. last # NoChange
  BY <1>1, <1>4 DEF Writers
<1>6. MergeResolved(actions, u)[f] = last
  BY <1>1, <1>2, <1>3 DEF MergeResolved
<1>7. QED
  BY <1>5, <1>6 DEF AfterPut

\* The unit is sent, and leaves the field like this.
IsNext(u) == u \in unsent /\ \A v \in unsent : Max(u) <= Max(v)

Leaves(u, b, f, after) ==
  /\ Writers(u, b, f) # {}
  /\ LET last == actions[Max(Writers(u, b, f))].changes[f]
     IN after = (bugs[b][f] \cap last.keep) \cup last.add

\* Sending a unit keeps a field it changes as it should be.
LEMMA SendKeepsField ==
  ASSUME OutcomeInv, NEW u, IsNext(u), NEW b \in Bugs, NEW f \in Fields,
         NEW after, Leaves(u, b, f, after), NEW V, V = Writers(Sent \cup u, b, f)
  PROVE  /\ Max(V) = Max(Writers(u, b, f)) /\ V # {}
         /\ ~Overwritten(b, f) => after = After[Max(V)][b][f]
<1>1. PICK W : W = Writers(u, b, f)
  OBVIOUS
<1>a. PICK last : /\ last = actions[Max(W)].changes[f] /\ W # {}
                  /\ after = (bugs[b][f] \cap last.keep) \cup last.add
  BY <1>1 DEF Leaves
<1>b. u \in unsent /\ \A v \in unsent : Max(u) <= Max(v)
  BY DEF IsNext
<1>2. /\ u \in Units(actions, Positions) /\ u \subseteq Positions
  BY <1>b, PositionsFinite, UnitsPartition DEF OutcomeInv, PutsInv
<1>3. W \in SUBSET Int /\ IsFiniteSet(W) /\ W # {} /\ W \subseteq Positions
  <2>1. W \in SUBSET Positions
    BY <1>1, <1>2 DEF Writers
  <2>2. QED
    BY <1>1, <1>a, <2>1, PositionsFinite, FS_Subset
<1>4. PICK j \in W : j = Max(W) /\ \A i \in W : i <= j
  BY <1>3, MaxExists
<1>5. j \in Writers(Positions, b, f) /\ j \in Positions /\ j - 1 \in 0..Length /\ j \in 0..Length
  BY <1>1, <1>2, <1>3, PutsAssumption DEF Writers, Positions
<1>6. After[j][b][f] = (After[j - 1][b][f] \cap last.keep) \cup last.add
  BY <1>1, <1>a, <1>4, <1>5, PlainChanges
<1>7. V = Writers(Sent, b, f) \cup W
  BY <1>1 DEF Writers
<1>8. CASE Writers(Positions, b, f) = W
  <2>1. V = W
    BY <1>1, <1>2, <1>7, <1>8 DEF Writers, Sent
  <2>2. CASE last.keep = {}
    BY <1>1, <1>a, <1>3, <1>4, <1>6, <2>1, <2>2
  <2>3. CASE last.keep # {} /\ ~Overwritten(b, f)
    <3>1. W = {j}
      <4>1. SUFFICES ASSUME NEW i \in W, i # j PROVE FALSE
        BY <1>4
      <4>2. IsFiniteSet({i, j}) /\ Cardinality({i, j}) = 2
        <5>1. IsFiniteSet({i}) /\ Cardinality({i}) = 1
          BY FS_Singleton
        <5>2. IsFiniteSet({i} \cup {j}) /\ Cardinality({i} \cup {j}) = 1 + 1
          BY <4>1, <5>1, FS_AddElement
        <5>3. {i} \cup {j} = {i, j}
          OBVIOUS
        <5>4. QED
          BY <5>2, <5>3
      <4>3. {i, j} \in SUBSET W
        OBVIOUS
      <4>4. Cardinality({i, j}) <= Cardinality(W) /\ Cardinality(W) \in Nat
        BY <1>3, <4>2, <4>3, FS_Subset, FS_CardinalityType
      <4>5. Cardinality(W) > 1
        BY <4>2, <4>4
      <4>6. QED
        BY <1>1, <1>a, <1>2, <2>3, <4>5 DEF Overwritten
    <3>2. Writers(Sent, b, f) = {}
      <4>1. SUFFICES ASSUME NEW i \in Writers(Sent, b, f) PROVE FALSE
        OBVIOUS
      <4>2. i \in Writers(Positions, b, f) /\ i \notin u
        BY <1>b, <4>1 DEF Writers, Sent
      <4>3. QED
        BY <1>1, <1>8, <4>2 DEF Writers
    <3>3. bugs[b][f] = After[0][b][f]
      BY <2>3, <3>2 DEF OutcomeInv, FieldSame, LastOf
    <3>4. After[j - 1][b][f] = After[0][b][f]
      <4>1. \A k \in Positions : 0 < k /\ k <= j - 1 => k \notin Writers(Positions, b, f)
        BY <1>3, <1>4, <1>8, <3>1
      <4>2. 0 \in 0..Length /\ 0 <= j - 1
        BY <1>5, PutsAssumption
      <4>3. QED
        BY <1>5, <4>1, <4>2, PlainKeeps
    <3>5. QED
      BY <1>1, <1>a, <1>4, <1>6, <2>1, <3>3, <3>4
  <2>4. Max(V) = Max(W) /\ V # {}
    BY <1>3, <2>1
  <2>5. QED
    BY <1>1, <2>2, <2>3, <2>4
<1>9. CASE Writers(Positions, b, f) # W
  <2>1. /\ u = {j}
        /\ \A i \in Writers(Sent, b, f) : i < j
        /\ \A i \in Writers(Positions, b, f) : i < j => i \in Sent
    BY <1>1, <1>b, <1>9, UnitWriters
  <2>2. PICK S : S = Writers(Sent, b, f)
    OBVIOUS
  <2>3. S \in SUBSET Positions /\ S \in SUBSET Int /\ IsFiniteSet(S)
    <3>1. S \in SUBSET Positions
      BY <2>2 DEF Writers, Sent
    <3>2. QED
      BY <3>1, PositionsFinite, FS_Subset
  <2>4. Max(V) = j /\ V # {}
    <3>1. \A i \in S : i <= Max(W)
      BY <1>3, <1>4, <2>1, <2>2, <2>3
    <3>2. Max(S \cup W) = Max(W)
      BY <1>3, <2>3, <3>1, MaxOfUnion
    <3>3. QED
      BY <1>3, <1>4, <1>7, <2>2, <3>2
  <2>5. PICK m : m = LastOf(S)
    OBVIOUS
  <2>6. m \in 0..Length /\ m <= j - 1 /\ \A i \in S : i <= m
    <3>1. CASE S = {}
      BY <1>5, <2>5, <3>1, PutsAssumption DEF LastOf
    <3>2. CASE S # {}
      <4>1. Max(S) \in S /\ \A i \in S : i <= Max(S)
        BY <2>3, <3>2, MaxExists
      <4>2. m \in Positions /\ m < j
        BY <2>1, <2>2, <2>3, <2>5, <3>2, <4>1 DEF LastOf
      <4>3. QED
        BY <1>5, <2>5, <3>2, <4>1, <4>2, PutsAssumption DEF LastOf, Positions
    <3>3. QED
      BY <3>1, <3>2
  <2>7. \A k \in Positions : m < k /\ k <= j - 1 => k \notin Writers(Positions, b, f)
    <3>1. SUFFICES ASSUME NEW k \in Writers(Positions, b, f), k \in Positions, m < k, k <= j - 1
                   PROVE  FALSE
      OBVIOUS
    <3>2. k \in Int /\ m \in Int /\ j \in Int
      BY <1>5, <2>6, <3>1, PutsAssumption DEF Positions
    <3>3. k \in Sent
      BY <2>1, <3>1, <3>2
    <3>4. k \in S
      BY <2>2, <3>1, <3>3 DEF Writers
    <3>5. QED
      BY <2>6, <3>1, <3>2, <3>4
  <2>8. After[j - 1][b][f] = After[m][b][f]
    BY <1>5, <2>6, <2>7, PlainKeeps
  <2>9. ~Overwritten(b, f) => bugs[b][f] = After[m][b][f]
    BY <2>2, <2>5 DEF OutcomeInv, FieldSame
  <2>10. QED
    BY <1>1, <1>a, <1>4, <1>6, <2>4, <2>8, <2>9
<1>10. QED
  BY <1>8, <1>9

LEMMA OutcomeStep == OutcomeInv /\ [PutsNext]_putsVars => OutcomeInv'
<1> SUFFICES ASSUME OutcomeInv, [PutsNext]_putsVars PROVE OutcomeInv'
  OBVIOUS
<1>1. CASE UNCHANGED putsVars
  <2>1. After' = After
    BY <1>1 DEF After, PlainUpTo, PlainStep, putsVars
  <2>2. \A b \in Bugs, f \in Fields : Overwritten(b, f)' = Overwritten(b, f)
                                      /\ Writers(Sent, b, f)' = Writers(Sent, b, f)
    BY <1>1 DEF Overwritten, Writers, Sent, putsVars
  <2>3. \A b \in Bugs, f \in Fields : FieldSame(b, f, Writers(Sent, b, f))'
    BY <1>1, <2>1, <2>2 DEF OutcomeInv, FieldSame, InForce, putsVars
  <2>4. QED
    BY <1>1, <2>3 DEF OutcomeInv, PutsInv, OnlyUpdates, putsVars
<1>2. CASE PutsNext
  <2>1. PICK u \in unsent : /\ u = NextUnit(unsent) /\ Send(u)
                            /\ \A v \in unsent : Max(u) <= Max(v)
    BY <1>2, NextIsPlanned DEF PutsNext, OutcomeInv
  <2>2. /\ unsent' = unsent \ {u} /\ actions' = actions
        /\ bugs' = [b \in Bugs |-> IF \E i \in u : actions[i].bug = b
                                   THEN AfterPut(bugs[b], MergeResolved(actions, u)) ELSE bugs[b]]
    BY <2>1 DEF Send, Put
  <2>3. /\ u \in SUBSET Positions /\ u # {} /\ u \in Units(actions, Positions)
        /\ \A v \in unsent \ {u} : v \cap u = {}
    <3>1. PutsInv /\ unsent # {}
      BY <2>1 DEF OutcomeInv
    <3>2. /\ \A v \in unsent : v \in SUBSET Positions /\ v # {}
          /\ \A v \in unsent \ {u} : v \cap u = {}
      BY <2>1, <3>1, NextIsPlanned
    <3>3. QED
      BY <2>1, <3>1, <3>2 DEF PutsInv
  <2>4. Sent' = Sent \cup u /\ Sent \cap u = {}
    BY <2>1, <2>2, <2>3 DEF Sent, Positions
  <2>5. After' = After /\ \A b \in Bugs, f \in Fields : Overwritten(b, f)' = Overwritten(b, f)
    BY <2>2 DEF After, PlainUpTo, PlainStep, Overwritten, Writers
  <2>6. ASSUME NEW b \in Bugs, NEW f \in Fields PROVE FieldSame(b, f, Writers(Sent, b, f))'
    <3>1. PICK V : V = Writers(Sent \cup u, b, f)
      OBVIOUS
    <3>2. Writers(Sent, b, f)' = V
      BY <2>2, <2>4, <3>1 DEF Writers
    <3>3. SUFFICES /\ ~Overwritten(b, f) => bugs'[b][f] = After[LastOf(V)][b][f]
                   /\ V # {} => LET last == actions[Max(V)].changes[f]
                                IN last.add \subseteq bugs'[b][f] /\ bugs'[b][f] \ last.add \subseteq last.keep
      BY <2>2, <2>5, <3>2 DEF FieldSame, InForce
    <3>4. CASE Writers(u, b, f) # {}
      <4>1. \A i \in u : actions[i].bug = b
        BY <2>3, <3>4, UnitShape DEF Writers
      <4>2. PICK last : last = actions[Max(Writers(u, b, f))].changes[f]
        OBVIOUS
      <4>3. bugs'[b][f] = (bugs[b][f] \cap last.keep) \cup last.add
        <5>1. bugs'[b] = AfterPut(bugs[b], MergeResolved(actions, u))
          BY <2>2, <2>3, <4>1
        <5>2. QED
          BY <2>3, <3>4, <4>1, <4>2, <5>1, PutSays
      <4>4. /\ Max(V) = Max(Writers(u, b, f)) /\ V # {}
            /\ ~Overwritten(b, f) => bugs'[b][f] = After[Max(V)][b][f]
        <5>1. PICK after : after = bugs'[b][f]
          OBVIOUS
        <5>2. IsNext(u) /\ Leaves(u, b, f, after)
          BY <2>1, <3>4, <4>2, <4>3, <5>1 DEF IsNext, Leaves
        <5>3. /\ Max(V) = Max(Writers(u, b, f)) /\ V # {}
              /\ ~Overwritten(b, f) => after = After[Max(V)][b][f]
          BY <3>1, <5>2, SendKeepsField
        <5>4. QED
          BY <5>1, <5>3
      <4>5. actions[Max(V)].changes[f] = last
        BY <4>2, <4>4
      <4>6. QED
        BY <4>3, <4>4, <4>5 DEF LastOf
    <3>5. CASE Writers(u, b, f) = {}
      <4>1. V = Writers(Sent, b, f)
        BY <3>1, <3>5 DEF Writers
      <4>2. bugs'[b][f] = bugs[b][f]
        <5>1. CASE \E i \in u : actions[i].bug = b
          <6>1. \A i \in u : actions[i].bug = b
            BY <2>3, <5>1, UnitShape
          <6>2. MergeResolved(actions, u)[f] = NoChange
            BY <3>5, <6>1 DEF MergeResolved, Writers
          <6>3. QED
            BY <2>2, <5>1, <6>2 DEF AfterPut
        <5>2. CASE ~ \E i \in u : actions[i].bug = b
          BY <2>2, <5>2
        <5>3. QED
          BY <5>1, <5>2
      <4>3. FieldSame(b, f, V)
        BY <4>1 DEF OutcomeInv
      <4>4. QED
        BY <4>2, <4>3 DEF FieldSame, InForce
    <3>6. QED
      BY <3>4, <3>5
  <2>7. \A v \in Units(actions', Positions) \ unsent', w \in unsent' : Max(v) <= Max(w)
    BY <2>1, <2>2 DEF OutcomeInv
  <2>8. PutsInv' /\ OnlyUpdates'
    BY <1>2, <2>2, PutsStepKeeps DEF OutcomeInv, OnlyUpdates
  <2>9. QED
    BY <2>6, <2>7, <2>8 DEF OutcomeInv
<1>3. QED
  BY <1>1, <1>2

\* Merging loses nothing of a field unless a change that was to add to another or
\* to take from it is merged behind it, for lists of any length; later writes win
\* (merge_resolved), and what is not merged is sent in order.
THEOREM OutcomeSame == PutsSpec => []SameOutcome
<1>1. ASSUME OutcomeInv PROVE SameOutcome
  <2>1. SUFFICES ASSUME unsent = {}, NEW b \in Bugs, NEW f \in Fields
                 PROVE  /\ ~Overwritten(b, f) => bugs[b][f] = Plainly[b][f]
                        /\ InForce(b, f, Writers(Positions, b, f))
    BY DEF SameOutcome, InForce
  <2>2. PICK W : W = Writers(Positions, b, f)
    OBVIOUS
  <2>3. Sent = Positions
    BY <2>1 DEF Sent
  <2>4. FieldSame(b, f, W)
    BY <1>1, <2>2, <2>3 DEF OutcomeInv
  <2>5. Length \in 0..Length /\ Length \in Nat
    BY PutsAssumption
  <2>6. W \in SUBSET Positions /\ W \in SUBSET Int /\ IsFiniteSet(W)
    <3>1. W \in SUBSET Positions
      BY <2>2 DEF Writers
    <3>2. QED
      BY <3>1, PositionsFinite, FS_Subset
  <2>7. LastOf(W) \in 0..Length /\ \A i \in W : i <= LastOf(W)
    <3>1. W # {} => Max(W) \in W /\ \A i \in W : i <= Max(W)
      BY <2>6, MaxExists
    <3>2. W # {} => LastOf(W) \in 1..Length /\ LastOf(W) = Max(W)
      BY <2>6, <3>1 DEF LastOf, Positions
    <3>3. W = {} => LastOf(W) = 0
      BY DEF LastOf
    <3>4. QED
      BY <2>5, <3>1, <3>2, <3>3
  <2>8. PICK m \in 0..Length : m = LastOf(W) /\ m <= Length
    BY <2>5, <2>7
  <2>9. \A k \in Positions : m < k /\ k <= Length => k \notin Writers(Positions, b, f)
    BY <2>2, <2>7, <2>8 DEF Positions
  <2>10. After[Length][b][f] = After[m][b][f]
    BY <2>5, <2>8, <2>9, PlainKeeps
  <2>11. QED
    BY <2>2, <2>4, <2>8, <2>10, PlainlyIs DEF FieldSame
<1>2. QED
  BY <1>1, OutcomeInit, OutcomeStep, PTL DEF PutsSpec

-------------------------------------------------------------------------------
(* The applier                                                               *)

\* The units of a session are apart, not empty, and there only while it works;
\* the one at hand is a unit of its own.
Planned ==
  \A s \in Sessions :
    /\ {} \notin todo[s]
    /\ \A u, v \in todo[s] : u # v => u \cap v = {}
    /\ \A u \in todo[s] : u \cap unit[s] = {}
    /\ ~Working(s) => todo[s] = {}
    /\ unit[s] # {} <=> at[s] = "stamp"

\* A push works on eligible actions of a succeeded run, and on nothing else.
Entitled ==
  \A s \in Sessions :
    /\ at[s] = "idle" => kind[s] = "push"
    /\ kind[s] = "push" /\ at[s] # "idle" => run.status = "succeeded"
    /\ kind[s] = "push" => unit[s] \subseteq Eligible /\ \A u \in todo[s] : u \subseteq Eligible

\* Every claim that is carried by a session is at work, and only claims lapse.
Carried ==
  /\ \A i \in Idx : holder[i] # NoSession => rows[i] = "applying" /\ Working(holder[i])
  /\ \A i \in lapsed : rows[i] = "applying"

\* A handler does not succeed in vain.
Effective ==
  \A s \in Sessions :
    outcome[s] = "applied" => \A i \in unit[s] : performed[i] > 0

Inv ==
  TypeOK /\ Planned /\ Entitled /\ Effective /\ Carried /\ ClaimsMatchWork

LEMMA Finite == Idx \in SUBSET Int /\ IsFiniteSet(Idx)
BY ApplierAssumption, FS_Interval DEF Idx

LEMMA InitInv == Init => Inv
<1> SUFFICES ASSUME Init PROVE Inv
  OBVIOUS
<1>1. TypeOK
  BY ApplierAssumption DEF Init, TypeOK, NoRows, RowStatus, At
<1>2. Planned /\ Entitled /\ Effective
  BY DEF Init, Planned, Entitled, Effective, Working
<1>3. Carried /\ ClaimsMatchWork
  BY DEF Init, Carried, ClaimsMatchWork, Working
<1>4. QED
  BY <1>1, <1>2, <1>3 DEF Inv

-----------------------------------------------------------------------------
(* Sessions that end, however they do                                      *)

LEMMA EndKeeps ==
  ASSUME Inv, NEW s \in Sessions, EndSession(s),
         UNCHANGED <<run, rows, lapsed, performed, overtaken, overruns>>,
         delivery' \in {"queued", "acked"}, crashes' \in 0..MaxFaults
  PROVE  Inv'
<1>1. TypeOK'
  <2>1. holder' \in [Idx -> Sessions \cup {NoSession}]
    BY DEF Inv, TypeOK, EndSession
  <2>2. view' \in [Sessions -> [Idx -> RowStatus]]
    BY DEF Inv, TypeOK, EndSession, NoRows, RowStatus
  <2>3. QED
    BY <2>1, <2>2 DEF Inv, TypeOK, EndSession, At
<1>2. Planned'
  BY DEF Inv, TypeOK, Planned, EndSession, Working
<1>3. Entitled'
  BY DEF Inv, TypeOK, Entitled, EndSession, Eligible, ShouldAutoApply, RunLevelAutoApply
<1>4. Effective'
  BY DEF Inv, TypeOK, Effective, EndSession
<1>5. Carried' /\ ClaimsMatchWork'
  <2>1. \A i \in Idx : holder'[i] = IF holder[i] = s THEN NoSession ELSE holder[i]
    BY DEF EndSession
  <2>2. \A t \in Sessions : Working(t)' => t # s /\ Working(t)
    BY DEF Inv, TypeOK, EndSession, Working
  <2>3. \A t \in Sessions : t # s => (Working(t) => Working(t)')
    BY DEF Inv, TypeOK, EndSession, Working
  <2>4. Carried'
    BY <2>1, <2>3 DEF Inv, TypeOK, Carried
  <2>5. \A t \in Sessions : t # s => Remaining(t)' = Remaining(t)
    BY DEF Inv, TypeOK, EndSession, Remaining
  <2>6. ClaimsMatchWork'
    BY <2>1, <2>2, <2>5, ApplierAssumption DEF Inv, ClaimsMatchWork
  <2>7. QED
    BY <2>4, <2>6
<1>6. QED
  BY <1>1, <1>2, <1>3, <1>4, <1>5 DEF Inv

LEMMA ReturnKeeps ==
  ASSUME Inv, NEW s \in Sessions, Return(s), UNCHANGED <<run, rows, lapsed, performed, faults>>
  PROVE  Inv'
<1>1. delivery' \in {"queued", "acked"} /\ crashes' \in 0..MaxFaults
  BY DEF Inv, TypeOK, Return, faults
<1>2. QED
  BY <1>1, EndKeeps DEF Return, faults

-----------------------------------------------------------------------------
(* Sessions on their way to a claim                                        *)

\* A session that does not work yet takes a step that leaves claims alone.
LEMMA ApproachKeeps ==
  ASSUME Inv, TypeOK', NEW s \in Sessions,
         ~Working(s), \E a \in At \ {"idle", "apply", "stamp"} : at' = [at EXCEPT ![s] = a],
         kind'[s] = "push" => run.status = "succeeded",
         \A t \in Sessions : t # s => kind'[t] = kind[t],
         \A i \in Idx : rows[i] # "none" => rows'[i] = rows[i],
         \A i \in Idx : rows[i] = "none" => rows'[i] # "applying",
         UNCHANGED <<run, holder, lapsed, todo, unit, outcome, performed, overtaken>>
  PROVE  Inv'
<1>1. \A t \in Sessions : (Working(t)' <=> Working(t)) /\ (t # s => at'[t] = at[t])
  BY DEF Inv, TypeOK, Working
<1>2. todo[s] = {} /\ unit[s] = {} /\ at'[s] # "stamp" /\ at'[s] # "idle"
  BY DEF Inv, TypeOK, Planned, Working
<1>3. Planned'
  BY <1>1, <1>2 DEF Inv, Planned, Working
<1>4. Entitled'
  BY <1>1, <1>2 DEF Inv, Entitled, Eligible, ShouldAutoApply, RunLevelAutoApply
<1>5. Effective'
  BY DEF Inv, Effective
<1>6. Carried' /\ ClaimsMatchWork'
  <2>1. \A i \in Idx : rows'[i] = "applying" <=> rows[i] = "applying"
    BY DEF Inv, TypeOK
  <2>2. Carried'
    BY <1>1, <2>1 DEF Inv, TypeOK, Carried
  <2>3. \A t \in Sessions : Remaining(t)' = Remaining(t)
    BY DEF Remaining
  <2>4. ClaimsMatchWork'
    BY <1>1, <2>1, <2>3 DEF Inv, ClaimsMatchWork
  <2>5. QED
    BY <2>2, <2>4
<1>7. QED
  BY <1>3, <1>4, <1>5, <1>6 DEF Inv

LEMMA PushKeeps ==
  ASSUME Inv, NEW s \in Sessions, PushArrives(s)
  PROVE  Inv'
<1>1. CASE run.status = "succeeded"
  <2>1. TypeOK'
    BY <1>1 DEF Inv, TypeOK, PushArrives, rowVars, faults, At
  <2>2. QED
    BY <1>1, <2>1, ApproachKeeps DEF PushArrives, rowVars, faults, At, Working
<1>2. CASE run.status # "succeeded"
  <2>1. TypeOK'
    BY <1>2 DEF Inv, TypeOK, PushArrives, rowVars, faults, At
  <2>2. UNCHANGED <<run, rows, holder, lapsed, at, kind, todo, unit, outcome, performed, overtaken>>
    BY <1>2 DEF PushArrives, rowVars, faults
  <2>3. Planned' /\ Entitled' /\ Effective'
    BY <2>2 DEF Inv, Planned, Entitled, Effective, Working, Eligible, ShouldAutoApply,
       RunLevelAutoApply
  <2>4. Carried' /\ ClaimsMatchWork'
    BY <2>2 DEF Inv, Carried, ClaimsMatchWork, Working, Remaining
  <2>5. QED
    BY <2>1, <2>3, <2>4 DEF Inv
<1>3. QED
  BY <1>1, <1>2

LEMMA PersonKeeps ==
  ASSUME Inv, NEW s \in Sessions, PersonApplies(s)
  PROVE  Inv'
<1>1. TypeOK'
  BY DEF Inv, TypeOK, PersonApplies, rowVars, faults, At
<1>2. kind'[s] = "manual" /\ \A t \in Sessions : t # s => kind'[t] = kind[t]
  BY DEF Inv, TypeOK, PersonApplies
<1>3. QED
  BY <1>1, <1>2, ApproachKeeps DEF PersonApplies, rowVars, faults, At, Working

LEMMA LoadKeeps ==
  ASSUME Inv, NEW s \in Sessions, LoadRows(s)
  PROVE  Inv'
<1>1. TypeOK'
  BY DEF Inv, TypeOK, LoadRows, rowVars, faults, At
<1>2. kind'[s] = "push" => run.status = "succeeded"
  BY DEF Inv, Entitled, LoadRows
<1>3. QED
  BY <1>1, <1>2, ApproachKeeps DEF LoadRows, rowVars, faults, At, Working

LEMMA InsertKeeps ==
  ASSUME Inv, NEW s \in Sessions, InsertRows(s)
  PROVE  Inv'
<1>1. TypeOK'
  <2>1. rows' \in [Idx -> RowStatus]
    BY DEF Inv, TypeOK, InsertRows, RowStatus
  <2>2. view' \in [Sessions -> [Idx -> RowStatus]]
    BY DEF Inv, TypeOK, InsertRows, RowStatus
  <2>3. QED
    BY <2>1, <2>2 DEF Inv, TypeOK, InsertRows, At, faults
<1>2. kind'[s] = "push" => run.status = "succeeded"
  BY DEF Inv, Entitled, InsertRows
<1>3. \A i \in Idx : /\ rows[i] # "none" => rows'[i] = rows[i]
                     /\ rows[i] = "none" => rows'[i] # "applying"
  BY DEF InsertRows
<1>4. QED
  BY <1>1, <1>2, <1>3, ApproachKeeps DEF InsertRows, At, Working, faults

-----------------------------------------------------------------------------
(* The claim and the chain                                                 *)

LEMMA ClaimKeeps ==
  ASSUME Inv, NEW s \in Sessions, Claim(s)
  PROVE  Inv'
<1>1. PICK W \in SUBSET Idx : W = Wanted(s)
  BY DEF Wanted, Chosen, Eligible
<1>2. /\ Units(Actions, W) \in SUBSET (SUBSET W) /\ UNION Units(Actions, W) = W
      /\ {} \notin Units(Actions, W)
      /\ \A u, v \in Units(Actions, W) : u # v => u \cap v = {}
  <2>1. W \in SUBSET Int /\ IsFiniteSet(W)
    BY Finite, FS_Subset
  <2>2. QED
    BY <2>1, UnitsPartition
<1>3. /\ rows' = [i \in Idx |-> IF i \in W THEN "applying" ELSE rows[i]]
      /\ holder' = [i \in Idx |-> IF i \in W THEN s ELSE holder[i]]
      /\ lapsed' = lapsed \ W
      /\ todo' = [todo EXCEPT ![s] = Units(Actions, W)]
      /\ at' = [at EXCEPT ![s] = "apply"] /\ at[s] = "claim"
      /\ \A i \in W : Claimable(i)
      /\ overtaken' = overtaken \cup {i \in W \cap lapsed : holder[i] # NoSession}
      /\ UNCHANGED <<run, delivery, kind, unit, outcome, performed, crashes, overruns>>
  BY <1>1 DEF Claim
<1>4. unit[s] = {} /\ ~Working(s)
  BY <1>3 DEF Inv, Planned, Working
<1>5. TypeOK'
  <2>1. rows' \in [Idx -> RowStatus] /\ holder' \in [Idx -> Sessions \cup {NoSession}]
        /\ lapsed' \in SUBSET Idx /\ overtaken' \in SUBSET Idx
    BY <1>3 DEF Inv, TypeOK, RowStatus
  <2>2. view' \in [Sessions -> [Idx -> RowStatus]]
    BY DEF Inv, TypeOK, RowStatus, Claim
  <2>3. known' \in [Sessions -> SUBSET Idx]
    BY DEF Inv, TypeOK, Claim, Chosen, Eligible
  <2>4. todo' \in [Sessions -> SUBSET (SUBSET Idx)] /\ at' \in [Sessions -> At]
    BY <1>2, <1>3 DEF Inv, TypeOK, At
  <2>5. QED
    BY <1>3, <2>1, <2>2, <2>3, <2>4 DEF Inv, TypeOK
<1>6. todo'[s] = Units(Actions, W) /\ \A t \in Sessions : t # s => todo'[t] = todo[t]
  BY <1>3 DEF Inv, TypeOK
<1>7. at'[s] = "apply" /\ \A t \in Sessions : t # s => at'[t] = at[t]
  BY <1>3 DEF Inv, TypeOK
<1>8. Planned'
  BY <1>2, <1>3, <1>4, <1>6, <1>7 DEF Inv, Planned, Working
<1>9. Entitled'
  <2>1. kind[s] = "push" => W \subseteq Eligible
    BY <1>1 DEF Wanted, Chosen
  <2>2. Eligible' = Eligible
    BY <1>3 DEF Eligible, ShouldAutoApply, RunLevelAutoApply
  <2>3. QED
    BY <1>2, <1>3, <1>6, <1>7, <2>1, <2>2 DEF Inv, Entitled
<1>10. Effective'
  BY <1>3 DEF Inv, Effective
<1>11. Carried' /\ ClaimsMatchWork'
  <2>1. \A i \in W \ overtaken' : holder[i] = NoSession
    BY <1>3 DEF Inv, TypeOK, Carried, Claimable
  <2>2. Carried'
    BY <1>3, <1>4, <1>7 DEF Inv, TypeOK, Carried, Working
  <2>3. Remaining(s)' = W
    BY <1>2, <1>3, <1>4, <1>6 DEF Remaining
  <2>4. {i \in Idx \ overtaken : rows[i] = "applying" /\ holder[i] = s}' = W \ overtaken'
    BY <1>3, <1>4, ApplierAssumption DEF Inv, Carried
  <2>5. \A t \in Sessions : t # s => Remaining(t)' = Remaining(t)
    BY <1>3, <1>6 DEF Remaining
  <2>6. ASSUME NEW t \in Sessions, t # s, Working(t)'
        PROVE  Remaining(t)' \ overtaken'
                 = {i \in Idx \ overtaken : rows[i] = "applying" /\ holder[i] = t}'
    <3>1. Remaining(t) \ overtaken
            = {i \in Idx \ overtaken : rows[i] = "applying" /\ holder[i] = t}
      BY <1>7, <2>6 DEF Inv, ClaimsMatchWork, Working
    <3>2. \A i \in Idx \ overtaken' :
            i \in Remaining(t) <=> rows'[i] = "applying" /\ holder'[i] = t
      BY <1>3, <2>1, <2>6, <3>1, ApplierAssumption
    <3>3. Remaining(t) \in SUBSET Idx
      BY DEF Inv, TypeOK, Remaining
    <3>4. QED
      BY <2>5, <2>6, <3>2, <3>3
  <2>7. ClaimsMatchWork'
    BY <2>3, <2>4, <2>6 DEF ClaimsMatchWork
  <2>8. QED
    BY <2>2, <2>7
<1>12. QED
  BY <1>5, <1>8, <1>9, <1>10, <1>11 DEF Inv

\* The unit a session calls next is one of those it has left.
LEMMA NextIsLeft ==
  ASSUME Inv, NEW s \in Sessions, todo[s] # {}
  PROVE  NextUnit(todo[s]) \in todo[s]
<1>1. todo[s] \in SUBSET (SUBSET Idx) /\ {} \notin todo[s]
  BY DEF Inv, TypeOK, Planned
<1>2. QED
  BY <1>1, Finite, NextUnitExists

LEMMA CallKeeps ==
  ASSUME Inv, NEW s \in Sessions, Call(s)
  PROVE  Inv'
<1>1. PICK u \in todo[s] : u = NextUnit(todo[s])
  BY NextIsLeft DEF Call
<1>2. /\ unit' = [unit EXCEPT ![s] = u]
      /\ todo' = [todo EXCEPT ![s] = @ \ {u}]
      /\ at[s] = "apply" /\ at' = [at EXCEPT ![s] = "stamp"]
      /\ UNCHANGED <<run, delivery, rows, holder, lapsed, kind, view, known>>
      /\ UNCHANGED <<overtaken, crashes, overruns>>
  BY <1>1 DEF Call, rowVars, faults
<1>3. \/ /\ performed' = [i \in Idx |->
                IF i \in u /\ performed[i] < 2 THEN performed[i] + 1 ELSE performed[i]]
         /\ \E o \in {"applied", "failed"} : outcome' = [outcome EXCEPT ![s] = o]
      \/ outcome' = [outcome EXCEPT ![s] = "failed"] /\ performed' = performed
  BY <1>1 DEF Call
<1>4. unit[s] = {} /\ Working(s) /\ u # {} /\ u \in SUBSET Idx
  <2>1. todo[s] \in SUBSET (SUBSET Idx) /\ {} \notin todo[s]
    BY DEF Inv, TypeOK, Planned
  <2>2. u # {} /\ u \in SUBSET Idx
    BY <2>1
  <2>3. QED
    BY <1>2, <2>2 DEF Inv, Planned, Working
<1>5. unit'[s] = u /\ \A t \in Sessions : t # s => unit'[t] = unit[t]
  BY <1>2 DEF Inv, TypeOK
<1>6. todo'[s] = todo[s] \ {u} /\ \A t \in Sessions : t # s => todo'[t] = todo[t]
  BY <1>2 DEF Inv, TypeOK
<1>7. at'[s] = "stamp" /\ \A t \in Sessions : t # s => at'[t] = at[t]
  BY <1>2 DEF Inv, TypeOK
<1>8. performed' \in [Idx -> 0..2] /\ \A i \in Idx : performed'[i] >= performed[i]
  <2>1. performed \in [Idx -> 0..2]
    BY DEF Inv, TypeOK
  <2>2. CASE performed' = performed
    BY <2>1, <2>2
  <2>3. CASE performed' = [i \in Idx |->
               IF i \in u /\ performed[i] < 2 THEN performed[i] + 1 ELSE performed[i]]
    <3>1. \A i \in Idx : performed'[i] \in 0..2 /\ performed'[i] >= performed[i]
      BY <2>1, <2>3
    <3>2. QED
      BY <2>3, <3>1
  <2>4. QED
    BY <1>3, <2>2, <2>3
<1>9. TypeOK'
  <2>1. outcome' \in [Sessions -> {"applied", "failed"}]
    BY <1>3 DEF Inv, TypeOK
  <2>2. unit' \in [Sessions -> SUBSET Idx]
    BY <1>2, <1>4 DEF Inv, TypeOK
  <2>3. todo' \in [Sessions -> SUBSET (SUBSET Idx)] /\ at' \in [Sessions -> At]
    BY <1>2 DEF Inv, TypeOK, At
  <2>4. QED
    BY <1>2, <1>8, <2>1, <2>2, <2>3 DEF Inv, TypeOK
<1>10. Planned'
  BY <1>4, <1>5, <1>6, <1>7 DEF Inv, Planned, Working
<1>11. Entitled'
  <2>1. Eligible' = Eligible
    BY <1>2 DEF Eligible, ShouldAutoApply, RunLevelAutoApply
  <2>2. QED
    BY <1>2, <1>5, <1>6, <1>7, <2>1 DEF Inv, Entitled
<1>12. Effective'
  <2>1. ASSUME NEW t \in Sessions, outcome'[t] = "applied", t # s, NEW i \in unit'[t]
        PROVE  performed'[i] > 0
    <3>1. outcome[t] = "applied"
      BY <1>3, <2>1 DEF Inv, TypeOK
    <3>2. i \in unit[t] /\ i \in Idx
      BY <1>5, <2>1 DEF Inv, TypeOK
    <3>a. performed[i] > 0
      BY <3>1, <3>2 DEF Inv, Effective
    <3>b. performed \in [Idx -> 0..2]
      BY DEF Inv, TypeOK
    <3>3. performed[i] \in Nat /\ performed'[i] \in Nat /\ performed[i] > 0
      BY <1>8, <3>2, <3>a, <3>b
    <3>4. QED
      BY <1>8, <3>2, <3>3
  <2>2. ASSUME outcome'[s] = "applied", NEW i \in u
        PROVE  performed'[i] > 0
    <3>1. performed[i] \in 0..2 /\ i \in Idx
      BY <1>4 DEF Inv, TypeOK
    <3>2. performed'[i] = IF performed[i] < 2 THEN performed[i] + 1 ELSE performed[i]
      BY <1>3, <2>2, <3>1 DEF Inv, TypeOK
    <3>3. QED
      BY <3>1, <3>2
  <2>3. QED
    BY <1>5, <2>1, <2>2 DEF Effective
<1>13. Carried' /\ ClaimsMatchWork'
  <2>1. \A t \in Sessions : Working(t)' <=> Working(t)
    BY <1>4, <1>7 DEF Working
  <2>2. Carried'
    BY <1>2, <2>1 DEF Inv, TypeOK, Carried
  <2>3. Remaining(s)' = Remaining(s)
    BY <1>4, <1>5, <1>6 DEF Remaining
  <2>4. \A t \in Sessions : t # s => Remaining(t)' = Remaining(t)
    BY <1>5, <1>6 DEF Remaining
  <2>5. ClaimsMatchWork'
    BY <1>2, <2>1, <2>3, <2>4 DEF Inv, ClaimsMatchWork
  <2>6. QED
    BY <2>2, <2>5
<1>14. QED
  BY <1>9, <1>10, <1>11, <1>12, <1>13 DEF Inv

LEMMA StampKeeps ==
  ASSUME Inv, NEW s \in Sessions, Stamp(s)
  PROVE  Inv'
<1>1. PICK u \in SUBSET Idx : u = unit[s]
  BY DEF Inv, TypeOK
<1>2. PICK o \in {"applied", "failed"} : o = outcome[s]
  BY DEF Inv, TypeOK
<1>3. /\ rows' = [i \in Idx |-> IF i \in u THEN o ELSE rows[i]]
      /\ holder' = [i \in Idx |-> IF i \in u THEN NoSession ELSE holder[i]]
      /\ lapsed' = lapsed \ u
      /\ unit' = [unit EXCEPT ![s] = {}]
      /\ outcome' = [outcome EXCEPT ![s] = "failed"]
      /\ at[s] = "stamp" /\ at' = [at EXCEPT ![s] = "apply"]
      /\ UNCHANGED <<run, delivery, kind, todo, performed, overtaken, crashes, overruns>>
  BY <1>1, <1>2 DEF Stamp, faults
<1>4. unit'[s] = {} /\ \A t \in Sessions : t # s => unit'[t] = unit[t]
  BY <1>3 DEF Inv, TypeOK
<1>5. outcome'[s] = "failed" /\ \A t \in Sessions : t # s => outcome'[t] = outcome[t]
  BY <1>3 DEF Inv, TypeOK
<1>6. at'[s] = "apply" /\ \A t \in Sessions : t # s => at'[t] = at[t]
  BY <1>3 DEF Inv, TypeOK
<1>7. TypeOK'
  <2>1. rows' \in [Idx -> RowStatus] /\ holder' \in [Idx -> Sessions \cup {NoSession}]
        /\ lapsed' \in SUBSET Idx
    BY <1>3 DEF Inv, TypeOK, RowStatus
  <2>2. view' \in [Sessions -> [Idx -> RowStatus]]
    BY DEF Inv, TypeOK, RowStatus, Stamp
  <2>3. known' \in [Sessions -> SUBSET Idx]
    BY DEF Inv, TypeOK, Stamp
  <2>4. unit' \in [Sessions -> SUBSET Idx] /\ outcome' \in [Sessions -> {"applied", "failed"}]
        /\ at' \in [Sessions -> At]
    BY <1>3 DEF Inv, TypeOK, At
  <2>5. QED
    BY <1>3, <2>1, <2>2, <2>3, <2>4 DEF Inv, TypeOK
<1>8. Planned'
  BY <1>3, <1>4, <1>6 DEF Inv, Planned, Working
<1>9. Entitled'
  <2>1. Eligible' = Eligible
    BY <1>3 DEF Eligible, ShouldAutoApply, RunLevelAutoApply
  <2>2. QED
    BY <1>3, <1>4, <1>6, <2>1 DEF Inv, Entitled
<1>10. Effective'
  BY <1>3, <1>4, <1>5 DEF Inv, Effective
<1>11. Carried' /\ ClaimsMatchWork'
  <2>1. \A t \in Sessions : Working(t)' <=> Working(t)
    BY <1>3, <1>6 DEF Working
  <2>2. Carried'
    BY <1>3, <2>1 DEF Inv, TypeOK, Carried
  <2>3. \A t \in Sessions : Working(t) =>
          Remaining(t) \ overtaken
            = {i \in Idx \ overtaken : rows[i] = "applying" /\ holder[i] = t}
    BY DEF Inv, ClaimsMatchWork
  <2>4. Remaining(s)' = Remaining(s) \ u
    BY <1>1, <1>3, <1>4 DEF Inv, Planned, Remaining
  <2>5. {i \in Idx \ overtaken : rows[i] = "applying" /\ holder[i] = s}'
        = {i \in Idx \ overtaken : rows[i] = "applying" /\ holder[i] = s} \ u
    BY <1>2, <1>3, ApplierAssumption
  <2>6. \A t \in Sessions : t # s => Remaining(t)' = Remaining(t)
    BY <1>3, <1>4 DEF Remaining
  <2>7. \A i \in u \ overtaken : holder[i] = s
    BY <1>1, <1>3, <2>3 DEF Remaining, Working
  <2>8. \A t \in Sessions : t # s =>
          {i \in Idx \ overtaken : rows[i] = "applying" /\ holder[i] = t}'
          = {i \in Idx \ overtaken : rows[i] = "applying" /\ holder[i] = t}
    BY <1>3, <2>7, ApplierAssumption
  <2>9. ClaimsMatchWork'
    BY <1>3, <2>1, <2>3, <2>4, <2>5, <2>6, <2>8 DEF ClaimsMatchWork
  <2>10. QED
    BY <2>2, <2>9
<1>12. QED
  BY <1>7, <1>8, <1>9, <1>10, <1>11 DEF Inv

LEMMA LapseKeeps ==
  ASSUME Inv, NEW h \in Sessions \cup {NoSession}, LeaseLapses(h)
  PROVE  Inv'
<1>1. PICK claim \in SUBSET Idx :
        /\ \A i \in claim : rows[i] = "applying" /\ holder[i] = h
        /\ lapsed' = lapsed \cup claim
        /\ UNCHANGED <<run, delivery, rows, holder, sessionVars, performed, overtaken, crashes>>
  BY DEF LeaseLapses
<1>a. overruns' \in 0..MaxFaults
  BY ApplierAssumption DEF Inv, TypeOK, LeaseLapses
<1>2. TypeOK'
  BY <1>1, <1>a DEF Inv, TypeOK, sessionVars
<1>3. Planned' /\ Entitled' /\ Effective'
  BY <1>1 DEF Inv, Planned, Entitled, Effective, Working, sessionVars, Eligible,
     ShouldAutoApply, RunLevelAutoApply
<1>4. Carried' /\ ClaimsMatchWork'
  BY <1>1 DEF Inv, Carried, ClaimsMatchWork, Working, Remaining, sessionVars
<1>5. QED
  BY <1>2, <1>3, <1>4 DEF Inv

LEMMA CrashKeeps ==
  ASSUME Inv, NEW s \in Sessions, Crash(s)
  PROVE  Inv'
<1>1. delivery' \in {"queued", "acked"} /\ crashes' \in 0..MaxFaults
  BY ApplierAssumption DEF Inv, TypeOK, Crash
<1>2. QED
  BY <1>1, EndKeeps DEF Crash

LEMMA StepKeeps == Inv /\ [Next]_vars => Inv'
<1> SUFFICES ASSUME Inv, [Next]_vars PROVE Inv'
  OBVIOUS
<1>1. ASSUME NEW s \in Sessions, Work(s) PROVE Inv'
  <2>1. CASE LoadRows(s) \/ InsertRows(s) \/ Claim(s) \/ Call(s) \/ Stamp(s)
    BY <2>1, LoadKeeps, InsertKeeps, ClaimKeeps, CallKeeps, StampKeeps
  <2>2. CASE InsertLoses(s)
    <3>1. delivery' \in {"queued", "acked"} /\ crashes' \in 0..MaxFaults
      BY <2>2 DEF Inv, TypeOK, InsertLoses, faults
    <3>2. QED
      BY <2>2, <3>1, EndKeeps DEF InsertLoses, faults
  <2>3. CASE NothingWanted(s) \/ Done(s)
    BY <2>3, ReturnKeeps DEF NothingWanted, Done
  <2>4. CASE ClaimRefused(s)
    <3>1. delivery' \in {"queued", "acked"} /\ crashes' \in 0..MaxFaults
      BY <2>4 DEF Inv, TypeOK, ClaimRefused, Return, faults
    <3>2. QED
      BY <2>4, <3>1, EndKeeps DEF ClaimRefused, Return, faults
  <2>5. QED
    BY <1>1, <2>1, <2>2, <2>3, <2>4 DEF Work
<1>2. CASE UNCHANGED vars
  <2>1. TypeOK'
    BY <1>2 DEF Inv, TypeOK, vars, rowVars, faults, sessionVars
  <2>2. Planned' /\ Entitled' /\ Effective'
    BY <1>2 DEF Inv, Planned, Entitled, Effective, Working, vars, rowVars, faults, sessionVars,
       Eligible, ShouldAutoApply, RunLevelAutoApply
  <2>3. Carried' /\ ClaimsMatchWork'
    BY <1>2 DEF Inv, Carried, ClaimsMatchWork, Working, Remaining, vars, rowVars, faults, sessionVars
  <2>4. QED
    BY <2>1, <2>2, <2>3 DEF Inv
<1>3. QED
  BY <1>1, <1>2, PushKeeps, PersonKeeps, CrashKeeps, LapseKeeps DEF Next

THEOREM Invariance == Spec => []Inv
BY InitInv, StepKeeps, PTL DEF Spec

\* The types of the rows and of the sessions.
THEOREM TypesHold == Spec => []TypeOK
<1>1. Inv => TypeOK
  BY DEF Inv
<1>2. QED
  BY <1>1, Invariance, PTL

\* Without a person only eligible actions of a succeeded run take effect
\* (should_auto_apply), whatever is merged with them.
THEOREM PolicyHolds == Spec => []HeldNeedsPerson
<1>1. ASSUME Inv PROVE HeldNeedsPerson
  <2>1. SUFFICES ASSUME NEW s \in Sessions, kind[s] = "push", NEW i \in unit[s]
                 PROVE  /\ run.status = "succeeded"
                        /\ i \in Eligible
    BY <2>1 DEF HeldNeedsPerson, Eligible, ShouldAutoApply, RunLevelAutoApply
  <2>2. at[s] = "stamp"
    BY <1>1, <2>1 DEF Inv, Planned
  <2>3. QED
    BY <1>1, <2>1, <2>2 DEF Inv, Entitled
<1>2. QED
  BY <1>1, Invariance, PTL

\* What a session has left to do is what it holds, so that two sessions never
\* work on one action and none is left behind (_claim_for_apply), save on rows
\* that were taken over from a session at work.
THEOREM ClaimsMatch == Spec => []ClaimsMatchWork
<1>1. Inv => ClaimsMatchWork
  BY DEF Inv
<1>2. QED
  BY <1>1, Invariance, PTL

-----------------------------------------------------------------------------
(* Results of earlier actions                                              *)

\* What a session saw applied before its claim is applied.
SeenApplied(s) ==
  at[s] \in {"insert", "claim"} =>
    \A i \in Idx \ overtaken : view[s][i] = "applied" => rows[i] = "applied"

\* What a session does not know of its rows and has not to do, it failed at.
Tried(s) ==
  Working(s) =>
    \A j \in Chosen(s) : j \in known[s] \cup Remaining(s) \/ view[s][j] = "failed"

\* What is applied, or under way, while a session works is among its results
\* or its own to do, or not among its rows, or else a push may apply it but
\* nothing that the session has to do: another session claims no row on the
\* same side of the policy without those.
Followed(s) ==
  Working(s) =>
    \A j \in Idx \ overtaken : rows[j] \in {"applying", "applied"} =>
      \/ j \in known[s] \cup Remaining(s)
      \/ j \notin Chosen(s)
      \/ \A i \in Remaining(s) \ overtaken : j \in Eligible /\ i \notin Eligible

Hears(s) == SeenApplied(s) /\ Tried(s) /\ Followed(s)

Heard == Inv /\ \A s \in Sessions : Hears(s)

\* A step that makes no row applied or claimed, takes nothing from what a
\* working session knows, and adds nothing to what it has to do.
LEMMA QuietKeepsFollowed ==
  ASSUME Heard, NEW t \in Sessions, run' = run, overtaken' = overtaken,
         \A j \in Idx \ overtaken : rows'[j] \in {"applying", "applied"} =>
                                      rows[j] \in {"applying", "applied"},
         Working(t)' => /\ Working(t) /\ kind'[t] = kind[t] /\ Remaining(t)' \subseteq Remaining(t)
                        /\ \A j \in Idx : rows'[j] \in {"applying", "applied"} =>
                             (j \in known[t] \cup Remaining(t) => j \in known'[t] \cup Remaining(t)')
  PROVE  Followed(t)'
<1>1. Eligible' = Eligible
  BY DEF Eligible, ShouldAutoApply, RunLevelAutoApply
<1>2. SUFFICES ASSUME Working(t)', NEW j \in Idx \ overtaken, rows'[j] \in {"applying", "applied"}
               PROVE  \/ j \in known'[t] \cup Remaining(t)'
                      \/ j \notin Chosen(t)'
                      \/ \A i \in Remaining(t)' \ overtaken : j \in Eligible' /\ i \notin Eligible'
  BY DEF Followed
<1>3. Chosen(t)' = Chosen(t)
  BY <1>1, <1>2 DEF Chosen
<1>4. \/ j \in known[t] \cup Remaining(t)
      \/ j \notin Chosen(t)
      \/ \A i \in Remaining(t) \ overtaken : j \in Eligible /\ i \notin Eligible
  BY <1>2 DEF Heard, Hears, Followed
<1>5. QED
  BY <1>1, <1>2, <1>3, <1>4

\* A step of another session leaves to a session what it tried.
LEMMA QuietKeepsTried ==
  ASSUME Heard, NEW t \in Sessions, run' = run,
         Working(t)' => /\ Working(t) /\ kind'[t] = kind[t] /\ Remaining(t)' = Remaining(t)
                        /\ known'[t] = known[t] /\ view'[t] = view[t]
  PROVE  Tried(t)'
<1>1. Eligible' = Eligible
  BY DEF Eligible, ShouldAutoApply, RunLevelAutoApply
<1>2. Working(t)' => Chosen(t)' = Chosen(t)
  BY <1>1 DEF Chosen
<1>3. QED
  BY <1>2 DEF Heard, Hears, Tried

LEMMA HeardInit == Init => Heard
BY InitInv DEF Init, Heard, Hears, SeenApplied, Tried, Followed, Working

\* A session that ends forgets what it knew.
LEMMA EndHeard ==
  ASSUME Heard, NEW s \in Sessions, EndSession(s), UNCHANGED <<run, rows, overtaken>>,
         NEW t \in Sessions
  PROVE  Hears(t)'
<1>1. at'[s] = "idle" /\ \A r \in Sessions : r # s =>
        /\ at'[r] = at[r] /\ kind'[r] = kind[r] /\ view'[r] = view[r]
        /\ known'[r] = known[r] /\ Remaining(r)' = Remaining(r)
  BY DEF Heard, Inv, TypeOK, EndSession, Remaining
<1>2. SeenApplied(t)'
  BY <1>1 DEF Heard, Hears, SeenApplied
<1>3. Working(t)' => t # s /\ Working(t)
  BY <1>1 DEF Working
<1>4. Followed(t)' /\ Tried(t)'
  BY <1>1, <1>3, QuietKeepsFollowed, QuietKeepsTried
<1>5. QED
  BY <1>2, <1>4 DEF Hears

\* A session on its way to a claim.
LEMMA ApproachHeard ==
  ASSUME Heard, NEW s \in Sessions, UNCHANGED <<run, todo, unit, known, overtaken>>,
         at' \in [Sessions -> At], ~Working(s)', SeenApplied(s)',
         \A r \in Sessions : r # s => at'[r] = at[r] /\ kind'[r] = kind[r] /\ view'[r] = view[r],
         \A i \in Idx : rows[i] # "none" => rows'[i] = rows[i],
         \A i \in Idx : rows[i] = "none" => rows'[i] \notin {"applying", "applied"},
         NEW t \in Sessions
  PROVE  Hears(t)'
<1>1. SeenApplied(t)'
  BY DEF Heard, Hears, SeenApplied
<1>2. Remaining(t)' = Remaining(t)
  BY DEF Remaining
<1>3. Working(t)' => Working(t) /\ t # s
  BY DEF Working
<1>4. Followed(t)' /\ Tried(t)'
  BY <1>2, <1>3, QuietKeepsFollowed, QuietKeepsTried
<1>5. QED
  BY <1>1, <1>4 DEF Hears

LEMMA ClaimHeard ==
  ASSUME Heard, NEW s \in Sessions, Claim(s), NEW t \in Sessions
  PROVE  Hears(t)'
<1>1. PICK W \in SUBSET Idx : W = Wanted(s)
  BY DEF Wanted, Chosen, Eligible
<1>2. /\ rows' = [i \in Idx |-> IF i \in W THEN "applying" ELSE rows[i]]
      /\ todo' = [todo EXCEPT ![s] = Units(Actions, W)]
      /\ known' = [known EXCEPT ![s] = {i \in Chosen(s) : view[s][i] = "applied"}]
      /\ at' = [at EXCEPT ![s] = "apply"] /\ at[s] = "claim"
      /\ overtaken' = overtaken \cup {i \in W \cap lapsed : holder[i] # NoSession}
      /\ \A i \in W : Claimable(i)
      /\ \A r \in Sessions : r # s => view'[r] = view[r]
      /\ UNCHANGED <<run, unit, kind>>
  BY <1>1 DEF Claim, Heard, Inv, TypeOK
<1>3. at'[s] = "apply" /\ \A r \in Sessions : r # s =>
        at'[r] = at[r] /\ known'[r] = known[r] /\ Remaining(r)' = Remaining(r)
  BY <1>2 DEF Heard, Inv, TypeOK, Remaining
<1>4. Eligible' = Eligible /\ \A r \in Sessions : Chosen(r)' = Chosen(r)
  BY <1>2 DEF Eligible, ShouldAutoApply, RunLevelAutoApply, Chosen
<1>5. Remaining(s)' = W
  <2>1. W \in SUBSET Int /\ IsFiniteSet(W)
    BY Finite, FS_Subset
  <2>2. UNION Units(Actions, W) = W
    BY <2>1, UnitsPartition
  <2>3. unit[s] = {}
    BY <1>2 DEF Heard, Inv, Planned
  <2>4. todo'[s] = Units(Actions, W) /\ unit'[s] = {}
    BY <1>2, <2>3 DEF Heard, Inv, TypeOK
  <2>5. QED
    BY <2>2, <2>4 DEF Remaining
<1>6. SeenApplied(t)'
  <2>1. \A i \in Idx : rows[i] = "applied" => rows'[i] = "applied"
    BY <1>2 DEF Claimable
  <2>2. t # s => SeenApplied(t)
    BY DEF Heard, Hears
  <2>3. QED
    BY <1>2, <1>3, <2>1, <2>2 DEF SeenApplied
<1>7. ASSUME t = s PROVE Followed(t)' /\ Tried(t)'
  <2>1. known'[s] = {i \in Chosen(s) : view[s][i] = "applied"}
    BY <1>2 DEF Heard, Inv, TypeOK
  <2>a. Chosen(s) \subseteq Idx
    BY DEF Chosen, Eligible
  <2>2. \A j \in Chosen(s) : j \in known'[s] \cup W
    BY <1>1, <2>1, <2>a DEF Wanted
  <2>3. QED
    BY <1>4, <1>5, <1>7, <2>2 DEF Followed, Tried
<1>8. ASSUME t # s, Working(t)', NEW j \in Idx \ overtaken', rows'[j] \in {"applying", "applied"}
      PROVE  \/ j \in known'[t] \cup Remaining(t)'
             \/ j \notin Chosen(t)
             \/ \A i \in Remaining(t)' \ overtaken' : j \in Eligible /\ i \notin Eligible
  <2>1. Working(t) /\ known'[t] = known[t] /\ Remaining(t)' = Remaining(t)
    BY <1>3, <1>8 DEF Working
  <2>a. j \notin overtaken /\ overtaken \subseteq overtaken'
    BY <1>2, <1>8
  <2>2. CASE j \notin W
    <3>1. rows[j] \in {"applying", "applied"}
      BY <1>2, <1>8, <2>2
    <3>2. QED
      BY <1>8, <2>1, <2>a, <3>1 DEF Heard, Hears, Followed
  <2>3. ASSUME j \in W, NEW i \in Remaining(t) \ overtaken'
        PROVE  i \notin Eligible /\ j \in Eligible
    <3>1. i \in Idx /\ i \notin overtaken /\ rows[i] = "applying" /\ holder[i] = t
      BY <2>1, <2>3, <2>a DEF Heard, Inv, ClaimsMatchWork
    <3>2. i \notin W
      BY <1>2, <2>3, <3>1, ApplierAssumption DEF Claimable
    <3>3. view[s][i] # "applied"
      BY <1>2, <3>1 DEF Heard, Hears, SeenApplied
    <3>4. i \notin Chosen(s) /\ j \in Chosen(s)
      BY <1>1, <2>3, <3>1, <3>2, <3>3 DEF Wanted
    <3>5. QED
      BY <3>1, <3>4 DEF Chosen
  <2>4. QED
    BY <2>1, <2>2, <2>3
<1>9. t # s => Followed(t)'
  BY <1>4, <1>8 DEF Followed
<1>10. t # s => Tried(t)'
  BY <1>2, <1>3, QuietKeepsTried DEF Working
<1>11. QED
  BY <1>6, <1>7, <1>9, <1>10 DEF Hears


LEMMA CallHeard ==
  ASSUME Heard, NEW s \in Sessions, Call(s), NEW t \in Sessions
  PROVE  Hears(t)'
<1>1. PICK u \in todo[s] : u = NextUnit(todo[s])
  BY NextIsLeft DEF Heard, Call
<1>2. /\ unit' = [unit EXCEPT ![s] = u] /\ todo' = [todo EXCEPT ![s] = @ \ {u}]
      /\ at[s] = "apply" /\ at' = [at EXCEPT ![s] = "stamp"]
      /\ UNCHANGED <<run, rows, kind, view, known, overtaken>>
  BY <1>1 DEF Call, rowVars, faults
<1>3. Remaining(t)' = Remaining(t)
  <2>1. t # s => unit'[t] = unit[t] /\ todo'[t] = todo[t]
    BY <1>2 DEF Heard, Inv, TypeOK
  <2>2. unit[s] = {} /\ unit'[s] = u /\ todo'[s] = todo[s] \ {u}
    BY <1>2 DEF Heard, Inv, TypeOK, Planned
  <2>3. QED
    BY <2>1, <2>2 DEF Remaining
<1>4. at'[s] = "stamp" /\ (t # s => at'[t] = at[t])
  BY <1>2 DEF Heard, Inv, TypeOK
<1>5. Working(t)' => Working(t)
  BY <1>2, <1>4 DEF Working
<1>6. SeenApplied(t)'
  BY <1>2, <1>4 DEF Heard, Hears, SeenApplied
<1>7. Followed(t)' /\ Tried(t)'
  BY <1>2, <1>3, <1>5, QuietKeepsFollowed, QuietKeepsTried
<1>8. QED
  BY <1>6, <1>7 DEF Hears

LEMMA StampHeard ==
  ASSUME Heard, NEW s \in Sessions, Stamp(s), NEW t \in Sessions
  PROVE  Hears(t)'
<1>1. PICK u \in SUBSET Idx : u = unit[s]
  BY DEF Heard, Inv, TypeOK
<1>2. /\ rows' = [i \in Idx |-> IF i \in u THEN outcome[s] ELSE rows[i]]
      /\ unit' = [unit EXCEPT ![s] = {}]
      /\ view' = [view EXCEPT ![s] = [i \in Idx |-> IF i \in u THEN outcome[s] ELSE @[i]]]
      /\ known' = [known EXCEPT ![s] = IF outcome[s] = "applied" THEN @ \cup u ELSE @]
      /\ at[s] = "stamp" /\ at' = [at EXCEPT ![s] = "apply"]
      /\ UNCHANGED <<run, todo, kind, overtaken>>
  BY <1>1 DEF Stamp, faults
<1>3. at'[s] = "apply" /\ (t # s => at'[t] = at[t] /\ view'[t] = view[t])
  BY <1>2 DEF Heard, Inv, TypeOK
<1>4. \A i \in u \ overtaken : rows[i] = "applying"
  BY <1>1, <1>2 DEF Heard, Inv, ClaimsMatchWork, Working, Remaining
<1>5. \A i \in Idx \ overtaken :
        /\ rows[i] = "applied" => rows'[i] = "applied"
        /\ rows'[i] \in {"applying", "applied"} => rows[i] \in {"applying", "applied"}
  BY <1>2, <1>4
<1>6. SeenApplied(t)'
  BY <1>2, <1>3, <1>5 DEF Heard, Hears, SeenApplied
<1>7. Working(t)' => Working(t)
  BY <1>2, <1>3 DEF Working
<1>8. CASE t # s
  <2>1. Remaining(t)' = Remaining(t) /\ known'[t] = known[t]
    BY <1>2, <1>8 DEF Heard, Inv, TypeOK, Remaining
  <2>2. Followed(t)' /\ Tried(t)'
    BY <1>2, <1>3, <1>5, <1>7, <1>8, <2>1, QuietKeepsFollowed, QuietKeepsTried
  <2>3. QED
    BY <1>6, <2>2 DEF Hears
<1>9. CASE t = s
  <2>1. unit'[s] = {} /\ known'[s] = IF outcome[s] = "applied" THEN known[s] \cup u ELSE known[s]
    BY <1>2 DEF Heard, Inv, TypeOK
  <2>2. Remaining(s)' = UNION todo[s] /\ Remaining(s) = u \cup UNION todo[s]
    BY <1>1, <1>2, <2>1 DEF Remaining
  <2>o. outcome[s] \in {"applied", "failed"}
    BY DEF Heard, Inv, TypeOK
  <2>3. ASSUME NEW j \in u, rows'[j] \in {"applying", "applied"} PROVE j \in known'[s]
    <3>1. rows'[j] = outcome[s]
      BY <1>2, <2>3
    <3>2. QED
      BY <2>1, <2>3, <2>o, <3>1
  <2>4. \A j \in Idx : rows'[j] \in {"applying", "applied"} =>
          (j \in known[s] \cup Remaining(s) => j \in known'[s] \cup Remaining(s)')
    BY <2>1, <2>2, <2>3
  <2>5. Followed(s)'
    BY <1>2, <1>5, <1>7, <1>9, <2>2, <2>4, QuietKeepsFollowed
  <2>6. Tried(s)'
    <3>1. Chosen(s)' = Chosen(s) /\ Chosen(s) \subseteq Idx
      BY <1>2 DEF Chosen, Eligible, ShouldAutoApply, RunLevelAutoApply
    <3>2. ASSUME NEW j \in Chosen(s)
          PROVE  j \in known'[s] \cup Remaining(s)' \/ view'[s][j] = "failed"
      <4>1. view'[s][j] = IF j \in u THEN outcome[s] ELSE view[s][j]
        BY <1>2, <3>1 DEF Heard, Inv, TypeOK
      <4>2. j \in known[s] \cup Remaining(s) \/ view[s][j] = "failed"
        BY <1>2 DEF Heard, Hears, Tried, Working
      <4>3. QED
        BY <2>1, <2>2, <2>o, <4>1, <4>2
    <3>3. QED
      BY <3>1, <3>2 DEF Tried
  <2>7. QED
    BY <1>6, <1>9, <2>5, <2>6 DEF Hears
<1>10. QED
  BY <1>8, <1>9

LEMMA HeardStep == Heard /\ [Next]_vars => Heard'
<1> SUFFICES ASSUME Heard, [Next]_vars PROVE Heard'
  OBVIOUS
<1>1. Inv'
  BY StepKeeps DEF Heard
<1>2. SUFFICES ASSUME NEW t \in Sessions PROVE Hears(t)'
  BY <1>1 DEF Heard
<1>3. at' \in [Sessions -> At] /\ view \in [Sessions -> [Idx -> RowStatus]]
  BY <1>1 DEF Heard, Inv, TypeOK
<1>4. ASSUME NEW s \in Sessions, PushArrives(s) \/ PersonApplies(s)
      PROVE  Hears(t)'
  <2>1. /\ at[s] = "idle" /\ at'[s] \in {"idle", "load"}
        /\ \A r \in Sessions : r # s => at'[r] = at[r] /\ kind'[r] = kind[r]
        /\ UNCHANGED <<run, rows, view, todo, unit, known, overtaken>>
    BY <1>4 DEF PushArrives, PersonApplies, rowVars, faults, Heard, Inv, TypeOK
  <2>2. SeenApplied(s)' /\ ~Working(s)'
    BY <2>1 DEF SeenApplied, Working
  <2>3. QED
    BY <1>3, <2>1, <2>2, ApproachHeard
<1>5. ASSUME NEW s \in Sessions, LoadRows(s) PROVE Hears(t)'
  <2>1. /\ view' = [view EXCEPT ![s] = rows] /\ at' = [at EXCEPT ![s] = "insert"]
        /\ UNCHANGED <<run, rows, kind, todo, unit, known, overtaken>>
    BY <1>5 DEF LoadRows, rowVars, faults
  <2>2. /\ view'[s] = rows /\ at'[s] = "insert"
        /\ \A r \in Sessions : r # s => view'[r] = view[r] /\ at'[r] = at[r] /\ kind'[r] = kind[r]
    BY <2>1 DEF Heard, Inv, TypeOK
  <2>3. SeenApplied(s)' /\ ~Working(s)'
    BY <2>1, <2>2 DEF SeenApplied, Working
  <2>4. QED
    BY <1>3, <2>1, <2>2, <2>3, ApproachHeard
<1>6. ASSUME NEW s \in Sessions, InsertRows(s) PROVE Hears(t)'
  <2>1. /\ at[s] = "insert" /\ at'[s] = "claim"
        /\ \A i \in Idx : view'[s][i] = "applied" => view[s][i] = "applied"
        /\ \A r \in Sessions : r # s => view'[r] = view[r] /\ at'[r] = at[r] /\ kind'[r] = kind[r]
    BY <1>6 DEF InsertRows, Heard, Inv, TypeOK
  <2>2. \A i \in Idx : /\ rows[i] # "none" => rows'[i] = rows[i]
                       /\ rows[i] = "none" => rows'[i] \notin {"applying", "applied"}
    BY <1>6 DEF InsertRows
  <2>4. UNCHANGED <<run, todo, unit, known, overtaken>>
    BY <1>6 DEF InsertRows, faults
  <2>3. SeenApplied(s)' /\ ~Working(s)'
    BY <2>1, <2>2, <2>4 DEF Heard, Hears, SeenApplied, Working
  <2>5. QED
    BY <1>3, <2>1, <2>2, <2>3, <2>4, ApproachHeard
<1>7. ASSUME NEW s \in Sessions,
             InsertLoses(s) \/ NothingWanted(s) \/ ClaimRefused(s) \/ Done(s) \/ Crash(s)
      PROVE  Hears(t)'
  <2>1. EndSession(s) /\ UNCHANGED <<run, rows, overtaken>>
    BY <1>7 DEF InsertLoses, NothingWanted, ClaimRefused, Done, Crash, Return, faults
  <2>2. QED
    BY <2>1, EndHeard
<1>8. ASSUME NEW s \in Sessions, Work(s) PROVE Hears(t)'
  BY <1>5, <1>6, <1>7, <1>8, ClaimHeard, CallHeard, StampHeard DEF Work
<1>9. ASSUME UNCHANGED <<run, rows, sessionVars, overtaken>> PROVE Hears(t)'
  <2>1. Remaining(t)' = Remaining(t) /\ Working(t)' = Working(t)
    BY <1>9 DEF Remaining, Working, sessionVars
  <2>2. Followed(t)' /\ Tried(t)'
    BY <1>9, <2>1, QuietKeepsFollowed, QuietKeepsTried DEF sessionVars
  <2>3. SeenApplied(t)'
    BY <1>9 DEF Heard, Hears, SeenApplied, sessionVars
  <2>4. QED
    BY <2>2, <2>3 DEF Hears
<1>10. ASSUME NEW h \in Sessions \cup {NoSession}, LeaseLapses(h)
       PROVE  Hears(t)'
  BY <1>9, <1>10 DEF LeaseLapses
<1>11. CASE UNCHANGED vars
  BY <1>9, <1>11 DEF vars, rowVars, faults
<1>12. QED
  BY <1>4, <1>7, <1>8, <1>10, <1>11 DEF Next

\* Whatever pushes and apply-alls overlap, outlive their leases, are refused or
\* die: an action goes out with a reference unresolved whose result was there
\* only in the three ways EarlierResultsResolve names.
THEOREM ResultsReach == Spec => []EarlierResultsResolve
<1>1. Heard => EarlierResultsResolve
  <2>1. SUFFICES ASSUME Heard, NEW s \in Sessions, at[s] = "apply", todo[s] # {},
                        NEW i \in NextUnit(todo[s]), NEW j \in Unresolved(s, i),
                        rows[j] = "applied", i \notin overtaken, j \notin overtaken
                 PROVE  \/ kind[s] = "push" /\ j \notin Eligible
                        \/ /\ kind[s] = "manual" /\ view[s][j] = "failed"
                           /\ j \in Eligible /\ i \notin Eligible
    BY DEF EarlierResultsResolve
  <2>2. NextUnit(todo[s]) \in todo[s]
    BY <2>1, NextIsLeft DEF Heard
  <2>3. i \in Remaining(s) /\ Working(s)
    BY <2>1, <2>2 DEF Remaining, Working
  <2>4. Remaining(s) \ overtaken
          = {k \in Idx \ overtaken : rows[k] = "applying" /\ holder[k] = s}
    BY <2>1, <2>3 DEF Heard, Inv, ClaimsMatchWork
  <2>5. j \in Idx /\ j \notin known[s]
    <3>1. i \in Idx /\ Actions[i].refs \subseteq 1..(i - 1)
      BY <2>1, <2>3, <2>4, ApplierAssumption DEF IsAction
    <3>2. QED
      BY <2>1, <3>1, ApplierAssumption DEF Idx, Unresolved
  <2>6. j \notin Remaining(s)
    BY <2>1, <2>4
  <2>7. j \notin Chosen(s) \/ (j \in Eligible /\ i \notin Eligible)
    BY <2>1, <2>3, <2>5, <2>6 DEF Heard, Hears, Followed
  <2>8. j \in Chosen(s) => view[s][j] = "failed"
    BY <2>1, <2>3, <2>5, <2>6 DEF Heard, Hears, Tried
  <2>9. CASE kind[s] = "push"
    <3>1. i \in Eligible
      BY <2>1, <2>2, <2>9 DEF Heard, Inv, Entitled
    <3>2. QED
      BY <2>7, <2>9, <3>1 DEF Chosen
  <2>10. CASE kind[s] = "manual"
    BY <2>5, <2>7, <2>8, <2>10 DEF Chosen
  <2>11. QED
    BY <2>1, <2>9, <2>10 DEF Heard, Inv, TypeOK
<1>2. QED
  BY <1>1, HeardInit, HeardStep, PTL DEF Spec

-----------------------------------------------------------------------------
(* The promise                                                             *)

Phase == [i \in Idx |-> CASE i \in overtaken -> "void"
                          [] i \notin overtaken /\ rows[i] = "applying" -> "busy"
                          [] i \notin overtaken /\ rows[i] = "applied"  -> "done"
                          [] OTHER -> "open"]

\* What the phases say, action by action.
LEMMA PhaseIs ==
  ASSUME NEW i \in Idx
  PROVE  /\ Phase[i] = "void" <=> i \in overtaken
         /\ Phase[i] = "busy" <=> i \notin overtaken /\ rows[i] = "applying"
         /\ Phase[i] = "done" <=> i \notin overtaken /\ rows[i] = "applied"
         /\ Phase[i] = "open" <=> i \notin overtaken /\ rows[i] \notin {"applying", "applied"}
BY DEF Phase

LEMMA PromiseInit == Init => Promise!Init
BY DEF Init, Promise!Init, NoRows

\* What a session works on is claimed, or was taken over from a session at work.
LEMMA WorkIsClaimed ==
  ASSUME Inv, NEW s \in Sessions, Working(s), NEW i \in Remaining(s)
  PROVE  i \in Idx /\ Phase[i] \in {"busy", "void"}
<1>1. i \in Idx
  BY DEF Inv, TypeOK, Remaining
<1>2. i \notin overtaken => rows[i] = "applying"
  BY DEF Inv, ClaimsMatchWork
<1>3. QED
  BY <1>1, <1>2, PhaseIs

LEMMA PromiseClaim ==
  ASSUME Inv, NEW s \in Sessions, Claim(s)
  PROVE  Promise!Next
<1>1. PICK W \in SUBSET Idx : W = Wanted(s)
  BY DEF Wanted, Chosen, Eligible
<1>2. PICK V \in SUBSET W : V = {i \in W : i \notin overtaken /\ i \in overtaken'}
  OBVIOUS
<1>3. /\ W # {} /\ performed' = performed
      /\ rows' = [i \in Idx |-> IF i \in W THEN "applying" ELSE rows[i]]
      /\ overtaken' = overtaken \cup {i \in W \cap lapsed : holder[i] # NoSession}
      /\ \A i \in W : Claimable(i)
  BY <1>1 DEF Claim
<1>4. \A i \in W : Phase[i] # "done"
  BY <1>3, PhaseIs DEF Claimable
<1>5. \A i \in V : Phase[i] = "busy"
  BY <1>2, <1>3, PhaseIs DEF Inv, Carried
<1>6. ASSUME NEW i \in Idx
      PROVE  Phase'[i] = CASE i \in V -> "void"
                           [] i \in W \ V /\ Phase[i] # "void" -> "busy"
                           [] OTHER -> Phase[i]
  <2>1. Phase'[i] = CASE i \in overtaken' -> "void"
                      [] i \notin overtaken' /\ rows'[i] = "applying" -> "busy"
                      [] i \notin overtaken' /\ rows'[i] = "applied"  -> "done"
                      [] OTHER -> "open"
    BY DEF Phase
  <2>2. Phase[i] = CASE i \in overtaken -> "void"
                     [] i \notin overtaken /\ rows[i] = "applying" -> "busy"
                     [] i \notin overtaken /\ rows[i] = "applied"  -> "done"
                     [] OTHER -> "open"
    BY DEF Phase
  <2>3. i \in overtaken' <=> i \in overtaken \/ i \in V
    BY <1>2, <1>3
  <2>4. rows'[i] = IF i \in W THEN "applying" ELSE rows[i]
    BY <1>3
  <2>5. CASE i \in overtaken'
    BY <1>2, <2>1, <2>2, <2>3, <2>5
  <2>6. CASE i \notin overtaken' /\ i \in W
    BY <2>1, <2>2, <2>3, <2>4, <2>6
  <2>7. CASE i \notin overtaken' /\ i \notin W
    BY <2>1, <2>2, <2>3, <2>4, <2>7
  <2>8. QED
    BY <2>5, <2>6, <2>7
<1>7. Phase' = [i \in Idx |-> CASE i \in V -> "void"
                                [] i \in W \ V /\ Phase[i] # "void" -> "busy"
                                [] OTHER -> Phase[i]]
  <2>1. Phase' = [i \in Idx |-> Phase'[i]]
    BY DEF Phase
  <2>2. QED
    BY <1>6, <2>1
<1>8. Promise!Begin(W, V)
  BY <1>3, <1>4, <1>5, <1>7 DEF Promise!Begin, Phase
<1>9. QED
  BY <1>8 DEF Promise!Next

LEMMA PromiseCall ==
  ASSUME Inv, NEW s \in Sessions, Call(s)
  PROVE  [Promise!Next]_(Promise!promiseVars)
<1>1. PICK u \in todo[s] : u = NextUnit(todo[s])
  BY NextIsLeft DEF Call
<1>2. todo[s] \in SUBSET (SUBSET Idx) /\ {} \notin todo[s]
  BY DEF Inv, TypeOK, Planned
<1>3. u \in SUBSET Idx /\ u # {}
  BY <1>2
<1>4. \A i \in u : Phase[i] \in {"busy", "void"}
  BY WorkIsClaimed DEF Remaining, Working, Call
<1>5. Phase' = Phase
  BY DEF Call, Phase, rowVars, faults
<1>6. CASE performed' = [i \in Idx |->
             IF i \in u /\ performed[i] < 2 THEN performed[i] + 1 ELSE performed[i]]
  <2>1. Promise!Perform(u)
    BY <1>3, <1>4, <1>5, <1>6 DEF Promise!Perform, Phase
  <2>2. QED
    BY <1>3, <2>1 DEF Promise!Next
<1>7. CASE performed' = performed
  BY <1>5, <1>7 DEF Promise!promiseVars, Phase
<1>8. QED
  BY <1>1, <1>6, <1>7 DEF Call

LEMMA PromiseStamp ==
  ASSUME Inv, NEW s \in Sessions, Stamp(s)
  PROVE  Promise!Next
<1>1. PICK u \in SUBSET Idx : u = unit[s]
  BY DEF Inv, TypeOK
<1>2. u # {} /\ performed' = performed /\ overtaken' = overtaken
      /\ rows' = [i \in Idx |-> IF i \in u THEN outcome[s] ELSE rows[i]]
  BY <1>1 DEF Inv, Planned, Stamp, faults
<1>3. \A i \in u : Phase[i] \in {"busy", "void"}
  BY <1>1, WorkIsClaimed DEF Remaining, Working, Stamp
<1>4. PICK result : result = IF outcome[s] = "applied" THEN "done" ELSE "open"
  OBVIOUS
<1>5. outcome[s] \in {"applied", "failed"}
  BY DEF Inv, TypeOK
<1>6. ASSUME NEW i \in Idx
      PROVE  Phase'[i] = IF i \in u /\ Phase[i] = "busy" THEN result ELSE Phase[i]
  <2>1. Phase'[i] = CASE i \in overtaken -> "void"
                      [] i \notin overtaken /\ rows'[i] = "applying" -> "busy"
                      [] i \notin overtaken /\ rows'[i] = "applied"  -> "done"
                      [] OTHER -> "open"
    BY <1>2 DEF Phase
  <2>2. Phase[i] = CASE i \in overtaken -> "void"
                     [] i \notin overtaken /\ rows[i] = "applying" -> "busy"
                     [] i \notin overtaken /\ rows[i] = "applied"  -> "done"
                     [] OTHER -> "open"
    BY DEF Phase
  <2>3. rows'[i] = IF i \in u THEN outcome[s] ELSE rows[i]
    BY <1>2
  <2>4. CASE i \notin u
    BY <2>1, <2>2, <2>3, <2>4
  <2>5. CASE i \in u /\ i \in overtaken
    BY <2>1, <2>2, <2>5
  <2>6. CASE i \in u /\ i \notin overtaken
    <3>1. Phase[i] = "busy"
      BY <1>3, <2>6, PhaseIs
    <3>2. QED
      BY <1>4, <1>5, <2>1, <2>3, <2>6, <3>1
  <2>7. QED
    BY <2>4, <2>5, <2>6
<1>7. Phase' = [i \in Idx |-> IF i \in u /\ Phase[i] = "busy" THEN result ELSE Phase[i]]
  <2>1. Phase' = [i \in Idx |-> Phase'[i]]
    BY DEF Phase
  <2>2. QED
    BY <1>6, <2>1
<1>8. Promise!Settles(u, result)
  BY <1>2, <1>3, <1>7 DEF Promise!Settles, Phase
<1>9. result = "done" => \A i \in u : performed[i] > 0
  BY <1>1, <1>4, <1>5 DEF Inv, Effective
<1>10. Promise!Settle(u)
  BY <1>4, <1>8, <1>9 DEF Promise!Settle
<1>11. QED
  BY <1>10 DEF Promise!Next

LEMMA PromiseStep ==
  ASSUME Inv, [Next]_vars
  PROVE  [Promise!Next]_(Promise!promiseVars)
<1>1. ASSUME performed' = performed, Phase' = Phase
      PROVE  UNCHANGED Promise!promiseVars
  BY <1>1 DEF Promise!promiseVars, Phase
<1>2. ASSUME rows' = rows, performed' = performed, overtaken' = overtaken
      PROVE  UNCHANGED Promise!promiseVars
  BY <1>1, <1>2 DEF Phase
<1>3. ASSUME NEW s \in Sessions, InsertRows(s) PROVE UNCHANGED Promise!promiseVars
  <2>1. Phase' = Phase
    BY <1>3 DEF InsertRows, Phase, faults
  <2>2. QED
    BY <1>1, <1>3, <2>1 DEF InsertRows
<1>4. ASSUME NEW s \in Sessions, Work(s) PROVE [Promise!Next]_(Promise!promiseVars)
  <2>1. CASE \/ LoadRows(s) \/ InsertLoses(s) \/ NothingWanted(s) \/ ClaimRefused(s) \/ Done(s)
    BY <1>2, <2>1 DEF LoadRows, InsertLoses, NothingWanted, ClaimRefused, Done, rowVars, faults
  <2>2. QED
    BY <1>3, <1>4, <2>1, PromiseClaim, PromiseCall, PromiseStamp DEF Work
<1>5. ASSUME NEW s \in Sessions, PushArrives(s) \/ PersonApplies(s) \/ Crash(s)
      PROVE  UNCHANGED Promise!promiseVars
  BY <1>2, <1>5 DEF PushArrives, PersonApplies, Crash, rowVars, faults
<1>6. ASSUME NEW h \in Sessions \cup {NoSession}, LeaseLapses(h)
      PROVE  UNCHANGED Promise!promiseVars
  BY <1>2, <1>6 DEF LeaseLapses
<1>7. CASE UNCHANGED vars
  BY <1>2, <1>7 DEF vars, rowVars, faults
<1>8. QED
  BY <1>4, <1>5, <1>6, <1>7 DEF Next

\* The applier implements ActionPromise: actions take effect under a claim
\* only, are done only after they took effect, and then for good; those taken
\* over from a session at work are void.
THEOREM PromiseKept == Spec => KeepsPromise
<1>1. Inv /\ [Next]_vars => [Promise!Next]_(Promise!promiseVars)
  BY PromiseStep
<1>2. QED
  BY <1>1, PromiseInit, Invariance, PTL DEF Spec, KeepsPromise, Promise!Spec
=============================================================================
