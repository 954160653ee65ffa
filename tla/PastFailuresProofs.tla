-------------------------- MODULE PastFailuresProofs --------------------------
(***************************************************************************)
(* The counts of PastFailures are exact for a push to come, but for *.toml *)
(* files that go on with the queue of an *.ini file, miss nothing of a     *)
(* window, and leak into the evaluation for two causes only, for every     *)
(* batch, timespan, set of runnables and of items.                         *)
(*                                                                         *)
(* A queue counts a set of regressions: those of the items that use it,    *)
(* and perhaps of one that used it or that it was copied from.  It is      *)
(* bounded day by day by those up to that day, which moving its window     *)
(* keeps.  What is read over the items of a push is a sum, compared term   *)
(* by term with sums of cardinalities.                                     *)
(***************************************************************************)
EXTENDS PastFailures, FiniteSetTheorems, WellFoundedInduction, TLAPS

-------------------------------------------------------------------------------
(* Sums                                                                      *)

\* g adds up v over every set of indices.
Adds(g, v, S) ==
  /\ g \in [SUBSET S -> Int]
  /\ g[{}] = 0
  /\ \A s \in SUBSET S : \A x \in s : g[s] = v[x] + g[s \ {x}]

\* SumFunction is what any such g says of the whole set.
LEMMA SumIs ==
  ASSUME NEW S, IsFiniteSet(S), NEW v, DOMAIN v = S, NEW g, Adds(g, v, S)
  PROVE  SumFunction(v) = g[S]
<1> DEFINE Iter(h) == h = [s \in SUBSET S |->
             IF s = {} THEN 0 ELSE LET x == CHOOSE x \in s : TRUE IN v[x] + h[s \ {x}]]
<1>1. Iter(g)
  BY DEF Adds
<1>2. ASSUME NEW h, Iter(h) PROVE h = g
  <2>1. IsWellFoundedOn(StrictSubsetOrdering(S), SUBSET S)
    BY FS_StrictSubsetOrderingWellFounded, FS_FiniteSubsetsOfFinite
  <2>2. PICK D : D = {s \in SUBSET S : h[s] # g[s]}
    OBVIOUS
  <2>3. SUFFICES ASSUME D # {} PROVE FALSE
    BY <1>1, <1>2, <2>2
  <2>4. PICK t \in D : \A y \in D : <<y, t>> \notin StrictSubsetOrdering(S)
    BY <2>1, <2>2, <2>3, WFMin
  <2>5. QED
    BY <1>1, <1>2, <2>2, <2>4 DEF StrictSubsetOrdering
<1>3. SumFunction(v) = (CHOOSE h : Iter(h))[S]
  BY DEF SumFunction, SumFunctionOnSet, FoldFunctionOnSet, MapThenFoldSet
<1>4. Iter(CHOOSE h : Iter(h))
  <2> HIDE DEF Iter
  <2>1. QED
    BY <1>1
<1>5. (CHOOSE h : Iter(h)) = g
  <2> HIDE DEF Iter
  <2>1. QED
    BY <1>2, <1>4
<1>6. QED
  BY <1>3, <1>5

\* Every function to the integers is added up by some g, which SumIs then
\* makes the only one: the sum over a smallest set without such a g would
\* be made from the one over the set less an element.
LEMMA SumsExist ==
  ASSUME NEW S, IsFiniteSet(S), NEW v \in [S -> Int]
  PROVE  \E g : Adds(g, v, S)
<1>1. IsWellFoundedOn(StrictSubsetOrdering(S), SUBSET S)
  BY FS_StrictSubsetOrderingWellFounded, FS_FiniteSubsetsOfFinite
<1>2. PICK D : D = {T \in SUBSET S : ~ \E g : Adds(g, v, T)}
  OBVIOUS
<1>3. SUFFICES ASSUME D # {} PROVE FALSE
  BY <1>2
<1>4. PICK T \in D : \A y \in D : <<y, T>> \notin StrictSubsetOrdering(S)
  BY <1>1, <1>2, <1>3, WFMin
<1>5. CASE T = {}
  <2>1. PICK g : g = [s \in SUBSET T |-> 0]
    OBVIOUS
  <2>2. Adds(g, v, T)
    BY <1>5, <2>1 DEF Adds
  <2>3. QED
    BY <1>2, <2>2
<1>6. CASE T # {}
  <2>1. PICK x \in T : TRUE
    BY <1>6
  <2>2. T \ {x} \in SUBSET S /\ <<T \ {x}, T>> \in StrictSubsetOrdering(S)
    BY <1>2, <2>1 DEF StrictSubsetOrdering
  <2>3. PICK g : Adds(g, v, T \ {x})
    BY <1>2, <1>4, <2>2
  <2>4. PICK h : h = [s \in SUBSET T |-> IF x \in s THEN v[x] + g[s \ {x}] ELSE g[s]]
    OBVIOUS
  <2>5. v[x] \in Int
    BY <1>2, <2>1
  <2>6. h \in [SUBSET T -> Int] /\ h[{}] = 0
    <3>1. ASSUME NEW s \in SUBSET T PROVE h[s] \in Int
      BY <2>3, <2>4, <2>5 DEF Adds
    <3>2. QED
      BY <2>3, <2>4, <3>1 DEF Adds
  <2>7. ASSUME NEW s \in SUBSET T, NEW y \in s PROVE h[s] = v[y] + h[s \ {y}]
    <3>1. CASE x = y
      BY <2>4, <3>1
    <3>2. CASE x # y /\ x \notin s
      BY <2>3, <2>4, <3>2 DEF Adds
    <3>3. CASE x # y /\ x \in s
      <4>1. s \ {x} \in SUBSET (T \ {x}) /\ y \in s \ {x}
        BY <3>3
      <4>2. g[s \ {x}] = v[y] + g[(s \ {x}) \ {y}]
        BY <2>3, <4>1 DEF Adds
      <4>3. (s \ {x}) \ {y} = (s \ {y}) \ {x} /\ x \in s \ {y}
        BY <3>3
      <4>4. h[s] = v[x] + g[s \ {x}] /\ h[s \ {y}] = v[x] + g[(s \ {y}) \ {x}]
        BY <2>4, <3>3, <4>3
      <4>5. v[y] \in Int /\ g[(s \ {y}) \ {x}] \in Int
        BY <1>2, <2>3, <3>3 DEF Adds
      <4>6. g[s \ {x}] = v[y] + g[(s \ {y}) \ {x}]
        BY <4>2, <4>3
      <4>7. QED
        BY <2>5, <4>4, <4>5, <4>6
    <3>4. QED
      BY <3>1, <3>2, <3>3
  <2>8. Adds(h, v, T)
    BY <2>6, <2>7 DEF Adds
  <2>9. QED
    BY <1>2, <2>8
<1>7. QED
  BY <1>5, <1>6

\* What is at most as large term by term has at most as large a sum.
LEMMA SumsCompare ==
  ASSUME NEW S, IsFiniteSet(S), NEW u \in [S -> Int], NEW v \in [S -> Int],
         NEW f, Adds(f, u, S), NEW g, Adds(g, v, S), \A x \in S : u[x] <= v[x]
  PROVE  f[S] <= g[S]
<1>1. IsWellFoundedOn(StrictSubsetOrdering(S), SUBSET S)
  BY FS_StrictSubsetOrderingWellFounded, FS_FiniteSubsetsOfFinite
<1>2. PICK D : D = {s \in SUBSET S : ~(f[s] <= g[s])}
  OBVIOUS
<1>3. SUFFICES ASSUME D # {} PROVE FALSE
  BY <1>2
<1>4. PICK t \in D : \A y \in D : <<y, t>> \notin StrictSubsetOrdering(S)
  BY <1>1, <1>2, <1>3, WFMin
<1>5. t # {}
  <2>1. f[{}] = 0 /\ g[{}] = 0
    BY DEF Adds
  <2>2. f[{}] <= g[{}]
    BY <2>1
  <2>3. QED
    BY <1>2, <2>2
<1>6. PICK x \in t : TRUE
  BY <1>5
<1>7. t \ {x} \in SUBSET S /\ <<t \ {x}, t>> \in StrictSubsetOrdering(S)
  BY <1>2, <1>6 DEF StrictSubsetOrdering
<1>8. f[t \ {x}] <= g[t \ {x}]
  BY <1>2, <1>4, <1>7
<1>9. /\ f[t] = u[x] + f[t \ {x}] /\ g[t] = v[x] + g[t \ {x}]
      /\ f[t \ {x}] \in Int /\ g[t \ {x}] \in Int /\ u[x] \in Int /\ v[x] \in Int
  BY <1>2, <1>6, <1>7 DEF Adds
<1>10. u[x] <= v[x]
  BY <1>2, <1>6
<1>11. f[t] <= g[t]
  BY <1>8, <1>9, <1>10
<1>12. QED
  BY <1>2, <1>11

LEMMA SumAtMost ==
  ASSUME NEW S, IsFiniteSet(S), NEW u \in [S -> Int], NEW v \in [S -> Int],
         NEW g, Adds(g, v, S), \A x \in S : u[x] <= v[x]
  PROVE  SumFunction(u) \in Int /\ SumFunction(u) <= g[S]
<1>1. PICK f : Adds(f, u, S)
  BY SumsExist
<1>2. SumFunction(u) = f[S]
  BY <1>1, SumIs
<1>3. f[S] \in Int /\ f[S] <= g[S]
  BY <1>1, SumsCompare DEF Adds
<1>4. QED
  BY <1>2, <1>3

LEMMA SumAtLeast ==
  ASSUME NEW S, IsFiniteSet(S), NEW u \in [S -> Int], NEW v \in [S -> Int],
         NEW g, Adds(g, v, S), \A x \in S : v[x] <= u[x]
  PROVE  SumFunction(u) \in Int /\ SumFunction(u) >= g[S]
<1>1. PICK f : Adds(f, u, S)
  BY SumsExist
<1>2. SumFunction(u) = f[S]
  BY <1>1, SumIs
<1>3. f[S] \in Int /\ g[S] \in Int /\ g[S] <= f[S]
  BY <1>1, SumsCompare DEF Adds
<1>4. QED
  BY <1>2, <1>3

\* The regressions up to a batch.
UpTo(M, day) == {m \in M : Rounded(m[1]) <= day}

\* The cardinality of a union of disjoint sets is the sum of theirs.
Apart(F, S) == \A i, j \in S : i # j => F[i] \cap F[j] = {}
Joined(F, s) == UNION {F[i] : i \in s}
Sizes(v, F, S) == v = [i \in S |-> Cardinality(F[i])]
SizesJoined(g, F, S) == g = [s \in SUBSET S |-> Cardinality(Joined(F, s))]

LEMMA CardinalitiesAdd ==
  ASSUME NEW M, IsFiniteSet(M), NEW S, NEW F \in [S -> SUBSET M], Apart(F, S),
         NEW v, Sizes(v, F, S), NEW g, SizesJoined(g, F, S)
  PROVE  v \in [S -> Int] /\ Adds(g, v, S)
<1> USE DEF Sizes, SizesJoined
<1>1. ASSUME NEW i \in S PROVE IsFiniteSet(F[i]) /\ Cardinality(F[i]) \in Int
  <2>1. IsFiniteSet(F[i])
    BY FS_Subset
  <2>2. QED
    BY <2>1, FS_CardinalityType
<1>2. ASSUME NEW s \in SUBSET S
      PROVE  IsFiniteSet(Joined(F, s)) /\ Cardinality(Joined(F, s)) \in Int
  <2>1. Joined(F, s) \in SUBSET M
    BY DEF Joined
  <2>2. IsFiniteSet(Joined(F, s))
    BY <2>1, FS_Subset
  <2>3. QED
    BY <2>2, FS_CardinalityType
<1>3. g[{}] = 0
  <2>1. Joined(F, {}) = {}
    BY DEF Joined
  <2>2. QED
    BY <2>1, FS_EmptySet
<1>4. ASSUME NEW s \in SUBSET S, NEW x \in s PROVE g[s] = v[x] + g[s \ {x}]
  <2>1. Joined(F, s) = F[x] \cup Joined(F, s \ {x})
    BY DEF Joined
  <2>2. F[x] \cap Joined(F, s \ {x}) = {}
    BY DEF Joined, Apart
  <2>3. x \in S /\ s \ {x} \in SUBSET S
    OBVIOUS
  <2>4. Cardinality(Joined(F, s)) = Cardinality(F[x]) + Cardinality(Joined(F, s \ {x})) - 0
    BY <1>1, <1>2, <2>1, <2>2, <2>3, FS_Union, FS_EmptySet
  <2>5. QED
    BY <1>1, <1>2, <2>3, <2>4
<1>5. v \in [S -> Int]
  BY <1>1
<1>6. g \in [SUBSET S -> Int]
  BY <1>2
<1>7. QED
  BY <1>3, <1>4, <1>5, <1>6 DEF Adds

\* Two sums in one.
Summed(w, u, v, S) == w = [x \in S |-> u[x] + v[x]]

LEMMA SumsJoin ==
  ASSUME NEW S, NEW u \in [S -> Int], NEW v \in [S -> Int],
         NEW f, Adds(f, u, S), NEW g, Adds(g, v, S),
         NEW w, Summed(w, u, v, S), NEW h, Summed(h, f, g, SUBSET S)
  PROVE  w \in [S -> Int] /\ Adds(h, w, S)
<1> USE DEF Summed
<1>1. \A s \in SUBSET S : f[s] \in Int /\ g[s] \in Int
  BY DEF Adds
<1>2. h \in [SUBSET S -> Int] /\ h[{}] = 0
  <2>1. f[{}] = 0 /\ g[{}] = 0 /\ h[{}] = f[{}] + g[{}]
    BY DEF Adds
  <2>2. \A s \in SUBSET S : h[s] \in Int
    BY <1>1
  <2>3. h \in [SUBSET S -> Int]
    BY <2>2
  <2>4. QED
    BY <2>1, <2>3
<1>3. ASSUME NEW s \in SUBSET S, NEW x \in s PROVE h[s] = w[x] + h[s \ {x}]
  <2>1. f[s] = u[x] + f[s \ {x}] /\ g[s] = v[x] + g[s \ {x}]
    BY DEF Adds
  <2>2. /\ u[x] \in Int /\ v[x] \in Int /\ f[s \ {x}] \in Int /\ g[s \ {x}] \in Int
        /\ h[s] = f[s] + g[s] /\ h[s \ {x}] = f[s \ {x}] + g[s \ {x}] /\ w[x] = u[x] + v[x]
    BY <1>1
  <2>3. QED
    BY <2>1, <2>2
<1>4. w \in [S -> Int]
  <2>1. \A x \in S : w[x] \in Int
    OBVIOUS
  <2>2. QED
    BY <2>1
<1>5. QED
  BY <1>2, <1>3, <1>4 DEF Adds

-------------------------------------------------------------------------------
(* Batches                                                                   *)

LEMMA BatchIs == Batch \in Nat \ {0}
BY PastFailuresAssumption

LEMMA DivMod ==
  ASSUME NEW n \in Int, NEW b \in Nat \ {0}
  PROVE  /\ n \div b \in Int /\ n % b \in Int
         /\ n = b * (n \div b) + (n % b) /\ 0 <= n % b /\ n % b < b
OBVIOUS

\* Numbers are ordered by quotient, then by remainder.
LEMMA DivOrder ==
  ASSUME NEW b \in Nat \ {0}, NEW d \in Int, NEW e \in Int, NEW r \in Int, NEW s \in Int,
         0 <= r, r < b, 0 <= s, s < b,
         b * d + r <= b * e + s
  PROVE  d < e \/ (d = e /\ r <= s)
<1>1. CASE d > e
  <2>1. b * d >= b * (e + 1)
    BY <1>1
  <2>2. b * (e + 1) = b * e + b
    OBVIOUS
  <2>3. QED
    BY <2>1, <2>2
<1>2. QED
  BY <1>1

LEMMA DivIs ==
  ASSUME NEW b \in Nat \ {0}, NEW d \in Int, NEW r \in Int, 0 <= r, r < b
  PROVE  (b * d + r) \div b = d /\ (b * d + r) % b = r
<1> DEFINE n == b * d + r
<1>1. n \in Int
  OBVIOUS
<1>2. /\ n \div b \in Int /\ n % b \in Int
      /\ n = b * (n \div b) + (n % b) /\ 0 <= n % b /\ n % b < b
  BY <1>1, DivMod
<1>3. n \div b = d
  <2> HIDE DEF n
  <2>1. n = b * d + r
    BY DEF n
  <2>2. n \div b < d \/ n \div b = d
    BY <1>2, <2>1, DivOrder
  <2>3. d < n \div b \/ n \div b = d
    BY <1>2, <2>1, DivOrder
  <2>4. QED
    BY <1>2, <2>2, <2>3
<1>4. QED
  BY <1>2, <1>3

LEMMA DivNat ==
  ASSUME NEW n \in Nat, NEW b \in Nat \ {0}
  PROVE  n \div b \in Nat
<1>1. /\ n \div b \in Int /\ n % b \in Int
      /\ n = b * (n \div b) + (n % b) /\ 0 <= n % b /\ n % b < b
  BY DivMod
<1>2. b * 0 + 0 <= b * (n \div b) + (n % b)
  BY <1>1
<1>3. 0 < n \div b \/ 0 = n \div b
  BY <1>1, <1>2, DivOrder
<1>4. QED
  BY <1>1, <1>3

\* What Rounded is, by quotient and remainder.
Nearest(d, r) ==
    IF 2 * r > Batch \/ (2 * r = Batch /\ d % 2 = 1) THEN d + 1 ELSE d

LEMMA RoundedIsNearest ==
  ASSUME NEW d \in Int, NEW r \in Int, 0 <= r, r < Batch
  PROVE  Rounded(Batch * d + r) = Nearest(d, r)
BY DivIs, PastFailuresAssumption DEF Rounded, Nearest

LEMMA Split ==
  ASSUME NEW n \in Int
  PROVE  \E d \in Int, r \in Int : n = Batch * d + r /\ 0 <= r /\ r < Batch
BY DivMod, PastFailuresAssumption

LEMMA RoundedMonotone ==
  ASSUME NEW m \in Int, NEW n \in Int, m <= n
  PROVE  Rounded(m) \in Int /\ Rounded(m) <= Rounded(n)
<1>1. PICK d \in Int, r \in Int : m = Batch * d + r /\ 0 <= r /\ r < Batch
  BY Split
<1>2. PICK e \in Int, s \in Int : n = Batch * e + s /\ 0 <= s /\ s < Batch
  BY Split
<1>3. d < e \/ (d = e /\ r <= s)
  BY <1>1, <1>2, DivOrder, PastFailuresAssumption
<1>4. Rounded(m) = Nearest(d, r) /\ Rounded(n) = Nearest(e, s)
  BY <1>1, <1>2, RoundedIsNearest
<1>5. QED
  BY <1>1, <1>2, <1>3, <1>4, PastFailuresAssumption DEF Nearest

\* A batch earlier is one less, except from the middle of a batch.
LEMMA RoundedStep ==
  ASSUME NEW n \in Int, 2 * (n % Batch) # Batch
  PROVE  Rounded(n - Batch) = Rounded(n) - 1
<1>1. PICK d \in Int, r \in Int : n = Batch * d + r /\ 0 <= r /\ r < Batch
  BY Split
<1>2. n - Batch = Batch * (d - 1) + r
  BY <1>1, PastFailuresAssumption
<1>3. n % Batch = r
  BY <1>1, DivIs, PastFailuresAssumption
<1>4. Rounded(n) = Nearest(d, r) /\ Rounded(n - Batch) = Nearest(d - 1, r)
  BY <1>1, <1>2, RoundedIsNearest
<1>5. QED
  BY <1>3, <1>4, PastFailuresAssumption DEF Nearest

\* A number that reaches a batch is rounded to that batch or a later one.
LEMMA RoundedReaches ==
  ASSUME NEW n \in Int, NEW c \in Int, n >= c * Batch
  PROVE  Rounded(n) >= c
<1>1. PICK d \in Int, r \in Int : n = Batch * d + r /\ 0 <= r /\ r < Batch
  BY Split
<1>2. c < d \/ (c = d /\ 0 <= r)
  <2>1. Batch * c + 0 <= Batch * d + r
    BY <1>1, BatchIs
  <2>2. QED
    BY <1>1, <2>1, DivOrder, BatchIs
<1>3. Rounded(n) = Nearest(d, r)
  BY <1>1, RoundedIsNearest
<1>4. QED
  BY <1>1, <1>2, <1>3 DEF Nearest

\* The batches of a timespan, which a counter keeps one more than.
Kept == Timespan \div Batch

\* A lookback that a batch fits in with reaches no further than Kept batches.
LEMMA RoundedBack ==
  ASSUME NEW n \in Int, NEW back \in Nat, back + Batch <= Timespan
  PROVE  Kept \in Nat /\ Rounded(n - back) >= Rounded(n) - Kept
<1>1. PICK d \in Int, r \in Int : n = Batch * d + r /\ 0 <= r /\ r < Batch
  BY Split
<1>2. PICK k \in Int, t \in Int : Timespan = Batch * k + t /\ 0 <= t /\ t < Batch /\ k = Kept
  <2>1. /\ Kept \in Int /\ Timespan % Batch \in Int
        /\ Timespan = Batch * Kept + (Timespan % Batch)
        /\ 0 <= Timespan % Batch /\ Timespan % Batch < Batch
    BY DivMod, PastFailuresAssumption DEF Kept
  <2>2. QED
    BY <2>1
<1>3. PICK e \in Int, s \in Int : n - back = Batch * e + s /\ 0 <= s /\ s < Batch
  BY Split
<1>4. 0 <= k
  BY <1>2, DivNat, PastFailuresAssumption DEF Kept
<1>5. d - k < e \/ (d - k = e /\ r < s)
  <2>1. Batch * (d - k) = Batch * d - Batch * k
    BY <1>1, <1>2, PastFailuresAssumption
  <2>2. n - back >= n - Timespan + Batch
    BY PastFailuresAssumption
  <2>3. Batch * (d - k) + r < Batch * e + s
    BY <1>1, <1>2, <1>3, <2>1, <2>2, BatchIs
  <2>4. d - k < e \/ (d - k = e /\ r <= s)
    BY <1>1, <1>2, <1>3, <2>3, DivOrder, BatchIs
  <2>5. QED
    BY <1>1, <1>2, <1>3, <2>3, <2>4
<1>6. Rounded(n) = Nearest(d, r) /\ Rounded(n - back) = Nearest(e, s)
  BY <1>1, <1>3, RoundedIsNearest
<1>7. Nearest(e, s) >= Nearest(d, r) - k
  BY <1>1, <1>2, <1>3, <1>5, PastFailuresAssumption DEF Nearest
<1>8. QED
  BY <1>2, <1>4, <1>6, <1>7

-------------------------------------------------------------------------------
(* Counters                                                                  *)

LEMMA MinPair ==
  ASSUME NEW a \in Int, NEW b \in Int
  PROVE  Min({a, b}) = IF a <= b THEN a ELSE b
BY DEF Min

LEMMA MaxPair ==
  ASSUME NEW a \in Int, NEW b \in Int
  PROVE  Max({a, b}) = IF a >= b THEN a ELSE b
BY DEF Max

LEMMA SlotsAre == Newest \in Nat /\ MaxLen \in Nat \ {0} /\ Newest + 1 = MaxLen /\ Newest \in Slots
BY MaxLenAssumption DEF Newest, Slots

\* A gap moves what is there by one place at least, and by no more places than
\* days pass.
LEMMA AppendedBounds ==
  ASSUME NEW gap \in Nat \ {0}
  PROVE  Appended(gap) \in Int /\ 1 <= Appended(gap) /\ Appended(gap) <= gap
<1>1. PICK m \in Int : m = Min({gap, MaxLen}) /\ m <= gap
  BY SlotsAre, MinPair
<1>2. Appended(gap) = Max({m - 2, 0}) + 1
  BY <1>1 DEF Appended
<1>3. Max({m - 2, 0}) = IF m - 2 >= 0 THEN m - 2 ELSE 0
  BY MaxPair
<1>4. QED
  BY <1>1, <1>2, <1>3

Rising(upto) == upto \in [Int -> Nat] /\ \A d, e \in Int : d <= e => upto[d] <= upto[e]
Below(q, S, upto) == \A x \in S : q.list[x] <= upto[q.start + x]

\* Whatever the counts of a queue are bounded by, day by day, bounds them still
\* when the last day is set: no count moves to an earlier day.
LEMMA SetDayKeeps ==
  ASSUME NEW q \in Queue, NEW day \in Int, LastDay(q) <= day, NEW value \in Nat,
         NEW upto, Rising(upto), Below(q, Slots, upto),
         NEW p, p = SetDay(q, day, value)
  PROVE  /\ p \in Queue /\ LastDay(p) = day /\ p.list[Newest] = value
         /\ Below(p, Slots \ {Newest}, upto)
<1>1. /\ q.start \in Int /\ q.list \in [Slots -> Nat] /\ LastDay(q) \in Int
      /\ LastDay(q) = q.start + Newest /\ Newest \in Int
  BY SlotsAre DEF Queue, LastDay
<1>2. CASE day = LastDay(q)
  <2>1. p = [q EXCEPT !.list[Newest] = value]
    BY <1>2 DEF SetDay
  <2>2. p \in Queue /\ p.start = q.start /\ p.list = [q.list EXCEPT ![Newest] = value]
    BY <2>1, SlotsAre DEF Queue
  <2>3. QED
    BY <1>1, <1>2, <2>2, SlotsAre DEF LastDay, Below
<1>3. CASE day # LastDay(q)
  <2>1. PICK gap \in Nat \ {0} : gap = day - LastDay(q)
    BY <1>1, <1>3
  <2>2. PICK moved \in Int : moved = Appended(gap) /\ 1 <= moved /\ moved <= gap
    BY AppendedBounds
  <2>3. PICK list : list = [i \in Slots |-> IF i = Newest THEN value
                                            ELSE q.list[Min({i + moved, Newest})]]
    OBVIOUS
  <2>4. p = [q EXCEPT !.start = day - Newest, !.list = list]
    BY <1>3, <2>1, <2>2, <2>3 DEF SetDay
  <2>5. ASSUME NEW i \in Slots, i # Newest
        PROVE  list[i] \in Nat /\ list[i] <= upto[day - Newest + i]
    <3>1. i \in Int /\ 0 <= i /\ i < Newest
      BY <1>1, <2>5 DEF Slots
    <3>2. PICK j \in Slots : j = Min({i + moved, Newest}) /\ j <= i + moved
      <4>1. Min({i + moved, Newest}) = IF i + moved <= Newest THEN i + moved ELSE Newest
        BY <1>1, <2>2, <3>1, MinPair
      <4>2. QED
        BY <1>1, <2>2, <3>1, <4>1 DEF Slots
    <3>3. list[i] = q.list[j] /\ q.list[j] \in Nat /\ q.list[j] <= upto[q.start + j]
      BY <1>1, <2>3, <2>5, <3>2 DEF Below
    <3>4. j \in Int /\ q.start + j \in Int /\ day - Newest + i \in Int
      BY <1>1, <3>1 DEF Slots
    <3>5. q.start + j <= day - Newest + i
      BY <1>1, <2>1, <2>2, <3>1, <3>2, <3>4
    <3>6. upto[q.start + j] <= upto[day - Newest + i]
      BY <3>4, <3>5 DEF Rising
    <3>7. upto[q.start + j] \in Nat /\ upto[day - Newest + i] \in Nat
      BY <3>4 DEF Rising
    <3>8. QED
      BY <3>3, <3>6, <3>7
  <2>6. list \in [Slots -> Nat] /\ list[Newest] = value
    BY <2>3, <2>5, SlotsAre
  <2>7. p \in Queue /\ p.start = day - Newest /\ p.list = list
    <3>1. PICK start \in Int : start = day - Newest
      BY <1>1
    <3>2. p = [q EXCEPT !.start = start, !.list = list]
      BY <2>4, <3>1
    <3>3. p = [start |-> start, list |-> list, default |-> q.default]
      BY <3>2 DEF Queue
    <3>4. QED
      BY <2>6, <3>1, <3>3 DEF Queue
  <2>8. QED
    BY <1>1, <2>5, <2>6, <2>7 DEF LastDay, Below
<1>4. QED
  BY <1>2, <1>3

-------------------------------------------------------------------------------
(* The counts of a runnable and an item                                      *)

Among(M, r, i) == {m \in M : m[2] = r /\ m[3] = i}

\* A queue counts the regressions M as of push n: all of them in the end, and on
\* every day kept no more than those up to that day.
Counts(q, M, n) ==
  IF q = None THEN M = {}
  ELSE /\ q \in Queue
       /\ LastDay(q) <= Rounded(n)
       /\ q.list[Newest] = Cardinality(M)
       /\ \A x \in Slots : q.list[x] <= Cardinality(UpTo(M, q.start + x))

Numbered(M) == \A m \in M : m[1] \in Int

LEMMA UpToBounds ==
  ASSUME NEW M, IsFiniteSet(M), NEW d \in Int, NEW e \in Int, d <= e, Numbered(M)
  PROVE  /\ Cardinality(UpTo(M, d)) \in Nat /\ Cardinality(UpTo(M, e)) \in Nat
         /\ Cardinality(UpTo(M, d)) <= Cardinality(UpTo(M, e))
<1>1. \A m \in M : Rounded(m[1]) \in Int
  BY RoundedMonotone DEF Numbered
<1>2. UpTo(M, d) \subseteq UpTo(M, e)
  BY <1>1 DEF UpTo
<1>3. IsFiniteSet(UpTo(M, d)) /\ IsFiniteSet(UpTo(M, e))
  BY FS_Subset DEF UpTo
<1>4. QED
  BY <1>2, <1>3, FS_Subset, FS_CardinalityType

\* What a queue reads on a day it keeps, or before the first push.
LEMMA ValueBounds ==
  ASSUME NEW M, IsFiniteSet(M), Numbered(M), NEW n \in Int,
         NEW q, q # None, Counts(q, M, n), NEW day \in Int, day < 0 \/ Readable(q, day)
  PROVE  /\ ValueAt(q, day) \in Nat
         /\ ValueAt(q, day) <= Cardinality(UpTo(M, day))
         /\ (day >= 0 /\ day >= LastDay(q)) => ValueAt(q, day) = Cardinality(M)
<1>1. /\ q.start \in Int /\ q.list \in [Slots -> Nat] /\ q.default = 0
      /\ LastDay(q) \in Int /\ LastDay(q) = q.start + Newest /\ Newest \in Nat
      /\ q.list[Newest] = Cardinality(M)
      /\ \A x \in Slots : q.list[x] <= Cardinality(UpTo(M, q.start + x))
  BY SlotsAre DEF Counts, Queue, LastDay
<1>2. CASE day < 0
  <2>1. ValueAt(q, day) = 0
    BY <1>1, <1>2 DEF ValueAt
  <2>2. Cardinality(UpTo(M, day)) \in Nat
    BY UpToBounds
  <2>3. QED
    BY <1>2, <2>1, <2>2
<1>3. CASE day >= 0
  <2>1. day >= q.start
    BY <1>3 DEF Readable
  <2>2. PICK x \in Slots : /\ x = Min({day, LastDay(q)}) - q.start
                           /\ q.start + x <= day
                           /\ day >= LastDay(q) => x = Newest
    <3>1. Min({day, LastDay(q)}) = IF day <= LastDay(q) THEN day ELSE LastDay(q)
      BY <1>1, MinPair
    <3>2. Min({day, LastDay(q)}) - q.start \in Slots
      BY <1>1, <2>1, <3>1 DEF Slots
    <3>3. QED
      BY <1>1, <3>1, <3>2
  <2>3. ValueAt(q, day) = q.list[x]
    BY <1>3, <2>2 DEF ValueAt
  <2>4. q.list[x] \in Nat /\ q.list[x] <= Cardinality(UpTo(M, q.start + x))
    BY <1>1
  <2>5. q.start + x \in Int
    BY <1>1 DEF Slots
  <2>6. /\ Cardinality(UpTo(M, q.start + x)) \in Nat
        /\ Cardinality(UpTo(M, day)) \in Nat
        /\ Cardinality(UpTo(M, q.start + x)) <= Cardinality(UpTo(M, day))
    BY <2>2, <2>5, UpToBounds
  <2>7. QED
    BY <1>1, <2>2, <2>3, <2>4, <2>6
<1>4. QED
  BY <1>2, <1>3

Added(X, M, n) == X \cap M = {} /\ \A x \in X : x[1] = n

\* Counting the regressions of push n in the items that use a queue, the first
\* ones included, keeps a queue a count.
LEMMA CountedCounts ==
  ASSUME NEW n \in Nat \ {0}, NEW M, IsFiniteSet(M), Numbered(M),
         \A m \in M : m[1] <= n,
         NEW q, Counts(q, M, n - 1),
         NEW X, IsFiniteSet(X), Added(X, M, n),
         NEW p, p = Counted(q, n, Cardinality(X))
  PROVE  p \in Queue /\ p # None /\ Counts(p, M \cup X, n)
<1> DEFINE queue == IF q = None THEN NewQueue(Rounded(n), 0) ELSE q
<1>a. PICK day : day = Rounded(n)
  OBVIOUS
<1>b. PICK all : all = Cardinality(M)
  OBVIOUS
<1>c. PICK times \in Nat : times = Cardinality(X)
  BY FS_CardinalityType
<1>1. day \in Nat /\ Rounded(n - 1) <= day
  <2>1. n \in Int /\ n - 1 \in Int /\ n >= 0 * Batch /\ n - 1 <= n
    BY PastFailuresAssumption
  <2>2. Rounded(n) >= 0
    BY <2>1, RoundedReaches
  <2>3. QED
    BY <1>a, <2>1, <2>2, RoundedMonotone
<1>2. all \in Nat
  BY <1>b, FS_CardinalityType
<1>3. queue \in Queue /\ queue # None /\ Counts(queue, M, n)
  <2>1. CASE q = None
    <3>1. queue = NewQueue(day, 0) /\ M = {} /\ all = 0
      BY <1>a, <1>b, <2>1, FS_EmptySet DEF Counts
    <3>2. NewQueue(day, 0) \in Queue /\ LastDay(NewQueue(day, 0)) = day
      BY <1>1, SlotsAre DEF NewQueue, Queue, LastDay
    <3>3. \A s \in Slots : NewQueue(day, 0).list[s] = 0
      BY DEF NewQueue
    <3>4. \A d : UpTo(M, d) = {}
      BY <3>1 DEF UpTo
    <3> HIDE DEF queue
    <3>5. \A d : Cardinality(UpTo(M, d)) = 0
      BY <3>4, FS_EmptySet
    <3>6. queue \in Queue /\ queue # None /\ LastDay(queue) <= day
      BY <1>1, <3>1, <3>2, NoneAssumption
    <3>7. \A s \in Slots : queue.list[s] = 0
      BY <1>a, <3>1, <3>3
    <3>8. queue.list[Newest] = all
      BY <3>1, <3>7, SlotsAre
    <3>9. \A s \in Slots : queue.list[s] <= Cardinality(UpTo(M, queue.start + s))
      BY <3>5, <3>7
    <3>10. QED
      BY <1>a, <1>b, <3>6, <3>8, <3>9 DEF Counts
  <2>2. CASE q # None
    <3>1. queue = q /\ q \in Queue /\ LastDay(q) <= Rounded(n - 1)
      BY <2>2 DEF Counts
    <3>2. LastDay(q) \in Int /\ Rounded(n - 1) \in Int
      <4>1. n - 1 \in Int
        OBVIOUS
      <4>2. Rounded(n - 1) \in Int
        BY <4>1, RoundedMonotone
      <4>3. QED
        BY <3>1, <4>2, SlotsAre DEF Queue, LastDay
    <3>3. LastDay(q) <= Rounded(n)
      BY <1>a, <1>1, <3>1, <3>2
    <3>4. QED
      BY <2>2, <3>1, <3>3 DEF Counts
  <2>3. QED
    BY <2>1, <2>2
<1> HIDE DEF queue
<1>4. LastDay(queue) \in Int /\ LastDay(queue) <= day /\ Readable(queue, day) /\ queue.start \in Int
  <2>1. queue.start \in Int /\ LastDay(queue) = queue.start + Newest /\ Newest \in Nat
    BY <1>3, SlotsAre DEF Queue, LastDay
  <2>2. LastDay(queue) <= day
    BY <1>a, <1>3 DEF Counts
  <2>3. QED
    BY <1>1, <2>1, <2>2 DEF Readable
<1>5. Total(queue, n) = all
  <2>1. ValueAt(queue, day) = all
    BY <1>b, <1>1, <1>3, <1>4, ValueBounds
  <2>2. QED
    BY <1>a, <2>1 DEF Total
<1>6. p = SetDay(queue, day, all + times)
  BY <1>a, <1>c, <1>5 DEF Counted, queue
<1>7. PICK upto : upto = [d \in Int |-> Cardinality(UpTo(M, d))]
  OBVIOUS
<1>8. Rising(upto)
  BY <1>7, UpToBounds DEF Rising
<1>9. Below(queue, Slots, upto)
  BY <1>3, <1>4, <1>7 DEF Counts, Below, Slots
<1>10. /\ p \in Queue /\ LastDay(p) = day /\ p.list[Newest] = all + times
       /\ Below(p, Slots \ {Newest}, upto)
  <2>1. day \in Int /\ queue \in Queue /\ LastDay(queue) <= day
    BY <1>1, <1>3, <1>4
  <2>2. PICK value \in Nat : value = all + times
    BY <1>2, <1>c
  <2>3. p = SetDay(queue, day, value)
    BY <1>6, <2>2
  <2>4. /\ p \in Queue /\ LastDay(p) = day /\ p.list[Newest] = value
        /\ Below(p, Slots \ {Newest}, upto)
    BY <1>8, <1>9, <2>1, <2>3, SetDayKeeps
  <2>5. QED
    BY <2>2, <2>4
<1>11. IsFiniteSet(M \cup X) /\ Cardinality(M \cup X) = all + times
  <2>1. IsFiniteSet(M \cup X) /\ Cardinality(M \cup X) = Cardinality(M) + Cardinality(X) - 0
    BY FS_Union, FS_EmptySet DEF Added
  <2>2. QED
    BY <1>b, <1>c, <1>2, <2>1
<1>12. ASSUME NEW s \in Slots
       PROVE  p.list[s] <= Cardinality(UpTo(M \cup X, p.start + s))
  <2>1. p.start \in Int /\ p.start + s \in Int /\ p.list[s] \in Nat
    <3>1. p.start \in Int /\ p.list \in [Slots -> Nat]
      BY <1>10 DEF Queue
    <3>2. s \in Int
      BY SlotsAre DEF Slots
    <3>3. QED
      BY <3>1, <3>2
  <2>2. CASE s = Newest
    <3>1. p.start + s = day
      BY <1>10, <2>2 DEF LastDay
    <3>2. \A m \in M \cup X : Rounded(m[1]) <= day
      BY <1>a, RoundedMonotone DEF Numbered, Added
    <3>3. UpTo(M \cup X, p.start + s) = M \cup X
      BY <3>1, <3>2 DEF UpTo
    <3>4. p.list[s] = all + times /\ Cardinality(UpTo(M \cup X, p.start + s)) = all + times
      BY <1>10, <1>11, <2>2, <3>3
    <3>5. all + times \in Nat
      BY <1>2
    <3>6. QED
      BY <3>4, <3>5
  <2>3. CASE s # Newest
    <3>1. p.list[s] <= Cardinality(UpTo(M, p.start + s))
      BY <1>7, <1>10, <2>1, <2>3 DEF Below
    <3>2. UpTo(M, p.start + s) \subseteq UpTo(M \cup X, p.start + s)
      BY DEF UpTo
    <3>3. IsFiniteSet(UpTo(M \cup X, p.start + s)) /\ IsFiniteSet(UpTo(M, p.start + s))
      <4>1. UpTo(M \cup X, p.start + s) \subseteq M \cup X
        BY DEF UpTo
      <4>2. QED
        BY <1>11, <3>2, <4>1, FS_Subset
    <3>4. /\ Cardinality(UpTo(M, p.start + s)) <= Cardinality(UpTo(M \cup X, p.start + s))
          /\ Cardinality(UpTo(M, p.start + s)) \in Nat
          /\ Cardinality(UpTo(M \cup X, p.start + s)) \in Nat
      BY <3>2, <3>3, FS_Subset, FS_CardinalityType
    <3>5. QED
      BY <2>1, <3>1, <3>4
  <2>4. QED
    BY <2>2, <2>3
<1>13. p # None /\ LastDay(p) <= Rounded(n)
  BY <1>a, <1>1, <1>10, NoneAssumption
<1>14. QED
  BY <1>10, <1>11, <1>12, <1>13 DEF Counts

-------------------------------------------------------------------------------
(* The invariant                                                             *)

Typed ==
  /\ push_num \in Nat
  /\ db \in [Runnables -> [Items -> Queue \cup {None}]]
  /\ shared \in [Runnables -> SUBSET Toml]
  /\ IsFiniteSet(met)
  /\ \A m \in met : m[1] \in 1 .. push_num /\ m[2] \in Runnables /\ m[3] \in Items
  /\ skipped \subseteq 1 .. push_num
  /\ saved \in Seq(Nat) /\ \A k \in 1 .. Len(saved) : saved[k] <= push_num

\* An item and its counterpart.
Kin(i) == {i} \cup Counterparts({i})

\* The regressions of a runnable with the items whose queue is c's, which c's
\* queue counts; it may count others of c and its counterpart.
Belonging(r, c) == {m \in met : m[2] = r /\ Cell(r, m[3]) = c}
OfKin(r, c) == {m \in met : m[2] = r /\ m[3] \in Kin(c)}
Tally(M, r, c) == Belonging(r, c) \subseteq M /\ M \subseteq OfKin(r, c)

CountsKept ==
  \A r \in Runnables, c \in Items : \E M : Tally(M, r, c) /\ Counts(db[r][c], M, push_num)

\* What shares a queue has none of its own.
SharedOnly ==
  \A r \in Runnables : \A t \in shared[r] : db[r][t] = None /\ db[r][Ini[t]] # None

\* The pushes after a saved push are saved as well, unless one was skipped.
NumbersKept ==
  \A k \in 1 .. Len(saved) :
    (\A n \in skipped : n <= saved[k]) => saved[k] = push_num - (Len(saved) - k)

IInv == Typed /\ CountsKept /\ SharedOnly /\ NumbersKept

LEMMA IniFacts ==
  /\ Toml \subseteq Items
  /\ \A t \in Toml : Ini[t] \in Items /\ Ini[t] \notin Toml
  /\ \A t, u \in Toml : Ini[t] = Ini[u] => t = u
BY PastFailuresAssumption DEF Toml

LEMMA KinFacts ==
  ASSUME NEW t \in Toml
  PROVE  Kin(t) = {t, Ini[t]} /\ Kin(Ini[t]) = {t, Ini[t]}
<1>1. Counterparts({t}) = {Ini[t]}
  BY IniFacts DEF Counterparts
<1>2. Counterparts({Ini[t]}) = {t}
  BY IniFacts DEF Counterparts
<1>3. QED
  BY <1>1, <1>2 DEF Kin

LEMMA TriplesFinite ==
  ASSUME NEW n, NEW R, IsFiniteSet(R), NEW I, IsFiniteSet(I)
  PROVE  IsFiniteSet({n} \X R \X I)
<1>1. PICK f : f = [p \in R \X I |-> <<n, p[1], p[2]>>]
  OBVIOUS
<1>2. PICK T : T = {n} \X R \X I
  OBVIOUS
<1>3. f \in [R \X I -> T]
  BY <1>1, <1>2
<1>4. ASSUME NEW t \in T PROVE \E p \in R \X I : f[p] = t
  <2>1. t = <<n, t[2], t[3]>> /\ t[2] \in R /\ t[3] \in I
    BY <1>2
  <2>2. PICK p \in R \X I : p = <<t[2], t[3]>>
    BY <2>1
  <2>3. f[p] = <<n, t[2], t[3]>>
    BY <1>1, <2>2
  <2>4. QED
    BY <2>1, <2>3
<1>5. f \in Surjection(R \X I, T)
  BY <1>3, <1>4 DEF Surjection
<1>6. QED
  BY <1>2, <1>5, FS_Product, FS_Surjection

LEMMA CountsLater ==
  ASSUME NEW q, NEW M, NEW n \in Int, Counts(q, M, n)
  PROVE  Counts(q, M, n + 1)
<1>1. Rounded(n) \in Int /\ Rounded(n + 1) \in Int /\ Rounded(n) <= Rounded(n + 1)
  <2>1. n + 1 \in Int /\ n <= n + 1
    OBVIOUS
  <2>2. QED
    BY <2>1, RoundedMonotone
<1>2. CASE q = None
  BY <1>2 DEF Counts
<1>3. CASE q # None
  <2>1. q \in Queue /\ LastDay(q) <= Rounded(n)
    BY <1>3 DEF Counts
  <2>2. LastDay(q) \in Int
    BY <2>1, SlotsAre DEF Queue, LastDay
  <2>3. LastDay(q) <= Rounded(n + 1)
    BY <1>1, <2>1, <2>2
  <2>4. QED
    BY <1>3, <2>3 DEF Counts
<1>4. QED
  BY <1>2, <1>3

LEMMA InitInv == Init => IInv
<1> SUFFICES ASSUME Init PROVE IInv
  OBVIOUS
<1>1. Typed
  BY FS_EmptySet DEF Init, Typed
<1>2. CountsKept
  <2> SUFFICES ASSUME NEW r \in Runnables, NEW c \in Items
               PROVE  Tally({}, r, c) /\ Counts(db[r][c], {}, push_num)
    BY DEF CountsKept
  <2>1. QED
    BY DEF Init, Tally, Belonging, Counts
<1>3. SharedOnly /\ NumbersKept
  BY DEF Init, SharedOnly, NumbersKept
<1>4. QED
  BY <1>1, <1>2, <1>3 DEF IInv

LEMMA SkipKeeps ==
  ASSUME IInv, Skip
  PROVE  IInv'
<1> USE DEF IInv
<1>1. push_num' = push_num + 1 /\ push_num \in Nat /\ UNCHANGED <<db, shared, saved, met>>
  BY DEF Skip, Typed
<1>2. Typed'
  BY DEF Skip, Typed
<1>3. CountsKept'
  <2> SUFFICES ASSUME NEW r \in Runnables, NEW c \in Items
               PROVE  (\E M : Tally(M, r, c) /\ Counts(db[r][c], M, push_num))'
    BY DEF CountsKept
  <2>1. PICK M : Tally(M, r, c) /\ Counts(db[r][c], M, push_num)
    BY DEF CountsKept
  <2>2. Counts(db[r][c], M, push_num + 1)
    BY <1>1, <2>1, CountsLater
  <2>3. Tally(M, r, c)'
    BY <1>1, <2>1 DEF Tally, Belonging, OfKin, Cell
  <2>4. QED
    BY <1>1, <2>2, <2>3
<1>4. NumbersKept'
  <2> SUFFICES ASSUME NEW k \in (1 .. Len(saved))', \A n \in skipped' : n <= saved'[k]
               PROVE  FALSE
    BY DEF NumbersKept
  <2>1. saved[k] <= push_num /\ saved[k] \in Nat
    BY DEF Skip, Typed
  <2>2. push_num + 1 \in skipped' /\ saved' = saved
    BY DEF Skip
  <2>3. push_num + 1 <= saved[k]
    BY <2>2
  <2>4. QED
    BY <1>1, <2>1, <2>3
<1>5. SharedOnly'
  BY <1>1 DEF SharedOnly
<1>6. QED
  BY <1>2, <1>3, <1>4, <1>5

\* A queue is copied to a counterpart that had none, whose regressions it counts.
LEMMA SyncKeeps ==
  ASSUME IInv, Sync
  PROVE  IInv'
<1> USE DEF IInv
<1>1. /\ db' = [r \in Runnables |-> [i \in Items |->
                 IF i \in shared[r] THEN db[r][Ini[i]] ELSE db[r][i]]]
      /\ shared' = [r \in Runnables |-> {}]
      /\ UNCHANGED <<push_num, saved, met, skipped>>
  BY DEF Sync
<1>2. \A r \in Runnables : shared[r] \subseteq Toml
  BY DEF Typed
<1>3. ASSUME NEW r \in Runnables, NEW c \in Items
      PROVE  /\ db'[r][c] \in Queue \cup {None}
             /\ (\E M : Tally(M, r, c) /\ Counts(db[r][c], M, push_num))'
  <2>1. CASE c \in shared[r]
    <3>1. /\ c \in Toml /\ Ini[c] \in Items /\ Ini[c] \notin Toml
          /\ db[r][c] = None /\ db[r][Ini[c]] # None /\ db'[r][c] = db[r][Ini[c]]
      BY <1>1, <1>2, <2>1, IniFacts DEF SharedOnly
    <3>2. PICK M : Tally(M, r, Ini[c]) /\ Counts(db[r][Ini[c]], M, push_num)
      BY <3>1 DEF CountsKept
    <3>3. Belonging(r, c)' \subseteq M
      <4>1. SUFFICES ASSUME NEW m \in met, m[2] = r, Cell(r, m[3])' = c PROVE m \in M
        BY <1>1 DEF Belonging
      <4>2. m[3] = c
        BY <3>1, <4>1, IniFacts DEF Cell
      <4>3. Cell(r, m[3]) = Ini[c]
        BY <3>1, <4>2 DEF Cell
      <4>4. QED
        BY <3>2, <4>1, <4>3 DEF Tally, Belonging
    <3>4. M \subseteq OfKin(r, c)'
      BY <1>1, <3>1, <3>2, KinFacts DEF Tally, OfKin
    <3>5. QED
      BY <1>1, <3>1, <3>2, <3>3, <3>4 DEF Tally, Typed
  <2>2. CASE c \notin shared[r]
    <3>1. db'[r][c] = db[r][c]
      BY <1>1, <2>2
    <3>2. PICK M : Tally(M, r, c) /\ Counts(db[r][c], M, push_num)
      BY DEF CountsKept
    <3>3. Belonging(r, c)' \subseteq M
      <4>1. SUFFICES ASSUME NEW m \in met, m[2] = r, Cell(r, m[3])' = c PROVE m \in M
        BY <1>1 DEF Belonging
      <4>2. m[3] \in Items
        BY DEF Typed
      <4>3. CASE m[3] = c
        BY <3>1, <3>2, <4>1, <4>3 DEF Cell, Tally, Belonging
      <4>4. CASE m[3] # c
        <5>1. m[3] \in Toml /\ Ini[m[3]] = c /\ db'[r][m[3]] = None
          BY <4>1, <4>4 DEF Cell
        <5>2. db[r][m[3]] = None
          BY <1>1, <4>2, <5>1 DEF SharedOnly
        <5>3. QED
          BY <3>2, <4>1, <5>1, <5>2 DEF Cell, Tally, Belonging
      <4>5. QED
        BY <4>3, <4>4
    <3>4. M \subseteq OfKin(r, c)'
      BY <1>1, <3>2 DEF Tally, OfKin
    <3>5. QED
      BY <1>1, <3>1, <3>2, <3>3, <3>4 DEF Tally, Typed
  <2>3. QED
    BY <2>1, <2>2
<1>4. Typed'
  BY <1>1, <1>3 DEF Typed
<1>5. CountsKept'
  BY <1>3 DEF CountsKept
<1>6. SharedOnly' /\ NumbersKept'
  BY <1>1 DEF SharedOnly, NumbersKept
<1>7. QED
  BY <1>4, <1>5, <1>6

\* The regressions of a push that a queue counts, and what that makes of it.
Gained(n, r, users) == {<<n, r, u>> : u \in users}

LEMMA GainedFacts ==
  ASSUME NEW n, NEW r, NEW users, IsFiniteSet(users)
  PROVE  IsFiniteSet(Gained(n, r, users)) /\ Cardinality(Gained(n, r, users)) = Cardinality(users)
<1>1. PICK f : f = [u \in users |-> <<n, r, u>>]
  OBVIOUS
<1>2. f \in Bijection(users, Gained(n, r, users))
  <2>1. f \in [users -> Gained(n, r, users)]
    BY <1>1 DEF Gained
  <2>2. \A u, v \in users : f[u] = f[v] => u = v
    BY <1>1
  <2>3. \A t \in Gained(n, r, users) : \E u \in users : f[u] = t
    BY <1>1 DEF Gained
  <2>4. QED
    BY <2>1, <2>2, <2>3 DEF Bijection, Injection, Surjection, IsInjective
<1>3. ExistsBijection(users, Gained(n, r, users))
  BY <1>2 DEF ExistsBijection
<1>4. QED
  BY <1>3, FS_Bijection

PushGain(r, c, items, regressed, later) ==
  IF r \in regressed
    THEN Gained(push_num + 1, r, Users(c, items, FallBack(r, items, regressed, later))) ELSE {}

\* What a push does to the queue of one cell, and where it leaves the items.
LEMMA PushCounts ==
  ASSUME IInv, NEW items \in SUBSET Items, NEW regressed, NEW passed, NEW later, NEW recent,
         Push(items, regressed, passed, later, recent), NEW r \in Runnables, NEW c \in Items,
         NEW M, Tally(M, r, c), Counts(db[r][c], M, push_num)
  PROVE  /\ db'[r][c] \in Queue \cup {None}
         /\ Counts(db'[r][c], M \cup PushGain(r, c, items, regressed, later), push_num + 1)
         /\ db'[r][c] = None <=> db[r][c] = None /\ PushGain(r, c, items, regressed, later) = {}
<1> DEFINE falling == FallBack(r, items, regressed, later)
<1>x. PICK X : X = PushGain(r, c, items, regressed, later)
  OBVIOUS
<1>1. PICK n \in Nat \ {0} : n = push_num + 1 /\ push_num = n - 1
  BY DEF IInv, Typed
<1>2. PICK q : q = db[r][c] /\ q \in Queue \cup {None} /\ Counts(q, M, n - 1)
  BY <1>1 DEF IInv, Typed
<1>3. PICK users : users = Users(c, items, falling) /\ users \in SUBSET items
  BY DEF Users
<1>4. db'[r][c] = IF r \in regressed /\ users # {} THEN Counted(q, n, Cardinality(users)) ELSE q
  BY <1>1, <1>2, <1>3 DEF Push
<1>5. M \subseteq met
  BY DEF Tally, OfKin
<1>6. CASE r \in regressed /\ users # {}
  <2>1. IsFiniteSet(users)
    <3>1. IsFiniteSet(Items) /\ users \in SUBSET Items
      BY <1>3, PastFailuresAssumption
    <3>2. QED
      BY <3>1, FS_Subset
  <2>2. X = Gained(n, r, users)
    BY <1>x, <1>1, <1>3, <1>6 DEF PushGain
  <2>3. IsFiniteSet(X) /\ Cardinality(X) = Cardinality(users)
    BY <2>1, <2>2, GainedFacts
  <2>4. \A m \in M : m[1] \in Int /\ m[1] <= n /\ m[1] # n
    BY <1>1, <1>5 DEF IInv, Typed
  <2>5. Added(X, M, n)
    BY <2>2, <2>4 DEF Added, Gained
  <2>6. IsFiniteSet(M) /\ Numbered(M)
    BY <1>5, <2>4, FS_Subset DEF IInv, Typed, Numbered
  <2>7. PICK p : p = db'[r][c]
    OBVIOUS
  <2>8. p = Counted(q, n, Cardinality(X))
    BY <1>4, <1>6, <2>3, <2>7
  <2>9. p \in Queue /\ p # None /\ Counts(p, M \cup X, n)
    <3>1. \A m \in M : m[1] <= n
      BY <2>4
    <3> HIDE <2>4
    <3>2. QED
      BY <1>2, <2>3, <2>5, <2>6, <2>8, <3>1, CountedCounts
  <2>10. X # {}
    BY <1>6, <2>2 DEF Gained
  <2>11. QED
    BY <1>1, <1>x, <2>7, <2>9, <2>10
<1>7. CASE ~(r \in regressed /\ users # {})
  <2>1. X = {} /\ M \cup X = M
    BY <1>x, <1>3, <1>7 DEF PushGain, Gained
  <2>2. Counts(q, M, n)
    <3>1. push_num \in Int /\ Counts(q, M, push_num)
      BY <1>1, <1>2
    <3>2. QED
      BY <1>1, <3>1, CountsLater
  <2>3. QED
    BY <1>x, <1>1, <1>2, <1>4, <1>7, <2>1, <2>2
<1>8. QED
  BY <1>x, <1>6, <1>7

LEMMA PushNone ==
  ASSUME IInv, NEW items \in SUBSET Items, NEW regressed, NEW passed, NEW later, NEW recent,
         Push(items, regressed, passed, later, recent), NEW r \in Runnables, NEW c \in Items,
         NEW falling, falling = FallBack(r, items, regressed, later)
  PROVE  db'[r][c] = None <=> db[r][c] = None /\ ~(r \in regressed /\ Users(c, items, falling) # {})
<1>1. PICK M : Tally(M, r, c) /\ Counts(db[r][c], M, push_num)
  BY DEF IInv, CountsKept
<1>2. db'[r][c] = None <=> db[r][c] = None /\ PushGain(r, c, items, regressed, later) = {}
  BY <1>1, PushCounts
<1>3. PushGain(r, c, items, regressed, later) = {} <=>
        ~(r \in regressed /\ Users(c, items, falling) # {})
  BY DEF PushGain, Gained
<1>4. QED
  BY <1>2, <1>3

\* The items of a push go on with the queue they were given; an item with
\* regressions keeps its queue.
LEMMA PushCells ==
  ASSUME IInv, NEW items \in SUBSET Items, NEW regressed, NEW passed, NEW later, NEW recent,
         Push(items, regressed, passed, later, recent), NEW r \in Runnables,
         NEW falling, falling = FallBack(r, items, regressed, later)
  PROVE  /\ \A u \in items : r \in regressed => Cell(r, u)' = IF u \in falling THEN Ini[u] ELSE u
         /\ \A m \in met : m[2] = r => Cell(r, m[3])' = Cell(r, m[3])
<1>1. \A t \in falling : t \in Toml /\ t \in items /\ db[r][t] = None
  BY DEF FallBack
<1>2. \A c \in Items : db'[r][c] = None <=>
                          db[r][c] = None /\ ~(r \in regressed /\ Users(c, items, falling) # {})
  BY PushNone
<1>3. ASSUME NEW t \in Toml, t \in falling \/ t \notin items PROVE Users(t, items, falling) = {}
  BY <1>1, <1>3, IniFacts DEF Users
<1>4. ASSUME NEW u \in items, r \in regressed
      PROVE  Cell(r, u)' = IF u \in falling THEN Ini[u] ELSE u
  <2>1. CASE u \notin Toml
    BY <1>1, <2>1 DEF Cell
  <2>2. CASE u \in Toml /\ u \in falling
    BY <1>1, <1>2, <1>3, <2>2 DEF Cell
  <2>3. CASE u \in Toml /\ u \notin falling
    <3>1. u \in Users(u, items, falling)
      BY <2>3 DEF Users
    <3>2. db'[r][u] # None
      BY <1>2, <1>4, <3>1
    <3>3. QED
      BY <2>3, <3>2 DEF Cell
  <2>4. QED
    BY <2>1, <2>2, <2>3
<1>5. ASSUME NEW m \in met, m[2] = r PROVE Cell(r, m[3])' = Cell(r, m[3])
  <2>1. PICK u \in Items : u = m[3]
    BY DEF IInv, Typed
  <2>2. CASE u \notin Toml \/ db[r][u] # None
    BY <1>2, <2>1, <2>2 DEF Cell
  <2>3. CASE u \in Toml /\ db[r][u] = None
    <3>1. Ini[u] \in Items /\ m \in Belonging(r, Ini[u])
      BY <1>5, <2>1, <2>3, IniFacts DEF Belonging, Cell
    <3>2. db[r][Ini[u]] # None
      BY <3>1 DEF IInv, CountsKept, Tally, Counts
    <3>3. u \in items => u \in falling
      BY <2>3, <3>2 DEF FallBack
    <3>4. db'[r][u] = None
      BY <1>2, <1>3, <2>3, <3>3
    <3>5. QED
      BY <2>1, <2>3, <3>4 DEF Cell
  <2>4. QED
    BY <2>2, <2>3
<1>6. QED
  BY <1>4, <1>5

LEMMA PushTallies ==
  ASSUME IInv, NEW items \in SUBSET Items, NEW regressed, NEW passed, NEW later, NEW recent,
         Push(items, regressed, passed, later, recent), NEW r \in Runnables, NEW c \in Items
  PROVE  /\ db'[r][c] \in Queue \cup {None}
         /\ (\E M : Tally(M, r, c) /\ Counts(db[r][c], M, push_num))'
<1>1. PICK n : n = push_num + 1
  OBVIOUS
<1>2. push_num' = n /\ met' = met \cup ({n} \X regressed \X items)
  BY <1>1 DEF Push
<1>3. PICK falling : falling = FallBack(r, items, regressed, later)
  OBVIOUS
<1>4. PICK M : Tally(M, r, c) /\ Counts(db[r][c], M, push_num)
  BY DEF IInv, CountsKept
<1>5. PICK users : users = Users(c, items, falling)
  OBVIOUS
<1>6. PICK X : X = IF r \in regressed THEN Gained(n, r, users) ELSE {}
  OBVIOUS
<1>7. db'[r][c] \in Queue \cup {None} /\ Counts(db'[r][c], M \cup X, n)
  <2>1. X = PushGain(r, c, items, regressed, later)
    BY <1>1, <1>3, <1>5, <1>6 DEF PushGain
  <2>2. /\ db'[r][c] \in Queue \cup {None}
        /\ Counts(db'[r][c], M \cup PushGain(r, c, items, regressed, later), push_num + 1)
    BY <1>4, PushCounts
  <2>3. QED
    BY <1>1, <2>1, <2>2
<1>8. /\ \A u \in items : r \in regressed => Cell(r, u)' = IF u \in falling THEN Ini[u] ELSE u
      /\ \A m \in met : m[2] = r => Cell(r, m[3])' = Cell(r, m[3])
  BY <1>3, PushCells
<1>9. Belonging(r, c)' \subseteq M \cup X
  <2>1. SUFFICES ASSUME NEW m \in met', m[2] = r, Cell(r, m[3])' = c PROVE m \in M \cup X
    BY DEF Belonging
  <2>2. CASE m \in met
    BY <1>4, <1>8, <2>1, <2>2 DEF Tally, Belonging
  <2>3. CASE m \notin met
    <3>1. m = <<n, r, m[3]>> /\ r \in regressed /\ m[3] \in items
      BY <1>2, <2>1, <2>3
    <3>2. m[3] \in users
      BY <1>5, <1>8, <2>1, <3>1 DEF Users
    <3>3. QED
      BY <1>6, <3>1, <3>2 DEF Gained
  <2>4. QED
    BY <2>2, <2>3
<1>10. M \cup X \subseteq OfKin(r, c)'
  <2>1. M \subseteq OfKin(r, c)'
    BY <1>2, <1>4 DEF Tally, OfKin
  <2>2. ASSUME NEW u \in users PROVE u \in items /\ u \in Kin(c)
    <3>1. u \in items /\ c = IF u \in falling THEN Ini[u] ELSE u
      BY <1>5, <2>2 DEF Users
    <3>2. CASE u \in falling
      BY <1>3, <3>1, <3>2, KinFacts DEF FallBack
    <3>3. CASE u \notin falling
      BY <3>1, <3>3 DEF Kin
    <3>4. QED
      BY <3>1, <3>2, <3>3
  <2>3. ASSUME NEW x \in X PROVE x \in OfKin(r, c)'
    <3>1. PICK u \in users : x = <<n, r, u>> /\ r \in regressed
      BY <1>6, <2>3 DEF Gained
    <3>2. x \in met' /\ x[2] = r /\ x[3] = u
      BY <1>2, <2>2, <3>1
    <3>3. QED
      BY <2>2, <3>1, <3>2 DEF OfKin
  <2>4. QED
    BY <2>1, <2>3
<1>11. Tally(M \cup X, r, c)'
  BY <1>9, <1>10 DEF Tally
<1>12. QED
  BY <1>2, <1>7, <1>11

LEMMA PushShares ==
  ASSUME IInv, NEW items \in SUBSET Items, NEW regressed, NEW passed, NEW later, NEW recent,
         Push(items, regressed, passed, later, recent)
  PROVE  shared' \in [Runnables -> SUBSET Toml] /\ SharedOnly'
<1>1. shared' = [r \in Runnables |->
                   IF r \in regressed \cup passed
                     THEN shared[r] \cup FallBack(r, items, regressed, later) ELSE shared[r]]
  BY DEF Push
<1>2. shared' \in [Runnables -> SUBSET Toml]
  BY <1>1 DEF IInv, Typed, FallBack
<1>3. ASSUME NEW r \in Runnables, NEW t \in shared'[r]
      PROVE  db'[r][t] = None /\ db'[r][Ini[t]] # None
  <2>1. PICK falling : falling = FallBack(r, items, regressed, later)
    OBVIOUS
  <2>2. t \in Toml /\ t \in Items /\ Ini[t] \in Items /\ Ini[t] \notin Toml
    BY <1>2, <1>3, IniFacts
  <2>3. \A c \in Items : db'[r][c] = None <=>
                           db[r][c] = None /\ ~(r \in regressed /\ Users(c, items, falling) # {})
    BY <2>1, PushNone
  <2>4. /\ db[r][t] = None /\ (t \in items => t \in falling)
        /\ \/ db[r][Ini[t]] # None
           \/ r \in regressed /\ Ini[t] \in items
    BY <1>1, <1>3, <2>1, <2>2 DEF FallBack, IInv, SharedOnly
  <2>5. \A u \in falling : u \in Toml
    BY <2>1 DEF FallBack
  <2>6. Users(t, items, falling) = {}
    BY <2>2, <2>4, <2>5, IniFacts DEF Users
  <2>7. Ini[t] \in items => Users(Ini[t], items, falling) # {}
    BY <2>2, <2>5 DEF Users
  <2>8. QED
    BY <2>2, <2>3, <2>4, <2>6, <2>7
<1>4. QED
  BY <1>2, <1>3 DEF SharedOnly

LEMMA PushKeeps ==
  ASSUME IInv, NEW items \in SUBSET Items, NEW regressed \in SUBSET Runnables, NEW passed,
         NEW later, NEW recent \in BOOLEAN, Push(items, regressed, passed, later, recent)
  PROVE  IInv'
<1>1. PICK n \in Nat \ {0} : n = push_num + 1 /\ push_num = n - 1
  BY DEF IInv, Typed
<1>a. db' = [r \in Runnables |-> [c \in Items |-> db'[r][c]]]
  BY DEF Push
<1>2. /\ push_num' = n
      /\ saved' = IF recent THEN Append(saved, n) ELSE saved
      /\ met' = met \cup ({n} \X regressed \X items)
      /\ skipped' = skipped
  BY <1>1 DEF Push
<1>3. ASSUME NEW r \in Runnables, NEW c \in Items
      PROVE  /\ db'[r][c] \in Queue \cup {None}
             /\ (\E M : Tally(M, r, c) /\ Counts(db[r][c], M, push_num))'
  BY PushTallies
<1>4. Typed'
  <2>1. push_num' \in Nat /\ skipped' \subseteq 1 .. push_num'
    <3>1. push_num \in Nat /\ skipped \subseteq 1 .. push_num
      BY DEF IInv, Typed
    <3>2. QED
      BY <1>1, <1>2, <3>1
  <2>2. db' \in [Runnables -> [Items -> Queue \cup {None}]]
    BY <1>a, <1>3
  <2>3. IsFiniteSet(met')
    <3>1. IsFiniteSet(regressed) /\ IsFiniteSet(items)
      BY FS_Subset, PastFailuresAssumption
    <3>2. IsFiniteSet({n} \X regressed \X items)
      BY <3>1, TriplesFinite
    <3>3. IsFiniteSet(met)
      BY DEF IInv, Typed
    <3>4. QED
      BY <1>2, <3>2, <3>3, FS_Union
  <2>4. \A m \in met' : m[1] \in 1 .. push_num' /\ m[2] \in Runnables /\ m[3] \in Items
    <3>1. \A m \in met : m[1] \in 1 .. push_num /\ m[2] \in Runnables /\ m[3] \in Items
      BY DEF IInv, Typed
    <3>2. QED
      BY <1>1, <1>2, <3>1
  <2>5. saved' \in Seq(Nat) /\ \A k \in 1 .. Len(saved') : saved'[k] <= push_num'
    <3>1. saved \in Seq(Nat) /\ \A k \in 1 .. Len(saved) : saved[k] <= push_num
      BY DEF IInv, Typed
    <3>2. QED
      BY <1>1, <1>2, <3>1
  <2>6. shared' \in [Runnables -> SUBSET Toml]
    BY PushShares
  <2>7. QED
    BY <2>1, <2>2, <2>3, <2>4, <2>5, <2>6 DEF Typed
<1>5. CountsKept'
  BY <1>3 DEF CountsKept
<1>6. SharedOnly'
  BY PushShares
<1>7. NumbersKept'
  <2>1. CASE recent
    <3>1. saved \in Seq(Nat) /\ saved' = Append(saved, n) /\ Len(saved') = Len(saved) + 1
      BY <1>2, <2>1 DEF IInv, Typed
    <3>2. SUFFICES ASSUME NEW k \in 1 .. Len(saved'), \A m \in skipped : m <= saved'[k]
                   PROVE  saved'[k] = n - (Len(saved') - k)
      BY <1>2 DEF NumbersKept
    <3>3. CASE k = Len(saved')
      BY <3>1, <3>3
    <3>4. CASE k # Len(saved')
      <4>1. k \in 1 .. Len(saved) /\ saved'[k] = saved[k] /\ saved[k] \in Nat
        BY <3>1, <3>4
      <4>2. saved[k] = push_num - (Len(saved) - k)
        BY <3>2, <4>1 DEF IInv, NumbersKept
      <4>3. QED
        BY <1>1, <3>1, <4>1, <4>2
    <3>5. QED
      BY <3>3, <3>4
  <2>2. CASE ~recent
    <3>1. saved' = saved /\ skipped' = skipped /\ saved = <<>>
      BY <1>2, <2>2 DEF Push
    <3>2. QED
      BY <3>1 DEF IInv, NumbersKept, Typed
  <2>3. QED
    BY <2>1, <2>2
<1>8. QED
  BY <1>4, <1>5, <1>6, <1>7 DEF IInv

\* What is known of every state: each queue counts what was met with the items
\* that use it, exactly in all and from above on each day; and a push saved is as
\* far from the last push as from the end of the list, unless one was skipped in
\* between.
THEOREM CountsHold == Spec => []IInv
<1>1. IInv /\ [Next]_vars => IInv'
  <2> SUFFICES ASSUME IInv, [Next]_vars PROVE IInv'
    OBVIOUS
  <2>1. CASE Skip
    BY <2>1, SkipKeeps
  <2>2. CASE Sync
    BY <2>2, SyncKeeps
  <2>3. ASSUME NEW items \in Changes, NEW regressed \in SUBSET Runnables,
               NEW passed \in SUBSET Runnables, NEW recent \in BOOLEAN, NEW later \in SUBSET Toml,
               Push(items, regressed, passed, later, recent)
        PROVE  IInv'
    <3>1. items \in SUBSET Items
      BY PastFailuresAssumption
    <3>2. QED
      BY <2>3, <3>1, PushKeeps
  <2>4. CASE UNCHANGED vars
    BY <2>4 DEF vars, IInv, Typed, CountsKept, SharedOnly, NumbersKept,
                Tally, Belonging, OfKin, Cell
  <2>5. QED
    BY <2>1, <2>2, <2>3, <2>4 DEF Next
<1>2. QED
  BY InitInv, <1>1, PTL DEF Spec

-------------------------------------------------------------------------------
(* What the counts read                                                      *)

\* The regressions that the queue of an item counts: all those with the item,
\* and perhaps some with its counterpart.
CountedBy(M, r, i) ==
  /\ Among(met, r, i) \subseteq M /\ M \subseteq OfKin(r, i)
  /\ IsFiniteSet(M) /\ Numbered(M)
  /\ Counts(Find(r, i), M, push_num)

LEMMA ItemCounts ==
  ASSUME IInv, NEW r \in Runnables, NEW i \in Items
  PROVE  \E M : CountedBy(M, r, i)
<1>1. Cell(r, i) \in Items /\ Kin(Cell(r, i)) = Kin(i)
  BY IniFacts, KinFacts DEF Cell
<1>2. PICK M : Tally(M, r, Cell(r, i)) /\ Counts(Find(r, i), M, push_num)
  BY <1>1 DEF IInv, CountsKept, Find
<1>3. Among(met, r, i) \subseteq M /\ M \subseteq OfKin(r, i)
  BY <1>1, <1>2 DEF Tally, Belonging, OfKin, Among
<1>4. IsFiniteSet(M)
  <2>1. M \in SUBSET met
    BY <1>3 DEF OfKin
  <2>2. QED
    BY <2>1, FS_Subset DEF IInv, Typed
<1>5. Numbered(M)
  BY <1>3 DEF OfKin, Numbered, IInv, Typed
<1>6. QED
  BY <1>2, <1>3, <1>4, <1>5 DEF CountedBy

\* A queue that exists, and the day of its last count.
LEMMA QueueIs ==
  ASSUME IInv, NEW r \in Runnables, NEW items \in SUBSET Items, NEW i \in Known(r, items)
  PROVE  /\ i \in Items /\ i \in items /\ Find(r, i) # None /\ Find(r, i) \in Queue
         /\ LastDay(Find(r, i)) = Find(r, i).start + Newest
         /\ Find(r, i).start \in Int /\ LastDay(Find(r, i)) <= Rounded(push_num)
<1>1. i \in Items /\ i \in items /\ Find(r, i) # None
  BY DEF Known
<1>2. PICK M : CountedBy(M, r, i)
  BY <1>1, ItemCounts
<1>3. Find(r, i) \in Queue /\ LastDay(Find(r, i)) <= Rounded(push_num)
  BY <1>1, <1>2 DEF CountedBy, Counts
<1>4. Find(r, i).start \in Int
  BY <1>3 DEF Queue
<1>5. QED
  BY <1>1, <1>3, <1>4 DEF LastDay

LEMMA UpcomingDay ==
  ASSUME Typed
  PROVE  /\ Upcoming \in Nat /\ push_num \in Nat /\ push_num < Upcoming
         /\ Rounded(Upcoming) \in Nat /\ Rounded(push_num) \in Int
         /\ Rounded(push_num) <= Rounded(Upcoming)
<1>1. push_num \in Nat /\ Upcoming \in Nat /\ push_num < Upcoming
  BY DEF Typed, Upcoming
<1>2. Upcoming >= 0 * Batch
  BY <1>1, PastFailuresAssumption
<1>3. Rounded(Upcoming) >= 0
  BY <1>1, <1>2, RoundedReaches
<1>4. QED
  BY <1>1, <1>3, RoundedMonotone

LEMMA TotalIs ==
  ASSUME IInv, NEW r \in Runnables, NEW items \in SUBSET Items, NEW i \in Known(r, items),
         NEW M, CountedBy(M, r, i)
  PROVE  Total(Find(r, i), Upcoming) = Cardinality(M)
<1>1. PICK q : q = Find(r, i)
  OBVIOUS
<1>2. PICK day : day = Rounded(Upcoming)
  OBVIOUS
<1>3. /\ q # None /\ Counts(q, M, push_num) /\ IsFiniteSet(M) /\ Numbered(M)
      /\ LastDay(q) = q.start + Newest /\ q.start \in Int /\ LastDay(q) <= Rounded(push_num)
  BY <1>1, QueueIs DEF CountedBy
<1>4. day \in Nat /\ push_num \in Nat /\ Rounded(push_num) <= day /\ Rounded(push_num) \in Int
  BY <1>2, UpcomingDay DEF IInv
<1>5. day >= LastDay(q) /\ Readable(q, day)
  BY <1>3, <1>4, SlotsAre DEF Readable
<1>6. ValueAt(q, day) = Cardinality(M)
  <2>1. day \in Int /\ push_num \in Int /\ day >= 0
    BY <1>4
  <2>2. QED
    BY <1>3, <1>5, <2>1, ValueBounds
<1>7. QED
  BY <1>1, <1>2, <1>6 DEF Total

\* Those of a set of regressions that are of a runnable and of some items.
Share(P, r, items) == {m \in P : m[2] = r /\ m[3] \in items}

LEMMA ShareIsFinite ==
  ASSUME NEW P, IsFiniteSet(P), NEW r, NEW items, NEW more, items \subseteq more
  PROVE  /\ IsFiniteSet(Share(P, r, items)) /\ Cardinality(Share(P, r, items)) \in Nat
         /\ Cardinality(Share(P, r, more)) \in Nat
         /\ Cardinality(Share(P, r, items)) <= Cardinality(Share(P, r, more))
<1>1. Share(P, r, items) \in SUBSET Share(P, r, more) /\ Share(P, r, more) \in SUBSET P
  BY DEF Share
<1>2. IsFiniteSet(Share(P, r, more))
  BY <1>1, FS_Subset
<1>3. IsFiniteSet(Share(P, r, items))
  BY <1>1, <1>2, FS_Subset
<1>4. QED
  BY <1>1, <1>2, <1>3, FS_Subset, FS_CardinalityType

\* The regressions of the items of a push are those of the items with a queue.
LEMMA KnownHoldAll ==
  ASSUME IInv, NEW r \in Runnables, NEW items \in SUBSET Items, NEW P \in SUBSET met
  PROVE  /\ Share(P, r, Known(r, items)) = Share(P, r, items)
         /\ IsFiniteSet(P) /\ IsFiniteSet(Known(r, items))
<1>1. ASSUME NEW m \in P, m[2] = r, m[3] \in items PROVE m[3] \in Known(r, items)
  <2>1. PICK i \in Items : i = m[3]
    BY <1>1
  <2>2. PICK M : CountedBy(M, r, i)
    BY ItemCounts
  <2>3. m \in M
    BY <1>1, <2>1, <2>2 DEF CountedBy, Among
  <2>4. Find(r, i) # None
    BY <2>2, <2>3 DEF CountedBy, Counts
  <2>5. QED
    BY <1>1, <2>1, <2>4 DEF Known
<1>2. Share(P, r, Known(r, items)) = Share(P, r, items)
  BY <1>1 DEF Share, Known
<1>3. IsFiniteSet(P)
  BY FS_Subset DEF IInv, Typed
<1>4. IsFiniteSet(Known(r, items))
  BY FS_Subset, PastFailuresAssumption DEF Known
<1>5. QED
  BY <1>2, <1>3, <1>4

\* A sum over items of what each is bounded by is bounded by what there is of
\* all of them, as items have no regression in common.
AtLeastOwn(u, K, P, r) == \A i \in K : u[i] >= Cardinality(Share(P, r, {i}))
AtMostKin(u, K, P, r) == \A i \in K : u[i] <= Cardinality(Share(P, r, Kin(i)))

LEMMA SumsOfOwn ==
  ASSUME IInv, NEW r \in Runnables, NEW items \in SUBSET Items, NEW P \in SUBSET met,
         NEW u \in [Known(r, items) -> Int], AtLeastOwn(u, Known(r, items), P, r)
  PROVE  SumFunction(u) \in Int /\ SumFunction(u) >= Cardinality(Share(P, r, items))
<1>1. PICK K : K = Known(r, items)
  OBVIOUS
<1>2. Share(P, r, K) = Share(P, r, items) /\ IsFiniteSet(P) /\ IsFiniteSet(K)
  BY <1>1, KnownHoldAll
<1>3. PICK F : F = [i \in K |-> Share(P, r, {i})]
  OBVIOUS
<1>4. F \in [K -> SUBSET P] /\ Apart(F, K) /\ Joined(F, K) = Share(P, r, K)
  BY <1>3 DEF Share, Apart, Joined
<1>5. PICK v : v = [i \in K |-> Cardinality(F[i])]
  OBVIOUS
<1>6. PICK g : g = [s \in SUBSET K |-> Cardinality(Joined(F, s))]
  OBVIOUS
<1>7. v \in [K -> Int] /\ Adds(g, v, K)
  <2>1. Sizes(v, F, K) /\ SizesJoined(g, F, K)
    BY <1>5, <1>6 DEF Sizes, SizesJoined
  <2>2. QED
    BY <1>2, <1>4, <2>1, CardinalitiesAdd
<1>8. ASSUME NEW i \in K PROVE v[i] <= u[i]
  <2>1. v[i] = Cardinality(Share(P, r, {i})) /\ v[i] \in Int /\ u[i] \in Int
    BY <1>1, <1>3, <1>5, <1>7
  <2>2. u[i] >= Cardinality(Share(P, r, {i}))
    BY <1>1 DEF AtLeastOwn
  <2>3. QED
    BY <2>1, <2>2
<1>9. SumFunction(u) \in Int /\ SumFunction(u) >= g[K]
  <2>1. u \in [K -> Int]
    BY <1>1
  <2>2. QED
    BY <1>2, <1>7, <1>8, <2>1, SumAtLeast
<1>10. QED
  BY <1>2, <1>4, <1>6, <1>9

LEMMA KinApart ==
  ASSUME NEW i \in Items, NEW j \in Items
  PROVE  /\ i \notin Counterparts({i})
         /\ i # j => Counterparts({i}) \cap Counterparts({j}) = {}
<1>1. i \notin Counterparts({i})
  BY IniFacts DEF Counterparts
<1>2. i # j => Counterparts({i}) \cap Counterparts({j}) = {}
  BY IniFacts DEF Counterparts
<1>3. QED
  BY <1>1, <1>2

LEMMA SumsWithKin ==
  ASSUME IInv, NEW r \in Runnables, NEW items \in SUBSET Items, NEW P \in SUBSET met,
         NEW u \in [Known(r, items) -> Int], AtMostKin(u, Known(r, items), P, r)
  PROVE  /\ SumFunction(u) \in Int
         /\ SumFunction(u) <= Cardinality(Share(P, r, items))
                                + Cardinality(Share(P, r, Counterparts(items)))
<1>1. PICK K : K = Known(r, items) /\ K \subseteq items
  BY DEF Known
<1>2. IsFiniteSet(P) /\ IsFiniteSet(K)
  BY <1>1, KnownHoldAll
<1>3. PICK F : F = [i \in K |-> Share(P, r, {i})]
  OBVIOUS
<1>4. PICK E : E = [i \in K |-> Share(P, r, Counterparts({i}))]
  OBVIOUS
<1>5. F \in [K -> SUBSET P] /\ Apart(F, K) /\ Joined(F, K) = Share(P, r, K)
  BY <1>3 DEF Share, Apart, Joined
<1>6. E \in [K -> SUBSET P] /\ Apart(E, K) /\ Joined(E, K) = Share(P, r, Counterparts(K))
  <2>1. E \in [K -> SUBSET P]
    BY <1>4 DEF Share
  <2>2. Apart(E, K)
    <3>1. SUFFICES ASSUME NEW i \in K, NEW j \in K, i # j PROVE E[i] \cap E[j] = {}
      BY DEF Apart
    <3>2. Counterparts({i}) \cap Counterparts({j}) = {}
      BY <1>1, <3>1, KinApart
    <3>3. QED
      BY <1>4, <3>2 DEF Share
  <2>3. Joined(E, K) = Share(P, r, Counterparts(K))
    <3>1. Counterparts(K) = UNION {Counterparts({i}) : i \in K}
      BY DEF Counterparts
    <3>2. \A m : m \in Joined(E, K) <=> \E i \in K : m \in Share(P, r, Counterparts({i}))
      BY <1>4 DEF Joined
    <3>3. \A m : m \in Share(P, r, Counterparts(K)) <=>
                   \E i \in K : m \in Share(P, r, Counterparts({i}))
      BY <3>1 DEF Share
    <3>4. QED
      BY <3>2, <3>3
  <2>4. QED
    BY <2>1, <2>2, <2>3
<1>7. PICK v : v = [i \in K |-> Cardinality(F[i])]
  OBVIOUS
<1>8. PICK w : w = [i \in K |-> Cardinality(E[i])]
  OBVIOUS
<1>9. PICK f : f = [s \in SUBSET K |-> Cardinality(Joined(F, s))]
  OBVIOUS
<1>10. PICK g : g = [s \in SUBSET K |-> Cardinality(Joined(E, s))]
  OBVIOUS
<1>11. v \in [K -> Int] /\ Adds(f, v, K)
  <2>1. Sizes(v, F, K) /\ SizesJoined(f, F, K)
    BY <1>7, <1>9 DEF Sizes, SizesJoined
  <2>2. QED
    BY <1>2, <1>5, <2>1, CardinalitiesAdd
<1>12. w \in [K -> Int] /\ Adds(g, w, K)
  <2>1. Sizes(w, E, K) /\ SizesJoined(g, E, K)
    BY <1>8, <1>10 DEF Sizes, SizesJoined
  <2>2. QED
    BY <1>2, <1>6, <2>1, CardinalitiesAdd
<1>13. PICK both : both = [i \in K |-> v[i] + w[i]]
  OBVIOUS
<1>14. PICK h : h = [s \in SUBSET K |-> f[s] + g[s]]
  OBVIOUS
<1>15. both \in [K -> Int] /\ Adds(h, both, K)
  <2>1. Summed(both, v, w, K) /\ Summed(h, f, g, SUBSET K)
    BY <1>13, <1>14 DEF Summed
  <2>2. QED
    BY <1>11, <1>12, <2>1, SumsJoin
<1>16. ASSUME NEW i \in K PROVE u[i] <= both[i]
  <2>1. Share(P, r, Kin(i)) = F[i] \cup E[i] /\ F[i] \cap E[i] = {}
    <3>1. i \notin Counterparts({i})
      BY <1>1, KinApart
    <3>2. QED
      BY <1>3, <1>4, <3>1 DEF Share, Kin
  <2>2. IsFiniteSet(F[i]) /\ IsFiniteSet(E[i])
    <3>1. F[i] \in SUBSET P /\ E[i] \in SUBSET P
      BY <1>5, <1>6
    <3>2. QED
      BY <1>2, <3>1, FS_Subset
  <2>3. Cardinality(F[i] \cup E[i]) = Cardinality(F[i]) + Cardinality(E[i]) - 0
    BY <2>1, <2>2, FS_Union, FS_EmptySet
  <2>4. v[i] = Cardinality(F[i]) /\ w[i] = Cardinality(E[i]) /\ v[i] \in Int /\ w[i] \in Int
    BY <1>7, <1>8, <1>11, <1>12
  <2>5. u[i] <= Cardinality(Share(P, r, Kin(i)))
    BY <1>1 DEF AtMostKin
  <2>6. both[i] = v[i] + w[i]
    BY <1>13
  <2>7. QED
    BY <2>1, <2>3, <2>4, <2>5, <2>6
<1>17. SumFunction(u) \in Int /\ SumFunction(u) <= h[K]
  <2>1. u \in [K -> Int]
    BY <1>1
  <2>2. QED
    BY <1>2, <1>15, <1>16, <2>1, SumAtMost
<1>18. h[K] = Cardinality(Share(P, r, K)) + Cardinality(Share(P, r, Counterparts(K)))
  <2>1. h[K] = f[K] + g[K] /\ f[K] = Cardinality(Joined(F, K)) /\ g[K] = Cardinality(Joined(E, K))
    BY <1>9, <1>10, <1>14
  <2>2. QED
    BY <1>5, <1>6, <2>1
<1>19. /\ Cardinality(Share(P, r, K)) <= Cardinality(Share(P, r, items))
       /\ Cardinality(Share(P, r, K)) \in Nat /\ Cardinality(Share(P, r, items)) \in Nat
  BY <1>1, <1>2, ShareIsFinite
<1>20. /\ Cardinality(Share(P, r, Counterparts(K))) <= Cardinality(Share(P, r, Counterparts(items)))
       /\ Cardinality(Share(P, r, Counterparts(K))) \in Nat
       /\ Cardinality(Share(P, r, Counterparts(items))) \in Nat
  <2>1. Counterparts(K) \subseteq Counterparts(items)
    BY <1>1 DEF Counterparts
  <2>2. QED
    BY <1>2, <2>1, ShareIsFinite
<1>21. QED
  BY <1>17, <1>18, <1>19, <1>20

\* The count a push to come is given is what the last slots hold: the regressions
\* of its items and, of those that went on with another's queue, perhaps those of
\* the counterpart.
THEOREM TotalsHold == Spec => []TotalsExact
<1>1. ASSUME IInv PROVE TotalsExact
  <2> SUFFICES ASSUME NEW r \in Runnables, NEW items \in SUBSET Items
               PROVE  /\ TotalOf(r, items, Upcoming) >= MetBefore(r, items, Upcoming)
                      /\ TotalOf(r, items, Upcoming) <= MetWithThem(r, items, Upcoming)
    BY DEF TotalsExact
  <2>1. PICK u : u = [i \in Known(r, items) |-> Total(Find(r, i), Upcoming)]
    OBVIOUS
  <2>2. ASSUME NEW i \in Known(r, items)
        PROVE  /\ u[i] \in Int /\ u[i] >= Cardinality(Share(met, r, {i}))
               /\ u[i] <= Cardinality(Share(met, r, Kin(i)))
    <3>1. PICK M : CountedBy(M, r, i)
      BY <1>1, ItemCounts DEF Known
    <3>2. u[i] = Cardinality(M)
      BY <1>1, <2>1, <3>1, TotalIs
    <3>3. Share(met, r, {i}) \in SUBSET M /\ M \in SUBSET Share(met, r, Kin(i))
      BY <3>1 DEF CountedBy, Share, Among, OfKin
    <3>4. IsFiniteSet(Share(met, r, Kin(i))) /\ IsFiniteSet(M)
      <4>1. IsFiniteSet(met) /\ IsFiniteSet(M)
        BY <1>1, <3>1 DEF IInv, Typed, CountedBy
      <4>2. Share(met, r, Kin(i)) \in SUBSET met
        BY DEF Share
      <4>3. QED
        BY <4>1, <4>2, FS_Subset
    <3>5. IsFiniteSet(Share(met, r, {i}))
      BY <3>3, <3>4, FS_Subset
    <3>6. /\ Cardinality(Share(met, r, {i})) \in Nat /\ Cardinality(M) \in Nat
          /\ Cardinality(Share(met, r, Kin(i))) \in Nat
      BY <3>4, <3>5, FS_CardinalityType
    <3>7. Cardinality(Share(met, r, {i})) <= Cardinality(M)
      BY <3>3, <3>4, FS_Subset
    <3>8. Cardinality(M) <= Cardinality(Share(met, r, Kin(i)))
      BY <3>3, <3>4, FS_Subset
    <3>9. QED
      BY <3>2, <3>6, <3>7, <3>8
  <2>3. u \in [Known(r, items) -> Int]
    BY <2>1, <2>2
  <2>4. AtLeastOwn(u, Known(r, items), met, r) /\ AtMostKin(u, Known(r, items), met, r)
    BY <2>2 DEF AtLeastOwn, AtMostKin
  <2>5. SumFunction(u) \in Int /\ SumFunction(u) >= Cardinality(Share(met, r, items))
    BY <1>1, <2>3, <2>4, SumsOfOwn
  <2>6. SumFunction(u) <= Cardinality(Share(met, r, items))
                            + Cardinality(Share(met, r, Counterparts(items)))
    BY <1>1, <2>3, <2>4, SumsWithKin
  <2>7. TotalOf(r, items, Upcoming) = SumFunction(u)
    BY <2>1 DEF TotalOf
  <2>8. \A s : MetBefore(r, s, Upcoming) = Cardinality(Share(met, r, s))
    <3>1. \A m \in met : m[1] < Upcoming
      BY <1>1 DEF IInv, Typed, Upcoming
    <3>2. \A s : {m \in met : m[1] < Upcoming /\ m[2] = r /\ m[3] \in s} = Share(met, r, s)
      BY <3>1 DEF Share
    <3>3. QED
      BY <3>2 DEF MetBefore
  <2>9. QED
    BY <2>5, <2>6, <2>7, <2>8 DEF MetWithThem
<1>2. QED
  BY <1>1, CountsHold, PTL

\* How far back a queue reads.
LEMMA WindowIsKept ==
  ASSUME NEW back \in Lookbacks, IInv,
         NEW r \in Runnables, NEW items \in SUBSET Items, NEW i \in Known(r, items)
  PROVE  Rounded(Upcoming - back) \in Int /\ Readable(Find(r, i), Rounded(Upcoming - back))
<1>1. back \in Nat /\ back + Batch <= Timespan
  BY PastFailuresAssumption
<1>2. Upcoming \in Int /\ Upcoming - back \in Int
  BY <1>1, UpcomingDay DEF IInv
<1>3. Kept \in Nat /\ Rounded(Upcoming - back) >= Rounded(Upcoming) - Kept
  BY <1>1, <1>2, RoundedBack
<1>4. Newest = Kept
  BY <1>3, PastFailuresAssumption DEF Newest, Kept
<1>5. Rounded(Upcoming - back) \in Int
  BY <1>2, RoundedMonotone
<1>6. /\ Find(r, i).start \in Int /\ LastDay(Find(r, i)) = Find(r, i).start + Newest
      /\ LastDay(Find(r, i)) <= Rounded(push_num)
  BY QueueIs
<1>7. /\ Rounded(Upcoming) \in Int /\ Rounded(push_num) \in Int
      /\ Rounded(push_num) <= Rounded(Upcoming)
  BY UpcomingDay DEF IInv
<1>8. Rounded(Upcoming - back) >= Find(r, i).start
  BY <1>3, <1>4, <1>5, <1>6, <1>7
<1>9. QED
  BY <1>5, <1>8 DEF Readable

\* The regressions of the batches after a day.
Since(day) == {m \in met : Rounded(m[1]) > day}

\* What is read at the start of the window is at most what was met up to there,
\* so that the difference is at least what was met since.
LEMMA WithinAtLeast ==
  ASSUME NEW back \in Lookbacks, IInv,
         NEW r \in Runnables, NEW items \in SUBSET Items, NEW i \in Known(r, items)
  PROVE  /\ Within(Find(r, i), Upcoming, back) \in Int
         /\ Within(Find(r, i), Upcoming, back) >=
              Cardinality(Share(Since(Rounded(Upcoming - back)), r, {i}))
<1>1. PICK M : CountedBy(M, r, i)
  BY ItemCounts DEF Known
<1>2. PICK q : q = Find(r, i)
  OBVIOUS
<1>3. /\ q # None /\ Counts(q, M, push_num) /\ IsFiniteSet(M) /\ Numbered(M)
      /\ Among(met, r, i) \subseteq M
  BY <1>1, <1>2, QueueIs DEF CountedBy
<1>4. PICK day \in Int : day = Rounded(Upcoming - back) /\ Readable(q, day)
  BY <1>2, WindowIsKept
<1>5. ValueAt(q, day) \in Nat /\ ValueAt(q, day) <= Cardinality(UpTo(M, day))
  <2>1. push_num \in Int
    BY UpcomingDay DEF IInv
  <2>2. QED
    BY <1>3, <1>4, <2>1, ValueBounds
<1>6. Total(q, Upcoming) = Cardinality(M)
  BY <1>1, <1>2, TotalIs
<1>7. PICK own : own = Share(Since(day), r, {i})
  OBVIOUS
<1>8. own \in SUBSET M
  BY <1>3, <1>7 DEF Share, Since, Among
<1>9. UpTo(M, day) \in SUBSET M /\ UpTo(M, day) \cap own = {}
  <2>1. \A m \in M : Rounded(m[1]) \in Int
    BY <1>3, RoundedMonotone DEF Numbered
  <2>2. QED
    BY <1>4, <1>7, <2>1 DEF UpTo, Share, Since
<1>10. IsFiniteSet(UpTo(M, day)) /\ IsFiniteSet(own)
  BY <1>3, <1>8, <1>9, FS_Subset
<1>11. Cardinality(UpTo(M, day) \cup own) = Cardinality(UpTo(M, day)) + Cardinality(own) - 0
  BY <1>9, <1>10, FS_Union, FS_EmptySet
<1>12. /\ Cardinality(UpTo(M, day) \cup own) <= Cardinality(M)
       /\ Cardinality(UpTo(M, day) \cup own) \in Nat /\ Cardinality(M) \in Nat
  <2>1. (UpTo(M, day) \cup own) \in SUBSET M
    BY <1>8, <1>9
  <2>2. IsFiniteSet(UpTo(M, day) \cup own)
    BY <1>3, <2>1, FS_Subset
  <2>3. QED
    BY <1>3, <2>1, <2>2, FS_Subset, FS_CardinalityType
<1>13. Cardinality(UpTo(M, day)) \in Nat /\ Cardinality(own) \in Nat
  BY <1>10, FS_CardinalityType
<1>14. Within(q, Upcoming, back) = Cardinality(M) - ValueAt(q, day)
  BY <1>4, <1>6 DEF Within
<1>15. QED
  BY <1>2, <1>4, <1>5, <1>7, <1>11, <1>12, <1>13, <1>14

\* No failure of the window is missing from the counts over it, which every
\* queue still reads.
THEOREM WindowsHold == Spec => []WindowsMissNothing
<1>1. ASSUME IInv PROVE WindowsMissNothing
  <2> SUFFICES ASSUME NEW r \in Runnables, NEW items \in SUBSET Items, NEW back \in Lookbacks
               PROVE  /\ WithinOf(r, items, Upcoming, back) >=
                           MetAfterBatch(r, items, Rounded(Upcoming - back))
                      /\ \A i \in Known(r, items) :
                           Readable(Find(r, i), Rounded(Upcoming - back))
    BY DEF WindowsMissNothing
  <2>1. PICK day : day = Rounded(Upcoming - back)
    OBVIOUS
  <2>2. PICK u : u = [i \in Known(r, items) |-> Within(Find(r, i), Upcoming, back)]
    OBVIOUS
  <2>3. ASSUME NEW i \in Known(r, items)
        PROVE  u[i] \in Int /\ u[i] >= Cardinality(Share(Since(day), r, {i}))
    <3>1. /\ Within(Find(r, i), Upcoming, back) \in Int
          /\ Within(Find(r, i), Upcoming, back) >= Cardinality(Share(Since(day), r, {i}))
      BY <1>1, <2>1, WithinAtLeast
    <3>2. QED
      BY <2>2, <3>1
  <2>4. u \in [Known(r, items) -> Int]
    BY <2>2, <2>3
  <2>5. AtLeastOwn(u, Known(r, items), Since(day), r)
    BY <2>3 DEF AtLeastOwn
  <2>6. SumFunction(u) >= Cardinality(Share(Since(day), r, items))
    <3>1. Since(day) \in SUBSET met
      BY DEF Since
    <3>2. QED
      BY <1>1, <2>4, <2>5, <3>1, SumsOfOwn
  <2>7. WithinOf(r, items, Upcoming, back) = SumFunction(u)
    BY <2>2 DEF WithinOf
  <2>8. MetAfterBatch(r, items, day) = Cardinality(Share(Since(day), r, items))
    <3>1. {m \in met : Rounded(m[1]) > day /\ m[2] = r /\ m[3] \in items}
            = Share(Since(day), r, items)
      BY DEF Share, Since
    <3>2. QED
      BY <3>1 DEF MetAfterBatch
  <2>9. \A i \in Known(r, items) : Readable(Find(r, i), day)
    BY <1>1, <2>1, WindowIsKept
  <2>10. QED
    BY <2>1, <2>6, <2>7, <2>8, <2>9
<1>2. QED
  BY <1>1, CountsHold, PTL

-------------------------------------------------------------------------------
(* What the evaluation reads                                                 *)

\* What is read on a day that is kept, over some items, is at most what was met
\* up to that day, with them and with their counterparts.
LEMMA TotalAtMost ==
  ASSUME IInv, NEW n \in Int, NEW r \in Runnables, NEW items \in SUBSET Items,
         \A i \in Known(r, items) : Readable(Find(r, i), Rounded(n)),
         NEW P, P = UpTo(met, Rounded(n))
  PROVE  /\ TotalOf(r, items, n) \in Int
         /\ TotalOf(r, items, n) <= Cardinality(Share(P, r, items))
                                      + Cardinality(Share(P, r, Counterparts(items)))
<1>1. PICK day \in Int : day = Rounded(n)
  BY RoundedMonotone
<1>2. P \in SUBSET met /\ P = UpTo(met, day)
  BY <1>1 DEF UpTo
<1>3. IsFiniteSet(P)
  BY <1>2, FS_Subset DEF IInv, Typed
<1>4. PICK u : u = [i \in Known(r, items) |-> Total(Find(r, i), n)]
  OBVIOUS
<1>5. ASSUME NEW i \in Known(r, items)
      PROVE  u[i] \in Int /\ u[i] <= Cardinality(Share(P, r, Kin(i)))
  <2>1. PICK M : CountedBy(M, r, i)
    BY ItemCounts DEF Known
  <2>2. PICK q : q = Find(r, i)
    OBVIOUS
  <2>3. q # None /\ Counts(q, M, push_num) /\ IsFiniteSet(M) /\ Numbered(M)
    BY <2>1, <2>2, QueueIs DEF CountedBy
  <2>4. push_num \in Int /\ Readable(q, day)
    BY <1>1, <2>2 DEF IInv, Typed
  <2>5. ValueAt(q, day) \in Nat /\ ValueAt(q, day) <= Cardinality(UpTo(M, day))
    BY <2>3, <2>4, ValueBounds
  <2>6. UpTo(M, day) \in SUBSET Share(P, r, Kin(i))
    BY <1>2, <2>1 DEF UpTo, Share, CountedBy, OfKin
  <2>7. IsFiniteSet(Share(P, r, Kin(i)))
    BY <1>3, ShareIsFinite
  <2>8. IsFiniteSet(UpTo(M, day))
    BY <2>6, <2>7, FS_Subset
  <2>9. /\ Cardinality(UpTo(M, day)) <= Cardinality(Share(P, r, Kin(i)))
        /\ Cardinality(UpTo(M, day)) \in Nat /\ Cardinality(Share(P, r, Kin(i))) \in Nat
    BY <2>6, <2>7, <2>8, FS_Subset, FS_CardinalityType
  <2>10. u[i] = ValueAt(q, day)
    BY <1>1, <1>4, <2>2 DEF Total
  <2>11. QED
    BY <2>5, <2>9, <2>10
<1>6. u \in [Known(r, items) -> Int]
  BY <1>4, <1>5
<1>7. AtMostKin(u, Known(r, items), P, r)
  BY <1>5 DEF AtMostKin
<1>8. /\ SumFunction(u) \in Int
      /\ SumFunction(u) <= Cardinality(Share(P, r, items))
                             + Cardinality(Share(P, r, Counterparts(items)))
  <2> HIDE <1>5
  <2>1. QED
    BY <1>2, <1>6, <1>7, SumsWithKin
<1>9. TotalOf(r, items, n) = SumFunction(u)
  BY <1>4 DEF TotalOf
<1>10. QED
  BY <1>8, <1>9
\* The number of a push that is evaluated, and the days it and its longest
\* lookback are rounded to, in a window that reaches Kept days back.
LEMMA EvaluatedIsKept ==
  ASSUME Typed, NEW k \in Evaluated
  PROVE  /\ k \in 1 .. Len(saved) /\ saved[k] \in Nat
         /\ AskedAs(k) \in Int /\ AskedAs(k) - Month \in Int
         /\ Rounded(AskedAs(k)) >= Rounded(push_num) - Kept
         /\ Rounded(AskedAs(k) - Month) >= Rounded(push_num) - Kept
<1>1. PICK c \in Nat : Month \div Batch = c /\ Month = Batch * c
  <2>1. Month \in Nat /\ Batch \in Nat \ {0} /\ Month % Batch = 0
    BY PastFailuresAssumption
  <2>2. /\ Month \div Batch \in Int
        /\ Month = Batch * (Month \div Batch) + (Month % Batch)
    BY <2>1, DivMod
  <2>3. Month \div Batch \in Nat
    BY <2>1, DivNat
  <2>4. QED
    BY <2>1, <2>2, <2>3
<1>2. PICK lowest \in Int : lowest = Rounded(push_num) - Kept
  <2>1. Kept \in Int
    BY DivMod, PastFailuresAssumption DEF Kept
  <2>2. Rounded(push_num) \in Int
    BY RoundedMonotone DEF Typed
  <2>3. QED
    BY <2>1, <2>2
<1>3. k \in Tests /\ AskedAs(k) >= (lowest + c) * Batch
  BY <1>1, <1>2 DEF Evaluated, Kept
<1>4. k \in 1 .. Len(saved)
  <2>1. Len(saved) \in Nat /\ TrainShare[1] \in Nat /\ TrainShare[2] \in Nat \ {0}
    BY PastFailuresAssumption DEF Typed
  <2>2. TrainShare[1] * Len(saved) \in Nat
    BY <2>1
  <2>3. TrainLen \in Nat
    BY <2>1, <2>2, DivNat DEF TrainLen
  <2>4. QED
    BY <1>3, <2>1, <2>3 DEF Tests
<1>5. AskedAs(k) \in Int /\ Batch \in Nat \ {0} /\ Month \in Nat
  BY <1>4, PastFailuresAssumption DEF AskedAs, Typed
<1>6. (lowest + c) * Batch >= lowest * Batch /\ (lowest + c) * Batch - Month = lowest * Batch
  <2>1. (lowest + c) * Batch = lowest * Batch + Batch * c
    BY <1>5
  <2>2. Batch * c \in Nat /\ lowest * Batch \in Int
    BY <1>5
  <2>3. QED
    BY <1>1, <2>1, <2>2
<1>7. lowest * Batch \in Int /\ (lowest + c) * Batch \in Int
  BY <1>5
<1>8. AskedAs(k) >= lowest * Batch /\ AskedAs(k) - Month >= lowest * Batch
  BY <1>3, <1>5, <1>6, <1>7
<1>9. Rounded(AskedAs(k)) >= lowest /\ Rounded(AskedAs(k) - Month) >= lowest
  BY <1>5, <1>8, RoundedReaches
<1>10. saved[k] \in Nat
  BY <1>4 DEF Typed
<1>11. QED
  BY <1>2, <1>4, <1>5, <1>9, <1>10

LEMMA KeptIsReadable ==
  ASSUME IInv, NEW r \in Runnables, NEW items \in SUBSET Items, NEW i \in Known(r, items),
         NEW day \in Int, day >= Rounded(push_num) - Kept
  PROVE  Readable(Find(r, i), day)
<1>1. /\ Find(r, i).start \in Int /\ LastDay(Find(r, i)) = Find(r, i).start + Newest
      /\ LastDay(Find(r, i)) <= Rounded(push_num)
  BY QueueIs
<1>2. Rounded(push_num) \in Int
  BY UpcomingDay DEF IInv
<1>3. Newest = Kept /\ Kept \in Int
  BY DivMod, PastFailuresAssumption DEF Newest, Kept
<1>4. QED
  BY <1>1, <1>2, <1>3 DEF Readable

\* Without a push skipped after it, a push that is evaluated is asked as one a
\* batch earlier, which is the day before its own unless round goes to the even
\* neighbour; and what a day counts was met before the day after it.
THEOREM LeaksExplained == Spec => []LeaksHaveTwoCauses
<1>1. ASSUME IInv PROVE LeaksHaveTwoCauses
  <2> SUFFICES ASSUME NEW k \in Evaluated
               PROVE  /\ InRange(k)
                      /\ \/ NoLeak(k)
                         \/ \E n \in skipped : n > saved[k]
                         \/ 2 * (saved[k] % Batch) = Batch
    BY DEF LeaksHaveTwoCauses
  <2>1. /\ k \in 1 .. Len(saved) /\ saved[k] \in Nat
        /\ AskedAs(k) \in Int /\ AskedAs(k) - Month \in Int
        /\ Rounded(AskedAs(k)) >= Rounded(push_num) - Kept
        /\ Rounded(AskedAs(k) - Month) >= Rounded(push_num) - Kept
    BY <1>1, EvaluatedIsKept DEF IInv
  <2>2. Rounded(AskedAs(k)) \in Int /\ Rounded(AskedAs(k) - Month) \in Int
    BY <2>1, RoundedMonotone
  <2>3. InRange(k)
    <3> SUFFICES ASSUME NEW r \in Runnables, NEW i \in Items, Find(r, i) # None
                 PROVE  Readable(Find(r, i), Rounded(AskedAs(k) - Month))
      BY DEF InRange
    <3>1. i \in Known(r, Items) /\ Items \in SUBSET Items
      BY DEF Known
    <3>2. QED
      BY <1>1, <2>1, <2>2, <3>1, KeptIsReadable
  <2>4. SUFFICES ASSUME \A n \in skipped : ~(n > saved[k]), 2 * (saved[k] % Batch) # Batch
                 PROVE  NoLeak(k)
    BY <2>3
  <2>5. AskedAs(k) = saved[k] - Batch
    <3>1. \A n \in skipped : n <= saved[k]
      BY <1>1, <2>1, <2>4 DEF IInv, Typed
    <3>2. saved[k] = push_num - (Len(saved) - k)
      BY <1>1, <2>1, <3>1 DEF IInv, NumbersKept
    <3>3. QED
      BY <3>2 DEF AskedAs
  <2>6. Rounded(AskedAs(k)) = Rounded(saved[k]) - 1
    BY <2>1, <2>4, <2>5, RoundedStep
  <2>7. ASSUME NEW m \in met, Rounded(m[1]) <= Rounded(AskedAs(k)) PROVE m[1] < saved[k]
    <3>1. m[1] \in Int /\ saved[k] \in Int
      BY <1>1, <2>1 DEF IInv, Typed
    <3>2. SUFFICES ASSUME saved[k] <= m[1] PROVE FALSE
      BY <3>1
    <3>3. /\ Rounded(saved[k]) <= Rounded(m[1])
          /\ Rounded(saved[k]) \in Int /\ Rounded(m[1]) \in Int
      BY <3>1, <3>2, RoundedMonotone
    <3>4. QED
      BY <2>6, <2>7, <3>3
  <2>8. PICK early : early = UpTo(met, Rounded(AskedAs(k)))
    OBVIOUS
  <2>9. PICK before : before = {m \in met : m[1] < saved[k]}
    OBVIOUS
  <2>10. early \in SUBSET before /\ before \in SUBSET met /\ IsFiniteSet(before)
    <3>1. early \in SUBSET before /\ before \in SUBSET met
      BY <2>7, <2>8, <2>9 DEF UpTo
    <3>2. QED
      BY <1>1, <3>1, FS_Subset DEF IInv, Typed
  <2>11. ASSUME NEW r, NEW s
         PROVE  /\ Cardinality(Share(early, r, s)) \in Nat /\ MetBefore(r, s, saved[k]) \in Nat
                /\ Cardinality(Share(early, r, s)) <= MetBefore(r, s, saved[k])
    <3>1. Share(early, r, s) \in SUBSET Share(before, r, s)
      BY <2>10 DEF Share
    <3>2. IsFiniteSet(Share(before, r, s))
      BY <2>10, ShareIsFinite
    <3>3. IsFiniteSet(Share(early, r, s))
      BY <3>1, <3>2, FS_Subset
    <3>4. Share(before, r, s) = {m \in met : m[1] < saved[k] /\ m[2] = r /\ m[3] \in s}
      BY <2>9 DEF Share
    <3>5. MetBefore(r, s, saved[k]) = Cardinality(Share(before, r, s))
      BY <3>4 DEF MetBefore
    <3>6. QED
      BY <3>1, <3>2, <3>3, <3>5, FS_Subset, FS_CardinalityType
  <2>12. ASSUME NEW r \in Runnables, NEW items \in SUBSET Items
         PROVE  TotalOf(r, items, AskedAs(k)) <= MetWithThem(r, items, saved[k])
    <3>1. \A i \in Known(r, items) : Readable(Find(r, i), Rounded(AskedAs(k)))
      BY <1>1, <2>1, <2>2, KeptIsReadable
    <3>2. /\ TotalOf(r, items, AskedAs(k)) \in Int
          /\ TotalOf(r, items, AskedAs(k)) <=
               Cardinality(Share(early, r, items))
                 + Cardinality(Share(early, r, Counterparts(items)))
      BY <1>1, <2>1, <2>8, <3>1, TotalAtMost
    <3>3. /\ Cardinality(Share(early, r, items)) \in Nat /\ MetBefore(r, items, saved[k]) \in Nat
          /\ Cardinality(Share(early, r, items)) <= MetBefore(r, items, saved[k])
      BY <2>11
    <3>4. /\ Cardinality(Share(early, r, Counterparts(items))) \in Nat
          /\ MetBefore(r, Counterparts(items), saved[k]) \in Nat
          /\ Cardinality(Share(early, r, Counterparts(items)))
               <= MetBefore(r, Counterparts(items), saved[k])
      BY <2>11
    <3>5. QED
      BY <3>2, <3>3, <3>4 DEF MetWithThem
  <2>13. QED
    BY <2>12 DEF NoLeak
<1>2. QED
  BY <1>1, CountsHold, PTL

===============================================================================
