--------------------------- MODULE SortedSetsProofs ---------------------------
(***************************************************************************)
(* What it means for a finite set to be sorted, for any relation that is   *)
(* irreflexive, transitive and total on it.  The relation is given by      *)
(* below: the elements before each one.  No element has as many before it  *)
(* as another, so that each number of them is that of one element.         *)
(***************************************************************************)
EXTENDS SortedSets, FiniteSetTheorems, FunctionTheorems, TLAPS

\* A strict total order on S.
Ordered(S, below) ==
    /\ below \in [S -> SUBSET S]
    /\ \A x \in S : x \notin below[x]
    /\ \A x, y \in S : x # y => x \in below[y] \/ y \in below[x]
    /\ \A x, y \in S : x \in below[y] => below[x] \subseteq below[y]

LEMMA RankGrows ==
    ASSUME NEW S, IsFiniteSet(S), NEW below, Ordered(S, below)
    PROVE  /\ Cardinality(S) \in Nat
           /\ \A x \in S : Cardinality(below[x]) \in 0..Cardinality(S) - 1
           /\ \A x, y \in S : x \in below[y] <=> Cardinality(below[x]) < Cardinality(below[y])
<1> USE DEF Ordered
<1>1. Cardinality(S) \in Nat
  BY FS_CardinalityType
<1>2. ASSUME NEW x \in S
      PROVE  Cardinality(below[x]) \in Nat /\ Cardinality(below[x]) < Cardinality(S) /\ IsFiniteSet(below[x])
  <2>1. below[x] \in SUBSET S /\ below[x] # S
    BY <1>2
  <2>2. IsFiniteSet(below[x]) /\ Cardinality(below[x]) <= Cardinality(S) /\ Cardinality(below[x]) # Cardinality(S)
    BY <2>1, FS_Subset
  <2>3. Cardinality(below[x]) \in Nat
    BY <2>2, FS_CardinalityType
  <2>. QED
    BY <1>1, <2>2, <2>3
<1>3. ASSUME NEW x \in S, NEW y \in S, x \in below[y]
      PROVE  Cardinality(below[x]) < Cardinality(below[y])
  <2>1. below[x] \in SUBSET below[y] /\ below[x] # below[y]
    BY <1>3
  <2>2. Cardinality(below[x]) <= Cardinality(below[y]) /\ Cardinality(below[x]) # Cardinality(below[y])
    BY <1>2, <2>1, FS_Subset
  <2>. QED
    BY <1>2, <2>2
<1>4. ASSUME NEW x \in S, NEW y \in S, Cardinality(below[x]) < Cardinality(below[y])
      PROVE  x \in below[y]
  <2>1. x # y
    BY <1>2, <1>4
  <2>2. y \notin below[x]
    BY <1>2, <1>3, <1>4
  <2>. QED
    BY <2>1, <2>2
<1>. QED
  BY <1>1, <1>2, <1>3, <1>4

\* Each number of elements is that of the elements before some element.
LEMMA RankTaken ==
    ASSUME NEW S, IsFiniteSet(S), NEW below, Ordered(S, below), NEW k \in 1..Cardinality(S)
    PROVE  \E x \in S : Cardinality(below[x]) = k - 1
<1> DEFINE rank == [x \in S |-> Cardinality(below[x])]
           ranks == 0..Cardinality(S) - 1
<1>1. Cardinality(S) \in Nat /\ \A x \in S : rank[x] \in ranks
  BY RankGrows
<1>2. IsFiniteSet(ranks) /\ Cardinality(ranks) = Cardinality(S)
  <2>1. 0 \in Int /\ Cardinality(S) - 1 \in Int /\ Cardinality(S) \in Nat
    BY <1>1
  <2>2. /\ IsFiniteSet(0..Cardinality(S) - 1)
        /\ Cardinality(0..Cardinality(S) - 1) =
              IF 0 > Cardinality(S) - 1 THEN 0 ELSE Cardinality(S) - 1 - 0 + 1
    BY <2>1, FS_Interval
  <2>. QED
    BY <2>1, <2>2
<1>3. \A x, y \in S : rank[x] = rank[y] => x = y
  <2>1. \A x, y \in S : x # y => x \in below[y] \/ y \in below[x]
    BY DEF Ordered
  <2>2. \A x, y \in S : x \in below[y] => Cardinality(below[x]) < Cardinality(below[y])
    BY RankGrows
  <2>3. \A x \in S : Cardinality(below[x]) \in Int
    BY RankGrows
  <2>. QED
    BY <2>1, <2>2, <2>3
<1>4. rank \in Injection(S, ranks)
  BY <1>1, <1>3 DEF Injection, IsInjective
<1>5. rank \in Surjection(S, ranks)
  <2>. HIDE DEF rank, ranks
  <2>. QED
    BY <1>2, <1>4, FS_Injection
<1>6. k - 1 \in ranks
  BY <1>1
<1>7. \E x \in S : rank[x] = k - 1
  <2>. HIDE DEF rank
  <2>. QED
    BY <1>5, <1>6 DEF Surjection
<1>. QED
  BY <1>7

\* What Sorted chooses: at each place the element with as many before it.
Ranks(s, S, below) ==
    /\ DOMAIN s = 1..Cardinality(S)
    /\ \A k \in 1..Cardinality(S) :
          (\E x \in S : Cardinality(below[x]) = k - 1) => s[k] \in S /\ Cardinality(below[s[k]]) = k - 1

\* A sequence that has at k an element with k - 1 before it, where there is one, has
\* every element of the set, in their order.
LEMMA SortedIsOrdered ==
    ASSUME NEW S, IsFiniteSet(S), NEW below, Ordered(S, below), NEW s, Ranks(s, S, below)
    PROVE  /\ Cardinality(S) \in Nat /\ DOMAIN s = 1..Cardinality(S)
           /\ \A k \in 1..Cardinality(S) : s[k] \in S /\ Cardinality(below[s[k]]) = k - 1
           /\ \A x \in S : \E k \in 1..Cardinality(S) : s[k] = x
           /\ \A j, k \in 1..Cardinality(S) : j < k <=> s[j] \in below[s[k]]
<1> DEFINE n == Cardinality(S)
<1>1. n \in Nat /\ DOMAIN s = 1..n
  BY RankGrows DEF Ranks
<1>2. \A k \in 1..n : s[k] \in S /\ Cardinality(below[s[k]]) = k - 1
  BY RankTaken DEF Ranks
<1>3. \A j, k \in 1..n : j < k <=> s[j] \in below[s[k]]
  <2> TAKE j, k \in 1..n
  <2>1. s[j] \in below[s[k]] <=> Cardinality(below[s[j]]) < Cardinality(below[s[k]])
    BY <1>2, RankGrows
  <2>. QED
    BY <1>1, <1>2, <2>1
<1>4. ASSUME NEW x \in S PROVE \E k \in 1..n : s[k] = x
  <2> DEFINE k == Cardinality(below[x]) + 1
  <2>1. k \in 1..n
    BY RankGrows
  <2>2. s[k] \in S /\ Cardinality(below[s[k]]) = Cardinality(below[x]) /\ Cardinality(below[x]) \in Int
    BY <1>2, <2>1, RankGrows
  <2>3. ~(s[k] \in below[x]) /\ ~(x \in below[s[k]])
    BY <2>2, RankGrows
  <2>4. s[k] = x
    BY <2>2, <2>3 DEF Ordered
  <2>. QED
    BY <2>1, <2>4
<1>. QED
  BY <1>1, <1>2, <1>3, <1>4

\* Numbers, the smallest first.
LEMMA UpwardSorts ==
    ASSUME NEW S, IsFiniteSet(S), S \subseteq Int
    PROVE  /\ Cardinality(S) \in Nat /\ Upward(S) \in [1..Cardinality(S) -> S]
           /\ \A x \in S : \E k \in 1..Cardinality(S) : Upward(S)[k] = x
           /\ \A j, k \in 1..Cardinality(S) : j < k <=> Upward(S)[j] < Upward(S)[k]
           /\ \A k \in 1..Cardinality(S) : Cardinality({y \in S : y < Upward(S)[k]}) = k - 1
<1> DEFINE below == [x \in S |-> {y \in S : y < x}]
           s == Upward(S)
<1>1. Ordered(S, below)
  <2>1. below \in [S -> SUBSET S] /\ \A x \in S : x \in Int
    OBVIOUS
  <2>2. \A x, y \in S : x \in below[y] <=> x < y
    OBVIOUS
  <2>3. \A x, y \in S : x \in below[y] => below[x] \subseteq below[y]
    <3>. SUFFICES ASSUME NEW x \in S, NEW y \in S, x < y, NEW z \in S, z < x PROVE z < y
      BY <2>1, <2>2
    <3>. QED
      BY <2>1
  <2>. HIDE DEF below
  <2>. QED
    BY <2>1, <2>2, <2>3 DEF Ordered
<1>2. /\ s = [k \in 1..Cardinality(S) |-> s[k]]
      /\ \A k \in 1..Cardinality(S) : s[k] = CHOOSE x \in S : Cardinality({y \in S : y < x}) = k - 1
  <2> DEFINE pick(k) == CHOOSE x \in S : Cardinality({y \in S : y < x}) = k - 1
  <2>1. s = [k \in 1..Cardinality(S) |-> pick(k)]
    BY Zenon DEF Upward, Sorted
  <2>. HIDE DEF s, pick
  <2>2. \A k \in 1..Cardinality(S) : s[k] = pick(k)
    BY <2>1
  <2>3. s = [k \in 1..Cardinality(S) |-> s[k]]
    BY <2>1
  <2>4. \A k \in 1..Cardinality(S) : s[k] = CHOOSE x \in S : Cardinality({y \in S : y < x}) = k - 1
    BY <2>2 DEF pick
  <2>. QED
    BY <2>3, <2>4
<1>3. \A x \in S : below[x] = {y \in S : y < x}
  OBVIOUS
<1>4. \A j, k \in 1..Cardinality(S) : s[j] \in S /\ s[k] \in S => (s[j] \in below[s[k]] <=> s[j] < s[k])
  OBVIOUS
<1>. HIDE DEF below, s
<1>5. Ranks(s, S, below)
  BY <1>2, <1>3, ZenonT(30) DEF Ranks
<1>6. /\ Cardinality(S) \in Nat
      /\ \A k \in 1..Cardinality(S) : s[k] \in S /\ Cardinality(below[s[k]]) = k - 1
      /\ \A x \in S : \E k \in 1..Cardinality(S) : s[k] = x
      /\ \A j, k \in 1..Cardinality(S) : j < k <=> s[j] \in below[s[k]]
  BY <1>1, <1>5, SortedIsOrdered
<1>7. /\ Cardinality(S) \in Nat /\ s \in [1..Cardinality(S) -> S]
      /\ \A x \in S : \E k \in 1..Cardinality(S) : s[k] = x
      /\ \A j, k \in 1..Cardinality(S) : j < k <=> s[j] < s[k]
      /\ \A k \in 1..Cardinality(S) : Cardinality({y \in S : y < s[k]}) = k - 1
  BY <1>2, <1>3, <1>4, <1>6
<1>. QED
  BY <1>7 DEF s

\* Numbers, the largest first.
LEMMA DownwardSorts ==
    ASSUME NEW S, IsFiniteSet(S), S \subseteq Int
    PROVE  /\ Cardinality(S) \in Nat /\ Downward(S) \in [1..Cardinality(S) -> S]
           /\ \A x \in S : \E k \in 1..Cardinality(S) : Downward(S)[k] = x
           /\ \A j, k \in 1..Cardinality(S) : j < k <=> Downward(S)[j] > Downward(S)[k]
           /\ \A k \in 1..Cardinality(S) : Cardinality({y \in S : y > Downward(S)[k]}) = k - 1
<1> DEFINE below == [x \in S |-> {y \in S : y > x}]
           s == Downward(S)
<1>1. Ordered(S, below)
  <2>1. below \in [S -> SUBSET S] /\ \A x \in S : x \in Int
    OBVIOUS
  <2>2. \A x, y \in S : x \in below[y] <=> x > y
    OBVIOUS
  <2>3. \A x, y \in S : x \in below[y] => below[x] \subseteq below[y]
    <3>. SUFFICES ASSUME NEW x \in S, NEW y \in S, x > y, NEW z \in S, z > x PROVE z > y
      BY <2>1, <2>2
    <3>. QED
      BY <2>1
  <2>. HIDE DEF below
  <2>. QED
    BY <2>1, <2>2, <2>3 DEF Ordered
<1>2. /\ s = [k \in 1..Cardinality(S) |-> s[k]]
      /\ \A k \in 1..Cardinality(S) : s[k] = CHOOSE x \in S : Cardinality({y \in S : y > x}) = k - 1
  <2> DEFINE pick(k) == CHOOSE x \in S : Cardinality({y \in S : y > x}) = k - 1
  <2>1. s = [k \in 1..Cardinality(S) |-> pick(k)]
    BY Zenon DEF Downward, Sorted
  <2>. HIDE DEF s, pick
  <2>2. \A k \in 1..Cardinality(S) : s[k] = pick(k)
    BY <2>1
  <2>3. s = [k \in 1..Cardinality(S) |-> s[k]]
    BY <2>1
  <2>4. \A k \in 1..Cardinality(S) : s[k] = CHOOSE x \in S : Cardinality({y \in S : y > x}) = k - 1
    BY <2>2 DEF pick
  <2>. QED
    BY <2>3, <2>4
<1>3. \A x \in S : below[x] = {y \in S : y > x}
  OBVIOUS
<1>4. \A j, k \in 1..Cardinality(S) : s[j] \in S /\ s[k] \in S => (s[j] \in below[s[k]] <=> s[j] > s[k])
  OBVIOUS
<1>. HIDE DEF below, s
<1>5. Ranks(s, S, below)
  BY <1>2, <1>3, ZenonT(30) DEF Ranks
<1>6. /\ Cardinality(S) \in Nat
      /\ \A k \in 1..Cardinality(S) : s[k] \in S /\ Cardinality(below[s[k]]) = k - 1
      /\ \A x \in S : \E k \in 1..Cardinality(S) : s[k] = x
      /\ \A j, k \in 1..Cardinality(S) : j < k <=> s[j] \in below[s[k]]
  BY <1>1, <1>5, SortedIsOrdered
<1>7. /\ Cardinality(S) \in Nat /\ s \in [1..Cardinality(S) -> S]
      /\ \A x \in S : \E k \in 1..Cardinality(S) : s[k] = x
      /\ \A j, k \in 1..Cardinality(S) : j < k <=> s[j] > s[k]
      /\ \A k \in 1..Cardinality(S) : Cardinality({y \in S : y > s[k]}) = k - 1
  BY <1>2, <1>3, <1>4, <1>6
<1>. QED
  BY <1>7 DEF s

\* Finitely many places hold finitely many values.
LEMMA FewValues ==
    ASSUME NEW S, IsFiniteSet(S), NEW f, f = [x \in S |-> f[x]]
    PROVE  IsFiniteSet({f[x] : x \in S})
<1> DEFINE T == {f[x] : x \in S}
<1>1. f \in [S -> T] /\ \A y \in T : \E x \in S : f[x] = y
  OBVIOUS
<1>. HIDE DEF T
<1>2. f \in Surjection(S, T)
  BY <1>1 DEF Surjection
<1>3. IsFiniteSet(T)
  BY <1>2, FS_Surjection
<1>. QED
  BY <1>3 DEF T

\* Finitely many numbers have a largest.
LEMMA HasLargest ==
    ASSUME NEW S, IsFiniteSet(S), S \subseteq Int, S # {}
    PROVE  \E m \in S : \A x \in S : x <= m
<1> DEFINE n == Cardinality(S)
           s == Downward(S)
<1>1. /\ n \in Nat /\ s \in [1..n -> S]
      /\ \A x \in S : \E k \in 1..n : s[k] = x
      /\ \A j, k \in 1..n : j < k <=> s[j] > s[k]
  BY DownwardSorts
<1>. HIDE DEF n, s
<1>2. 1 \in 1..n
  <2>1. PICK k \in 1..n : TRUE
    BY <1>1
  <2>. QED
    BY <1>1, <2>1
<1>3. PICK m \in S : m = s[1]
  BY <1>1, <1>2
<1>4. \A x \in S : x <= m
  BY <1>1, <1>2, <1>3
<1>. QED
  BY <1>4

\* The n largest of a finite set of numbers: LIMIT n.
LEMMA LargestOnes ==
    ASSUME NEW S, IsFiniteSet(S), S \subseteq Int, NEW n \in Nat
    PROVE  LET top == {x \in S : Cardinality({y \in S : y > x}) < n}
           IN /\ IsFiniteSet(top) /\ Cardinality(top) <= n
              /\ Cardinality(top) < n => top = S
              /\ \A x \in S \ top : \A y \in top : x < y
<1> DEFINE top == {x \in S : Cardinality({y \in S : y > x}) < n}
           s == Downward(S)
           size == Cardinality(S)
<1>1. /\ size \in Nat /\ s \in [1..size -> S]
      /\ \A x \in S : \E k \in 1..size : s[k] = x
      /\ \A j, k \in 1..size : j < k <=> s[j] > s[k]
      /\ \A k \in 1..size : Cardinality({y \in S : y > s[k]}) = k - 1
  BY DownwardSorts
<1>2. \A x \in S : x \in top <=> Cardinality({y \in S : y > x}) < n
  OBVIOUS
<1>3. top \subseteq S
  OBVIOUS
<1>. HIDE DEF top, s, size
<1>4. \A k \in 1..size : s[k] \in top <=> k <= n
  <2>. SUFFICES ASSUME NEW k \in 1..size PROVE s[k] \in top <=> k <= n
    OBVIOUS
  <2>1. s[k] \in S /\ Cardinality({y \in S : y > s[k]}) = k - 1
    BY <1>1
  <2>2. s[k] \in top <=> Cardinality({y \in S : y > s[k]}) < n
    BY <1>2, <2>1, Zenon
  <2>3. s[k] \in top <=> k - 1 < n
    BY <2>1, <2>2, Zenon
  <2>. QED
    BY <1>1, <2>3
<1>5. IsFiniteSet(top) /\ Cardinality(top) \in Nat
  BY <1>3, FS_Subset, FS_CardinalityType
<1>6. IsFiniteSet(1..n) /\ Cardinality(1..n) = n
  <2>1. 1 \in Int /\ n \in Int
    OBVIOUS
  <2>. QED
    BY <2>1, FS_Interval
<1>7. Cardinality(top) <= n
  <2>1. \A x \in top : \E k \in 1..n : k \in 1..size /\ s[k] = x
    BY <1>1, <1>3, <1>4
  <2> DEFINE place == [x \in top |-> CHOOSE k \in 1..n : k \in 1..size /\ s[k] = x]
  <2>2. \A x \in top : place[x] \in 1..n /\ s[place[x]] = x
    BY <2>1
  <2>3. place \in [top -> 1..n]
    BY <2>1
  <2>. HIDE DEF place
  <2>4. place \in Injection(top, 1..n)
    BY <2>2, <2>3 DEF Injection, IsInjective
  <2>. QED
    BY <1>6, <2>4, FS_Injection
<1>8. ASSUME NEW x \in S \ top PROVE n <= Cardinality(top)
  <2>1. PICK k \in 1..size : s[k] = x
    BY <1>1
  <2>2. n < k
    BY <1>1, <1>4, <2>1
  <2>3. \A i \in 1..n : i \in 1..size /\ s[i] \in top
    BY <1>1, <1>4, <2>2
  <2> DEFINE first == [i \in 1..n |-> s[i]]
  <2>4. first \in [1..n -> top]
    BY <2>3
  <2>5. ASSUME NEW i \in 1..n, NEW j \in 1..n, first[i] = first[j] PROVE i = j
    <3>1. s[i] = s[j] /\ i \in 1..size /\ j \in 1..size /\ s[i] \in Int
      BY <1>3, <2>3, <2>5
    <3>. QED
      BY <1>1, <3>1
  <2>. HIDE DEF first
  <2>6. first \in Injection(1..n, top)
    BY <2>4, <2>5 DEF Injection, IsInjective
  <2>. QED
    BY <1>5, <1>6, <2>6, FS_Injection
<1>9. ASSUME NEW x \in S \ top, NEW y \in top PROVE x < y
  <2>1. PICK j \in 1..size : s[j] = x
    BY <1>1
  <2>2. PICK k \in 1..size : s[k] = y
    BY <1>1, <1>3
  <2>3. k < j
    BY <1>1, <1>4, <2>1, <2>2
  <2>. QED
    BY <1>1, <2>1, <2>2, <2>3
<1>10. Cardinality(top) < n => top = S
  <2>1. (\E x \in S \ top : TRUE) => n <= Cardinality(top)
    BY <1>8
  <2>2. Cardinality(top) < n => ~(n <= Cardinality(top))
    BY <1>5
  <2>. QED
    BY <1>3, <2>1, <2>2, Zenon
<1>. QED
  BY <1>5, <1>7, <1>9, <1>10 DEF top

\* A set of numbers that has one has a smallest.
LEMMA HasSmallest ==
    ASSUME NEW n \in Nat, NEW S, S \subseteq 1..n, S # {}
    PROVE  \E m \in S : \A x \in S : m <= x
<1> DEFINE s == Upward(S)
           c == Cardinality(S)
<1>1. IsFiniteSet(S) /\ S \subseteq Int
  <2>1. 1 \in Int /\ n \in Int /\ S \in SUBSET (1..n)
    OBVIOUS
  <2>2. IsFiniteSet(1..n)
    BY <2>1, FS_Interval
  <2>3. \A x \in S : x \in Int
    OBVIOUS
  <2>. QED
    BY <2>1, <2>2, <2>3, FS_Subset
<1>2. /\ c \in Nat /\ s \in [1..c -> S]
      /\ \A x \in S : \E k \in 1..c : s[k] = x
      /\ \A j, k \in 1..c : j < k <=> s[j] < s[k]
  BY <1>1, UpwardSorts
<1>. HIDE DEF s, c
<1>3. 1 <= c
  <2>1. PICK x \in S : TRUE
    OBVIOUS
  <2>2. PICK k \in 1..c : s[k] = x
    BY <1>2, <2>1
  <2>. QED
    BY <1>2, <2>2
<1>4. 1 \in 1..c /\ s[1] \in S
  <2>1. 1 \in 1..c
    BY <1>2, <1>3
  <2>. QED
    BY <1>2, <2>1
<1>5. \A x \in S : s[1] <= x
  <2>. SUFFICES ASSUME NEW x \in S PROVE s[1] <= x
    OBVIOUS
  <2>1. PICK k \in 1..c : s[k] = x
    BY <1>2
  <2>2. s[1] \in Int /\ x \in Int
    BY <1>1, <1>4
  <2>3. k = 1 \/ 1 < k
    BY <1>2
  <2>. QED
    BY <1>2, <1>4, <2>1, <2>2, <2>3
<1>. QED
  BY <1>4, <1>5

-----------------------------------------------------------------------------
\* Counting up from 0.
LEMMA CountUp ==
    ASSUME NEW N \in Nat, NEW S, 0 \in S, \A n \in 1..N : n - 1 \in S => n \in S
    PROVE  \A n \in 0..N : n \in S
<1> DEFINE bad == {n \in 1..N : n \notin S}
<1>1. CASE bad = {}
  <2> SUFFICES ASSUME NEW n \in 0..N PROVE n \in S
    OBVIOUS
  <2>1. n = 0 \/ n \in 1..N
    OBVIOUS
  <2>. QED
    BY <1>1, <2>1
<1>2. CASE bad # {}
  <2>1. PICK m \in bad : \A x \in bad : m <= x
    <3>1. bad \subseteq 1..N
      OBVIOUS
    <3>. HIDE DEF bad
    <3>. QED
      BY <1>2, <3>1, HasSmallest
  <2>2. m \in 1..N /\ m \notin S
    BY <2>1
  <2>3. m - 1 \notin S
    BY <2>2
  <2>4. m - 1 \in 1..N
    BY <2>2, <2>3
  <2>. QED
    BY <2>1, <2>2, <2>3, <2>4
<1>. QED
  BY <1>1, <1>2

\* A step that is taken again and again from x.
Goes(g, N, x, F) == g[0] = x /\ \A n \in 1..N : g[n] = F[g[n - 1]]

LEMMA Iterates ==
    ASSUME NEW N \in Nat, NEW D, NEW x \in D, NEW F \in [D -> D]
    PROVE  \E g \in [0..N -> D] : Goes(g, N, x, F)
<1> DEFINE S == {n \in Nat : \E g \in [0..n -> D] : Goes(g, n, x, F)}
<1>1. 0 \in S
  <2> DEFINE g == [k \in 0..0 |-> x]
  <2>1. g \in [0..0 -> D] /\ Goes(g, 0, x, F)
    BY DEF Goes
  <2>. QED
    BY <2>1
<1>2. ASSUME NEW n \in 1..N, n - 1 \in S
      PROVE  n \in S
  <2>1. PICK f \in [0..n - 1 -> D] : Goes(f, n - 1, x, F)
    BY <1>2
  <2> DEFINE g == [k \in 0..n |-> IF k = n THEN F[f[n - 1]] ELSE f[k]]
  <2>2. /\ n \in Nat /\ n - 1 \in 0..n - 1 /\ 0 \in 0..n /\ 0 # n
        /\ \A k \in 0..n : k = n \/ k \in 0..n - 1
        /\ \A k \in 1..n : k - 1 \in 0..n /\ k - 1 # n /\ (k = n \/ k \in 1..n - 1) /\ k \in 0..n
    OBVIOUS
  <2>3. g \in [0..n -> D]
    <3>1. \A k \in 0..n - 1 : f[k] \in D
      BY <2>1
    <3>2. F[f[n - 1]] \in D
      BY <2>2, <3>1
    <3>3. \A k \in 0..n : g[k] \in D
      BY <2>2, <3>1, <3>2
    <3>. QED
      BY <3>3
  <2>4. g[0] = x
    BY <2>1, <2>2 DEF Goes
  <2>5. ASSUME NEW k \in 1..n PROVE g[k] = F[g[k - 1]]
    <3>1. g[k - 1] = f[k - 1]
      BY <2>2
    <3>2. CASE k = n
      BY <2>2, <3>1, <3>2
    <3>3. CASE k # n
      BY <2>1, <2>2, <3>1, <3>3 DEF Goes
    <3>. QED
      BY <3>2, <3>3
  <2>6. Goes(g, n, x, F)
    BY <2>4, <2>5 DEF Goes
  <2>. QED
    BY <2>2, <2>3, <2>6
<1>3. N \in 0..N
  OBVIOUS
<1>. HIDE DEF S
<1>4. N \in S
  BY <1>1, <1>2, <1>3, CountUp
<1>. QED
  BY <1>4 DEF S
=============================================================================
