---------------------------- MODULE LatencyProofs -----------------------------
(***************************************************************************)
(* What computeStats returns, for any number of durations of any size: an  *)
(* order by rank is a permutation, sums do not depend on the order, and    *)
(* the figures lie where their names say.                                  *)
(***************************************************************************)
EXTENDS Latency, FunctionTheorems, FiniteSetTheorems, WellFoundedInduction, TLAPS

-----------------------------------------------------------------------------
(***************************************************************************)
(* Induction and recursion over an interval.                               *)
(***************************************************************************)
LEMMA LeastNumber ==
  ASSUME NEW T \in SUBSET Nat, T # {}
  PROVE  \E n \in T : \A m \in T : n <= m
<1>1. IsWellFoundedOn(OpToRel(<, Nat), Nat)
  BY NatLessThanWellFounded
<1>2. PICK n \in T : \A m \in T : ~(<<m, n>> \in OpToRel(<, Nat))
  BY <1>1, WFMin
<1>3. \A m \in T : ~(m < n)
  BY <1>2 DEF OpToRel
<1> QED  BY <1>3

LEMMA UpTo ==
  ASSUME NEW n \in Nat, NEW T, 0 \in T, \A k \in 0..(n - 1) : k \in T => k + 1 \in T
  PROVE  \A k \in 0..n : k \in T
<1> DEFINE Bad == {k \in 0..n : k \notin T}
<1> SUFFICES ASSUME Bad # {} PROVE FALSE
  OBVIOUS
<1>1. Bad \in SUBSET Nat
  OBVIOUS
<1>2. PICK k \in Bad : \A m \in Bad : k <= m
  BY <1>1, LeastNumber
<1>3. k # 0 /\ k - 1 \in 0..(n - 1) /\ k - 1 \notin Bad /\ k - 1 + 1 = k
  BY <1>2
<1> QED  BY <1>2, <1>3

(* A function that is defined at each number from its value at the one before. *)
StepIn(A, n, step) == step \in [(1..n) \X A -> A]

Trace(A, n, base, step, f) ==
  f \in [0..n -> A] /\ f[0] = base /\ \A k \in 1..n : f[k] = step[<<k, f[k - 1]>>]

LEMMA Recursion ==
  ASSUME NEW A, NEW n \in Nat, NEW base \in A, NEW step, StepIn(A, n, step)
  PROVE  \E f : Trace(A, n, base, step, f)
<1> USE DEF StepIn
<1> DEFINE Upto(m, f) == f[0] = base /\ \A k \in 1..m : f[k] = step[<<k, f[k - 1]>>]
           T == {m \in 0..n : \E f \in [0..m -> A] : Upto(m, f)}
<1>1. 0 \in T
  <2> DEFINE g == [k \in 0..0 |-> base]
  <2>1. g \in [0..0 -> A] /\ g[0] = base /\ 0 \in 0..n
    OBVIOUS
  <2> HIDE DEF g
  <2> QED  BY <2>1
<1>2. ASSUME NEW m \in 0..(n - 1), m \in T PROVE m + 1 \in T
  <2>1. PICK f \in [0..m -> A] : Upto(m, f)
    BY <1>2
  <2> DEFINE last == step[<<m + 1, f[m]>>]
             g == [k \in 0..(m + 1) |-> IF k <= m THEN f[k] ELSE last]
  <2>2. last \in A
    OBVIOUS
  <2>3. g \in [0..(m + 1) -> A]
    BY <2>2
  <2>4. g[0] = base
    BY <2>1
  <2>5. ASSUME NEW k \in 1..(m + 1) PROVE g[k] = step[<<k, g[k - 1]>>]
    <3>1. CASE k \in 1..m
      <4>1. g[k] = f[k] /\ g[k - 1] = f[k - 1]
        BY <3>1
      <4> QED  BY <2>1, <3>1, <4>1
    <3>2. CASE k = m + 1
      <4>1. g[k] = last /\ g[k - 1] = f[m]
        BY <3>2
      <4> QED  BY <3>2, <4>1
    <3> QED  BY <3>1, <3>2
  <2>6. m + 1 \in 0..n
    OBVIOUS
  <2> HIDE DEF g
  <2> QED  BY <2>3, <2>4, <2>5, <2>6
<1> HIDE DEF T
<1>3. \A k \in 0..n : k \in T
  BY <1>1, <1>2, UpTo
<1>4. n \in T
  BY <1>3
<1> QED  BY <1>4 DEF T, Trace

-----------------------------------------------------------------------------
(***************************************************************************)
(* Order by rank.                                                          *)
(***************************************************************************)
IsLinear(S, R) ==
  /\ \A x \in S : <<x, x>> \notin R
  /\ \A x, y \in S : x # y => <<x, y>> \in R \/ <<y, x>> \in R
  /\ \A x, y, z \in S : <<x, y>> \in R /\ <<y, z>> \in R => <<x, z>> \in R

Preceding(S, R, x) == {y \in S : <<y, x>> \in R}

Rank(S, R, x) == Cardinality(Preceding(S, R, x))

LEMMA RankType ==
  ASSUME NEW S, IsFiniteSet(S), NEW R, IsLinear(S, R), NEW x \in S
  PROVE  /\ Rank(S, R, x) \in 0..(Cardinality(S) - 1)
         /\ IsFiniteSet(Preceding(S, R, x))
<1>1. Preceding(S, R, x) \in SUBSET S
  BY DEF Preceding
<1>2. Preceding(S, R, x) # S
  BY DEF Preceding, IsLinear
<1>3. Cardinality(S) \in Nat
  BY FS_CardinalityType
<1>4. IsFiniteSet(Preceding(S, R, x)) /\ Rank(S, R, x) \in Nat
  BY <1>1, FS_Subset, FS_CardinalityType DEF Rank
<1>5. Rank(S, R, x) <= Cardinality(S) /\ Rank(S, R, x) # Cardinality(S)
  BY <1>1, <1>2, FS_Subset DEF Rank
<1> QED  BY <1>3, <1>4, <1>5

LEMMA RankIncreases ==
  ASSUME NEW S, IsFiniteSet(S), NEW R, IsLinear(S, R), NEW x \in S, NEW y \in S, <<x, y>> \in R
  PROVE  Rank(S, R, x) < Rank(S, R, y)
<1>1. Preceding(S, R, x) \in SUBSET Preceding(S, R, y)
  BY DEF Preceding, IsLinear
<1>2. Preceding(S, R, x) # Preceding(S, R, y)
  BY DEF Preceding, IsLinear
<1>3. IsFiniteSet(Preceding(S, R, y)) /\ Rank(S, R, x) \in Nat /\ Rank(S, R, y) \in Nat
  BY RankType
<1>4. Rank(S, R, x) <= Rank(S, R, y) /\ Rank(S, R, x) # Rank(S, R, y)
  BY <1>1, <1>2, <1>3, FS_Subset DEF Rank
<1> QED  BY <1>3, <1>4

LEMMA RankInjective ==
  ASSUME NEW S, IsFiniteSet(S), NEW R, IsLinear(S, R), NEW x \in S, NEW y \in S,
         Rank(S, R, x) = Rank(S, R, y)
  PROVE  x = y
<1> SUFFICES ASSUME x # y PROVE FALSE
  OBVIOUS
<1>1. Rank(S, R, x) \in Nat /\ Rank(S, R, y) \in Nat
  BY RankType
<1>2. <<x, y>> \in R \/ <<y, x>> \in R
  BY DEF IsLinear
<1>3. Rank(S, R, x) < Rank(S, R, y) \/ Rank(S, R, y) < Rank(S, R, x)
  BY <1>2, RankIncreases
<1> QED  BY <1>1, <1>3

(* Every place is some element's rank. *)
LEMMA RankReached ==
  ASSUME NEW S, IsFiniteSet(S), NEW R, IsLinear(S, R), NEW k \in 0..(Cardinality(S) - 1)
  PROVE  \E x \in S : Rank(S, R, x) = k
<1> DEFINE n == Cardinality(S)
           f == [x \in S |-> Rank(S, R, x)]
<1>1. n \in Nat
  BY FS_CardinalityType
<1>2. f \in [S -> 0..(n - 1)]
  BY RankType
<1>3. \A x, y \in S : f[x] = f[y] => x = y
  BY RankInjective
<1> HIDE DEF f
<1>4. f \in Injection(S, 0..(n - 1))
  BY <1>2, <1>3, Fun_IsInj
<1>5. IsFiniteSet(0..(n - 1)) /\ Cardinality(0..(n - 1)) = n
  BY <1>1, FS_Interval
<1>6. f \in Surjection(S, 0..(n - 1))
  BY <1>4, <1>5, FS_Injection
<1>7. \E x \in S : f[x] = k
  BY <1>6 DEF Surjection
<1> QED  BY <1>7 DEF f

(* Ordered lists the elements of S, each once, and in the order R. *)
LEMMA OrderedLists ==
  ASSUME NEW S, IsFiniteSet(S), NEW R, IsLinear(S, R)
  PROVE  /\ Cardinality(S) \in Nat
         /\ Ordered(S, R) \in [1..Cardinality(S) -> S]
         /\ \A i, j \in 1..Cardinality(S) :
              i < j => /\ <<Ordered(S, R)[i], Ordered(S, R)[j]>> \in R
                       /\ Ordered(S, R)[i] # Ordered(S, R)[j]
         /\ \A x \in S : \E i \in 1..Cardinality(S) : Ordered(S, R)[i] = x
<1> DEFINE n == Cardinality(S)
           at == Ordered(S, R)
<1>1. n \in Nat
  BY FS_CardinalityType
<1>2. at = [k \in 1..n |-> CHOOSE x \in S : Rank(S, R, x) = k - 1]
  BY DEF Ordered, Rank, Preceding
<1>3. ASSUME NEW k \in 1..n PROVE at[k] \in S /\ Rank(S, R, at[k]) = k - 1
  <2>1. k - 1 \in 0..(n - 1)
    BY <1>1
  <2>2. \E x \in S : Rank(S, R, x) = k - 1
    BY <2>1, RankReached
  <2>3. at[k] = CHOOSE x \in S : Rank(S, R, x) = k - 1
    BY <1>2
  <2> HIDE DEF at
  <2> QED  BY <2>2, <2>3
<1>4. at \in [1..n -> S]
  <2>1. at = [k \in 1..n |-> at[k]]
    BY <1>2
  <2> HIDE DEF at
  <2> QED  BY <1>3, <2>1
<1> HIDE DEF at, n
<1>5. ASSUME NEW i \in 1..n, NEW j \in 1..n, i < j
      PROVE  <<at[i], at[j]>> \in R /\ at[i] # at[j]
  <2>1. at[i] \in S /\ at[j] \in S /\ Rank(S, R, at[i]) = i - 1 /\ Rank(S, R, at[j]) = j - 1
    BY <1>3
  <2>2. i - 1 < j - 1
    BY <1>5, <1>1
  <2>3. at[i] # at[j]
    BY <2>1, <2>2, <1>1
  <2>4. <<at[j], at[i]>> \in R => Rank(S, R, at[j]) < Rank(S, R, at[i])
    BY <2>1, RankIncreases
  <2>5. <<at[j], at[i]>> \notin R
    BY <2>1, <2>2, <2>4, <1>1
  <2> QED  BY <2>1, <2>3, <2>5 DEF IsLinear
<1>6. ASSUME NEW x \in S PROVE \E i \in 1..n : at[i] = x
  <2>1. Rank(S, R, x) \in 0..(n - 1)
    BY RankType DEF n
  <2> DEFINE i == Rank(S, R, x) + 1
  <2>2. i \in 1..n /\ i - 1 = Rank(S, R, x)
    BY <2>1, <1>1
  <2>3. Rank(S, R, at[i]) = Rank(S, R, x) /\ at[i] \in S
    BY <1>3, <2>2
  <2>4. at[i] = x
    BY <2>3, RankInjective
  <2> QED  BY <2>2, <2>4
<1> QED  BY <1>1, <1>4, <1>5, <1>6 DEF n, at


-----------------------------------------------------------------------------
(***************************************************************************)
(* The sorted copy.                                                        *)
(***************************************************************************)
Place(d) == Ordered(DOMAIN d, Below(d))

LEMMA FirstNumbers ==
  ASSUME NEW n \in Nat
  PROVE  IsFiniteSet(1..n) /\ Cardinality(1..n) = n
BY FS_Interval

LEMMA BelowLinear ==
  ASSUME NEW d \in Seq(Int)
  PROVE  IsLinear(DOMAIN d, Below(d)) /\ IsFiniteSet(DOMAIN d) /\ Cardinality(DOMAIN d) = Len(d)
<1>1. DOMAIN d = 1..Len(d) /\ Len(d) \in Nat /\ \A i \in DOMAIN d : d[i] \in Int /\ i \in Int
  OBVIOUS
<1>2. IsFiniteSet(1..Len(d)) /\ Cardinality(1..Len(d)) = Len(d)
  BY <1>1, FirstNumbers
<1>3. \A x, y \in DOMAIN d :
        <<x, y>> \in Below(d) <=> d[x] < d[y] \/ (d[x] = d[y] /\ x < y)
  BY DEF Below
<1>4. IsLinear(DOMAIN d, Below(d))
  <2>1. \A x \in DOMAIN d : <<x, x>> \notin Below(d)
    BY <1>1, <1>3
  <2>2. \A x, y \in DOMAIN d : x # y => <<x, y>> \in Below(d) \/ <<y, x>> \in Below(d)
    BY <1>1, <1>3
  <2>3. ASSUME NEW x \in DOMAIN d, NEW y \in DOMAIN d, NEW z \in DOMAIN d,
               <<x, y>> \in Below(d), <<y, z>> \in Below(d)
        PROVE  <<x, z>> \in Below(d)
    <3>1. d[x] < d[y] \/ (d[x] = d[y] /\ x < y)
      BY <1>3, <2>3
    <3>2. d[y] < d[z] \/ (d[y] = d[z] /\ y < z)
      BY <1>3, <2>3
    <3>3. d[x] < d[z] \/ (d[x] = d[z] /\ x < z)
      BY <1>1, <3>1, <3>2
    <3> QED  BY <1>3, <3>3
  <2> QED  BY <2>1, <2>2, <2>3 DEF IsLinear
<1> QED  BY <1>1, <1>2, <1>4

Permutes(n, at) ==
  /\ at \in [1..n -> 1..n]
  /\ \A i, j \in 1..n : at[i] = at[j] => i = j
  /\ \A i \in 1..n : \E k \in 1..n : at[k] = i

LEMMA PlacePermutes ==
  ASSUME NEW d \in Seq(Int)
  PROVE  /\ Permutes(Len(d), Place(d))
         /\ Place(d) \in [1..Len(d) -> 1..Len(d)]
         /\ \A i, j \in 1..Len(d) : i < j => <<Place(d)[i], Place(d)[j]>> \in Below(d)
<1>1. IsLinear(DOMAIN d, Below(d)) /\ IsFiniteSet(DOMAIN d) /\ Cardinality(DOMAIN d) = Len(d)
  BY BelowLinear
<1>2. DOMAIN d = 1..Len(d) /\ Len(d) \in Nat
  OBVIOUS
<1> DEFINE S == DOMAIN d
           R == Below(d)
<1>3. /\ Ordered(S, R) \in [1..Cardinality(S) -> S]
      /\ \A i, j \in 1..Cardinality(S) :
           i < j => <<Ordered(S, R)[i], Ordered(S, R)[j]>> \in R /\ Ordered(S, R)[i] # Ordered(S, R)[j]
      /\ \A x \in S : \E i \in 1..Cardinality(S) : Ordered(S, R)[i] = x
  <2>1. IsLinear(S, R) /\ IsFiniteSet(S)
    BY <1>1
  <2> HIDE DEF S, R
  <2> QED  BY <2>1, OrderedLists
<1>4. /\ Place(d) \in [1..Len(d) -> 1..Len(d)]
      /\ \A i, j \in 1..Len(d) :
           i < j => <<Place(d)[i], Place(d)[j]>> \in Below(d) /\ Place(d)[i] # Place(d)[j]
      /\ \A x \in 1..Len(d) : \E i \in 1..Len(d) : Place(d)[i] = x
  BY <1>1, <1>2, <1>3 DEF Place
<1>5. ASSUME NEW i \in 1..Len(d), NEW j \in 1..Len(d), i # j PROVE Place(d)[i] # Place(d)[j]
  <2>1. i < j \/ j < i
    BY <1>5
  <2> QED  BY <1>4, <2>1
<1>6. Permutes(Len(d), Place(d))
  BY <1>4, <1>5 DEF Permutes
<1> QED  BY <1>4, <1>6

LEMMA InOrderSorted ==
  ASSUME NEW d \in Seq(Int)
  PROVE  /\ InOrder(d) \in Seq(Int) /\ Len(InOrder(d)) = Len(d)
         /\ \A k \in 1..Len(d) : InOrder(d)[k] = d[Place(d)[k]]
         /\ \A i, j \in 1..Len(d) : i <= j => InOrder(d)[i] <= InOrder(d)[j]
<1>1. InOrder(d) = [k \in 1..Len(d) |-> d[Place(d)[k]]]
  BY DEF InOrder, Place
<1>2. Len(d) \in Nat /\ \A i \in 1..Len(d) : d[i] \in Int
  OBVIOUS
<1>3. Place(d) \in [1..Len(d) -> 1..Len(d)]
  BY PlacePermutes
<1>4. InOrder(d) \in [1..Len(d) -> Int]
  BY <1>1, <1>2, <1>3
<1>5. InOrder(d) \in Seq(Int) /\ Len(InOrder(d)) = Len(d)
  BY <1>2, <1>4
<1>6. ASSUME NEW i \in 1..Len(d), NEW j \in 1..Len(d), i <= j
      PROVE  InOrder(d)[i] <= InOrder(d)[j]
  <2>1. CASE i = j
    BY <1>4, <2>1
  <2>2. CASE i < j
    <3>1. <<Place(d)[i], Place(d)[j]>> \in Below(d)
      BY <2>2, PlacePermutes
    <3>2. d[Place(d)[i]] <= d[Place(d)[j]]
      BY <1>2, <1>3, <3>1 DEF Below
    <3> QED  BY <1>1, <3>2
  <2> QED  BY <1>6, <2>1, <2>2
<1> QED  BY <1>1, <1>5, <1>6

LEMMA InOrderRange ==
  ASSUME NEW T \in SUBSET Int, NEW d \in Seq(T)
  PROVE  InOrder(d) \in Seq(T)
<1>1. d \in Seq(Int)
  <2>1. Len(d) \in Nat /\ d \in [1..Len(d) -> T]
    OBVIOUS
  <2>2. d \in [1..Len(d) -> Int]
    BY <2>1
  <2> QED  BY <2>1, <2>2
<1>2. InOrder(d) = [k \in 1..Len(d) |-> d[Place(d)[k]]]
  BY DEF InOrder, Place
<1>3. Place(d) \in [1..Len(d) -> 1..Len(d)]
  BY <1>1, PlacePermutes
<1>4. Len(d) \in Nat /\ \A i \in 1..Len(d) : d[i] \in T
  OBVIOUS
<1>5. InOrder(d) \in [1..Len(d) -> T]
  BY <1>2, <1>3, <1>4
<1> QED  BY <1>4, <1>5

-----------------------------------------------------------------------------
(***************************************************************************)
(* Sums.                                                                   *)
(***************************************************************************)
(* f gives the sums of the beginnings of d. *)
Sums(d, f) ==
  f \in [0..Len(d) -> Int] /\ f[0] = 0 /\ \A k \in 1..Len(d) : f[k] = f[k - 1] + d[k]

LEMMA TotalUnfolds ==
  ASSUME NEW d \in Seq(Int)
  PROVE  \E f : Sums(d, f) /\ Total(d) = f[Len(d)]
<1> DEFINE n == Len(d)
           Unfolds(f) == f = [k \in 0..n |-> IF k = 0 THEN 0 ELSE f[k - 1] + d[k]]
           step == [p \in (1..n) \X Int |-> p[2] + d[p[1]]]
           c == CHOOSE f : Unfolds(f)
<1>1. n \in Nat /\ \A k \in 1..n : d[k] \in Int
  OBVIOUS
<1>2. StepIn(Int, n, step)
  BY <1>1 DEF StepIn
<1>3. PICK f : Trace(Int, n, 0, step, f)
  <2>1. n \in Nat /\ 0 \in Int
    BY <1>1
  <2> HIDE DEF step, n
  <2> QED  BY <1>2, <2>1, Recursion
<1>4. f \in [0..n -> Int] /\ f[0] = 0 /\ \A k \in 1..n : f[k] = step[<<k, f[k - 1]>>]
  BY <1>3 DEF Trace
<1>5. ASSUME NEW k \in 1..n PROVE f[k] = f[k - 1] + d[k]
  <2>1. k - 1 \in 0..n /\ f[k - 1] \in Int
    BY <1>1, <1>4
  <2>2. step[<<k, f[k - 1]>>] = f[k - 1] + d[k]
    BY <2>1
  <2> QED  BY <1>4, <2>2
<1>6. Unfolds(f)
  <2>1. \A k \in 0..n : f[k] = IF k = 0 THEN 0 ELSE f[k - 1] + d[k]
    BY <1>4, <1>5
  <2>2. f = [k \in 0..n |-> f[k]]
    BY <1>4
  <2> QED  BY <2>1, <2>2
<1>7. Unfolds(c)
  <2> HIDE DEF Unfolds
  <2> QED  BY <1>6
<1>8. Total(d) = c[n]
  BY DEF Total
<1> HIDE DEF c
<1>9. c[0] = 0 /\ \A k \in 1..n : c[k] = c[k - 1] + d[k]
  BY <1>1, <1>7
<1>10. DOMAIN c = 0..n /\ c = [k \in 0..n |-> c[k]]
  BY <1>7
<1> DEFINE T == {k \in 0..n : c[k] = f[k]}
<1>11. 0 \in T
  BY <1>1, <1>4, <1>9
<1>12. \A k \in 0..(n - 1) : k \in T => k + 1 \in T
  BY <1>1, <1>5, <1>9
<1>13. \A k \in 0..n : k \in T
  <2> HIDE DEF T
  <2> QED  BY <1>1, <1>11, <1>12, UpTo
<1>14. c[n] = f[n]
  BY <1>1, <1>13
<1> QED  BY <1>4, <1>5, <1>8, <1>14 DEF Sums

LEMMA SumsAt ==
  ASSUME NEW d \in Seq(Int), NEW f, Sums(d, f), NEW k \in 0..(Len(d) - 1)
  PROVE  /\ f[k + 1] = f[k] + d[k + 1]
         /\ f[k] \in Int /\ f[k + 1] \in Int /\ d[k + 1] \in Int
<1>1. Len(d) \in Nat /\ \A i \in 1..Len(d) : d[i] \in Int
  OBVIOUS
<1>2. k + 1 \in 1..Len(d) /\ k + 1 - 1 = k /\ k \in 0..Len(d) /\ k + 1 \in 0..Len(d)
  BY <1>1
<1>3. f \in [0..Len(d) -> Int] /\ f[k + 1] = f[k + 1 - 1] + d[k + 1]
  BY <1>2 DEF Sums
<1> QED  BY <1>1, <1>2, <1>3

LEMMA TotalBounds ==
  ASSUME NEW d \in Seq(Int), NEW lo \in Int, NEW hi \in Int,
         \A i \in 1..Len(d) : lo <= d[i] /\ d[i] <= hi
  PROVE  Total(d) \in Int /\ Len(d) * lo <= Total(d) /\ Total(d) <= Len(d) * hi
<1> DEFINE n == Len(d)
<1>1. n \in Nat /\ \A i \in 1..n : d[i] \in Int
  OBVIOUS
<1>2. PICK f : Sums(d, f) /\ Total(d) = f[n]
  BY TotalUnfolds
<1> DEFINE T == {k \in 0..n : k * lo <= f[k] /\ f[k] <= k * hi}
<1>3. 0 \in T
  BY <1>1, <1>2 DEF Sums
<1>4. ASSUME NEW k \in 0..(n - 1), k \in T PROVE k + 1 \in T
  <2>1. k + 1 \in 1..n /\ k + 1 - 1 = k /\ k \in 0..n /\ k + 1 \in 0..n
    BY <1>1
  <2>2. f[k + 1] = f[k] + d[k + 1] /\ f[k] \in Int /\ d[k + 1] \in Int
    BY <1>2, SumsAt
  <2>3. (k + 1) * lo = k * lo + lo /\ (k + 1) * hi = k * hi + hi
    OBVIOUS
  <2>4. lo <= d[k + 1] /\ d[k + 1] <= hi
    BY <2>1
  <2>5. k * lo <= f[k] /\ f[k] <= k * hi
    BY <1>4
  <2>6. k * lo \in Int /\ k * hi \in Int
    OBVIOUS
  <2>7. (k + 1) * lo <= f[k + 1] /\ f[k + 1] <= (k + 1) * hi
    BY <2>2, <2>3, <2>4, <2>5, <2>6
  <2> QED  BY <2>1, <2>7
<1> HIDE DEF T
<1>5. \A k \in 0..n : k \in T
  BY <1>1, <1>3, <1>4, UpTo
<1>6. n \in T
  BY <1>1, <1>5
<1>7. f[n] \in Int
  BY <1>1, <1>2 DEF Sums
<1> QED  BY <1>1, <1>2, <1>6, <1>7 DEF T

LEMMA TotalChange ==
  ASSUME NEW d \in Seq(Int), NEW e \in Seq(Int), Len(d) = Len(e), NEW j \in 1..Len(d),
         \A i \in 1..Len(d) : i # j => e[i] = d[i]
  PROVE  Total(e) = Total(d) - d[j] + e[j]
<1> DEFINE n == Len(d)
<1>1. n \in Nat /\ \A i \in 1..n : d[i] \in Int /\ e[i] \in Int
  OBVIOUS
<1>2. PICK f : Sums(d, f) /\ Total(d) = f[n]
  BY TotalUnfolds
<1>3. PICK g : Sums(e, g) /\ Total(e) = g[n]
  BY TotalUnfolds
<1> DEFINE T == {k \in 0..n : g[k] = IF k < j THEN f[k] ELSE f[k] - d[j] + e[j]}
<1>4. 0 \in T
  BY <1>1, <1>2, <1>3 DEF Sums
<1>5. ASSUME NEW k \in 0..(n - 1), k \in T PROVE k + 1 \in T
  <2>1. k + 1 \in 1..n /\ k + 1 - 1 = k /\ k \in 0..n /\ k + 1 \in 0..n
    BY <1>1
  <2>2. f[k + 1] = f[k] + d[k + 1] /\ g[k + 1] = g[k] + e[k + 1]
    <3>1. f[k + 1] = f[k] + d[k + 1]
      BY <1>2, SumsAt
    <3>2. g[k + 1] = g[k] + e[k + 1]
      BY <1>3, SumsAt
    <3> QED  BY <3>1, <3>2
  <2>3. g[k] = IF k < j THEN f[k] ELSE f[k] - d[j] + e[j]
    BY <1>5
  <2>4. /\ f[k] \in Int /\ g[k] \in Int /\ d[k + 1] \in Int /\ e[k + 1] \in Int
        /\ d[j] \in Int /\ e[j] \in Int /\ k \in Int /\ j \in Int
    <3>1. /\ f[k] \in Int /\ g[k] \in Int
      BY <1>2, <1>3, SumsAt
    <3> QED  BY <1>1, <2>1, <3>1
  <2>5. k + 1 # j => e[k + 1] = d[k + 1]
    BY <2>1
  <2>6. g[k + 1] = IF k + 1 < j THEN f[k + 1] ELSE f[k + 1] - d[j] + e[j]
    <3>1. CASE k + 1 = j
      BY <2>2, <2>3, <2>4, <3>1
    <3>2. CASE k + 1 < j
      BY <2>2, <2>3, <2>4, <2>5, <3>2
    <3>3. CASE k + 1 > j
      <4>1. ~(k < j) /\ ~(k + 1 < j) /\ k + 1 # j
        BY <2>4, <3>3
      <4>2. g[k] = f[k] - d[j] + e[j] /\ e[k + 1] = d[k + 1]
        BY <2>3, <2>5, <4>1
      <4>3. g[k + 1] = f[k + 1] - d[j] + e[j]
        BY <2>2, <2>4, <4>2, SMTT(30)
      <4> QED  BY <4>1, <4>3
    <3> QED  BY <3>1, <3>2, <3>3
  <2> QED  BY <2>1, <2>6
<1> HIDE DEF T
<1>6. \A k \in 0..n : k \in T
  BY <1>1, <1>4, <1>5, UpTo
<1>7. n \in T
  BY <1>1, <1>6
<1>8. ~(n < j)
  BY <1>1
<1> QED  BY <1>2, <1>3, <1>7, <1>8 DEF T

(* A sum does not depend on the order. *)
LEMMA TotalPermuted ==
  ASSUME NEW d \in Seq(Int), NEW at, Permutes(Len(d), at)
  PROVE  Total([k \in 1..Len(d) |-> d[at[k]]]) = Total(d)
<1> DEFINE n == Len(d)
           Part(m) == [k \in 1..n |-> IF at[k] <= m THEN d[at[k]] ELSE 0]
<1>1. n \in Nat /\ (\A i \in 1..n : d[i] \in Int) /\ at \in [1..n -> 1..n]
  BY DEF Permutes
<1>2. ASSUME NEW m PROVE Part(m) \in Seq(Int) /\ Len(Part(m)) = n
  <2>1. Part(m) \in [1..n -> Int]
    BY <1>1
  <2> QED  BY <1>1, <2>1
<1>3. PICK f : Sums(d, f) /\ Total(d) = f[n]
  BY TotalUnfolds
<1> DEFINE T == {m \in 0..n : Total(Part(m)) = f[m]}
<1>4. 0 \in T
  <2>1. ASSUME NEW i \in 1..n PROVE Part(0)[i] = 0
    <3>1. at[i] \in 1..n
      BY <1>1
    <3>2. ~(at[i] <= 0)
      BY <3>1, <1>1
    <3> QED  BY <3>2
  <2> DEFINE e == Part(0)
  <2>2. e \in Seq(Int) /\ Len(e) = n /\ \A i \in 1..n : 0 <= e[i] /\ e[i] <= 0
    BY <1>2, <2>1
  <2> HIDE DEF e
  <2>3. Total(e) \in Int /\ n * 0 <= Total(e) /\ Total(e) <= n * 0
    BY <2>2, TotalBounds
  <2>4. Total(e) = 0
    BY <1>1, <2>3
  <2> QED  BY <1>1, <1>3, <2>4 DEF Sums, e
<1>5. ASSUME NEW m \in 0..(n - 1), m \in T PROVE m + 1 \in T
  <2>1. m + 1 \in 1..n /\ m + 1 - 1 = m /\ m \in 0..n /\ m + 1 \in 0..n
    BY <1>1
  <2>2. PICK j \in 1..n : at[j] = m + 1
    BY <2>1 DEF Permutes
  <2> DEFINE old == Part(m)
             new == Part(m + 1)
  <2>3. old \in Seq(Int) /\ new \in Seq(Int) /\ Len(old) = n /\ Len(new) = n
    BY <1>2
  <2>4. ASSUME NEW i \in 1..n, i # j PROVE new[i] = old[i]
    <3>1. at[i] # m + 1 /\ at[i] \in Int /\ m \in Int
      <4>1. at[i] # at[j] /\ at[i] \in 1..n
        BY <1>1, <2>4 DEF Permutes
      <4> QED  BY <2>2, <4>1
    <3>2. at[i] <= m <=> at[i] <= m + 1
      <4> DEFINE x == at[i]
      <4>1. x # m + 1 /\ x \in Int /\ m \in Int
        BY <3>1
      <4> HIDE DEF x
      <4>2. x <= m <=> x <= m + 1
        BY <4>1
      <4> QED  BY <4>2 DEF x
    <3> QED  BY <3>2
  <2>5. old[j] = 0 /\ new[j] = d[m + 1]
    BY <2>1, <2>2, <1>1
  <2> HIDE DEF old, new
  <2>6. Total(new) = Total(old) - old[j] + new[j]
    BY <2>3, <2>4, TotalChange
  <2>7. Total(old) = f[m]
    BY <1>5 DEF old
  <2>8. f[m + 1] = f[m] + d[m + 1] /\ f[m] \in Int /\ d[m + 1] \in Int
    BY <1>3, SumsAt
  <2>9. Total(new) = f[m + 1]
    BY <2>5, <2>6, <2>7, <2>8
  <2> QED  BY <2>1, <2>9 DEF new
<1> HIDE DEF T
<1>6. \A m \in 0..n : m \in T
  BY <1>1, <1>4, <1>5, UpTo
<1>7. Total(Part(n)) = f[n]
  <2>1. n \in T
    BY <1>1, <1>6
  <2> QED  BY <2>1 DEF T
<1>8. Part(n) = [k \in 1..Len(d) |-> d[at[k]]]
  BY <1>1
<1> QED  BY <1>3, <1>7, <1>8

LEMMA TotalInOrder ==
  ASSUME NEW d \in Seq(Int)
  PROVE  Total(InOrder(d)) = Total(d)
<1>1. InOrder(d) = [k \in 1..Len(d) |-> d[Place(d)[k]]]
  BY DEF InOrder, Place
<1>2. Permutes(Len(d), Place(d))
  BY PlacePermutes
<1> QED  BY <1>1, <1>2, TotalPermuted

-----------------------------------------------------------------------------
(***************************************************************************)
(* The mean and the deviation.                                             *)
(***************************************************************************)
LEMMA DivMod ==
  ASSUME NEW b \in Nat \ {0}, NEW q \in Int, NEW r \in Nat, r < b
  PROVE  (q * b + r) \div b = q /\ (q * b + r) % b = r
<1> DEFINE a == q * b + r
<1>1. a \in Int
  OBVIOUS
<1> HIDE DEF a
<1> DEFINE d == a \div b
           m == a % b
<1>2. a = b * d + m /\ d \in Int /\ m \in Nat /\ m < b
  BY <1>1
<1> HIDE DEF d, m
<1>3. q * b + r = b * d + m
  BY <1>2 DEF a
<1>4. /\ q - d >= 1 => b * (q - d) >= b
      /\ d - q >= 1 => b * (d - q) >= b
      /\ b * (q - d) = b * q - b * d /\ b * (d - q) = b * d - b * q
      /\ b * q = q * b
  BY <1>2
<1>5. q = d
  BY <1>2, <1>3, <1>4
<1>6. m = r
  BY <1>2, <1>3, <1>5
<1> QED  BY <1>5, <1>6 DEF a, d, m

LEMMA WrapType ==
  ASSUME NEW x \in Int
  PROVE  Wrap(x) \in Int /\ (0 <= x /\ x < Half => Wrap(x) = x)
<1>1. 2 * Half \in Nat \ {0} /\ Half \in Int
  BY HalfAssumption
<1> DEFINE b == 2 * Half
           y == x + Half
           m == y % b
<1>2. b \in Nat \ {0} /\ y \in Int
  BY <1>1
<1>3. m \in Int
  <2> HIDE DEF b, y
  <2> QED  BY <1>2
<1>4. ASSUME 0 <= x, x < Half PROVE m = y
  <2>1. y \in Nat /\ y < b
    BY <1>1, <1>4
  <2>2. (0 * b + y) % b = y /\ 0 * b + y = y
    <3> HIDE DEF b, y
    <3>1. (0 * b + y) % b = y
      BY <1>2, <2>1, DivMod
    <3> QED  BY <1>2, <2>1, <3>1
  <2> HIDE DEF b, y
  <2> QED  BY <2>2
<1>5. Wrap(x) = m - Half
  BY DEF Wrap
<1> HIDE DEF m
<1>6. Wrap(x) \in Int
  BY <1>1, <1>3, <1>5
<1>7. ASSUME 0 <= x, x < Half PROVE Wrap(x) = x
  BY <1>1, <1>4, <1>5, <1>7
<1> QED  BY <1>6, <1>7

LEMMA WrappedUnfolds ==
  ASSUME NEW d \in Seq(Int)
  PROVE  \E f : /\ f \in [0..Len(d) -> Int] /\ f[0] = 0
                /\ \A k \in 1..Len(d) : f[k] = Wrap(f[k - 1] + d[k])
                /\ WrappedTotal(d) = f[Len(d)]
<1> DEFINE n == Len(d)
           Unfolds(f) == f = [k \in 0..n |-> IF k = 0 THEN 0 ELSE Wrap(f[k - 1] + d[k])]
           step == [p \in (1..n) \X Int |-> Wrap(p[2] + d[p[1]])]
           c == CHOOSE f : Unfolds(f)
<1>1. n \in Nat /\ \A k \in 1..n : d[k] \in Int
  OBVIOUS
<1>2. StepIn(Int, n, step)
  <2>1. ASSUME NEW p \in (1..n) \X Int PROVE Wrap(p[2] + d[p[1]]) \in Int
    <3>1. p[2] + d[p[1]] \in Int
      BY <1>1
    <3> QED  BY <3>1, WrapType
  <2> QED  BY <2>1 DEF StepIn
<1>3. PICK f : Trace(Int, n, 0, step, f)
  <2>1. n \in Nat /\ 0 \in Int
    BY <1>1
  <2> HIDE DEF step, n
  <2> QED  BY <1>2, <2>1, Recursion
<1>4. f \in [0..n -> Int] /\ f[0] = 0 /\ \A k \in 1..n : f[k] = step[<<k, f[k - 1]>>]
  BY <1>3 DEF Trace
<1>5. ASSUME NEW k \in 1..n PROVE f[k] = Wrap(f[k - 1] + d[k])
  <2>1. k - 1 \in 0..n /\ f[k - 1] \in Int
    BY <1>1, <1>4
  <2>2. step[<<k, f[k - 1]>>] = Wrap(f[k - 1] + d[k])
    BY <2>1
  <2> QED  BY <1>4, <2>2
<1>6. Unfolds(f)
  <2>1. \A k \in 0..n : f[k] = IF k = 0 THEN 0 ELSE Wrap(f[k - 1] + d[k])
    BY <1>4, <1>5
  <2>2. f = [k \in 0..n |-> f[k]]
    BY <1>4
  <2> QED  BY <2>1, <2>2
<1>7. Unfolds(c)
  <2> HIDE DEF Unfolds
  <2> QED  BY <1>6
<1>8. WrappedTotal(d) = c[n]
  BY DEF WrappedTotal
<1> HIDE DEF c
<1>9. c[0] = 0 /\ \A k \in 1..n : c[k] = Wrap(c[k - 1] + d[k])
  BY <1>1, <1>7
<1> DEFINE T == {k \in 0..n : c[k] = f[k]}
<1>11. 0 \in T
  BY <1>1, <1>4, <1>9
<1>12. ASSUME NEW k \in 0..(n - 1), k \in T PROVE k + 1 \in T
  <2>1. k + 1 \in 1..n /\ k + 1 - 1 = k /\ k + 1 \in 0..n
    BY <1>1
  <2>2. c[k + 1] = Wrap(c[k] + d[k + 1]) /\ f[k + 1] = Wrap(f[k] + d[k + 1])
    BY <1>5, <1>9, <2>1
  <2>3. c[k] = f[k]
    BY <1>12
  <2> QED  BY <2>1, <2>2, <2>3
<1>13. \A k \in 0..n : k \in T
  <2> HIDE DEF T
  <2> QED  BY <1>1, <1>11, <1>12, UpTo
<1>14. c[n] = f[n]
  BY <1>1, <1>13
<1> QED  BY <1>4, <1>5, <1>8, <1>14

Durations == 0..(Half - 1)

LEMMA DurationsAreInt == Durations \in SUBSET Int
BY HalfAssumption DEF Durations

LEMMA SeqOfDurations ==
  ASSUME NEW d \in Seq(Durations)
  PROVE  d \in Seq(Int) /\ \A i \in 1..Len(d) : d[i] \in Int /\ 0 <= d[i] /\ d[i] < Half
<1>1. Len(d) \in Nat /\ d \in [1..Len(d) -> Durations]
  OBVIOUS
<1>2. d \in [1..Len(d) -> Int]
  BY <1>1, DurationsAreInt
<1>3. d \in Seq(Int)
  BY <1>1, <1>2
<1>4. ASSUME NEW i \in 1..Len(d) PROVE d[i] \in Int /\ 0 <= d[i] /\ d[i] < Half
  <2>1. d[i] \in Durations
    BY <1>1
  <2> QED  BY <2>1, HalfAssumption DEF Durations
<1> QED  BY <1>3, <1>4

(* While the sum fits, keeping it in the bits of a duration loses nothing. *)
LEMMA NoWrap ==
  ASSUME NEW d \in Seq(Durations), Total(d) < Half
  PROVE  WrappedTotal(d) = Total(d)
<1> DEFINE n == Len(d)
<1>1. n \in Nat /\ d \in Seq(Int) /\ \A i \in 1..n : d[i] \in Int /\ 0 <= d[i]
  BY SeqOfDurations
<1>2. PICK f : Sums(d, f) /\ Total(d) = f[n]
  BY <1>1, TotalUnfolds
<1>3. PICK g : /\ g \in [0..n -> Int] /\ g[0] = 0
               /\ \A k \in 1..n : g[k] = Wrap(g[k - 1] + d[k])
               /\ WrappedTotal(d) = g[n]
  BY <1>1, WrappedUnfolds
<1>4. f \in [0..n -> Int] /\ f[0] = 0
  BY <1>2 DEF Sums
<1>5. ASSUME NEW k \in 0..(n - 1)
      PROVE  /\ f[k + 1] = f[k] + d[k + 1] /\ f[k] \in Int /\ f[k + 1] \in Int
             /\ d[k + 1] \in Int /\ 0 <= d[k + 1] /\ k + 1 \in 0..n
  <2>1. f[k + 1] = f[k] + d[k + 1] /\ f[k] \in Int /\ f[k + 1] \in Int
    BY <1>1, <1>2, SumsAt
  <2>2. k + 1 \in 1..n
    BY <1>1
  <2> QED  BY <1>1, <2>1, <2>2
<1> DEFINE Grow == {m \in 0..n : 0 <= f[m] /\ \A k \in 0..m : f[k] <= f[m]}
<1>6. 0 \in Grow
  BY <1>1, <1>4
<1>7. ASSUME NEW m \in 0..(n - 1), m \in Grow PROVE m + 1 \in Grow
  <2>1. f[m] <= f[m + 1] /\ 0 <= f[m] /\ f[m] \in Int /\ f[m + 1] \in Int /\ m + 1 \in 0..n
    BY <1>5, <1>7
  <2>2. ASSUME NEW k \in 0..(m + 1) PROVE f[k] <= f[m + 1]
    <3>1. CASE k \in 0..m
      <4>1. f[k] <= f[m] /\ k \in 0..n
        BY <1>7, <3>1
      <4>2. f[k] \in Int
        BY <1>4, <4>1
      <4> QED  BY <2>1, <4>1, <4>2
    <3>2. CASE k = m + 1
      BY <2>1, <3>2
    <3> QED  BY <3>1, <3>2
  <2> QED  BY <2>1, <2>2
<1>8. \A m \in 0..n : m \in Grow
  <2> HIDE DEF Grow
  <2> QED  BY <1>1, <1>6, <1>7, UpTo
<1>9. ASSUME NEW k \in 0..n PROVE 0 <= f[k] /\ f[k] < Half /\ f[k] \in Int
  <2>1. k \in Grow /\ n \in Grow
    BY <1>1, <1>8
  <2>2. 0 <= f[k] /\ f[k] <= f[n] /\ f[n] < Half /\ f[k] \in Int /\ f[n] \in Int
    BY <1>1, <1>2, <1>4, <2>1
  <2> QED  BY <2>2, HalfAssumption
<1> HIDE DEF Grow
<1> DEFINE Same == {k \in 0..n : g[k] = f[k]}
<1>10. 0 \in Same
  BY <1>1, <1>3, <1>4
<1>11. ASSUME NEW k \in 0..(n - 1), k \in Same PROVE k + 1 \in Same
  <2>1. k + 1 \in 1..n /\ k + 1 - 1 = k /\ k + 1 \in 0..n
    BY <1>1
  <2>2. g[k + 1] = Wrap(g[k] + d[k + 1])
    BY <1>3, <2>1
  <2>3. g[k] = f[k]
    BY <1>11
  <2>4. g[k + 1] = Wrap(f[k + 1])
    BY <1>5, <2>2, <2>3
  <2>5. Wrap(f[k + 1]) = f[k + 1]
    BY <1>9, <2>1, WrapType
  <2> QED  BY <2>1, <2>4, <2>5
<1>12. \A k \in 0..n : k \in Same
  <2> HIDE DEF Same
  <2> QED  BY <1>1, <1>10, <1>11, UpTo
<1>13. g[n] = f[n]
  BY <1>1, <1>12
<1> QED  BY <1>2, <1>3, <1>13

LEMMA SortedDurations ==
  ASSUME NEW d \in Seq(Durations), Len(d) # 0
  PROVE  /\ InOrder(d) \in Seq(Durations) /\ InOrder(d) \in Seq(Int)
         /\ Len(InOrder(d)) = Len(d) /\ Len(d) \in Nat \ {0}
         /\ \A i \in 1..Len(d) : InOrder(d)[i] \in Int /\ 0 <= InOrder(d)[i] /\ InOrder(d)[i] < Half
         /\ \A i, j \in 1..Len(d) : i <= j => InOrder(d)[i] <= InOrder(d)[j]
<1>1. d \in Seq(Int)
  BY SeqOfDurations
<1>2. InOrder(d) \in Seq(Durations)
  BY DurationsAreInt, InOrderRange
<1>3. Len(InOrder(d)) = Len(d) /\ \A i, j \in 1..Len(d) : i <= j => InOrder(d)[i] <= InOrder(d)[j]
  BY <1>1, InOrderSorted
<1>4. \A i \in 1..Len(d) : InOrder(d)[i] \in Int /\ 0 <= InOrder(d)[i] /\ InOrder(d)[i] < Half
  BY <1>2, <1>3, SeqOfDurations
<1>5. InOrder(d) \in Seq(Int)
  BY <1>2, SeqOfDurations
<1>6. Len(d) \in Nat \ {0}
  OBVIOUS
<1> QED  BY <1>2, <1>3, <1>4, <1>5, <1>6

(* The mean of durations whose sum fits is between the extremes. *)
LEMMA MeanBetween ==
  ASSUME NEW d \in Seq(Durations), Len(d) # 0, Total(d) < Half
  PROVE  /\ MeanOf(InOrder(d)) \in Int
         /\ InOrder(d)[1] <= MeanOf(InOrder(d)) /\ MeanOf(InOrder(d)) <= InOrder(d)[Len(d)]
<1> DEFINE s == InOrder(d)
           n == Len(d)
           lo == s[1]
           hi == s[n]
           w == WrappedTotal(s)
<1>1. /\ s \in Seq(Durations) /\ s \in Seq(Int) /\ Len(s) = n /\ n \in Nat \ {0}
      /\ \A i \in 1..n : s[i] \in Int /\ 0 <= s[i] /\ s[i] < Half
      /\ \A i, j \in 1..n : i <= j => s[i] <= s[j]
  BY SortedDurations
<1>2. d \in Seq(Int)
  BY SeqOfDurations
<1>3. Total(s) = Total(d)
  BY <1>2, TotalInOrder
<1> HIDE DEF s
<1>4. w = Total(s)
  BY <1>1, <1>3, NoWrap
<1>5. 1 \in 1..n /\ n \in 1..n
  BY <1>1
<1>6. \A i \in 1..n : lo <= s[i] /\ s[i] <= hi
  BY <1>1, <1>5
<1>7. lo \in Int /\ hi \in Int /\ 0 <= lo
  BY <1>1, <1>5
<1> HIDE DEF n, lo, hi
<1>8. Total(s) \in Int /\ n * lo <= Total(s) /\ Total(s) <= n * hi
  BY <1>1, <1>6, <1>7, TotalBounds
<1> DEFINE t == Total(s)
<1>9. t \in Int /\ n * lo <= t /\ t <= n * hi /\ w = t
  BY <1>4, <1>8
<1> HIDE DEF t, w
<1>10. 0 <= t
  <2>1. 0 <= n * lo /\ n * lo \in Int
    BY <1>1, <1>7
  <2> QED  BY <1>9, <2>1
<1> DEFINE q == t \div n
           m == t % n
<1>11. t = n * q + m /\ q \in Int /\ m \in Nat /\ m < n
  BY <1>1, <1>9
<1>12. MeanOf(s) = q
  <2>1. MeanOf(s) = Quotient(w, n)
    BY <1>1 DEF MeanOf, w
  <2> QED  BY <2>1, <1>9, <1>10 DEF Quotient
<1> HIDE DEF q, m
<1>13. lo <= q
  <2> SUFFICES ASSUME ~(lo <= q) PROVE FALSE
    OBVIOUS
  <2>1. lo - q - 1 \in Nat
    BY <1>7, <1>11
  <2>2. n * (lo - q - 1) >= 0 /\ n * (lo - q - 1) = n * lo - n * q - n
    BY <1>1, <1>7, <1>11, <2>1
  <2>3. n * lo \in Int /\ n * q \in Int
    BY <1>1, <1>7, <1>11
  <2> QED  BY <1>1, <1>9, <1>11, <2>2, <2>3
<1>14. q <= hi
  <2> SUFFICES ASSUME ~(q <= hi) PROVE FALSE
    OBVIOUS
  <2>1. q - hi - 1 \in Nat
    BY <1>7, <1>11
  <2>2. n * (q - hi - 1) >= 0 /\ n * (q - hi - 1) = n * q - n * hi - n
    BY <1>1, <1>7, <1>11, <2>1
  <2>3. n * hi \in Int /\ n * q \in Int
    BY <1>1, <1>7, <1>11
  <2> QED  BY <1>1, <1>9, <1>11, <2>2, <2>3
<1> QED  BY <1>11, <1>12, <1>13, <1>14 DEF s, lo, hi, n

(* A square root rounded down. *)
LEMMA RootExists ==
  ASSUME NEW n \in Nat \ {0}, NEW sq \in Int, NEW w \in Nat, 0 <= sq, sq <= n * (w * w)
  PROVE  \E r \in 0..w : r * r * n <= sq /\ (r + 1) * (r + 1) * n > sq
<1> DEFINE T == {r \in Nat : (r + 1) * (r + 1) * n > sq}
<1>1. w \in T
  <2>1. (w + 1) * (w + 1) * n = n * (w * w) + 2 * (w * n) + n
    OBVIOUS
  <2>2. w * n \in Nat /\ n * (w * w) \in Nat
    OBVIOUS
  <2> QED  BY <2>1, <2>2
<1>2. T \in SUBSET Nat
  OBVIOUS
<1>3. PICK r \in T : \A m \in T : r <= m
  <2> HIDE DEF T
  <2> QED  BY <1>1, <1>2, LeastNumber
<1>4. r \in 0..w
  BY <1>1, <1>3
<1>5. r * r * n <= sq
  <2>1. CASE r = 0
    BY <2>1
  <2>2. CASE r # 0
    <3>1. r - 1 \in Nat /\ ~(r <= r - 1)
      BY <2>2
    <3>2. r - 1 \notin T
      BY <1>3, <3>1
    <3>3. ~((r - 1 + 1) * (r - 1 + 1) * n > sq)
      BY <3>1, <3>2
    <3>4. r - 1 + 1 = r
      OBVIOUS
    <3>5. ~(r * r * n > sq)
      BY <3>3, <3>4
    <3>6. r * r * n \in Int
      OBVIOUS
    <3> QED  BY <3>5, <3>6
  <2> QED  BY <2>1, <2>2
<1> QED  BY <1>3, <1>4, <1>5

LEMMA SquareBound ==
  ASSUME NEW x \in Int, NEW w \in Nat, -w <= x, x <= w
  PROVE  x * x \in Int /\ 0 <= x * x /\ x * x <= w * w
<1>1. (w - x) * (w + x) >= 0 /\ (w - x) * (w + x) = w * w - x * x
  <2>1. w - x \in Nat /\ w + x \in Nat
    OBVIOUS
  <2> QED  BY <2>1
<1>2. x * x >= 0
  <2>1. CASE x >= 0
    BY <2>1
  <2>2. CASE x < 0
    <3>1. -x \in Nat /\ (-x) * (-x) >= 0 /\ (-x) * (-x) = x * x
      BY <2>2
    <3> QED  BY <3>1
  <2> QED  BY <2>1, <2>2
<1>3. x * x \in Int /\ w * w \in Int
  OBVIOUS
<1> QED  BY <1>1, <1>2, <1>3

(* A mean between the extremes leaves a deviation within their distance. *)
LEMMA DeviationWithin ==
  ASSUME NEW s \in Seq(Durations), Len(s) # 0,
         \A i, j \in 1..Len(s) : i <= j => s[i] <= s[j],
         NEW mean \in Int, s[1] <= mean, mean <= s[Len(s)]
  PROVE  StdDevOf(s, mean) \in Int /\ StdDevOf(s, mean) <= s[Len(s)] - s[1]
<1> DEFINE n == Len(s)
           w == s[n] - s[1]
           e == [i \in DOMAIN s |-> (s[i] - mean) * (s[i] - mean)]
           sq == Total(e)
           Root(r) == r * r * n <= sq /\ (r + 1) * (r + 1) * n > sq
           c == CHOOSE r \in 0..(2 * Half) : Root(r)
<1>1. n \in Nat \ {0} /\ DOMAIN s = 1..n /\ \A i \in 1..n : s[i] \in Int /\ 0 <= s[i] /\ s[i] < Half
  BY SeqOfDurations
<1>2. 1 \in 1..n /\ n \in 1..n /\ \A i \in 1..n : s[1] <= s[i] /\ s[i] <= s[n]
  BY <1>1
<1>3. w \in Nat /\ w < Half /\ s[1] \in Int /\ s[n] \in Int
  BY <1>1, <1>2, HalfAssumption
<1>4. ASSUME NEW i \in 1..n
      PROVE  e[i] \in Int /\ 0 <= e[i] /\ e[i] <= w * w
  <2> DEFINE x == s[i] - mean
  <2>1. s[i] \in Int /\ s[1] <= s[i] /\ s[i] <= s[n]
    BY <1>1, <1>2
  <2>2. x \in Int /\ -w <= x /\ x <= w
    BY <1>3, <2>1
  <2>3. e[i] = x * x
    BY <1>1
  <2> HIDE DEF x, w, e
  <2> QED  BY <1>3, <2>2, <2>3, SquareBound
<1>5. e \in Seq(Int) /\ Len(e) = n
  <2>1. e = [i \in 1..n |-> e[i]]
    BY <1>1
  <2>2. e \in [1..n -> Int]
    <3> HIDE DEF e
    <3> QED  BY <1>4, <2>1
  <2> HIDE DEF e
  <2> QED  BY <1>1, <2>2
<1> HIDE DEF e, w, n
<1>6. sq \in Int /\ n * 0 <= sq /\ sq <= n * (w * w)
  <2> DEFINE zero == 0
             ww == w * w
  <2>1. zero \in Int /\ ww \in Int
    BY <1>3
  <2>2. \A i \in 1..Len(e) : zero <= e[i] /\ e[i] <= ww
    BY <1>4, <1>5
  <2> HIDE DEF zero, ww
  <2>3. Total(e) \in Int /\ Len(e) * zero <= Total(e) /\ Total(e) <= Len(e) * ww
    BY <1>5, <2>1, <2>2, TotalBounds
  <2> QED  BY <1>5, <2>3 DEF zero, ww
<1> HIDE DEF sq
<1>7. \E r \in 0..w : Root(r)
  <2>1. 0 <= sq
    BY <1>1, <1>6
  <2> QED  BY <1>1, <1>3, <1>6, <2>1, RootExists
<1>8. StdDevOf(s, mean) = c
  BY DEF StdDevOf, e, n, sq
<1>9. c \in 0..(2 * Half) /\ Root(c)
  <2>1. \A r \in 0..w : r \in 0..(2 * Half)
    BY <1>3, HalfAssumption
  <2>2. \E r \in 0..(2 * Half) : Root(r)
    BY <1>7, <2>1
  <2> HIDE DEF Root
  <2> QED  BY <2>2
<1> HIDE DEF c
<1>10. c \in Nat
  BY <1>9, HalfAssumption
<1>11. c <= w
  <2> SUFFICES ASSUME ~(c <= w) PROVE FALSE
    OBVIOUS
  <2>1. PICK k \in Nat : c = w + 1 + k
    <3>1. c - w - 1 \in Nat /\ c = w + 1 + (c - w - 1)
      BY <1>3, <1>10
    <3> QED  BY <3>1
  <2>2. c * c * n <= n * (w * w)
    <3>1. c * c * n \in Int /\ n * (w * w) \in Int
      BY <1>1, <1>3, <1>10
    <3> QED  BY <1>6, <1>9, <3>1
  <2>3. c * c = w * w + (2 * w + 1 + k) * (1 + k)
    BY <1>3, <2>1
  <2>4. (2 * w + 1 + k) * (1 + k) \in Nat \ {0}
    <3>1. 2 * w + 1 + k \in Nat \ {0} /\ 1 + k \in Nat \ {0}
      BY <1>3
    <3> QED  BY <3>1
  <2> DEFINE extra == (2 * w + 1 + k) * (1 + k)
             ww == w * w
  <2>5. c * c * n = n * ww + n * extra
    BY <1>1, <1>3, <2>3
  <2>6. ww \in Nat
    BY <1>3
  <2> HIDE DEF extra, ww
  <2>7. n * extra > 0 /\ n * ww \in Int /\ n * extra \in Int
    BY <1>1, <2>4, <2>6 DEF extra
  <2> QED  BY <2>2, <2>5, <2>7 DEF ww
<1> QED  BY <1>8, <1>10, <1>11 DEF w, n

-----------------------------------------------------------------------------
(***************************************************************************)
(* Percentiles.                                                            *)
(***************************************************************************)
(* s is a non-empty sorted sequence. *)
Ascending(s) ==
  /\ s \in Seq(Int) /\ Len(s) # 0
  /\ \A i, j \in 1..Len(s) : i <= j => s[i] <= s[j]

Thousandths == 1..999

Lower(s, p) == (p * (Len(s) - 1)) \div 1000 + 1
Remainder(s, p) == (p * (Len(s) - 1)) % 1000
Share(s, p) == Remainder(s, p) * (s[Lower(s, p) + 1] - s[Lower(s, p)])

LEMMA ProductPositive ==
  ASSUME NEW x \in Nat \ {0}, NEW y \in Nat \ {0}
  PROVE  x * y \in Nat \ {0}
OBVIOUS

LEMMA SortedType ==
  ASSUME NEW s, Ascending(s)
  PROVE  Len(s) \in Nat \ {0} /\ \A i \in 1..Len(s) : s[i] \in Int
<1>1. s \in Seq(Int) /\ Len(s) # 0
  BY DEF Ascending
<1> QED  BY <1>1

LEMMA LowerType ==
  ASSUME NEW s, Ascending(s), Len(s) # 1, NEW p \in Thousandths
  PROVE  /\ Lower(s, p) \in 1..(Len(s) - 1) /\ Remainder(s, p) \in 0..999
         /\ p * (Len(s) - 1) = 1000 * (Lower(s, p) - 1) + Remainder(s, p)
         /\ Lower(s, p) \in 1..Len(s) /\ Lower(s, p) + 1 \in 1..Len(s)
         /\ s[Lower(s, p)] \in Int /\ s[Lower(s, p) + 1] \in Int
         /\ s[Lower(s, p)] <= s[Lower(s, p) + 1]
<1> DEFINE n == Len(s)
<1>1. n \in Nat /\ n >= 2 /\ \A i \in 1..n : s[i] \in Int
  <2>1. Len(s) \in Nat \ {0} /\ \A i \in 1..Len(s) : s[i] \in Int
    BY SortedType
  <2> HIDE DEF n
  <2>2. n = Len(s)
    BY DEF n
  <2>3. n \in Nat /\ n >= 2
    BY <2>1, <2>2
  <2> QED  BY <2>1, <2>2, <2>3
<1> DEFINE pos == p * (n - 1)
           lo == pos \div 1000
           r == pos % 1000
<1> HIDE DEF n
<1>0. p \in 1..999
  BY DEF Thousandths
<1>2. pos \in Nat
  BY <1>0, <1>1
<1>3. pos < 1000 * (n - 1)
  <2>1. (1000 - p) * (n - 1) >= 1
    <3>1. 1000 - p \in Nat \ {0} /\ n - 1 \in Nat \ {0}
      BY <1>0, <1>1
    <3>2. (1000 - p) * (n - 1) \in Nat \ {0}
      <4> DEFINE x == 1000 - p
                 y == n - 1
      <4>2. x \in Nat \ {0} /\ y \in Nat \ {0}
        BY <3>1
      <4> HIDE DEF x, y
      <4>1. x * y \in Nat \ {0}
        BY <4>2, ProductPositive
      <4> QED  BY <4>1 DEF x, y
    <3> QED  BY <3>2
  <2>2. (1000 - p) * (n - 1) = 1000 * (n - 1) - p * (n - 1)
    BY <1>0, <1>1
  <2> QED  BY <1>1, <1>2, <2>1, <2>2
<1> HIDE DEF pos
<1>4. pos = 1000 * lo + r /\ lo \in Int /\ r \in 0..999
  BY <1>2
<1>5. lo >= 0 /\ lo < n - 1
  <2> HIDE DEF lo, r
  <2> QED  BY <1>1, <1>2, <1>3, <1>4
<1>6. Lower(s, p) = lo + 1 /\ Remainder(s, p) = r
  BY DEF Lower, Remainder, pos, n
<1> HIDE DEF lo, r
<1>7. lo + 1 \in 1..(n - 1) /\ lo + 1 \in 1..n /\ lo + 1 + 1 \in 1..n /\ lo + 1 <= lo + 1 + 1
  BY <1>1, <1>4, <1>5
<1>8. s[lo + 1] <= s[lo + 1 + 1]
  BY <1>7 DEF Ascending, n
<1>9. pos = 1000 * (lo + 1 - 1) + r
  BY <1>4
<1> QED  BY <1>1, <1>4, <1>6, <1>7, <1>8, <1>9 DEF n, pos

(* What a percentile of two or more durations is. *)
LEMMA PercentileMeans ==
  ASSUME NEW s, Ascending(s), Len(s) # 1, NEW p \in Thousandths, NEW v \in percentile(s, p)
  PROVE  /\ Share(s, p) \in Nat /\ v \in Int
         /\ \/ v = s[Lower(s, p)] + Share(s, p) \div 1000
            \/ /\ Share(s, p) > 0 /\ Share(s, p) % 1000 = 0
               /\ v = s[Lower(s, p)] + Share(s, p) \div 1000 - 1
<1>1. /\ Lower(s, p) \in 1..(Len(s) - 1) /\ Remainder(s, p) \in 0..999
      /\ s[Lower(s, p)] \in Int /\ s[Lower(s, p) + 1] \in Int
      /\ s[Lower(s, p)] <= s[Lower(s, p) + 1]
  BY LowerType
<1> DEFINE gap == s[Lower(s, p) + 1] - s[Lower(s, p)]
<1>2. gap \in Nat
  BY <1>1
<1>3. Share(s, p) = Remainder(s, p) * gap
  BY DEF Share
<1> HIDE DEF gap
<1>4. Share(s, p) \in Nat
  <2> DEFINE r == Remainder(s, p)
  <2>1. r \in 0..999
    BY <1>1
  <2> HIDE DEF r
  <2>2. r * gap \in Nat
    BY <1>2, <2>1
  <2> QED  BY <1>3, <2>2 DEF r
<1>5. Len(s) \in Nat /\ Len(s) # 0
  BY DEF Ascending
<1>6. ~(Lower(s, p) >= Len(s))
  BY <1>1, <1>5
<1> DEFINE h == Share(s, p)
           q == h \div 1000
           a == s[Lower(s, p)]
<1>8. q \in Int /\ a \in Int
  BY <1>1, <1>4
<1>9. v = a + q \/ (h > 0 /\ h % 1000 = 0 /\ v = a + q - 1)
  <2>1. ~(p <= 0) /\ ~(p >= 1000)
    BY DEF Thousandths
  <2>2. ~(Len(s) = 0) /\ ~(Len(s) = 1 \/ p <= 0) /\ ~(p >= 1000 \/ Lower(s, p) >= Len(s))
    BY <1>5, <1>6, <2>1
  <2>3. percentile(s, p) =
          IF Len(s) = 0 THEN {0}
          ELSE IF Len(s) = 1 \/ p <= 0 THEN {s[1]}
          ELSE IF p >= 1000 \/ Lower(s, p) >= Len(s) THEN {s[Len(s)]}
          ELSE {s[Lower(s, p)] + k : k \in Truncated(Share(s, p))}
    BY DEF percentile, Lower, Remainder, Share
  <2>4. percentile(s, p) = {a + k : k \in Truncated(h)}
    BY <2>2, <2>3
  <2>5. PICK k \in Truncated(h) : v = a + k
    BY <2>4
  <2> HIDE DEF h, a, q
  <2>6. k = q \/ (h > 0 /\ h % 1000 = 0 /\ k = q - 1)
    BY DEF Truncated, q
  <2> QED  BY <1>8, <2>5, <2>6
<1>10. v \in Int
  <2> HIDE DEF h, q, a
  <2> QED  BY <1>8, <1>9
<1> QED  BY <1>4, <1>9, <1>10

(* Rounded down, but not by more than the unit. *)
LEMMA PercentileExact ==
  ASSUME NEW s, Ascending(s), Len(s) # 1, NEW p \in Thousandths, NEW v \in percentile(s, p)
  PROVE  /\ v \in Int
         /\ 1000 * v <= 1000 * s[Lower(s, p)] + Share(s, p)
         /\ 1000 * s[Lower(s, p)] + Share(s, p) - 1000 <= 1000 * v
         /\ s[Lower(s, p)] <= v /\ v <= s[Lower(s, p) + 1]
         /\ 1000 * v = 1000 * s[Lower(s, p)] + Share(s, p) => Share(s, p) % 1000 = 0
<1> DEFINE h == Share(s, p)
           q == h \div 1000
           m == h % 1000
           a == s[Lower(s, p)]
           b == s[Lower(s, p) + 1]
           r == Remainder(s, p)
<1>1. a \in Int /\ b \in Int /\ a <= b /\ r \in 0..999
  BY LowerType
<1>2. h \in Nat /\ v \in Int /\ (v = a + q \/ (h > 0 /\ m = 0 /\ v = a + q - 1))
  BY PercentileMeans
<1>3. h = r * (b - a)
  BY DEF Share
<1> HIDE DEF a, b, r, h
<1>4. h = 1000 * q + m /\ q \in Int /\ m \in 0..999
  BY <1>2
<1> HIDE DEF q, m
<1>5. h <= 1000 * (b - a)
  <2>1. (1000 - r) * (b - a) >= 0 /\ (1000 - r) * (b - a) = 1000 * (b - a) - r * (b - a)
    <3>1. 1000 - r \in Nat /\ b - a \in Nat
      BY <1>1
    <3> QED  BY <1>1, <3>1
  <2>2. r * (b - a) \in Int
    BY <1>1
  <2> QED  BY <1>1, <1>3, <2>1, <2>2
<1>6. 1000 * v <= 1000 * a + h /\ 1000 * a + h - 1000 <= 1000 * v
  BY <1>1, <1>2, <1>4
<1>7. a <= v /\ v <= b
  BY <1>1, <1>2, <1>4, <1>5
<1>8. 1000 * v = 1000 * a + h => m = 0
  BY <1>1, <1>2, <1>4
<1> QED  BY <1>2, <1>6, <1>7, <1>8 DEF h, m, a, b

(* Percentiles do not decrease. *)
LEMMA PercentilesGrow ==
  ASSUME NEW s, Ascending(s), NEW p \in Thousandths, NEW q \in Thousandths, p < q,
         NEW v \in percentile(s, p), NEW w \in percentile(s, q)
  PROVE  v <= w
<1>1. Len(s) \in Nat \ {0} /\ \A i \in 1..Len(s) : s[i] \in Int
  BY SortedType
<1>2. CASE Len(s) = 1
  <2>1. percentile(s, p) = {s[1]} /\ percentile(s, q) = {s[1]}
    BY <1>2 DEF percentile
  <2> QED  BY <1>1, <1>2, <2>1
<1>3. CASE Len(s) # 1
  <2> DEFINE n == Len(s)
             lp == Lower(s, p)
             lq == Lower(s, q)
             rp == Remainder(s, p)
             rq == Remainder(s, q)
  <2>1. /\ lp \in 1..(n - 1) /\ rp \in 0..999 /\ p * (n - 1) = 1000 * (lp - 1) + rp
        /\ lp + 1 \in 1..n /\ s[lp] \in Int /\ s[lp + 1] \in Int /\ s[lp] <= s[lp + 1]
    BY <1>3, LowerType
  <2>2. /\ lq \in 1..(n - 1) /\ rq \in 0..999 /\ q * (n - 1) = 1000 * (lq - 1) + rq
        /\ lq \in 1..n /\ s[lq] \in Int /\ s[lq + 1] \in Int /\ s[lq] <= s[lq + 1]
    BY <1>3, LowerType
  <2>3. /\ v \in Int /\ s[lp] <= v /\ v <= s[lp + 1]
        /\ 1000 * v <= 1000 * s[lp] + Share(s, p)
        /\ 1000 * v = 1000 * s[lp] + Share(s, p) => Share(s, p) % 1000 = 0
        /\ Share(s, p) \in Nat
    BY <1>3, PercentileExact, PercentileMeans
  <2>4. /\ w \in Int /\ s[lq] <= w
        /\ 1000 * s[lq] + Share(s, q) - 1000 <= 1000 * w
        /\ Share(s, q) \in Nat
    BY <1>3, PercentileExact, PercentileMeans
  <2>5. 1000 * (lp - 1) + rp < 1000 * (lq - 1) + rq
    <3>1. (q - p) * (n - 1) > 0 /\ (q - p) * (n - 1) = q * (n - 1) - p * (n - 1)
      <4>1. q - p \in Nat \ {0} /\ n - 1 \in Nat \ {0}
        BY <1>1, <1>3 DEF Thousandths
      <4>2. (q - p) * (n - 1) \in Nat \ {0}
        BY <4>1, ProductPositive
      <4> QED  BY <1>1, <4>2 DEF Thousandths
    <3>2. q * (n - 1) \in Int /\ p * (n - 1) \in Int
      BY <1>1 DEF Thousandths
    <3> QED  BY <2>1, <2>2, <3>1, <3>2
  <2> DEFINE hp == Share(s, p)
             hq == Share(s, q)
  <2>6. hp = rp * (s[lp + 1] - s[lp]) /\ hq = rq * (s[lq + 1] - s[lq])
    BY DEF Share
  <2> HIDE DEF lp, lq, rp, rq, hp, hq
  <2>7. CASE lp = lq
    <3> DEFINE gap == s[lp + 1] - s[lp]
               a == s[lp]
    <3>1. gap \in Nat /\ a \in Int
      BY <2>1
    <3>2. hp = rp * gap /\ hq = rq * gap /\ rp < rq
      <4>1. rp < rq
        BY <2>1, <2>2, <2>5, <2>7
      <4> QED  BY <2>6, <2>7, <4>1
    <3>3. /\ 1000 * v <= 1000 * a + hp /\ 1000 * a + hq - 1000 <= 1000 * w
          /\ hp \in Nat /\ hq \in Nat /\ a <= v /\ a <= w
      BY <2>3, <2>4, <2>7 DEF hp, hq
    <3> HIDE DEF gap, a
    <3>4. CASE gap = 0
      <4>1. hp = 0
        BY <2>1, <3>2, <3>4
      <4> QED  BY <2>3, <2>4, <3>1, <3>3, <4>1
    <3>5. CASE gap # 0
      <4>1. hp < hq
        <5>1. (rq - rp) * gap > 0 /\ (rq - rp) * gap = rq * gap - rp * gap
          <6>1. rq - rp \in Nat \ {0} /\ gap \in Nat \ {0}
            BY <2>1, <2>2, <3>1, <3>2, <3>5
          <6> QED  BY <2>1, <2>2, <6>1
        <5>2. rq * gap \in Int /\ rp * gap \in Int
          BY <2>1, <2>2, <3>1
        <5> QED  BY <3>2, <5>1, <5>2
      <4>2. 1000 * v < 1000 * w + 1000
        BY <2>3, <2>4, <3>1, <3>3, <4>1
      <4> QED  BY <2>3, <2>4, <4>2
    <3> QED  BY <3>4, <3>5
  <2>8. CASE lp # lq
    <3>0. lp \in 1..(n - 1) /\ lq \in 1..(n - 1) /\ n \in Nat /\ rp \in 0..999 /\ rq \in 0..999
      BY <1>1, <2>1, <2>2
    <3>1. lp + 1 <= lq
      BY <2>5, <2>8, <3>0
    <3>2. s[lp + 1] <= s[lq]
      BY <2>1, <2>2, <3>1 DEF Ascending
    <3>3. v <= s[lp + 1] /\ s[lq] <= w /\ v \in Int /\ w \in Int
      BY <2>3, <2>4
    <3>4. s[lp + 1] \in Int /\ s[lq] \in Int
      BY <2>1, <2>2
    <3> QED  BY <3>2, <3>3, <3>4
  <2> QED  BY <2>7, <2>8
<1> QED  BY <1>2, <1>3

(* Percentiles lie between the extremes. *)
LEMMA PercentileBetween ==
  ASSUME NEW s, Ascending(s), NEW p \in Thousandths, NEW v \in percentile(s, p)
  PROVE  v \in Int /\ s[1] <= v /\ v <= s[Len(s)]
<1>1. Len(s) \in Nat \ {0} /\ \A i \in 1..Len(s) : s[i] \in Int
  BY SortedType
<1>2. CASE Len(s) = 1
  <2>1. percentile(s, p) = {s[1]}
    BY <1>2 DEF percentile
  <2> QED  BY <1>1, <1>2, <2>1
<1>3. CASE Len(s) # 1
  <2> DEFINE l == Lower(s, p)
  <2>1. /\ l \in 1..Len(s) /\ l + 1 \in 1..Len(s) /\ s[l] \in Int /\ s[l + 1] \in Int
    BY <1>3, LowerType
  <2>2. v \in Int /\ s[l] <= v /\ v <= s[l + 1]
    BY <1>3, PercentileExact
  <2> HIDE DEF l
  <2>3. 1 \in 1..Len(s) /\ Len(s) \in 1..Len(s) /\ 1 <= l /\ l + 1 <= Len(s)
    BY <1>1, <2>1
  <2>4. s[1] <= s[l] /\ s[l + 1] <= s[Len(s)]
    BY <2>1, <2>3 DEF Ascending
  <2>5. s[1] \in Int /\ s[Len(s)] \in Int
    BY <1>1, <2>3
  <2> QED  BY <2>1, <2>2, <2>4, <2>5
<1> QED  BY <1>2, <1>3

-----------------------------------------------------------------------------
(***************************************************************************)
(* The summary.                                                            *)
(***************************************************************************)
LEMMA StatsOf ==
  ASSUME NEW d \in Seq(Durations), Len(d) # 0, NEW s \in computeStats(d)
  PROVE  /\ Ascending(InOrder(d)) /\ Len(InOrder(d)) = Len(d)
         /\ s.Min = InOrder(d)[1] /\ s.Max = InOrder(d)[Len(d)]
         /\ s.Mean = MeanOf(InOrder(d)) /\ s.StdDev = StdDevOf(InOrder(d), MeanOf(InOrder(d)))
         /\ s.P50 \in percentile(InOrder(d), 500) /\ s.P90 \in percentile(InOrder(d), 900)
         /\ s.P95 \in percentile(InOrder(d), 950) /\ s.P99 \in percentile(InOrder(d), 990)
         /\ s.P999 \in percentile(InOrder(d), 999)
<1>1. Ascending(InOrder(d)) /\ Len(InOrder(d)) = Len(d)
  BY SortedDurations DEF Ascending
<1> QED  BY <1>1 DEF computeStats

(* The percentiles are in their order, between the extremes. *)
LEMMA PercentilesOrdered ==
  ASSUME NEW d \in Seq(Durations), NEW s \in computeStats(d)
  PROVE  /\ s.Min <= s.P50 /\ s.P50 <= s.P90 /\ s.P90 <= s.P95 /\ s.P95 <= s.P99
         /\ s.P99 <= s.P999 /\ s.P999 <= s.Max
<1>1. CASE Len(d) = 0
  <2>1. s = NoStats
    BY <1>1 DEF computeStats
  <2> QED  BY <2>1 DEF NoStats
<1>2. CASE Len(d) # 0
  <2> DEFINE t == InOrder(d)
  <2>1. /\ Ascending(t) /\ s.Min = t[1] /\ s.Max = t[Len(t)]
        /\ s.P50 \in percentile(t, 500) /\ s.P90 \in percentile(t, 900)
        /\ s.P95 \in percentile(t, 950) /\ s.P99 \in percentile(t, 990)
        /\ s.P999 \in percentile(t, 999)
    BY <1>2, StatsOf
  <2> HIDE DEF t
  <2>2. 500 \in Thousandths /\ 900 \in Thousandths /\ 950 \in Thousandths
        /\ 990 \in Thousandths /\ 999 \in Thousandths
    BY DEF Thousandths
  <2>3. t[1] <= s.P50
    BY <2>1, <2>2, PercentileBetween
  <2>4. s.P50 <= s.P90
    BY <2>1, <2>2, PercentilesGrow
  <2>5. s.P90 <= s.P95
    BY <2>1, <2>2, PercentilesGrow
  <2>6. s.P95 <= s.P99
    BY <2>1, <2>2, PercentilesGrow
  <2>7. s.P99 <= s.P999
    BY <2>1, <2>2, PercentilesGrow
  <2>8. s.P999 <= t[Len(t)]
    BY <2>1, <2>2, PercentileBetween
  <2> QED  BY <2>1, <2>3, <2>4, <2>5, <2>6, <2>7, <2>8
<1> QED  BY <1>1, <1>2

(* Unless the sum wrapped, the mean is between the extremes, the deviation within them. *)
LEMMA MeanAndDeviation ==
  ASSUME NEW d \in Seq(Durations), NEW s \in computeStats(d), Total(d) < Half
  PROVE  s.Min <= s.Mean /\ s.Mean <= s.Max /\ s.StdDev <= s.Max - s.Min
<1>1. CASE Len(d) = 0
  <2>1. s = NoStats
    BY <1>1 DEF computeStats
  <2> QED  BY <2>1 DEF NoStats
<1>2. CASE Len(d) # 0
  <2> DEFINE t == InOrder(d)
             m == MeanOf(t)
  <2>1. /\ s.Min = t[1] /\ s.Max = t[Len(t)] /\ s.Mean = m /\ s.StdDev = StdDevOf(t, m)
        /\ Len(t) = Len(d)
    BY <1>2, StatsOf
  <2>2. m \in Int /\ t[1] <= m /\ m <= t[Len(t)]
    BY <1>2, <2>1, MeanBetween
  <2>3. t \in Seq(Durations) /\ Len(t) # 0 /\ \A i, j \in 1..Len(t) : i <= j => t[i] <= t[j]
    BY <1>2, <2>1, SortedDurations
  <2> HIDE DEF t, m
  <2>4. StdDevOf(t, m) <= t[Len(t)] - t[1]
    BY <2>2, <2>3, DeviationWithin
  <2> QED  BY <2>1, <2>2, <2>4
<1> QED  BY <1>1, <1>2

=============================================================================
