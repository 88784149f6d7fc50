--------------------------- MODULE ErrorClassProofs ---------------------------
(***************************************************************************)
(* What summarize and classify return, for a text of any length: the       *)
(* variations of a text that its cause does not tell apart have one        *)
(* summary.  The induction over an interval is that of LatencyProofs.      *)
(***************************************************************************)
EXTENDS ErrorClass, LatencyProofs, SequenceTheorems

-----------------------------------------------------------------------------
(***************************************************************************)
(* Squeeze, rune by rune.                                                  *)
(***************************************************************************)
(* What is left of the first n runes, from what is left of those before. *)
Left(s, rune, one, n, before) ==
  IF s[n] # rune THEN Append(before, s[n])
  ELSE IF n > 1 /\ s[n - 1] = rune THEN before
  ELSE Append(before, one)

Squeezing(A, s, rune, one, f) ==
  /\ f \in [0..Len(s) -> Seq(A)] /\ f[0] = <<>>
  /\ \A k \in 1..Len(s) : f[k] = Left(s, rune, one, k, f[k - 1])

LEMMA SqueezeUnfolds ==
  ASSUME NEW A, NEW s \in Seq(A), NEW rune, NEW one \in A
  PROVE  \E f : Squeezing(A, s, rune, one, f) /\ Squeeze(s, rune, one) = f[Len(s)]
<1> DEFINE n == Len(s)
           B == Seq(A)
           Unfolds(f) == f = [ k \in 0..n |->
                                 IF k = 0 THEN <<>>
                                 ELSE IF s[k] # rune THEN Append(f[k - 1], s[k])
                                 ELSE IF k > 1 /\ s[k - 1] = rune THEN f[k - 1]
                                 ELSE Append(f[k - 1], one) ]
           step == [p \in (1..n) \X B |-> Left(s, rune, one, p[1], p[2])]
           c == CHOOSE g : Unfolds(g)
<1>1. n \in Nat /\ (\A k \in 1..n : s[k] \in A) /\ <<>> \in B
  OBVIOUS
<1>2. ASSUME NEW k \in 1..n, NEW b \in B PROVE Left(s, rune, one, k, b) \in B
  <2>1. Append(b, s[k]) \in B /\ Append(b, one) \in B
    <3>1. b \in Seq(A) /\ s[k] \in A /\ one \in A
      BY <1>1
    <3> HIDE DEF n, step, c, Unfolds
    <3>2. Append(b, s[k]) \in Seq(A)
      BY <3>1
    <3>3. Append(b, one) \in Seq(A)
      BY <3>1
    <3> QED  BY <3>2, <3>3
  <2> HIDE DEF B
  <2> QED  BY <2>1 DEF Left
<1>3. StepIn(B, n, step)
  <2>1. \A p \in (1..n) \X B : Left(s, rune, one, p[1], p[2]) \in B
    <3> HIDE DEF B, n
    <3> QED  BY <1>2
  <2> QED  BY <2>1 DEF StepIn
<1>4. PICK f : Trace(B, n, <<>>, step, f)
  <2> DEFINE empty == <<>>
  <2>1. n \in Nat /\ empty \in B
    BY <1>1
  <2> HIDE DEF step, n, B, empty
  <2>2. \E f : Trace(B, n, empty, step, f)
    BY <1>3, <2>1, Recursion
  <2> QED  BY <2>2 DEF empty
<1>5. f \in [0..n -> B] /\ f[0] = <<>> /\ \A k \in 1..n : f[k] = step[<<k, f[k - 1]>>]
  BY <1>4 DEF Trace
<1>6. ASSUME NEW k \in 1..n PROVE f[k] = Left(s, rune, one, k, f[k - 1])
  <2>1. k - 1 \in 0..n /\ f[k - 1] \in B
    BY <1>1, <1>5
  <2>2. step[<<k, f[k - 1]>>] = Left(s, rune, one, k, f[k - 1])
    BY <2>1
  <2> QED  BY <1>5, <2>2
<1>7. Unfolds(f)
  <2>1. ASSUME NEW k \in 0..n
        PROVE  f[k] = IF k = 0 THEN <<>>
                      ELSE IF s[k] # rune THEN Append(f[k - 1], s[k])
                      ELSE IF k > 1 /\ s[k - 1] = rune THEN f[k - 1]
                      ELSE Append(f[k - 1], one)
    <3>1. CASE k = 0
      BY <1>5, <3>1
    <3>2. CASE k # 0
      <4>1. f[k] = Left(s, rune, one, k, f[k - 1])
        <5>1. k \in 1..n
          BY <1>1, <3>2
        <5> QED  BY <1>6, <5>1
      <4> HIDE DEF n, B
      <4> QED  BY <3>2, <4>1 DEF Left
    <3> QED  BY <3>1, <3>2
  <2>2. f = [k \in 0..n |-> f[k]]
    BY <1>5
  <2> QED  BY <2>1, <2>2
<1>8. Unfolds(c)
  <2> HIDE DEF Unfolds
  <2> QED  BY <1>7
<1>9. Squeeze(s, rune, one) = c[n]
  BY DEF Squeeze
<1> HIDE DEF c
<1>10. c[0] = <<>>
  <2>1. 0 \in 0..n
    BY <1>1
  <2> QED  BY <1>8, <2>1
<1>11. ASSUME NEW k \in 1..n PROVE c[k] = Left(s, rune, one, k, c[k - 1])
  <2>1. k \in 0..n /\ k # 0
    BY <1>1
  <2>2. c[k] = IF k = 0 THEN <<>>
               ELSE IF s[k] # rune THEN Append(c[k - 1], s[k])
               ELSE IF k > 1 /\ s[k - 1] = rune THEN c[k - 1]
               ELSE Append(c[k - 1], one)
    BY <1>8, <2>1
  <2> HIDE DEF n, B, Unfolds
  <2> QED  BY <2>1, <2>2 DEF Left
<1> DEFINE T == {k \in 0..n : c[k] = f[k]}
<1>12. 0 \in T
  <2>1. c[0] = f[0] /\ 0 \in 0..n
    BY <1>1, <1>5, <1>10
  <2> QED  BY <2>1
<1>13. ASSUME NEW k \in 0..(n - 1), k \in T PROVE k + 1 \in T
  <2> DEFINE m == k + 1
  <2>1. m \in 1..n /\ m - 1 = k /\ m \in 0..n /\ c[k] = f[k]
    BY <1>1, <1>13
  <2> HIDE DEF m
  <2>2. c[m] = Left(s, rune, one, m, c[m - 1])
    BY <1>11, <2>1
  <2>3. f[m] = Left(s, rune, one, m, f[m - 1])
    BY <1>6, <2>1
  <2>4. c[m] = f[m]
    BY <2>1, <2>2, <2>3
  <2> QED  BY <2>1, <2>4 DEF m
<1>14. \A k \in 0..n : k \in T
  <2> HIDE DEF T
  <2> QED  BY <1>1, <1>12, <1>13, UpTo
<1>15. c[n] = f[n]
  BY <1>1, <1>14
<1>16. Squeezing(A, s, rune, one, f)
  BY <1>5, <1>6 DEF Squeezing
<1> QED  BY <1>9, <1>15, <1>16

LEMMA SqueezeType ==
  ASSUME NEW A, NEW s \in Seq(A), NEW rune, NEW one \in A
  PROVE  Squeeze(s, rune, one) \in Seq(A)
<1>1. PICK f : Squeezing(A, s, rune, one, f) /\ Squeeze(s, rune, one) = f[Len(s)]
  BY SqueezeUnfolds
<1>2. Len(s) \in 0..Len(s)
  OBVIOUS
<1> QED  BY <1>1, <1>2 DEF Squeezing

LEMMA SqueezeAt ==
  ASSUME NEW A, NEW s \in Seq(A), NEW rune, NEW one \in A, NEW f, Squeezing(A, s, rune, one, f),
         NEW k \in 0..(Len(s) - 1)
  PROVE  /\ f[k] \in Seq(A) /\ f[k + 1] \in Seq(A) /\ s[k + 1] \in A
         /\ f[k + 1] = Left(s, rune, one, k + 1, f[k])
<1> DEFINE m == k + 1
<1>1. m \in 1..Len(s) /\ m - 1 = k /\ k \in 0..Len(s) /\ m \in 0..Len(s) /\ s[m] \in A
  OBVIOUS
<1> HIDE DEF m
<1>2. f[m] = Left(s, rune, one, m, f[m - 1])
  BY <1>1 DEF Squeezing
<1>3. f[k] \in Seq(A) /\ f[m] \in Seq(A)
  BY <1>1 DEF Squeezing
<1>4. f[m] = Left(s, rune, one, m, f[k])
  BY <1>1, <1>2
<1> QED  BY <1>1, <1>3, <1>4 DEF m

-----------------------------------------------------------------------------
(***************************************************************************)
(* A text in which the rune at k is there twice.                           *)
(***************************************************************************)
Doubled(a, b, k) ==
  /\ k \in 1..Len(a) /\ Len(b) = Len(a) + 1
  /\ \A i \in 1..Len(a) : /\ i <= k => b[i] = a[i]
                          /\ i >= k => b[i + 1] = a[i]

(* Somewhere x is there twice. *)
Twice(a, b, x) == \E q : Doubled(a, b, q) /\ a[q] = x

LEMMA InsertDoubles ==
  ASSUME NEW A, NEW a \in Seq(A), NEW k \in 1..Len(a)
  PROVE  Doubled(a, InsertAt(a, k, a[k]), k) /\ InsertAt(a, k, a[k]) \in Seq(A)
<1> DEFINE front == SubSeq(a, 1, k - 1)
           back == SubSeq(a, k, Len(a))
           mid == <<a[k]>>
           b == (front \o mid) \o back
<1>1. Len(a) \in Nat /\ \A i \in 1..Len(a) : a[i] \in A
  OBVIOUS
<1>2. /\ front \in Seq(A) /\ Len(front) = k - 1 /\ \A i \in 1..(k - 1) : front[i] = a[i]
  <2>1. 1 \in Int /\ k - 1 \in Int /\ \A i \in 1..(k - 1) : a[i] \in A
    BY <1>1
  <2>2. /\ front \in Seq(A)
        /\ Len(front) = IF 1 <= k - 1 THEN k - 1 - 1 + 1 ELSE 0
        /\ \A i \in 1..(k - 1 - 1 + 1) : front[i] = a[1 + i - 1]
    BY <2>1, SubSeqProperties
  <2> QED  BY <1>1, <2>2
<1>3. /\ back \in Seq(A) /\ Len(back) = Len(a) - k + 1
      /\ \A i \in 1..(Len(a) - k + 1) : back[i] = a[k + i - 1]
  <2>1. k \in Int /\ Len(a) \in Int /\ \A i \in k..Len(a) : a[i] \in A
    BY <1>1
  <2>2. /\ back \in Seq(A)
        /\ Len(back) = IF k <= Len(a) THEN Len(a) - k + 1 ELSE 0
        /\ \A i \in 1..(Len(a) - k + 1) : back[i] = a[k + i - 1]
    BY <2>1, SubSeqProperties
  <2> QED  BY <1>1, <2>2
<1>4. mid \in Seq(A) /\ Len(mid) = 1 /\ mid[1] = a[k]
  BY <1>1
<1> HIDE DEF front, back, mid
<1>5. /\ front \o mid \in Seq(A) /\ Len(front \o mid) = k
      /\ \A i \in 1..k : (front \o mid)[i] = a[i]
  <2>1. /\ front \o mid \in Seq(A) /\ Len(front \o mid) = Len(front) + Len(mid)
        /\ \A i \in 1..(Len(front) + Len(mid)) :
             (front \o mid)[i] = IF i <= Len(front) THEN front[i] ELSE mid[i - Len(front)]
    BY <1>2, <1>4, ConcatProperties
  <2>2. Len(front) + Len(mid) = k
    BY <1>1, <1>2, <1>4
  <2>3. ASSUME NEW i \in 1..k PROVE (front \o mid)[i] = a[i]
    <3>1. CASE i <= k - 1
      BY <1>2, <2>1, <2>2, <3>1
    <3>2. CASE i = k
      <4>1. ~(i <= Len(front)) /\ i - Len(front) = 1
        BY <1>1, <1>2, <3>2
      <4>2. (front \o mid)[i] = mid[i - Len(front)]
        BY <2>1, <2>2, <4>1
      <4> QED  BY <1>4, <3>2, <4>1, <4>2
    <3>3. i <= k - 1 \/ i = k
      BY <1>1
    <3> QED  BY <3>1, <3>2, <3>3
  <2> QED  BY <2>1, <2>2, <2>3
<1>6. /\ b \in Seq(A) /\ Len(b) = Len(a) + 1
      /\ \A i \in 1..(Len(a) + 1) : b[i] = IF i <= k THEN (front \o mid)[i] ELSE back[i - k]
  <2> DEFINE fm == front \o mid
  <2>1. fm \in Seq(A) /\ Len(fm) = k
    BY <1>5
  <2> HIDE DEF fm
  <2>2. /\ fm \o back \in Seq(A) /\ Len(fm \o back) = Len(fm) + Len(back)
        /\ \A i \in 1..(Len(fm) + Len(back)) :
             (fm \o back)[i] = IF i <= Len(fm) THEN fm[i] ELSE back[i - Len(fm)]
    BY <1>3, <2>1, ConcatProperties
  <2>3. Len(fm) + Len(back) = Len(a) + 1
    BY <1>1, <1>3, <2>1
  <2> QED  BY <2>1, <2>2, <2>3 DEF fm
<1>7. b = InsertAt(a, k, a[k])
  BY DEF InsertAt, front, mid, back
<1> HIDE DEF b
<1>8. ASSUME NEW i \in 1..Len(a) PROVE (i <= k => b[i] = a[i]) /\ (i >= k => b[i + 1] = a[i])
  <2>1. ASSUME i <= k PROVE b[i] = a[i]
    <3>1. i \in 1..k /\ i \in 1..(Len(a) + 1)
      BY <1>1, <2>1
    <3>2. b[i] = (front \o mid)[i]
      BY <1>6, <2>1, <3>1
    <3>3. (front \o mid)[i] = a[i]
      BY <1>5, <3>1
    <3> QED  BY <3>2, <3>3
  <2>2. ASSUME i >= k PROVE b[i + 1] = a[i]
    <3>1. i + 1 \in 1..(Len(a) + 1) /\ ~(i + 1 <= k) /\ i + 1 - k \in 1..(Len(a) - k + 1)
          /\ k + (i + 1 - k) - 1 = i
      BY <1>1, <2>2
    <3>2. b[i + 1] = back[i + 1 - k]
      BY <1>6, <3>1
    <3>3. back[i + 1 - k] = a[k + (i + 1 - k) - 1]
      BY <1>3, <3>1
    <3> QED  BY <3>1, <3>2, <3>3
  <2> QED  BY <2>1, <2>2
<1> QED  BY <1>6, <1>7, <1>8 DEF Doubled

(* A rune that is squeezed leaves no trace of how often it was there. *)
LEMMA SqueezeDoubledRune ==
  ASSUME NEW A, NEW a \in Seq(A), NEW b \in Seq(A), NEW k, Doubled(a, b, k),
         NEW rune, a[k] = rune, NEW one \in A
  PROVE  Squeeze(a, rune, one) = Squeeze(b, rune, one)
<1> DEFINE n == Len(a)
<1>1. PICK f : Squeezing(A, a, rune, one, f) /\ Squeeze(a, rune, one) = f[n]
  BY SqueezeUnfolds
<1>2. PICK g : Squeezing(A, b, rune, one, g) /\ Squeeze(b, rune, one) = g[Len(b)]
  BY SqueezeUnfolds
<1>3. n \in Nat /\ k \in 1..n /\ Len(b) = n + 1
  BY DEF Doubled
<1> DEFINE Same(i) == (i < k => g[i] = f[i]) /\ (i >= k => g[i + 1] = f[i])
           T == {i \in 0..n : Same(i)}
<1> HIDE DEF n
<1>4. 0 \in T
  <2>1. f[0] = <<>> /\ g[0] = <<>>
    BY <1>1, <1>2 DEF Squeezing
  <2> QED  BY <1>3, <2>1
<1>5. ASSUME NEW i \in 0..(n - 1), i \in T PROVE i + 1 \in T
  <2> DEFINE m == i + 1
  <2>1. m \in 0..n /\ m \in 1..n /\ m - 1 = i /\ m + 1 - 1 = m
    BY <1>3
  <2>2. f[m] = Left(a, rune, one, m, f[i])
    BY <1>1, SqueezeAt DEF n
  <2>3. i \in 0..(Len(b) - 1) /\ m \in 0..(Len(b) - 1)
    BY <1>3
  <2>4. g[m] = Left(b, rune, one, m, g[i])
    BY <1>2, <2>3, SqueezeAt
  <2>5. g[m + 1] = Left(b, rune, one, m + 1, g[m])
    <3> HIDE DEF m
    <3> QED  BY <1>2, <2>3, SqueezeAt
  <2>6. \A j \in 1..n : (j <= k => b[j] = a[j]) /\ (j >= k => b[j + 1] = a[j])
    BY DEF Doubled, n
  <2>7. m <= k => g[m] = f[m]
    <3> SUFFICES ASSUME m <= k PROVE g[m] = f[m]
      OBVIOUS
    <3>1. g[i] = f[i]
      BY <1>3, <1>5
    <3>2. b[m] = a[m] /\ (m > 1 => b[m - 1] = a[m - 1])
      BY <1>3, <2>1, <2>6
    <3> HIDE DEF m
    <3> QED  BY <2>2, <2>4, <3>1, <3>2 DEF Left
  <2>8. m = k => g[m + 1] = f[m]
    <3> SUFFICES ASSUME m = k PROVE g[m + 1] = f[m]
      OBVIOUS
    <3>1. b[m + 1] = rune /\ b[m] = rune /\ m + 1 > 1 /\ g[m] = f[m]
      BY <1>3, <2>1, <2>6, <2>7
    <3>2. g[m + 1] = g[m]
      <4> HIDE DEF m
      <4> QED  BY <2>1, <2>5, <3>1 DEF Left
    <3> QED  BY <3>1, <3>2
  <2>9. m > k => g[m + 1] = f[m]
    <3> SUFFICES ASSUME m > k PROVE g[m + 1] = f[m]
      OBVIOUS
    <3>1. g[m] = f[i]
      BY <1>3, <1>5
    <3>2. b[m + 1] = a[m] /\ b[m] = a[m - 1] /\ m > 1 /\ m + 1 > 1
      <4>0. m \in 1..n /\ m >= k /\ m > 1 /\ m + 1 > 1
        BY <1>3, <2>1
      <4>1. b[m + 1] = a[m] /\ m > 1 /\ m + 1 > 1
        <5> HIDE DEF m
        <5> QED  BY <2>6, <4>0
      <4>2. i \in 1..n /\ i >= k
        BY <1>3
      <4>3. b[i + 1] = a[i]
        BY <2>6, <4>2
      <4> QED  BY <2>1, <4>1, <4>3
    <3> HIDE DEF m
    <3> QED  BY <2>1, <2>2, <2>5, <3>1, <3>2 DEF Left
  <2>10. Same(m)
    <3> HIDE DEF m
    <3> QED  BY <1>3, <2>1, <2>7, <2>8, <2>9
  <2> QED  BY <2>1, <2>10
<1>6. \A i \in 0..n : i \in T
  <2> HIDE DEF T
  <2> QED  BY <1>3, <1>4, <1>5, UpTo
<1>7. g[n + 1] = f[n]
  <2>1. n \in 0..n /\ n >= k
    BY <1>3
  <2>2. n \in T
    BY <1>6, <2>1
  <2> QED  BY <2>1, <2>2
<1> QED  BY <1>1, <1>2, <1>3, <1>7

(* The same rune at the end of both. *)
LEMMA DoubledAppend ==
  ASSUME NEW A, NEW a \in Seq(A), NEW b \in Seq(A), NEW k, Doubled(a, b, k), NEW x \in A
  PROVE  Doubled(Append(a, x), Append(b, x), k) /\ Append(a, x)[k] = a[k]
<1> DEFINE c == Append(a, x)
           d == Append(b, x)
<1>1. /\ Len(a) \in Nat /\ k \in 1..Len(a) /\ Len(b) = Len(a) + 1
      /\ \A i \in 1..Len(a) : (i <= k => b[i] = a[i]) /\ (i >= k => b[i + 1] = a[i])
  BY DEF Doubled
<1>2. /\ Len(c) = Len(a) + 1 /\ c[Len(a) + 1] = x /\ \A i \in 1..Len(a) : c[i] = a[i]
  OBVIOUS
<1>3. /\ Len(d) = Len(b) + 1 /\ d[Len(b) + 1] = x /\ \A i \in 1..Len(b) : d[i] = b[i]
  OBVIOUS
<1> HIDE DEF c, d
<1>4. ASSUME NEW i \in 1..Len(c) PROVE (i <= k => d[i] = c[i]) /\ (i >= k => d[i + 1] = c[i])
  <2>1. CASE i = Len(a) + 1
    BY <1>1, <1>2, <1>3, <2>1
  <2>2. CASE i \in 1..Len(a)
    <3> DEFINE j == i + 1
    <3>1. i \in 1..Len(b) /\ j \in 1..Len(b)
      BY <1>1, <2>2
    <3>2. c[i] = a[i] /\ d[i] = b[i] /\ d[j] = b[j]
      <4> HIDE DEF j
      <4> QED  BY <1>2, <1>3, <2>2, <3>1
    <3> QED  BY <1>1, <2>2, <3>2
  <2> QED  BY <1>1, <1>2, <2>1, <2>2
<1>5. Doubled(c, d, k) /\ c[k] = a[k]
  BY <1>1, <1>2, <1>3, <1>4 DEF Doubled
<1> QED  BY <1>5 DEF c, d

(* Any other rune stays, twice. *)
LEMMA SqueezeDoubledOther ==
  ASSUME NEW A, NEW a \in Seq(A), NEW b \in Seq(A), NEW k, Doubled(a, b, k),
         NEW rune, a[k] # rune, NEW one \in A
  PROVE  \E q : /\ Doubled(Squeeze(a, rune, one), Squeeze(b, rune, one), q)
                /\ Squeeze(a, rune, one)[q] = a[k]
<1> DEFINE n == Len(a)
<1>1. PICK f : Squeezing(A, a, rune, one, f) /\ Squeeze(a, rune, one) = f[n]
  BY SqueezeUnfolds
<1>2. PICK g : Squeezing(A, b, rune, one, g) /\ Squeeze(b, rune, one) = g[Len(b)]
  BY SqueezeUnfolds
<1>3. n \in Nat /\ k \in 1..n /\ Len(b) = n + 1 /\ a[k] \in A
  BY DEF Doubled
<1> DEFINE q == Len(f[k])
           Same(i) == (i < k => g[i] = f[i]) /\ (i >= k => Doubled(f[i], g[i + 1], q) /\ f[i][q] = a[k])
           T == {i \in 0..n : Same(i)}
<1> HIDE DEF n
<1>4. 0 \in T
  <2>1. f[0] = <<>> /\ g[0] = <<>>
    BY <1>1, <1>2 DEF Squeezing
  <2>2. 0 < k /\ ~(0 >= k) /\ 0 \in 0..n
    BY <1>3
  <2> HIDE DEF q
  <2> QED  BY <2>1, <2>2
<1>5. ASSUME NEW i \in 0..(n - 1), i \in T PROVE i + 1 \in T
  <2> DEFINE m == i + 1
  <2>1. m \in 0..n /\ m \in 1..n /\ m - 1 = i /\ m + 1 - 1 = m
    BY <1>3
  <2>2. f[m] = Left(a, rune, one, m, f[i]) /\ f[i] \in Seq(A) /\ f[m] \in Seq(A) /\ a[m] \in A
    BY <1>1, SqueezeAt DEF n
  <2>3. i \in 0..(Len(b) - 1) /\ m \in 0..(Len(b) - 1)
    BY <1>3
  <2>4. g[m] = Left(b, rune, one, m, g[i]) /\ g[i] \in Seq(A) /\ g[m] \in Seq(A)
    BY <1>2, <2>3, SqueezeAt
  <2>5. g[m + 1] = Left(b, rune, one, m + 1, g[m])
    <3> HIDE DEF m
    <3> QED  BY <1>2, <2>3, SqueezeAt
  <2>6. \A j \in 1..n : (j <= k => b[j] = a[j]) /\ (j >= k => b[j + 1] = a[j])
    BY DEF Doubled, n
  <2>7. m <= k => g[m] = f[m]
    <3> SUFFICES ASSUME m <= k PROVE g[m] = f[m]
      OBVIOUS
    <3>1. g[i] = f[i]
      BY <1>3, <1>5
    <3>2. b[m] = a[m] /\ (m > 1 => b[m - 1] = a[m - 1])
      BY <1>3, <2>1, <2>6
    <3> HIDE DEF m
    <3> QED  BY <2>2, <2>4, <3>1, <3>2 DEF Left
  <2>8. m = k => Doubled(f[m], g[m + 1], q) /\ f[m][q] = a[k]
    <3> SUFFICES ASSUME m = k PROVE Doubled(f[m], g[m + 1], q) /\ f[m][q] = a[k]
      OBVIOUS
    <3> DEFINE x == a[k]
               s == f[i]
               t == f[m]
               u == g[m + 1]
    <3>1. b[m + 1] = x /\ g[m] = t /\ x # rune /\ x \in A
      BY <1>3, <2>1, <2>6, <2>7
    <3>2. t = Append(s, x) /\ s \in Seq(A) /\ t \in Seq(A)
      <4> HIDE DEF m
      <4> QED  BY <2>2, <3>1 DEF Left
    <3>3. u = Append(t, x)
      <4> HIDE DEF m
      <4> QED  BY <2>5, <3>1 DEF Left
    <3>4. q = Len(t)
      OBVIOUS
    <3> HIDE DEF x, s, t, u, q
    <3>5. Len(t) = Len(s) + 1 /\ t[Len(t)] = x /\ Len(u) = Len(t) + 1 /\ u[Len(t) + 1] = x
          /\ (\A j \in 1..Len(t) : u[j] = t[j]) /\ Len(t) \in Nat /\ Len(s) \in Nat
      BY <3>1, <3>2, <3>3
    <3>6. q \in 1..Len(t) /\ \A j \in 1..Len(t) : j >= q => j = Len(t)
      BY <3>4, <3>5
    <3>7. Doubled(t, u, q) /\ t[q] = x
      BY <3>4, <3>5, <3>6 DEF Doubled
    <3> QED  BY <3>7 DEF x, t, u
  <2>9. m > k => Doubled(f[m], g[m + 1], q) /\ f[m][q] = a[k]
    <3> SUFFICES ASSUME m > k PROVE Doubled(f[m], g[m + 1], q) /\ f[m][q] = a[k]
      OBVIOUS
    <3> HIDE DEF q
    <3>1. Doubled(f[i], g[m], q) /\ f[i][q] = a[k]
      BY <1>3, <1>5
    <3>2. b[m + 1] = a[m] /\ b[m] = a[m - 1] /\ m > 1 /\ m + 1 > 1
      <4>0. m \in 1..n /\ m >= k /\ m > 1 /\ m + 1 > 1
        BY <1>3, <2>1
      <4>1. b[m + 1] = a[m] /\ m > 1 /\ m + 1 > 1
        <5> HIDE DEF m
        <5> QED  BY <2>6, <4>0
      <4>2. i \in 1..n /\ i >= k
        BY <1>3
      <4>3. b[i + 1] = a[i]
        BY <2>6, <4>2
      <4> QED  BY <2>1, <4>1, <4>3
    <3> HIDE DEF m
    <3>3. \/ f[m] = f[i] /\ g[m + 1] = g[m]
          \/ \E x \in A : f[m] = Append(f[i], x) /\ g[m + 1] = Append(g[m], x)
      <4>1. f[m] = Left(a, rune, one, m, f[i]) /\ g[m + 1] = Left(b, rune, one, m + 1, g[m])
        BY <2>2, <2>5
      <4>2. (m + 1) - 1 = m
        BY <2>1
      <4>3. CASE a[m] # rune
        BY <2>2, <3>2, <4>1, <4>3 DEF Left
      <4>4. CASE a[m] = rune /\ a[m - 1] = rune
        BY <3>2, <4>1, <4>2, <4>4 DEF Left
      <4>5. CASE a[m] = rune /\ a[m - 1] # rune
        BY <3>2, <4>1, <4>2, <4>5 DEF Left
      <4> QED  BY <4>3, <4>4, <4>5
    <3>4. CASE f[m] = f[i] /\ g[m + 1] = g[m]
      BY <3>1, <3>4
    <3>5. CASE \E x \in A : f[m] = Append(f[i], x) /\ g[m + 1] = Append(g[m], x)
      <4>1. PICK x \in A : f[m] = Append(f[i], x) /\ g[m + 1] = Append(g[m], x)
        BY <3>5
      <4> DEFINE s == f[i]
                 t == g[m]
      <4>2. s \in Seq(A) /\ t \in Seq(A) /\ Doubled(s, t, q)
        BY <2>2, <2>4, <3>1
      <4> HIDE DEF s, t
      <4>3. Doubled(Append(s, x), Append(t, x), q) /\ Append(s, x)[q] = s[q]
        BY <4>2, DoubledAppend, ZenonT(120)
      <4> QED  BY <3>1, <4>1, <4>3 DEF s, t
    <3> QED  BY <3>3, <3>4, <3>5
  <2>10. Same(m)
    <3> HIDE DEF m, q
    <3> QED  BY <1>3, <2>1, <2>7, <2>8, <2>9
  <2> QED  BY <2>1, <2>10
<1> HIDE DEF q
<1>6. \A i \in 0..n : i \in T
  <2> HIDE DEF T
  <2> QED  BY <1>3, <1>4, <1>5, UpTo
<1>7. Doubled(f[n], g[n + 1], q) /\ f[n][q] = a[k]
  <2>1. n \in 0..n /\ n >= k
    BY <1>3
  <2>2. n \in T
    BY <1>6, <2>1
  <2> QED  BY <2>1, <2>2
<1> QED  BY <1>1, <1>2, <1>3, <1>7

-----------------------------------------------------------------------------
(***************************************************************************)
(* The URL in front.                                                       *)
(***************************************************************************)
(* m is the place of the last mark of s, 0 if it has none. *)
LastMark(s, m) ==
  /\ m \in 0..Len(s) /\ (m = 0 \/ s[m] = "mark")
  /\ \A i \in 1..Len(s) : s[i] = "mark" => i <= m

LEMMA GreatestNumber ==
  ASSUME NEW n \in Nat, NEW T \in SUBSET (1..n), T # {}
  PROVE  Max(T) \in T /\ \A i \in T : i <= Max(T)
<1> DEFINE D == {n - i : i \in T}
<1>1. D \in SUBSET Nat /\ D # {}
  OBVIOUS
<1> HIDE DEF D
<1>2. PICK low \in D : \A j \in D : low <= j
  BY <1>1, LeastNumber
<1>3. PICK i \in T : low = n - i
  BY DEF D
<1>4. \A j \in T : i >= j
  <2> SUFFICES ASSUME NEW j \in T PROVE i >= j
    OBVIOUS
  <2>1. n - j \in D
    BY DEF D
  <2>2. n - i <= n - j
    BY <1>2, <1>3, <2>1
  <2>3. i \in 1..n /\ j \in 1..n
    OBVIOUS
  <2> QED  BY <2>2, <2>3
<1>5. Max(T) \in T /\ \A j \in T : Max(T) >= j
  BY <1>3, <1>4 DEF Max
<1>6. \A j \in T : j \in Int
  OBVIOUS
<1>7. \A j \in T : j <= Max(T)
  <2> DEFINE top == Max(T)
  <2> HIDE DEF top
  <2>1. top \in Int /\ \A j \in T : top >= j
    BY <1>5, <1>6 DEF top
  <2>2. \A j \in T : j <= top
    BY <1>6, <2>1
  <2> QED  BY <2>2 DEF top
<1> QED  BY <1>5, <1>7

LEMMA LastMarkIs ==
  ASSUME NEW A, NEW s \in Seq(A)
  PROVE  \E m : LastMark(s, m) /\ DropUrl(s) = SubSeq(s, m + 1, Len(s))
<1> DEFINE I == {i \in 1..Len(s) : s[i] = "mark"}
           m == IF I # {} THEN Max(I) ELSE 0
<1>1. DropUrl(s) = SubSeq(s, m + 1, Len(s))
  BY DEF DropUrl, SelectLastInSeq
<1>2. Len(s) \in Nat /\ I \in SUBSET (1..Len(s))
  OBVIOUS
<1>3. LastMark(s, m)
  <2>1. CASE I = {}
    <3>1. m = 0 /\ \A i \in 1..Len(s) : s[i] # "mark"
      BY <2>1
    <3> HIDE DEF m
    <3> QED  BY <1>2, <3>1 DEF LastMark
  <2>2. CASE I # {}
    <3>1. Max(I) \in I /\ \A i \in I : i <= Max(I)
      <4> HIDE DEF I
      <4> QED  BY <1>2, <2>2, GreatestNumber
    <3>2. m = Max(I)
      BY <2>2
    <3> HIDE DEF m
    <3> QED  BY <1>2, <3>1, <3>2 DEF LastMark
  <2> QED  BY <2>1, <2>2
<1> QED  BY <1>1, <1>3

LEMMA DropUrlIs ==
  ASSUME NEW A, NEW s \in Seq(A), NEW m, LastMark(s, m)
  PROVE  /\ DropUrl(s) \in Seq(A) /\ Len(DropUrl(s)) = Len(s) - m
         /\ \A i \in 1..(Len(s) - m) : DropUrl(s)[i] = s[m + i]
<1>1. PICK l : LastMark(s, l) /\ DropUrl(s) = SubSeq(s, l + 1, Len(s))
  BY LastMarkIs
<1>2. Len(s) \in Nat
  OBVIOUS
<1>3. l = m
  <2>1. l \in 0..Len(s) /\ m \in 0..Len(s)
    BY <1>1 DEF LastMark
  <2>2. (l = 0 \/ l <= m) /\ (m = 0 \/ m <= l)
    BY <1>1, <2>1 DEF LastMark
  <2> QED  BY <2>1, <2>2
<1>4. m \in 0..Len(s) /\ m + 1 \in Int /\ Len(s) \in Int /\ \A i \in (m + 1)..Len(s) : s[i] \in A
  BY <1>2 DEF LastMark
<1> DEFINE n == Len(s)
           from == m + 1
<1>5. DropUrl(s) = SubSeq(s, from, n)
  BY <1>1, <1>3
<1>6. from \in Int /\ n \in Int /\ \A i \in from..n : s[i] \in A
  BY <1>4
<1> HIDE DEF n, from
<1>7. /\ SubSeq(s, from, n) \in Seq(A)
      /\ Len(SubSeq(s, from, n)) = IF from <= n THEN n - from + 1 ELSE 0
      /\ \A i \in 1..(n - from + 1) : SubSeq(s, from, n)[i] = s[from + i - 1]
  BY <1>6, SubSeqProperties
<1>8. Len(DropUrl(s)) = n - m
  BY <1>4, <1>5, <1>7 DEF n, from
<1>9. ASSUME NEW i \in 1..(n - m) PROVE DropUrl(s)[i] = s[m + i]
  <2>1. i \in 1..(n - from + 1) /\ from + i - 1 = m + i
    BY <1>4, <1>9 DEF n, from
  <2> QED  BY <1>5, <1>7, <2>1
<1> QED  BY <1>5, <1>7, <1>8, <1>9 DEF n

(* A URL in front changes nothing. *)
LEMMA DropUrlOfPrefixed ==
  ASSUME NEW A, NEW b \in Seq(A), NEW k \in 1..Len(b), b[k] = "mark"
  PROVE  DropUrl(SubSeq(b, k + 1, Len(b))) = DropUrl(b)
<1> DEFINE n == Len(b)
           a == SubSeq(b, k + 1, n)
<1>1. n \in Nat /\ k \in 1..n /\ \A i \in 1..n : b[i] \in A
  OBVIOUS
<1>2. a \in Seq(A) /\ Len(a) = n - k /\ \A i \in 1..(n - k) : a[i] = b[k + i]
  <2> DEFINE from == k + 1
  <2>1. from \in Int /\ n \in Int /\ \A i \in from..n : b[i] \in A
    BY <1>1
  <2> HIDE DEF n, from
  <2>2. /\ SubSeq(b, from, n) \in Seq(A)
        /\ Len(SubSeq(b, from, n)) = IF from <= n THEN n - from + 1 ELSE 0
        /\ \A i \in 1..(n - from + 1) : SubSeq(b, from, n)[i] = b[from + i - 1]
    BY <2>1, SubSeqProperties
  <2>3. ASSUME NEW i \in 1..(n - k) PROVE SubSeq(b, from, n)[i] = b[k + i]
    <3>1. i \in 1..(n - from + 1) /\ from + i - 1 = k + i
      BY <1>1, <2>3 DEF from
    <3> QED  BY <2>2, <3>1
  <2>4. Len(SubSeq(b, from, n)) = n - k
    BY <1>1, <2>2 DEF from
  <2> QED  BY <2>2, <2>3, <2>4 DEF from
<1> HIDE DEF a, n
<1>3. PICK m : LastMark(b, m)
  BY LastMarkIs
<1>4. m \in k..n
  BY <1>1, <1>3 DEF LastMark, n
<1> DEFINE l == m - k
<1>5. LastMark(a, l)
  <2>1. l \in 0..Len(a)
    BY <1>1, <1>2, <1>4
  <2>2. l = 0 \/ a[l] = "mark"
    <3>1. CASE l = 0
      BY <3>1
    <3>2. CASE l # 0
      <4>1. l \in 1..(n - k) /\ k + l = m /\ m # 0
        BY <1>1, <1>4, <3>2
      <4>2. b[m] = "mark"
        BY <1>3, <4>1 DEF LastMark
      <4> HIDE DEF l
      <4> QED  BY <1>2, <4>1, <4>2
    <3> QED  BY <3>1, <3>2
  <2>3. ASSUME NEW i \in 1..Len(a), a[i] = "mark" PROVE i <= l
    <3> DEFINE j == k + i
    <3>1. j \in 1..n /\ b[j] = "mark"
      BY <1>1, <1>2, <2>3
    <3> HIDE DEF j
    <3>2. j <= m
      BY <1>3, <3>1 DEF LastMark, n
    <3> QED  BY <1>1, <1>4, <3>2 DEF j
  <2> QED  BY <2>1, <2>2, <2>3 DEF LastMark
<1>6. /\ DropUrl(b) \in Seq(A) /\ Len(DropUrl(b)) = n - m
      /\ \A i \in 1..(n - m) : DropUrl(b)[i] = b[m + i]
  BY <1>3, DropUrlIs DEF n
<1> HIDE DEF l
<1>7. /\ DropUrl(a) \in Seq(A) /\ Len(DropUrl(a)) = Len(a) - l
      /\ \A i \in 1..(Len(a) - l) : DropUrl(a)[i] = a[l + i]
  BY <1>2, <1>5, DropUrlIs
<1>8. Len(a) - l = n - m
  BY <1>1, <1>2, <1>4 DEF l
<1>9. ASSUME NEW i \in 1..(n - m) PROVE DropUrl(a)[i] = DropUrl(b)[i]
  <2>1. l + i \in 1..(n - k) /\ k + (l + i) = m + i
    BY <1>1, <1>4 DEF l
  <2>2. DropUrl(a)[i] = a[l + i]
    BY <1>7, <1>8
  <2>3. a[l + i] = b[k + (l + i)]
    BY <1>2, <2>1
  <2> QED  BY <1>6, <2>1, <2>2, <2>3
<1>10. DropUrl(a) = DropUrl(b)
  BY <1>6, <1>7, <1>8, <1>9, SeqEqual
<1> QED  BY <1>10 DEF a, n

(* A doubled rune is dropped with the URL, or is doubled in what is left. *)
LEMMA DropUrlOfDoubled ==
  ASSUME NEW A, NEW a \in Seq(A), NEW b \in Seq(A), NEW k, Doubled(a, b, k), a[k] # "mark"
  PROVE  /\ DropUrl(a) \in Seq(A) /\ DropUrl(b) \in Seq(A)
         /\ \/ DropUrl(a) = DropUrl(b)
            \/ \E q : Doubled(DropUrl(a), DropUrl(b), q) /\ DropUrl(a)[q] = a[k]
<1> DEFINE n == Len(a)
<1>1. /\ n \in Nat /\ k \in 1..n /\ Len(b) = n + 1
      /\ \A i \in 1..n : (i <= k => b[i] = a[i]) /\ (i >= k => b[i + 1] = a[i])
  BY DEF Doubled
<1>2. PICK m : LastMark(a, m)
  BY LastMarkIs
<1>3. /\ m \in 0..n /\ (m = 0 \/ a[m] = "mark") /\ m # k
      /\ \A i \in 1..n : a[i] = "mark" => i <= m
  BY <1>1, <1>2 DEF LastMark
<1>4. /\ DropUrl(a) \in Seq(A) /\ Len(DropUrl(a)) = n - m
      /\ \A i \in 1..(n - m) : DropUrl(a)[i] = a[m + i]
  BY <1>2, DropUrlIs
<1>5. ASSUME NEW j \in 1..(n + 1)
      PROVE  (j <= k => b[j] = a[j] /\ j \in 1..n) /\ (j > k => b[j] = a[j - 1] /\ j - 1 \in 1..n)
  <2>1. j <= k => b[j] = a[j] /\ j \in 1..n
    BY <1>1
  <2>2. ASSUME j > k PROVE b[j] = a[j - 1] /\ j - 1 \in 1..n
    <3> DEFINE i == j - 1
    <3>1. i \in 1..n /\ i >= k /\ i + 1 = j
      BY <1>1, <2>2
    <3> HIDE DEF i
    <3>2. b[i + 1] = a[i]
      BY <1>1, <3>1
    <3>3. b[j] = a[i] /\ i \in 1..n
      BY <3>1, <3>2
    <3> QED  BY <3>3 DEF i
  <2> QED  BY <2>1, <2>2
<1> HIDE DEF n
<1>6. CASE m < k
  <2>1. LastMark(b, m)
    <3>1. m \in 0..Len(b)
      BY <1>1, <1>3
    <3>2. m = 0 \/ b[m] = "mark"
      BY <1>1, <1>3, <1>6
    <3>3. ASSUME NEW j \in 1..Len(b), b[j] = "mark" PROVE j <= m
      <4>1. j \in 1..(n + 1) /\ j \in Int
        BY <1>1
      <4>2. j <= k => a[j] = "mark" /\ j \in 1..n
        BY <1>5, <3>3, <4>1
      <4>3. j > k => a[j - 1] = "mark" /\ j - 1 \in 1..n
        BY <1>5, <3>3, <4>1
      <4>4. j > k => j - 1 <= m
        BY <1>3, <4>3
      <4> QED  BY <1>1, <1>3, <1>6, <4>1, <4>2, <4>4
    <3> QED  BY <3>1, <3>2, <3>3 DEF LastMark
  <2>2. /\ DropUrl(b) \in Seq(A) /\ Len(DropUrl(b)) = n + 1 - m
        /\ \A i \in 1..(n + 1 - m) : DropUrl(b)[i] = b[m + i]
    <3>1. /\ DropUrl(b) \in Seq(A) /\ Len(DropUrl(b)) = Len(b) - m
          /\ \A i \in 1..(Len(b) - m) : DropUrl(b)[i] = b[m + i]
      BY <2>1, DropUrlIs
    <3>2. Len(b) - m = n + 1 - m
      BY <1>1, <1>3
    <3> QED  BY <3>1, <3>2
  <2> DEFINE q == k - m
  <2>3. q \in 1..(n - m) /\ m + q = k /\ Len(DropUrl(b)) = Len(DropUrl(a)) + 1
    BY <1>1, <1>3, <1>4, <1>6, <2>2
  <2>4. DropUrl(a)[q] = a[k]
    <3> HIDE DEF q
    <3> QED  BY <1>4, <2>3
  <2>5. ASSUME NEW i \in 1..(n - m)
        PROVE  /\ i <= q => DropUrl(b)[i] = DropUrl(a)[i]
               /\ i >= q => DropUrl(b)[i + 1] = DropUrl(a)[i]
    <3> DEFINE j == m + i
               h == i + 1
    <3>1. /\ j \in 1..n /\ i \in 1..(n + 1 - m) /\ h \in 1..(n + 1 - m) /\ m + h = j + 1
          /\ i <= q => j <= k
          /\ i >= q => j >= k
      BY <1>1, <1>3, <1>6
    <3> HIDE DEF j, h, q
    <3>2. DropUrl(a)[i] = a[j]
      BY <1>4 DEF j
    <3>3. DropUrl(b)[i] = b[j]
      BY <2>2, <3>1 DEF j
    <3>4. DropUrl(b)[h] = b[j + 1]
      BY <2>2, <3>1
    <3>5. (j <= k => b[j] = a[j]) /\ (j >= k => b[j + 1] = a[j])
      BY <1>1, <3>1
    <3>6. (i <= q => DropUrl(b)[i] = DropUrl(a)[i]) /\ (i >= q => DropUrl(b)[h] = DropUrl(a)[i])
      BY <3>1, <3>2, <3>3, <3>4, <3>5
    <3> QED  BY <3>6 DEF h
  <2>6. Doubled(DropUrl(a), DropUrl(b), q)
    <3> HIDE DEF q
    <3> QED  BY <1>4, <2>3, <2>5 DEF Doubled
  <2> QED  BY <1>4, <2>2, <2>4, <2>6
<1>7. CASE m > k
  <2> DEFINE l == m + 1
  <2>1. LastMark(b, l)
    <3>1. l \in 0..Len(b) /\ m \in 1..n /\ m >= k
      BY <1>1, <1>3, <1>7
    <3>2. b[l] = "mark"
      BY <1>1, <1>3, <3>1
    <3>3. ASSUME NEW j \in 1..Len(b), b[j] = "mark" PROVE j <= l
      <4>1. j \in 1..(n + 1) /\ j \in Int
        BY <1>1
      <4>2. j <= k => a[j] = "mark" /\ j \in 1..n
        BY <1>5, <3>3, <4>1
      <4>3. j > k => a[j - 1] = "mark" /\ j - 1 \in 1..n
        BY <1>5, <3>3, <4>1
      <4>4. j > k => j - 1 <= m
        BY <1>3, <4>3
      <4> QED  BY <1>1, <1>3, <1>7, <4>1, <4>2, <4>4
    <3> HIDE DEF l
    <3> QED  BY <3>1, <3>2, <3>3 DEF LastMark
  <2> HIDE DEF l
  <2>2. /\ DropUrl(b) \in Seq(A) /\ Len(DropUrl(b)) = n + 1 - l
        /\ \A i \in 1..(n + 1 - l) : DropUrl(b)[i] = b[l + i]
    <3>1. /\ DropUrl(b) \in Seq(A) /\ Len(DropUrl(b)) = Len(b) - l
          /\ \A i \in 1..(Len(b) - l) : DropUrl(b)[i] = b[l + i]
      BY <2>1, DropUrlIs
    <3>2. Len(b) - l = n + 1 - l
      BY <1>1, <1>3 DEF l
    <3> QED  BY <3>1, <3>2
  <2>3. n + 1 - l = n - m
    BY <1>1, <1>3 DEF l
  <2>4. ASSUME NEW i \in 1..(n - m) PROVE DropUrl(a)[i] = DropUrl(b)[i]
    <3> DEFINE j == m + i
    <3>1. j \in 1..n /\ j >= k /\ l + i = j + 1
      BY <1>1, <1>3, <1>7 DEF l
    <3> HIDE DEF j
    <3>2. b[j + 1] = a[j]
      BY <1>1, <3>1
    <3>3. DropUrl(a)[i] = a[j]
      BY <1>4 DEF j
    <3>4. DropUrl(b)[i] = b[l + i]
      BY <2>2, <2>3
    <3> QED  BY <3>1, <3>2, <3>3, <3>4
  <2>5. DropUrl(a) = DropUrl(b)
    BY <1>4, <2>2, <2>3, <2>4, SeqEqual
  <2> QED  BY <1>4, <2>5
<1> QED  BY <1>1, <1>3, <1>6, <1>7

-----------------------------------------------------------------------------
(***************************************************************************)
(* Space around and between.                                               *)
(***************************************************************************)
Trim(t) ==
  SubSeq(t, IF t # <<>> /\ Head(t) = "space" THEN 2 ELSE 1,
            IF t # <<>> /\ Last(t) = "space" THEN Len(t) - 1 ELSE Len(t))

LEMMA FieldsTrims == \A s : Fields(s) = Trim(Squeeze(s, "space", "space"))
BY DEF Fields, Trim

(* A rune of another kind that is doubled between the ends. *)
LEMMA TrimDoubled ==
  ASSUME NEW A, NEW t \in Seq(A), NEW u \in Seq(A), NEW k, Doubled(t, u, k), t[k] # "space"
  PROVE  /\ Trim(t) \in Seq(A) /\ Trim(u) \in Seq(A)
         /\ Twice(Trim(t), Trim(u), t[k])
<1> DEFINE n == Len(t)
           from == IF t[1] = "space" THEN 2 ELSE 1
           to == IF t[n] = "space" THEN n - 1 ELSE n
           to2 == to + 1
<1>1. /\ n \in Nat /\ k \in 1..n /\ Len(u) = n + 1
      /\ \A i \in 1..n : (i <= k => u[i] = t[i]) /\ (i >= k => u[i + 1] = t[i])
  BY DEF Doubled
<1>2. t # <<>> /\ u # <<>> /\ Head(t) = t[1] /\ Head(u) = u[1] /\ Last(t) = t[n] /\ Last(u) = u[n + 1]
  BY <1>1 DEF Last
<1>3. u[1] = t[1] /\ u[n + 1] = t[n]
  <2>1. 1 \in 1..n /\ 1 <= k /\ n \in 1..n /\ n >= k
    BY <1>1
  <2> QED  BY <1>1, <2>1
<1>4. /\ from \in 1..k /\ to \in k..n /\ to2 \in (k + 1)..(n + 1)
      /\ to2 = IF t[n] = "space" THEN n + 1 - 1 ELSE n + 1
  BY <1>1
<1>5. Trim(t) = SubSeq(t, from, to)
  BY <1>2 DEF Trim
<1>6. Trim(u) = SubSeq(u, from, to2)
  <2>1. Trim(u) = SubSeq(u, IF u[1] = "space" THEN 2 ELSE 1,
                            IF u[n + 1] = "space" THEN n + 1 - 1 ELSE n + 1)
    BY <1>1, <1>2 DEF Trim
  <2>2. from = IF u[1] = "space" THEN 2 ELSE 1
    BY <1>3
  <2>3. to2 = IF u[n + 1] = "space" THEN n + 1 - 1 ELSE n + 1
    <3> HIDE DEF n, to2
    <3> QED  BY <1>3, <1>4
  <2> QED  BY <2>1, <2>2, <2>3
<1> HIDE DEF from, to
<1>7. /\ Trim(t) \in Seq(A) /\ Len(Trim(t)) = to - from + 1
      /\ \A i \in 1..(to - from + 1) : Trim(t)[i] = t[from + i - 1]
  <2>1. from \in Int /\ to \in Int /\ from <= to /\ \A i \in from..to : t[i] \in A
    BY <1>1, <1>4
  <2>2. /\ SubSeq(t, from, to) \in Seq(A)
        /\ Len(SubSeq(t, from, to)) = IF from <= to THEN to - from + 1 ELSE 0
        /\ \A i \in 1..(to - from + 1) : SubSeq(t, from, to)[i] = t[from + i - 1]
    BY <2>1, SubSeqProperties
  <2> QED  BY <1>5, <2>1, <2>2
<1>8. /\ Trim(u) \in Seq(A) /\ Len(Trim(u)) = to2 - from + 1
      /\ \A i \in 1..(to2 - from + 1) : Trim(u)[i] = u[from + i - 1]
  <2>1. from \in Int /\ to2 \in Int /\ from <= to2 /\ \A i \in from..to2 : u[i] \in A
    <3>1. from \in Int /\ to2 \in Int /\ from <= to2 /\ \A i \in from..to2 : i \in 1..Len(u)
      BY <1>1, <1>4
    <3> QED  BY <3>1
  <2> HIDE DEF to2
  <2>2. /\ SubSeq(u, from, to2) \in Seq(A)
        /\ Len(SubSeq(u, from, to2)) = IF from <= to2 THEN to2 - from + 1 ELSE 0
        /\ \A i \in 1..(to2 - from + 1) : SubSeq(u, from, to2)[i] = u[from + i - 1]
    BY <2>1, SubSeqProperties
  <2> QED  BY <1>6, <2>1, <2>2
<1> DEFINE q == k - from + 1
           m == to - from + 1
<1>9. q \in 1..m /\ from + q - 1 = k /\ to2 - from + 1 = m + 1 /\ m \in Nat
  BY <1>1, <1>4
<1>10. ASSUME NEW i \in 1..m
       PROVE  /\ i <= q => Trim(u)[i] = Trim(t)[i]
              /\ i >= q => Trim(u)[i + 1] = Trim(t)[i]
  <2> DEFINE j == from + i - 1
             h == i + 1
  <2>1. /\ j \in 1..n /\ (i <= q => j <= k) /\ (i >= q => j >= k)
        /\ i \in 1..(m + 1) /\ h \in 1..(m + 1) /\ from + h - 1 = j + 1
    BY <1>1, <1>4
  <2> HIDE DEF h, m, q, to2
  <2>2. Trim(t)[i] = t[from + i - 1]
    BY <1>7 DEF m
  <2>3. Trim(u)[i] = u[from + i - 1] /\ Trim(u)[h] = u[from + h - 1]
    BY <1>8, <1>9, <2>1
  <2> HIDE DEF j
  <2>4. Trim(t)[i] = t[j] /\ Trim(u)[i] = u[j]
    BY <2>2, <2>3 DEF j
  <2>5. Trim(u)[h] = u[j + 1]
    BY <2>1, <2>3
  <2>6. (j <= k => u[j] = t[j]) /\ (j >= k => u[j + 1] = t[j])
    BY <1>1, <2>1
  <2>7. (i <= q => Trim(u)[i] = Trim(t)[i]) /\ (i >= q => Trim(u)[h] = Trim(t)[i])
    BY <2>1, <2>4, <2>5, <2>6
  <2> QED  BY <2>7 DEF h
<1>11. Trim(t)[q] = t[k]
  <2>1. Trim(t)[q] = t[from + q - 1]
    <3> HIDE DEF q
    <3> QED  BY <1>7, <1>9 DEF m
  <2> QED  BY <1>9, <2>1
<1>12. Len(Trim(t)) = m /\ Len(Trim(u)) = m + 1
  BY <1>7, <1>8, <1>9
<1>13. Doubled(Trim(t), Trim(u), q)
  <2> HIDE DEF q, m
  <2> QED  BY <1>9, <1>10, <1>12 DEF Doubled
<1> QED  BY <1>7, <1>8, <1>11, <1>13 DEF Twice

-----------------------------------------------------------------------------
(***************************************************************************)
(* The summary.                                                            *)
(***************************************************************************)
(* A digit more in a number. *)
LEMMA DigitDoubled ==
  ASSUME NEW a \in Seq(Runes), NEW b \in Seq(Runes), NEW k, Doubled(a, b, k), a[k] = "digit"
  PROVE  Squeeze(Fields(a), "digit", "N") = Squeeze(Fields(b), "digit", "N")
<1> DEFINE A == Runes \cup {"N"}
           sp == "space"
           t == Squeeze(a, sp, sp)
           u == Squeeze(b, sp, sp)
<1>1. a \in Seq(A) /\ b \in Seq(A) /\ sp \in A /\ "N" \in A /\ a[k] # sp
  <2>1. Runes \in SUBSET A /\ sp \in A /\ "N" \in A
    BY DEF Runes
  <2> HIDE DEF A
  <2> QED  BY <2>1, SeqMonotonic
<1>2. t \in Seq(A) /\ u \in Seq(A)
  <2> HIDE DEF A, sp
  <2> QED  BY <1>1, SqueezeType
<1>3. PICK i : Doubled(t, u, i) /\ t[i] = a[k]
  <2> HIDE DEF A, sp
  <2> QED  BY <1>1, SqueezeDoubledOther
<1>4. Fields(a) = Trim(t) /\ Fields(b) = Trim(u)
  BY FieldsTrims
<1> HIDE DEF A, t, u
<1>5. t[i] # "space"
  BY <1>1, <1>3
<1>6. Trim(t) \in Seq(A) /\ Trim(u) \in Seq(A) /\ Twice(Trim(t), Trim(u), t[i])
  BY <1>2, <1>3, <1>5, TrimDoubled
<1>7. PICK q : Doubled(Trim(t), Trim(u), q) /\ Trim(t)[q] = t[i]
  BY <1>6 DEF Twice
<1> DEFINE x == Trim(t)
           y == Trim(u)
           digit == "digit"
           number == "N"
<1>8. /\ x \in Seq(A) /\ y \in Seq(A) /\ Doubled(x, y, q) /\ x[q] = digit /\ number \in A
  BY <1>1, <1>3, <1>6, <1>7
<1> HIDE DEF x, y, digit, number
<1>9. Squeeze(x, digit, number) = Squeeze(y, digit, number)
  BY <1>8, SqueezeDoubledRune
<1> QED  BY <1>4, <1>9 DEF x, y, digit, number

(* A space more between words. *)
LEMMA SpaceDoubled ==
  ASSUME NEW a \in Seq(Runes), NEW b \in Seq(Runes), NEW k, Doubled(a, b, k), a[k] = "space"
  PROVE  Fields(a) = Fields(b)
<1> DEFINE sp == "space"
<1>1. sp \in Runes /\ a[k] = sp
  BY DEF Runes
<1>2. Squeeze(a, sp, sp) = Squeeze(b, sp, sp)
  <2> HIDE DEF sp
  <2> QED  BY <1>1, SqueezeDoubledRune
<1> QED  BY <1>2, FieldsTrims

(***************************************************************************)
(* A number with a digit more, a space more between words, a URL in front: *)
(* none of them changes the summary of a message of any length             *)
(* (summarize).                                                            *)
(***************************************************************************)
LEMMA SummaryOfDoubled ==
  ASSUME NEW a \in Seq(Runes), NEW k \in 1..Len(a), a[k] \in {"digit", "space"}
  PROVE  summarize(a) = summarize(InsertAt(a, k, a[k]))
<1> DEFINE b == InsertAt(a, k, a[k])
           c == DropUrl(a)
           d == DropUrl(b)
<1>1. Doubled(a, b, k) /\ b \in Seq(Runes)
  BY InsertDoubles
<1> HIDE DEF b
<1>2. /\ c \in Seq(Runes) /\ d \in Seq(Runes)
      /\ c = d \/ \E q : Doubled(c, d, q) /\ c[q] = a[k]
  <2>1. a[k] # "mark"
    OBVIOUS
  <2> QED  BY <1>1, <2>1, DropUrlOfDoubled
<1> HIDE DEF c, d
<1>3. Squeeze(Fields(c), "digit", "N") = Squeeze(Fields(d), "digit", "N")
  <2>1. CASE c = d
    BY <2>1
  <2>2. CASE \E q : Doubled(c, d, q) /\ c[q] = a[k]
    <3>1. PICK q : Doubled(c, d, q) /\ c[q] = a[k]
      BY <2>2
    <3>2. CASE a[k] = "digit"
      BY <1>2, <3>1, <3>2, DigitDoubled
    <3>3. CASE a[k] = "space"
      <4>1. Fields(c) = Fields(d)
        BY <1>2, <3>1, <3>3, SpaceDoubled
      <4> QED  BY <4>1
    <3> QED  BY <3>2, <3>3
  <2> QED  BY <1>2, <2>1, <2>2
<1>4. summarize(a) = summarize(b)
  BY <1>3 DEF summarize, c, d
<1> QED  BY <1>4 DEF b

LEMMA SummaryOfPrefixed ==
  ASSUME NEW b \in Seq(Runes), NEW k \in 1..Len(b), b[k] = "mark"
  PROVE  summarize(SubSeq(b, k + 1, Len(b))) = summarize(b)
BY DropUrlOfPrefixed DEF summarize

-----------------------------------------------------------------------------
(***************************************************************************)
(* Labels.                                                                 *)
(***************************************************************************)
(* Of an untyped error only the kinds and the summary count. *)
LEMMA SameLabel ==
  ASSUME NEW e, NEW f, e.is = f.is, e.code = f.code, summarize(e.msg) = summarize(f.msg)
  PROVE  classify(e) = classify(f)
BY DEF classify

(* Two answers with different codes are told apart. *)
LEMMA CodesApart ==
  ASSUME NEW e, NEW f, e.is \cap AnswerTypes # {}, f.is \cap AnswerTypes # {}, e.code # f.code
  PROVE  classify(e) # classify(f)
<1>1. classify(e) \in {<<"http", e.code>>, <<"cypher", e.code>>}
  BY DEF classify, AnswerTypes
<1>2. classify(f) \in {<<"http", f.code>>, <<"cypher", f.code>>}
  BY DEF classify, AnswerTypes
<1> QED  BY <1>1, <1>2

(* The deadline is tested before whatever else the chain holds. *)
LEMMA DeadlineFirst ==
  ASSUME NEW e, "context.DeadlineExceeded" \in e.is, e.is \cap AnswerTypes = {}
  PROVE  classify(e)[1] = "timeout"
<1> DEFINE I == {i \in 1..Len(Tests) : Tests[i][1] \cap e.is # {}}
           test == SelectInSeq(Tests, LAMBDA t : t[1] \cap e.is # {})
<1>1. Tests[1] = <<{"context.DeadlineExceeded", "os.ErrDeadlineExceeded"}, "timeout">> /\ Len(Tests) = 14
  BY DEF Tests
<1>2. 1 \in I /\ \A i \in I : 1 <= i /\ i \in Int
  BY <1>1
<1>3. test = Min(I)
  BY <1>2 DEF SelectInSeq
<1> HIDE DEF I
<1>4. Min(I) = 1
  <2>1. Min(I) \in I /\ \A i \in I : Min(I) <= i
    BY <1>2 DEF Min
  <2> DEFINE low == Min(I)
  <2> HIDE DEF low
  <2>2. low \in Int /\ 1 <= low /\ low <= 1
    BY <1>2, <2>1 DEF low
  <2>3. low = 1
    BY <2>2
  <2> QED  BY <2>3 DEF low
<1>5. test = 1
  BY <1>3, <1>4
<1>6. "StatusError" \notin e.is /\ "CypherError" \notin e.is
  BY DEF AnswerTypes
<1>7. classify(e) = <<Tests[test][2], 0>>
  BY <1>5, <1>6 DEF classify
<1> QED  BY <1>1, <1>5, <1>7

=============================================================================
