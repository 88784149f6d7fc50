----------------------------- MODULE BenchProofs ------------------------------
(***************************************************************************)
(* Proofs about module Bench, for every set of command lines: any number   *)
(* of runs, of queries in the file and of tests, and any benchmark that    *)
(* fails, of whichever kind, in any of them.                               *)
(***************************************************************************)
EXTENDS Bench, SequenceTheorems, WellFoundedInduction, TLAPS

-----------------------------------------------------------------------------
(***************************************************************************)
(* Numbers.                                                                *)
(***************************************************************************)
LEMMA LeastNumber ==
  ASSUME NEW T \in SUBSET Nat, T # {}
  PROVE  \E n \in T : \A m \in T : n <= m
<1>1. IsWellFoundedOn(OpToRel(<, Nat), Nat)
  BY NatLessThanWellFounded
<1>2. PICK n \in T : \A m \in T : ~(<<m, n>> \in OpToRel(<, Nat))
  BY <1>1, WFMin
<1>3. \A m \in T : ~(m < n)
  BY <1>2 DEF OpToRel
<1> QED  BY <1>3

(* What holds of 0 and of a number after one of which it holds. *)
LEMMA FromZeroUp ==
  ASSUME NEW T \in SUBSET Nat, 0 \in T, \A n \in T : n + 1 \in T
  PROVE  T = Nat
<1> SUFFICES ASSUME Nat \ T # {} PROVE FALSE
  OBVIOUS
<1>1. PICK n \in Nat \ T : \A m \in Nat \ T : n <= m
  BY LeastNumber
<1>2. n # 0 /\ n - 1 \in Nat /\ ~(n <= n - 1)
  BY <1>1
<1>3. n - 1 \in T
  BY <1>1, <1>2
<1> QED  BY <1>1, <1>3

LEMMA Quotient ==
  ASSUME NEW b \in Nat \ {0}, NEW q \in Nat, NEW r \in Nat, r < b
  PROVE  (q * b + r) \div b = q /\ (q * b + r) % b = r
<1> DEFINE a == q * b + r
<1>1. a \in Nat
  OBVIOUS
<1> HIDE DEF a
<1> DEFINE d == a \div b
           m == a % b
<1>2. a = b * d + m /\ d \in Int /\ m \in Nat /\ m < b
  BY <1>1
<1> HIDE DEF d, m
<1>3. q * b + r = b * d + m
  BY <1>2 DEF a
<1>4. /\ q - d >= 1 => b * (q - d) >= b
      /\ d - q >= 1 => b * (d - q) >= b
      /\ b * (q - d) = b * q - b * d /\ b * (d - q) = b * d - b * q
      /\ b * q = q * b
  BY <1>2
<1>5. q = d
  BY <1>2, <1>3, <1>4
<1>6. m = r
  BY <1>2, <1>3, <1>5
<1> QED  BY <1>5, <1>6 DEF a, d, m

-----------------------------------------------------------------------------
(***************************************************************************)
(* Sequences.                                                              *)
(***************************************************************************)
LEMMA PrefixMeans ==
  ASSUME NEW S, NEW s \in Seq(S), NEW t \in Seq(S)
  PROVE  IsPrefix(s, t) <=> Len(s) <= Len(t) /\ \A i \in 1..Len(s) : s[i] = t[i]
<1>1. Len(s) \in Nat /\ Len(t) \in Nat
  OBVIOUS
<1>2. CASE Len(s) <= Len(t)
  <2>1. /\ Len(SubSeq(s, 1, Len(s))) = Len(s) /\ SubSeq(s, 1, Len(s)) \in Seq(S)
        /\ \A i \in 1..Len(s) : SubSeq(s, 1, Len(s))[i] = s[i]
    BY <1>1, SubSeqProperties
  <2>2. /\ Len(SubSeq(t, 1, Len(s))) = Len(s) /\ SubSeq(t, 1, Len(s)) \in Seq(S)
        /\ \A i \in 1..Len(s) : SubSeq(t, 1, Len(s))[i] = t[i]
    BY <1>1, <1>2, SubSeqProperties
  <2>3. SubSeq(s, 1, Len(s)) = SubSeq(t, 1, Len(s)) <=> \A i \in 1..Len(s) : s[i] = t[i]
    BY <2>1, <2>2, SeqEqual
  <2> QED  BY <1>2, <2>3 DEF IsPrefix
<1>3. CASE ~(Len(s) <= Len(t))
  BY <1>3 DEF IsPrefix
<1> QED  BY <1>2, <1>3

LEMMA PrefixGrows ==
  ASSUME NEW S, NEW s \in Seq(S), NEW t \in Seq(S), NEW u \in Seq(S), IsPrefix(s, t)
  PROVE  IsPrefix(s, t \o u)
<1>1. Len(s) <= Len(t) /\ \A i \in 1..Len(s) : s[i] = t[i]
  BY PrefixMeans
<1>2. /\ t \o u \in Seq(S) /\ Len(t \o u) = Len(t) + Len(u)
      /\ \A i \in 1..Len(t) : (t \o u)[i] = t[i]
  BY ConcatProperties
<1>3. Len(s) <= Len(t \o u) /\ \A i \in 1..Len(s) : s[i] = (t \o u)[i]
  BY <1>1, <1>2
<1> QED  BY <1>2, <1>3, PrefixMeans

LEMMA PrefixOfConcat ==
  ASSUME NEW S, NEW s \in Seq(S), NEW t \in Seq(S)
  PROVE  IsPrefix(s, s \o t)
<1>1. IsPrefix(s, s)
  BY PrefixMeans
<1> QED  BY <1>1, PrefixGrows

-----------------------------------------------------------------------------
(***************************************************************************)
(* What a format has a line for.                                           *)
(***************************************************************************)
(* f is the recursion in Lines, for the first n records. *)
Unfolds(format, records, n, f) ==
  f = [ k \in 0..n |->
          IF k = 0 THEN <<>>
          ELSE IF HasLine(format, records[k]) THEN Append(f[k - 1], records[k])
          ELSE f[k - 1] ]

LEMMA UnfoldsExists ==
  ASSUME NEW format, NEW s, NEW n \in Nat
  PROVE  \E f : Unfolds(format, s, n, f)
<1> DEFINE T == {m \in Nat : \E f : Unfolds(format, s, m, f)}
<1>1. 0 \in T
  <2>1. Unfolds(format, s, 0, [k \in 0..0 |-> <<>>])
    BY DEF Unfolds
  <2> QED  BY <2>1
<1>2. ASSUME NEW m \in T PROVE m + 1 \in T
  <2>1. PICK f : Unfolds(format, s, m, f)
    OBVIOUS
  <2> DEFINE e == s[m + 1]
             g == [ k \in 0..(m + 1) |->
                      IF k <= m THEN f[k]
                      ELSE IF HasLine(format, e) THEN Append(f[m], e) ELSE f[m] ]
  <2>2. \A k \in 0..m : f[k] = IF k = 0 THEN <<>>
                              ELSE IF HasLine(format, s[k]) THEN Append(f[k - 1], s[k])
                              ELSE f[k - 1]
    BY <2>1 DEF Unfolds
  <2>3. ASSUME NEW k \in 0..(m + 1)
        PROVE  g[k] = IF k = 0 THEN <<>>
                      ELSE IF HasLine(format, s[k]) THEN Append(g[k - 1], s[k])
                      ELSE g[k - 1]
    <3>1. CASE k = 0
      BY <2>2, <3>1
    <3>2. CASE k \in 1..m
      <4>1. k \in 0..m /\ k - 1 \in 0..(m + 1) /\ k - 1 <= m /\ k # 0
        BY <3>2
      <4> QED  BY <2>2, <4>1
    <3>3. CASE k = m + 1
      <4>1. k - 1 = m /\ m \in 0..(m + 1) /\ ~(k <= m) /\ k # 0
        BY <3>3
      <4> QED  BY <3>3, <4>1
    <3> QED  BY <3>1, <3>2, <3>3
  <2>4. Unfolds(format, s, m + 1, g)
    <3> HIDE DEF g
    <3>1. g = [k \in 0..(m + 1) |-> g[k]]
      BY DEF g
    <3> QED  BY <2>3, <3>1 DEF Unfolds
  <2>5. m + 1 \in Nat
    OBVIOUS
  <2> QED  BY <2>4, <2>5
<1> HIDE DEF T
<1>3. T \in SUBSET Nat
  BY DEF T
<1>4. T = Nat
  BY <1>1, <1>2, <1>3, FromZeroUp
<1> QED  BY <1>4 DEF T

LEMMA UnfoldsAt ==
  ASSUME NEW format, NEW s, NEW n, NEW f, Unfolds(format, s, n, f), NEW k \in 0..n
  PROVE  f[k] = IF k = 0 THEN <<>>
                ELSE IF HasLine(format, s[k]) THEN Append(f[k - 1], s[k])
                ELSE f[k - 1]
BY DEF Unfolds

LEMMA UnfoldsAgree ==
  ASSUME NEW format, NEW s, NEW t, NEW m \in Nat, NEW n \in Nat, NEW f, NEW g,
         Unfolds(format, s, m, f), Unfolds(format, t, n, g),
         m <= n, \A k \in 1..m : s[k] = t[k]
  PROVE  f[m] = g[m]
<1> DEFINE T == {k \in Nat : k <= m => f[k] = g[k]}
<1>1. \A k \in 0..m : f[k] = IF k = 0 THEN <<>>
                            ELSE IF HasLine(format, s[k]) THEN Append(f[k - 1], s[k])
                            ELSE f[k - 1]
  BY DEF Unfolds
<1>2. \A k \in 0..n : g[k] = IF k = 0 THEN <<>>
                            ELSE IF HasLine(format, t[k]) THEN Append(g[k - 1], t[k])
                            ELSE g[k - 1]
  BY DEF Unfolds
<1>3. 0 \in T
  BY <1>1, <1>2
<1>4. ASSUME NEW k \in T PROVE k + 1 \in T
  <2>1. k + 1 \in Nat /\ k + 1 # 0 /\ k + 1 - 1 = k
    OBVIOUS
  <2>2. ASSUME k + 1 <= m PROVE f[k + 1] = g[k + 1]
    <3>1. k <= m /\ k + 1 \in 0..m /\ k + 1 \in 0..n /\ k + 1 \in 1..m
      BY <2>2
    <3>2. f[k] = g[k] /\ s[k + 1] = t[k + 1]
      BY <3>1
    <3> QED  BY <1>1, <1>2, <2>1, <3>1, <3>2
  <2> QED  BY <2>1, <2>2
<1> HIDE DEF T
<1>5. T \in SUBSET Nat
  BY DEF T
<1>6. T = Nat
  BY <1>3, <1>4, <1>5, FromZeroUp
<1>7. \A k \in Nat : k <= m => f[k] = g[k]
  BY <1>6 DEF T
<1> QED  BY <1>7

LEMMA LinesStep ==
  ASSUME NEW format, NEW s, Len(s) \in Nat
  PROVE  \E f : Unfolds(format, s, Len(s), f) /\ Lines(format, s) = f[Len(s)]
<1> DEFINE c == CHOOSE f : Unfolds(format, s, Len(s), f)
<1>1. Unfolds(format, s, Len(s), c)
  <2>1. \E f : Unfolds(format, s, Len(s), f)
    BY UnfoldsExists
  <2> HIDE DEF Unfolds
  <2> QED  BY <2>1
<1>2. Lines(format, s) = c[Len(s)]
  BY DEF Lines, Unfolds
<1> QED  BY <1>1, <1>2

LEMMA LinesEmpty ==
  ASSUME NEW format PROVE Lines(format, <<>>) = <<>>
<1>1. Len(<<>>) = 0
  OBVIOUS
<1>2. PICK f : Unfolds(format, <<>>, 0, f) /\ Lines(format, <<>>) = f[0]
  BY <1>1, LinesStep
<1> QED  BY <1>2 DEF Unfolds

LEMMA LinesAppend ==
  ASSUME NEW format, NEW S, NEW s \in Seq(S), NEW e \in S
  PROVE  Lines(format, Append(s, e)) =
           IF HasLine(format, e) THEN Append(Lines(format, s), e) ELSE Lines(format, s)
<1> DEFINE n == Len(s)
           t == Append(s, e)
<1>1. n \in Nat /\ Len(t) = n + 1 /\ t[n + 1] = e /\ \A k \in 1..n : s[k] = t[k]
  BY AppendProperties
<1> HIDE DEF t
<1>2. PICK f : Unfolds(format, s, Len(s), f) /\ Lines(format, s) = f[Len(s)]
  BY LinesStep
<1>3. PICK g : Unfolds(format, t, n + 1, g) /\ Lines(format, t) = g[n + 1]
  <2>1. Len(t) \in Nat /\ Len(t) = n + 1
    BY <1>1
  <2>2. \E g : Unfolds(format, t, Len(t), g) /\ Lines(format, t) = g[Len(t)]
    BY <2>1, LinesStep
  <2> HIDE DEF n
  <2> QED  BY <2>1, <2>2
<1>2a. Unfolds(format, s, n, f) /\ Lines(format, s) = f[n]
  BY <1>2
<1> HIDE DEF n
<1>4. n + 1 \in Nat /\ n <= n + 1 /\ n \in 0..n /\ n + 1 \in 0..(n + 1) /\ n + 1 # 0 /\ n + 1 - 1 = n
  BY <1>1
<1>5. f[n] = g[n]
  <2>1. Unfolds(format, s, n, f)
    BY <1>2a
  <2>2. Unfolds(format, t, n + 1, g)
    BY <1>3
  <2>3. n \in Nat /\ n + 1 \in Nat /\ n <= n + 1 /\ \A k \in 1..n : s[k] = t[k]
    BY <1>1, <1>4
  <2> QED  BY <2>1, <2>2, <2>3, UnfoldsAgree
<1>6. g[n + 1] = IF HasLine(format, t[n + 1]) THEN Append(g[n + 1 - 1], t[n + 1]) ELSE g[n + 1 - 1]
  <2>1. Unfolds(format, t, n + 1, g)
    BY <1>3
  <2> QED  BY <1>4, <2>1, UnfoldsAt
<1> QED  BY <1>1, <1>2a, <1>3, <1>4, <1>5, <1>6 DEF t

(* A set of sequences that has the empty one, and what Append makes of its members. *)
LEMMA ByAppend ==
  ASSUME NEW S, NEW G \in SUBSET Seq(S), <<>> \in G,
         \A s \in G : \A e \in S : Append(s, e) \in G
  PROVE  G = Seq(S)
<1> DEFINE T == {n \in Nat : \A s \in Seq(S) : Len(s) = n => s \in G}
<1>1. 0 \in T
  BY EmptySeq
<1>2. ASSUME NEW n \in T PROVE n + 1 \in T
  <2> SUFFICES ASSUME NEW s \in Seq(S), Len(s) = n + 1 PROVE s \in G
    OBVIOUS
  <2>1. s # <<>>
    BY EmptySeq
  <2>2. PICK t \in Seq(S), e \in S : s = Append(t, e)
    BY <2>1, SequenceEmptyOrAppend
  <2>3. Len(s) = Len(t) + 1 /\ Len(t) \in Nat
    BY <2>2, AppendProperties
  <2>4. Len(t) = n
    BY <2>3
  <2>5. t \in G
    BY <2>4
  <2> QED  BY <2>2, <2>5
<1>3. T \in SUBSET Nat
  OBVIOUS
<1> HIDE DEF T
<1>4. T = Nat
  BY <1>1, <1>2, <1>3, FromZeroUp
<1>5. ASSUME NEW s \in Seq(S) PROVE s \in G
  <2>1. Len(s) \in T
    BY <1>4
  <2> QED  BY <2>1 DEF T
<1> QED  BY <1>5

LEMMA LinesType ==
  ASSUME NEW format, NEW S, NEW s \in Seq(S)
  PROVE  Lines(format, s) \in Seq(S)
<1> DEFINE G == {t \in Seq(S) : Lines(format, t) \in Seq(S)}
<1>1. <<>> \in G
  <2>1. <<>> \in Seq(S) /\ Lines(format, <<>>) = <<>>
    BY LinesEmpty
  <2> QED  BY <2>1
<1>2. ASSUME NEW t \in G, NEW e \in S PROVE Append(t, e) \in G
  <2>1. t \in Seq(S) /\ Lines(format, t) \in Seq(S) /\ Append(t, e) \in Seq(S)
    OBVIOUS
  <2>2. Append(Lines(format, t), e) \in Seq(S)
    BY <2>1
  <2>3. Lines(format, Append(t, e)) \in Seq(S)
    BY <2>1, <2>2, LinesAppend
  <2> QED  BY <2>1, <2>3
<1>3. G = Seq(S)
  <2> HIDE DEF G
  <2>1. G \in SUBSET Seq(S)
    BY DEF G
  <2> QED  BY <1>1, <1>2, <2>1, ByAppend
<1> QED  BY <1>3

LEMMA LinesConcat ==
  ASSUME NEW format, NEW S, NEW s \in Seq(S), NEW t \in Seq(S)
  PROVE  Lines(format, s \o t) = Lines(format, s) \o Lines(format, t)
<1> DEFINE G == {u \in Seq(S) : Lines(format, s \o u) = Lines(format, s) \o Lines(format, u)}
<1>0. Lines(format, s) \in Seq(S)
  BY LinesType
<1>1. <<>> \in G
  BY <1>0, LinesEmpty, ConcatEmptySeq
<1>2. ASSUME NEW u \in G, NEW e \in S PROVE Append(u, e) \in G
  <2>1. /\ u \in Seq(S) /\ s \o u \in Seq(S) /\ Append(u, e) \in Seq(S)
        /\ Lines(format, u) \in Seq(S)
    BY LinesType
  <2>2. s \o Append(u, e) = Append(s \o u, e)
    BY <2>1
  <2>3. Lines(format, s) \o Append(Lines(format, u), e) = Append(Lines(format, s) \o Lines(format, u), e)
    BY <1>0, <2>1
  <2>4. /\ Lines(format, Append(s \o u, e)) =
             IF HasLine(format, e) THEN Append(Lines(format, s \o u), e) ELSE Lines(format, s \o u)
        /\ Lines(format, Append(u, e)) =
             IF HasLine(format, e) THEN Append(Lines(format, u), e) ELSE Lines(format, u)
    BY <2>1, LinesAppend
  <2>5. Lines(format, s \o u) = Lines(format, s) \o Lines(format, u)
    OBVIOUS
  <2>6. Lines(format, s \o Append(u, e)) = Lines(format, s) \o Lines(format, Append(u, e))
    BY <2>2, <2>3, <2>4, <2>5
  <2> QED  BY <2>1, <2>6
<1>3. G = Seq(S)
  <2> HIDE DEF G
  <2>1. G \in SUBSET Seq(S)
    BY DEF G
  <2> QED  BY <1>1, <1>2, <2>1, ByAppend
<1> QED  BY <1>3

LEMMA LinesOfOne ==
  ASSUME NEW format, NEW S, NEW e \in S
  PROVE  Lines(format, <<e>>) = IF HasLine(format, e) THEN <<e>> ELSE <<>>
<1>1. <<>> \in Seq(S) /\ Append(<<>>, e) = <<e>>
  OBVIOUS
<1>2. Lines(format, Append(<<>>, e)) =
        IF HasLine(format, e) THEN Append(Lines(format, <<>>), e) ELSE Lines(format, <<>>)
  BY <1>1, LinesAppend
<1> QED  BY <1>1, <1>2, LinesEmpty

LEMMA LinesOfAll ==
  ASSUME NEW format, NEW S, NEW s \in Seq(S), \A i \in 1..Len(s) : HasLine(format, s[i])
  PROVE  Lines(format, s) = s
<1> DEFINE G == {t \in Seq(S) : (\A i \in 1..Len(t) : HasLine(format, t[i])) => Lines(format, t) = t}
<1>1. <<>> \in G
  BY LinesEmpty
<1>2. ASSUME NEW t \in G, NEW e \in S PROVE Append(t, e) \in G
  <2>1. /\ Append(t, e) \in Seq(S) /\ Len(Append(t, e)) = Len(t) + 1 /\ Len(t) \in Nat
        /\ \A i \in 1..Len(t) : Append(t, e)[i] = t[i]
        /\ Append(t, e)[Len(t) + 1] = e
    BY AppendProperties
  <2>2. ASSUME \A i \in 1..Len(Append(t, e)) : HasLine(format, Append(t, e)[i])
        PROVE  Lines(format, Append(t, e)) = Append(t, e)
    <3>1. \A i \in 1..Len(t) : i \in 1..(Len(t) + 1)
      BY <2>1
    <3>2. Len(t) + 1 \in 1..(Len(t) + 1)
      BY <2>1
    <3>3. HasLine(format, e) /\ \A i \in 1..Len(t) : HasLine(format, t[i])
      BY <2>1, <2>2, <3>1, <3>2
    <3>4. Lines(format, t) = t
      BY <3>3
    <3> QED  BY <3>3, <3>4, LinesAppend
  <2> QED  BY <2>1, <2>2
<1>3. G = Seq(S)
  <2> HIDE DEF G
  <2>1. G \in SUBSET Seq(S)
    BY DEF G
  <2> QED  BY <1>1, <1>2, <2>1, ByAppend
<1>4. s \in G
  BY <1>3
<1> QED  BY <1>4

-----------------------------------------------------------------------------
(***************************************************************************)
(* The invariant.                                                          *)
(***************************************************************************)
(* Where in the loop the command is, and what it went through to get there. *)
Stage ==
  /\ run = 0 => tried = <<>> /\ next = 0 /\ entries = <<>> /\ out = <<>> /\ aborted = 0
  /\ run > 0 => Len(tried) = (run - 1) * PerRun + next
  /\ pc \in {"flags", "queries"} => run = 0 /\ queries = <<>>
  /\ run > 0 \/ pc \in {"queries", "runs"} => ~BadFlags
  /\ run > 0 \/ pc = "runs" => queries # <<>> /\ (cmd.file.given => Loads(cmd.file))
  /\ pc \in {"loop", "flush", "print"} => run > 0
  /\ pc \in {"runs", "flush", "print"} /\ run > 0 => next = PerRun
  /\ pc = "flush" => cmd.format = "benchstat"
  /\ pc = "print" => run = cmd.runs

(* The command ends by itself refused, or after the last entry of the last run. *)
Ended ==
  /\ exit = 0 => run > 0
  /\ exit \in {0, 1} /\ run > 0 =>
       run = cmd.runs /\ next = PerRun /\ entries = <<>> /\ (exit = 1 <=> aborted > 0)

CouldNotRun(record) == record.outcome = Failed \/ AllFailed(record.outcome)

Counted == aborted > 0 <=> \E k \in DOMAIN tried : CouldNotRun(tried[k])

InOrder == \A k \in DOMAIN tried : tried[k].item = Asked[k]

(* Nothing is lost between the benchmark and stdout: what is not there yet  *)
(* is in entries, and only benchstat leaves entries out.                   *)
Delivered ==
  /\ out \o Reportable(entries) = Reportable(tried)
  /\ \A i \in DOMAIN entries : entries[i].outcome # Failed
  /\ cmd.format = "benchstat" /\ pc \in {"runs", "print"} => entries = <<>>

Invariant ==
  TypeOK /\ Stage /\ Ended /\ Counted /\ InOrder /\ Delivered /\ FinishedRunsKept

-----------------------------------------------------------------------------
LEMMA CommandTypes ==
  ASSUME cmd \in Commands
  PROVE  /\ cmd.tests \in Seq(STRING) /\ cmd.runs \in Int /\ cmd.requests \in Int
         /\ cmd.file.queries \in Seq([label: Texts, cypher: Texts])
         /\ Len(cmd.tests) \in Nat
<1> DEFINE File == [given: BOOLEAN, decodes: BOOLEAN,
                    queries: Seq([label: Texts, cypher: Texts])]
<1>1. cmd.tests \in Seq(STRING) /\ cmd.runs \in Int /\ cmd.requests \in Int
  BY CommandAssumption
<1>2. cmd.file \in File
  BY CommandAssumption
<1>3. cmd.file.queries \in Seq([label: Texts, cypher: Texts])
  BY <1>2
<1> QED  BY <1>1, <1>3

(* The benchmarks of a run: at least one, once a run has begun. *)
LEMMA SomeBenchmark ==
  ASSUME TypeOK, Stage
  PROVE  /\ PerRun \in Nat /\ PerRun = Len(queries) * Len(cmd.tests)
         /\ run \in Nat /\ next \in Nat /\ next <= PerRun
         /\ cmd.tests # <<>> => Len(cmd.tests) \in Nat \ {0}
         /\ run > 0 => /\ PerRun > 0 /\ Len(cmd.tests) > 0 /\ run <= cmd.runs
                       /\ cmd.runs \in Nat \ {0}
<1>1. /\ Len(cmd.tests) \in Nat /\ Len(queries) \in Nat /\ cmd.runs \in Int
      /\ PerRun = Len(queries) * Len(cmd.tests)
  BY CommandTypes DEF TypeOK, PerRun
<1>2. PerRun \in Nat /\ run \in Nat /\ next \in Nat /\ next <= PerRun
  BY <1>1 DEF TypeOK
<1>3. cmd.tests # <<>> => Len(cmd.tests) \in Nat \ {0}
  BY <1>1, CommandTypes, EmptySeq DEF TypeOK
<1>4. ASSUME run > 0
      PROVE  PerRun > 0 /\ Len(cmd.tests) > 0 /\ run <= cmd.runs /\ cmd.runs \in Nat \ {0}
  <2>1. cmd.tests # <<>> /\ queries # <<>>
    BY <1>4 DEF Stage, BadFlags
  <2>2. Len(cmd.tests) > 0
    BY <1>3, <2>1
  <2>3. Len(queries) > 0
    BY <1>1, <2>1, EmptySeq DEF TypeOK
  <2>4. PerRun > 0
    <3>1. \A m, n \in Nat \ {0} : m * n > 0
      OBVIOUS
    <3> QED  BY <1>1, <2>2, <2>3, <3>1
  <2> QED  BY <1>1, <1>2, <1>4, <2>2, <2>4 DEF TypeOK
<1> QED  BY <1>1, <1>2, <1>3, <1>4

(* The loop nest of main counts through the benchmarks asked for. *)
LEMMA ItemIsAsked ==
  ASSUME TypeOK, Stage, run > 0, next < PerRun
  PROVE  /\ Item(next) \in Items
         /\ (run - 1) * PerRun + next + 1 \in 1..(cmd.runs * PerRun)
         /\ Asked[(run - 1) * PerRun + next + 1] = Item(next)
<1> DEFINE P == PerRun
           T == Len(cmd.tests)
           L == Len(queries)
           n == (run - 1) * P + next + 1
<1>1. /\ P \in Nat \ {0} /\ T \in Nat \ {0} /\ L \in Nat /\ P = L * T
      /\ run \in Nat \ {0} /\ next \in Nat /\ next < P
      /\ run <= cmd.runs /\ cmd.runs \in Nat \ {0}
  BY SomeBenchmark, CommandTypes DEF TypeOK
<1> DEFINE d == next \div T
           m == next % T
<1>2. /\ Asked = [k \in 1..(cmd.runs * P) |->
                    [ run |-> ((k - 1) \div P) + 1, query |-> (((k - 1) % P) \div T) + 1,
                      test |-> ((k - 1) % T) + 1 ]]
      /\ Item(next) = [run |-> run, query |-> d + 1, test |-> m + 1]
  BY DEF Asked, Item
<1> HIDE DEF P, T, L
<1>3. d \in Nat /\ m \in Nat /\ m < T /\ next = d * T + m
  BY <1>1
<1> HIDE DEF d
<1>4. Item(next) \in Items
  <2> HIDE DEF m
  <2> QED  BY <1>1, <1>2, <1>3 DEF Items
<1>5. n \in 1..(cmd.runs * P) /\ n - 1 = (run - 1) * P + next /\ run - 1 \in Nat
  <2>1. (run - 1) * P + P <= cmd.runs * P /\ (run - 1) * P >= 0
    <3>1. /\ (cmd.runs - run) * P >= 0 /\ (run - 1) * P >= 0
          /\ (cmd.runs - run) * P = cmd.runs * P - run * P
          /\ (run - 1) * P = run * P - P
      BY <1>1
    <3> QED  BY <1>1, <3>1
  <2> QED  BY <1>1, <2>1
<1>6. (n - 1) \div P = run - 1 /\ (n - 1) % P = next
  BY <1>1, <1>5, Quotient
<1>7. (n - 1) % T = m
  <2> DEFINE q == (run - 1) * L + d
  <2> HIDE DEF m
  <2>1. q \in Nat /\ n - 1 = q * T + m
    <3>1. (run - 1) * L \in Nat
      BY <1>1, <1>5
    <3>2. (run - 1) * P = ((run - 1) * L) * T
      BY <1>1, <1>5
    <3>3. q * T = ((run - 1) * L) * T + d * T
      BY <1>1, <1>3, <3>1
    <3>4. n - 1 = (run - 1) * P + (d * T + m)
      BY <1>3, <1>5
    <3>5. /\ (run - 1) * P \in Int /\ d * T \in Int /\ q \in Nat
      BY <1>1, <1>3, <3>1
    <3> HIDE DEF q, n
    <3> QED  BY <1>3, <3>2, <3>3, <3>4, <3>5
  <2> HIDE DEF q, n
  <2>2. (q * T + m) % T = m
    BY <1>1, <1>3, <2>1, Quotient
  <2> QED  BY <2>1, <2>2
<1>8. Asked[n] = Item(next)
  <2> HIDE DEF n
  <2>1. Asked[n] = [ run |-> ((n - 1) \div P) + 1, query |-> (((n - 1) % P) \div T) + 1,
                     test |-> ((n - 1) % T) + 1 ]
    BY <1>2, <1>5
  <2>2. ((n - 1) \div P) + 1 = run
    BY <1>1, <1>6
  <2>3. ((n - 1) % P) \div T = d
    BY <1>6 DEF d
  <2> HIDE DEF m
  <2> QED  BY <1>2, <1>7, <2>1, <2>2, <2>3
<1> QED  BY <1>4, <1>5, <1>8 DEF P

(* A step that only moves on, to a place the invariant has for it. *)
LEMMA MovesOn ==
  ASSUME Invariant, UNCHANGED <<cmd, queries, run, next, entries, out, aborted, tried>>,
         pc' \in {"flags", "queries", "runs", "loop", "flush", "print", "exited", "killed"},
         exit' \in -1..2, exit' >= 0 <=> pc' = "exited", Stage', Ended',
         cmd.format = "benchstat" /\ pc' \in {"runs", "print"} => entries = <<>>
  PROVE  Invariant'
<1>1. TypeOK'
  BY DEF Invariant, TypeOK
<1>2. Counted'
  BY DEF Invariant, Counted
<1>3. InOrder'
  BY DEF Invariant, InOrder, Asked, PerRun
<1>4. Delivered'
  BY DEF Invariant, Delivered, Reportable
<1>5. FinishedRunsKept'
  BY DEF Invariant, FinishedRunsKept, Reportable, PerRun
<1> QED  BY <1>1, <1>2, <1>3, <1>4, <1>5 DEF Invariant

LEMMA InvariantInit == Init => Invariant
<1> SUFFICES ASSUME Init PROVE Invariant
  OBVIOUS
<1>1. TypeOK
  <2>1. Len(<<>>) * Len(cmd.tests) = 0 /\ Len(queries) = 0 /\ Len(tried) = 0
    BY CommandTypes DEF Init
  <2>2. /\ queries \in Seq([label: Texts, cypher: Texts])
        /\ entries \in Seq(Records) /\ out \in Seq(Records) /\ tried \in Seq(Records)
    BY DEF Init
  <2>3. next \in 0..(Len(queries) * Len(cmd.tests)) /\ aborted \in 0..Len(tried)
    BY <2>1 DEF Init
  <2>4. run \in 0..cmd.runs \cup {0} /\ exit \in -1..2 /\ (exit >= 0 <=> pc = "exited")
    BY DEF Init
  <2>5. pc \in {"flags", "queries", "runs", "loop", "flush", "print", "exited", "killed"}
    BY DEF Init
  <2> QED  BY <2>2, <2>3, <2>4, <2>5 DEF Init, TypeOK
<1>2. Stage /\ Ended
  BY DEF Init, Stage, Ended
<1>3. Counted /\ InOrder
  <2>1. DOMAIN tried = {} /\ aborted = 0
    BY DEF Init
  <2> QED  BY <2>1 DEF Counted, InOrder
<1>4. Delivered
  <2>1. Reportable(entries) = <<>> /\ Reportable(tried) = <<>> /\ out = <<>>
    BY LinesEmpty DEF Init, Reportable
  <2>2. <<>> \o <<>> = <<>> /\ DOMAIN entries = {}
    BY DEF Init
  <2>3. out \o Reportable(entries) = Reportable(tried)
    BY <2>1, <2>2
  <2> QED  BY <2>2, <2>3 DEF Init, Delivered
<1>5. FinishedRunsKept
  BY DEF Init, FinishedRunsKept
<1> QED  BY <1>1, <1>2, <1>3, <1>4, <1>5 DEF Invariant

(* The steps that neither start, measure nor print anything. *)
LEMMA QuietSteps ==
  ASSUME Invariant,
         \/ RefuseFlags \/ AcceptFlags \/ DispatchPanics \/ EndRun \/ EndFlush
         \/ EndRuns \/ Finish \/ Kill \/ UNCHANGED vars
  PROVE  Invariant'
<1>0. /\ TypeOK /\ Stage /\ Ended
      /\ cmd.format = "benchstat" /\ pc \in {"runs", "print"} => entries = <<>>
  BY DEF Invariant, Delivered
<1>1. UNCHANGED <<cmd, queries, run, next, entries, out, aborted, tried>>
  BY DEF RefuseFlags, AcceptFlags, DispatchPanics, EndRun, EndFlush, EndRuns, Finish, Kill, vars
<1>2. /\ PerRun' = PerRun /\ (BadFlags <=> BadFlags')
      /\ (run > 0 => PerRun > 0 /\ run <= cmd.runs /\ run \in Nat /\ cmd.runs \in Nat)
  BY <1>0, <1>1, SomeBenchmark DEF PerRun, BadFlags
<1>3. CASE RefuseFlags
  <2>1. pc = "flags" /\ pc' = "exited" /\ exit' = 1 /\ run = 0
    BY <1>0, <1>3 DEF RefuseFlags, Exit, Stage
  <2>2. Stage' /\ Ended'
    BY <1>0, <1>1, <1>2, <2>1 DEF Stage, Ended
  <2> QED  BY <1>1, <2>1, <2>2, MovesOn
<1>4. CASE AcceptFlags
  <2>1. pc = "flags" /\ ~BadFlags /\ pc' = "queries" /\ exit' = exit /\ run = 0 /\ exit = -1
    BY <1>0, <1>4 DEF AcceptFlags, Stage, TypeOK
  <2>2. Stage' /\ Ended'
    BY <1>0, <1>1, <1>2, <2>1 DEF Stage, Ended
  <2> QED  BY <1>1, <2>1, <2>2, MovesOn
<1>5. CASE DispatchPanics
  <2>1. pc = "loop" /\ pc' = "exited" /\ exit' = 2
    BY <1>5 DEF DispatchPanics, InLoop, Exit
  <2>2. Stage' /\ Ended'
    BY <1>0, <1>1, <1>2, <2>1 DEF Stage, Ended
  <2> QED  BY <1>1, <2>1, <2>2, MovesOn
<1>6. CASE EndRun
  <2>1. /\ pc = "loop" /\ next = PerRun /\ exit' = exit /\ exit = -1
        /\ pc' = IF cmd.format = "benchstat" THEN "flush" ELSE "runs"
    BY <1>0, <1>6 DEF EndRun, TypeOK
  <2>2. Stage' /\ Ended'
    BY <1>0, <1>1, <1>2, <2>1 DEF Stage, Ended
  <2> QED  BY <1>1, <2>1, <2>2, MovesOn
<1>7. CASE EndFlush
  <2>1. pc = "flush" /\ entries = <<>> /\ exit' = exit /\ exit = -1 /\ pc' = "runs"
    BY <1>0, <1>7 DEF EndFlush, TypeOK
  <2>2. Stage' /\ Ended'
    BY <1>0, <1>1, <1>2, <2>1 DEF Stage, Ended
  <2> QED  BY <1>1, <2>1, <2>2, MovesOn
<1>8. CASE EndRuns
  <2>1. pc = "runs" /\ run = cmd.runs /\ exit' = exit /\ exit = -1 /\ pc' = "print"
    BY <1>0, <1>8 DEF EndRuns, TypeOK
  <2>2. run > 0
    BY <1>0, <2>1, CommandTypes DEF Stage, BadFlags, TypeOK
  <2>3. Stage' /\ Ended'
    BY <1>0, <1>1, <1>2, <2>1, <2>2 DEF Stage, Ended
  <2> QED  BY <1>0, <1>1, <2>1, <2>3, MovesOn
<1>9. CASE Finish
  <2>1. /\ pc = "print" /\ entries = <<>> /\ pc' = "exited"
        /\ exit' = IF aborted > 0 THEN 1 ELSE 0
    BY <1>9 DEF Finish, Exit
  <2>2. Stage' /\ Ended'
    BY <1>0, <1>1, <1>2, <2>1 DEF Stage, Ended
  <2> QED  BY <1>1, <2>1, <2>2, MovesOn
<1>10. CASE Kill
  <2>1. pc # "exited" /\ pc' = "killed" /\ exit' = exit /\ exit = -1
    BY <1>0, <1>10 DEF Kill, TypeOK
  <2>2. Stage' /\ Ended'
    BY <1>0, <1>1, <1>2, <2>1 DEF Stage, Ended
  <2> QED  BY <1>1, <2>1, <2>2, MovesOn
<1>11. CASE UNCHANGED vars
  <2>1. pc' = pc /\ exit' = exit
    BY <1>11 DEF vars
  <2>2. Stage' /\ Ended'
    BY <1>0, <1>1, <1>2, <2>1 DEF Stage, Ended
  <2>3. /\ exit \in -1..2 /\ (exit >= 0 <=> pc = "exited")
        /\ pc \in {"flags", "queries", "runs", "loop", "flush", "print", "exited", "killed"}
    BY <1>0 DEF TypeOK
  <2> QED  BY <1>0, <1>1, <2>1, <2>2, <2>3, MovesOn
<1> QED  BY <1>3, <1>4, <1>5, <1>6, <1>7, <1>8, <1>9, <1>10, <1>11

LEMMA ResolveStep == Invariant /\ resolveQueries => Invariant'
<1> SUFFICES ASSUME Invariant, resolveQueries PROVE Invariant'
  OBVIOUS
<1>0. TypeOK /\ Stage /\ Ended /\ cmd \in Commands
  BY DEF Invariant, TypeOK
<1>1. /\ pc = "queries" /\ exit = -1
      /\ run = 0 /\ queries = <<>> /\ tried = <<>> /\ next = 0
      /\ entries = <<>> /\ out = <<>> /\ aborted = 0 /\ ~BadFlags
      /\ UNCHANGED <<cmd, run, next, entries, out, aborted, tried>>
  <2>1. /\ pc = "queries"
        /\ UNCHANGED <<cmd, run, next, entries, out, aborted, tried>>
    BY DEF resolveQueries
  <2>2. exit = -1
    BY <1>0, <2>1 DEF TypeOK
  <2>3. /\ run = 0 /\ queries = <<>> /\ tried = <<>> /\ next = 0
        /\ entries = <<>> /\ out = <<>> /\ aborted = 0 /\ ~BadFlags
    BY <1>0, <2>1 DEF Stage
  <2> QED  BY <2>1, <2>2, <2>3
<1>2. \/ /\ queries' \in Seq([label: Texts, cypher: Texts]) /\ queries' # <<>>
         /\ cmd.file.given => Loads(cmd.file)
         /\ pc' = "runs" /\ exit' = exit
      \/ /\ queries' = queries /\ pc' = "exited" /\ exit' = 1
  <2>1. CASE ~cmd.file.given
    <3> DEFINE q == [label |-> "", cypher |-> cmd.cypher.text]
    <3>1. queries' = <<q>> /\ pc' = "runs" /\ exit' = exit
      BY <2>1 DEF resolveQueries
    <3>2. q \in [label: Texts, cypher: Texts]
      BY <1>0, CommandAssumption, TextAssumption
    <3> HIDE DEF q
    <3>3. <<q>> \in Seq([label: Texts, cypher: Texts]) /\ <<q>> # <<>>
      BY <3>2
    <3> QED  BY <2>1, <3>1, <3>3
  <2>2. CASE cmd.file.given /\ Loads(cmd.file)
    <3>1. queries' = cmd.file.queries /\ pc' = "runs" /\ exit' = exit
      BY <2>2 DEF resolveQueries
    <3>2. cmd.file.queries # <<>>
      BY <2>2 DEF Loads
    <3> QED  BY <1>0, <2>2, <3>1, <3>2, CommandTypes
  <2>3. CASE cmd.file.given /\ ~Loads(cmd.file)
    BY <2>3 DEF resolveQueries, Exit
  <2> QED  BY <2>1, <2>2, <2>3
<1>3. BadFlags <=> BadFlags'
  BY <1>1 DEF BadFlags
<1>4. TypeOK'
  <2>1. Len(queries') \in Nat /\ Len(cmd.tests) \in Nat
    BY <1>0, <1>1, <1>2, CommandTypes DEF TypeOK
  <2>2. Len(queries') * Len(cmd.tests) \in Nat
    BY <2>1
  <2>3. next' \in 0..(Len(queries') * Len(cmd'.tests))
    BY <1>1, <2>2
  <2>4. queries' \in Seq([label: Texts, cypher: Texts])
    BY <1>0, <1>2 DEF TypeOK
  <2> QED  BY <1>0, <1>1, <1>2, <2>3, <2>4 DEF TypeOK
<1>5. Stage' /\ Ended'
  BY <1>0, <1>1, <1>2, <1>3 DEF Stage, Ended
<1>6. Counted' /\ InOrder'
  <2>1. DOMAIN tried' = {} /\ aborted' = 0
    BY <1>1
  <2> QED  BY <2>1 DEF Counted, InOrder
<1>7. Delivered'
  BY <1>1 DEF Invariant, Delivered, Reportable
<1>8. FinishedRunsKept'
  BY <1>1 DEF FinishedRunsKept
<1> QED  BY <1>4, <1>5, <1>6, <1>7, <1>8 DEF Invariant

LEMMA BeginRunStep == Invariant /\ BeginRun => Invariant'
<1> SUFFICES ASSUME Invariant, BeginRun PROVE Invariant'
  OBVIOUS
<1>0. /\ TypeOK /\ Stage /\ Ended /\ Delivered /\ cmd \in Commands
      /\ out \in Seq(Records) /\ tried \in Seq(Records)
  BY DEF Invariant, TypeOK
<1>1. /\ pc = "runs" /\ exit = -1 /\ run < cmd.runs
      /\ pc' = "loop" /\ run' = run + 1 /\ next' = 0
      /\ UNCHANGED <<cmd, queries, entries, out, aborted, exit, tried>>
  BY <1>0 DEF BeginRun, TypeOK
<1>2. PerRun \in Nat /\ run \in Nat /\ PerRun' = PerRun /\ (BadFlags <=> BadFlags')
  BY <1>0, <1>1, SomeBenchmark DEF PerRun, BadFlags
<1>3. Len(tried) = run * PerRun
  <2>1. CASE run = 0
    BY <1>0, <1>2, <2>1 DEF Stage
  <2>2. CASE run > 0
    <3>1. Len(tried) = (run - 1) * PerRun + PerRun
      BY <1>0, <1>1, <2>2 DEF Stage
    <3>2. (run - 1) * PerRun = run * PerRun - PerRun
      BY <1>2
    <3> QED  BY <1>2, <3>1, <3>2
  <2> QED  BY <1>2, <2>1, <2>2
<1>4. TypeOK'
  <2>1. cmd.runs \in Int /\ run' \in 0..cmd.runs
    BY <1>0, <1>1, <1>2, CommandTypes
  <2>2. next' \in 0..(Len(queries') * Len(cmd'.tests))
    BY <1>1, <1>2 DEF PerRun
  <2> QED  BY <1>0, <1>1, <2>1, <2>2 DEF TypeOK
<1>5. Stage' /\ Ended'
  <2>1. run' > 0 /\ run' - 1 = run
    BY <1>1, <1>2
  <2>2. Len(tried') = (run' - 1) * PerRun' + next'
    BY <1>1, <1>2, <1>3, <2>1
  <2> QED  BY <1>0, <1>1, <1>2, <2>1, <2>2 DEF Stage, Ended
<1>6. Counted' /\ InOrder'
  BY <1>1 DEF Invariant, Counted, InOrder, Asked, PerRun
<1>7. Delivered'
  BY <1>0, <1>1 DEF Delivered, Reportable
<1>8. FinishedRunsKept'
  <2> SUFFICES ASSUME cmd.format = "benchstat"
               PROVE  IsPrefix(Lines(cmd.format, SubSeq(tried, 1, run * PerRun)), out)
    <3>1. run' - 1 = run
      BY <1>1, <1>2
    <3> QED  BY <1>1, <1>2, <3>1 DEF FinishedRunsKept, Reportable
  <2>1. entries = <<>> /\ out \o Lines(cmd.format, entries) = Lines(cmd.format, tried)
    BY <1>0, <1>1 DEF Delivered, Reportable
  <2>2. Lines(cmd.format, tried) = out
    BY <1>0, <2>1, LinesEmpty, ConcatEmptySeq
  <2>3. SubSeq(tried, 1, run * PerRun) = tried
    BY <1>0, <1>3, SubSeqFull
  <2>4. IsPrefix(out, out)
    BY <1>0, PrefixMeans
  <2> QED  BY <2>2, <2>3, <2>4
<1> QED  BY <1>4, <1>5, <1>6, <1>7, <1>8 DEF Invariant

(* A benchmark was tried, and what came of it is counted and kept. *)
LEMMA TriedStep ==
  ASSUME Invariant, InLoop, NEW o \in Outcomes, Tried(o),
         LET x == [item |-> Item(next), outcome |-> o]
         IN  /\ aborted' = IF CouldNotRun(x) THEN aborted + 1 ELSE aborted
             /\ entries' = IF o = Failed THEN entries ELSE Append(entries, x)
  PROVE  Invariant'
<1> DEFINE x == [item |-> Item(next), outcome |-> o]
           k == Len(tried) + 1
<1>0. /\ TypeOK /\ Stage /\ Ended /\ Counted /\ InOrder /\ Delivered /\ FinishedRunsKept
      /\ cmd \in Commands /\ Reportable(entries) = Lines(cmd.format, entries)
      /\ Reportable(tried) = Lines(cmd.format, tried)
      /\ out \in Seq(Records) /\ tried \in Seq(Records) /\ entries \in Seq(Records)
      /\ Len(tried) \in Nat /\ aborted \in 0..Len(tried)
  BY DEF Invariant, TypeOK, Reportable
<1>1. /\ pc = "loop" /\ next < PerRun /\ run > 0 /\ exit = -1
      /\ tried' = Append(tried, x) /\ next' = next + 1
      /\ aborted' = IF CouldNotRun(x) THEN aborted + 1 ELSE aborted
      /\ entries' = IF o = Failed THEN entries ELSE Append(entries, x)
      /\ UNCHANGED <<cmd, pc, queries, run, out, exit>>
  BY <1>0 DEF InLoop, Tried, Stage, TypeOK
<1>2. PerRun' = PerRun /\ Asked' = Asked /\ (BadFlags <=> BadFlags')
  BY <1>1 DEF PerRun, Asked, BadFlags
<1>3. /\ PerRun \in Nat /\ run \in Nat \ {0} /\ next \in Nat /\ (run - 1) * PerRun \in Nat
      /\ Len(tried) = (run - 1) * PerRun + next
  <2>1. PerRun \in Nat /\ run \in Nat \ {0} /\ next \in Nat
    BY <1>0, <1>1, SomeBenchmark
  <2>2. (run - 1) * PerRun \in Nat
    BY <2>1
  <2> QED  BY <1>0, <1>1, <2>1, <2>2 DEF Stage
<1>4. x \in Records /\ x.outcome = o /\ x.item = Asked[k]
  BY <1>0, <1>1, <1>3, ItemIsAsked DEF Records
<1> HIDE DEF x
<1>5. /\ tried' \in Seq(Records) /\ Len(tried') = k /\ tried'[k] = x
      /\ \A i \in 1..Len(tried) : tried'[i] = tried[i]
      /\ entries' \in Seq(Records)
  BY <1>0, <1>1, <1>4, AppendProperties
<1>6. TypeOK'
  <2>1. next' \in 0..(Len(queries') * Len(cmd'.tests))
    BY <1>1, <1>3 DEF PerRun
  <2>2. aborted' \in 0..Len(tried')
    BY <1>0, <1>1, <1>5
  <2> QED  BY <1>0, <1>1, <1>5, <2>1, <2>2 DEF TypeOK
<1>7. Stage' /\ Ended'
  <2>1. Len(tried') = (run' - 1) * PerRun' + next'
    BY <1>1, <1>2, <1>3, <1>5
  <2> QED  BY <1>0, <1>1, <1>2, <2>1 DEF Stage, Ended
<1>8. DOMAIN tried' = DOMAIN tried \cup {k} /\ \A i \in DOMAIN tried : tried'[i] = tried[i]
  <2>1. DOMAIN tried' = 1..k /\ DOMAIN tried = 1..Len(tried)
    BY <1>0, <1>5
  <2> QED  BY <1>0, <1>5, <2>1
<1> HIDE DEF k
<1>9. Counted'
  <2>1. (\E i \in DOMAIN tried' : CouldNotRun(tried'[i])) <=>
          CouldNotRun(x) \/ \E i \in DOMAIN tried : CouldNotRun(tried[i])
    BY <1>5, <1>8
  <2>2. aborted' > 0 <=> CouldNotRun(x) \/ aborted > 0
    BY <1>0, <1>1
  <2> QED  BY <1>0, <2>1, <2>2 DEF Counted
<1>10. InOrder'
  BY <1>0, <1>2, <1>4, <1>5, <1>8 DEF InOrder
<1>11. Delivered'
  <2>1. Lines(cmd.format, tried') =
          IF HasLine(cmd.format, x) THEN Append(Lines(cmd.format, tried), x)
          ELSE Lines(cmd.format, tried)
    BY <1>0, <1>1, <1>4, LinesAppend
  <2>2. /\ Lines(cmd.format, tried) \in Seq(Records)
        /\ Lines(cmd.format, entries) \in Seq(Records)
        /\ out \o Lines(cmd.format, entries) = Lines(cmd.format, tried)
    BY <1>0, LinesType DEF Delivered
  <2>3. out \o Lines(cmd.format, entries') = Lines(cmd.format, tried')
    <3>1. CASE o = Failed
      <4>1. ~HasLine(cmd.format, x)
        BY <1>4, <3>1 DEF HasLine
      <4> QED  BY <1>1, <2>1, <2>2, <3>1, <4>1
    <3>2. CASE o # Failed
      <4>1. Lines(cmd.format, entries') =
              IF HasLine(cmd.format, x) THEN Append(Lines(cmd.format, entries), x)
              ELSE Lines(cmd.format, entries)
        <5>1. entries' = Append(entries, x)
          BY <1>1, <3>2
        <5>2. Lines(cmd.format, Append(entries, x)) =
                IF HasLine(cmd.format, x) THEN Append(Lines(cmd.format, entries), x)
                ELSE Lines(cmd.format, entries)
          BY <1>0, <1>4, LinesAppend
        <5> QED  BY <5>1, <5>2
      <4>2. out \o Append(Lines(cmd.format, entries), x)
              = Append(out \o Lines(cmd.format, entries), x)
        BY <1>0, <1>4, <2>2
      <4> QED  BY <2>1, <2>2, <4>1, <4>2
    <3> QED  BY <3>1, <3>2
  <2>4. \A i \in DOMAIN entries' : entries'[i].outcome # Failed
    <3>1. CASE o = Failed
      BY <1>0, <1>1, <3>1 DEF Delivered
    <3>2. CASE o # Failed
      <4>1. /\ Len(entries') = Len(entries) + 1 /\ entries'[Len(entries) + 1] = x
            /\ \A i \in 1..Len(entries) : entries'[i] = entries[i]
            /\ DOMAIN entries' = 1..Len(entries') /\ DOMAIN entries = 1..Len(entries)
            /\ Len(entries) \in Nat
        BY <1>0, <1>1, <1>4, <1>5, <3>2, AppendProperties
      <4> QED  BY <1>0, <1>4, <3>2, <4>1 DEF Delivered
    <3> QED  BY <3>1, <3>2
  <2> QED  BY <1>1, <2>3, <2>4 DEF Delivered, Reportable
<1>12. FinishedRunsKept'
  <2> DEFINE n == (run - 1) * PerRun
  <2>1. n \in Nat /\ n <= Len(tried)
    BY <1>3
  <2>2. SubSeq(tried', 1, n) = SubSeq(tried, 1, n)
    <3> HIDE DEF n
    <3>1. \A i \in 1..n : i \in 1..Len(tried) /\ tried'[i] = tried[i] /\ tried[i] \in Records
      BY <1>0, <1>5, <2>1
    <3>2. \A i \in 1..n : tried'[i] \in Records
      BY <3>1
    <3>3. /\ SubSeq(tried, 1, n) \in Seq(Records) /\ Len(SubSeq(tried, 1, n)) = n
          /\ \A i \in 1..n : SubSeq(tried, 1, n)[i] = tried[i]
      BY <2>1, <3>1, SubSeqProperties
    <3>4. /\ SubSeq(tried', 1, n) \in Seq(Records) /\ Len(SubSeq(tried', 1, n)) = n
          /\ \A i \in 1..n : SubSeq(tried', 1, n)[i] = tried'[i]
      BY <2>1, <3>2, SubSeqProperties
    <3> QED  BY <3>1, <3>3, <3>4, SeqEqual
  <2> HIDE DEF n
  <2>3. n = (run - 1) * PerRun
    BY DEF n
  <2> QED  BY <1>0, <1>1, <1>2, <2>2, <2>3 DEF FinishedRunsKept, Reportable
<1> QED  BY <1>6, <1>7, <1>9, <1>10, <1>11, <1>12 DEF Invariant

LEMMA DispatchSteps == Invariant /\ (DispatchFails \/ DispatchReturns) => Invariant'
<1> SUFFICES ASSUME Invariant, DispatchFails \/ DispatchReturns PROVE Invariant'
  OBVIOUS
<1>0. cmd.requests \in Int
  BY CommandTypes DEF Invariant, TypeOK
<1>1. CASE DispatchFails
  <2>1. /\ InLoop /\ Tried(Failed) /\ aborted' = aborted + 1 /\ entries' = entries
        /\ Failed \in Outcomes
    BY <1>1 DEF DispatchFails, Failed, Outcomes
  <2>2. \A x : x.outcome = Failed => CouldNotRun(x)
    BY DEF CouldNotRun
  <2> HIDE DEF Failed
  <2> QED  BY <2>1, <2>2, TriedStep
<1>2. CASE DispatchReturns
  <2>1. PICK o \in Returned :
          /\ Tried(o)
          /\ aborted' = IF o.requests > 0 /\ o.success = 0 THEN aborted + 1 ELSE aborted
          /\ entries' = Append(entries, [item |-> Item(next), outcome |-> o])
    BY <1>2 DEF DispatchReturns
  <2>2. o \in Outcomes /\ o # Failed /\ InLoop
    BY <1>0, <1>2, <2>1 DEF Returned, Outcomes, Failed, DispatchReturns
  <2>3. \A x : x.outcome = o => (CouldNotRun(x) <=> o.requests > 0 /\ o.success = 0)
    BY <2>2 DEF CouldNotRun, AllFailed
  <2> QED  BY <2>1, <2>2, <2>3, TriedStep
<1> QED  BY <1>1, <1>2

(* Entries taken from the front of the list, those with a line written. *)
LEMMA TakenStep ==
  ASSUME Invariant, pc \in {"flush", "print"},
         NEW a \in Seq(Records), NEW b \in Seq(Records), entries = a \o b,
         entries' = b, out' = out \o Lines(cmd.format, a),
         UNCHANGED <<cmd, pc, queries, run, next, aborted, exit, tried>>
  PROVE  Invariant'
<1>0. /\ TypeOK /\ Stage /\ Ended /\ Delivered
      /\ out \in Seq(Records) /\ tried \in Seq(Records) /\ entries \in Seq(Records)
      /\ cmd \in Commands /\ exit = -1
  BY DEF Invariant, TypeOK
<1>1. /\ Lines(cmd.format, a) \in Seq(Records) /\ Lines(cmd.format, b) \in Seq(Records)
      /\ Lines(cmd.format, entries) = Lines(cmd.format, a) \o Lines(cmd.format, b)
  BY LinesType, LinesConcat
<1>2. out' \in Seq(Records)
  BY <1>0, <1>1
<1>3. TypeOK'
  BY <1>0, <1>2 DEF TypeOK
<1>4. Stage' /\ Ended'
  <2>1. PerRun' = PerRun /\ (BadFlags <=> BadFlags') /\ run > 0
    BY <1>0 DEF PerRun, BadFlags, Stage
  <2> QED  BY <1>0, <2>1 DEF Stage, Ended
<1>5. Counted' /\ InOrder'
  BY DEF Invariant, Counted, InOrder, Asked, PerRun
<1>6. Delivered'
  <2>1. out \o (Lines(cmd.format, a) \o Lines(cmd.format, b)) = Lines(cmd.format, tried)
    BY <1>0, <1>1 DEF Delivered, Reportable
  <2>2. out' \o Lines(cmd.format, b) = Lines(cmd.format, tried)
    <3>1. (out \o Lines(cmd.format, a)) \o Lines(cmd.format, b)
             = out \o (Lines(cmd.format, a) \o Lines(cmd.format, b))
      <4>1. \A s, t, u \in Seq(Records) : (s \o t) \o u = s \o (t \o u)
        BY ConcatAssociative, SMTT(30)
      <4>2. /\ out \in Seq(Records)
            /\ Lines(cmd.format, a) \in Seq(Records) /\ Lines(cmd.format, b) \in Seq(Records)
        BY <1>0, <1>1
      <4> QED  BY <4>1, <4>2, ZenonT(60)
    <3> QED  BY <2>1, <3>1
  <2>3. /\ Len(entries) = Len(a) + Len(b) /\ Len(a) \in Nat /\ Len(b) \in Nat
        /\ \A i \in 1..Len(b) : entries[Len(a) + i] = b[i]
    <3>1. /\ Len(a \o b) = Len(a) + Len(b) /\ Len(a) \in Nat /\ Len(b) \in Nat
          /\ \A i \in 1..Len(a) + Len(b) :
               (a \o b)[i] = IF i <= Len(a) THEN a[i] ELSE b[i - Len(a)]
      BY ConcatProperties
    <3>2. ASSUME NEW i \in 1..Len(b) PROVE (a \o b)[Len(a) + i] = b[i]
      <4>1. Len(a) + i \in 1..Len(a) + Len(b) /\ ~(Len(a) + i <= Len(a)) /\ Len(a) + i - Len(a) = i
        BY <3>1
      <4> QED  BY <3>1, <4>1
    <3> QED  BY <3>1, <3>2
  <2>4. \A i \in DOMAIN b : b[i].outcome # Failed
    <3>1. ASSUME NEW i \in 1..Len(b) PROVE b[i].outcome # Failed
      <4>1. Len(a) + i \in DOMAIN entries
        BY <1>0, <2>3
      <4> QED  BY <1>0, <2>3, <4>1 DEF Delivered
    <3> QED  BY <3>1
  <2>5. cmd.format = "benchstat" /\ pc = "print" => b = <<>>
    <3> SUFFICES ASSUME cmd.format = "benchstat", pc = "print" PROVE b = <<>>
      OBVIOUS
    <3>1. a \o b = <<>>
      BY <1>0 DEF Delivered
    <3> QED  BY <3>1, ConcatEqualIffEmpty
  <2> QED  BY <2>2, <2>4, <2>5 DEF Delivered, Reportable
<1>7. FinishedRunsKept'
  <2> SUFFICES ASSUME cmd.format = "benchstat", run > 0
               PROVE  IsPrefix(Lines(cmd.format, SubSeq(tried, 1, (run - 1) * PerRun)), out')
    BY DEF FinishedRunsKept, Reportable, PerRun
  <2> DEFINE s == SubSeq(tried, 1, (run - 1) * PerRun)
  <2>1. IsPrefix(Lines(cmd.format, s), out)
    BY DEF Invariant, FinishedRunsKept, Reportable
  <2>2. s \in Seq(Records)
    <3>1. /\ PerRun \in Nat /\ run \in Nat \ {0} /\ next \in Nat /\ Len(tried) \in Nat
          /\ Len(tried) = (run - 1) * PerRun + next
      BY <1>0, SomeBenchmark DEF Stage
    <3>2. (run - 1) * PerRun \in Nat /\ (run - 1) * PerRun <= Len(tried)
      BY <3>1
    <3>3. \A i \in 1..(run - 1) * PerRun : tried[i] \in Records
      BY <1>0, <3>1, <3>2
    <3> QED  BY <3>2, <3>3, SubSeqProperties
  <2> HIDE DEF s
  <2>3. Lines(cmd.format, s) \in Seq(Records)
    BY <2>2, LinesType
  <2>4. IsPrefix(Lines(cmd.format, s), out \o Lines(cmd.format, a))
    BY <1>0, <1>1, <2>1, <2>3, PrefixGrows
  <2> QED  BY <2>4 DEF s
<1> QED  BY <1>3, <1>4, <1>5, <1>6, <1>7 DEF Invariant

LEMMA PrintingSteps == Invariant /\ (FlushLine \/ FlushNothing \/ Output) => Invariant'
<1> SUFFICES ASSUME Invariant, FlushLine \/ FlushNothing \/ Output PROVE Invariant'
  OBVIOUS
<1>0. /\ entries \in Seq(Records) /\ Delivered
      /\ pc \in {"flush", "print"} /\ entries # <<>>
      /\ pc = "print" => cmd.format # "benchstat"
  BY DEF Invariant, TypeOK, Delivered, FlushLine, FlushNothing, Output
<1>1. Len(entries) \in Nat \ {0}
  BY <1>0, EmptySeq
<1>2. /\ \A i \in 1..Len(entries) : entries[i] \in Records /\ entries[i].outcome # Failed
      /\ Head(entries) = entries[1] /\ 1 \in 1..Len(entries)
  BY <1>0, <1>1 DEF Delivered
<1>3. ASSUME NEW n \in 1..Len(entries), Write(n), \A i \in 1..n : HasLine(cmd.format, entries[i])
      PROVE  Invariant'
  <2> DEFINE a == SubSeq(entries, 1, n)
             b == SubSeq(entries, n + 1, Len(entries))
  <2>1. n \in Nat /\ n + 1 \in Nat /\ \A i \in 1..n : i \in 1..Len(entries)
    BY <1>1
  <2>2. /\ a \in Seq(Records) /\ Len(a) = n /\ \A i \in 1..n : a[i] = entries[i]
    BY <1>1, <1>2, <2>1, SubSeqProperties
  <2>3. b \in Seq(Records)
    BY <1>1, <1>2, <2>1, SubSeqProperties
  <2>4. entries = a \o b
    <3>1. /\ 1 \in 1..Len(entries) + 1 /\ n \in 1 - 1..Len(entries)
          /\ Len(entries) \in n..Len(entries)
      BY <1>1
    <3>2. a \o b = SubSeq(entries, 1, Len(entries))
      BY <1>0, <3>1, ConcatAdjacentSubSeq
    <3> QED  BY <1>0, <3>2, SubSeqFull
  <2>5. /\ out' = out \o a /\ entries' = b
        /\ UNCHANGED <<cmd, pc, queries, run, next, aborted, exit, tried>>
    BY <1>3 DEF Write
  <2> HIDE DEF a, b
  <2>6. Lines(cmd.format, a) = a
    BY <1>3, <2>2, LinesOfAll
  <2> QED  BY <1>0, <2>2, <2>3, <2>4, <2>5, <2>6, TakenStep
<1>4. CASE FlushLine
  <2>1. Write(1) /\ Head(entries).outcome.success > 0
    BY <1>4 DEF FlushLine
  <2>2. \A i \in 1..1 : HasLine(cmd.format, entries[i])
    BY <1>2, <2>1 DEF HasLine
  <2> QED  BY <1>2, <1>3, <2>1, <2>2
<1>5. CASE FlushNothing
  <2> DEFINE h == Head(entries)
  <2>1. /\ pc = "flush" /\ h.outcome.success = 0 /\ entries' = Tail(entries)
        /\ UNCHANGED <<cmd, pc, queries, run, next, out, aborted, exit, tried>>
    BY <1>5 DEF FlushNothing
  <2>2. h \in Records /\ Tail(entries) \in Seq(Records) /\ entries = <<h>> \o Tail(entries)
    BY <1>0, <1>1, <1>2, HeadTailProperties
  <2> HIDE DEF h
  <2>3. cmd.format = "benchstat"
    BY <2>1 DEF Invariant, Stage
  <2>4. Lines(cmd.format, <<h>>) = <<>>
    <3>1. ~HasLine(cmd.format, h)
      BY <2>1, <2>3 DEF HasLine
    <3> QED  BY <2>2, <3>1, LinesOfOne
  <2>5. <<h>> \in Seq(Records) /\ out' = out \o Lines(cmd.format, <<h>>)
    <3>1. out \in Seq(Records)
      BY DEF Invariant, TypeOK
    <3> QED  BY <2>1, <2>2, <2>4, <3>1, ConcatEmptySeq
  <2> QED  BY <1>0, <2>1, <2>2, <2>5, TakenStep
<1>6. CASE Output
  <2>1. PICK n \in {1, Len(entries)} : Write(n)
    BY <1>6 DEF Output
  <2>2. n \in 1..Len(entries)
    BY <1>1
  <2>3. \A i \in 1..n : HasLine(cmd.format, entries[i])
    <3>1. cmd.format # "benchstat"
      BY <1>0, <1>6 DEF Output
    <3>2. \A i \in 1..n : i \in 1..Len(entries)
      BY <1>1, <2>2
    <3> QED  BY <1>2, <3>1, <3>2 DEF HasLine
  <2> QED  BY <1>3, <2>1, <2>2, <2>3
<1> QED  BY <1>4, <1>5, <1>6

LEMMA InvariantHolds == Spec => []Invariant
<1>1. Invariant /\ [Next]_vars => Invariant'
  BY QuietSteps, ResolveStep, BeginRunStep, DispatchSteps, PrintingSteps DEF Next
<1> QED  BY <1>1, InvariantInit, PTL DEF Spec

(***************************************************************************)
(* The command is type correct for every command line, its counters within *)
(* what the command line asks for.                                         *)
(***************************************************************************)
THEOREM TypeCorrect == Spec => []TypeOK
<1>1. Invariant => TypeOK
  BY DEF Invariant
<1> QED  BY <1>1, InvariantHolds, PTL

(***************************************************************************)
(* With benchstat, whatever kills the command, the results of the runs     *)
(* before the one under way are on stdout.                                 *)
(***************************************************************************)
THEOREM RunsAreKept == Spec => []FinishedRunsKept
<1>1. Invariant => FinishedRunsKept
  BY DEF Invariant
<1> QED  BY <1>1, InvariantHolds, PTL

(* The invariant, at the end of the command or before, gives the report. *)
LEMMA Exact == Invariant => ReportExact
<1> SUFFICES ASSUME Invariant PROVE ReportExact
  OBVIOUS
<1> DEFINE N == cmd.runs * PerRun
           T == [k \in DOMAIN tried |-> tried[k].item]
           S == {Asked[k] : k \in 1..N}
<1>0. /\ TypeOK /\ Stage /\ Ended /\ InOrder /\ Delivered
      /\ out \in Seq(Records) /\ tried \in Seq(Records) /\ exit \in -1..2
      /\ pc = "exited" => exit >= 0
  BY DEF Invariant, TypeOK
<1>1. N \in Int /\ DOMAIN Asked = 1..N /\ PerRun \in Nat /\ cmd.runs \in Int
  <2>1. PerRun \in Nat /\ cmd.runs \in Int
    BY <1>0, SomeBenchmark, CommandTypes DEF TypeOK
  <2> QED  BY <2>1 DEF Asked
<1>2. Asked \in Seq(S) /\ Len(Asked) = IF N >= 0 THEN N ELSE 0
  <2> DEFINE M == IF N >= 0 THEN N ELSE 0
  <2>1. M \in Nat /\ 1..N = 1..M
    BY <1>1
  <2>2. Asked = [k \in 1..N |-> Asked[k]]
    BY DEF Asked
  <2> HIDE DEF M, N
  <2>3. Asked \in [1..M -> S]
    BY <2>1, <2>2
  <2> HIDE DEF S
  <2>4. Asked \in Seq(S)
    BY <2>1, <2>3, SeqDef
  <2>5. Len(Asked) = M
    BY <1>1, <2>1, <2>4, LenProperties
  <2> QED  BY <2>4, <2>5 DEF M
<1>3. /\ Len(tried) \in Nat /\ DOMAIN tried = 1..Len(tried) /\ Len(tried) <= Len(Asked)
      /\ pc = "exited" /\ exit # 2 /\ run > 0 => Len(tried) = run * PerRun /\ run = cmd.runs
  <2>1. Len(tried) \in Nat /\ DOMAIN tried = 1..Len(tried)
    BY <1>0
  <2>2. CASE run = 0
    BY <1>0, <1>1, <1>2, <2>1, <2>2 DEF Stage
  <2>3. CASE run > 0
    <3>1. /\ run \in Nat /\ run <= cmd.runs /\ next <= PerRun /\ next \in Nat
          /\ Len(tried) = (run - 1) * PerRun + next
      BY <1>0, <2>3, SomeBenchmark DEF Stage
    <3>2. /\ (cmd.runs - run) * PerRun >= 0
          /\ (cmd.runs - run) * PerRun = N - run * PerRun
          /\ (run - 1) * PerRun = run * PerRun - PerRun
          /\ run * PerRun >= 0
      BY <1>1, <3>1
    <3>3. N >= 0 /\ Len(tried) <= N
      BY <1>1, <3>1, <3>2
    <3>4. ASSUME pc = "exited", exit # 2
          PROVE  Len(tried) = run * PerRun /\ run = cmd.runs
      <4>1. exit \in {0, 1}
        BY <1>0, <3>4
      <4>2. run = cmd.runs /\ next = PerRun
        BY <1>0, <2>3, <4>1 DEF Ended
      <4> QED  BY <1>1, <3>1, <3>2, <4>2
    <3> QED  BY <1>2, <2>1, <3>3, <3>4
  <2> QED  BY <1>0, <2>2, <2>3, SomeBenchmark
<1>4. IsPrefix(T, Asked)
  <2> HIDE DEF N
  <2>1. \A k \in 1..Len(tried) : k \in 1..Len(Asked) /\ Asked[k] \in S /\ T[k] = Asked[k]
    <3>1. \A k \in 1..Len(tried) : T[k] = Asked[k]
      BY <1>0, <1>3 DEF InOrder
    <3>2. Len(Asked) \in Nat /\ DOMAIN Asked = 1..Len(Asked)
      BY <1>2
    <3>3. \A k \in 1..Len(tried) : k \in 1..Len(Asked) /\ k \in 1..N
      <4>1. Len(tried) \in Nat /\ Len(tried) <= Len(Asked) /\ 1..N = 1..Len(Asked)
        BY <1>1, <1>3, <3>2
      <4>2. ASSUME NEW k \in 1..Len(tried) PROVE k \in 1..Len(Asked)
        BY <3>2, <4>1
      <4> QED  BY <4>1, <4>2
    <3>4. \A k \in 1..N : Asked[k] \in S
      OBVIOUS
    <3> HIDE DEF S, T
    <3> QED  BY <3>1, <3>3, <3>4
  <2>2. T \in [1..Len(tried) -> S]
    <3>1. T = [k \in 1..Len(tried) |-> tried[k].item]
      BY <1>3
    <3>2. \A k \in 1..Len(tried) : tried[k].item \in S
      BY <1>3, <2>1
    <3> HIDE DEF T, S
    <3> QED  BY <3>1, <3>2
  <2> HIDE DEF T, S
  <2>3. T \in Seq(S)
    BY <1>3, <2>2, SeqDef
  <2>4. Len(T) = Len(tried)
    BY <1>3, <2>2, <2>3, LenProperties
  <2> QED  BY <1>2, <1>3, <2>1, <2>3, <2>4, PrefixMeans
<1>5. /\ IsPrefix(out, Reportable(tried))
      /\ entries = <<>> => out = Reportable(tried)
  <2>1. entries \in Seq(Records) /\ Lines(cmd.format, entries) \in Seq(Records)
    BY <1>0, LinesType DEF TypeOK
  <2>2. out \o Lines(cmd.format, entries) = Reportable(tried)
    BY <1>0 DEF Delivered, Reportable
  <2>3. IsPrefix(out, Reportable(tried))
    BY <1>0, <2>1, <2>2, PrefixOfConcat
  <2>4. ASSUME entries = <<>> PROVE out = Reportable(tried)
    BY <1>0, <2>2, <2>4, LinesEmpty, ConcatEmptySeq
  <2> QED  BY <2>3, <2>4
<1>6. pc = "exited" /\ exit # 2 /\ run > 0 => entries = <<>>
  <2>1. pc = "exited" /\ exit # 2 => exit \in {0, 1}
    BY <1>0
  <2> QED  BY <1>0, <2>1 DEF Ended
<1> HIDE DEF T
<1>7. IsPrefix([k \in DOMAIN tried |-> tried[k].item], Asked)
  BY <1>4 DEF T
<1> QED  BY <1>3, <1>5, <1>6, <1>7 DEF ReportExact

(***************************************************************************)
(* stdout never holds anything but results obtained, in order, each once;  *)
(* and a command that ends by itself tried every benchmark of each run it  *)
(* began, with benchstat as many runs as -runs says, and wrote every       *)
(* result its format has a line for.                                       *)
(***************************************************************************)
THEOREM ReportIsExact == Spec => []ReportExact
  BY InvariantHolds, Exact, PTL

(***************************************************************************)
(* The exit code tells a script whether every benchmark ran: 0 after all   *)
(* of them returned a result that is not all failures, 1 before any        *)
(* request or after some benchmark that could not run.                     *)
(***************************************************************************)
THEOREM ExitIsTrue == Spec => []ExitTellsTruth
<1>1. Invariant => ExitTellsTruth
  <2> SUFFICES ASSUME Invariant PROVE ExitTellsTruth
    OBVIOUS
  <2>1. /\ TypeOK /\ Stage /\ Ended /\ Counted
        /\ run \in Nat /\ tried \in Seq(Records) /\ exit \in -1..2
        /\ exit >= 0 => pc = "exited"
    <3>1. /\ TypeOK /\ Stage /\ Ended /\ Counted
      BY DEF Invariant
    <3>2. run \in Nat /\ tried \in Seq(Records) /\ exit \in -1..2 /\ (exit >= 0 => pc = "exited")
      BY <3>1 DEF TypeOK
    <3> QED  BY <3>1, <3>2
  <2>2. tried # <<>> => run > 0
    BY <2>1 DEF Stage
  <2>3. ASSUME exit \in {0, 1}, run > 0
        PROVE  Len(tried) = run * PerRun /\ tried # <<>> /\ (exit = 1 <=> aborted > 0)
    <3>2. next = PerRun /\ run = cmd.runs /\ (exit = 1 <=> aborted > 0)
      BY <2>1, <2>3 DEF Ended
    <3>3. PerRun \in Nat \ {0}
      BY <2>1, <2>3, SomeBenchmark
    <3>4. Len(tried) = (run - 1) * PerRun + next
      BY <2>1, <2>3 DEF Stage
    <3>5. (run - 1) * PerRun >= 0
      BY <2>1, <2>3, <3>3
    <3>6. Len(tried) > 0
      BY <2>1, <3>2, <3>3, <3>4, <3>5
    <3>7. tried # <<>>
      BY <2>1, <3>6, EmptySeq
    <3>8. Len(tried) = run * PerRun
      BY <2>1, <3>2, <3>3, <3>4
    <3> QED  BY <3>2, <3>7, <3>8
  <2>4. exit = 0 => run > 0
    BY <2>1 DEF Ended
  <2>5. aborted > 0 <=>
          \E k \in DOMAIN tried : tried[k].outcome = Failed \/ AllFailed(tried[k].outcome)
    BY <2>1 DEF Counted, CouldNotRun
  <2>6. exit = 1 /\ tried = <<>> => out = <<>> /\ run = 0
    BY <2>1, <2>3 DEF Stage
  <2>7. ASSUME tried # <<>>, cmd.file.given
        PROVE  ~cmd.cypher.explicit /\ "" \notin UNION {{q.label, q.cypher} : q \in Range(cmd.file.queries)}
    <3>1. ~BadFlags /\ Loads(cmd.file)
      BY <2>1, <2>2, <2>7 DEF Stage
    <3>2. \A i \in DOMAIN cmd.file.queries :
             cmd.file.queries[i].label # "" /\ cmd.file.queries[i].cypher # ""
      BY <3>1 DEF Loads
    <3>3. \A q \in Range(cmd.file.queries) : q.label # "" /\ q.cypher # ""
      BY <3>2 DEF Range
    <3> QED  BY <2>7, <3>1, <3>3 DEF BadFlags
  <2> QED  BY <2>2, <2>3, <2>4, <2>5, <2>6, <2>7 DEF ExitTellsTruth
<1> QED  BY <1>1, InvariantHolds, PTL

=============================================================================
