------------------------------ MODULE PoolProofs ------------------------------
(***************************************************************************)
(* Proofs about module Pool, for every set of configurations, every        *)
(* cluster, every floor of the pool size and any number of dials.          *)
(***************************************************************************)
EXTENDS Pool, FiniteSetTheorems, SequenceTheorems, TLAPS

Emptied == \A h \in Hosts : idle[h] = <<>>

(* What the client's phase says of the workers and of the pool. *)
Lifetime ==
  /\ size = IF phase = "none" THEN 0 ELSE MaxIdle(cfg)
  /\ phase # "open" => Emptied /\ \A w \in Workers : todo[w] = <<>>
  /\ ~Session => Emptied
  /\ phase # "released" => ~closeIdle
  /\ phase = "released" /\ Session => closeIdle /\ \A h \in Hosts : ~warm[h]

(* Only a request is given a connection. *)
Attached == \A w \in Workers : conn[w] # "none" => todo[w] # <<>>

(* The proxy closes no connection before its time. *)
ClosedLate ==
  \A h \in Hosts : \A i \in DOMAIN idle[h] : idle[h][i].dead => idle[h][i].age >= KeepAlive

Invariant ==
  /\ TypeOK /\ IsFiniteSet(Pooled)
  /\ Lifetime /\ Attached /\ ClosedLate /\ NoDeadConnection

-----------------------------------------------------------------------------
(* The pool a session client is given holds a connection per worker. *)
LEMMA Settings ==
  ASSUME NEW c \in Configs
  PROVE  /\ Started(c) \in Nat \ {0} /\ MaxIdle(c) \in Nat
         /\ c.test \in SessionTests => Started(c) <= MaxIdle(c)
         /\ c.test \notin SessionTests => MaxIdle(c) = 0
<1>1. c.workers \in Int /\ c.requests \in Int /\ MinPoolSize \in Nat /\ MinPoolSize > 0
  BY ConfigAssumption, PoolAssumption
<1>2. Started(c) \in Nat \ {0}
  BY <1>1 DEF Started
<1>3. SharedBy(c) \in Int /\ (Started(c) = 1 \/ Started(c) <= SharedBy(c))
  BY <1>1 DEF Started, SharedBy, effectiveConcurrency
<1> HIDE DEF Started, SharedBy
<1>4. /\ poolSize(SharedBy(c)) \in Nat \ {0}
      /\ 2 * SharedBy(c) <= poolSize(SharedBy(c))
  BY <1>1, <1>3 DEF poolSize
<1>5. Started(c) <= poolSize(SharedBy(c))
  BY <1>2, <1>3, <1>4
<1> QED  BY <1>2, <1>4, <1>5 DEF MaxIdle

-----------------------------------------------------------------------------
(***************************************************************************)
(* Lists of idle connections.                                              *)
(***************************************************************************)
(* Every connection of s is one of t. *)
From(s, t) == \A i \in DOMAIN s : \E j \in DOMAIN t : s[i] = t[j]

LEMMA FrontOf ==
  ASSUME NEW S, NEW s \in Seq(S), s # <<>>
  PROVE  /\ Front(s) \in Seq(S) /\ Len(Front(s)) = Len(s) - 1
         /\ From(Front(s), s)
         /\ Len(s) \in DOMAIN s /\ Last(s) = s[Len(s)]
<1>1. Len(s) \in Nat \ {0} /\ DOMAIN s = 1..Len(s)
  BY EmptySeq
<1>2. /\ Front(s) \in Seq(S) /\ Len(Front(s)) = Len(s) - 1
      /\ \A i \in 1..(Len(s) - 1) : Front(s)[i] = s[i]
  BY <1>1, SubSeqProperties DEF Front
<1> QED  BY <1>1, <1>2 DEF From, Last

LEMMA TailOf ==
  ASSUME NEW S, NEW s \in Seq(S), s # <<>>
  PROVE  Tail(s) \in Seq(S) /\ Len(Tail(s)) = Len(s) - 1 /\ From(Tail(s), s)
<1>1. Len(s) \in Nat \ {0} /\ DOMAIN s = 1..Len(s)
  BY EmptySeq
<1>2. /\ Tail(s) \in Seq(S) /\ Len(Tail(s)) = Len(s) - 1
      /\ \A i \in 1..(Len(s) - 1) : Tail(s)[i] = s[i + 1]
  BY <1>1, HeadTailProperties
<1>3. \A i \in 1..(Len(s) - 1) : i + 1 \in DOMAIN s
  BY <1>1
<1> QED  BY <1>1, <1>2, <1>3 DEF From

LEMMA RemoveAtOf ==
  ASSUME NEW S, NEW s \in Seq(S), NEW k \in DOMAIN s
  PROVE  /\ RemoveAt(s, k) \in Seq(S) /\ Len(RemoveAt(s, k)) = Len(s) - 1
         /\ From(RemoveAt(s, k), s)
<1> DEFINE a == SubSeq(s, 1, k - 1)
           b == SubSeq(s, k + 1, Len(s))
<1>1. Len(s) \in Nat /\ k \in 1..Len(s) /\ DOMAIN s = 1..Len(s)
  OBVIOUS
<1>2. /\ a \in Seq(S) /\ Len(a) = k - 1
      /\ \A i \in 1..(k - 1) : a[i] = s[i]
  BY <1>1, SubSeqProperties
<1>3. /\ b \in Seq(S) /\ Len(b) = Len(s) - k
      /\ \A i \in 1..(Len(s) - k) : b[i] = s[k + i]
  <2>1. k + 1 \in 1..(Len(s) + 1) /\ Len(s) \in k..Len(s)
    BY <1>1
  <2> QED  BY <1>1, <2>1, SubSeqProperties
<1> HIDE DEF a, b
<1>4. /\ a \o b \in Seq(S) /\ Len(a \o b) = Len(s) - 1
      /\ \A i \in 1..(Len(s) - 1) : (a \o b)[i] = IF i < k THEN s[i] ELSE s[i + 1]
  <2>1. /\ a \o b \in Seq(S) /\ Len(a \o b) = Len(a) + Len(b)
        /\ \A i \in 1..(Len(a) + Len(b)) :
             (a \o b)[i] = IF i <= Len(a) THEN a[i] ELSE b[i - Len(a)]
    BY <1>2, <1>3, ConcatProperties
  <2>2. ASSUME NEW i \in 1..(Len(s) - 1)
        PROVE  (a \o b)[i] = IF i < k THEN s[i] ELSE s[i + 1]
    <3>1. CASE i < k
      BY <1>1, <1>2, <1>3, <2>1, <3>1
    <3>2. CASE ~(i < k)
      <4>1. /\ i - (k - 1) \in 1..(Len(s) - k) /\ k + (i - (k - 1)) = i + 1
            /\ Len(a) + Len(b) = Len(s) - 1 /\ ~(i <= Len(a))
        BY <1>1, <1>2, <1>3, <3>2
      <4>2. (a \o b)[i] = b[i - (k - 1)]
        BY <1>2, <2>1, <4>1
      <4>3. b[i - (k - 1)] = s[k + (i - (k - 1))]
        BY <1>3, <4>1
      <4> QED  BY <3>2, <4>1, <4>2, <4>3
    <3> QED  BY <3>1, <3>2
  <2> QED  BY <1>1, <1>2, <1>3, <2>1, <2>2
<1>5. RemoveAt(s, k) = a \o b
  BY DEF RemoveAt, a, b
<1>6. \A i \in 1..(Len(s) - 1) : i \in DOMAIN s /\ i + 1 \in DOMAIN s
  BY <1>1
<1>7. DOMAIN (a \o b) = 1..(Len(s) - 1)
  BY <1>4
<1> QED  BY <1>4, <1>5, <1>6, <1>7 DEF From

-----------------------------------------------------------------------------
(***************************************************************************)
(* How many connections there are.                                         *)
(***************************************************************************)
Slots(f) == UNION {{h} \X DOMAIN f[h] : h \in Hosts}

LEMMA SlotsAre ==
  ASSUME NEW f, NEW p
  PROVE  p \in Slots(f) <=> \E h \in Hosts : \E i \in DOMAIN f[h] : p = <<h, i>>
BY DEF Slots

LEMMA SlotsFewer ==
  ASSUME NEW f, NEW g, IsFiniteSet(Slots(f)),
         \A h \in Hosts : DOMAIN g[h] \subseteq DOMAIN f[h]
  PROVE  IsFiniteSet(Slots(g)) /\ Cardinality(Slots(g)) <= Cardinality(Slots(f))
<1>1. Slots(g) \in SUBSET Slots(f)
  BY SlotsAre
<1> QED  BY <1>1, FS_Subset

LEMMA SlotsAppend ==
  ASSUME NEW f \in [Hosts -> Seq(Conns)], NEW h \in Hosts, NEW c \in Conns,
         IsFiniteSet(Slots(f))
  PROVE  LET g == [f EXCEPT ![h] = Append(@, c)]
         IN  /\ IsFiniteSet(Slots(g))
             /\ Cardinality(Slots(g)) = Cardinality(Slots(f)) + 1
<1> DEFINE g == [f EXCEPT ![h] = Append(@, c)]
<1>1. Len(f[h]) \in Nat /\ DOMAIN f[h] = 1..Len(f[h]) /\ DOMAIN g[h] = 1..(Len(f[h]) + 1)
  BY AppendProperties
<1>2. \A k \in Hosts : k # h => g[k] = f[k]
  OBVIOUS
<1>3. DOMAIN g[h] = DOMAIN f[h] \cup {Len(f[h]) + 1} /\ Len(f[h]) + 1 \notin DOMAIN f[h]
  BY <1>1
<1> HIDE DEF g
<1>4. Slots(g) = Slots(f) \cup {<<h, Len(f[h]) + 1>>} /\ <<h, Len(f[h]) + 1>> \notin Slots(f)
  BY <1>2, <1>3 DEF Slots
<1>5. IsFiniteSet(Slots(g)) /\ Cardinality(Slots(g)) = Cardinality(Slots(f)) + 1
  BY <1>4, FS_AddElement
<1> QED  BY <1>5 DEF g

LEMMA SlotsRemove ==
  ASSUME NEW f \in [Hosts -> Seq(Conns)], NEW h \in Hosts, NEW s \in Seq(Conns),
         f[h] # <<>>, Len(s) = Len(f[h]) - 1, IsFiniteSet(Slots(f))
  PROVE  LET g == [f EXCEPT ![h] = s]
         IN  /\ IsFiniteSet(Slots(g))
             /\ Cardinality(Slots(g)) = Cardinality(Slots(f)) - 1
<1> DEFINE g == [f EXCEPT ![h] = s]
<1>1. Len(f[h]) \in Nat \ {0} /\ DOMAIN f[h] = 1..Len(f[h]) /\ DOMAIN g[h] = 1..(Len(f[h]) - 1)
  BY EmptySeq
<1>2. \A k \in Hosts : k # h => g[k] = f[k]
  OBVIOUS
<1>3. DOMAIN g[h] = DOMAIN f[h] \ {Len(f[h])} /\ Len(f[h]) \in DOMAIN f[h]
  BY <1>1
<1> HIDE DEF g
<1>4. Slots(g) = Slots(f) \ {<<h, Len(f[h])>>} /\ <<h, Len(f[h])>> \in Slots(f)
  BY <1>2, <1>3 DEF Slots
<1>5. IsFiniteSet(Slots(g)) /\ Cardinality(Slots(g)) = Cardinality(Slots(f)) - 1
  BY <1>4, FS_RemoveElement
<1> QED  BY <1>5 DEF g

LEMMA PooledSlots == Pooled = Slots(idle) /\ Pooled' = Slots(idle')
BY DEF Pooled, Slots

-----------------------------------------------------------------------------
(***************************************************************************)
(* What the steps do to the pool.                                          *)
(***************************************************************************)
PoolOK ==
  /\ idle \in [Hosts -> Seq(Conns)]
  /\ IsFiniteSet(Pooled) /\ Cardinality(Pooled) <= size
  /\ ClosedLate

LEMMA Shrinks ==
  ASSUME PoolOK, size \in Nat, size' = size,
         idle' \in [Hosts -> Seq(Conns)],
         \A h \in Hosts : Len(idle'[h]) <= Len(idle[h]) /\ From(idle'[h], idle[h])
  PROVE  PoolOK' /\ (Emptied => Emptied')
<1>1. \A h \in Hosts : /\ Len(idle[h]) \in Nat /\ DOMAIN idle[h] = 1..Len(idle[h])
                       /\ Len(idle'[h]) \in Nat /\ DOMAIN idle'[h] = 1..Len(idle'[h])
  BY DEF PoolOK
<1>2. \A h \in Hosts : DOMAIN idle'[h] \subseteq DOMAIN idle[h]
  BY <1>1
<1>3. IsFiniteSet(Pooled') /\ Cardinality(Pooled') <= Cardinality(Pooled)
  BY <1>2, PooledSlots, SlotsFewer DEF PoolOK
<1>4. Cardinality(Pooled) \in Nat /\ Cardinality(Pooled') \in Nat
  BY <1>3, FS_CardinalityType DEF PoolOK
<1>5. ClosedLate'
  BY DEF PoolOK, ClosedLate, From
<1>6. ASSUME Emptied, NEW h \in Hosts PROVE idle'[h] = <<>>
  <2>1. Len(idle[h]) = 0
    BY <1>6, EmptySeq DEF Emptied
  <2> QED  BY <1>1, <2>1, EmptySeq
<1> QED  BY <1>3, <1>4, <1>5, <1>6 DEF PoolOK, Emptied

LEMMA ChangesOne ==
  ASSUME PoolOK, size \in Nat, size' = size, NEW h \in Hosts, NEW s \in Seq(Conns),
         Len(s) <= Len(idle[h]), From(s, idle[h]), idle' = [idle EXCEPT ![h] = s]
  PROVE  PoolOK' /\ (Emptied => Emptied')
<1>1. /\ idle' \in [Hosts -> Seq(Conns)] /\ idle'[h] = s
      /\ \A g \in Hosts : g # h => idle'[g] = idle[g]
  BY DEF PoolOK
<1>2. \A g \in Hosts : Len(idle[g]) \in Nat /\ From(idle[g], idle[g])
  BY DEF PoolOK, From
<1>3. \A g \in Hosts : Len(idle'[g]) <= Len(idle[g]) /\ From(idle'[g], idle[g])
  BY <1>1, <1>2
<1> QED  BY <1>1, <1>3, Shrinks

LEMMA PutKeeps ==
  ASSUME PoolOK, size \in Nat, size' = size, NEW h \in Hosts, PutIdle(h)
  PROVE  PoolOK' /\ (size = 0 \/ closeIdle => idle' = idle)
<1> DEFINE c == [age |-> 0, dead |-> FALSE]
           longer == [idle EXCEPT ![h] = Append(@, c)]
<1>1. CASE size = 0 \/ closeIdle \/ Len(idle[h]) >= size
  <2>1. idle' = idle
    BY <1>1 DEF PutIdle
  <2> QED  BY <2>1, PooledSlots DEF PoolOK, ClosedLate
<1>2. CASE ~(size = 0 \/ closeIdle \/ Len(idle[h]) >= size)
  <2>1. c \in Conns
    BY DEF Conns, KeepAlive
  <2>2. /\ longer \in [Hosts -> Seq(Conns)]
        /\ \A g \in Hosts : \A i \in DOMAIN longer[g] :
             longer[g][i].dead => longer[g][i].age >= KeepAlive
    <3>1. longer \in [Hosts -> Seq(Conns)]
      BY <2>1 DEF PoolOK
    <3>2. ASSUME NEW i \in DOMAIN longer[h], longer[h][i].dead
          PROVE  longer[h][i].age >= KeepAlive
      <4>1. longer[h] = Append(idle[h], c) /\ idle[h] \in Seq(Conns)
        BY DEF PoolOK
      <4>2. /\ i \in 1..(Len(idle[h]) + 1) /\ Len(idle[h]) \in Nat
            /\ longer[h][Len(idle[h]) + 1] = c
            /\ \A j \in 1..Len(idle[h]) : longer[h][j] = idle[h][j]
        BY <2>1, <4>1, AppendProperties
      <4>3. longer[h][i] # c
        BY <3>2
      <4>4. i \in DOMAIN idle[h] /\ longer[h][i] = idle[h][i]
        BY <4>1, <4>2, <4>3
      <4> QED  BY <3>2, <4>4 DEF PoolOK, ClosedLate
    <3>3. \A g \in Hosts : g # h => longer[g] = idle[g]
      BY DEF PoolOK
    <3> QED  BY <3>1, <3>2, <3>3 DEF PoolOK, ClosedLate
  <2>3. IsFiniteSet(Slots(longer)) /\ Cardinality(Slots(longer)) = Cardinality(Pooled) + 1
    BY <2>1, SlotsAppend, PooledSlots DEF PoolOK
  <2>4. Cardinality(Pooled) \in Nat
    BY FS_CardinalityType DEF PoolOK
  <2>5. IF Cardinality(Pooled) < size
          THEN idle' = longer
          ELSE \E g \in Oldest : idle' = [longer EXCEPT ![g] = Tail(@)]
    BY <1>2 DEF PutIdle
  <2> HIDE DEF longer
  <2>6. CASE Cardinality(Pooled) < size
    BY <1>2, <2>2, <2>3, <2>4, <2>5, <2>6, PooledSlots DEF PoolOK, ClosedLate
  <2>7. CASE ~(Cardinality(Pooled) < size)
    <3>1. PICK g \in Oldest : idle' = [longer EXCEPT ![g] = Tail(longer[g])]
      BY <2>5, <2>7
    <3>2. g \in Hosts /\ longer[g] # <<>>
      <4>1. g \in Hosts /\ idle[g] # <<>>
        BY DEF Oldest
      <4>2. CASE g = h
        <5>1. longer[g] = Append(idle[g], c) /\ idle[g] \in Seq(Conns)
          BY <4>1, <4>2 DEF PoolOK, longer
        <5>2. Len(longer[g]) = Len(idle[g]) + 1 /\ Len(idle[g]) \in Nat
          BY <2>1, <5>1, AppendProperties
        <5> QED  BY <4>1, <5>2, EmptySeq
      <4>3. CASE g # h
        BY <4>1, <4>3 DEF PoolOK, longer
      <4> QED  BY <4>1, <4>2, <4>3
    <3>3. /\ Tail(longer[g]) \in Seq(Conns) /\ Len(Tail(longer[g])) = Len(longer[g]) - 1
          /\ From(Tail(longer[g]), longer[g])
      BY <2>2, <3>2, TailOf
    <3>4. IsFiniteSet(Slots(idle')) /\ Cardinality(Slots(idle')) = Cardinality(Slots(longer)) - 1
      BY <2>2, <2>3, <3>1, <3>2, <3>3, SlotsRemove
    <3>5. idle' \in [Hosts -> Seq(Conns)]
      BY <2>2, <3>1, <3>2, <3>3
    <3>6. ClosedLate'
      BY <2>2, <3>1, <3>2, <3>3 DEF ClosedLate, From
    <3> QED
      BY <1>2, <2>3, <2>4, <3>4, <3>5, <3>6, PooledSlots DEF PoolOK
  <2> QED  BY <2>6, <2>7
<1> QED  BY <1>1, <1>2

LEMMA AgingKeeps ==
  ASSUME PoolOK, size \in Nat, size' = size,
         Tick \/ \E i \in DOMAIN idle[Proxy] : ProxyCloses(i)
  PROVE  PoolOK' /\ \A h \in Hosts : Len(idle'[h]) = Len(idle[h])
<1>1. \A h \in Hosts : /\ Len(idle[h]) \in Nat /\ DOMAIN idle[h] = 1..Len(idle[h])
                       /\ \A i \in DOMAIN idle[h] : idle[h][i] \in Conns
  BY DEF PoolOK
<1>2. /\ idle' \in [Hosts -> Seq(Conns)]
      /\ \A h \in Hosts : DOMAIN idle'[h] = DOMAIN idle[h]
      /\ ClosedLate'
  <2>1. CASE Tick
    <3>1. idle' = [h \in Hosts |-> [i \in DOMAIN idle[h] |-> Older(idle[h][i])]]
      BY <2>1 DEF Tick
    <3>2. \A c \in Conns : /\ Older(c) \in Conns /\ Older(c).dead = c.dead
                           /\ c.age >= KeepAlive => Older(c).age >= KeepAlive
      BY DEF Older, Conns, KeepAlive
    <3>3. ASSUME NEW h \in Hosts
          PROVE  /\ idle'[h] \in Seq(Conns) /\ DOMAIN idle'[h] = DOMAIN idle[h]
                 /\ \A i \in DOMAIN idle[h] : idle'[h][i] = Older(idle[h][i])
      <4>1. idle'[h] = [i \in 1..Len(idle[h]) |-> Older(idle[h][i])]
        BY <1>1, <3>1
      <4>2. \A i \in 1..Len(idle[h]) : Older(idle[h][i]) \in Conns
        BY <1>1, <3>2
      <4> HIDE DEF Older
      <4> QED  BY <1>1, <4>1, <4>2
    <3>4. ASSUME NEW h \in Hosts, NEW i \in DOMAIN idle'[h], idle'[h][i].dead
          PROVE  idle'[h][i].age >= KeepAlive
      <4>1. /\ i \in DOMAIN idle[h] /\ idle'[h][i] = Older(idle[h][i])
            /\ idle[h][i] \in Conns
        BY <1>1, <3>3
      <4>2. idle[h][i].dead
        BY <3>2, <3>4, <4>1
      <4>3. idle[h][i].age >= KeepAlive
        BY <4>1, <4>2 DEF PoolOK, ClosedLate
      <4> QED  BY <3>2, <4>1, <4>3
    <3>5. idle' \in [Hosts -> Seq(Conns)]
      <4>1. \A h \in Hosts : idle'[h] \in Seq(Conns)
        BY <3>3
      <4> QED  BY <3>1, <4>1
    <3> QED  BY <3>3, <3>4, <3>5 DEF ClosedLate
  <2>2. ASSUME NEW k \in DOMAIN idle[Proxy], ProxyCloses(k)
        PROVE  /\ idle' \in [Hosts -> Seq(Conns)]
               /\ \A h \in Hosts : DOMAIN idle'[h] = DOMAIN idle[h]
               /\ ClosedLate'
    <3> DEFINE c == [idle[Proxy][k] EXCEPT !.dead = TRUE]
               s == [idle[Proxy] EXCEPT ![k] = c]
    <3>1. Proxy \in Hosts /\ idle' = [idle EXCEPT ![Proxy] = s]
          /\ idle[Proxy][k] \in Conns /\ idle[Proxy][k].age >= KeepAlive
      BY <1>1, <2>2 DEF ProxyCloses, Hosts
    <3>2. c \in Conns /\ c.age >= KeepAlive
      BY <3>1 DEF Conns
    <3> HIDE DEF c
    <3>3. /\ s \in Seq(Conns) /\ DOMAIN s = DOMAIN idle[Proxy]
          /\ \A i \in DOMAIN s : s[i] = IF i = k THEN c ELSE idle[Proxy][i]
      <4>1. idle[Proxy] \in Seq(Conns)
        BY <3>1 DEF PoolOK
      <4> QED  BY <3>2, <4>1
    <3> HIDE DEF s
    <3>4. idle'[Proxy] = s /\ \A h \in Hosts : h # Proxy => idle'[h] = idle[h]
      BY <3>1 DEF PoolOK
    <3>5. idle' \in [Hosts -> Seq(Conns)]
      BY <3>1, <3>3 DEF PoolOK
    <3>6. \A h \in Hosts : DOMAIN idle'[h] = DOMAIN idle[h]
      BY <3>3, <3>4
    <3>7. ClosedLate'
      BY <3>2, <3>3, <3>4 DEF PoolOK, ClosedLate
    <3> QED  BY <3>5, <3>6, <3>7
  <2> QED  BY <2>1, <2>2
<1>3. Slots(idle') = Slots(idle)
  BY <1>2 DEF Slots
<1>4. \A h \in Hosts : Len(idle'[h]) = Len(idle[h])
  <2>1. \A h \in Hosts : Len(idle'[h]) \in Nat /\ DOMAIN idle'[h] = 1..Len(idle'[h])
    BY <1>2
  <2>2. \A m, n \in Nat : 1..m = 1..n => m = n
    <3>1. \A n \in Nat : IsFiniteSet(1..n) /\ Cardinality(1..n) = n
      BY FS_Interval
    <3> QED  BY <3>1
  <2> QED  BY <1>1, <1>2, <2>1, <2>2
<1> QED  BY <1>2, <1>3, <1>4, PooledSlots DEF PoolOK

-----------------------------------------------------------------------------
(***************************************************************************)
(* The invariant.                                                          *)
(***************************************************************************)
LEMMA InvariantInit == Init => Invariant
<1> SUFFICES ASSUME Init PROVE Invariant
  OBVIOUS
<1>1. Started(cfg) \in Nat \ {0} /\ MaxIdle(cfg) \in Nat
  BY Settings DEF Init
<1>2. Emptied
  BY DEF Init, Emptied
<1>3. Pooled = {}
  BY <1>2 DEF Pooled, Emptied
<1>4. IsFiniteSet(Pooled) /\ Cardinality(Pooled) = 0
  BY <1>3, FS_EmptySet
<1>5. ClosedLate
  BY <1>2 DEF ClosedLate, Emptied
<1>6. idle \in [Hosts -> Seq(Conns)] /\ todo \in [Workers -> Seq(Hosts)]
  BY DEF Init
<1>7. TypeOK
  <2>1. size = 0 /\ Cardinality(Pooled) <= size
    BY <1>4 DEF Init
  <2>2. dials \in [Hosts -> 0..MaxDials]
    BY PoolAssumption DEF Init
  <2>3. /\ conn \in [Workers -> {"none", "waiting", "live", "dead"}]
        /\ warm \in [Hosts -> BOOLEAN] /\ cfg \in Configs
        /\ phase \in {"none", "open", "released"} /\ closeIdle \in BOOLEAN
    BY DEF Init
  <2> QED  BY <1>6, <2>1, <2>2, <2>3 DEF TypeOK
<1>8. Lifetime /\ Attached /\ NoDeadConnection
  BY <1>2 DEF Init, Lifetime, Attached, NoDeadConnection, Workers
<1> QED  BY <1>4, <1>5, <1>7, <1>8 DEF Invariant

(* The part of a step that has nothing to do with the pool's lists. *)
Rest ==
  /\ phase \in {"none", "open", "released"} /\ size \in Nat
  /\ dials \in [Hosts -> 0..MaxDials] /\ closeIdle \in BOOLEAN
  /\ todo \in [Workers -> Seq(Hosts)]
  /\ conn \in [Workers -> {"none", "waiting", "live"}]
  /\ warm \in [Hosts -> BOOLEAN]
  /\ Attached

LEMMA InvariantParts ==
  Invariant <=> cfg \in Configs /\ PoolOK /\ Rest /\ Lifetime
<1>1. Invariant => cfg \in Configs /\ PoolOK /\ Rest /\ Lifetime
  BY DEF Invariant, PoolOK, Rest, TypeOK, NoDeadConnection
<1>2. cfg \in Configs /\ PoolOK /\ Rest /\ Lifetime => Invariant
  BY DEF Invariant, PoolOK, Rest, TypeOK, NoDeadConnection
<1> QED  BY <1>1, <1>2

(* A worker that has something to send has a client that is open. *)
LEMMA Sending ==
  ASSUME Invariant, NEW w \in Workers, todo[w] # <<>>
  PROVE  /\ phase = "open" /\ ~closeIdle /\ size = MaxIdle(cfg)
         /\ todo[w] \in Seq(Hosts) /\ Head(todo[w]) \in Hosts /\ Tail(todo[w]) \in Seq(Hosts)
<1>1. phase = "open" /\ ~closeIdle /\ size = MaxIdle(cfg) /\ todo[w] \in Seq(Hosts)
  BY DEF Invariant, TypeOK, Lifetime
<1>2. Head(todo[w]) \in Hosts /\ Tail(todo[w]) \in Seq(Hosts)
  BY <1>1, HeadTailProperties
<1> QED  BY <1>1, <1>2

LEMMA AfterFailureType ==
  ASSUME NEW s \in Seq(Hosts), s # <<>> PROVE AfterFailure(s) \in Seq(Hosts)
BY HeadTailProperties DEF AfterFailure

LEMMA InvariantStep == Invariant /\ [Next]_vars => Invariant'
<1> SUFFICES ASSUME Invariant, [Next]_vars PROVE Invariant'
  OBVIOUS
<1>0. /\ cfg \in Configs /\ PoolOK /\ Rest /\ Lifetime /\ size \in Nat
      /\ Started(cfg) \in Nat \ {0} /\ MaxIdle(cfg) \in Nat
      /\ Session <=> cfg.test \in SessionTests
      /\ ~Session => MaxIdle(cfg) = 0
  BY InvariantParts, Settings DEF Rest, Session
<1>p. (cfg \in Configs /\ PoolOK /\ Rest /\ Lifetime)' => Invariant'
  BY InvariantParts, PTL
<1>f. cfg' = cfg => Workers' = Workers /\ Session' = Session /\ MaxIdle(cfg') = MaxIdle(cfg)
  BY DEF Workers, Session
<1>i. idle' = idle /\ size' = size => PoolOK' /\ (Emptied <=> Emptied')
  BY <1>0, PooledSlots DEF PoolOK, ClosedLate, Emptied
<1>e. idle' = [h \in Hosts |-> <<>>] /\ size' = size => PoolOK' /\ Emptied'
  <2> SUFFICES ASSUME idle' = [h \in Hosts |-> <<>>], size' = size PROVE PoolOK' /\ Emptied'
    OBVIOUS
  <2>1. \A h \in Hosts : /\ Len(idle'[h]) <= Len(idle[h]) /\ From(idle'[h], idle[h])
                         /\ idle'[h] = <<>>
    BY <1>0 DEF PoolOK, From
  <2>2. idle' \in [Hosts -> Seq(Conns)]
    OBVIOUS
  <2> QED  BY <1>0, <2>1, <2>2, Shrinks DEF Emptied
<1>1. CASE OpenClient
  <2>1. /\ phase = "none" /\ phase' = "open" /\ size' = MaxIdle(cfg)
        /\ UNCHANGED <<cfg, idle, dials, closeIdle, todo, conn, warm>>
    BY <1>1 DEF OpenClient, poolVars
  <2>2. Emptied /\ size = 0
    BY <1>0, <2>1 DEF Lifetime
  <2>3. PoolOK'
    <3>1. Cardinality(Pooled) \in Nat /\ Cardinality(Pooled) <= 0
      BY <1>0, <2>2, FS_CardinalityType DEF PoolOK
    <3> QED  BY <1>0, <2>1, <3>1, PooledSlots DEF PoolOK, ClosedLate
  <2>4. Emptied'
    BY <2>1, <2>2 DEF Emptied
  <2> QED
    BY <1>0, <1>p, <1>f, <2>1, <2>3, <2>4 DEF Rest, Lifetime, Attached
<1>2. ASSUME NEW w \in Workers, StartTx(w) PROVE Invariant'
  <2>1. /\ phase = "open" /\ todo[w] = <<>>
        /\ UNCHANGED <<cfg, phase, size, idle, dials, closeIdle, conn, warm>>
    BY <1>2 DEF StartTx, poolVars
  <2>2. PICK s \in Seq(Hosts) : todo' = [todo EXCEPT ![w] = s] /\ s # <<>>
    <3>1. CASE cfg.test \in ManagedTests
      <4>1. PICK n \in Nodes \cup {Proxy} : todo' = [todo EXCEPT ![w] = <<Proxy, n, n>>]
        BY <1>2, <3>1 DEF StartTx
      <4>2. <<Proxy, n, n>> \in Seq(Hosts) /\ <<Proxy, n, n>> # <<>>
        BY DEF Hosts
      <4> QED  BY <4>1, <4>2
    <3>2. CASE cfg.test \notin ManagedTests
      <4>1. todo' = [todo EXCEPT ![w] = <<Proxy>>]
        BY <1>2, <3>2 DEF StartTx
      <4>2. <<Proxy>> \in Seq(Hosts) /\ <<Proxy>> # <<>>
        BY DEF Hosts
      <4> QED  BY <4>1, <4>2
    <3> QED  BY <3>1, <3>2
  <2>3. Rest'
    BY <1>0, <1>f, <2>1, <2>2 DEF Rest, Attached
  <2>4. Lifetime'
    BY <1>0, <1>f, <1>i, <2>1 DEF Lifetime
  <2> QED  BY <1>0, <1>p, <1>i, <2>1, <2>3, <2>4
<1>3. CASE Release
  <2>1. /\ phase = "open" /\ phase' = "released" /\ \A w \in Workers : todo[w] = <<>>
        /\ UNCHANGED <<cfg, size, dials, todo, conn>>
        /\ IF Session
             THEN /\ idle' = [h \in Hosts |-> <<>>] /\ closeIdle' = TRUE
                  /\ warm' = [h \in Hosts |-> FALSE]
             ELSE UNCHANGED <<idle, closeIdle, warm>>
    BY <1>3 DEF Release
  <2>2. PoolOK' /\ Emptied'
    BY <1>0, <1>i, <1>e, <2>1 DEF Lifetime
  <2>3. Rest'
    BY <1>0, <1>f, <2>1 DEF Rest, Attached
  <2>4. Lifetime'
    BY <1>0, <1>f, <2>1, <2>2 DEF Lifetime
  <2> QED  BY <1>0, <1>p, <2>1, <2>2, <2>3, <2>4
<1>4. ASSUME NEW w \in Workers, TakeIdle(w) PROVE Invariant'
  <2> DEFINE h == Head(todo[w])
  <2>1. /\ conn[w] = "none" /\ todo[w] # <<>> /\ Usable(h)
        /\ idle' = [idle EXCEPT ![h] = Front(@)]
        /\ conn' = [conn EXCEPT ![w] = IF Last(idle[h]).dead THEN "dead" ELSE "live"]
        /\ closeIdle' = FALSE
        /\ UNCHANGED <<cfg, phase, size, dials, todo, warm>>
    BY <1>4 DEF TakeIdle
  <2>2. phase = "open" /\ h \in Hosts /\ idle[h] \in Seq(Conns) /\ idle[h] # <<>>
    BY <1>0, <2>1, Sending DEF PoolOK, Usable
  <2> HIDE DEF h
  <2>3. /\ Front(idle[h]) \in Seq(Conns) /\ Len(Front(idle[h])) = Len(idle[h]) - 1
        /\ From(Front(idle[h]), idle[h])
        /\ Len(idle[h]) \in DOMAIN idle[h] /\ Last(idle[h]) = idle[h][Len(idle[h])]
    BY <2>2, FrontOf
  <2>4. PoolOK' /\ (Emptied => Emptied')
    <3>1. Len(Front(idle[h])) <= Len(idle[h])
      BY <2>2, <2>3
    <3> QED  BY <1>0, <2>1, <2>2, <2>3, <3>1, ChangesOne
  <2>5. ~Last(idle[h]).dead
    <3>1. Last(idle[h]) \in Conns /\ Last(idle[h]).age <= idleConnTimeout
      BY <2>1, <2>2, <2>3 DEF Usable
    <3>2. ~(Last(idle[h]).age >= KeepAlive)
      BY <3>1 DEF Conns, KeepAlive, idleConnTimeout
    <3> QED  BY <1>0, <2>2, <2>3, <3>2 DEF PoolOK, ClosedLate
  <2>6. Rest'
    BY <1>0, <1>f, <2>1, <2>5 DEF Rest, Attached
  <2>7. Lifetime'
    BY <1>0, <1>f, <2>1, <2>2, <2>4 DEF Lifetime
  <2> QED  BY <1>0, <1>p, <2>1, <2>4, <2>6, <2>7
<1>5. ASSUME NEW w \in Workers, Dial(w) PROVE Invariant'
  <2> DEFINE h == Head(todo[w])
  <2>1. /\ conn[w] = "none" /\ todo[w] # <<>> /\ dials[h] < MaxDials
        /\ idle' = [idle EXCEPT ![h] = <<>>]
        /\ dials' = [dials EXCEPT ![h] = @ + 1]
        /\ warm' = warm \/ Lost(h)
        /\ conn' = [conn EXCEPT ![w] = "waiting"]
        /\ closeIdle' = FALSE
        /\ UNCHANGED <<cfg, phase, size, todo>>
    BY <1>5 DEF Dial
  <2>2. phase = "open" /\ h \in Hosts /\ idle[h] \in Seq(Conns)
    BY <1>0, <2>1, Sending DEF PoolOK
  <2> HIDE DEF h
  <2>3. PoolOK' /\ (Emptied => Emptied')
    <3>1. /\ <<>> \in Seq(Conns) /\ Len(<<>>) <= Len(idle[h]) /\ From(<<>>, idle[h])
      BY <2>2 DEF From
    <3> QED  BY <1>0, <2>1, <2>2, <3>1, ChangesOne
  <2>4. Rest'
    <3>1. dials' \in [Hosts -> 0..MaxDials]
      BY <1>0, <2>1, <2>2, PoolAssumption DEF Rest
    <3> QED  BY <1>0, <1>f, <2>1, <3>1 DEF Rest, Attached, Lost
  <2>5. Lifetime'
    BY <1>0, <1>f, <2>1, <2>2, <2>3 DEF Lifetime
  <2> QED  BY <1>0, <1>p, <2>1, <2>3, <2>4, <2>5
<1>6. ASSUME NEW h \in Hosts, DialEnds(h) PROVE Invariant'
  <2>1. /\ dials[h] > 0 /\ dials' = [dials EXCEPT ![h] = @ - 1]
        /\ UNCHANGED <<cfg, phase, size, closeIdle, todo>>
        /\ warm' = [g \in Hosts |-> warm[g] \/ OpenTo(g)' >= Started(cfg)]
    BY <1>6 DEF DialEnds, Warmed
  <2>2. dials' \in [Hosts -> 0..MaxDials]
    BY <1>0, <2>1, PoolAssumption DEF Rest
  <2>3. CASE \E w \in Waiting(h) : conn' = [conn EXCEPT ![w] = "live"] /\ UNCHANGED idle
    <3>1. PICK w \in Waiting(h) : conn' = [conn EXCEPT ![w] = "live"] /\ UNCHANGED idle
      BY <2>3
    <3>2. w \in Workers /\ conn[w] = "waiting" /\ todo[w] # <<>>
      BY <1>0 DEF Waiting, Rest, Attached
    <3>3. phase = "open"
      BY <3>2, Sending
    <3>4. Rest'
      BY <1>0, <1>f, <2>1, <2>2, <3>1, <3>2 DEF Rest, Attached
    <3>5. Lifetime'
      BY <1>0, <1>f, <1>i, <2>1, <3>1, <3>3 DEF Lifetime
    <3> QED  BY <1>0, <1>p, <1>i, <2>1, <3>1, <3>4, <3>5
  <2>4. CASE PutIdle(h) /\ UNCHANGED conn
    <3>1. PoolOK' /\ (size = 0 \/ closeIdle => idle' = idle)
      BY <1>0, <2>1, <2>4, PutKeeps
    <3>2. Rest'
      BY <1>0, <1>f, <2>1, <2>2, <2>4 DEF Rest, Attached
    <3>3. phase # "open" \/ ~Session => idle' = idle
      BY <1>0, <3>1 DEF Lifetime, Rest
    <3>4. phase = "released" /\ Session => \A g \in Hosts : ~warm'[g]
      <4> SUFFICES ASSUME phase = "released", Session, NEW g \in Hosts PROVE ~warm'[g]
        OBVIOUS
      <4>1. idle'[g] = <<>> /\ \A w \in Workers : todo[w] = <<>>
        BY <1>0, <3>3 DEF Lifetime, Emptied
      <4>2. \A w \in Workers : conn'[w] \notin {"live", "dead"}
        BY <1>0, <2>4, <4>1 DEF Rest, Attached
      <4>3. OpenTo(g)' = Len(<<>>) + Cardinality({})
        BY <1>f, <2>1, <4>1, <4>2 DEF OpenTo, UsedBy
      <4>4. OpenTo(g)' = 0
        BY <4>3, FS_EmptySet
      <4>5. warm'[g] <=> warm[g] \/ OpenTo(g)' >= Started(cfg)
        BY <2>1
      <4> QED  BY <1>0, <4>4, <4>5 DEF Lifetime
    <3>5. Lifetime'
      BY <1>0, <1>f, <2>1, <3>3, <3>4 DEF Lifetime, Emptied
    <3> QED  BY <1>0, <1>p, <2>1, <3>1, <3>2, <3>5
  <2> QED  BY <1>6, <2>3, <2>4 DEF DialEnds
<1>7. ASSUME NEW w \in Workers, Respond(w) PROVE Invariant'
  <2> DEFINE h == Head(todo[w])
  <2>0. conn[w] = "live" /\ todo[w] # <<>>
    BY <1>0, <1>7 DEF Respond, Rest, Attached
  <2>1. /\ phase = "open" /\ h \in Hosts /\ todo[w] \in Seq(Hosts) /\ Tail(todo[w]) \in Seq(Hosts)
        /\ AfterFailure(todo[w]) \in Seq(Hosts)
    BY <2>0, Sending, AfterFailureType
  <2>2. PICK rest \in Seq(Hosts) : todo' = [todo EXCEPT ![w] = rest]
    BY <1>7, <2>1 DEF Respond
  <2>3. /\ UNCHANGED <<cfg, phase, size, dials, closeIdle>>
        /\ warm' = [g \in Hosts |-> warm[g] \/ OpenTo(g)' >= Started(cfg)]
        /\ \/ PutIdle(h) /\ conn' = [conn EXCEPT ![w] = "none"]
           \/ /\ UNCHANGED idle /\ Session
              /\ \E v \in Waiting(h) : conn' = [conn EXCEPT ![w] = "none", ![v] = "live"]
    BY <1>7 DEF Respond, Warmed
  <2> HIDE DEF h
  <2>4. CASE PutIdle(h) /\ conn' = [conn EXCEPT ![w] = "none"]
    <3>1. PoolOK' /\ (size = 0 \/ closeIdle => idle' = idle)
      BY <1>0, <2>1, <2>3, <2>4, PutKeeps
    <3>2. Rest'
      BY <1>0, <1>f, <2>2, <2>3, <2>4 DEF Rest, Attached
    <3>3. Lifetime'
      BY <1>0, <1>f, <2>1, <2>3, <3>1 DEF Lifetime, Emptied
    <3> QED  BY <1>0, <1>p, <2>3, <3>1, <3>2, <3>3
  <2>5. CASE /\ UNCHANGED idle /\ Session
             /\ \E v \in Waiting(h) : conn' = [conn EXCEPT ![w] = "none", ![v] = "live"]
    <3>1. PICK v \in Waiting(h) : conn' = [conn EXCEPT ![w] = "none", ![v] = "live"]
      BY <2>5
    <3>2. v \in Workers /\ v # w /\ conn[v] = "waiting" /\ todo[v] # <<>>
      BY <1>0, <2>0 DEF Waiting, Rest, Attached
    <3>3. Rest'
      BY <1>0, <1>f, <2>2, <2>3, <3>1, <3>2 DEF Rest, Attached
    <3>4. Lifetime'
      BY <1>0, <1>f, <1>i, <2>1, <2>3, <2>5 DEF Lifetime
    <3> QED  BY <1>0, <1>p, <1>i, <2>3, <2>5, <3>3, <3>4
  <2> QED  BY <2>3, <2>4, <2>5
<1>8. ASSUME NEW w \in Workers, Break(w) \/ GiveUp(w) PROVE Invariant'
  <2>0. conn[w] # "none" /\ todo[w] # <<>>
    BY <1>0, <1>8 DEF Break, GiveUp, Rest, Attached
  <2>1. /\ phase = "open" /\ Head(todo[w]) \in Hosts /\ todo[w] \in Seq(Hosts)
        /\ AfterFailure(todo[w]) \in Seq(Hosts)
    BY <2>0, Sending, AfterFailureType
  <2>2. PICK rest \in Seq(Hosts) : todo' = [todo EXCEPT ![w] = rest]
    <3>1. <<>> \in Seq(Hosts)
      OBVIOUS
    <3>2. \E rest \in {AfterFailure(todo[w]), <<>>} : todo' = [todo EXCEPT ![w] = rest]
      BY <1>8 DEF Break, GiveUp
    <3> QED  BY <2>1, <3>1, <3>2
  <2>3. /\ UNCHANGED <<cfg, phase, size, idle, dials, closeIdle>>
        /\ conn' = [conn EXCEPT ![w] = "none"]
        /\ warm' = warm \/ Lost(Head(todo[w]))
    BY <1>8 DEF Break, GiveUp, poolVars
  <2>4. Rest'
    BY <1>0, <1>f, <2>2, <2>3 DEF Rest, Attached, Lost
  <2>5. Lifetime'
    BY <1>0, <1>f, <1>i, <2>1, <2>3 DEF Lifetime
  <2> QED  BY <1>0, <1>p, <1>i, <2>3, <2>4, <2>5
<1>9. ASSUME NEW h \in Hosts, DialFails(h) PROVE Invariant'
  <2>1. /\ dials[h] > 0 /\ dials' = [dials EXCEPT ![h] = @ - 1]
        /\ UNCHANGED <<cfg, phase, size, idle, closeIdle, warm>>
    BY <1>9 DEF DialFails
  <2>2. dials' \in [Hosts -> 0..MaxDials]
    BY <1>0, <2>1, PoolAssumption DEF Rest
  <2>3. CASE UNCHANGED <<todo, conn>>
    <3>1. Rest' /\ Lifetime'
      BY <1>0, <1>f, <1>i, <2>1, <2>2, <2>3 DEF Rest, Attached, Lifetime
    <3> QED  BY <1>0, <1>p, <1>i, <2>1, <3>1
  <2>4. CASE \E w \in Waiting(h) : /\ todo' = [todo EXCEPT ![w] = AfterFailure(@)]
                                   /\ conn' = [conn EXCEPT ![w] = "none"]
    <3>1. PICK w \in Waiting(h) : /\ todo' = [todo EXCEPT ![w] = AfterFailure(todo[w])]
                                  /\ conn' = [conn EXCEPT ![w] = "none"]
      BY <2>4
    <3>2. w \in Workers /\ todo[w] # <<>>
      BY <1>0 DEF Waiting, Rest, Attached
    <3>3. phase = "open" /\ AfterFailure(todo[w]) \in Seq(Hosts)
      BY <3>2, Sending, AfterFailureType
    <3>4. Rest'
      BY <1>0, <1>f, <2>1, <2>2, <3>1, <3>2, <3>3 DEF Rest, Attached
    <3>5. Lifetime'
      BY <1>0, <1>f, <1>i, <2>1, <3>3 DEF Lifetime
    <3> QED  BY <1>0, <1>p, <1>i, <2>1, <3>4, <3>5
  <2> QED  BY <1>9, <2>3, <2>4 DEF DialFails
<1>10. ASSUME NEW h \in Hosts, NEW i \in DOMAIN idle[h], IdleTimeout(h, i) \/ NoticeClosed(h, i)
       PROVE  Invariant'
  <2>1. /\ idle' = [idle EXCEPT ![h] = RemoveAt(@, i)] /\ Lost(h)
        /\ UNCHANGED <<cfg, phase, size, dials, closeIdle, todo, conn>>
    BY <1>10 DEF IdleTimeout, NoticeClosed, Drop
  <2>2. PoolOK' /\ (Emptied => Emptied')
    <3>1. /\ idle[h] \in Seq(Conns) /\ RemoveAt(idle[h], i) \in Seq(Conns)
          /\ Len(RemoveAt(idle[h], i)) = Len(idle[h]) - 1
          /\ From(RemoveAt(idle[h], i), idle[h])
      BY <1>0, RemoveAtOf DEF PoolOK
    <3>2. Len(RemoveAt(idle[h], i)) <= Len(idle[h])
      BY <3>1
    <3> QED  BY <1>0, <2>1, <3>1, <3>2, ChangesOne
  <2>3. Rest'
    BY <1>0, <1>f, <2>1 DEF Rest, Attached, Lost
  <2>4. phase # "released" \/ Emptied
    BY <1>0 DEF Lifetime
  <2>5. ~Emptied
    BY <1>10 DEF Emptied
  <2>6. Lifetime'
    BY <1>0, <1>f, <2>1, <2>2, <2>5 DEF Lifetime
  <2> QED  BY <1>0, <1>p, <2>1, <2>2, <2>3, <2>6
<1>11. CASE Tick \/ \E i \in DOMAIN idle[Proxy] : ProxyCloses(i)
  <2>1. UNCHANGED <<cfg, phase, size, dials, closeIdle, todo, conn, warm>>
    BY <1>11 DEF Tick, ProxyCloses
  <2>2. PoolOK' /\ \A h \in Hosts : Len(idle'[h]) = Len(idle[h])
    BY <1>0, <1>11, <2>1, AgingKeeps
  <2>3. Emptied => Emptied'
    <3>1. \A h \in Hosts : idle'[h] \in Seq(Conns)
      BY <2>2 DEF PoolOK
    <3> QED  BY <2>2, <3>1, EmptySeq DEF Emptied
  <2>4. Rest'
    BY <1>0, <1>f, <2>1 DEF Rest, Attached
  <2>5. Lifetime'
    BY <1>0, <1>f, <2>1, <2>3 DEF Lifetime
  <2> QED  BY <1>0, <1>p, <2>1, <2>2, <2>4, <2>5
<1>12. CASE UNCHANGED vars
  <2>1. UNCHANGED <<cfg, phase, size, idle, dials, closeIdle, todo, conn, warm>>
    BY <1>12 DEF vars, poolVars
  <2>2. Rest' /\ Lifetime'
    BY <1>0, <1>f, <1>i, <2>1 DEF Rest, Attached, Lifetime
  <2> QED  BY <1>0, <1>p, <1>i, <2>1, <2>2
<1> QED
  BY <1>1, <1>2, <1>3, <1>4, <1>5, <1>6, <1>7, <1>8, <1>9, <1>10, <1>11, <1>12 DEF Next

LEMMA InvariantHolds == Spec => []Invariant
BY InvariantInit, InvariantStep, PTL DEF Spec

(***************************************************************************)
(* The pool is never over the limit it was built with, in any benchmark    *)
(* and whatever the dials, timeouts and breaks.                            *)
(***************************************************************************)
THEOREM TypeCorrect == Spec => []TypeOK
<1>1. Invariant => TypeOK
  BY DEF Invariant
<1> QED  BY <1>1, InvariantHolds, PTL

(***************************************************************************)
(* No request is written on a connection that the proxy has closed, though *)
(* the idle timer may be late for ever: idleConnTimeout is below the       *)
(* proxy's, and the age of a connection is looked at when it is taken.     *)
(***************************************************************************)
THEOREM NoDeadConnectionUsed == Spec => []NoDeadConnection
<1>1. Invariant => NoDeadConnection
  BY DEF Invariant
<1> QED  BY <1>1, InvariantHolds, PTL

(***************************************************************************)
(* Idle sockets exist only while a session benchmark runs: a dial that     *)
(* ends after the release finds the transport closed to it.                *)
(***************************************************************************)
THEOREM SocketsAreReleased == Spec => []SocketsReleased
<1>1. Invariant => SocketsReleased
  <2> SUFFICES ASSUME Invariant, Pooled # {} PROVE Session /\ phase = "open"
    BY DEF SocketsReleased
  <2>1. ~Emptied
    BY DEF Pooled, Emptied
  <2> QED  BY <2>1 DEF Invariant, Lifetime
<1> QED  BY <1>1, InvariantHolds, PTL

-----------------------------------------------------------------------------
(***************************************************************************)
(* With one host the pool never closes a connection a worker still wants.  *)
(***************************************************************************)
Users(h) == {w \in Workers : UsedBy(w, h)}

LEMMA Counting ==
  ASSUME NEW S, NEW T, IsFiniteSet(S), IsFiniteSet(T)
  PROVE  /\ Cardinality(S) \in Nat /\ Cardinality(T) \in Nat
         /\ S \subseteq T => Cardinality(S) <= Cardinality(T)
         /\ \A x : S \ {x} \subseteq T => Cardinality(S) - 1 <= Cardinality(T)
         /\ \A x : x \notin S /\ S \cup {x} \subseteq T => Cardinality(S) + 1 <= Cardinality(T)
         /\ \A x \in S : \A y :
              y \notin S /\ (S \ {x}) \cup {y} \subseteq T => Cardinality(S) <= Cardinality(T)
<1>1. Cardinality(S) \in Nat /\ Cardinality(T) \in Nat
  BY FS_CardinalityType
<1>2. ASSUME NEW U \in SUBSET T
      PROVE  Cardinality(U) <= Cardinality(T)
  BY FS_Subset
<1>3. ASSUME NEW x
      PROVE  /\ IsFiniteSet(S \ {x}) /\ Cardinality(S \ {x}) \in Nat
             /\ Cardinality(S \ {x}) = IF x \in S THEN Cardinality(S) - 1 ELSE Cardinality(S)
  BY <1>1, FS_RemoveElement, FS_CardinalityType
<1>4. ASSUME NEW x, S \ {x} \subseteq T PROVE Cardinality(S) - 1 <= Cardinality(T)
  <2>1. Cardinality(S \ {x}) <= Cardinality(T)
    BY <1>2, <1>4
  <2>2. CASE x \in S
    BY <1>3, <2>1, <2>2
  <2>3. CASE x \notin S
    BY <1>1, <1>3, <2>1, <2>3
  <2> QED  BY <2>2, <2>3
<1>5. ASSUME NEW x, x \notin S, S \cup {x} \subseteq T
      PROVE  Cardinality(S) + 1 <= Cardinality(T)
  <2>1. Cardinality(S \cup {x}) = Cardinality(S) + 1
    BY <1>5, FS_AddElement
  <2> QED  BY <1>2, <1>5, <2>1
<1>6. ASSUME NEW x \in S, NEW y, y \notin S, (S \ {x}) \cup {y} \subseteq T
      PROVE  Cardinality(S) <= Cardinality(T)
  <2>1. Cardinality((S \ {x}) \cup {y}) = Cardinality(S \ {x}) + 1
    BY <1>3, <1>6, FS_AddElement
  <2>2. Cardinality(S \ {x}) = Cardinality(S) - 1
    BY <1>3
  <2>3. Cardinality(S \ {x}) + 1 = Cardinality(S)
    BY <1>1, <2>2
  <2> QED  BY <1>2, <1>6, <2>1, <2>3
<1> QED  BY <1>1, <1>2, <1>4, <1>5, <1>6

LEMMA FiniteUsers ==
  ASSUME Invariant, NEW h PROVE IsFiniteSet(Users(h))
<1>1. Started(cfg) \in Nat
  BY Settings DEF Invariant, TypeOK
<1>2. IsFiniteSet(1..Started(cfg))
  BY <1>1, FS_Interval
<1>3. Users(h) \subseteq 1..Started(cfg)
  BY DEF Users, Workers
<1> QED  BY <1>2, <1>3, FS_Subset

(* Four ways for a host to keep as many connections as it had. *)
LEMMA KeepsOpen ==
  ASSUME Invariant, Invariant', NEW h \in Hosts,
         \/ Len(idle'[h]) >= Len(idle[h]) /\ Users(h) \subseteq Users(h)'
         \/ Len(idle'[h]) = Len(idle[h]) + 1 /\ \E w : Users(h) \ {w} \subseteq Users(h)'
         \/ /\ Len(idle'[h]) = Len(idle[h]) - 1
            /\ \E w : w \notin Users(h) /\ Users(h) \cup {w} \subseteq Users(h)'
         \/ /\ Len(idle'[h]) = Len(idle[h])
            /\ \E w \in Users(h) : \E v :
                 v \notin Users(h) /\ (Users(h) \ {w}) \cup {v} \subseteq Users(h)'
  PROVE  OpenTo(h)' >= OpenTo(h)
<1>1. IsFiniteSet(Users(h)) /\ IsFiniteSet(Users(h)')
  <2>1. IsFiniteSet(Users(h))
    BY FiniteUsers
  <2>2. (Invariant => IsFiniteSet(Users(h)))'
    BY FiniteUsers, PTL
  <2> QED  BY <2>1, <2>2
<1>2. Len(idle[h]) \in Nat /\ Len(idle'[h]) \in Nat
  BY DEF Invariant, TypeOK
<1>3. /\ OpenTo(h) = Len(idle[h]) + Cardinality(Users(h))
      /\ OpenTo(h)' = Len(idle'[h]) + Cardinality(Users(h)')
  BY DEF OpenTo, Users
<1>4. Cardinality(Users(h)) \in Nat /\ Cardinality(Users(h)') \in Nat
  BY <1>1, FS_CardinalityType
<1>5. CASE Len(idle'[h]) >= Len(idle[h]) /\ Users(h) \subseteq Users(h)'
  <2>1. Cardinality(Users(h)) <= Cardinality(Users(h)')
    BY <1>1, <1>5, Counting
  <2> QED  BY <1>2, <1>3, <1>4, <1>5, <2>1
<1>6. CASE Len(idle'[h]) = Len(idle[h]) + 1 /\ \E w : Users(h) \ {w} \subseteq Users(h)'
  <2>1. Cardinality(Users(h)) - 1 <= Cardinality(Users(h)')
    BY <1>1, <1>6, Counting
  <2> QED  BY <1>2, <1>3, <1>4, <1>6, <2>1
<1>7. CASE /\ Len(idle'[h]) = Len(idle[h]) - 1
           /\ \E w : w \notin Users(h) /\ Users(h) \cup {w} \subseteq Users(h)'
  <2>1. Cardinality(Users(h)) + 1 <= Cardinality(Users(h)')
    BY <1>1, <1>7, Counting
  <2> QED  BY <1>2, <1>3, <1>4, <1>7, <2>1
<1>8. CASE /\ Len(idle'[h]) = Len(idle[h])
           /\ \E w \in Users(h) : \E v :
                v \notin Users(h) /\ (Users(h) \ {w}) \cup {v} \subseteq Users(h)'
  <2>1. Cardinality(Users(h)) <= Cardinality(Users(h)')
    BY <1>1, <1>8, Counting
  <2> QED  BY <1>2, <1>3, <1>4, <1>8, <2>1
<1> QED  BY <1>5, <1>6, <1>7, <1>8

LEMMA OneHost ==
  ASSUME Nodes = {}, Invariant, NEW h \in Hosts
  PROVE  /\ h = Proxy /\ Hosts = {Proxy} /\ Len(idle[h]) \in Nat
         /\ Cardinality(Pooled) = Len(idle[h])
<1>1. h = Proxy /\ Hosts = {Proxy}
  BY DEF Hosts
<1>2. Len(idle[h]) \in Nat /\ DOMAIN idle[h] = 1..Len(idle[h])
  BY DEF Invariant, TypeOK
<1>3. Pooled = {h} \X (1..Len(idle[h]))
  BY <1>1, <1>2 DEF Pooled
<1>4. IsFiniteSet(1..Len(idle[h])) /\ Cardinality(1..Len(idle[h])) = Len(idle[h])
  <2>1. \A n \in Nat : IsFiniteSet(1..n) /\ Cardinality(1..n) = n
    BY FS_Interval
  <2> QED  BY <1>2, <2>1
<1>5. IsFiniteSet({h}) /\ Cardinality({h}) = 1
  BY FS_Singleton
<1>6. Cardinality({h} \X (1..Len(idle[h]))) = 1 * Len(idle[h])
  BY <1>4, <1>5, FS_Product
<1> QED  BY <1>1, <1>2, <1>3, <1>6

(* A connection given back while the client is open is kept, or there are enough. *)
LEMMA PutGrows ==
  ASSUME Nodes = {}, Invariant, NEW h \in Hosts, PutIdle(h)
  PROVE  /\ Len(idle'[h]) >= Len(idle[h])
         /\ Session /\ phase = "open" /\ Len(idle'[h]) # Len(idle[h]) + 1
              => Len(idle'[h]) >= Started(cfg)
<1> DEFINE c == [age |-> 0, dead |-> FALSE]
           longer == [idle EXCEPT ![h] = Append(@, c)]
<1>1. Cardinality(Pooled) = Len(idle[h]) /\ Len(idle[h]) \in Nat
  BY OneHost
<1>2. idle \in [Hosts -> Seq(Conns)] /\ size \in Nat /\ cfg \in Configs
  BY DEF Invariant, TypeOK
<1>3. CASE size = 0 \/ closeIdle \/ Len(idle[h]) >= size
  <2>1. idle' = idle
    BY <1>3 DEF PutIdle
  <2>2. ASSUME Session, phase = "open" PROVE Len(idle[h]) >= Started(cfg)
    <3>1. /\ Started(cfg) \in Nat \ {0} /\ MaxIdle(cfg) \in Nat
          /\ Started(cfg) <= MaxIdle(cfg)
      BY <1>2, <2>2, Settings DEF Session
    <3>2. size = MaxIdle(cfg) /\ ~closeIdle
      BY <2>2 DEF Invariant, Lifetime
    <3> QED  BY <1>1, <1>3, <3>1, <3>2
  <2> QED  BY <1>1, <2>1, <2>2
<1>4. CASE ~(size = 0 \/ closeIdle \/ Len(idle[h]) >= size)
  <2>1. idle' = longer
    BY <1>1, <1>2, <1>4 DEF PutIdle
  <2>2. idle'[h] = Append(idle[h], c) /\ idle[h] \in Seq(Conns)
    BY <1>2, <2>1
  <2>3. c \in Conns
    BY DEF Conns, KeepAlive
  <2>4. Len(idle'[h]) = Len(idle[h]) + 1
    BY <2>2, <2>3, AppendProperties
  <2> QED  BY <1>1, <2>4
<1> QED  BY <1>3, <1>4

LEMMA WarmStep ==
  ASSUME Nodes = {}, Invariant, Invariant', StaysWarm, [Next]_vars
  PROVE  StaysWarm'
<1>1. cfg' = cfg
  BY DEF Next, vars, poolVars, OpenClient, StartTx, Release, TakeIdle, Dial, DialEnds,
         Respond, Break, GiveUp, DialFails, IdleTimeout, NoticeClosed, Drop, ProxyCloses, Tick
<1> SUFFICES ASSUME Session, NEW h \in Hosts, warm'[h] PROVE OpenTo(h)' >= Started(cfg)
  BY <1>1 DEF StaysWarm, Session
<1>2. /\ Started(cfg) \in Nat \ {0} /\ Started(cfg) <= MaxIdle(cfg)
      /\ Workers' = Workers
  BY <1>1, Settings DEF Invariant, TypeOK, Session, Workers
<1>3. /\ OpenTo(h) \in Nat /\ OpenTo(h)' \in Nat
      /\ Len(idle[h]) \in Nat /\ Len(idle'[h]) \in Nat
      /\ OpenTo(h)' >= Len(idle'[h])
  <2>1. IsFiniteSet(Users(h)) /\ IsFiniteSet(Users(h)')
    <3>1. (Invariant => IsFiniteSet(Users(h)))'
      BY FiniteUsers, PTL
    <3> QED  BY <3>1, FiniteUsers
  <2>2. Len(idle[h]) \in Nat /\ Len(idle'[h]) \in Nat
    BY DEF Invariant, TypeOK
  <2>3. Cardinality(Users(h)) \in Nat /\ Cardinality(Users(h)') \in Nat
    BY <2>1, FS_CardinalityType
  <2>4. /\ OpenTo(h) = Len(idle[h]) + Cardinality(Users(h))
        /\ OpenTo(h)' = Len(idle'[h]) + Cardinality(Users(h)')
    BY DEF OpenTo, Users
  <2> QED  BY <2>2, <2>3, <2>4
<1>4. warm[h] /\ OpenTo(h)' >= OpenTo(h) => OpenTo(h)' >= Started(cfg)
  BY <1>2, <1>3 DEF StaysWarm
<1>5. /\ h = Proxy
      /\ \A w \in Workers : todo[w] # <<>> => todo[w] \in Seq(Hosts) /\ Head(todo[w]) = h
      /\ \A w \in Workers : todo'[w] # <<>> => todo'[w] \in Seq(Hosts) /\ Head(todo'[w]) = h
      /\ \A w \in Workers : conn[w] # "none" => todo[w] # <<>>
      /\ \A w \in Workers : conn'[w] # "none" => todo'[w] # <<>>
  <2>1. h = Proxy /\ Hosts = {h}
    BY OneHost
  <2>2. /\ \A w \in Workers : todo[w] \in Seq(Hosts) /\ todo'[w] \in Seq(Hosts)
        /\ \A w \in Workers : conn[w] # "none" => todo[w] # <<>>
        /\ \A w \in Workers : conn'[w] # "none" => todo'[w] # <<>>
    BY <1>2 DEF Invariant, TypeOK, Attached
  <2>3. \A s \in Seq(Hosts) : s # <<>> => Head(s) \in Hosts
    BY HeadTailProperties
  <2> QED  BY <2>1, <2>2, <2>3
<1>6. /\ Users(h) = {w \in Workers : conn[w] \in {"live", "dead"}}
      /\ Users(h)' = {w \in Workers : conn'[w] \in {"live", "dead"}}
  BY <1>2, <1>5 DEF Users, UsedBy
<1>7. /\ conn \in [Workers -> {"none", "waiting", "live", "dead"}]
      /\ idle \in [Hosts -> Seq(Conns)] /\ warm \in [Hosts -> BOOLEAN]
  BY DEF Invariant, TypeOK
(* A step that keeps the lists and lets no user go. *)
<1>k. ASSUME warm' = warm, Len(idle'[h]) >= Len(idle[h]), Users(h) \subseteq Users(h)'
      PROVE  OpenTo(h)' >= Started(cfg)
  <2>1. OpenTo(h)' >= OpenTo(h)
    BY <1>k, KeepsOpen
  <2> QED  BY <1>4, <1>k, <2>1
<1>8. CASE OpenClient \/ Tick \/ (\E i \in DOMAIN idle[Proxy] : ProxyCloses(i)) \/ UNCHANGED vars
  <2>1. warm' = warm /\ conn' = conn
    BY <1>8 DEF OpenClient, Tick, ProxyCloses, vars
  <2>2. Len(idle'[h]) = Len(idle[h])
    <3>1. CASE Tick \/ \E i \in DOMAIN idle[Proxy] : ProxyCloses(i)
      <4>1. PoolOK /\ size \in Nat
        BY InvariantParts DEF Rest
      <4>2. size' = size
        BY <3>1 DEF Tick, ProxyCloses
      <4> QED  BY <3>1, <4>1, <4>2, AgingKeeps
    <3>2. CASE OpenClient \/ UNCHANGED vars
      BY <3>2 DEF OpenClient, vars, poolVars
    <3> QED  BY <1>8, <3>1, <3>2
  <2> QED  BY <1>3, <1>6, <1>k, <2>1, <2>2
<1>9. ASSUME NEW w \in Workers, StartTx(w) \/ GiveUp(w) PROVE OpenTo(h)' >= Started(cfg)
  <2>1. warm' = warm /\ idle' = idle
    BY <1>9 DEF StartTx, GiveUp, poolVars
  <2>2. \A v \in Workers : conn[v] \in {"live", "dead"} => conn'[v] = conn[v]
    BY <1>7, <1>9 DEF StartTx, GiveUp
  <2> QED  BY <1>3, <1>6, <1>k, <2>1, <2>2
<1>10. ASSUME NEW g \in Hosts, DialFails(g) PROVE OpenTo(h)' >= Started(cfg)
  <2>1. warm' = warm /\ idle' = idle
    BY <1>10 DEF DialFails
  <2>2. \A v \in Workers : conn[v] \in {"live", "dead"} => conn'[v] = conn[v]
    BY <1>7, <1>10 DEF DialFails, Waiting
  <2> QED  BY <1>3, <1>6, <1>k, <2>1, <2>2
<1>11. CASE Release
  BY <1>11 DEF Release
<1>12. ASSUME NEW w \in Workers, TakeIdle(w) PROVE OpenTo(h)' >= Started(cfg)
  <2>1. conn[w] = "none" /\ todo[w] # <<>> /\ warm' = warm
    BY <1>12 DEF TakeIdle
  <2>2. Head(todo[w]) = h
    BY <1>5, <2>1
  <2>3. /\ idle[h] # <<>> /\ idle' = [idle EXCEPT ![h] = Front(idle[h])]
        /\ \E c \in {"live", "dead"} : conn' = [conn EXCEPT ![w] = c]
    BY <1>12, <2>2 DEF TakeIdle, Usable
  <2>4. Len(idle'[h]) = Len(idle[h]) - 1
    BY <1>7, <2>3, FrontOf
  <2>5. w \notin Users(h) /\ Users(h) \cup {w} \subseteq Users(h)'
    BY <1>6, <1>7, <2>1, <2>3
  <2>6. OpenTo(h)' >= OpenTo(h)
    BY <2>4, <2>5, KeepsOpen
  <2> QED  BY <1>4, <2>1, <2>6
<1>13. ASSUME NEW w \in Workers, Dial(w) PROVE OpenTo(h)' >= Started(cfg)
  <2>1. conn[w] = "none" /\ todo[w] # <<>> /\ conn' = [conn EXCEPT ![w] = "waiting"]
    BY <1>13 DEF Dial
  <2>2. Head(todo[w]) = h
    BY <1>5, <2>1
  <2>3. /\ idle' = [idle EXCEPT ![h] = <<>>]
        /\ IF idle[h] # <<>> THEN Lost(h) ELSE UNCHANGED warm
    BY <1>13, <2>2 DEF Dial
  <2>4. idle[h] = <<>>
    BY <1>7, <2>3 DEF Lost
  <2>5. warm' = warm /\ idle'[h] = idle[h]
    BY <1>7, <2>3, <2>4
  <2>6. Users(h) \subseteq Users(h)'
    BY <1>6, <1>7, <2>1
  <2> QED  BY <1>3, <1>k, <2>5, <2>6
<1>14. ASSUME NEW g \in Hosts, DialEnds(g) PROVE OpenTo(h)' >= Started(cfg)
  <2>1. warm' = [k \in Hosts |-> warm[k] \/ OpenTo(k)' >= Started(cfg)]
    BY <1>14 DEF DialEnds, Warmed
  <2>2. warm[h] \/ OpenTo(h)' >= Started(cfg)
    BY <2>1
  <2>3. g = h
    BY <1>5, OneHost
  <2>4. Users(h) \subseteq Users(h)'
    BY <1>6, <1>7, <1>14 DEF DialEnds, Waiting
  <2>5. Len(idle'[h]) >= Len(idle[h])
    BY <1>3, <1>14, <2>3, PutGrows DEF DialEnds
  <2>6. OpenTo(h)' >= OpenTo(h)
    BY <2>4, <2>5, KeepsOpen
  <2> QED  BY <1>4, <2>2, <2>6
<1>15. ASSUME NEW w \in Workers, Respond(w) PROVE OpenTo(h)' >= Started(cfg)
  <2>1. conn[w] = "live" /\ todo[w] # <<>>
    BY <1>5, <1>15 DEF Respond
  <2>2. Head(todo[w]) = h /\ phase = "open" /\ w \in Users(h)
    BY <1>5, <1>6, <2>1, Sending
  <2>3. /\ warm' = [k \in Hosts |-> warm[k] \/ OpenTo(k)' >= Started(cfg)]
        /\ \/ PutIdle(h) /\ conn' = [conn EXCEPT ![w] = "none"]
           \/ /\ UNCHANGED idle
              /\ \E v \in Waiting(h) : conn' = [conn EXCEPT ![w] = "none", ![v] = "live"]
    BY <1>15, <2>2 DEF Respond, Warmed
  <2>4. warm[h] \/ OpenTo(h)' >= Started(cfg)
    BY <2>3
  <2>5. CASE PutIdle(h) /\ conn' = [conn EXCEPT ![w] = "none"]
    <3>1. Users(h) \ {w} \subseteq Users(h)'
      BY <1>6, <1>7, <2>5
    <3>2. CASE Len(idle'[h]) = Len(idle[h]) + 1
      <4>1. OpenTo(h)' >= OpenTo(h)
        BY <3>1, <3>2, KeepsOpen
      <4> QED  BY <1>4, <2>4, <4>1
    <3>3. CASE Len(idle'[h]) # Len(idle[h]) + 1
      <4>1. Len(idle'[h]) >= Started(cfg)
        BY <2>2, <2>5, <3>3, PutGrows
      <4> QED  BY <1>2, <1>3, <4>1
    <3> QED  BY <3>2, <3>3
  <2>6. CASE /\ UNCHANGED idle
             /\ \E v \in Waiting(h) : conn' = [conn EXCEPT ![w] = "none", ![v] = "live"]
    <3>1. PICK v \in Waiting(h) : conn' = [conn EXCEPT ![w] = "none", ![v] = "live"]
      BY <2>6
    <3>2. v \in Workers /\ conn[v] = "waiting" /\ v # w
      BY <2>1 DEF Waiting
    <3>3. v \notin Users(h) /\ (Users(h) \ {w}) \cup {v} \subseteq Users(h)'
      BY <1>6, <1>7, <3>1, <3>2
    <3>4. OpenTo(h)' >= OpenTo(h)
      BY <2>2, <2>6, <3>3, KeepsOpen
    <3> QED  BY <1>4, <2>4, <3>4
  <2> QED  BY <2>3, <2>5, <2>6
<1>16. ASSUME NEW w \in Workers, Break(w) PROVE FALSE
  <2>1. conn[w] # "none"
    BY <1>16 DEF Break
  <2>2. Head(todo[w]) = h
    BY <1>5, <2>1
  <2> QED  BY <1>7, <1>16, <2>2 DEF Break, Lost
<1>17. ASSUME NEW g \in Hosts, NEW i \in DOMAIN idle[g], IdleTimeout(g, i) \/ NoticeClosed(g, i)
       PROVE  FALSE
  <2>1. g = h
    BY <1>5, OneHost
  <2> QED  BY <1>7, <1>17, <2>1 DEF IdleTimeout, NoticeClosed, Drop, Lost
<1> QED
  BY <1>8, <1>9, <1>10, <1>11, <1>12, <1>13, <1>14, <1>15, <1>16, <1>17 DEF Next

(***************************************************************************)
(* With one host, a single server or a proxy alone, the pool causes no     *)
(* churn: what a worker gives back is kept or handed on, because the pool  *)
(* holds a connection per worker (poolSize, effectiveConcurrency) and the  *)
(* limit over all hosts is that of the one.  With several hosts it does    *)
(* not hold: the oldest connection of another host makes room.             *)
(***************************************************************************)
THEOREM StaysWarmOnOneHost == Nodes = {} => (Spec => []StaysWarm)
<1> SUFFICES ASSUME Nodes = {} PROVE Spec => []StaysWarm
  OBVIOUS
<1>1. Init => StaysWarm
  BY DEF Init, StaysWarm
<1>2. Invariant /\ Invariant' /\ StaysWarm /\ [Next]_vars => StaysWarm'
  BY WarmStep
<1> QED  BY <1>1, <1>2, InvariantHolds, PTL DEF Spec

===============================================================================
