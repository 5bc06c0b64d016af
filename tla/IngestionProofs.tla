---------------------------- MODULE IngestionProofs ----------------------------
(***************************************************************************)
(* Proofs about ingestion, for any corpora, sources and calls, any number  *)
(* of runs, edits, failures and crashes.                                   *)
(*                                                                         *)
(* Three layers, each inductive on top of the one before.  OwnInv: what a  *)
(* run writes are chunks of its corpus, so it disturbs no other corpus.    *)
(* StageInv: what an undisturbed run has achieved by each of its stages;   *)
(* two runs of one content at once do not undo each other's work, as       *)
(* neither deletes what the other one writes, and nor does a crashed run   *)
(* that is repeated.  ReadyInv: which corpora the starting server is       *)
(* through with.                                                           *)
(*                                                                         *)
(* Before them what Chunking computes, loop by loop, up to                 *)
(* DocumentKeeps: what the chunks of a document promise.                   *)
(***************************************************************************)
EXTENDS Ingestion, FiniteSetTheorems, WellFoundedInduction, TLAPS

(***************************************************************************)
(* Induction and folds.                                                    *)
(***************************************************************************)

\* A set with 0 and with every successor of its members has all numbers.
LEMMA SetInduction ==
    ASSUME NEW S, 0 \in S, \A n \in Nat : n \in S => n + 1 \in S
    PROVE  Nat \subseteq S
<1> DEFINE T == Nat \ S
           Less == {p \in Nat \X Nat : p[1] < p[2]}
<1> SUFFICES ASSUME T # {} PROVE FALSE
  OBVIOUS
<1>1. IsWellFoundedOn(Less, Nat)
  BY NatLessThanWellFounded DEF OpToRel
<1>2. T \subseteq Nat
  OBVIOUS
<1>3. PICK m \in T : \A t \in T : <<t, m>> \notin Less
  <2> HIDE DEF T, Less
  <2> QED  BY <1>1, <1>2, WFMin
<1>4. m \in Nat /\ m # 0 /\ m - 1 \in Nat
  OBVIOUS
<1>5. <<m - 1, m>> \in Less
  BY <1>4
<1>6. m - 1 \notin T
  BY <1>3, <1>5
<1>7. (m - 1) + 1 \in S
  BY <1>4, <1>6
<1> QED  BY <1>4, <1>7

\* A set of positions that is not empty has a last one.
LEMMA LastPosition ==
    ASSUME NEW n \in Nat, NEW s \in SUBSET (1..n), s # {}
    PROVE  Max(s) \in s /\ \A y \in s : y <= Max(s)
<1> DEFINE Good == {k \in Nat : \A t \in SUBSET (1..k) : t # {} => \E x \in t : \A y \in t : x >= y}
<1>1. 0 \in Good
  <2>1. \A t \in SUBSET (1..0) : t = {}
    OBVIOUS
  <2> QED  BY <2>1
<1>2. ASSUME NEW k \in Nat, k \in Good PROVE k + 1 \in Good
  <2> SUFFICES ASSUME NEW t \in SUBSET (1..(k + 1)), t # {}
               PROVE  \E x \in t : \A y \in t : x >= y
    OBVIOUS
  <2>1. CASE k + 1 \in t
    BY <2>1
  <2>2. CASE k + 1 \notin t
    <3>1. t \in SUBSET (1..k)
      BY <2>2
    <3> QED  BY <1>2, <3>1
  <2> QED  BY <2>1, <2>2
<1>3. n \in Good
  <2> HIDE DEF Good
  <2> QED  BY <1>1, <1>2, SetInduction
<1>4. \E x \in s : \A y \in s : x >= y
  BY <1>3
<1> QED  BY <1>4 DEF Max

LEMMA AllButLast ==
    ASSUME NEW n \in Nat, NEW s \in SUBSET (1..(n + 1)), s # {}
    PROVE  s \ {Max(s)} \in SUBSET (1..n)
<1>1. n + 1 \in Nat
  OBVIOUS
<1>2. Max(s) \in s /\ \A y \in s : y <= Max(s)
  BY <1>1, LastPosition
<1>3. PICK m \in s : m = Max(s)
  BY <1>2
<1>4. \A y \in s \ {m} : y \in 1..n
  BY <1>2, <1>3
<1> QED  BY <1>3, <1>4

LEMMA Interval ==
    ASSUME NEW n \in Nat
    PROVE  /\ 1..(n + 1) # {} /\ Max(1..(n + 1)) = n + 1
           /\ (1..(n + 1)) \ {n + 1} = 1..n
<1>1. 1..(n + 1) # {} /\ n + 1 \in 1..(n + 1)
  OBVIOUS
<1>2. Max(1..(n + 1)) = n + 1
  <2>1. /\ Max(1..(n + 1)) \in 1..(n + 1)
        /\ \A y \in 1..(n + 1) : y <= Max(1..(n + 1))
    <3>1. n + 1 \in Nat /\ 1..(n + 1) \in SUBSET (1..(n + 1))
      OBVIOUS
    <3> QED  BY <1>1, <3>1, LastPosition
  <2> QED  BY <2>1
<1> QED  BY <1>1, <1>2

\* it is what MapThenFoldSet iterates, for a function G of position and value.
IsFold(it, n, base, G) ==
    it = [s \in SUBSET (1..n) |-> IF s = {} THEN base ELSE G[<<Max(s), it[s \ {Max(s)}]>>]]

LEMMA FoldExists ==
    ASSUME NEW n \in Nat, NEW V, NEW base \in V, NEW G \in [(1..n) \X V -> V]
    PROVE  \E it \in [SUBSET (1..n) -> V] : IsFold(it, n, base, G)
<1> DEFINE Has(k) == \E it \in [SUBSET (1..k) -> V] : IsFold(it, k, base, G)
           Good == {k \in Nat : k <= n => Has(k)}
<1>1. 0 \in Good
  <2> DEFINE it == [s \in SUBSET (1..0) |-> base]
  <2>1. \A s \in SUBSET (1..0) : s = {}
    OBVIOUS
  <2>2. it \in [SUBSET (1..0) -> V]
    OBVIOUS
  <2>3. IsFold(it, 0, base, G)
    BY <2>1 DEF IsFold
  <2> QED  BY <2>2, <2>3
<1>2. ASSUME NEW k \in Nat, k \in Good PROVE k + 1 \in Good
  <2> SUFFICES ASSUME k + 1 <= n PROVE Has(k + 1)
    <3> HIDE DEF Has
    <3> QED  OBVIOUS
  <2>0. Has(k)
    <3> HIDE DEF Has
    <3> QED  BY <1>2
  <2>1. PICK it \in [SUBSET (1..k) -> V] : IsFold(it, k, base, G)
    BY <2>0
  <2> DEFINE next == [s \in SUBSET (1..(k + 1)) |->
                        IF k + 1 \in s THEN G[<<k + 1, it[s \ {k + 1}]>>] ELSE it[s]]
  <2>2. ASSUME NEW s \in SUBSET (1..(k + 1)), k + 1 \in s
        PROVE  /\ Max(s) = k + 1 /\ s \ {k + 1} \in SUBSET (1..k)
               /\ next[s] = G[<<k + 1, it[s \ {k + 1}]>>] /\ next[s] \in V
               /\ next[s \ {k + 1}] = it[s \ {k + 1}]
    <3>1. Max(s) \in s /\ \A y \in s : y <= Max(s)
      BY <2>2, LastPosition
    <3>2. Max(s) = k + 1
      <4>1. PICK m \in s : m = Max(s)
        BY <3>1
      <4>2. m >= k + 1 /\ m \in 1..(k + 1)
        BY <2>2, <3>1, <4>1
      <4> QED  BY <4>1, <4>2
    <3>4. s \ {k + 1} \in SUBSET (1..k)
      OBVIOUS
    <3>3. it[s \ {k + 1}] \in V
      BY <2>1, <3>4
    <3> QED  BY <2>2, <3>2, <3>3, <3>4
  <2>3. ASSUME NEW s \in SUBSET (1..(k + 1)), k + 1 \notin s
        PROVE  /\ s \in SUBSET (1..k) /\ next[s] = it[s] /\ next[s] \in V
               /\ s # {} => /\ s \ {Max(s)} \in SUBSET (1..k)
                            /\ next[s \ {Max(s)}] = it[s \ {Max(s)}]
    <3>1. s \in SUBSET (1..k)
      BY <2>3
    <3> QED  BY <2>1, <2>3, <3>1
  <2>4. next \in [SUBSET (1..(k + 1)) -> V]
    BY <2>2, <2>3
  <2>5. \A s \in SUBSET (1..(k + 1)) :
           next[s] = IF s = {} THEN base ELSE G[<<Max(s), next[s \ {Max(s)}]>>]
    <3> SUFFICES ASSUME NEW s \in SUBSET (1..(k + 1))
                 PROVE  next[s] = IF s = {} THEN base ELSE G[<<Max(s), next[s \ {Max(s)}]>>]
      OBVIOUS
    <3>1. CASE k + 1 \in s
      <4>1. /\ Max(s) = k + 1 /\ next[s] = G[<<k + 1, it[s \ {k + 1}]>>]
            /\ next[s \ {k + 1}] = it[s \ {k + 1}]
        <5> HIDE DEF next
        <5> QED  BY <2>2, <3>1
      <4> HIDE DEF next
      <4> QED  BY <3>1, <4>1
    <3>2. CASE k + 1 \notin s
      <4>1. s \in SUBSET (1..k) /\ next[s] = it[s]
        BY <2>3, <3>2
      <4>2. it[s] = IF s = {} THEN base ELSE G[<<Max(s), it[s \ {Max(s)}]>>]
        BY <2>1, <4>1 DEF IsFold
      <4> HIDE DEF next
      <4> QED  BY <2>3, <3>2, <4>1, <4>2
    <3> QED  BY <3>1, <3>2
  <2> HIDE DEF next
  <2>6. IsFold(next, k + 1, base, G)
    BY <2>4, <2>5 DEF IsFold
  <2> QED  BY <2>4, <2>6
<1>3. n \in Good
  <2> HIDE DEF Good
  <2> QED  BY <1>1, <1>2, SetInduction
<1>4. Has(n)
  <2> HIDE DEF Has
  <2> QED  BY <1>3
<1> QED  BY <1>4

IsIteration(f, n, base, G) ==
    f[0] = base /\ \A i \in 1..n : f[i] = G[<<i, f[i - 1]>>]

Folds(it, n, V, base, G) ==
    /\ it[{}] = base
    /\ \A s \in SUBSET (1..n) : s # {} /\ it[s \ {Max(s)}] \in V
                                 => it[s] = G[<<Max(s), it[s \ {Max(s)}]>>]

Iterated(value, n, V, base, G) ==
    \E f \in [0..n -> V] : IsIteration(f, n, base, G) /\ value = f[n]

LEMMA FoldIterates ==
    ASSUME NEW n \in Nat, NEW V, NEW base \in V, NEW G \in [(1..n) \X V -> V],
           NEW it, Folds(it, n, V, base, G)
    PROVE  Iterated(it[1..n], n, V, base, G)
<1> DEFINE Good == {i \in Nat : i <= n => it[1..i] \in V}
<1>1. 1..0 = {}
  OBVIOUS
<1>2. ASSUME NEW i \in Nat, i + 1 <= n, it[1..i] \in V
      PROVE  it[1..(i + 1)] = G[<<i + 1, it[1..i]>>] /\ it[1..(i + 1)] \in V
  <2>1. 1..(i + 1) # {} /\ Max(1..(i + 1)) = i + 1 /\ (1..(i + 1)) \ {i + 1} = 1..i
    BY Interval
  <2>2. 1..(i + 1) \in SUBSET (1..n) /\ i + 1 \in 1..n
    BY <1>2
  <2>3. it[1..(i + 1)] = G[<<i + 1, it[1..i]>>]
    BY <1>2, <2>1, <2>2 DEF Folds
  <2> QED  BY <1>2, <2>2, <2>3
<1>3. 0 \in Good
  BY <1>1 DEF Folds
<1>4. ASSUME NEW i \in Nat, i \in Good PROVE i + 1 \in Good
  <2>1. ASSUME i + 1 <= n PROVE it[1..(i + 1)] \in V
    <3>1. it[1..i] \in V
      BY <1>4, <2>1
    <3> QED  BY <1>2, <2>1, <3>1
  <2> QED  BY <2>1
<1>5. \A i \in 0..n : it[1..i] \in V
  <2>1. Nat \subseteq Good
    <3> HIDE DEF Good
    <3> QED  BY <1>3, <1>4, SetInduction
  <2> QED  BY <2>1
<1> DEFINE f == [i \in 0..n |-> it[1..i]]
<1>6. f \in [0..n -> V] /\ it[1..n] = f[n] /\ f[0] = base
  BY <1>1, <1>5 DEF Folds
<1>7. ASSUME NEW i \in 1..n PROVE f[i] = G[<<i, f[i - 1]>>]
  <2>1. i - 1 \in Nat /\ (i - 1) + 1 = i /\ i - 1 \in 0..n /\ i \in 0..n
    OBVIOUS
  <2>2. it[1..((i - 1) + 1)] = G[<<(i - 1) + 1, it[1..(i - 1)]>>]
    BY <1>2, <1>5, <2>1
  <2> QED  BY <2>1, <2>2
<1> HIDE DEF f
<1> QED  BY <1>6, <1>7 DEF IsIteration, Iterated

(***************************************************************************)
(* Numbers and texts.                                                      *)
(***************************************************************************)

LEMMA OfTwo ==
    ASSUME NEW a \in Int, NEW b \in Int
    PROVE  /\ Min({a, b}) = IF a <= b THEN a ELSE b
           /\ Max({a, b}) = IF a <= b THEN b ELSE a
<1>1. CASE a <= b
  <2>1. a \in {a, b} /\ b \in {a, b} /\ \A y \in {a, b} : a <= y /\ y <= b
    BY <1>1
  <2>2. \A x \in {a, b} : (\A y \in {a, b} : x <= y) => x = a
    BY <1>1
  <2>3. \A x \in {a, b} : (\A y \in {a, b} : x >= y) => x = b
    BY <1>1
  <2> QED  BY <1>1, <2>1, <2>2, <2>3 DEF Min, Max
<1>2. CASE ~(a <= b)
  <2>1. a \in {a, b} /\ b \in {a, b} /\ \A y \in {a, b} : b <= y /\ y <= a
    BY <1>2
  <2>2. \A x \in {a, b} : (\A y \in {a, b} : x <= y) => x = b
    BY <1>2
  <2>3. \A x \in {a, b} : (\A y \in {a, b} : x >= y) => x = a
    BY <1>2
  <2> QED  BY <1>2, <2>1, <2>2, <2>3 DEF Min, Max
<1> QED  BY <1>1, <1>2

\* How many of the first n numbers are in A
CountOf(A, n) == Cardinality({j \in 1..n : j \in A})

LEMMA CountUp ==
    ASSUME NEW A, NEW n \in Nat
    PROVE  /\ CountOf(A, n) \in Nat /\ CountOf(A, 0) = 0
           /\ CountOf(A, n + 1) = CountOf(A, n) + (IF n + 1 \in A THEN 1 ELSE 0)
<1> DEFINE S(k) == {j \in 1..k : j \in A}
<1>1. IsFiniteSet(S(n)) /\ Cardinality(S(n)) \in Nat
  <2>1. S(n) \in SUBSET (1..n) /\ IsFiniteSet(1..n)
    BY FS_Interval
  <2> QED  BY <2>1, FS_Subset, FS_CardinalityType
<1>2. S(0) = {}
  OBVIOUS
<1>3. CountOf(A, 0) = 0
  BY <1>2, FS_EmptySet DEF CountOf
<1>4. CASE n + 1 \in A
  <2>1. S(n + 1) = S(n) \cup {n + 1} /\ n + 1 \notin S(n)
    BY <1>4
  <2> HIDE DEF S
  <2>2. Cardinality(S(n) \cup {n + 1}) = Cardinality(S(n)) + 1
    BY <1>1, <2>1, FS_AddElement
  <2> USE DEF S
  <2> QED  BY <1>1, <1>3, <1>4, <2>1, <2>2 DEF CountOf
<1>5. CASE n + 1 \notin A
  <2>1. S(n + 1) = S(n)
    BY <1>5
  <2> QED  BY <1>1, <1>3, <1>5, <2>1 DEF CountOf
<1> QED  BY <1>4, <1>5

LEMMA CountGrows ==
    ASSUME NEW A, NEW m \in Nat, NEW n \in Nat, m <= n
    PROVE  CountOf(A, m) <= CountOf(A, n)
<1> DEFINE S(k) == {j \in 1..k : j \in A}
<1>1. IsFiniteSet(S(n))
  <2>1. S(n) \in SUBSET (1..n) /\ IsFiniteSet(1..n)
    BY FS_Interval
  <2> QED  BY <2>1, FS_Subset
<1>2. S(m) \in SUBSET S(n)
  OBVIOUS
<1> HIDE DEF S
<1>3. Cardinality(S(m)) <= Cardinality(S(n))
  BY <1>1, <1>2, FS_Subset
<1> USE DEF S
<1> QED  BY <1>3 DEF CountOf

\* A set of numbers that has with each all below is an interval.
LEMMA InitialSegment ==
    ASSUME NEW n \in Nat, NEW S \in SUBSET (1..n),
           \A k \in S : \A j \in 1..n : j < k => j \in S
    PROVE  Cardinality(S) \in Nat /\ S = 1..Cardinality(S)
<1>1. CASE S = {}
  BY <1>1, FS_EmptySet
<1>2. CASE S # {}
  <2>1. PICK m \in S : m = Max(S) /\ \A y \in S : y <= m
    BY <1>2, LastPosition
  <2>2. m \in 1..n
    OBVIOUS
  <2>3. S = 1..m
    <3>1. \A j \in 1..m : j \in S
      BY <2>1, <2>2
    <3>2. \A j \in S : j \in 1..m
      BY <2>1, <2>2
    <3> QED  BY <3>1, <3>2
  <2>4. Cardinality(1..m) = m
    BY <2>2, FS_Interval
  <2> QED  BY <2>2, <2>3, <2>4
<1> QED  BY <1>1, <1>2

LEMMA JoinFacts ==
    ASSUME NEW W, NEW s \in Seq(W), NEW t \in Seq(W)
    PROVE  /\ s \o t \in Seq(W) /\ Len(s \o t) = Len(s) + Len(t)
           /\ \A k \in 1..Len(s) : (s \o t)[k] = s[k]
           /\ \A k \in 1..Len(t) : (s \o t)[Len(s) + k] = t[k]
           /\ ToSet(s \o t) = ToSet(s) \cup ToSet(t)
<1>1. /\ s \o t \in Seq(W) /\ Len(s) \in Nat /\ Len(t) \in Nat /\ Len(s \o t) = Len(s) + Len(t)
      /\ \A k \in 1..(Len(s) + Len(t)) : (s \o t)[k] = IF k <= Len(s) THEN s[k] ELSE t[k - Len(s)]
  OBVIOUS
<1>2. \A k \in 1..Len(s) : k \in 1..Len(s \o t) /\ (s \o t)[k] = s[k]
  BY <1>1
<1>3. \A k \in 1..Len(t) : Len(s) + k \in 1..Len(s \o t) /\ (s \o t)[Len(s) + k] = t[k]
  BY <1>1
<1>4. ASSUME NEW e \in ToSet(s \o t) PROVE e \in ToSet(s) \cup ToSet(t)
  <2>1. PICK k \in 1..(Len(s) + Len(t)) : (s \o t)[k] = e
    BY <1>1, <1>4 DEF ToSet
  <2>2. CASE k <= Len(s)
    BY <1>1, <2>1, <2>2 DEF ToSet
  <2>3. CASE ~(k <= Len(s))
    <3>1. k - Len(s) \in 1..Len(t) /\ t[k - Len(s)] = e
      BY <1>1, <2>1, <2>3
    <3> QED  BY <3>1 DEF ToSet
  <2> QED  BY <2>2, <2>3
<1>5. ASSUME NEW e \in ToSet(s) PROVE e \in ToSet(s \o t)
  <2>1. PICK k \in 1..Len(s) : s[k] = e
    BY DEF ToSet
  <2> QED  BY <1>1, <1>2, <2>1 DEF ToSet
<1>6. ASSUME NEW e \in ToSet(t) PROVE e \in ToSet(s \o t)
  <2>1. PICK k \in 1..Len(t) : t[k] = e
    BY DEF ToSet
  <2>2. PICK m \in 1..Len(s \o t) : (s \o t)[m] = e
    BY <1>3, <2>1
  <2>3. DOMAIN (s \o t) = 1..Len(s \o t)
    BY <1>1
  <2> QED  BY <2>2, <2>3 DEF ToSet
<1> QED  BY <1>1, <1>2, <1>3, <1>4, <1>5, <1>6

LEMMA AppendFacts ==
    ASSUME NEW W, NEW s \in Seq(W), NEW e \in W
    PROVE  /\ Append(s, e) \in Seq(W) /\ Len(Append(s, e)) = Len(s) + 1
           /\ Append(s, e)[Len(s) + 1] = e
           /\ \A k \in 1..Len(s) : Append(s, e)[k] = s[k]
           /\ ToSet(Append(s, e)) = ToSet(s) \cup {e}
<1>1. /\ Append(s, e) \in Seq(W) /\ Len(s) \in Nat /\ Len(Append(s, e)) = Len(s) + 1
      /\ Append(s, e)[Len(s) + 1] = e
      /\ \A k \in 1..Len(s) : k \in 1..(Len(s) + 1) /\ Append(s, e)[k] = s[k]
  OBVIOUS
<1>2. \A k \in 1..(Len(s) + 1) : k = Len(s) + 1 \/ k \in 1..Len(s)
  BY <1>1
<1>3. ASSUME NEW x \in ToSet(Append(s, e)) PROVE x \in ToSet(s) \cup {e}
  <2>1. PICK k \in 1..(Len(s) + 1) : Append(s, e)[k] = x
    BY <1>1, <1>3 DEF ToSet
  <2>2. CASE k = Len(s) + 1
    BY <1>1, <2>1, <2>2
  <2>3. CASE k \in 1..Len(s)
    <3>1. x = s[k]
      BY <1>1, <2>1, <2>3
    <3> QED  BY <2>3, <3>1 DEF ToSet
  <2> QED  BY <1>2, <2>1, <2>2, <2>3
<1>4. \A x \in ToSet(s) : x \in ToSet(Append(s, e))
  <2> TAKE x \in ToSet(s)
  <2>1. PICK k \in 1..Len(s) : s[k] = x
    BY DEF ToSet
  <2> QED  BY <1>1, <2>1 DEF ToSet
<1>5. e \in ToSet(Append(s, e))
  <2>1. Len(s) + 1 \in 1..Len(Append(s, e))
    BY <1>1
  <2> QED  BY <1>1, <2>1 DEF ToSet
<1> QED  BY <1>1, <1>3, <1>4, <1>5

LEMMA WithinJoin ==
    ASSUME NEW W, NEW s \in Seq(W), NEW t \in Seq(W), NEW p \in Seq(W)
    PROVE  /\ Within(p, s) => Within(p, s \o t)
           /\ Within(p, t) => Within(p, s \o t)
<1>1. /\ Len(s) \in Nat /\ Len(t) \in Nat /\ Len(p) \in Nat /\ DOMAIN p = 1..Len(p)
      /\ s \o t \in Seq(W) /\ Len(s \o t) = Len(s) + Len(t)
      /\ \A k \in 1..Len(s) : (s \o t)[k] = s[k]
      /\ \A k \in 1..Len(t) : (s \o t)[Len(s) + k] = t[k]
  BY JoinFacts
<1>2. ASSUME Within(p, s) PROVE Within(p, s \o t)
  <2>1. PICK a \in 0..(Len(s) - Len(p)) : \A k \in 1..Len(p) : s[a + k] = p[k]
    BY <1>1, <1>2 DEF Within
  <2>2. a \in 0..(Len(s \o t) - Len(p))
    BY <1>1, <2>1
  <2>3. \A k \in 1..Len(p) : a + k \in 1..Len(s)
    BY <1>1, <2>1
  <2>4. \A k \in 1..Len(p) : (s \o t)[a + k] = p[k]
    BY <1>1, <2>1, <2>3
  <2> QED  BY <1>1, <2>2, <2>4 DEF Within
<1>3. ASSUME Within(p, t) PROVE Within(p, s \o t)
  <2>1. PICK a \in 0..(Len(t) - Len(p)) : \A k \in 1..Len(p) : t[a + k] = p[k]
    BY <1>1, <1>3 DEF Within
  <2> DEFINE b == Len(s) + a
  <2>2. b \in 0..(Len(s \o t) - Len(p))
    BY <1>1, <2>1
  <2>3. \A k \in 1..Len(p) : a + k \in 1..Len(t) /\ b + k = Len(s) + (a + k)
    BY <1>1, <2>1
  <2>4. \A k \in 1..Len(p) : (s \o t)[b + k] = p[k]
    BY <1>1, <2>1, <2>3
  <2> HIDE DEF b
  <2> QED  BY <1>1, <2>2, <2>4 DEF Within
<1> QED  BY <1>2, <1>3

LEMMA WithinItself ==
    ASSUME NEW W, NEW s \in Seq(W)
    PROVE  Within(s, s)
<1>1. Len(s) \in Nat /\ DOMAIN s = 1..Len(s) /\ 0 \in 0..(Len(s) - Len(s)) /\ \A k \in 1..Len(s) : 0 + k = k
  OBVIOUS
<1> QED  BY <1>1 DEF Within

\* A piece that is cut out of a text
LEMMA CutFacts ==
    ASSUME NEW W, NEW s \in Seq(W), NEW lo \in Nat \ {0}, NEW hi \in Nat, lo <= hi, hi <= Len(s)
    PROVE  /\ SubSeq(s, lo, hi) \in Seq(W)
           /\ Len(SubSeq(s, lo, hi)) = (hi - lo) + 1
           /\ \A k \in 1..((hi - lo) + 1) : SubSeq(s, lo, hi)[k] = s[(lo - 1) + k]
           /\ ToSet(SubSeq(s, lo, hi)) \subseteq ToSet(s)
<1>1. /\ Len(s) \in Nat /\ SubSeq(s, lo, hi) \in Seq(W)
      /\ Len(SubSeq(s, lo, hi)) = (hi - lo) + 1
      /\ \A k \in 1..((hi - lo) + 1) : SubSeq(s, lo, hi)[k] = s[(lo - 1) + k]
  OBVIOUS
<1>2. \A k \in 1..((hi - lo) + 1) : (lo - 1) + k \in 1..Len(s)
  BY <1>1
<1> QED  BY <1>1, <1>2 DEF ToSet

LEMMA WithinCut ==
    ASSUME NEW W, NEW s \in Seq(W), NEW lo \in Nat \ {0}, NEW hi \in Nat, lo <= hi, hi <= Len(s),
           NEW from \in Nat \ {0}, NEW to \in Nat, from <= to, lo <= from, to <= hi
    PROVE  Within(SubSeq(s, from, to), SubSeq(s, lo, hi))
<1> DEFINE t == SubSeq(s, lo, hi)
           p == SubSeq(s, from, to)
           a == from - lo
<1>1. /\ t \in Seq(W) /\ Len(t) = (hi - lo) + 1 /\ Len(s) \in Nat
      /\ \A k \in 1..((hi - lo) + 1) : t[k] = s[(lo - 1) + k]
  BY CutFacts
<1>2. /\ p \in Seq(W) /\ Len(p) = (to - from) + 1 /\ DOMAIN p = 1..((to - from) + 1)
      /\ \A k \in 1..((to - from) + 1) : p[k] = s[(from - 1) + k]
  <2>1. to <= Len(s)
    BY <1>1
  <2>2. /\ p \in Seq(W) /\ Len(p) = (to - from) + 1
        /\ \A k \in 1..((to - from) + 1) : p[k] = s[(from - 1) + k]
    BY <2>1, CutFacts
  <2> QED  BY <2>2
<1> HIDE DEF t, p
<1>3. a \in 0..(Len(t) - Len(p))
  BY <1>1, <1>2
<1>4. \A k \in 1..((to - from) + 1) : a + k \in 1..((hi - lo) + 1) /\ (lo - 1) + (a + k) = (from - 1) + k
  OBVIOUS
<1>5. \A k \in 1..((to - from) + 1) : t[a + k] = p[k]
  <2> TAKE k \in 1..((to - from) + 1)
  <2>1. t[a + k] = s[(lo - 1) + (a + k)]
    BY <1>1, <1>4
  <2> QED  BY <1>2, <1>4, <2>1
<1> HIDE DEF a
<1>6. Within(p, t)
  BY <1>2, <1>3, <1>5 DEF Within
<1> QED  BY <1>6 DEF t, p

LEMMA Times ==
    ASSUME NEW j \in Nat, NEW k \in Nat, NEW s \in Nat
    PROVE  j * s \in Nat /\ (k + 1) * s = k * s + s /\ (j <= k => j * s <= k * s)
<1>1. j * s \in Nat /\ (k + 1) * s = k * s + s
  OBVIOUS
<1>2. ASSUME j <= k PROVE j * s <= k * s
  <2>1. PICK d \in Nat : k = j + d
    <3>1. k - j \in Nat /\ k = j + (k - j)
      BY <1>2
    <3> QED  BY <3>1
  <2>2. k * s = j * s + d * s /\ d * s \in Nat
    BY <2>1
  <2> QED  BY <1>1, <2>2
<1> QED  BY <1>1, <1>2

(***************************************************************************)
(* What is cut from a section.                                             *)
(***************************************************************************)

\* Where window k begins, counted from 0
Start(k, step) == (k - 1) * step

\* Windows are as many as there are starts in front of the end, up to the first
\* window that reaches it.
LEMMA WindowStarts ==
    ASSUME NEW n \in Nat, NEW budget \in Nat \ {0}, NEW step \in Nat \ {0}, step <= budget, budget < n
    PROVE  LET more == {k \in 1..n : k * step < n /\ (k - 1) * step + budget < n}
               last == Cardinality(more) + 1
           IN  /\ last \in 1..n
               /\ \A k \in 1..last : Start(k, step) \in Nat /\ Start(k, step) < n
               /\ Start(1, step) = 0
               /\ \A k \in 1..(last - 1) : Start(k + 1, step) = Start(k, step) + step
               /\ n <= Start(last, step) + budget
<1> DEFINE more == {k \in 1..n : k * step < n /\ (k - 1) * step + budget < n}
           last == Cardinality(more) + 1
<1>1. more \in SUBSET (1..n)
  OBVIOUS
<1>2. \A k \in more : \A j \in 1..n : j < k => j \in more
  <2> SUFFICES ASSUME NEW k \in more, NEW j \in 1..n, j < k PROVE j \in more
    OBVIOUS
  <2>1. k \in 1..n /\ k * step < n /\ (k - 1) * step + budget < n
    OBVIOUS
  <2>2. j \in Nat /\ k \in Nat /\ j - 1 \in Nat /\ k - 1 \in Nat /\ j <= k /\ j - 1 <= k - 1
    BY <2>1
  <2>3. j * step \in Nat /\ k * step \in Nat /\ j * step <= k * step
    BY <2>2, Times
  <2>4. (j - 1) * step \in Nat /\ (k - 1) * step \in Nat /\ (j - 1) * step <= (k - 1) * step
    BY <2>2, Times
  <2>5. j * step < n
    BY <2>1, <2>3
  <2>6. (j - 1) * step + budget < n
    BY <2>1, <2>4
  <2> QED  BY <2>5, <2>6
<1>3. Cardinality(more) \in Nat /\ more = 1..Cardinality(more)
  <2> HIDE DEF more
  <2> QED  BY <1>1, <1>2, InitialSegment
<1>4. last \in Nat /\ more = 1..(last - 1)
  <2> HIDE DEF more
  <2> QED  BY <1>3
<1>5. last \in 1..n
  <2>1. n \notin more
    <3>1. n <= n * step
      <4>1. 1 * n <= step * n
        BY Times
      <4> QED  BY <4>1
    <3>2. n * step \in Nat
      BY Times
    <3> QED  BY <3>1, <3>2
  <2> HIDE DEF more, last
  <2>2. CASE last - 1 = 0
    BY <1>4, <2>2
  <2>3. CASE last - 1 # 0
    <3>1. last - 1 \in more
      <4>1. last - 1 = Cardinality(more) /\ last - 1 \in Nat
        BY <1>3 DEF last
      <4>2. last - 1 \in 1..(last - 1)
        BY <1>4, <2>3, <4>1
      <4> QED  BY <1>4, <4>2
    <3>2. last - 1 \in 1..n /\ last - 1 # n
      BY <1>1, <2>1, <3>1
    <3> QED  BY <1>4, <3>2
  <2> QED  BY <2>2, <2>3
<1>6. last \notin more
  <2> HIDE DEF more, last
  <2> QED  BY <1>4
<1>7. \A k \in 1..last : Start(k, step) \in Nat /\ Start(k, step) < n
  <2> SUFFICES ASSUME NEW k \in 1..last PROVE Start(k, step) \in Nat /\ Start(k, step) < n
    OBVIOUS
  <2>1. k - 1 \in Nat
    BY <1>4
  <2>2. Start(k, step) \in Nat
    BY <2>1, Times DEF Start
  <2>3. CASE k = 1
    BY <2>3 DEF Start
  <2>4. CASE k # 1
    <3>1. k - 1 \in more
      <4> HIDE DEF more, last
      <4> QED  BY <1>4, <2>4
    <3>2. (k - 1) * step < n
      BY <3>1
    <3> QED  BY <2>2, <3>2 DEF Start
  <2> QED  BY <2>2, <2>3, <2>4
<1>8. Start(1, step) = 0
  BY DEF Start
<1>9. \A k \in Nat \ {0} : Start(k + 1, step) = Start(k, step) + step
  <2> TAKE k \in Nat \ {0}
  <2>1. k - 1 \in Nat /\ (k + 1) - 1 = (k - 1) + 1
    OBVIOUS
  <2>2. ((k - 1) + 1) * step = (k - 1) * step + step
    BY <2>1, Times
  <2> QED  BY <2>1, <2>2 DEF Start
<1>10. n <= Start(last, step) + budget
  <2>1. ~(last * step < n) \/ ~((last - 1) * step + budget < n)
    <3> HIDE DEF last
    <3> QED  BY <1>5, <1>6
  <2> HIDE DEF more, last
  <2>2. last - 1 \in Nat /\ last = (last - 1) + 1 /\ last \in Nat
    BY <1>5
  <2>3. /\ (last - 1) * step \in Nat /\ last * step \in Nat
        /\ ((last - 1) + 1) * step = (last - 1) * step + step
    BY <2>2, Times
  <2>4. last * step = (last - 1) * step + step
    BY <2>2, <2>3
  <2> QED  BY <2>1, <2>3, <2>4 DEF Start
<1> HIDE DEF more, last
<1>11. \A k \in 1..(last - 1) : Start(k + 1, step) = Start(k, step) + step
  BY <1>4, <1>9
<1> QED  BY <1>5, <1>7, <1>8, <1>10, <1>11 DEF more, last

LEMMA WindowsCover ==
    ASSUME NEW p \in Texts, NEW budget \in Nat \ {0}, NEW overlap \in Nat, overlap < budget,
           budget < Len(p)
    PROVE  /\ Windows(p, budget, overlap) \in Seq(Texts)
           /\ \A w \in ToSet(Windows(p, budget, overlap)) :
                Len(w) <= budget /\ ToSet(w) \subseteq ToSet(p)
           /\ \A i \in 1..Len(p) : \E w \in ToSet(Windows(p, budget, overlap)) :
                Within(Phrase(p, i, overlap), w)
<1> DEFINE n == Len(p)
           step == budget - overlap
           more == {k \in 1..n : k * step < n /\ (k - 1) * step + budget < n}
           last == Cardinality(more) + 1
           End(k) == Min({Start(k, step) + budget, n})
           W == Windows(p, budget, overlap)
           T == Words \cup Marks
<1>0. p \in Seq(T)
  BY DEF Texts
<1>1. n \in Nat /\ step \in Nat \ {0} /\ step <= budget /\ step + overlap = budget
  BY <1>0
<1>2. Max({budget - overlap, 1}) = step
  <2>1. budget - overlap \in Int /\ 1 \in Int /\ (budget - overlap <= 1 => budget - overlap = 1)
    OBVIOUS
  <2> QED  BY <2>1, OfTwo
<1>3. W = [k \in 1..last |-> SubSeq(p, Start(k, step) + 1, End(k))]
  BY <1>2 DEF Windows, Start
<1> HIDE DEF step, n
<1>4. /\ last \in 1..n
      /\ \A k \in 1..last : Start(k, step) \in Nat /\ Start(k, step) < n
      /\ Start(1, step) = 0
      /\ \A k \in 1..(last - 1) : Start(k + 1, step) = Start(k, step) + step
      /\ n <= Start(last, step) + budget
  BY <1>1, WindowStarts DEF n
<1> HIDE DEF more, last, W
<1>5. ASSUME NEW k \in 1..last
      PROVE  /\ Start(k, step) \in Nat
             /\ End(k) \in Nat /\ Start(k, step) + 1 <= End(k) /\ End(k) <= n
             /\ End(k) = IF Start(k, step) + budget <= n THEN Start(k, step) + budget ELSE n
  <2>1. Start(k, step) \in Nat /\ Start(k, step) < n
    BY <1>4
  <2>2. Start(k, step) + budget \in Int /\ n \in Int
    BY <1>1, <2>1
  <2>3. End(k) = IF Start(k, step) + budget <= n THEN Start(k, step) + budget ELSE n
    BY <2>2, OfTwo
  <2> HIDE DEF End
  <2> QED  BY <1>1, <2>1, <2>3
<1>6. ASSUME NEW k \in 1..last
      PROVE  /\ W[k] \in Seq(T) /\ Len(W[k]) <= budget /\ ToSet(W[k]) \subseteq ToSet(p)
  <2> DEFINE lo == Start(k, step) + 1
             hi == End(k)
  <2>1. W[k] = SubSeq(p, lo, hi)
    BY <1>3
  <2>2. lo \in Nat \ {0} /\ hi \in Nat /\ lo <= hi /\ hi <= Len(p) /\ (hi - lo) + 1 <= budget
    <3> HIDE DEF End
    <3> QED  BY <1>1, <1>5 DEF n
  <2> HIDE DEF lo, hi
  <2>3. SubSeq(p, lo, hi) \in Seq(T) /\ Len(SubSeq(p, lo, hi)) = (hi - lo) + 1
        /\ ToSet(SubSeq(p, lo, hi)) \subseteq ToSet(p)
    BY <1>0, <2>2, CutFacts
  <2> QED  BY <2>1, <2>2, <2>3
<1>7. W \in Seq(Seq(T)) /\ ToSet(W) = {W[k] : k \in 1..last}
  <2>1. last \in Nat /\ W = [k \in 1..last |-> W[k]]
    <3>1. last \in Nat
      BY <1>1, <1>4
    <3> HIDE DEF End
    <3> QED  BY <1>3, <3>1
  <2>2. W \in [1..last -> Seq(T)]
    BY <1>6, <2>1
  <2> QED  BY <2>1, <2>2 DEF ToSet
<1>8. ASSUME NEW i \in 1..n
      PROVE  \E k \in 1..last : Within(Phrase(p, i, overlap), W[k])
  <2> DEFINE S == {k \in 1..last : Start(k, step) + 1 <= i}
             k == Max(S)
             to == Min({i + overlap, n})
  <2>1. 1 \in S
    BY <1>1, <1>4
  <2>2. k \in 1..last /\ Start(k, step) + 1 <= i /\ \A j \in S : j <= k
    <3>1. S \in SUBSET (1..last) /\ last \in Nat
      BY <1>1, <1>4
    <3>2. k \in S /\ \A j \in S : j <= k
      <4> HIDE DEF S
      <4> QED  BY <2>1, <3>1, LastPosition
    <3> QED  BY <3>2
  <2>3. to \in Nat /\ i <= to /\ to <= n /\ to <= i + overlap
    <3>1. i + overlap \in Int /\ n \in Int /\ i \in Int
      BY <1>1
    <3>2. to = IF i + overlap <= n THEN i + overlap ELSE n
      BY <3>1, OfTwo
    <3> HIDE DEF to
    <3> QED  BY <1>1, <3>2
  <2>4. to <= End(k)
    <3>1. CASE k = last
      <4>1. End(k) = n
        <5> HIDE DEF End, k
        <5> QED  BY <1>1, <1>4, <1>5, <2>2, <3>1
      <4> HIDE DEF End, k, to
      <4> QED  BY <2>3, <4>1
    <3>2. CASE k # last
      <4>1. k + 1 \in 1..last /\ k \in 1..(last - 1)
        <5> HIDE DEF k
        <5> QED  BY <1>1, <1>4, <2>2, <3>2
      <4>2. ~(Start(k + 1, step) + 1 <= i)
        <5>1. k + 1 \notin S
          <6> HIDE DEF k, S
          <6> QED  BY <2>2, <4>1
        <5> QED  BY <4>1, <5>1
      <4>3. Start(k + 1, step) = Start(k, step) + step /\ Start(k, step) \in Nat
        BY <1>4, <2>2, <4>1
      <4>4. i + overlap <= Start(k, step) + budget
        <5> HIDE DEF k
        <5> QED  BY <1>1, <4>2, <4>3
      <4> HIDE DEF End, k, to
      <4> QED  BY <1>1, <1>5, <2>2, <2>3, <4>3, <4>4
    <3> QED  BY <3>1, <3>2
  <2> DEFINE lo == Start(k, step) + 1
             hi == End(k)
  <2>5. W[k] = SubSeq(p, lo, hi) /\ Phrase(p, i, overlap) = SubSeq(p, i, to)
    BY <1>3, <2>2 DEF Phrase, n
  <2>6. /\ lo \in Nat \ {0} /\ hi \in Nat /\ lo <= hi /\ hi <= Len(p) /\ i \in Nat \ {0}
        /\ lo <= i /\ to <= hi
    <3> HIDE DEF End, k, to
    <3> QED  BY <1>1, <1>5, <2>2, <2>4 DEF n
  <2> HIDE DEF lo, hi, k, to
  <2>7. Within(SubSeq(p, i, to), SubSeq(p, lo, hi))
    BY <1>0, <2>3, <2>6, WithinCut
  <2> QED  BY <2>2, <2>5, <2>7
<1>9. \A w \in ToSet(W) : Len(w) <= budget /\ ToSet(w) \subseteq ToSet(p)
  BY <1>6, <1>7
<1>10. \A i \in 1..n : \E w \in ToSet(W) : Within(Phrase(p, i, overlap), w)
  BY <1>7, <1>8
<1> QED  BY <1>7, <1>9, <1>10 DEF W, n, Texts

Packed == [pieces : Seq(Texts), current : Texts]

PackedTexts(packed) == ToSet(packed.pieces) \cup {packed.current}

Phrases == Texts \ { <<>> }

LEMMA PhraseFacts ==
    ASSUME NEW p \in Texts, NEW i \in 1..Len(p), NEW overlap \in Nat
    PROVE  Phrase(p, i, overlap) \in Phrases /\ Within(Phrase(p, i, overlap), p)
<1> DEFINE T == Words \cup Marks
           to == Min({i + overlap, Len(p)})
<1>1. p \in Seq(T) /\ Len(p) \in Nat /\ i \in Nat \ {0} /\ i <= Len(p)
  BY DEF Texts
<1>2. to \in Nat /\ i <= to /\ to <= Len(p)
  <2>1. i + overlap \in Int /\ Len(p) \in Int
    BY <1>1
  <2>2. to = IF i + overlap <= Len(p) THEN i + overlap ELSE Len(p)
    BY <2>1, OfTwo
  <2> HIDE DEF to
  <2> QED  BY <1>1, <2>2
<1>3. Phrase(p, i, overlap) = SubSeq(p, i, to)
  BY DEF Phrase
<1> HIDE DEF to, T
<1>4. SubSeq(p, i, to) \in Seq(T) /\ Len(SubSeq(p, i, to)) = (to - i) + 1
  BY <1>1, <1>2, CutFacts
<1>5. SubSeq(p, i, to) # <<>>
  BY <1>1, <1>2, <1>4
<1>6. SubSeq(p, 1, Len(p)) = p
  BY <1>1
<1>7. Within(SubSeq(p, i, to), SubSeq(p, 1, Len(p)))
  <2>1. 1 \in Nat \ {0} /\ 1 <= Len(p) /\ Len(p) <= Len(p) /\ 1 <= i
    BY <1>1
  <2> QED  BY <1>1, <1>2, <2>1, WithinCut
<1> QED  BY <1>3, <1>4, <1>5, <1>6, <1>7 DEF Phrases, Texts, T

LEMMA NothingInNothing ==
    ASSUME NEW phrase \in Phrases
    PROVE  ~Within(phrase, <<>>)
<1>1. phrase \in Seq(Words \cup Marks) /\ phrase # <<>>
  BY DEF Phrases, Texts
<1>2. Len(phrase) \in Nat /\ Len(phrase) # 0 /\ Len(<<>>) = 0
  BY <1>1
<1>3. 0..(Len(<<>>) - Len(phrase)) = {}
  BY <1>2
<1> QED  BY <1>3 DEF Within

\* Packing one more paragraph: pieces fit, tokens are of what was packed and of the
\* paragraph, and no phrase is taken apart.
PackedOn(packed, next, p, budget, overlap) ==
    /\ next \in Packed
    /\ \A w \in PackedTexts(next) :
         /\ Len(w) <= budget
         /\ ToSet(w) \subseteq (UNION {ToSet(v) : v \in PackedTexts(packed)}) \cup ToSet(p)
    /\ \A phrase \in Phrases :
         (\E w \in PackedTexts(packed) : Within(phrase, w)) => \E w \in PackedTexts(next) : Within(phrase, w)
    /\ \A i \in 1..Len(p) : \E w \in PackedTexts(next) : Within(Phrase(p, i, overlap), w)

LEMMA PackStep ==
    ASSUME NEW packed \in Packed, NEW p \in Texts, NEW budget \in Nat \ {0}, NEW overlap \in Nat,
           overlap < budget, \A w \in PackedTexts(packed) : Len(w) <= budget
    PROVE  PackedOn(packed, Pack(packed, p, budget, overlap), p, budget, overlap)
<1> DEFINE closed == IF packed.current = <<>> THEN packed.pieces ELSE Append(packed.pieces, packed.current)
           next == Pack(packed, p, budget, overlap)
           Old == UNION {ToSet(v) : v \in PackedTexts(packed)}
           T == Words \cup Marks
<1>1. /\ packed.pieces \in Seq(Texts) /\ packed.current \in Texts
      /\ <<>> \in Texts /\ Len(<<>>) = 0 /\ ToSet(<<>>) = {}
      /\ Len(packed.current) \in Nat /\ Len(p) \in Nat /\ Len(packed.current) <= budget
  <2>1. packed.pieces \in Seq(Texts) /\ packed.current \in Texts
    BY DEF Packed
  <2>2. ToSet(<<>>) = {} /\ Len(<<>>) = 0
    BY DEF ToSet
  <2>3. Len(packed.current) <= budget
    BY DEF PackedTexts
  <2>4. <<>> \in Texts /\ Len(packed.current) \in Nat /\ Len(p) \in Nat
    BY <2>1 DEF Texts
  <2> QED  BY <2>1, <2>2, <2>3, <2>4
<1>2. /\ closed \in Seq(Texts) /\ ToSet(closed) \subseteq PackedTexts(packed)
      /\ \A phrase \in Phrases :
            (\E w \in PackedTexts(packed) : Within(phrase, w)) => \E w \in ToSet(closed) : Within(phrase, w)
  <2>1. CASE packed.current = <<>>
    <3>1. closed = packed.pieces
      BY <2>1
    <3>2. \A w \in PackedTexts(packed) : w \in ToSet(closed) \/ w = <<>>
      BY <2>1, <3>1 DEF PackedTexts
    <3> HIDE DEF closed
    <3> QED  BY <1>1, <3>1, <3>2, NothingInNothing DEF PackedTexts
  <2>2. CASE packed.current # <<>>
    <3>1. closed = Append(packed.pieces, packed.current)
      BY <2>2
    <3>2. closed \in Seq(Texts) /\ ToSet(closed) = PackedTexts(packed)
      BY <1>1, <3>1, AppendFacts DEF PackedTexts
    <3> QED  BY <3>2
  <2> QED  BY <2>1, <2>2
<1>3. CASE Len(p) > budget
  <2> DEFINE W == Windows(p, budget, overlap)
  <2>1. next = [pieces |-> closed \o W, current |-> <<>>]
    BY <1>1, <1>3 DEF Pack
  <2>2. /\ W \in Seq(Texts)
        /\ \A w \in ToSet(W) : Len(w) <= budget /\ ToSet(w) \subseteq ToSet(p)
        /\ \A i \in 1..Len(p) : \E w \in ToSet(W) : Within(Phrase(p, i, overlap), w)
    BY <1>1, <1>3, WindowsCover
  <2> HIDE DEF W, closed, next
  <2>3. closed \o W \in Seq(Texts) /\ ToSet(closed \o W) = ToSet(closed) \cup ToSet(W)
    BY <1>2, <2>2, JoinFacts
  <2>4. next \in Packed /\ PackedTexts(next) = ToSet(closed) \cup ToSet(W) \cup { <<>> }
    BY <1>1, <2>1, <2>3 DEF Packed, PackedTexts
  <2>5. \A w \in PackedTexts(next) : Len(w) <= budget /\ ToSet(w) \subseteq Old \cup ToSet(p)
    <3> TAKE w \in PackedTexts(next)
    <3>1. CASE w \in ToSet(closed)
      BY <1>2, <3>1
    <3>2. CASE w \in ToSet(W)
      BY <2>2, <3>2
    <3>3. CASE w = <<>>
      BY <1>1, <3>3
    <3> QED  BY <2>4, <3>1, <3>2, <3>3
  <2>6. \A phrase \in Phrases :
           (\E w \in PackedTexts(packed) : Within(phrase, w)) => \E w \in PackedTexts(next) : Within(phrase, w)
    BY <1>2, <2>4
  <2>7. \A i \in 1..Len(p) : \E w \in PackedTexts(next) : Within(Phrase(p, i, overlap), w)
    BY <2>2, <2>4
  <2>8. PackedOn(packed, next, p, budget, overlap)
    BY <2>4, <2>5, <2>6, <2>7 DEF PackedOn
  <2> QED  BY <2>8 DEF next
<1>4. CASE Len(packed.current) + Len(p) > budget /\ Len(p) <= budget
  <2>1. next = [pieces |-> closed, current |-> p]
    BY <1>1, <1>4 DEF Pack
  <2> HIDE DEF closed, next
  <2>2. next \in Packed /\ PackedTexts(next) = ToSet(closed) \cup {p}
    BY <1>2, <2>1 DEF Packed, PackedTexts
  <2>3. \A w \in PackedTexts(next) : Len(w) <= budget /\ ToSet(w) \subseteq Old \cup ToSet(p)
    BY <1>2, <1>4, <2>2
  <2>4. \A i \in 1..Len(p) : Within(Phrase(p, i, overlap), p)
    BY PhraseFacts
  <2>5. \A phrase \in Phrases :
           (\E w \in PackedTexts(packed) : Within(phrase, w)) => \E w \in PackedTexts(next) : Within(phrase, w)
    BY <1>2, <2>2
  <2>6. \A i \in 1..Len(p) : \E w \in PackedTexts(next) : Within(Phrase(p, i, overlap), w)
    BY <2>2, <2>4
  <2>7. PackedOn(packed, next, p, budget, overlap)
    BY <2>2, <2>3, <2>5, <2>6 DEF PackedOn
  <2> QED  BY <2>7 DEF next
<1>5. CASE ~(Len(p) > budget) /\ ~(Len(packed.current) + Len(p) > budget /\ Len(p) <= budget)
  <2> DEFINE longer == packed.current \o p
  <2>1. next = [pieces |-> packed.pieces, current |-> longer]
    <3>1. next = [packed EXCEPT !.current = longer]
      BY <1>1, <1>5 DEF Pack
    <3> QED  BY <3>1 DEF Packed
  <2>2. /\ longer \in Texts /\ Len(longer) <= budget
        /\ ToSet(longer) = ToSet(packed.current) \cup ToSet(p)
    <3>1. packed.current \in Seq(T) /\ p \in Seq(T)
      BY <1>1 DEF Texts
    <3>2. /\ longer \in Seq(T) /\ Len(longer) = Len(packed.current) + Len(p)
          /\ ToSet(longer) = ToSet(packed.current) \cup ToSet(p)
      <4> HIDE DEF T
      <4> QED  BY <3>1, JoinFacts
    <3>3. Len(packed.current) + Len(p) <= budget
      BY <1>1, <1>5
    <3> QED  BY <3>2, <3>3 DEF Texts
  <2>3. \A phrase \in Phrases : /\ Within(phrase, packed.current) => Within(phrase, longer)
                                /\ Within(phrase, p) => Within(phrase, longer)
    <3> TAKE phrase \in Phrases
    <3>1. packed.current \in Seq(T) /\ p \in Seq(T) /\ phrase \in Seq(T)
      BY <1>1 DEF Texts, Phrases
    <3> HIDE DEF T
    <3> QED  BY <3>1, WithinJoin
  <2> HIDE DEF next, longer
  <2>4. next \in Packed /\ PackedTexts(next) = ToSet(packed.pieces) \cup {longer}
    BY <1>1, <2>1, <2>2 DEF Packed, PackedTexts
  <2>5. \A w \in PackedTexts(next) : Len(w) <= budget /\ ToSet(w) \subseteq Old \cup ToSet(p)
    <3> TAKE w \in PackedTexts(next)
    <3>1. CASE w \in ToSet(packed.pieces)
      BY <3>1 DEF PackedTexts
    <3>2. CASE w = longer
      <4>1. packed.current \in PackedTexts(packed)
        BY DEF PackedTexts
      <4> QED  BY <2>2, <3>2, <4>1
    <3> QED  BY <2>4, <3>1, <3>2
  <2>6. ASSUME NEW phrase \in Phrases, NEW w \in PackedTexts(packed), Within(phrase, w)
        PROVE  \E v \in PackedTexts(next) : Within(phrase, v)
    BY <2>3, <2>4, <2>6 DEF PackedTexts
  <2>7. \A i \in 1..Len(p) : \E w \in PackedTexts(next) : Within(Phrase(p, i, overlap), w)
    BY <2>3, <2>4, PhraseFacts
  <2>8. PackedOn(packed, next, p, budget, overlap)
    BY <2>4, <2>5, <2>6, <2>7 DEF PackedOn
  <2> QED  BY <2>8 DEF next
<1> QED  BY <1>3, <1>4, <1>5

(***************************************************************************)
(* The folds of Chunking as steps, one per element.                        *)
(***************************************************************************)

LEMMA AddLineType ==
    ASSUME NEW v \in Seq(Texts) \ { <<>> }, NEW line \in Lines
    PROVE  AddLine(v, line) \in Seq(Texts) \ { <<>> }
<1>1. v \in Seq(Texts) /\ Len(v) \in Nat \ {0} /\ line.tokens \in Texts /\ <<>> \in Texts
  <2>1. v \in Seq(Texts) /\ v # <<>> /\ line.tokens \in Texts
    BY DEF Lines
  <2>2. Len(v) \in Nat \ {0}
    BY <2>1
  <2> QED  BY <2>1, <2>2 DEF Texts
<1>2. CASE line.kind = "blank"
  <2>1. AddLine(v, line) = Append(v, <<>>)
    BY <1>2 DEF AddLine
  <2>2. Append(v, <<>>) \in Seq(Texts) /\ Len(Append(v, <<>>)) = Len(v) + 1
    BY <1>1
  <2> QED  BY <1>1, <2>1, <2>2
<1>3. CASE line.kind # "blank"
  <2>1. AddLine(v, line) = [v EXCEPT ![Len(v)] = v[Len(v)] \o line.tokens]
    BY <1>3 DEF AddLine
  <2>2. v[Len(v)] \o line.tokens \in Texts
    <3>1. v[Len(v)] \in Texts
      BY <1>1
    <3> QED  BY <1>1, <3>1 DEF Texts
  <2> DEFINE e == v[Len(v)] \o line.tokens
             m == Len(v)
  <2> HIDE DEF e
  <2>3. [v EXCEPT ![m] = e] \in Seq(Texts) /\ Len([v EXCEPT ![m] = e]) = m
    BY <1>1, <2>2 DEF e
  <2> QED  BY <1>1, <2>1, <2>3 DEF e
<1> QED  BY <1>2, <1>3

\* The paragraphs of a body, line by line
LEMMA ParagraphsChain ==
    ASSUME NEW body \in Seq(Lines)
    PROVE  \E f \in [0..Len(body) -> (Seq(Texts) \ { <<>> })] :
              /\ f[0] = << <<>> >>
              /\ \A i \in 1..Len(body) : f[i] = AddLine(f[i - 1], body[i])
              /\ Paragraphs(body) = f[Len(body)]
<1> DEFINE n == Len(body)
           V == (Seq(Texts) \ { <<>> })
           G == [p \in (1..n) \X V |-> AddLine(p[2], body[p[1]])]
           Is(it) == it = [s \in SUBSET (1..n) |->
                             IF s = {} THEN << <<>> >> ELSE AddLine(it[s \ {Max(s)}], body[Max(s)])]
           ch == CHOOSE it : Is(it)
<1>1. n \in Nat /\ DOMAIN body = 1..n
  OBVIOUS
<1>2. << <<>> >> \in V
  <2>1. <<>> \in Texts
    BY DEF Texts
  <2> QED  BY <2>1
<1>3. \A v \in V, i \in 1..n : AddLine(v, body[i]) \in V
  <2> TAKE v \in V, i \in 1..n
  <2>1. body[i] \in Lines
    BY <1>1
  <2> QED  BY <2>1, AddLineType
<1>4. G \in [(1..n) \X V -> V]
  BY <1>3
<1>5. \A i \in 1..n, v \in V : G[<<i, v>>] = AddLine(v, body[i])
  OBVIOUS
<1>6. \A s \in SUBSET (1..n) : s # {} => Max(s) \in 1..n
  BY <1>1, LastPosition
<1> HIDE DEF V, G
<1>7. Is(ch)
  <2>1. PICK it \in [SUBSET (1..n) -> V] : IsFold(it, n, << <<>> >>, G)
    BY <1>1, <1>2, <1>4, FoldExists
  <2>2. \A s \in SUBSET (1..n) : it[s] = IF s = {} THEN << <<>> >> ELSE AddLine(it[s \ {Max(s)}], body[Max(s)])
    <3> TAKE s \in SUBSET (1..n)
    <3>1. CASE s = {}
      BY <2>1, <3>1 DEF IsFold
    <3>2. CASE s # {}
      <4>1. it[s] = G[<<Max(s), it[s \ {Max(s)}]>>]
        BY <2>1, <3>2 DEF IsFold
      <4>2. it[s \ {Max(s)}] \in V
        BY <2>1
      <4> QED  BY <1>5, <1>6, <3>2, <4>1, <4>2
    <3> QED  BY <3>1, <3>2
  <2>3. Is(it)
    BY <2>1, <2>2
  <2> HIDE DEF Is
  <2> QED  BY <2>3
<1>8. Paragraphs(body) = ch[1..n]
  BY <1>1 DEF Paragraphs, FoldLeft, MapThenFoldSet
<1>9. /\ ch[{}] = << <<>> >>
      /\ \A s \in SUBSET (1..n) : s # {} => ch[s] = AddLine(ch[s \ {Max(s)}], body[Max(s)])
  <2> HIDE DEF ch
  <2> QED  BY <1>7
<1> HIDE DEF ch, Is
<1>10. Folds(ch, n, V, << <<>> >>, G)
  BY <1>5, <1>6, <1>9 DEF Folds
<1>11. Iterated(ch[1..n], n, V, << <<>> >>, G)
  BY <1>1, <1>2, <1>4, <1>10, FoldIterates
<1>12. PICK f \in [0..n -> V] : IsIteration(f, n, << <<>> >>, G) /\ ch[1..n] = f[n]
  BY <1>11 DEF Iterated
<1>13. \A i \in 1..n : f[i] = AddLine(f[i - 1], body[i])
  <2> TAKE i \in 1..n
  <2>1. i - 1 \in 0..n
    BY <1>1
  <2>2. f[i] = G[<<i, f[i - 1]>>] /\ f[i - 1] \in V
    BY <1>12, <2>1 DEF IsIteration
  <2> QED  BY <1>5, <2>2
<1> QED  BY <1>8, <1>12, <1>13 DEF IsIteration, V

Sections == [label : Nat, title : Texts, body : Seq(Texts)]

Scans == [no : Nat, title : Texts, body : Seq(Lines), fence : BOOLEAN, sections : Seq(Sections)]

LEMMA ParagraphsType ==
    ASSUME NEW body \in Seq(Lines)
    PROVE  Paragraphs(body) \in Seq(Texts) /\ Paragraphs(body) # <<>>
<1>1. PICK f \in [0..Len(body) -> Seq(Texts) \ { <<>> }] : Paragraphs(body) = f[Len(body)]
  BY ParagraphsChain
<1>2. Len(body) \in 0..Len(body)
  OBVIOUS
<1> QED  BY <1>1, <1>2

LEMMA FlushType ==
    ASSUME NEW scan \in Scans
    PROVE  Flush(scan) \in Seq(Sections)
<1>1. /\ scan.no \in Nat /\ scan.title \in Texts /\ scan.body \in Seq(Lines)
      /\ scan.sections \in Seq(Sections)
  BY DEF Scans
<1>2. Paragraphs(scan.body) \in Seq(Texts)
  BY <1>1, ParagraphsType
<1> DEFINE new == [label |-> scan.no, title |-> scan.title, body |-> Paragraphs(scan.body)]
<1>3. new \in Sections
  BY <1>1, <1>2 DEF Sections
<1>4. Flush(scan) = scan.sections \/ Flush(scan) = Append(scan.sections, new)
  BY DEF Flush
<1> HIDE DEF new
<1>5. Append(scan.sections, new) \in Seq(Sections)
  BY <1>1, <1>3
<1> QED  BY <1>1, <1>4, <1>5

LEMMA ScanLineStep ==
    ASSUME NEW scan \in Scans, NEW line \in Lines
    PROVE  /\ ScanLine(scan, line) \in Scans
           /\ LET fence == (line.kind = "fence") # scan.fence
              IN  IF line.kind = "heading" /\ ~fence
                  THEN ScanLine(scan, line) =
                         [no |-> scan.no + 1, title |-> line.tokens, body |-> <<>>,
                          fence |-> scan.fence, sections |-> Flush(scan)]
                  ELSE ScanLine(scan, line) =
                         [no |-> scan.no, title |-> scan.title, body |-> Append(scan.body, line),
                          fence |-> fence, sections |-> scan.sections]
<1> DEFINE fence == (line.kind = "fence") # scan.fence
<1>1. /\ scan.no \in Nat /\ scan.title \in Texts /\ scan.body \in Seq(Lines)
      /\ scan.fence \in BOOLEAN /\ scan.sections \in Seq(Sections) /\ line.tokens \in Texts
      /\ scan = [no |-> scan.no, title |-> scan.title, body |-> scan.body,
                 fence |-> scan.fence, sections |-> scan.sections]
  BY DEF Scans, Lines
<1>2. Flush(scan) \in Seq(Sections)
  BY FlushType
<1>3. Append(scan.body, line) \in Seq(Lines) /\ <<>> \in Seq(Lines) /\ scan.no + 1 \in Nat
  BY <1>1
<1>4. fence \in BOOLEAN
  OBVIOUS
<1> DEFINE heading == line.kind = "heading" /\ ~fence
           new == [no |-> scan.no + 1, title |-> line.tokens, body |-> <<>>,
                   fence |-> scan.fence, sections |-> Flush(scan)]
           same == [no |-> scan.no, title |-> scan.title, body |-> Append(scan.body, line),
                    fence |-> fence, sections |-> scan.sections]
<1>5. ASSUME heading PROVE ScanLine(scan, line) = new
  <2>1. ScanLine(scan, line) =
          [scan EXCEPT !.sections = Flush(scan), !.no = scan.no + 1, !.title = line.tokens, !.body = <<>>]
    BY <1>5 DEF ScanLine
  <2> QED  BY <1>1, <2>1
<1>6. ASSUME ~heading PROVE ScanLine(scan, line) = same
  <2>1. ScanLine(scan, line) = [scan EXCEPT !.body = Append(scan.body, line), !.fence = fence]
    BY <1>6 DEF ScanLine
  <2> HIDE DEF fence
  <2> QED  BY <1>1, <2>1
<1>7. new \in Scans
  BY <1>1, <1>2, <1>3 DEF Scans
<1>8. same \in Scans
  <2> HIDE DEF fence
  <2> QED  BY <1>1, <1>3, <1>4 DEF Scans
<1>9. ScanLine(scan, line) \in Scans
  <2> HIDE DEF new, same, heading
  <2> QED  BY <1>5, <1>6, <1>7, <1>8
<1> QED  BY <1>5, <1>6, <1>9

Scanned(lines) == FoldLeft(ScanLine, NothingScanned, lines)

\* A document, line by line
LEMMA ScanChain ==
    ASSUME NEW lines \in Seq(Lines)
    PROVE  \E f \in [0..Len(lines) -> Scans] :
              /\ f[0] = NothingScanned
              /\ \A i \in 1..Len(lines) : f[i] = ScanLine(f[i - 1], lines[i])
              /\ Scanned(lines) = f[Len(lines)]
<1> DEFINE n == Len(lines)
           V == Scans
           G == [p \in (1..n) \X V |-> ScanLine(p[2], lines[p[1]])]
           Is(it) == it = [s \in SUBSET (1..n) |->
                             IF s = {} THEN NothingScanned ELSE ScanLine(it[s \ {Max(s)}], lines[Max(s)])]
           ch == CHOOSE it : Is(it)
<1>1. n \in Nat /\ DOMAIN lines = 1..n
  OBVIOUS
<1>2. NothingScanned \in V
  BY DEF NothingScanned, Scans, Texts
<1>3. \A v \in V, i \in 1..n : ScanLine(v, lines[i]) \in V
  <2> TAKE v \in V, i \in 1..n
  <2>1. lines[i] \in Lines
    BY <1>1
  <2> QED  BY <2>1, ScanLineStep
<1>4. G \in [(1..n) \X V -> V]
  BY <1>3
<1>5. \A i \in 1..n, v \in V : G[<<i, v>>] = ScanLine(v, lines[i])
  OBVIOUS
<1>6. \A s \in SUBSET (1..n) : s # {} => Max(s) \in 1..n
  BY <1>1, LastPosition
<1> HIDE DEF V, G
<1>7. Is(ch)
  <2>1. PICK it \in [SUBSET (1..n) -> V] : IsFold(it, n, NothingScanned, G)
    BY <1>1, <1>2, <1>4, FoldExists
  <2>2. \A s \in SUBSET (1..n) : it[s] = IF s = {} THEN NothingScanned ELSE ScanLine(it[s \ {Max(s)}], lines[Max(s)])
    <3> TAKE s \in SUBSET (1..n)
    <3>1. CASE s = {}
      BY <2>1, <3>1 DEF IsFold
    <3>2. CASE s # {}
      <4>1. it[s] = G[<<Max(s), it[s \ {Max(s)}]>>]
        BY <2>1, <3>2 DEF IsFold
      <4>2. it[s \ {Max(s)}] \in V
        BY <2>1
      <4> QED  BY <1>5, <1>6, <3>2, <4>1, <4>2
    <3> QED  BY <3>1, <3>2
  <2>3. Is(it)
    BY <2>1, <2>2
  <2> HIDE DEF Is
  <2> QED  BY <2>3
<1>8. Scanned(lines) = ch[1..n]
  BY <1>1 DEF Scanned, FoldLeft, MapThenFoldSet
<1>9. /\ ch[{}] = NothingScanned
      /\ \A s \in SUBSET (1..n) : s # {} => ch[s] = ScanLine(ch[s \ {Max(s)}], lines[Max(s)])
  <2> HIDE DEF ch
  <2> QED  BY <1>7
<1> HIDE DEF ch, Is
<1>10. Folds(ch, n, V, NothingScanned, G)
  BY <1>5, <1>6, <1>9 DEF Folds
<1>11. Iterated(ch[1..n], n, V, NothingScanned, G)
  BY <1>1, <1>2, <1>4, <1>10, FoldIterates
<1>12. PICK f \in [0..n -> V] : IsIteration(f, n, NothingScanned, G) /\ ch[1..n] = f[n]
  BY <1>11 DEF Iterated
<1>13. \A i \in 1..n : f[i] = ScanLine(f[i - 1], lines[i])
  <2> TAKE i \in 1..n
  <2>1. i - 1 \in 0..n
    BY <1>1
  <2>2. f[i] = G[<<i, f[i - 1]>>] /\ f[i - 1] \in V
    BY <1>12, <2>1 DEF IsIteration
  <2> QED  BY <1>5, <2>2
<1> QED  BY <1>8, <1>12, <1>13 DEF IsIteration, V

Fitting(budget) == {packed \in Packed : \A w \in PackedTexts(packed) : Len(w) <= budget}

NothingPacked == [pieces |-> <<>>, current |-> <<>>]

PackAll(body, budget, overlap) ==
    FoldLeft(LAMBDA packed, paragraph : Pack(packed, paragraph, budget, overlap), NothingPacked, body)

LEMMA NothingPackedFits ==
    ASSUME NEW budget \in Nat
    PROVE  NothingPacked \in Fitting(budget) /\ PackedTexts(NothingPacked) = { <<>> }
<1>1. NothingPacked \in Packed
  BY DEF NothingPacked, Packed, Texts
<1>2. PackedTexts(NothingPacked) = { <<>> }
  BY DEF NothingPacked, PackedTexts, ToSet
<1>3. Len(<<>>) <= budget
  OBVIOUS
<1> QED  BY <1>1, <1>2, <1>3 DEF Fitting

\* The pieces of a section, paragraph by paragraph
LEMMA PackChain ==
    ASSUME NEW body \in Seq(Texts), NEW budget \in Nat \ {0}, NEW overlap \in Nat, overlap < budget
    PROVE  \E f \in [0..Len(body) -> Fitting(budget)] :
              /\ f[0] = NothingPacked
              /\ \A i \in 1..Len(body) : f[i] = Pack(f[i - 1], body[i], budget, overlap)
              /\ PackAll(body, budget, overlap) = f[Len(body)]
<1> DEFINE n == Len(body)
           V == Fitting(budget)
           G == [p \in (1..n) \X V |-> Pack(p[2], body[p[1]], budget, overlap)]
           Is(it) == it = [s \in SUBSET (1..n) |->
                             IF s = {} THEN NothingPacked ELSE Pack(it[s \ {Max(s)}], body[Max(s)], budget, overlap)]
           ch == CHOOSE it : Is(it)
<1>1. n \in Nat /\ DOMAIN body = 1..n
  OBVIOUS
<1>2. NothingPacked \in V
  BY NothingPackedFits
<1>3. \A v \in V, i \in 1..n : Pack(v, body[i], budget, overlap) \in V
  <2> TAKE v \in V, i \in 1..n
  <2>1. body[i] \in Texts
    BY <1>1
  <2>2. v \in Packed /\ \A w \in PackedTexts(v) : Len(w) <= budget
    BY DEF Fitting
  <2>3. PackedOn(v, Pack(v, body[i], budget, overlap), body[i], budget, overlap)
    BY <2>1, <2>2, PackStep
  <2> QED  BY <2>3 DEF PackedOn, Fitting
<1>4. G \in [(1..n) \X V -> V]
  BY <1>3
<1>5. \A i \in 1..n, v \in V : G[<<i, v>>] = Pack(v, body[i], budget, overlap)
  OBVIOUS
<1>6. \A s \in SUBSET (1..n) : s # {} => Max(s) \in 1..n
  BY <1>1, LastPosition
<1> HIDE DEF V, G
<1>7. Is(ch)
  <2>1. PICK it \in [SUBSET (1..n) -> V] : IsFold(it, n, NothingPacked, G)
    BY <1>1, <1>2, <1>4, FoldExists
  <2>2. \A s \in SUBSET (1..n) : it[s] = IF s = {} THEN NothingPacked ELSE Pack(it[s \ {Max(s)}], body[Max(s)], budget, overlap)
    <3> TAKE s \in SUBSET (1..n)
    <3>1. CASE s = {}
      BY <2>1, <3>1 DEF IsFold
    <3>2. CASE s # {}
      <4>1. it[s] = G[<<Max(s), it[s \ {Max(s)}]>>]
        BY <2>1, <3>2 DEF IsFold
      <4>2. it[s \ {Max(s)}] \in V
        BY <2>1
      <4> QED  BY <1>5, <1>6, <3>2, <4>1, <4>2
    <3> QED  BY <3>1, <3>2
  <2>3. Is(it)
    BY <2>1, <2>2
  <2> HIDE DEF Is
  <2> QED  BY <2>3
<1>8. PackAll(body, budget, overlap) = ch[1..n]
  BY <1>1 DEF PackAll, FoldLeft, MapThenFoldSet
<1>9. /\ ch[{}] = NothingPacked
      /\ \A s \in SUBSET (1..n) : s # {} => ch[s] = Pack(ch[s \ {Max(s)}], body[Max(s)], budget, overlap)
  <2> HIDE DEF ch
  <2> QED  BY <1>7
<1> HIDE DEF ch, Is
<1>10. Folds(ch, n, V, NothingPacked, G)
  BY <1>5, <1>6, <1>9 DEF Folds
<1>11. Iterated(ch[1..n], n, V, NothingPacked, G)
  BY <1>1, <1>2, <1>4, <1>10, FoldIterates
<1>12. PICK f \in [0..n -> V] : IsIteration(f, n, NothingPacked, G) /\ ch[1..n] = f[n]
  BY <1>11 DEF Iterated
<1>13. \A i \in 1..n : f[i] = Pack(f[i - 1], body[i], budget, overlap)
  <2> TAKE i \in 1..n
  <2>1. i - 1 \in 0..n
    BY <1>1
  <2>2. f[i] = G[<<i, f[i - 1]>>] /\ f[i - 1] \in V
    BY <1>12, <2>1 DEF IsIteration
  <2> QED  BY <1>5, <2>2
<1> QED  BY <1>8, <1>12, <1>13 DEF IsIteration, V

Chunks(corpus_id, docs) ==
    [corpus : {corpus_id}, doc : docs, section : Nat, index : Nat, text : Texts]

ChunkOf(corpus_id, doc_id, section, index, piece) ==
    [corpus |-> corpus_id, doc |-> doc_id, section |-> section.label, index |-> index,
     text |-> section.title \o piece]

LEMMA AddPieceStep ==
    ASSUME NEW corpus_id, NEW docs, NEW doc_id \in docs, NEW section \in Sections,
           NEW chunks \in Seq(Chunks(corpus_id, docs)), NEW piece \in Texts
    PROVE  LET next == AddPiece(chunks, piece, corpus_id, doc_id, section)
           IN  /\ next \in Seq(Chunks(corpus_id, docs))
               /\ ToSet(next) =
                    ToSet(chunks) \cup IF HasWord(piece)
                                       THEN {ChunkOf(corpus_id, doc_id, section, Len(chunks), piece)}
                                       ELSE {}
<1> DEFINE new == ChunkOf(corpus_id, doc_id, section, Len(chunks), piece)
           next == AddPiece(chunks, piece, corpus_id, doc_id, section)
           C == Chunks(corpus_id, docs)
<1>1. new \in C
  <2>1. section.label \in Nat /\ section.title \in Texts /\ Len(chunks) \in Nat
    BY DEF Sections
  <2>2. section.title \o piece \in Texts
    BY <2>1 DEF Texts
  <2> QED  BY <2>1, <2>2 DEF ChunkOf, Chunks
<1>2. CASE HasWord(piece)
  <2>1. next = Append(chunks, new)
    BY <1>2 DEF AddPiece, ChunkOf
  <2> HIDE DEF new, C
  <2>2. Append(chunks, new) \in Seq(C) /\ ToSet(Append(chunks, new)) = ToSet(chunks) \cup {new}
    <3>1. chunks \in Seq(C)
      BY DEF C
    <3> QED  BY <1>1, <3>1, AppendFacts
  <2> QED  BY <1>2, <2>1, <2>2 DEF new, C
<1>3. CASE ~HasWord(piece)
  BY <1>3 DEF AddPiece
<1> QED  BY <1>2, <1>3

AddPieces(chunks, pieces, corpus_id, doc_id, section) ==
    FoldLeft(LAMBDA sofar, piece : AddPiece(sofar, piece, corpus_id, doc_id, section), chunks, pieces)

\* The chunks of a section, piece by piece
LEMMA PieceChain ==
    ASSUME NEW corpus_id, NEW docs, NEW doc_id \in docs, NEW section \in Sections,
           NEW chunks \in Seq(Chunks(corpus_id, docs)), NEW pieces \in Seq(Texts)
    PROVE  \E f \in [0..Len(pieces) -> Seq(Chunks(corpus_id, docs))] :
              /\ f[0] = chunks
              /\ \A i \in 1..Len(pieces) : f[i] = AddPiece(f[i - 1], pieces[i], corpus_id, doc_id, section)
              /\ AddPieces(chunks, pieces, corpus_id, doc_id, section) = f[Len(pieces)]
<1> DEFINE n == Len(pieces)
           V == Seq(Chunks(corpus_id, docs))
           G == [p \in (1..n) \X V |-> AddPiece(p[2], pieces[p[1]], corpus_id, doc_id, section)]
           Is(it) == it = [s \in SUBSET (1..n) |->
                             IF s = {} THEN chunks ELSE AddPiece(it[s \ {Max(s)}], pieces[Max(s)], corpus_id, doc_id, section)]
           ch == CHOOSE it : Is(it)
<1>1. n \in Nat /\ DOMAIN pieces = 1..n
  OBVIOUS
<1>2. chunks \in V
  OBVIOUS
<1>3. \A v \in V, i \in 1..n : AddPiece(v, pieces[i], corpus_id, doc_id, section) \in V
  <2> TAKE v \in V, i \in 1..n
  <2>1. pieces[i] \in Texts
    BY <1>1
  <2> QED  BY <2>1, AddPieceStep
<1>4. G \in [(1..n) \X V -> V]
  BY <1>3
<1>5. \A i \in 1..n, v \in V : G[<<i, v>>] = AddPiece(v, pieces[i], corpus_id, doc_id, section)
  OBVIOUS
<1>6. \A s \in SUBSET (1..n) : s # {} => Max(s) \in 1..n
  BY <1>1, LastPosition
<1> HIDE DEF V, G
<1>7. Is(ch)
  <2>1. PICK it \in [SUBSET (1..n) -> V] : IsFold(it, n, chunks, G)
    BY <1>1, <1>2, <1>4, FoldExists
  <2>2. \A s \in SUBSET (1..n) : it[s] = IF s = {} THEN chunks ELSE AddPiece(it[s \ {Max(s)}], pieces[Max(s)], corpus_id, doc_id, section)
    <3> TAKE s \in SUBSET (1..n)
    <3>1. CASE s = {}
      BY <2>1, <3>1 DEF IsFold
    <3>2. CASE s # {}
      <4>1. it[s] = G[<<Max(s), it[s \ {Max(s)}]>>]
        BY <2>1, <3>2 DEF IsFold
      <4>2. it[s \ {Max(s)}] \in V
        BY <2>1
      <4> QED  BY <1>5, <1>6, <3>2, <4>1, <4>2
    <3> QED  BY <3>1, <3>2
  <2>3. Is(it)
    BY <2>1, <2>2
  <2> HIDE DEF Is
  <2> QED  BY <2>3
<1>8. AddPieces(chunks, pieces, corpus_id, doc_id, section) = ch[1..n]
  BY <1>1 DEF AddPieces, FoldLeft, MapThenFoldSet
<1>9. /\ ch[{}] = chunks
      /\ \A s \in SUBSET (1..n) : s # {} => ch[s] = AddPiece(ch[s \ {Max(s)}], pieces[Max(s)], corpus_id, doc_id, section)
  <2> HIDE DEF ch
  <2> QED  BY <1>7
<1> HIDE DEF ch, Is
<1>10. Folds(ch, n, V, chunks, G)
  BY <1>5, <1>6, <1>9 DEF Folds
<1>11. Iterated(ch[1..n], n, V, chunks, G)
  BY <1>1, <1>2, <1>4, <1>10, FoldIterates
<1>12. PICK f \in [0..n -> V] : IsIteration(f, n, chunks, G) /\ ch[1..n] = f[n]
  BY <1>11 DEF Iterated
<1>13. \A i \in 1..n : f[i] = AddPiece(f[i - 1], pieces[i], corpus_id, doc_id, section)
  <2> TAKE i \in 1..n
  <2>1. i - 1 \in 0..n
    BY <1>1
  <2>2. f[i] = G[<<i, f[i - 1]>>] /\ f[i - 1] \in V
    BY <1>12, <2>1 DEF IsIteration
  <2> QED  BY <1>5, <2>2
<1> QED  BY <1>8, <1>12, <1>13 DEF IsIteration, V

(***************************************************************************)
(* What comes out of each fold.                                            *)
(***************************************************************************)

\* What holds of 0 and of the next number up to n holds of n.
LEMMA UpToN ==
    ASSUME NEW n \in Nat, NEW S, 0 \in S, \A i \in 1..n : i - 1 \in S => i \in S
    PROVE  \A i \in 0..n : i \in S
<1> DEFINE T == {i \in Nat : i <= n => i \in S}
<1>1. 0 \in T
  OBVIOUS
<1>2. ASSUME NEW i \in Nat, i \in T PROVE i + 1 \in T
  <2>1. ASSUME i + 1 <= n PROVE i + 1 \in S
    <3>1. i + 1 \in 1..n /\ (i + 1) - 1 = i /\ i <= n
      BY <2>1
    <3>2. i \in S
      BY <1>2, <3>1
    <3> QED  BY <3>1, <3>2
  <2> QED  BY <2>1
<1>3. Nat \subseteq T
  <2> HIDE DEF T
  <2> QED  BY <1>1, <1>2, SetInduction
<1> QED  BY <1>3

\* Adding a line: what stood in the paragraphs stands there still, and so does the
\* line, whose tokens are the only new ones.
LEMMA AddLineKeeps ==
    ASSUME NEW v \in Seq(Texts) \ { <<>> }, NEW line \in Lines
    PROVE  /\ UNION {ToSet(p) : p \in ToSet(AddLine(v, line))}
                \subseteq (UNION {ToSet(p) : p \in ToSet(v)})
                          \cup (IF line.kind = "blank" THEN {} ELSE ToSet(line.tokens))
           /\ \A phrase \in Texts :
                (\E p \in ToSet(v) : Within(phrase, p)) => \E p \in ToSet(AddLine(v, line)) : Within(phrase, p)
           /\ line.kind # "blank" => \E p \in ToSet(AddLine(v, line)) : Within(line.tokens, p)
<1> DEFINE T == Words \cup Marks
           m == Len(v)
<1>1. /\ v \in Seq(Texts) /\ m \in Nat \ {0} /\ line.tokens \in Texts /\ <<>> \in Texts
      /\ v[m] \in Texts /\ ToSet(v) = {v[k] : k \in 1..m}
  <2>1. v \in Seq(Texts) /\ v # <<>> /\ line.tokens \in Texts
    BY DEF Lines
  <2>2. Len(v) \in Nat \ {0}
    BY <2>1
  <2> QED  BY <2>1, <2>2 DEF Texts, ToSet
<1>2. CASE line.kind = "blank"
  <2>1. AddLine(v, line) = Append(v, <<>>)
    BY <1>2 DEF AddLine
  <2>2. ToSet(AddLine(v, line)) = ToSet(v) \cup { <<>> }
    BY <1>1, <2>1, AppendFacts
  <2>3. ToSet(<<>>) = {}
    BY DEF ToSet
  <2>4. UNION {ToSet(p) : p \in ToSet(AddLine(v, line))} \subseteq UNION {ToSet(p) : p \in ToSet(v)}
    BY <2>2, <2>3
  <2> QED  BY <1>2, <2>2, <2>4
<1>3. CASE line.kind # "blank"
  <2> DEFINE longer == v[m] \o line.tokens
             next == AddLine(v, line)
  <2>1. next = [v EXCEPT ![m] = longer]
    BY <1>3 DEF AddLine
  <2>2. /\ longer \in Texts /\ ToSet(longer) = ToSet(v[m]) \cup ToSet(line.tokens)
        /\ \A phrase \in Texts : Within(phrase, v[m]) => Within(phrase, longer)
        /\ Within(line.tokens, longer)
    <3>1. v[m] \in Seq(T) /\ line.tokens \in Seq(T) /\ Texts = Seq(T)
      BY <1>1 DEF Texts
    <3> HIDE DEF T, m
    <3>2. longer \in Seq(T) /\ ToSet(longer) = ToSet(v[m]) \cup ToSet(line.tokens)
      BY <3>1, JoinFacts
    <3>3. \A phrase \in Seq(T) : Within(phrase, v[m]) => Within(phrase, longer)
      BY <3>1, WithinJoin
    <3>4. Within(line.tokens, longer)
      BY <3>1, WithinItself, WithinJoin
    <3> QED  BY <3>1, <3>2, <3>3, <3>4
  <2> HIDE DEF longer, m, next
  <2>3. /\ next \in Seq(Texts) /\ Len(next) = m /\ next[m] = longer
        /\ \A k \in 1..m : k # m => next[k] = v[k]
    BY <1>1, <2>1, <2>2 DEF m
  <2>4. ToSet(next) = {next[k] : k \in 1..m}
    BY <2>3 DEF ToSet
  <2>5. longer \in ToSet(next) /\ v[m] \in ToSet(v)
    BY <1>1, <2>3, <2>4
  <2>6. \A p \in ToSet(next) : p = longer \/ p \in ToSet(v)
    BY <1>1, <2>3, <2>4
  <2>7. \A p \in ToSet(v) : p = v[m] \/ p \in ToSet(next)
    BY <1>1, <2>3, <2>4
  <2>8. \A p \in ToSet(next) : ToSet(p) \subseteq (UNION {ToSet(q) : q \in ToSet(v)}) \cup ToSet(line.tokens)
    <3> TAKE p \in ToSet(next)
    <3>1. CASE p = longer
      BY <2>2, <2>5, <3>1
    <3>2. CASE p \in ToSet(v)
      BY <3>2
    <3> QED  BY <2>6, <3>1, <3>2
  <2>9. \A phrase \in Texts :
           (\E p \in ToSet(v) : Within(phrase, p)) => \E p \in ToSet(next) : Within(phrase, p)
    BY <2>2, <2>5, <2>7
  <2>10. \E p \in ToSet(next) : Within(line.tokens, p)
    BY <2>2, <2>5
  <2> QED  BY <1>3, <2>8, <2>9, <2>10 DEF next
<1> QED  BY <1>2, <1>3

\* The tokens of paragraphs are those of the lines that are not blank, and every
\* such line stands in one.
LEMMA ParagraphsKeep ==
    ASSUME NEW body \in Seq(Lines)
    PROVE  /\ \A p \in ToSet(Paragraphs(body)) :
                ToSet(p) \subseteq UNION {ToSet(line.tokens) : line \in ToSet(body)}
           /\ \A line \in ToSet(body) :
                line.kind # "blank" => \E p \in ToSet(Paragraphs(body)) : Within(line.tokens, p)
<1> DEFINE n == Len(body)
           All == UNION {ToSet(line.tokens) : line \in ToSet(body)}
<1>1. PICK f \in [0..n -> Seq(Texts) \ { <<>> }] :
         /\ f[0] = << <<>> >>
         /\ \A i \in 1..n : f[i] = AddLine(f[i - 1], body[i])
         /\ Paragraphs(body) = f[n]
  BY ParagraphsChain
<1>2. n \in Nat /\ ToSet(body) = {body[k] : k \in 1..n} /\ \A k \in 1..n : body[k] \in Lines
  BY DEF ToSet
<1> DEFINE From(i) == \A p \in ToSet(f[i]) : ToSet(p) \subseteq All
           Has(i) == \A k \in 1..i : body[k].kind # "blank" => \E p \in ToSet(f[i]) : Within(body[k].tokens, p)
           S == {i \in 0..n : From(i) /\ Has(i)}
<1>3. 0 \in S
  <2>1. ToSet(f[0]) = { <<>> } /\ ToSet(<<>>) = {}
    BY <1>1 DEF ToSet
  <2> QED  BY <1>2, <2>1
<1>4. ASSUME NEW i \in 1..n, i - 1 \in S PROVE i \in S
  <2> HIDE DEF All
  <2>1. /\ f[i - 1] \in Seq(Texts) \ { <<>> } /\ body[i] \in Lines
        /\ f[i] = AddLine(f[i - 1], body[i]) /\ body[i] \in ToSet(body)
        /\ i \in 0..n /\ i - 1 \in 0..n
    <3>1. i - 1 \in 0..n /\ i \in 0..n
      BY <1>2
    <3> HIDE DEF n
    <3> QED  BY <1>1, <1>2, <3>1
  <2>2. From(i - 1) /\ Has(i - 1)
    BY <1>4
  <2>3. /\ UNION {ToSet(p) : p \in ToSet(f[i])}
                \subseteq (UNION {ToSet(p) : p \in ToSet(f[i - 1])})
                          \cup (IF body[i].kind = "blank" THEN {} ELSE ToSet(body[i].tokens))
        /\ \A phrase \in Texts : (\E p \in ToSet(f[i - 1]) : Within(phrase, p))
                                    => \E p \in ToSet(f[i]) : Within(phrase, p)
        /\ body[i].kind # "blank" => \E p \in ToSet(f[i]) : Within(body[i].tokens, p)
    BY <2>1, AddLineKeeps
  <2>4. ToSet(body[i].tokens) \subseteq All
    BY <2>1 DEF All
  <2>5. From(i)
    BY <2>2, <2>3, <2>4
  <2>6. Has(i)
    <3> SUFFICES ASSUME NEW k \in 1..i, body[k].kind # "blank"
                 PROVE  \E p \in ToSet(f[i]) : Within(body[k].tokens, p)
      OBVIOUS
    <3>1. CASE k = i
      BY <2>3, <3>1
    <3>2. CASE k # i
      <4>1. k \in 1..(i - 1) /\ k \in 1..n
        BY <1>2, <3>2
      <4>2. body[k].tokens \in Texts
        BY <1>2, <4>1 DEF Lines
      <4> HIDE DEF n
      <4> QED  BY <2>2, <2>3, <4>1, <4>2
    <3> QED  BY <3>1, <3>2
  <2> HIDE DEF From, Has
  <2> QED  BY <2>1, <2>5, <2>6
<1>5. n \in S
  <2> HIDE DEF S
  <2>1. \A i \in 0..n : i \in S
    BY <1>2, <1>3, <1>4, UpToN
  <2> QED  BY <1>2, <2>1
<1>6. From(n) /\ Has(n)
  <2> HIDE DEF From, Has
  <2> QED  BY <1>5
<1> HIDE DEF n
<1> QED  BY <1>1, <1>2, <1>6

\* Pieces fit, consist of the body, and hold every phrase of it.
LEMMA SectionPiecesKeep ==
    ASSUME NEW body \in Seq(Texts), NEW budget \in Nat \ {0}, NEW overlap \in Nat, overlap < budget
    PROVE  LET pieces == SectionPieces(body, budget, overlap)
           IN  /\ pieces \in Seq(Texts)
               /\ \A w \in ToSet(pieces) :
                    Len(w) <= budget /\ ToSet(w) \subseteq UNION {ToSet(p) : p \in ToSet(body)}
               /\ \A p \in ToSet(body) : \A i \in DOMAIN p :
                    \E w \in ToSet(pieces) : Within(Phrase(p, i, overlap), w)
<1> DEFINE n == Len(body)
           All == UNION {ToSet(p) : p \in ToSet(body)}
           pieces == SectionPieces(body, budget, overlap)
<1>1. PICK f \in [0..n -> Fitting(budget)] :
         /\ f[0] = NothingPacked
         /\ \A i \in 1..n : f[i] = Pack(f[i - 1], body[i], budget, overlap)
         /\ PackAll(body, budget, overlap) = f[n]
  BY PackChain
<1>2. n \in Nat /\ ToSet(body) = {body[k] : k \in 1..n} /\ \A k \in 1..n : body[k] \in Texts
  BY DEF ToSet
<1> DEFINE From(i) == \A w \in PackedTexts(f[i]) : ToSet(w) \subseteq All
           Has(i) == \A k \in 1..i : \A j \in 1..Len(body[k]) :
                        \E w \in PackedTexts(f[i]) : Within(Phrase(body[k], j, overlap), w)
           S == {i \in 0..n : From(i) /\ Has(i)}
<1>3. 0 \in S
  <2>1. PackedTexts(f[0]) = { <<>> } /\ ToSet(<<>>) = {}
    BY <1>1, NothingPackedFits DEF ToSet
  <2> QED  BY <1>2, <2>1
<1>4. ASSUME NEW i \in 1..n, i - 1 \in S PROVE i \in S
  <2> HIDE DEF All
  <2>1. /\ f[i - 1] \in Packed /\ (\A w \in PackedTexts(f[i - 1]) : Len(w) <= budget)
        /\ body[i] \in Texts /\ body[i] \in ToSet(body)
        /\ f[i] = Pack(f[i - 1], body[i], budget, overlap)
        /\ i \in 0..n /\ i - 1 \in 0..n
    <3>1. i - 1 \in 0..n /\ i \in 0..n
      BY <1>2
    <3> HIDE DEF n
    <3> QED  BY <1>1, <1>2, <3>1 DEF Fitting
  <2>2. From(i - 1) /\ Has(i - 1)
    BY <1>4
  <2>3. PackedOn(f[i - 1], f[i], body[i], budget, overlap)
    BY <2>1, PackStep
  <2>4. ToSet(body[i]) \subseteq All
    BY <2>1 DEF All
  <2>5. From(i)
    BY <2>2, <2>3, <2>4 DEF PackedOn
  <2>6. Has(i)
    <3> SUFFICES ASSUME NEW k \in 1..i, NEW j \in 1..Len(body[k])
                 PROVE  \E w \in PackedTexts(f[i]) : Within(Phrase(body[k], j, overlap), w)
      OBVIOUS
    <3>1. CASE k = i
      BY <2>3, <3>1 DEF PackedOn
    <3>2. CASE k # i
      <4>1. k \in 1..(i - 1) /\ k \in 1..n
        BY <1>2, <3>2
      <4>2. Phrase(body[k], j, overlap) \in Phrases
        BY <1>2, <4>1, PhraseFacts
      <4>3. \E w \in PackedTexts(f[i - 1]) : Within(Phrase(body[k], j, overlap), w)
        BY <2>2, <4>1
      <4> QED  BY <2>3, <4>2, <4>3 DEF PackedOn
    <3> QED  BY <3>1, <3>2
  <2> HIDE DEF From, Has
  <2> QED  BY <2>1, <2>5, <2>6
<1>5. n \in S
  <2> HIDE DEF S
  <2>1. \A i \in 0..n : i \in S
    BY <1>2, <1>3, <1>4, UpToN
  <2> QED  BY <1>2, <2>1
<1>6. From(n) /\ Has(n)
  <2> HIDE DEF From, Has
  <2> QED  BY <1>5
<1> DEFINE last == PackAll(body, budget, overlap)
<1>7. /\ last = f[n] /\ last.pieces \in Seq(Texts) /\ last.current \in Texts
      /\ \A w \in PackedTexts(last) : Len(w) <= budget
  <2>1. n \in 0..n
    BY <1>2
  <2>2. f[n] \in Fitting(budget)
    <3> HIDE DEF n
    <3> QED  BY <1>1, <2>1
  <2> QED  BY <1>1, <2>2 DEF Fitting, Packed
<1>8. pieces = IF last.current = <<>> THEN last.pieces ELSE Append(last.pieces, last.current)
  BY DEF SectionPieces, PackAll, NothingPacked
<1> HIDE DEF last, pieces, n, All
<1>9. /\ pieces \in Seq(Texts) /\ ToSet(pieces) \subseteq PackedTexts(last)
      /\ \A w \in PackedTexts(last) : w \in ToSet(pieces) \/ w = <<>>
  <2>1. CASE last.current = <<>>
    BY <1>7, <1>8, <2>1 DEF PackedTexts
  <2>2. CASE last.current # <<>>
    <3>1. pieces = Append(last.pieces, last.current)
      BY <1>8, <2>2
    <3>2. pieces \in Seq(Texts) /\ ToSet(pieces) = PackedTexts(last)
      BY <1>7, <3>1, AppendFacts DEF PackedTexts
    <3> QED  BY <3>2
  <2> QED  BY <2>1, <2>2
<1>10. \A w \in ToSet(pieces) : Len(w) <= budget /\ ToSet(w) \subseteq All
  BY <1>6, <1>7, <1>9
<1>11. ASSUME NEW p \in ToSet(body), NEW j \in DOMAIN p
       PROVE  \E w \in ToSet(pieces) : Within(Phrase(p, j, overlap), w)
  <2>1. PICK k \in 1..n : p = body[k]
    BY <1>2
  <2>2. j \in 1..Len(p) /\ p \in Texts
    BY <1>2, <2>1 DEF Texts
  <2>3. PICK w \in PackedTexts(last) : Within(Phrase(p, j, overlap), w)
    BY <1>6, <1>7, <2>1, <2>2
  <2>4. Phrase(p, j, overlap) \in Phrases
    BY <2>2, PhraseFacts
  <2>5. w # <<>>
    BY <2>3, <2>4, NothingInNothing
  <2> QED  BY <1>9, <2>3, <2>5
<1> QED  BY <1>9, <1>10, <1>11 DEF pieces, All

\* The chunk is this piece of the section.
MadeOf(chunk, section, piece) ==
    /\ HasWord(piece)
    /\ chunk.section = section.label /\ chunk.text = section.title \o piece

\* The pieces of a section add their chunks, and no others.
LEMMA AddPiecesMake ==
    ASSUME NEW corpus_id, NEW docs, NEW doc_id \in docs, NEW section \in Sections,
           NEW chunks \in Seq(Chunks(corpus_id, docs)), NEW pieces \in Seq(Texts)
    PROVE  LET next == AddPieces(chunks, pieces, corpus_id, doc_id, section)
           IN  /\ next \in Seq(Chunks(corpus_id, docs))
               /\ ToSet(chunks) \subseteq ToSet(next)
               /\ \A chunk \in ToSet(next) \ ToSet(chunks) : \E w \in ToSet(pieces) : MadeOf(chunk, section, w)
               /\ \A w \in ToSet(pieces) : HasWord(w) => \E chunk \in ToSet(next) : MadeOf(chunk, section, w)
<1> DEFINE n == Len(pieces)
           C == Chunks(corpus_id, docs)
<1>1. PICK f \in [0..n -> Seq(C)] :
         /\ f[0] = chunks
         /\ \A i \in 1..n : f[i] = AddPiece(f[i - 1], pieces[i], corpus_id, doc_id, section)
         /\ AddPieces(chunks, pieces, corpus_id, doc_id, section) = f[n]
  BY PieceChain
<1>2. n \in Nat /\ ToSet(pieces) = {pieces[k] : k \in 1..n} /\ \A k \in 1..n : pieces[k] \in Texts
  BY DEF ToSet
<1> DEFINE Old(i) == ToSet(chunks) \subseteq ToSet(f[i])
           New(i) == \A chunk \in ToSet(f[i]) \ ToSet(chunks) : \E w \in ToSet(pieces) : MadeOf(chunk, section, w)
           Has(i) == \A k \in 1..i : HasWord(pieces[k]) => \E chunk \in ToSet(f[i]) : MadeOf(chunk, section, pieces[k])
           S == {i \in 0..n : Old(i) /\ New(i) /\ Has(i)}
<1>3. 0 \in S
  <2>1. Old(0) /\ New(0) /\ Has(0)
    BY <1>1
  <2> HIDE DEF Old, New, Has
  <2> QED  BY <1>2, <2>1
<1>4. ASSUME NEW i \in 1..n, i - 1 \in S PROVE i \in S
  <2> DEFINE new == ChunkOf(corpus_id, doc_id, section, Len(f[i - 1]), pieces[i])
  <2>1. /\ f[i - 1] \in Seq(C) /\ pieces[i] \in Texts /\ pieces[i] \in ToSet(pieces)
        /\ f[i] = AddPiece(f[i - 1], pieces[i], corpus_id, doc_id, section)
        /\ i \in 0..n /\ i - 1 \in 0..n
    <3>1. i - 1 \in 0..n /\ i \in 0..n
      BY <1>2
    <3> HIDE DEF n
    <3> QED  BY <1>1, <1>2, <3>1
  <2>2. Old(i - 1) /\ New(i - 1) /\ Has(i - 1)
    BY <1>4
  <2>3. ToSet(f[i]) = ToSet(f[i - 1]) \cup IF HasWord(pieces[i]) THEN {new} ELSE {}
    <3>1. f[i - 1] \in Seq(Chunks(corpus_id, docs)) /\ pieces[i] \in Texts
      BY <2>1
    <3> DEFINE old == f[i - 1]
               piece == pieces[i]
    <3> HIDE DEF old, piece, new
    <3>2. ToSet(AddPiece(old, piece, corpus_id, doc_id, section)) =
             ToSet(old) \cup IF HasWord(piece)
                             THEN {ChunkOf(corpus_id, doc_id, section, Len(old), piece)} ELSE {}
      <4>1. \A sofar \in Seq(Chunks(corpus_id, docs)), text \in Texts :
               ToSet(AddPiece(sofar, text, corpus_id, doc_id, section)) =
                 ToSet(sofar) \cup IF HasWord(text)
                                   THEN {ChunkOf(corpus_id, doc_id, section, Len(sofar), text)} ELSE {}
        BY AddPieceStep
      <4> QED  BY <3>1, <4>1 DEF old, piece
    <3> QED  BY <2>1, <3>2 DEF old, piece, new
  <2>4. HasWord(pieces[i]) => MadeOf(new, section, pieces[i])
    BY DEF MadeOf, ChunkOf
  <2> HIDE DEF new
  <2>5. Old(i)
    BY <2>2, <2>3
  <2>6. New(i)
    BY <2>1, <2>2, <2>3, <2>4
  <2>7. Has(i)
    <3> SUFFICES ASSUME NEW k \in 1..i, HasWord(pieces[k])
                 PROVE  \E chunk \in ToSet(f[i]) : MadeOf(chunk, section, pieces[k])
      OBVIOUS
    <3>1. CASE k = i
      <4>1. HasWord(pieces[i])
        BY <3>1
      <4> QED  BY <2>3, <2>4, <3>1, <4>1
    <3>2. CASE k # i
      <4>1. k \in 1..(i - 1)
        BY <1>2, <3>2
      <4> QED  BY <2>2, <2>3, <4>1
    <3> QED  BY <3>1, <3>2
  <2> HIDE DEF Old, New, Has
  <2> QED  BY <2>1, <2>5, <2>6, <2>7
<1>5. n \in S
  <2> HIDE DEF S
  <2>1. \A i \in 0..n : i \in S
    BY <1>2, <1>3, <1>4, UpToN
  <2> QED  BY <1>2, <2>1
<1>6. Old(n) /\ New(n) /\ Has(n)
  <2> HIDE DEF Old, New, Has
  <2> QED  BY <1>5
<1>7. f[n] \in Seq(C)
  <2>1. n \in 0..n
    BY <1>2
  <2> HIDE DEF n
  <2> QED  BY <1>1, <2>1
<1> HIDE DEF n, C
<1> QED  BY <1>1, <1>2, <1>6, <1>7 DEF C

PiecesOf(section) == SectionPieces(section.body, Budget(section), Overlap(section))

LEMMA BudgetFacts ==
    ASSUME NEW section \in Sections
    PROVE  /\ Len(section.title) \in Nat
           /\ Budget(section) \in Nat \ {0} /\ Overlap(section) \in Nat /\ Overlap(section) < Budget(section)
           /\ Budget(section) = IF CHUNK_MAX_TOKENS - Len(section.title) <= 1 THEN 1
                                ELSE CHUNK_MAX_TOKENS - Len(section.title)
<1>1. Len(section.title) \in Nat /\ CHUNK_MAX_TOKENS \in Nat \ {0} /\ CHUNK_OVERLAP_TOKENS \in Nat
  BY ChunkingAssumption DEF Sections, Texts
<1>2. Budget(section) = IF CHUNK_MAX_TOKENS - Len(section.title) <= 1 THEN 1
                        ELSE CHUNK_MAX_TOKENS - Len(section.title)
  <2>1. CHUNK_MAX_TOKENS - Len(section.title) \in Int /\ 1 \in Int
    BY <1>1
  <2> QED  BY <2>1, OfTwo DEF Budget
<1>3. Budget(section) \in Nat \ {0}
  BY <1>1, <1>2
<1>4. Overlap(section) = IF CHUNK_OVERLAP_TOKENS <= Budget(section) - 1 THEN CHUNK_OVERLAP_TOKENS
                         ELSE Budget(section) - 1
  <2>1. CHUNK_OVERLAP_TOKENS \in Int /\ Budget(section) - 1 \in Int
    BY <1>1, <1>3
  <2> QED  BY <2>1, OfTwo DEF Overlap
<1>5. Overlap(section) \in Nat /\ Overlap(section) < Budget(section)
  BY <1>1, <1>3, <1>4
<1> QED  BY <1>1, <1>2, <1>3, <1>5

LEMMA AddSectionMakes ==
    ASSUME NEW corpus_id, NEW docs, NEW doc_id \in docs, NEW section \in Sections,
           NEW chunks \in Seq(Chunks(corpus_id, docs))
    PROVE  LET next == AddSection(chunks, section, corpus_id, doc_id)
           IN  /\ next \in Seq(Chunks(corpus_id, docs))
               /\ ToSet(chunks) \subseteq ToSet(next)
               /\ \A chunk \in ToSet(next) \ ToSet(chunks) :
                    \E w \in ToSet(PiecesOf(section)) : MadeOf(chunk, section, w)
               /\ \A w \in ToSet(PiecesOf(section)) :
                    HasWord(w) => \E chunk \in ToSet(next) : MadeOf(chunk, section, w)
<1>1. section.body \in Seq(Texts)
  BY DEF Sections
<1>2. PiecesOf(section) \in Seq(Texts)
  BY <1>1, BudgetFacts, SectionPiecesKeep DEF PiecesOf
<1>3. AddSection(chunks, section, corpus_id, doc_id) =
        AddPieces(chunks, PiecesOf(section), corpus_id, doc_id, section)
  BY DEF AddSection, AddPieces, PiecesOf
<1> QED  BY <1>2, <1>3, AddPiecesMake

AddSections(sections, corpus_id, doc_id) ==
    FoldLeft(LAMBDA chunks, section : AddSection(chunks, section, corpus_id, doc_id), <<>>, sections)

\* The chunks of a document, section by section
LEMMA SectionChain ==
    ASSUME NEW corpus_id, NEW docs, NEW doc_id \in docs, NEW sections \in Seq(Sections)
    PROVE  \E f \in [0..Len(sections) -> Seq(Chunks(corpus_id, docs))] :
              /\ f[0] = <<>>
              /\ \A i \in 1..Len(sections) : f[i] = AddSection(f[i - 1], sections[i], corpus_id, doc_id)
              /\ AddSections(sections, corpus_id, doc_id) = f[Len(sections)]
<1> DEFINE n == Len(sections)
           V == Seq(Chunks(corpus_id, docs))
           G == [p \in (1..n) \X V |-> AddSection(p[2], sections[p[1]], corpus_id, doc_id)]
           Is(it) == it = [s \in SUBSET (1..n) |->
                             IF s = {} THEN <<>> ELSE AddSection(it[s \ {Max(s)}], sections[Max(s)], corpus_id, doc_id)]
           ch == CHOOSE it : Is(it)
<1>1. n \in Nat /\ DOMAIN sections = 1..n
  OBVIOUS
<1>2. <<>> \in V
  OBVIOUS
<1>3. \A v \in V, i \in 1..n : AddSection(v, sections[i], corpus_id, doc_id) \in V
  <2> TAKE v \in V, i \in 1..n
  <2>1. sections[i] \in Sections
    BY <1>1
  <2> QED  BY <2>1, AddSectionMakes
<1>4. G \in [(1..n) \X V -> V]
  BY <1>3
<1>5. \A i \in 1..n, v \in V : G[<<i, v>>] = AddSection(v, sections[i], corpus_id, doc_id)
  OBVIOUS
<1>6. \A s \in SUBSET (1..n) : s # {} => Max(s) \in 1..n
  BY <1>1, LastPosition
<1> HIDE DEF V, G
<1>7. Is(ch)
  <2>1. PICK it \in [SUBSET (1..n) -> V] : IsFold(it, n, <<>>, G)
    BY <1>1, <1>2, <1>4, FoldExists
  <2>2. \A s \in SUBSET (1..n) : it[s] = IF s = {} THEN <<>> ELSE AddSection(it[s \ {Max(s)}], sections[Max(s)], corpus_id, doc_id)
    <3> TAKE s \in SUBSET (1..n)
    <3>1. CASE s = {}
      BY <2>1, <3>1 DEF IsFold
    <3>2. CASE s # {}
      <4>1. it[s] = G[<<Max(s), it[s \ {Max(s)}]>>]
        BY <2>1, <3>2 DEF IsFold
      <4>2. it[s \ {Max(s)}] \in V
        BY <2>1
      <4> QED  BY <1>5, <1>6, <3>2, <4>1, <4>2
    <3> QED  BY <3>1, <3>2
  <2>3. Is(it)
    BY <2>1, <2>2
  <2> HIDE DEF Is
  <2> QED  BY <2>3
<1>8. AddSections(sections, corpus_id, doc_id) = ch[1..n]
  BY <1>1 DEF AddSections, FoldLeft, MapThenFoldSet
<1>9. /\ ch[{}] = <<>>
      /\ \A s \in SUBSET (1..n) : s # {} => ch[s] = AddSection(ch[s \ {Max(s)}], sections[Max(s)], corpus_id, doc_id)
  <2> HIDE DEF ch
  <2> QED  BY <1>7
<1> HIDE DEF ch, Is
<1>10. Folds(ch, n, V, <<>>, G)
  BY <1>5, <1>6, <1>9 DEF Folds
<1>11. Iterated(ch[1..n], n, V, <<>>, G)
  BY <1>1, <1>2, <1>4, <1>10, FoldIterates
<1>12. PICK f \in [0..n -> V] : IsIteration(f, n, <<>>, G) /\ ch[1..n] = f[n]
  BY <1>11 DEF Iterated
<1>13. \A i \in 1..n : f[i] = AddSection(f[i - 1], sections[i], corpus_id, doc_id)
  <2> TAKE i \in 1..n
  <2>1. i - 1 \in 0..n
    BY <1>1
  <2>2. f[i] = G[<<i, f[i - 1]>>] /\ f[i - 1] \in V
    BY <1>12, <2>1 DEF IsIteration
  <2> QED  BY <1>5, <2>2
<1> QED  BY <1>8, <1>12, <1>13 DEF IsIteration, V

\* The sections of a document give their chunks, and there are no others.
LEMMA AddSectionsMake ==
    ASSUME NEW corpus_id, NEW docs, NEW doc_id \in docs, NEW sections \in Seq(Sections)
    PROVE  LET chunks == AddSections(sections, corpus_id, doc_id)
           IN  /\ chunks \in Seq(Chunks(corpus_id, docs))
               /\ \A chunk \in ToSet(chunks) :
                    \E s \in ToSet(sections) : \E w \in ToSet(PiecesOf(s)) : MadeOf(chunk, s, w)
               /\ \A s \in ToSet(sections) : \A w \in ToSet(PiecesOf(s)) :
                    HasWord(w) => \E chunk \in ToSet(chunks) : MadeOf(chunk, s, w)
<1> DEFINE n == Len(sections)
           C == Chunks(corpus_id, docs)
<1>1. PICK f \in [0..n -> Seq(C)] :
         /\ f[0] = <<>>
         /\ \A i \in 1..n : f[i] = AddSection(f[i - 1], sections[i], corpus_id, doc_id)
         /\ AddSections(sections, corpus_id, doc_id) = f[n]
  <2> HIDE DEF C, n
  <2>1. \E f \in [0..Len(sections) -> Seq(Chunks(corpus_id, docs))] :
           /\ f[0] = <<>>
           /\ \A i \in 1..Len(sections) : f[i] = AddSection(f[i - 1], sections[i], corpus_id, doc_id)
           /\ AddSections(sections, corpus_id, doc_id) = f[Len(sections)]
    BY SectionChain, SMTT(60), ZenonT(60)
  <2> QED  BY <2>1 DEF n, C
<1>2. n \in Nat /\ ToSet(sections) = {sections[k] : k \in 1..n} /\ \A k \in 1..n : sections[k] \in Sections
  BY DEF ToSet
<1> DEFINE Made(i) == \A chunk \in ToSet(f[i]) :
                         \E s \in ToSet(sections) : \E w \in ToSet(PiecesOf(s)) : MadeOf(chunk, s, w)
           Has(i) == \A k \in 1..i : \A w \in ToSet(PiecesOf(sections[k])) :
                         HasWord(w) => \E chunk \in ToSet(f[i]) : MadeOf(chunk, sections[k], w)
           S == {i \in 0..n : Made(i) /\ Has(i)}
<1>3. 0 \in S
  <2>1. ToSet(f[0]) = {}
    BY <1>1 DEF ToSet
  <2>2. Made(0) /\ Has(0)
    BY <2>1
  <2> HIDE DEF Made, Has
  <2> QED  BY <1>2, <2>2
<1>4. ASSUME NEW i \in 1..n, i - 1 \in S PROVE i \in S
  <2>1. /\ f[i - 1] \in Seq(C) /\ sections[i] \in Sections /\ sections[i] \in ToSet(sections)
        /\ f[i] = AddSection(f[i - 1], sections[i], corpus_id, doc_id)
        /\ i \in 0..n /\ i - 1 \in 0..n
    <3>1. i - 1 \in 0..n /\ i \in 0..n
      BY <1>2
    <3> HIDE DEF n
    <3> QED  BY <1>1, <1>2, <3>1
  <2>2. Made(i - 1) /\ Has(i - 1)
    BY <1>4
  <2>3. /\ ToSet(f[i - 1]) \subseteq ToSet(f[i])
        /\ \A chunk \in ToSet(f[i]) \ ToSet(f[i - 1]) :
              \E w \in ToSet(PiecesOf(sections[i])) : MadeOf(chunk, sections[i], w)
        /\ \A w \in ToSet(PiecesOf(sections[i])) :
              HasWord(w) => \E chunk \in ToSet(f[i]) : MadeOf(chunk, sections[i], w)
    BY <2>1, AddSectionMakes
  <2>4. Made(i)
    BY <2>1, <2>2, <2>3
  <2>5. Has(i)
    <3> SUFFICES ASSUME NEW k \in 1..i, NEW w \in ToSet(PiecesOf(sections[k])), HasWord(w)
                 PROVE  \E chunk \in ToSet(f[i]) : MadeOf(chunk, sections[k], w)
      OBVIOUS
    <3>1. CASE k = i
      BY <2>3, <3>1
    <3>2. CASE k # i
      <4>1. k \in 1..(i - 1)
        BY <1>2, <3>2
      <4> QED  BY <2>2, <2>3, <4>1
    <3> QED  BY <3>1, <3>2
  <2> HIDE DEF Made, Has
  <2> QED  BY <2>1, <2>4, <2>5
<1>5. n \in S
  <2> HIDE DEF S
  <2>1. \A i \in 0..n : i \in S
    BY <1>2, <1>3, <1>4, UpToN
  <2> QED  BY <1>2, <2>1
<1>6. Made(n) /\ Has(n)
  <2> HIDE DEF Made, Has
  <2> QED  BY <1>5
<1>7. f[n] \in Seq(C)
  <2>1. n \in 0..n
    BY <1>2
  <2> HIDE DEF n
  <2> QED  BY <1>1, <2>1
<1> HIDE DEF n, C
<1> QED  BY <1>1, <1>2, <1>6, <1>7 DEF C

(***************************************************************************)
(* split_sections: what a scan has seen so far.                            *)
(***************************************************************************)

FenceLines(lines) == {j \in DOMAIN lines : lines[j].kind = "fence"}

HeadingLines(lines) == {j \in DOMAIN lines : StartsSection(lines, j)}

OwnTexts(lines, k, starts) ==
    {lines[i].tokens : i \in {j \in DOMAIN lines :
        SectionOf(lines, j) = k /\ StartsSection(lines, j) = starts}}

LEMMA CountsAre ==
    ASSUME NEW lines \in Seq(Lines), NEW i \in 1..Len(lines)
    PROVE  /\ Fenced(lines, i) = (CountOf(FenceLines(lines), i - 1) % 2 = 1)
           /\ SectionOf(lines, i) = CountOf(HeadingLines(lines), i)
<1>1. i \in Nat /\ 1..(i - 1) \subseteq DOMAIN lines /\ 1..i \subseteq DOMAIN lines
  OBVIOUS
<1>2. {j \in 1..(i - 1) : lines[j].kind = "fence"} = {j \in 1..(i - 1) : j \in FenceLines(lines)}
  BY <1>1 DEF FenceLines
<1>3. {j \in 1..i : StartsSection(lines, j)} = {j \in 1..i : j \in HeadingLines(lines)}
  BY <1>1 DEF HeadingLines
<1> QED  BY <1>2, <1>3 DEF Fenced, SectionOf, CountOf

Titled(lines, k, title) == title = <<>> \/ title \in OwnTexts(lines, k, TRUE)

\* The section has a title and paragraphs of its own lines.
IsSection(s, lines) ==
    /\ Titled(lines, s.label, s.title)
    /\ \A p \in ToSet(s.body) : ToSet(p) \subseteq UNION {ToSet(text) : text \in OwnTexts(lines, s.label, FALSE)}

\* The section is that of the text, which stands in it.
HoldsText(s, k, text) == s.label = k /\ \E p \in ToSet(s.body) : Within(text, p)

\* Lines that are to be kept
Kept(line) == line.kind # "blank" /\ line.tokens # <<>>

LEMMA FlushKeeps ==
    ASSUME NEW lines \in Seq(Lines), NEW scan \in Scans, Titled(lines, scan.no, scan.title),
           \A line \in ToSet(scan.body) : line.tokens \in OwnTexts(lines, scan.no, FALSE),
           \A s \in ToSet(scan.sections) : IsSection(s, lines)
    PROVE  /\ \A s \in ToSet(Flush(scan)) : IsSection(s, lines)
           /\ ToSet(scan.sections) \subseteq ToSet(Flush(scan))
           /\ \A line \in ToSet(scan.body) :
                Kept(line) => \E s \in ToSet(Flush(scan)) : HoldsText(s, scan.no, line.tokens)
<1> DEFINE new == [label |-> scan.no, title |-> scan.title, body |-> Paragraphs(scan.body)]
           Own == UNION {ToSet(text) : text \in OwnTexts(lines, scan.no, FALSE)}
<1>1. /\ scan.no \in Nat /\ scan.title \in Texts /\ scan.body \in Seq(Lines)
      /\ scan.sections \in Seq(Sections)
  BY DEF Scans
<1>2. /\ Paragraphs(scan.body) \in Seq(Texts)
      /\ \A p \in ToSet(Paragraphs(scan.body)) :
            ToSet(p) \subseteq UNION {ToSet(line.tokens) : line \in ToSet(scan.body)}
      /\ \A line \in ToSet(scan.body) :
            line.kind # "blank" => \E p \in ToSet(Paragraphs(scan.body)) : Within(line.tokens, p)
  BY <1>1, ParagraphsType, ParagraphsKeep
<1>3. new \in Sections
  BY <1>1, <1>2 DEF Sections
<1>4. UNION {ToSet(line.tokens) : line \in ToSet(scan.body)} \subseteq Own
  OBVIOUS
<1>5. IsSection(new, lines)
  <2>1. \A p \in ToSet(Paragraphs(scan.body)) : ToSet(p) \subseteq Own
    BY <1>2, <1>4
  <2>2. new.label = scan.no /\ new.title = scan.title /\ new.body = Paragraphs(scan.body)
    OBVIOUS
  <2> HIDE DEF new
  <2> QED  BY <2>1, <2>2 DEF IsSection
<1>6. ASSUME NEW line \in ToSet(scan.body), Kept(line)
      PROVE  /\ HoldsText(new, scan.no, line.tokens)
             /\ ToSet(Paragraphs(scan.body)) # { <<>> }
  <2>1. PICK p \in ToSet(Paragraphs(scan.body)) : Within(line.tokens, p)
    BY <1>2, <1>6 DEF Kept
  <2>2. line.tokens \in Phrases
    <3>1. line \in Lines
      BY <1>1 DEF ToSet
    <3> QED  BY <1>6, <3>1 DEF Kept, Phrases, Lines
  <2>3. p # <<>>
    BY <2>1, <2>2, NothingInNothing
  <2>4. new.label = scan.no /\ new.body = Paragraphs(scan.body)
    OBVIOUS
  <2> HIDE DEF new
  <2> QED  BY <2>1, <2>3, <2>4 DEF HoldsText
<1>7. CASE ToSet(Paragraphs(scan.body)) = { <<>> }
  <2>1. Flush(scan) = scan.sections
    BY <1>7 DEF Flush
  <2> HIDE DEF new
  <2> QED  BY <1>6, <1>7, <2>1
<1>8. CASE ToSet(Paragraphs(scan.body)) # { <<>> }
  <2>1. Flush(scan) = Append(scan.sections, new)
    BY <1>8 DEF Flush
  <2> HIDE DEF new
  <2>2. ToSet(Flush(scan)) = ToSet(scan.sections) \cup {new}
    BY <1>1, <1>3, <2>1, AppendFacts
  <2> QED  BY <1>5, <1>6, <2>2
<1> QED  BY <1>7, <1>8

\* What the scan has after i lines
Seen(scan, i, lines) ==
    /\ scan.no = CountOf(HeadingLines(lines), i)
    /\ scan.fence = (CountOf(FenceLines(lines), i) % 2 = 1)
    /\ Titled(lines, scan.no, scan.title)
    /\ \A line \in ToSet(scan.body) : line.tokens \in OwnTexts(lines, scan.no, FALSE)
    /\ \A s \in ToSet(scan.sections) : IsSection(s, lines)
    /\ \A j \in 1..i :
         ~StartsSection(lines, j) /\ Kept(lines[j]) =>
            \/ SectionOf(lines, j) = scan.no /\ lines[j] \in ToSet(scan.body)
            \/ \E s \in ToSet(scan.sections) : HoldsText(s, SectionOf(lines, j), lines[j].tokens)

LEMMA ScanStart ==
    ASSUME NEW lines \in Seq(Lines)
    PROVE  Seen(NothingScanned, 0, lines)
<1>1. CountOf(HeadingLines(lines), 0) = 0 /\ CountOf(FenceLines(lines), 0) = 0
  BY CountUp
<1>2. 0 % 2 = 0
  OBVIOUS
<1>3. (CountOf(FenceLines(lines), 0) % 2 = 1) = FALSE
  BY <1>1, <1>2
<1>4. ToSet(<<>>) = {} /\ 1..0 = {}
  BY DEF ToSet
<1>5. /\ NothingScanned.no = 0 /\ NothingScanned.title = <<>> /\ NothingScanned.body = <<>>
      /\ NothingScanned.fence = FALSE /\ NothingScanned.sections = <<>>
  BY DEF NothingScanned
<1>6. NothingScanned.fence = (CountOf(FenceLines(lines), 0) % 2 = 1)
  BY <1>3, <1>5
<1> QED  BY <1>1, <1>4, <1>5, <1>6 DEF Seen, Titled

LEMMA Parity ==
    ASSUME NEW n \in Nat
    PROVE  ((n + 1) % 2 = 1) <=> ~(n % 2 = 1)
OBVIOUS

LEMMA ScanStep ==
    ASSUME NEW lines \in Seq(Lines), NEW i \in 1..Len(lines), NEW scan \in Scans, Seen(scan, i - 1, lines)
    PROVE  Seen(ScanLine(scan, lines[i]), i, lines)
<1> DEFINE line == lines[i]
           next == ScanLine(scan, line)
           fence == (line.kind = "fence") # scan.fence
           A == HeadingLines(lines)
           F == FenceLines(lines)
<1>1. /\ i \in Nat /\ i - 1 \in Nat /\ (i - 1) + 1 = i /\ line \in Lines /\ i \in DOMAIN lines
      /\ scan.fence \in BOOLEAN /\ scan.no \in Nat
  BY DEF Scans
<1>2. /\ CountOf(A, i - 1) \in Nat /\ CountOf(A, i) = CountOf(A, i - 1) + (IF i \in A THEN 1 ELSE 0)
      /\ CountOf(F, i - 1) \in Nat /\ CountOf(F, i) = CountOf(F, i - 1) + (IF i \in F THEN 1 ELSE 0)
  <2> HIDE DEF A, F
  <2>1. \A S : /\ CountOf(S, i - 1) \in Nat
               /\ CountOf(S, (i - 1) + 1) = CountOf(S, i - 1) + (IF (i - 1) + 1 \in S THEN 1 ELSE 0)
    BY <1>1, CountUp
  <2> QED  BY <1>1, <2>1
<1>3. /\ Fenced(lines, i) = (CountOf(F, i - 1) % 2 = 1)
      /\ SectionOf(lines, i) = CountOf(A, i)
  BY CountsAre
<1>4. /\ scan.no = CountOf(A, i - 1)
      /\ scan.fence = (CountOf(F, i - 1) % 2 = 1)
      /\ Titled(lines, scan.no, scan.title)
      /\ \A l \in ToSet(scan.body) : l.tokens \in OwnTexts(lines, scan.no, FALSE)
      /\ \A s \in ToSet(scan.sections) : IsSection(s, lines)
      /\ \A j \in 1..(i - 1) :
           ~StartsSection(lines, j) /\ Kept(lines[j]) =>
              \/ SectionOf(lines, j) = scan.no /\ lines[j] \in ToSet(scan.body)
              \/ \E s \in ToSet(scan.sections) : HoldsText(s, SectionOf(lines, j), lines[j].tokens)
  BY DEF Seen
<1>5. i \in F <=> line.kind = "fence"
  BY <1>1 DEF FenceLines
<1>6. i \in A <=> StartsSection(lines, i)
  BY <1>1 DEF HeadingLines
<1>7. StartsSection(lines, i) <=> line.kind = "heading" /\ ~scan.fence
  BY <1>3, <1>4 DEF StartsSection
<1>8. (CountOf(F, i) % 2 = 1) = IF i \in F THEN ~scan.fence ELSE scan.fence
  <2> DEFINE c == CountOf(F, i - 1)
             odd == c % 2 = 1
  <2>1. c \in Nat /\ scan.fence = odd
    BY <1>2, <1>4
  <2>2. CASE i \in F
    <3>1. CountOf(F, i) = c + 1
      BY <1>2, <2>2
    <3> HIDE DEF c
    <3>2. ((c + 1) % 2 = 1) = ~odd
      BY <2>1, Parity
    <3> QED  BY <2>1, <2>2, <3>1, <3>2
  <2>3. CASE i \notin F
    <3>1. CountOf(F, i) = c
      BY <1>2, <2>3
    <3> QED  BY <2>1, <2>3, <3>1
  <2> QED  BY <2>2, <2>3
<1>9. \A j \in 1..i : j = i \/ j \in 1..(i - 1)
  BY <1>1
<1>10. /\ next \in Scans
       /\ IF line.kind = "heading" /\ ~fence
          THEN next = [no |-> scan.no + 1, title |-> line.tokens, body |-> <<>>,
                       fence |-> scan.fence, sections |-> Flush(scan)]
          ELSE next = [no |-> scan.no, title |-> scan.title, body |-> Append(scan.body, line),
                       fence |-> fence, sections |-> scan.sections]
  BY <1>1, ScanLineStep
<1>11. line.kind = "heading" /\ ~fence <=> StartsSection(lines, i)
  BY <1>1, <1>7
<1>12. CASE StartsSection(lines, i)
  <2>1. next = [no |-> scan.no + 1, title |-> line.tokens, body |-> <<>>,
                fence |-> scan.fence, sections |-> Flush(scan)]
    BY <1>10, <1>11, <1>12
  <2>2. /\ next.no = scan.no + 1 /\ next.title = line.tokens /\ next.body = <<>>
        /\ next.fence = scan.fence /\ next.sections = Flush(scan)
    BY <2>1
  <2>3. i \notin F
    BY <1>5, <1>7, <1>12
  <2>4. next.no = CountOf(A, i)
    <3>1. i \in A
      BY <1>6, <1>12
    <3> QED  BY <1>2, <1>4, <2>2, <3>1
  <2>5. next.fence = (CountOf(F, i) % 2 = 1)
    BY <1>8, <2>2, <2>3
  <2>6. Titled(lines, next.no, next.title)
    <3>1. i \in {j \in DOMAIN lines : SectionOf(lines, j) = next.no /\ StartsSection(lines, j) = TRUE}
      BY <1>1, <1>3, <1>12, <2>4
    <3> QED  BY <2>2, <3>1 DEF Titled, OwnTexts
  <2>7. ToSet(next.body) = {}
    BY <2>2 DEF ToSet
  <2>8. /\ \A s \in ToSet(Flush(scan)) : IsSection(s, lines)
        /\ ToSet(scan.sections) \subseteq ToSet(Flush(scan))
        /\ \A l \in ToSet(scan.body) :
             Kept(l) => \E s \in ToSet(Flush(scan)) : HoldsText(s, scan.no, l.tokens)
    BY <1>4, FlushKeeps
  <2>9. ASSUME NEW j \in 1..i, ~StartsSection(lines, j), Kept(lines[j])
        PROVE  \E s \in ToSet(next.sections) : HoldsText(s, SectionOf(lines, j), lines[j].tokens)
    <3>1. j \in 1..(i - 1)
      BY <1>9, <1>12, <2>9
    <3>2. CASE SectionOf(lines, j) = scan.no /\ lines[j] \in ToSet(scan.body)
      BY <2>2, <2>8, <2>9, <3>2
    <3>3. CASE \E s \in ToSet(scan.sections) : HoldsText(s, SectionOf(lines, j), lines[j].tokens)
      BY <2>2, <2>8, <3>3
    <3> QED  BY <1>4, <2>9, <3>1, <3>2, <3>3
  <2>10. \A s \in ToSet(next.sections) : IsSection(s, lines)
    BY <2>2, <2>8
  <2> HIDE DEF next
  <2> QED  BY <2>4, <2>5, <2>6, <2>7, <2>9, <2>10 DEF Seen, next
<1>13. CASE ~StartsSection(lines, i)
  <2>1. next = [no |-> scan.no, title |-> scan.title, body |-> Append(scan.body, line),
                fence |-> fence, sections |-> scan.sections]
    BY <1>10, <1>11, <1>13
  <2>2. /\ next.no = scan.no /\ next.title = scan.title /\ next.body = Append(scan.body, line)
        /\ next.fence = fence /\ next.sections = scan.sections
    BY <2>1
  <2>3. next.no = CountOf(A, i)
    <3>1. i \notin A
      BY <1>6, <1>13
    <3> QED  BY <1>2, <1>4, <2>2, <3>1
  <2>4. next.fence = (CountOf(F, i) % 2 = 1)
    <3>1. fence = IF line.kind = "fence" THEN ~scan.fence ELSE scan.fence
      BY <1>1
    <3> HIDE DEF fence, line, F
    <3> QED  BY <1>5, <1>8, <2>2, <3>1
  <2>5. ToSet(next.body) = ToSet(scan.body) \cup {line}
    <3>1. scan.body \in Seq(Lines)
      BY DEF Scans
    <3> HIDE DEF line
    <3> QED  BY <1>1, <2>2, <3>1, AppendFacts
  <2>6. line.tokens \in OwnTexts(lines, next.no, FALSE)
    <3>1. StartsSection(lines, i) = FALSE
      BY <1>13 DEF StartsSection
    <3>2. i \in {j \in DOMAIN lines : SectionOf(lines, j) = next.no /\ StartsSection(lines, j) = FALSE}
      BY <1>1, <1>3, <2>3, <3>1
    <3> QED  BY <3>2 DEF OwnTexts
  <2>7. \A l \in ToSet(next.body) : l.tokens \in OwnTexts(lines, next.no, FALSE)
    BY <1>4, <2>2, <2>5, <2>6
  <2>8. ASSUME NEW j \in 1..i, ~StartsSection(lines, j), Kept(lines[j])
        PROVE  \/ SectionOf(lines, j) = next.no /\ lines[j] \in ToSet(next.body)
               \/ \E s \in ToSet(next.sections) : HoldsText(s, SectionOf(lines, j), lines[j].tokens)
    <3>1. CASE j = i
      BY <1>3, <2>3, <2>5, <3>1
    <3>2. CASE j \in 1..(i - 1)
      BY <1>4, <2>2, <2>5, <2>8, <3>2
    <3> QED  BY <1>9, <3>1, <3>2
  <2>9. Titled(lines, next.no, next.title) /\ \A s \in ToSet(next.sections) : IsSection(s, lines)
    BY <1>4, <2>2
  <2> HIDE DEF next
  <2> QED  BY <2>3, <2>4, <2>7, <2>8, <2>9 DEF Seen, next
<1> QED  BY <1>12, <1>13

\* Every section is made of its own lines, and every line that counts stands in its section.
LEMMA SectionsKeep ==
    ASSUME NEW lines \in Seq(Lines)
    PROVE  /\ SplitSections(lines) \in Seq(Sections)
           /\ \A s \in ToSet(SplitSections(lines)) : IsSection(s, lines)
           /\ KeepsLines(lines)
<1> DEFINE n == Len(lines)
<1>1. PICK f \in [0..n -> Scans] :
         /\ f[0] = NothingScanned
         /\ \A i \in 1..n : f[i] = ScanLine(f[i - 1], lines[i])
         /\ Scanned(lines) = f[n]
  BY ScanChain
<1>2. n \in Nat /\ DOMAIN lines = 1..n
  OBVIOUS
<1> HIDE DEF n
<1> DEFINE S == {i \in 0..n : Seen(f[i], i, lines)}
<1>3. 0 \in S
  BY <1>1, <1>2, ScanStart
<1>4. ASSUME NEW i \in 1..n, i - 1 \in S PROVE i \in S
  <2>1. i \in 0..n /\ i - 1 \in 0..n
    BY <1>2
  <2>2. f[i - 1] \in Scans /\ Seen(f[i - 1], i - 1, lines) /\ f[i] = ScanLine(f[i - 1], lines[i])
    BY <1>1, <1>4, <2>1
  <2>3. Seen(f[i], i, lines)
    BY <2>2, ScanStep DEF n
  <2> QED  BY <2>1, <2>3
<1>5. n \in 0..n
  BY <1>2
<1>6. Seen(f[n], n, lines)
  <2> HIDE DEF S
  <2>1. \A i \in 0..n : i \in S
    BY <1>2, <1>3, <1>4, UpToN
  <2> USE DEF S
  <2> QED  BY <1>5, <2>1
<1> DEFINE scan == f[n]
<1>7. scan \in Scans /\ SplitSections(lines) = Flush(scan)
  BY <1>1, <1>5 DEF SplitSections, Scanned
<1> HIDE DEF S, scan
<1>8. /\ \A s \in ToSet(Flush(scan)) : IsSection(s, lines)
      /\ ToSet(scan.sections) \subseteq ToSet(Flush(scan))
      /\ \A line \in ToSet(scan.body) :
           Kept(line) => \E s \in ToSet(Flush(scan)) : HoldsText(s, scan.no, line.tokens)
  BY <1>6, <1>7, FlushKeeps DEF Seen, scan
<1>9. ASSUME NEW i \in DOMAIN lines, ~StartsSection(lines, i), lines[i].kind # "blank", lines[i].tokens # <<>>
      PROVE  \E s \in ToSet(SplitSections(lines)) : HoldsText(s, SectionOf(lines, i), lines[i].tokens)
  <2>1. \/ SectionOf(lines, i) = scan.no /\ lines[i] \in ToSet(scan.body)
        \/ \E s \in ToSet(scan.sections) : HoldsText(s, SectionOf(lines, i), lines[i].tokens)
    BY <1>2, <1>6, <1>9 DEF Seen, Kept, scan
  <2> QED  BY <1>7, <1>8, <1>9, <2>1 DEF Kept
<1>10. KeepsLines(lines)
  BY <1>9 DEF KeepsLines, HoldsText
<1> QED  BY <1>7, <1>8, <1>10, FlushType

(***************************************************************************)
(* The chunks of a document and of a corpus.                               *)
(***************************************************************************)

LEMMA WordWithin ==
    ASSUME NEW phrase \in Texts, NEW text \in Texts, Within(phrase, text), HasWord(phrase)
    PROVE  HasWord(text)
<1>1. PICK k \in DOMAIN phrase : phrase[k] \in Words
  BY DEF HasWord
<1>2. PICK a \in 0..(Len(text) - Len(phrase)) : \A j \in DOMAIN phrase : text[a + j] = phrase[j]
  BY DEF Within
<1>3. a + k \in DOMAIN text
  <2>1. /\ Len(text) \in Nat /\ Len(phrase) \in Nat /\ DOMAIN phrase = 1..Len(phrase)
        /\ DOMAIN text = 1..Len(text)
    BY DEF Texts
  <2> QED  BY <2>1
<1> QED  BY <1>1, <1>2, <1>3 DEF HasWord

\* What the pieces of a section promise
LEMMA PiecesOfSection ==
    ASSUME NEW s \in Sections
    PROVE  /\ PiecesOf(s) \in Seq(Texts)
           /\ \A w \in ToSet(PiecesOf(s)) :
                w \in Texts /\ Len(w) <= Budget(s) /\ ToSet(w) \subseteq UNION {ToSet(p) : p \in ToSet(s.body)}
           /\ \A p \in ToSet(s.body) : \A i \in DOMAIN p :
                \E w \in ToSet(PiecesOf(s)) : Within(Phrase(p, i, Overlap(s)), w)
<1>1. s.body \in Seq(Texts)
  BY DEF Sections
<1>2. Budget(s) \in Nat \ {0} /\ Overlap(s) \in Nat /\ Overlap(s) < Budget(s)
  BY BudgetFacts
<1>3. PiecesOf(s) \in Seq(Texts)
  BY <1>1, <1>2, SectionPiecesKeep DEF PiecesOf
<1>4. \A w \in ToSet(PiecesOf(s)) : w \in Texts
  BY <1>3 DEF ToSet
<1>5. /\ \A w \in ToSet(PiecesOf(s)) :
           Len(w) <= Budget(s) /\ ToSet(w) \subseteq UNION {ToSet(p) : p \in ToSet(s.body)}
      /\ \A p \in ToSet(s.body) : \A i \in DOMAIN p :
           \E w \in ToSet(PiecesOf(s)) : Within(Phrase(p, i, Overlap(s)), w)
  BY <1>1, <1>2, SectionPiecesKeep DEF PiecesOf
<1> QED  BY <1>3, <1>4, <1>5

\* A chunk that is made of a section keeps to it and to the budget.
LEMMA MadeFits ==
    ASSUME NEW lines \in Seq(Lines), NEW s \in Sections, IsSection(s, lines),
           NEW w \in ToSet(PiecesOf(s)), NEW chunk, MadeOf(chunk, s, w)
    PROVE  FitsItsSection(chunk, lines)
<1> DEFINE T == Words \cup Marks
           titles == OwnTexts(lines, s.label, TRUE)
           others == OwnTexts(lines, s.label, FALSE)
<1>1. /\ w \in Seq(T) /\ Len(w) <= Budget(s)
      /\ ToSet(w) \subseteq UNION {ToSet(p) : p \in ToSet(s.body)}
      /\ s.title \in Seq(T)
  BY PiecesOfSection DEF Texts, Sections
<1>2. Titled(lines, s.label, s.title) /\ \A p \in ToSet(s.body) : ToSet(p) \subseteq UNION {ToSet(text) : text \in others}
  BY DEF IsSection
<1>3. chunk.section = s.label /\ chunk.text = s.title \o w /\ HasWord(w)
  BY DEF MadeOf
<1>4. /\ Len(chunk.text) = Len(s.title) + Len(w)
      /\ ToSet(chunk.text) = ToSet(s.title) \cup ToSet(w)
  <2> HIDE DEF T
  <2> QED  BY <1>1, <1>3, JoinFacts
<1>5. Len(w) \in Nat \ {0}
  <2>1. Len(w) \in Nat /\ DOMAIN w = 1..Len(w)
    BY <1>1
  <2> QED  BY <1>3, <2>1 DEF HasWord
<1> HIDE DEF titles, others
<1>6. \/ Len(chunk.text) <= CHUNK_MAX_TOKENS
      \/ \E title \in titles : Len(chunk.text) = Len(title) + 1
  <2>1. /\ Len(s.title) \in Nat
        /\ Budget(s) = IF CHUNK_MAX_TOKENS - Len(s.title) <= 1 THEN 1 ELSE CHUNK_MAX_TOKENS - Len(s.title)
    BY BudgetFacts
  <2>2. CHUNK_MAX_TOKENS \in Nat \ {0}
    BY ChunkingAssumption
  <2>3. CASE s.title = <<>>
    <3>1. Len(s.title) = 0
      BY <2>3
    <3> QED  BY <1>1, <1>4, <1>5, <2>1, <2>2, <3>1
  <2>4. CASE s.title # <<>>
    <3>1. s.title \in titles
      BY <1>2, <2>4 DEF Titled, titles
    <3>2. Len(chunk.text) <= CHUNK_MAX_TOKENS \/ Len(chunk.text) = Len(s.title) + 1
      BY <1>1, <1>4, <1>5, <2>1, <2>2
    <3> QED  BY <3>1, <3>2
  <2> QED  BY <2>3, <2>4
<1>7. ToSet(chunk.text) \subseteq UNION {ToSet(text) : text \in titles \cup others}
  <2>1. ToSet(w) \subseteq UNION {ToSet(text) : text \in others}
    BY <1>1, <1>2
  <2>2. ToSet(s.title) \subseteq UNION {ToSet(text) : text \in titles}
    <3>1. CASE s.title = <<>>
      <4>1. ToSet(<<>>) = {}
        BY DEF ToSet
      <4> QED  BY <3>1, <4>1
    <3>2. CASE s.title # <<>>
      BY <1>2, <3>2 DEF Titled, titles
    <3> QED  BY <3>1, <3>2
  <2> QED  BY <1>4, <2>1, <2>2
<1> QED  BY <1>3, <1>6, <1>7 DEF FitsItsSection, OwnTexts, titles, others

\* What a document promises of its chunks
LEMMA DocumentKeeps ==
    ASSUME NEW corpus_id, NEW d, d.lines \in Seq(Lines)
    PROVE  LET chunks == ChunkDocument(corpus_id, d)
           IN  /\ KeepsLines(d.lines) /\ KeepsPhrases(chunks, d.lines)
               /\ \A chunk \in ToSet(chunks) : FitsItsSection(chunk, d.lines)
<1> DEFINE chunks == ChunkDocument(corpus_id, d)
           sections == SplitSections(d.lines)
<1>1. /\ sections \in Seq(Sections) /\ KeepsLines(d.lines)
      /\ \A s \in ToSet(sections) : IsSection(s, d.lines)
  BY SectionsKeep
<1>2. \A s \in ToSet(sections) : s \in Sections
  BY <1>1 DEF ToSet
<1>3. chunks = AddSections(sections, corpus_id, d.doc_id)
  BY DEF ChunkDocument, AddSections
<1> HIDE DEF chunks, sections
<1>4. /\ \A chunk \in ToSet(chunks) :
           \E s \in ToSet(sections) : \E w \in ToSet(PiecesOf(s)) : MadeOf(chunk, s, w)
      /\ \A s \in ToSet(sections) : \A w \in ToSet(PiecesOf(s)) :
           HasWord(w) => \E chunk \in ToSet(chunks) : MadeOf(chunk, s, w)
  <2>1. d.doc_id \in {d.doc_id}
    OBVIOUS
  <2> QED  BY <1>1, <1>3, <2>1, AddSectionsMake
<1>5. ASSUME NEW chunk \in ToSet(chunks) PROVE FitsItsSection(chunk, d.lines)
  <2>1. PICK s \in ToSet(sections) : \E w \in ToSet(PiecesOf(s)) : MadeOf(chunk, s, w)
    BY <1>4
  <2>2. s \in Sections /\ IsSection(s, d.lines)
    BY <1>1, <1>2
  <2> QED  BY <2>1, <2>2, MadeFits
<1>6. ASSUME NEW s \in ToSet(sections), NEW p \in ToSet(s.body), NEW i \in DOMAIN p,
             HasWord(Phrase(p, i, Overlap(s)))
      PROVE  \E chunk \in ToSet(chunks) :
                chunk.section = s.label /\ Within(Phrase(p, i, Overlap(s)), chunk.text)
  <2>1. s \in Sections /\ s.body \in Seq(Texts) /\ s.title \in Texts
    BY <1>2 DEF Sections
  <2>2. p \in Texts /\ i \in 1..Len(p)
    <3>1. p \in Texts
      BY <2>1 DEF ToSet
    <3> QED  BY <3>1 DEF Texts
  <2> DEFINE phrase == Phrase(p, i, Overlap(s))
  <2>3. phrase \in Texts
    BY <2>1, <2>2, BudgetFacts, PhraseFacts DEF Phrases
  <2>4. PICK w \in ToSet(PiecesOf(s)) : Within(phrase, w)
    BY <2>1, PiecesOfSection
  <2>5. w \in Texts
    BY <2>1, PiecesOfSection
  <2> HIDE DEF phrase
  <2>6. HasWord(w)
    BY <1>6, <2>3, <2>4, <2>5, WordWithin DEF phrase
  <2>7. PICK chunk \in ToSet(chunks) : MadeOf(chunk, s, w)
    BY <1>4, <2>6
  <2>8. Within(phrase, s.title \o w)
    BY <2>1, <2>3, <2>4, <2>5, WithinJoin DEF Texts
  <2> QED  BY <2>7, <2>8 DEF MadeOf, phrase
<1>7. KeepsPhrases(chunks, d.lines)
  BY <1>6 DEF KeepsPhrases, sections
<1> QED  BY <1>1, <1>5, <1>7 DEF chunks

LEMMA ChunkDocumentType ==
    ASSUME NEW corpus_id, NEW docs, NEW d, d.lines \in Seq(Lines), d.doc_id \in docs
    PROVE  ChunkDocument(corpus_id, d) \in Seq(Chunks(corpus_id, docs))
<1>1. SplitSections(d.lines) \in Seq(Sections)
  BY SectionsKeep
<1>2. ChunkDocument(corpus_id, d) = AddSections(SplitSections(d.lines), corpus_id, d.doc_id)
  BY DEF ChunkDocument, AddSections
<1> QED  BY <1>1, <1>2, AddSectionsMake

DocIds(documents) == {d.doc_id : d \in ToSet(documents)}

AddDocuments(documents, corpus_id) ==
    FoldLeft(LAMBDA chunks, document : chunks \o ChunkDocument(corpus_id, document), <<>>, documents)

\* The chunks of a corpus, document by document
LEMMA DocumentChain ==
    ASSUME NEW corpus_id, NEW documents, documents \in Seq(ToSet(documents)),
           \A d \in ToSet(documents) : d.lines \in Seq(Lines)
    PROVE  \E f \in [0..Len(documents) -> Seq(Chunks(corpus_id, DocIds(documents)))] :
              /\ f[0] = <<>>
              /\ \A i \in 1..Len(documents) : f[i] = (f[i - 1] \o ChunkDocument(corpus_id, documents[i]))
              /\ AddDocuments(documents, corpus_id) = f[Len(documents)]
<1> DEFINE n == Len(documents)
           V == Seq(Chunks(corpus_id, DocIds(documents)))
           G == [p \in (1..n) \X V |-> (p[2] \o ChunkDocument(corpus_id, documents[p[1]]))]
           Is(it) == it = [s \in SUBSET (1..n) |->
                             IF s = {} THEN <<>> ELSE (it[s \ {Max(s)}] \o ChunkDocument(corpus_id, documents[Max(s)]))]
           ch == CHOOSE it : Is(it)
<1>1. n \in Nat /\ DOMAIN documents = 1..n
  OBVIOUS
<1>2. <<>> \in V
  OBVIOUS
<1>3. \A v \in V, i \in 1..n : (v \o ChunkDocument(corpus_id, documents[i])) \in V
  <2> TAKE v \in V, i \in 1..n
  <2>1. documents[i] \in ToSet(documents)
    BY <1>1
  <2>2. documents[i].lines \in Seq(Lines) /\ documents[i].doc_id \in DocIds(documents)
    BY <2>1 DEF DocIds
  <2>3. ChunkDocument(corpus_id, documents[i]) \in V
    BY <2>2, ChunkDocumentType
  <2> QED  BY <2>3
<1>4. G \in [(1..n) \X V -> V]
  BY <1>3
<1>5. \A i \in 1..n, v \in V : G[<<i, v>>] = (v \o ChunkDocument(corpus_id, documents[i]))
  OBVIOUS
<1>6. \A s \in SUBSET (1..n) : s # {} => Max(s) \in 1..n
  BY <1>1, LastPosition
<1> HIDE DEF V, G
<1>7. Is(ch)
  <2>1. PICK it \in [SUBSET (1..n) -> V] : IsFold(it, n, <<>>, G)
    BY <1>1, <1>2, <1>4, FoldExists
  <2>2. \A s \in SUBSET (1..n) : it[s] = IF s = {} THEN <<>> ELSE (it[s \ {Max(s)}] \o ChunkDocument(corpus_id, documents[Max(s)]))
    <3> TAKE s \in SUBSET (1..n)
    <3>1. CASE s = {}
      BY <2>1, <3>1 DEF IsFold
    <3>2. CASE s # {}
      <4>1. it[s] = G[<<Max(s), it[s \ {Max(s)}]>>]
        BY <2>1, <3>2 DEF IsFold
      <4>2. it[s \ {Max(s)}] \in V
        BY <2>1
      <4> QED  BY <1>5, <1>6, <3>2, <4>1, <4>2
    <3> QED  BY <3>1, <3>2
  <2>3. Is(it)
    BY <2>1, <2>2
  <2> HIDE DEF Is
  <2> QED  BY <2>3
<1>8. AddDocuments(documents, corpus_id) = ch[1..n]
  BY <1>1 DEF AddDocuments, FoldLeft, MapThenFoldSet
<1>9. /\ ch[{}] = <<>>
      /\ \A s \in SUBSET (1..n) : s # {} => ch[s] = (ch[s \ {Max(s)}] \o ChunkDocument(corpus_id, documents[Max(s)]))
  <2> HIDE DEF ch
  <2> QED  BY <1>7
<1> HIDE DEF ch, Is
<1>10. Folds(ch, n, V, <<>>, G)
  BY <1>5, <1>6, <1>9 DEF Folds
<1>11. Iterated(ch[1..n], n, V, <<>>, G)
  BY <1>1, <1>2, <1>4, <1>10, FoldIterates
<1>12. PICK f \in [0..n -> V] : IsIteration(f, n, <<>>, G) /\ ch[1..n] = f[n]
  BY <1>11 DEF Iterated
<1>13. \A i \in 1..n : f[i] = (f[i - 1] \o ChunkDocument(corpus_id, documents[i]))
  <2> TAKE i \in 1..n
  <2>1. i - 1 \in 0..n
    BY <1>1
  <2>2. f[i] = G[<<i, f[i - 1]>>] /\ f[i - 1] \in V
    BY <1>12, <2>1 DEF IsIteration
  <2> QED  BY <1>5, <2>2
<1> QED  BY <1>8, <1>12, <1>13 DEF IsIteration, V

\* _prepare gives chunks, each with the name of its corpus.
LEMMA PrepareType ==
    ASSUME NEW corpus_id, NEW s, s.documents \in Seq(ToSet(s.documents)),
           \A d \in ToSet(s.documents) : d.lines \in Seq(Lines)
    PROVE  Prepare(corpus_id, s) \in Seq(Chunks(corpus_id, DocIds(s.documents)))
<1>1. CASE Loads(s)
  <2> DEFINE n == Len(s.documents)
             C == Chunks(corpus_id, DocIds(s.documents))
             whole == AddDocuments(s.documents, corpus_id)
  <2>1. Prepare(corpus_id, s) = whole
    BY <1>1 DEF Prepare, AddDocuments
  <2>2. \E f \in [0..n -> Seq(C)] : whole = f[n]
    <3> DEFINE documents == s.documents
    <3> HIDE DEF documents
    <3>1. documents \in Seq(ToSet(documents)) /\ \A d \in ToSet(documents) : d.lines \in Seq(Lines)
      BY DEF documents
    <3>2. \E f \in [0..Len(documents) -> Seq(Chunks(corpus_id, DocIds(documents)))] :
             /\ f[0] = <<>>
             /\ \A i \in 1..Len(documents) : f[i] = (f[i - 1] \o ChunkDocument(corpus_id, documents[i]))
             /\ AddDocuments(documents, corpus_id) = f[Len(documents)]
      BY <3>1, DocumentChain, SMTT(20), ZenonT(60)
    <3> QED  BY <3>2 DEF documents
  <2>3. n \in 0..n
    OBVIOUS
  <2> HIDE DEF C, whole, n
  <2>4. whole \in Seq(C)
    BY <2>2, <2>3
  <2> QED  BY <2>1, <2>4 DEF C
<1>2. CASE ~Loads(s)
  <2>1. Prepare(corpus_id, s) = <<>>
    BY <1>2 DEF Prepare
  <2> QED  BY <2>1
<1> QED  BY <1>1, <1>2

LEMMA PrepareGives ==
    ASSUME NEW c \in Corpus, NEW s \in Sources[c]
    PROVE  Prepare(c, s) \in Seq(AllChunks) /\ \A chunk \in ToSet(Prepare(c, s)) : chunk.corpus = c
<1> DEFINE chunks == Prepare(c, s)
           C == Chunks(c, DocIds(s.documents))
<1>1. s.documents \in Seq(ToSet(s.documents)) /\ \A d \in ToSet(s.documents) : d.lines \in Seq(Lines)
  BY IngestionAssumption
<1>2. chunks \in Seq(C)
  BY <1>1, PrepareType
<1>3. ToSet(chunks) \subseteq AllChunks
  BY DEF AllChunks
<1> HIDE DEF chunks
<1>4. \A chunk \in C : chunk.corpus = c
  BY DEF Chunks
<1> HIDE DEF C
<1>5. ToSet(chunks) = {chunks[i] : i \in 1..Len(chunks)} /\ \A i \in 1..Len(chunks) : chunks[i] \in C
  BY <1>2 DEF ToSet
<1>6. chunks \in Seq(AllChunks)
  <2>1. \A i \in 1..Len(chunks) : chunks[i] \in AllChunks
    BY <1>3, <1>5
  <2> QED  BY <1>2, <2>1
<1>7. \A chunk \in ToSet(chunks) : chunk.corpus = c
  BY <1>4, <1>5
<1> QED  BY <1>6, <1>7 DEF chunks

\* ChunkedWithoutLoss: whatever the documents, no line is lost in split_sections, no
\* phrase that the overlap provides for is cut, and no chunk is too long or takes
\* tokens of another section.
THEOREM ChunksLoseNothing == Spec => []ChunkedWithoutLoss
<1>1. ChunkedWithoutLoss
  <2>1. \A d \in Documents : d.lines \in Seq(Lines)
    BY IngestionAssumption
  <2> QED  BY <2>1, DocumentKeeps DEF ChunkedWithoutLoss
<1> QED  BY <1>1, PTL

-----------------------------------------------------------------------------
(* The invariants *)

Active(p) == run[p].pc \notin {"idle", "prepare"}
Works(p, c) == Active(p) /\ Current(p) = c

OfCorpus(c, content) == \A chunk \in ToSet(content) : chunk.corpus = c

OwnInv ==
    /\ IsFiniteSet(points)
    /\ \A c \in Corpus : OfCorpus(c, source[c])
    /\ \A p \in Processes : Active(p) =>
         /\ Mine(p) # <<>>
         /\ OfCorpus(Current(p), Mine(p))
         /\ run[p].pc \in {"upsert", "delete"} => OfCorpus(Current(p), run[p].left)

\* Runs that work on a corpus at one time and are alone work on one content.
AgreeInv ==
    \A p, q \in Processes : \A c \in Corpus :
        Works(p, c) /\ Works(q, c) /\ run[p].alone => Mine(p) = Mine(q)

\* What is left to do is to write what belongs there, or to delete what does not.
LeftInv ==
    \A p \in Processes :
        /\ At(p, "upsert") => ToSet(run[p].left) \subseteq ToSet(Mine(p))
        /\ At(p, "delete") => ToSet(run[p].left) \cap ToSet(Mine(p)) = {}

\* The run is alone with its content, or what is half written in the corpus is the same.
Undisturbed(p, c) == run[p].alone \/ unfinished[c] \subseteq {Mine(p)}

Reached(p, c) ==
    /\ At(p, "count") => manifest[c] = Mine(p)
    /\ At(p, "upsert") => ToSet(Mine(p)) \subseteq points \cup ToSet(run[p].left)
    /\ ~At(p, "count") /\ ~At(p, "upsert") => ToSet(Mine(p)) \subseteq points
    /\ At(p, "delete") => PointsOf(c) \subseteq ToSet(Mine(p)) \cup ToSet(run[p].left)
    /\ run[p].pc \in {"sparse", "audit", "manifest"} => PointsOf(c) = ToSet(Mine(p))
    /\ run[p].pc \in {"audit", "manifest"} => bm25[c] = Mine(p)
    /\ At(p, "manifest") => audit[c] = Mine(p)

StageInv ==
    \A p \in Processes : \A c \in Corpus : Works(p, c) /\ Undisturbed(p, c) => Reached(p, c)

\* StoresAgree for one corpus, also while nothing but its own content is half written
AgreesOn(c) ==
    unfinished[c] \subseteq {manifest[c]} =>
        IF manifest[c] = None THEN PointsOf(c) = {} /\ bm25[c] = None /\ audit[c] = None
        ELSE Holds(c, manifest[c])

StoresInv == AgreeInv /\ LeftInv /\ StageInv /\ \A c \in Corpus : AgreesOn(c)

\* The corpus has been ingested once.
Done(c) == bm25[c] # None /\ manifest[c] # None

\* A run that compares counts has found the files; one that has written the index
\* leaves it there.
Marked(p) ==
    /\ run[p].pc \in {"count", "audit", "manifest"} => bm25[Current(p)] # None
    /\ At(p, "count") => manifest[Current(p)] # None

MarksInv == \A p \in Processes : Marked(p)

\* The server's startup has ingested what it no longer has to do.
ServerInv ==
    /\ ~At(Server, "idle") => ~complete /\ \A c \in Corpus : c \in ToSet(run[Server].todo) \/ Done(c)
    /\ complete => \A c \in Corpus : Done(c)
    /\ ~serving => /\ ~complete /\ At(Server, "idle") /\ \A c \in Corpus : cache[c] = None

ReadyInv == MarksInv /\ ServerInv

CacheInv ==
    \A c \in Corpus : c \in early \/ cache[c] = None \/ (complete /\ cache[c] = bm25[c])

IngestionInv == TypeOK /\ OwnInv /\ StoresInv /\ ReadyInv /\ CacheInv /\ ReportHolds

-----------------------------------------------------------------------------
(* Sequences and sets *)

\* What Head and Tail are
LEMMA HeadAndTail ==
    ASSUME NEW S, NEW s \in Seq(S), s # <<>>
    PROVE  /\ Head(s) \in S /\ Tail(s) \in Seq(S)
           /\ Len(s) \in Nat /\ Len(s) >= 1 /\ Len(Tail(s)) = Len(s) - 1
           /\ ToSet(s) = {Head(s)} \cup ToSet(Tail(s))
           /\ Len(s) = 1 <=> Tail(s) = <<>>
<1>1. Len(s) \in Nat /\ Len(s) >= 1 /\ Head(s) = s[1] /\ DOMAIN s = 1..Len(s)
  OBVIOUS
<1>2. Tail(s) \in Seq(S) /\ Len(Tail(s)) = Len(s) - 1 /\ \A i \in 1..(Len(s) - 1) : Tail(s)[i] = s[i + 1]
  BY <1>1
<1>3. ToSet(Tail(s)) \subseteq ToSet(s)
  <2>1. \A i \in DOMAIN Tail(s) : i + 1 \in DOMAIN s /\ Tail(s)[i] = s[i + 1]
    BY <1>1, <1>2
  <2> QED  BY <2>1 DEF ToSet
<1>4. ASSUME NEW i \in DOMAIN s PROVE s[i] \in {Head(s)} \cup ToSet(Tail(s))
  <2>1. CASE i = 1
    BY <1>1, <2>1
  <2>2. CASE i # 1
    <3>1. i - 1 \in DOMAIN Tail(s) /\ (i - 1) + 1 = i
      BY <1>1, <1>2, <2>2
    <3>2. Tail(s)[i - 1] = s[i]
      BY <1>1, <1>2, <3>1
    <3> QED  BY <3>1, <3>2 DEF ToSet
  <2> QED  BY <2>1, <2>2
<1>5. Head(s) \in ToSet(s) /\ Head(s) \in S
  BY <1>1 DEF ToSet
<1> QED  BY <1>1, <1>2, <1>3, <1>4, <1>5 DEF ToSet

\* The chunks of a sequence are finitely many.
LEMMA ToSetFinite == ASSUME NEW S, NEW s \in Seq(S) PROVE IsFiniteSet(ToSet(s)) /\ ToSet(s) \subseteq S
<1>1. Len(s) \in Nat /\ DOMAIN s = 1..Len(s) /\ s \in [1..Len(s) -> S]
  OBVIOUS
<1>2. s \in Surjection(1..Len(s), ToSet(s))
  BY <1>1 DEF Surjection, ToSet
<1>3. IsFiniteSet(1..Len(s))
  BY <1>1, FS_Interval
<1> QED  BY <1>1, <1>2, <1>3, FS_Surjection DEF ToSet

LEMMA Smaller == ASSUME NEW a \in Nat, NEW b \in Nat PROVE Min({a, b}) \in {a, b} /\ Min({a, b}) <= a /\ Min({a, b}) <= b
<1>1. \E x \in {a, b} : \A y \in {a, b} : x =< y
  OBVIOUS
<1> QED  BY <1>1 DEF Min

\* The first n places of a sequence, and the others
LEMMA Parts ==
    ASSUME NEW S, NEW s \in Seq(S), NEW n \in 0..Len(s)
    PROVE  /\ SubSeq(s, 1, n) \in Seq(S) /\ Len(SubSeq(s, 1, n)) = n
           /\ \A i \in 1..n : SubSeq(s, 1, n)[i] = s[i]
           /\ SubSeq(s, n + 1, Len(s)) \in Seq(S) /\ Len(SubSeq(s, n + 1, Len(s))) = Len(s) - n
           /\ \A i \in 1..(Len(s) - n) : SubSeq(s, n + 1, Len(s))[i] = s[n + i]
           /\ DOMAIN SubSeq(s, 1, n) = 1..n /\ DOMAIN SubSeq(s, n + 1, Len(s)) = 1..(Len(s) - n)
<1>1. Len(s) \in Nat /\ n \in Nat /\ n <= Len(s)
  OBVIOUS
<1>2. /\ SubSeq(s, 1, n) \in Seq(S) /\ Len(SubSeq(s, 1, n)) = n
      /\ \A i \in 1..n : SubSeq(s, 1, n)[i] = s[i]
  BY <1>1
<1>3. /\ SubSeq(s, n + 1, Len(s)) \in Seq(S) /\ Len(SubSeq(s, n + 1, Len(s))) = Len(s) - n
      /\ \A i \in 1..(Len(s) - n) : SubSeq(s, n + 1, Len(s))[i] = s[n + i]
  BY <1>1
<1>4. DOMAIN SubSeq(s, 1, n) = 1..n
  BY <1>2
<1>5. DOMAIN SubSeq(s, n + 1, Len(s)) = 1..(Len(s) - n)
  BY <1>3
<1> QED  BY <1>2, <1>3, <1>4, <1>5

\* A batch and what is left after it
LEMMA Batches ==
    ASSUME NEW S, NEW s \in Seq(S)
    PROVE  /\ AfterBatch(s) \in Seq(S)
           /\ ToSet(s) = ToSet(FirstBatch(s)) \cup ToSet(AfterBatch(s))
           /\ ToSet(FirstBatch(s)) \subseteq S /\ IsFiniteSet(ToSet(FirstBatch(s)))
<1> DEFINE m == Min({UPSERT_BATCH_SIZE, Len(s)})
<1>1. Len(s) \in Nat /\ DOMAIN s = 1..Len(s) /\ UPSERT_BATCH_SIZE \in Nat
  BY IngestionAssumption
<1>2. m \in Nat /\ m <= Len(s)
  BY <1>1, Smaller
<1> DEFINE first == SubSeq(s, 1, m)
           rest == SubSeq(s, m + 1, Len(s))
<1>3. m \in 0..Len(s)
  BY <1>1, <1>2
<1> HIDE DEF m
<1>6. /\ first \in Seq(S) /\ DOMAIN first = 1..m /\ \A i \in 1..m : first[i] = s[i]
      /\ rest \in Seq(S) /\ DOMAIN rest = 1..(Len(s) - m)
      /\ \A i \in 1..(Len(s) - m) : rest[i] = s[m + i]
  BY <1>3, Parts
<1>7. FirstBatch(s) = first /\ AfterBatch(s) = rest
  BY DEF FirstBatch, AfterBatch, m
<1> HIDE DEF first, rest
<1>8. ToSet(first) \subseteq ToSet(s) /\ ToSet(rest) \subseteq ToSet(s)
  <2>1. \A i \in 1..m : i \in DOMAIN s
    BY <1>1, <1>2
  <2>2. \A i \in 1..(Len(s) - m) : m + i \in DOMAIN s
    BY <1>1, <1>2
  <2> QED  BY <1>6, <2>1, <2>2 DEF ToSet
<1>9. ASSUME NEW i \in DOMAIN s PROVE s[i] \in ToSet(first) \cup ToSet(rest)
  <2>1. CASE i <= m
    <3>1. i \in DOMAIN first /\ first[i] = s[i]
      BY <1>1, <1>2, <1>6, <2>1
    <3> QED  BY <3>1 DEF ToSet
  <2>2. CASE i > m
    <3>1. i - m \in 1..(Len(s) - m) /\ m + (i - m) = i
      BY <1>1, <1>2, <2>2
    <3>2. i - m \in DOMAIN rest /\ rest[i - m] = s[i]
      BY <1>6, <3>1
    <3> QED  BY <3>2 DEF ToSet
  <2> QED  BY <1>1, <1>2, <2>1, <2>2
<1>10. ToSet(s) \subseteq ToSet(first) \cup ToSet(rest)
  BY <1>9 DEF ToSet
<1>11. IsFiniteSet(ToSet(first)) /\ ToSet(first) \subseteq S
  BY <1>6, ToSetFinite
<1> QED  BY <1>6, <1>7, <1>8, <1>10, <1>11

\* Nothing is left exactly of an empty sequence, and ToSet of one.
LEMMA EmptyIsEmpty == ToSet(<<>>) = {}
<1> QED  BY DEF ToSet

\* A set in some order
LEMMA Arranged ==
    ASSUME NEW S, IsFiniteSet(S), NEW s \in SetToSeqs(S)
    PROVE  s \in Seq(S) /\ ToSet(s) = S
<1> DEFINE n == Cardinality(S)
<1>1. n \in Nat /\ s \in [1..n -> S] /\ \A i, j \in 1..n : i # j => s[i] # s[j]
  BY FS_CardinalityType DEF SetToSeqs
<1>2. s \in Injection(1..n, S)
  BY <1>1 DEF Injection, IsInjective
<1>3. Cardinality(1..n) = n
  BY <1>1, FS_Interval
<1>4. s \in Surjection(1..n, S)
  BY <1>1, <1>2, <1>3, FS_Injection
<1>5. ToSet(s) = S
  BY <1>1, <1>4 DEF Surjection, ToSet
<1> QED  BY <1>1, <1>5

-----------------------------------------------------------------------------
(* What the steps do to the runs *)

\* A run goes on, with this much left; the others stay where they are.
Moves(p, pc, left) ==
    /\ run' \in [Processes -> RunType]
    /\ run'[p].pc = pc /\ run'[p].left = left
    /\ run'[p].todo = run[p].todo /\ run'[p].chunks = run[p].chunks /\ run'[p].alone = run[p].alone
    /\ \A q \in Processes \ {p} : run'[q] = run[q]

\* A run is over, or begins with a corpus.
Rests(p) ==
    /\ run' \in [Processes -> RunType]
    /\ run'[p].pc \in {"idle", "prepare"}
    /\ run'[p].pc = "prepare" => run'[p].todo # <<>>
    /\ \A q \in Processes \ {p} : run'[q] = run[q]

\* A run is over with its corpus.
Leaves(p) == Rests(p) /\ (run'[p].pc = "prepare" => run'[p].todo = Tail(run[p].todo))

\* The loop over the corpora.
LEMMA NextCorpusLeaves ==
    ASSUME TypeOK, NEW p \in Processes, ~At(p, "idle"), NextCorpus(p)
    PROVE  /\ Leaves(p) /\ complete' \in BOOLEAN
           /\ run'[p].pc = "idle" => Tail(run[p].todo) = <<>>
           /\ complete' # complete => complete' /\ p = Server /\ run'[p].pc = "idle"
<1>1. run[p] \in RunType /\ run[p].todo \in Seq(Corpus) /\ run[p].todo # <<>> /\ run[p].force \in BOOLEAN
      /\ run \in [Processes -> RunType]
  BY DEF TypeOK, At, RunType
<1>2. /\ Tail(run[p].todo) \in Seq(Corpus)
      /\ Len(run[p].todo) = 1 <=> Tail(run[p].todo) = <<>>
  BY <1>1, HeadAndTail
<1>3. Idle \in RunType /\ Idle.pc = "idle"
  BY DEF Idle, RunType, Steps
<1>4. CASE Len(run[p].todo) = 1
  BY <1>1, <1>2, <1>3, <1>4 DEF NextCorpus, Leaves, Rests, TypeOK
<1>5. CASE Len(run[p].todo) # 1
  <2> DEFINE new == Preparing(Tail(run[p].todo), run[p].force)
  <2>1. new \in RunType /\ new.pc = "prepare" /\ new.todo = Tail(run[p].todo)
    <3>1. <<>> \in Seq(AllChunks) /\ "prepare" \in Steps
      BY DEF Steps
    <3> QED  BY <1>1, <1>2, <3>1 DEF RunType, Preparing
  <2>2. run' = [run EXCEPT ![p] = new] /\ complete' = complete
    BY <1>5 DEF NextCorpus
  <2>3. Tail(run[p].todo) # <<>>
    BY <1>2, <1>5
  <2>4. run'[p] = new /\ (\A q \in Processes \ {p} : run'[q] = run[q]) /\ run' \in [Processes -> RunType]
    BY <1>1, <2>1, <2>2
  <2>5. complete \in BOOLEAN
    BY DEF TypeOK
  <2> HIDE DEF new
  <2> QED  BY <2>1, <2>2, <2>3, <2>4, <2>5 DEF Leaves, Rests
<1> QED  BY <1>4, <1>5

LEMMA GiveUpLeaves ==
    ASSUME TypeOK, NEW p \in Processes, ~At(p, "idle"), GiveUp(p)
    PROVE  Leaves(p) /\ complete' = complete
<1>1. Idle \in RunType /\ Idle.pc = "idle" /\ run \in [Processes -> RunType]
  BY DEF Idle, RunType, Steps, TypeOK
<1>2. CASE p = Cli
  <2>1. NextCorpus(p) /\ p # Server
    BY <1>2, IngestionAssumption DEF GiveUp
  <2> QED  BY <2>1, NextCorpusLeaves
<1>3. CASE p # Cli
  <2>1. run' = [run EXCEPT ![p] = Idle] /\ complete' = complete
    BY <1>3 DEF GiveUp
  <2> QED  BY <1>1, <2>1 DEF Leaves, Rests
<1> QED  BY <1>2, <1>3

\* What the type says of a run at work
LEMMA AtWork ==
    ASSUME TypeOK, NEW p \in Processes
    PROVE  /\ run[p] \in RunType /\ run \in [Processes -> RunType]
           /\ run[p].left \in Seq(AllChunks) /\ Mine(p) \in Seq(AllChunks)
           /\ ~At(p, "idle") => /\ run[p].todo \in Seq(Corpus) /\ run[p].todo # <<>>
                                /\ Current(p) \in Corpus
<1>1. run[p] \in RunType /\ run \in [Processes -> RunType]
  BY DEF TypeOK
<1>2. /\ run[p].left \in Seq(AllChunks) /\ run[p].chunks \in Seq(AllChunks) /\ run[p].todo \in Seq(Corpus)
      /\ run[p].pc # "idle" => run[p].todo # <<>>
  BY <1>1 DEF TypeOK, RunType
<1>3. run[p].todo # <<>> => Head(run[p].todo) \in Corpus
  BY <1>2, HeadAndTail
<1> QED  BY <1>1, <1>2, <1>3 DEF At, Mine, Current

LEMMA GotoMoves ==
    ASSUME TypeOK, NEW p \in Processes, NEW pc \in Steps, NEW left \in Seq(AllChunks), Goto(p, pc, left)
    PROVE  Moves(p, pc, left)
<1> DEFINE new == [run[p] EXCEPT !.pc = pc, !.left = left]
<1>1. run[p] \in RunType /\ run \in [Processes -> RunType]
  BY DEF TypeOK
<1>2. /\ new \in RunType /\ new.pc = pc /\ new.left = left
      /\ new.todo = run[p].todo /\ new.chunks = run[p].chunks /\ new.alone = run[p].alone
  BY <1>1 DEF RunType
<1>3. run' = [run EXCEPT ![p] = new]
  BY DEF Goto
<1> HIDE DEF new
<1>4. run'[p] = new /\ (\A q \in Processes \ {p} : run'[q] = run[q]) /\ run' \in [Processes -> RunType]
  BY <1>1, <1>2, <1>3
<1> QED  BY <1>2, <1>4 DEF Moves

\* To the first call of Qdrant: the run works on what it has read, and whoever is
\* still alone works on the same.
Prepared(p) ==
    /\ run' \in [Processes -> RunType]
    /\ run'[p].todo = run[p].todo /\ run'[p].todo # <<>>
    /\ run'[p].chunks = source[Current(p)] /\ run'[p].chunks # <<>>
    /\ run'[p].pc \in {"count", "upsert"}
    /\ run'[p].pc = "count" => MarksMatch(Current(p), source[Current(p)])
    /\ run'[p].pc = "upsert" => run'[p].left = source[Current(p)]
    /\ run'[p].alone => \A q \in Processes \ {p} : Works(q, Current(p)) => Mine(q) = source[Current(p)]
    /\ \A q \in Processes \ {p} :
         /\ run'[q].pc = run[q].pc /\ run'[q].todo = run[q].todo
         /\ run'[q].chunks = run[q].chunks /\ run'[q].left = run[q].left
         /\ run'[q].alone => /\ run[q].alone
                             /\ Works(q, Current(p)) => Mine(q) = source[Current(p)]

LEMMA PrepareIsPrepared ==
    ASSUME TypeOK, NEW p \in Processes, PrepareCorpus(p)
    PROVE  Prepared(p)
<1> DEFINE c == Current(p)
           content == source[c]
           clash == {q \in Processes \ {p} : /\ run[q].pc \notin {"idle", "prepare"}
                                             /\ Current(q) = c
                                             /\ Mine(q) # content}
           next == IF ~run[p].force /\ MarksMatch(c, content) THEN "count" ELSE "upsert"
           new == [run[p] EXCEPT !.pc = next, !.chunks = content,
                                 !.left = IF next = "upsert" THEN content ELSE @,
                                 !.alone = (clash = {})]
           lone(q) == [run[q] EXCEPT !.alone = FALSE]
<1>1. /\ At(p, "prepare") /\ content # <<>>
      /\ run' = [q \in Processes |-> IF q = p THEN new ELSE IF q \in clash THEN lone(q) ELSE run[q]]
  BY DEF PrepareCorpus
<1>2. /\ run[p] \in RunType /\ run \in [Processes -> RunType] /\ run[p].left \in Seq(AllChunks)
      /\ run[p].todo # <<>> /\ c \in Corpus
  BY <1>1, AtWork DEF At
<1>3. content \in Seq(AllChunks)
  BY <1>2 DEF TypeOK
<1>4. next \in {"count", "upsert"} /\ (next = "count" => MarksMatch(c, content)) /\ (clash = {}) \in BOOLEAN
  OBVIOUS
<1>5. /\ new \in RunType /\ new.pc = next /\ new.todo = run[p].todo /\ new.chunks = content
      /\ next = "upsert" => new.left = content
      /\ new.alone <=> clash = {}
  <2> DEFINE left == IF next = "upsert" THEN content ELSE run[p].left
             alone == clash = {}
  <2>1. left \in Seq(AllChunks) /\ next \in Steps /\ alone \in BOOLEAN
    BY <1>2, <1>3, <1>4 DEF Steps
  <2>2. new = [run[p] EXCEPT !.pc = next, !.chunks = content, !.left = left, !.alone = alone]
    OBVIOUS
  <2>3. next = "upsert" => left = content
    OBVIOUS
  <2>4. alone <=> clash = {}
    OBVIOUS
  <2> HIDE DEF left, alone, next, content, clash, new
  <2> QED  BY <1>2, <1>3, <2>1, <2>2, <2>3, <2>4 DEF RunType
<1>6. ASSUME NEW q \in Processes
      PROVE  /\ lone(q) \in RunType
             /\ lone(q).pc = run[q].pc /\ lone(q).todo = run[q].todo
             /\ lone(q).chunks = run[q].chunks /\ lone(q).left = run[q].left /\ lone(q).alone = FALSE
  <2>1. run[q] \in RunType
    BY <1>2
  <2> QED  BY <2>1 DEF RunType
<1>7. \A q \in Processes \ {p} : q \notin clash /\ Works(q, c) => Mine(q) = content
  BY DEF Works, Active
<1> HIDE DEF new, lone, clash, next, content
<1>8. run'[p] = new
  BY <1>1
<1>9. \A q \in Processes \ {p} : run'[q] = IF q \in clash THEN lone(q) ELSE run[q]
  BY <1>1
<1>10. run' \in [Processes -> RunType]
  BY <1>1, <1>2, <1>5, <1>6
<1>11. ASSUME NEW q \in Processes \ {p}
       PROVE  /\ run'[q].pc = run[q].pc /\ run'[q].todo = run[q].todo
              /\ run'[q].chunks = run[q].chunks /\ run'[q].left = run[q].left
              /\ run'[q].alone => run[q].alone /\ (Works(q, c) => Mine(q) = content)
  <2>1. CASE q \in clash
    BY <1>6, <1>9, <2>1
  <2>2. CASE q \notin clash
    BY <1>7, <1>9, <2>2
  <2> QED  BY <2>1, <2>2
<1>12. run'[p].alone => \A q \in Processes \ {p} : Works(q, c) => Mine(q) = content
  BY <1>5, <1>7, <1>8
<1>13. content = source[Current(p)]
  BY DEF content
<1> QED  BY <1>1, <1>2, <1>4, <1>5, <1>8, <1>10, <1>11, <1>12, <1>13 DEF Prepared

RunsOK ==
    /\ run \in [Processes -> RunType]
    /\ \A p \in Processes : run[p].pc # "idle" => run[p].todo # <<>>

\* What a step makes of the runs is well typed.
LEMMA RunsKept ==
    ASSUME TypeOK, NEW p \in Processes,
           \/ run' = run
           \/ Rests(p)
           \/ Prepared(p)
           \/ ~At(p, "idle") /\ \E pc, left : Moves(p, pc, left)
    PROVE  RunsOK'
<1>1. RunsOK
  BY DEF TypeOK, RunsOK
<1>2. CASE run' = run
  BY <1>1, <1>2 DEF RunsOK
<1>3. CASE Rests(p)
  BY <1>1, <1>3 DEF RunsOK, Rests
<1>4. CASE Prepared(p)
  BY <1>1, <1>4 DEF RunsOK, Prepared
<1>5. CASE ~At(p, "idle") /\ \E pc, left : Moves(p, pc, left)
  BY <1>1, <1>5 DEF RunsOK, Moves, At
<1> QED  BY <1>2, <1>3, <1>4, <1>5

\* What a step leaves a run with is of its corpus.
OwnStep(q) ==
    \/ run'[q].pc \in {"idle", "prepare"}
    \/ /\ Active(q) /\ run'[q].todo = run[q].todo /\ run'[q].chunks = run[q].chunks
       /\ run'[q].pc \in {"upsert", "delete"} => OfCorpus(Current(q), run'[q].left)
    \/ /\ Current(q) \in Corpus /\ run'[q].todo = run[q].todo /\ run'[q].chunks = source[Current(q)]
       /\ run'[q].chunks # <<>> /\ run'[q].pc \in {"count", "upsert"}
       /\ run'[q].pc = "upsert" => run'[q].left = run'[q].chunks

LEMMA OwnKept ==
    ASSUME OwnInv, IsFiniteSet(points'), source' = source, \A q \in Processes : OwnStep(q)
    PROVE  OwnInv'
<1>1. \A c \in Corpus : OfCorpus(c, source'[c])
  BY DEF OwnInv
<1>2. ASSUME NEW q \in Processes, Active(q)'
      PROVE  /\ run'[q].chunks # <<>> /\ OfCorpus(Head(run'[q].todo), run'[q].chunks)
             /\ run'[q].pc \in {"upsert", "delete"} => OfCorpus(Head(run'[q].todo), run'[q].left)
  <2>1. CASE Active(q) /\ run'[q].todo = run[q].todo /\ run'[q].chunks = run[q].chunks
             /\ (run'[q].pc \in {"upsert", "delete"} => OfCorpus(Current(q), run'[q].left))
    BY <2>1 DEF OwnInv, Mine, Current
  <2>2. CASE /\ Current(q) \in Corpus /\ run'[q].todo = run[q].todo /\ run'[q].chunks = source[Current(q)]
             /\ run'[q].chunks # <<>> /\ run'[q].pc \in {"count", "upsert"}
             /\ run'[q].pc = "upsert" => run'[q].left = run'[q].chunks
    BY <1>1, <2>2 DEF Current
  <2> QED  BY <1>2, <2>1, <2>2 DEF OwnStep, Active
<1> QED  BY <1>1, <1>2 DEF OwnInv, OfCorpus, Mine, Current, Active

\* What the steps do to the runs, as far as they own their corpora
LEMMA OwnSteps ==
    ASSUME TypeOK, OwnInv, NEW p \in Processes,
           \/ run' = run
           \/ Rests(p)
           \/ Prepared(p)
           \/ Active(p) /\ \E pc, left : /\ Moves(p, pc, left)
                                         /\ pc \in {"upsert", "delete"} => OfCorpus(Current(p), left)
    PROVE  \A q \in Processes : OwnStep(q)
<1>1. \A q \in Processes : run'[q] = run[q] => OwnStep(q)
  BY DEF OwnStep, OwnInv, Active
<1>2. CASE run' = run
  BY <1>1, <1>2
<1>3. CASE Rests(p)
  BY <1>1, <1>3 DEF Rests, OwnStep
<1>4. CASE Prepared(p)
  <2>1. Current(p) \in Corpus
    <3>1. run[p].todo \in Seq(Corpus) /\ run[p].todo # <<>>
      BY <1>4 DEF Prepared, TypeOK, RunType
    <3> QED  BY <3>1, HeadAndTail DEF Current
  <2>2. OwnStep(p)
    BY <1>4, <2>1 DEF Prepared, OwnStep
  <2>3. ASSUME NEW q \in Processes \ {p} PROVE OwnStep(q)
    BY <1>4 DEF Prepared, OwnStep, OwnInv, Active
  <2> QED  BY <2>2, <2>3
<1>5. CASE Active(p) /\ \E pc, left : /\ Moves(p, pc, left)
                                      /\ pc \in {"upsert", "delete"} => OfCorpus(Current(p), left)
  <2>1. OwnStep(p)
    BY <1>5 DEF Moves, OwnStep
  <2>2. \A q \in Processes \ {p} : run'[q] = run[q]
    BY <1>5 DEF Moves
  <2> QED  BY <1>1, <2>1, <2>2
<1> QED  BY <1>2, <1>3, <1>4, <1>5

-----------------------------------------------------------------------------
(* The actions *)

\* Each batch is of the run's own chunks.
LEMMA UpsertMoves ==
    ASSUME TypeOK, OwnInv, NEW p \in Processes, Upsert(p)
    PROVE  LET first == ToSet(FirstBatch(run[p].left))
               rest  == AfterBatch(run[p].left)
           IN  /\ Active(p) /\ Moves(p, IF rest = <<>> THEN "scroll" ELSE "upsert", rest)
               /\ ToSet(run[p].left) = first \cup ToSet(rest)
               /\ points' = points \cup first /\ points' \subseteq AllChunks /\ IsFiniteSet(points')
               /\ \A chunk \in first : chunk.corpus = Current(p)
               /\ OfCorpus(Current(p), rest)
<1> DEFINE first == ToSet(FirstBatch(run[p].left))
           rest == AfterBatch(run[p].left)
<1>1. At(p, "upsert") /\ points' = points \cup first /\ Goto(p, IF rest = <<>> THEN "scroll" ELSE "upsert", rest)
  BY DEF Upsert
<1>2. run[p].left \in Seq(AllChunks)
  BY AtWork
<1>3. rest \in Seq(AllChunks) /\ ToSet(run[p].left) = first \cup ToSet(rest) /\ first \subseteq AllChunks /\ IsFiniteSet(first)
  BY <1>2, Batches
<1>4. (IF rest = <<>> THEN "scroll" ELSE "upsert") \in Steps
  BY DEF Steps
<1>5. Active(p) /\ \A chunk \in ToSet(run[p].left) : chunk.corpus = Current(p)
  BY <1>1 DEF At, Active, OwnInv, OfCorpus
<1>6. points \subseteq AllChunks /\ IsFiniteSet(points)
  BY DEF TypeOK, OwnInv
<1> HIDE DEF first, rest
<1>7. Moves(p, IF rest = <<>> THEN "scroll" ELSE "upsert", rest)
  BY <1>1, <1>3, <1>4, GotoMoves
<1>8. points' \subseteq AllChunks /\ IsFiniteSet(points')
  BY <1>1, <1>3, <1>6, FS_Union
<1>9. (\A chunk \in first : chunk.corpus = Current(p)) /\ OfCorpus(Current(p), rest)
  BY <1>3, <1>5 DEF OfCorpus
<1> QED  BY <1>1, <1>3, <1>5, <1>7, <1>8, <1>9 DEF first, rest

LEMMA DeleteStaleMoves ==
    ASSUME TypeOK, OwnInv, NEW p \in Processes, DeleteStale(p)
    PROVE  LET first == ToSet(FirstBatch(run[p].left))
               rest  == AfterBatch(run[p].left)
           IN  /\ Active(p) /\ Moves(p, IF rest = <<>> THEN "sparse" ELSE "delete", rest)
               /\ ToSet(run[p].left) = first \cup ToSet(rest)
               /\ points' = points \ first /\ points' \subseteq AllChunks /\ IsFiniteSet(points')
               /\ \A chunk \in first : chunk.corpus = Current(p)
               /\ OfCorpus(Current(p), rest)
<1> DEFINE first == ToSet(FirstBatch(run[p].left))
           rest == AfterBatch(run[p].left)
<1>1. At(p, "delete") /\ points' = points \ first /\ Goto(p, IF rest = <<>> THEN "sparse" ELSE "delete", rest)
  BY DEF DeleteStale
<1>2. run[p].left \in Seq(AllChunks)
  BY AtWork
<1>3. rest \in Seq(AllChunks) /\ ToSet(run[p].left) = first \cup ToSet(rest)
  BY <1>2, Batches
<1>4. (IF rest = <<>> THEN "sparse" ELSE "delete") \in Steps
  BY DEF Steps
<1>5. Active(p) /\ \A chunk \in ToSet(run[p].left) : chunk.corpus = Current(p)
  BY <1>1 DEF At, Active, OwnInv, OfCorpus
<1>6. points \subseteq AllChunks /\ IsFiniteSet(points)
  BY DEF TypeOK, OwnInv
<1> HIDE DEF first, rest
<1>7. Moves(p, IF rest = <<>> THEN "sparse" ELSE "delete", rest)
  BY <1>1, <1>3, <1>4, GotoMoves
<1>8. points' \subseteq AllChunks /\ IsFiniteSet(points')
  BY <1>1, <1>6, FS_Subset
<1>9. (\A chunk \in first : chunk.corpus = Current(p)) /\ OfCorpus(Current(p), rest)
  BY <1>3, <1>5 DEF OfCorpus
<1> QED  BY <1>1, <1>3, <1>5, <1>7, <1>8, <1>9 DEF first, rest

\* The scroll returns the points of the corpus that are not in the run's content.
LEMMA ScrollMoves ==
    ASSUME TypeOK, OwnInv, NEW p \in Processes, ScrollStale(p)
    PROVE  /\ Active(p) /\ At(p, "scroll")
           /\ \E s \in Seq(AllChunks) :
                /\ Moves(p, IF s = <<>> THEN "sparse" ELSE "delete", s)
                /\ ToSet(s) = PointsOf(Current(p)) \ ToSet(Mine(p))
                /\ OfCorpus(Current(p), s)
<1> DEFINE stale == PointIds(Current(p)) \ ToSet(Mine(p))
<1>1. PICK s \in SetToSeqs(stale) : Goto(p, IF s = <<>> THEN "sparse" ELSE "delete", s)
  BY DEF ScrollStale
<1>2. stale = PointsOf(Current(p)) \ ToSet(Mine(p))
  BY DEF PointIds
<1>3. stale \subseteq points /\ \A chunk \in stale : chunk.corpus = Current(p)
  BY <1>2 DEF PointsOf
<1>4. IsFiniteSet(stale) /\ stale \subseteq AllChunks
  BY <1>3, FS_Subset DEF OwnInv, TypeOK
<1> HIDE DEF stale
<1>5. s \in Seq(stale) /\ ToSet(s) = stale
  BY <1>1, <1>4, Arranged
<1>6. s \in Seq(AllChunks)
  BY <1>4, <1>5
<1>7. (IF s = <<>> THEN "sparse" ELSE "delete") \in Steps
  BY DEF Steps
<1>8. Moves(p, IF s = <<>> THEN "sparse" ELSE "delete", s)
  BY <1>1, <1>6, <1>7, GotoMoves
<1>9. Active(p) /\ At(p, "scroll")
  BY DEF ScrollStale, Active, At
<1>10. OfCorpus(Current(p), s) /\ ToSet(s) = PointsOf(Current(p)) \ ToSet(Mine(p))
  BY <1>2, <1>3, <1>5 DEF OfCorpus
<1> QED  BY <1>6, <1>8, <1>9, <1>10

\* The steps that change no set of points
LEMMA OtherMoves ==
    ASSUME TypeOK, OwnInv, NEW p \in Processes
    PROVE  /\ FindOutdated(p) => Active(p) /\ Moves(p, "upsert", Mine(p)) /\ OfCorpus(Current(p), Mine(p))
           /\ SaveSparse(p) => Active(p) /\ Moves(p, "audit", run[p].left)
           /\ SaveAudit(p) => Active(p) /\ Moves(p, "manifest", run[p].left)
           /\ SaveManifest(p) => Active(p) /\ Leaves(p)
           /\ SkipUnchanged(p) => Active(p) /\ Leaves(p)
           /\ Fail(p) => Active(p) /\ Leaves(p) /\ complete' = complete
           /\ RefuseCorpus(p) => Leaves(p) /\ complete' = complete
<1>1. Mine(p) \in Seq(AllChunks) /\ run[p].left \in Seq(AllChunks) /\ {"upsert", "audit", "manifest"} \subseteq Steps
  BY AtWork DEF Steps
<1>2. FindOutdated(p) => Active(p) /\ Moves(p, "upsert", Mine(p)) /\ OfCorpus(Current(p), Mine(p))
  <2>1. FindOutdated(p) => Active(p) /\ Goto(p, "upsert", Mine(p))
    BY DEF FindOutdated, Active, At
  <2> QED  BY <1>1, <2>1, GotoMoves DEF OwnInv
<1>3. SaveSparse(p) => Active(p) /\ Moves(p, "audit", run[p].left)
  BY <1>1, GotoMoves DEF SaveSparse, Active, At
<1>4. SaveAudit(p) => Active(p) /\ Moves(p, "manifest", run[p].left)
  BY <1>1, GotoMoves DEF SaveAudit, Active, At
<1>5. SaveManifest(p) => Active(p) /\ Leaves(p)
  BY NextCorpusLeaves DEF SaveManifest, Active, At
<1>6. SkipUnchanged(p) => Active(p) /\ Leaves(p)
  BY NextCorpusLeaves DEF SkipUnchanged, Active, At
<1>7. Fail(p) => Active(p) /\ Leaves(p) /\ complete' = complete
  BY GiveUpLeaves DEF Fail, Active, At
<1>8. RefuseCorpus(p) => Leaves(p) /\ complete' = complete
  BY GiveUpLeaves DEF RefuseCorpus, At
<1> QED  BY <1>2, <1>3, <1>4, <1>5, <1>6, <1>7, <1>8

LEMMA PreparingRests ==
    ASSUME TypeOK, NEW p \in Processes, NEW todo \in Seq(Corpus), todo # <<>>, NEW force \in BOOLEAN,
           run' = [run EXCEPT ![p] = Preparing(todo, force)]
    PROVE  /\ Rests(p) /\ run'[p].pc = "prepare" /\ run'[p].todo = todo
<1> DEFINE new == Preparing(todo, force)
<1>1. new \in RunType /\ new.pc = "prepare" /\ new.todo = todo
  BY DEF RunType, Preparing, Steps
<1>2. run \in [Processes -> RunType]
  BY DEF TypeOK
<1> HIDE DEF new
<1>3. run'[p] = new /\ (\A q \in Processes \ {p} : run'[q] = run[q]) /\ run' \in [Processes -> RunType]
  BY <1>1, <1>2 DEF new
<1> QED  BY <1>1, <1>3 DEF Rests

LEMMA IdleRests ==
    ASSUME TypeOK, NEW p \in Processes, run' = [run EXCEPT ![p] = Idle]
    PROVE  Rests(p) /\ run'[p].pc = "idle"
<1>1. Idle \in RunType /\ Idle.pc = "idle" /\ run \in [Processes -> RunType]
  BY DEF Idle, RunType, Steps, TypeOK
<1> QED  BY <1>1 DEF Rests

\* A process begins with its corpora, or stops.
LEMMA Starts ==
    ASSUME TypeOK
    PROVE  /\ \A call \in Calls : StartCli(call) => Rests(Cli)
           /\ StartServer => /\ Rests(Server)
                             /\ Corpora = <<>> => run'[Server].pc = "idle"
                             /\ Corpora # <<>> => run'[Server].pc = "prepare" /\ run'[Server].todo = Corpora
           /\ \A p \in Processes : Crash(p) => Rests(p) /\ run'[p].pc = "idle"
<1>1. Cli \in Processes /\ Server \in Processes /\ Corpora \in Seq(Corpus) /\ FALSE \in BOOLEAN
  BY IngestionAssumption DEF Processes
<1>2. ASSUME NEW call \in Calls, StartCli(call) PROVE Rests(Cli)
  <2>1. call.corpora \in Seq(Corpus) /\ call.corpora # <<>> /\ call.force \in BOOLEAN
    BY IngestionAssumption
  <2>2. run' = [run EXCEPT ![Cli] = Preparing(call.corpora, call.force)]
    BY <1>2 DEF StartCli
  <2> QED  BY <1>1, <2>1, <2>2, PreparingRests
<1>3. ASSUME StartServer PROVE /\ Rests(Server)
                               /\ Corpora = <<>> => run'[Server].pc = "idle"
                               /\ Corpora # <<>> => run'[Server].pc = "prepare" /\ run'[Server].todo = Corpora
  <2>1. CASE Corpora = <<>>
    <3>1. run' = [run EXCEPT ![Server] = Idle]
      BY <1>3, <2>1 DEF StartServer
    <3> QED  BY <1>1, <2>1, <3>1, IdleRests
  <2>2. CASE Corpora # <<>>
    <3>1. run' = [run EXCEPT ![Server] = Preparing(Corpora, FALSE)]
      BY <1>3, <2>2 DEF StartServer
    <3> QED  BY <1>1, <2>2, <3>1, PreparingRests
  <2> QED  BY <2>1, <2>2
<1>4. ASSUME NEW p \in Processes, Crash(p) PROVE Rests(p) /\ run'[p].pc = "idle"
  BY <1>4, IdleRests DEF Crash
<1> QED  BY <1>2, <1>3, <1>4

-----------------------------------------------------------------------------
(* Types, and what a run owns *)

\* The type of everything but the runs
DataOK ==
    /\ source \in [Corpus -> Seq(AllChunks)]
    /\ points \subseteq AllChunks
    /\ bm25 \in FileType /\ audit \in FileType /\ manifest \in FileType /\ cache \in FileType
    /\ {serving, complete} \subseteq BOOLEAN
    /\ warm \subseteq Models
    /\ early \subseteq Corpus
    /\ unfinished \in [Corpus -> SUBSET Seq(AllChunks)]
    /\ runs \in 0..MaxRuns /\ edits \in 0..MaxEdits /\ faults \in 0..MaxFaults

LEMMA DataAndRuns == (TypeOK <=> DataOK /\ RunsOK) /\ (DataOK' /\ RunsOK' => TypeOK')
<1> QED  BY DEF TypeOK, DataOK, RunsOK

LEMMA FileWritten ==
    ASSUME NEW f \in FileType, NEW c \in Corpus, NEW content \in Seq(AllChunks)
    PROVE  [f EXCEPT ![c] = content] \in FileType
<1> QED  BY DEF FileType

LEMMA BeginTyped ==
    ASSUME TypeOK, NEW p \in Processes, ~At(p, "idle"), Begin(p)
    PROVE  unfinished' \in [Corpus -> SUBSET Seq(AllChunks)]
<1>1. Current(p) \in Corpus /\ Mine(p) \in Seq(AllChunks)
  BY AtWork
<1>2. unfinished \in [Corpus -> SUBSET Seq(AllChunks)]
  BY DEF TypeOK
<1> QED  BY <1>1, <1>2 DEF Begin

LEMMA IngestData ==
    ASSUME TypeOK, OwnInv, NEW p \in Processes, Ingest(p)
    PROVE  DataOK' /\ IsFiniteSet(points') /\ source' = source
<1>1. DataOK /\ IsFiniteSet(points)
  BY DataAndRuns DEF OwnInv
<1>2. Current(p) \in Corpus /\ Mine(p) \in Seq(AllChunks)
  <2>1. ~At(p, "idle")
    BY DEF Ingest, PrepareCorpus, RefuseCorpus, SkipUnchanged, FindOutdated, Upsert, ScrollStale,
           DeleteStale, SaveSparse, SaveAudit, SaveManifest, At
  <2> QED  BY <2>1, AtWork
<1>3. CASE PrepareCorpus(p) \/ FindOutdated(p) \/ ScrollStale(p)
  BY <1>1, <1>3 DEF PrepareCorpus, FindOutdated, ScrollStale, OnlyRun, stores, app, bounds, DataOK
<1>4. CASE RefuseCorpus(p)
  BY <1>1, <1>4, OtherMoves DEF RefuseCorpus, stores, bounds, DataOK
<1>5. CASE SkipUnchanged(p)
  <2>1. complete' \in BOOLEAN
    BY <1>5, NextCorpusLeaves DEF SkipUnchanged, At
  <2> QED  BY <1>1, <1>5, <2>1 DEF SkipUnchanged, stores, bounds, DataOK
<1>6. CASE Upsert(p)
  <2>1. unfinished' \in [Corpus -> SUBSET Seq(AllChunks)]
    BY <1>6, BeginTyped DEF Upsert, At
  <2>2. points' \subseteq AllChunks /\ IsFiniteSet(points')
    BY <1>6, UpsertMoves
  <2> QED  BY <1>1, <1>6, <2>1, <2>2 DEF Upsert, app, bounds, DataOK
<1>7. CASE DeleteStale(p)
  <2>1. unfinished' \in [Corpus -> SUBSET Seq(AllChunks)]
    BY <1>7, BeginTyped DEF DeleteStale, At
  <2>2. points' \subseteq AllChunks /\ IsFiniteSet(points')
    BY <1>7, DeleteStaleMoves
  <2> QED  BY <1>1, <1>7, <2>1, <2>2 DEF DeleteStale, app, bounds, DataOK
<1>8. CASE SaveSparse(p)
  <2>1. unfinished' \in [Corpus -> SUBSET Seq(AllChunks)]
    BY <1>8, BeginTyped DEF SaveSparse, At
  <2>2. bm25' \in FileType /\ early' \subseteq Corpus
    BY <1>1, <1>2, <1>8, FileWritten DEF SaveSparse, DataOK
  <2> QED  BY <1>1, <1>8, <2>1, <2>2 DEF SaveSparse, bounds, DataOK
<1>9. CASE SaveAudit(p)
  <2>1. unfinished' \in [Corpus -> SUBSET Seq(AllChunks)]
    BY <1>9, BeginTyped DEF SaveAudit, At
  <2>2. audit' \in FileType
    BY <1>1, <1>2, <1>9, FileWritten DEF SaveAudit, DataOK
  <2> QED  BY <1>1, <1>9, <2>1, <2>2 DEF SaveAudit, app, bounds, DataOK
<1>10. CASE SaveManifest(p)
  <2>1. unfinished' \in [Corpus -> SUBSET Seq(AllChunks)]
    BY <1>1, <1>2, <1>10 DEF SaveManifest, DataOK
  <2>2. manifest' \in FileType
    BY <1>1, <1>2, <1>10, FileWritten DEF SaveManifest, DataOK
  <2>3. complete' \in BOOLEAN
    BY <1>10, NextCorpusLeaves DEF SaveManifest, At
  <2> QED  BY <1>1, <1>10, <2>1, <2>2, <2>3 DEF SaveManifest, bounds, DataOK
<1> QED  BY <1>3, <1>4, <1>5, <1>6, <1>7, <1>8, <1>9, <1>10 DEF Ingest

\* What Ingest does to the runs
LEMMA IngestRuns ==
    ASSUME TypeOK, OwnInv, NEW p \in Processes, Ingest(p)
    PROVE  /\ RunsOK'
           /\ \A q \in Processes : OwnStep(q)
<1>1. \/ Rests(p)
      \/ Prepared(p)
      \/ Active(p) /\ \E pc, left : /\ Moves(p, pc, left)
                                    /\ pc \in {"upsert", "delete"} => OfCorpus(Current(p), left)
  <2>1. CASE PrepareCorpus(p)
    BY <2>1, PrepareIsPrepared
  <2>2. CASE RefuseCorpus(p) \/ SkipUnchanged(p) \/ SaveManifest(p)
    BY <2>2, OtherMoves DEF Leaves
  <2>3. CASE FindOutdated(p)
    BY <2>3, OtherMoves
  <2>4. CASE SaveSparse(p) \/ SaveAudit(p)
    BY <2>4, OtherMoves
  <2>5. CASE Upsert(p)
    BY <2>5, UpsertMoves
  <2>6. CASE DeleteStale(p)
    BY <2>6, DeleteStaleMoves
  <2>7. CASE ScrollStale(p)
    BY <2>7, ScrollMoves
  <2> QED  BY <2>1, <2>2, <2>3, <2>4, <2>5, <2>6, <2>7 DEF Ingest
<1>2. Active(p) => ~At(p, "idle")
  BY DEF Active, At
<1>3. RunsOK'
  BY <1>1, <1>2, RunsKept
<1>4. \A q \in Processes : OwnStep(q)
  BY <1>1, OwnSteps
<1> QED  BY <1>3, <1>4

\* One more of what is bounded
LEMMA Counted == ASSUME NEW max \in Nat, NEW n \in 0..max, n < max PROVE n + 1 \in 0..max
<1> QED  OBVIOUS

LEMMA OthersData ==
    ASSUME TypeOK,
           \/ \E p \in Processes : Fail(p) \/ Crash(p)
           \/ \E call \in Calls : StartCli(call)
           \/ StartServer
           \/ \E model \in Models : WarmUp(model)
           \/ \E c \in Corpus : LoadIndex(c)
    PROVE  DataOK' /\ points' = points /\ source' = source
<1>1. DataOK /\ MaxRuns \in Nat /\ MaxFaults \in Nat
  BY DataAndRuns, IngestionAssumption
<1>2. ASSUME NEW p \in Processes, Fail(p) PROVE DataOK' /\ points' = points /\ source' = source
  <2>1. complete' = complete
    BY <1>2, GiveUpLeaves DEF Fail, At
  <2>2. faults' \in 0..MaxFaults
    BY <1>1, <1>2, Counted DEF Fail, DataOK
  <2> QED  BY <1>1, <1>2, <2>1, <2>2 DEF Fail, stores, DataOK
<1>3. ASSUME NEW p \in Processes, Crash(p) PROVE DataOK' /\ points' = points /\ source' = source
  <2>1. faults' \in 0..MaxFaults
    BY <1>1, <1>3, Counted DEF Crash, DataOK
  <2>2. CASE p = Server
    BY <1>1, <1>3, <2>1, <2>2 DEF Crash, stores, DataOK, FileType
  <2>3. CASE p # Server
    BY <1>1, <1>3, <2>1, <2>3 DEF Crash, stores, app, DataOK
  <2> QED  BY <2>2, <2>3
<1>4. ASSUME NEW call \in Calls, StartCli(call) PROVE DataOK' /\ points' = points /\ source' = source
  <2>1. runs' \in 0..MaxRuns
    BY <1>1, <1>4, Counted DEF StartCli, DataOK
  <2> QED  BY <1>1, <1>4, <2>1 DEF StartCli, stores, app, DataOK
<1>5. ASSUME StartServer PROVE DataOK' /\ points' = points /\ source' = source
  <2>1. runs' \in 0..MaxRuns
    BY <1>1, <1>5, Counted DEF StartServer, DataOK
  <2> QED  BY <1>1, <1>5, <2>1 DEF StartServer, stores, DataOK
<1>6. ASSUME NEW model \in Models, WarmUp(model) PROVE DataOK' /\ points' = points /\ source' = source
  BY <1>1, <1>6 DEF WarmUp, stores, bounds, DataOK
<1>7. ASSUME NEW c \in Corpus, LoadIndex(c) PROVE DataOK' /\ points' = points /\ source' = source
  <2>1. bm25[c] \in Seq(AllChunks)
    BY <1>1, <1>7 DEF LoadIndex, DataOK, FileType
  <2>2. cache' \in FileType
    BY <1>1, <1>7, <2>1, FileWritten DEF LoadIndex, DataOK
  <2>3. early' \subseteq Corpus
    BY <1>1, <1>7 DEF LoadIndex, DataOK
  <2> QED  BY <1>1, <1>7, <2>2, <2>3 DEF LoadIndex, stores, bounds, DataOK
<1> QED  BY <1>2, <1>3, <1>4, <1>5, <1>6, <1>7

LEMMA BaseKept ==
    ASSUME TypeOK, OwnInv, [Next]_vars
    PROVE  TypeOK' /\ OwnInv'
<1>1. Server \in Processes /\ Cli \in Processes /\ MaxEdits \in Nat
  BY IngestionAssumption DEF Processes
<1>2. ASSUME NEW p \in Processes, Ingest(p) PROVE TypeOK' /\ OwnInv'
  BY <1>2, IngestData, IngestRuns, OwnKept, DataAndRuns
<1>3. ASSUME DataOK', points' = points, source' = source,
             run' = run \/ \E p \in Processes : Rests(p)
      PROVE  TypeOK' /\ OwnInv'
  <2>1. RunsOK'
    BY <1>1, <1>3, RunsKept
  <2>2. \A q \in Processes : OwnStep(q)
    BY <1>1, <1>3, OwnSteps
  <2>3. IsFiniteSet(points')
    BY <1>3 DEF OwnInv
  <2> QED  BY <1>3, <2>1, <2>2, <2>3, OwnKept, DataAndRuns
<1>4. ASSUME NEW p \in Processes, Fail(p) \/ Crash(p) PROVE TypeOK' /\ OwnInv'
  <2>1. Rests(p)
    BY <1>4, OtherMoves, Starts DEF Leaves
  <2> QED  BY <1>3, <1>4, <2>1, OthersData
<1>5. ASSUME NEW call \in Calls, StartCli(call) PROVE TypeOK' /\ OwnInv'
  BY <1>1, <1>3, <1>5, OthersData, Starts
<1>6. CASE StartServer
  BY <1>1, <1>3, <1>6, OthersData, Starts
<1>7. ASSUME NEW model \in Models, WarmUp(model) PROVE TypeOK' /\ OwnInv'
  <2>1. run' = run
    BY <1>7 DEF WarmUp
  <2> QED  BY <1>3, <1>7, <2>1, OthersData
<1>8. ASSUME NEW c \in Corpus, LoadIndex(c) PROVE TypeOK' /\ OwnInv'
  <2>1. run' = run
    BY <1>8 DEF LoadIndex
  <2> QED  BY <1>3, <1>8, <2>1, OthersData
<1>9. ASSUME NEW c \in Corpus, NEW s \in Sources[c], Edit(c, s) PROVE TypeOK' /\ OwnInv'
  <2>1. Prepare(c, s) \in Seq(AllChunks) /\ OfCorpus(c, Prepare(c, s))
    BY PrepareGives DEF OfCorpus
  <2>2. source' = [source EXCEPT ![c] = Prepare(c, s)]
    BY <1>9 DEF Edit
  <2>3. source' \in [Corpus -> Seq(AllChunks)] /\ \A d \in Corpus : OfCorpus(d, source'[d])
    BY <2>1, <2>2 DEF TypeOK, OwnInv
  <2>4. edits' \in 0..MaxEdits
    BY <1>1, <1>9, Counted DEF Edit, TypeOK
  <2>5. UNCHANGED <<stores, run, app, unfinished, runs, faults>>
    BY <1>9 DEF Edit
  <2>6. TypeOK'
    <3>1. DataOK /\ RunsOK
      BY DataAndRuns
    <3>2. DataOK'
      BY <2>3, <2>4, <2>5, <3>1 DEF DataOK, stores, app
    <3>3. RunsOK'
      BY <2>5, <3>1 DEF RunsOK
    <3> QED  BY <3>2, <3>3, DataAndRuns
  <2>7. OwnInv'
    BY <2>3, <2>5 DEF OwnInv, Active, Mine, Current, OfCorpus, stores
  <2> QED  BY <2>6, <2>7
<1>10. CASE UNCHANGED vars
  <2>1. TypeOK'
    BY <1>10 DEF TypeOK, vars, stores, app, bounds
  <2>2. OwnInv'
    BY <1>10 DEF OwnInv, Active, Mine, Current, OfCorpus, vars, stores
  <2> QED  BY <2>1, <2>2
<1> QED  BY <1>2, <1>4, <1>5, <1>6, <1>7, <1>8, <1>9, <1>10 DEF Next

-----------------------------------------------------------------------------
(* Runs that share a corpus *)

\* The run is where it was; at most it is no longer alone.
Stays(q) ==
    /\ run'[q].pc = run[q].pc /\ run'[q].todo = run[q].todo
    /\ run'[q].chunks = run[q].chunks /\ run'[q].left = run[q].left
    /\ run'[q].alone => run[q].alone

\* What a run that is at work with content does to the stores of c: all it may
\* add is of the content, and it deletes nothing of that.
Serves(content, c) ==
    /\ PointsOf(c)' \subseteq PointsOf(c) \cup ToSet(content)
    /\ PointsOf(c) \cap ToSet(content) \subseteq PointsOf(c)'
    /\ bm25'[c] \in {bm25[c], content} /\ audit'[c] \in {audit[c], content}
    /\ manifest'[c] \in {manifest[c], content}

Untouched(c) ==
    /\ PointsOf(c)' = PointsOf(c)
    /\ bm25'[c] = bm25[c] /\ audit'[c] = audit[c] /\ manifest'[c] = manifest[c]
    /\ unfinished'[c] = unfinished[c]

\* All four stores hold the content after the step.
Stored(content, c) ==
    /\ PointsOf(c)' = ToSet(content)
    /\ bm25'[c] = content /\ audit'[c] = content /\ manifest'[c] = content

\* It says that it has begun with its content, or has come to the end alone.
Begun(p, c) ==
    \/ unfinished'[c] = unfinished[c] \cup {Mine(p)}
    \/ run[p].alone /\ Stored(Mine(p), c)

DataStep(p) ==
    \A c \in Corpus : /\ Current(p) = c => Serves(Mine(p), c) /\ Begun(p, c)
                      /\ Current(p) # c => Untouched(c)

LEMMA OthersStay ==
    ASSUME NEW p \in Processes,
           run' = run \/ Rests(p) \/ Prepared(p) \/ \E pc, left : Moves(p, pc, left)
    PROVE  \A q \in Processes \ {p} : Stays(q)
<1>1. CASE run' = run
  BY <1>1 DEF Stays
<1>2. CASE Rests(p)
  BY <1>2 DEF Stays, Rests
<1>3. CASE Prepared(p)
  BY <1>3 DEF Stays, Prepared
<1>4. CASE \E pc, left : Moves(p, pc, left)
  BY <1>4 DEF Stays, Moves
<1> QED  BY <1>1, <1>2, <1>3, <1>4

\* What a run has reached stays so under what serves its content.
LEMMA ReachedKept ==
    ASSUME OwnInv, NEW q \in Processes, NEW c \in Corpus, Works(q, c), Stays(q), Reached(q, c),
           Serves(Mine(q), c)
    PROVE  Reached(q, c)'
<1> DEFINE own == ToSet(Mine(q))
           here == PointsOf(c)
           there == PointsOf(c)'
           left == ToSet(run[q].left)
<1>1. \A chunk \in own : chunk.corpus = c
  BY DEF OwnInv, OfCorpus, Works
<1>2. own \cap points \subseteq here
  BY <1>1 DEF PointsOf
<1>3. there \subseteq points'
  BY DEF PointsOf
<1>4. there \subseteq here \cup own /\ here \cap own \subseteq there
  BY DEF Serves
<1>5. own \cap points \subseteq points'
  BY <1>2, <1>3, <1>4
<1>6. ToSet(run'[q].chunks) = own /\ ToSet(run'[q].left) = left
  BY DEF Stays, Mine
<1>7. run[q].pc = "upsert" => own \subseteq points' \cup left
  BY <1>5 DEF Reached, At
<1>8. run[q].pc # "count" /\ run[q].pc # "upsert" => own \subseteq points'
  BY <1>5 DEF Reached, At
<1>9. run[q].pc = "delete" => there \subseteq own \cup left
  BY <1>4 DEF Reached, At
<1>10. run[q].pc \in {"sparse", "audit", "manifest"} => there = own
  BY <1>4 DEF Reached
<1>11. /\ run[q].pc \in {"audit", "manifest"} => bm25'[c] = Mine(q)
       /\ run[q].pc = "count" => manifest'[c] = Mine(q)
  BY DEF Reached, Serves, At
<1>12. run[q].pc = "manifest" => audit'[c] = Mine(q)
  BY DEF Reached, Serves, At
<1>13. run'[q].pc = run[q].pc /\ run'[q].chunks = Mine(q)
  BY DEF Stays, Mine
<1> HIDE DEF own, here, left
<1>14. Mine(q)' = Mine(q) /\ ToSet(Mine(q))' = own /\ ToSet(run[q].left)' = left
  BY <1>6, <1>13 DEF Mine
<1> QED  BY <1>7, <1>8, <1>9, <1>10, <1>11, <1>12, <1>13, <1>14 DEF Reached, At

\* Where all stores hold a run's content, it has reached all there is to reach.
LEMMA StoredIsReached ==
    ASSUME NEW q \in Processes, NEW c \in Corpus, Stays(q), Stored(Mine(q), c)
    PROVE  Reached(q, c)'
<1>1. Mine(q)' = Mine(q)
  BY DEF Stays, Mine
<1>2. ToSet(Mine(q))' = ToSet(Mine(q))
  BY <1>1
<1>3. PointsOf(c)' \subseteq points'
  BY DEF PointsOf
<1> QED  BY <1>1, <1>2, <1>3 DEF Stored, Reached

\* Whoever else works on the corpus and is not disturbed works on the same content,
\* so that what one run does serves the others.
LEMMA OthersReach ==
    ASSUME OwnInv, AgreeInv, StageInv, NEW p \in Processes, NEW q \in Processes, NEW c \in Corpus,
           Stays(q), Works(q, c)', Undisturbed(q, c)',
           (Active(p) /\ DataStep(p)) \/ Untouched(c)
    PROVE  Reached(q, c)'
<1>1. Works(q, c) /\ Mine(q)' = Mine(q) /\ (run'[q].alone => run[q].alone)
  BY DEF Works, Active, Current, Stays, Mine
<1>2. run'[q].alone \/ unfinished'[c] \subseteq {Mine(q)}
  BY <1>1 DEF Undisturbed
<1>3. CASE Untouched(c)
  <2>1. Reached(q, c)
    BY <1>1, <1>2, <1>3 DEF StageInv, Undisturbed, Untouched
  <2>2. Serves(Mine(q), c)
    BY <1>3 DEF Untouched, Serves
  <2> QED  BY <1>1, <2>1, <2>2, ReachedKept
<1>4. CASE Active(p) /\ DataStep(p) /\ Current(p) = c
  <2>1. Works(p, c) /\ Serves(Mine(p), c) /\ Begun(p, c)
    BY <1>4 DEF Works, DataStep
  <2>2. run[p].alone \/ run[q].alone => Mine(q) = Mine(p)
    BY <1>1, <2>1 DEF AgreeInv
  <2>3. CASE unfinished'[c] = unfinished[c] \cup {Mine(p)}
    <3>1. Mine(q) = Mine(p) /\ Undisturbed(q, c)
      BY <1>1, <1>2, <2>2, <2>3 DEF Undisturbed
    <3>2. Reached(q, c)
      BY <1>1, <3>1 DEF StageInv
    <3> QED  BY <1>1, <2>1, <3>1, <3>2, ReachedKept
  <2>4. CASE run[p].alone /\ Stored(Mine(p), c)
    <3>1. Stored(Mine(q), c)
      BY <2>2, <2>4
    <3> QED  BY <3>1, StoredIsReached
  <2> QED  BY <2>1, <2>3, <2>4 DEF Begun
<1>5. CASE DataStep(p) /\ Current(p) # c
  <2>1. Untouched(c)
    BY <1>5 DEF DataStep
  <2> QED  BY <1>3, <2>1
<1> QED  BY <1>3, <1>4, <1>5

\* Runs agree as long as none reads another content.
Keeps(r) ==
    \/ run'[r].pc \in {"idle", "prepare"}
    \/ /\ Active(r) /\ run'[r].todo = run[r].todo /\ run'[r].chunks = run[r].chunks
       /\ run'[r].alone => run[r].alone

LEMMA AgreeKept ==
    ASSUME AgreeInv, \A r \in Processes : Keeps(r)
    PROVE  AgreeInv'
<1> SUFFICES ASSUME NEW p \in Processes, NEW q \in Processes, NEW c \in Corpus,
                    Works(p, c)', Works(q, c)', run'[p].alone
             PROVE  Mine(p)' = Mine(q)'
  BY DEF AgreeInv
<1>1. Keeps(p) /\ Keeps(q)
  OBVIOUS
<1>2. /\ Works(p, c) /\ run[p].alone /\ run'[p].chunks = run[p].chunks
      /\ Works(q, c) /\ run'[q].chunks = run[q].chunks
  BY <1>1 DEF Keeps, Works, Active, Current
<1>3. Mine(p) = Mine(q)
  BY <1>2 DEF AgreeInv
<1> QED  BY <1>2, <1>3 DEF Mine

LEMMA AgreePrepared ==
    ASSUME AgreeInv, NEW r \in Processes, Prepared(r)
    PROVE  AgreeInv'
<1> SUFFICES ASSUME NEW p \in Processes, NEW q \in Processes, NEW c \in Corpus,
                    Works(p, c)', Works(q, c)', run'[p].alone
             PROVE  run'[p].chunks = run'[q].chunks
  BY DEF AgreeInv, Mine
<1>1. \A o \in Processes \ {r} : Works(o, c)' => /\ Works(o, c) /\ run'[o].chunks = Mine(o)
                                                 /\ run'[o].alone => run[o].alone
  BY DEF Prepared, Works, Active, Current, Mine
<1>2. Works(r, c)' => c = Current(r) /\ run'[r].chunks = source[c]
  BY DEF Prepared, Works, Current
<1>3. CASE p = r /\ q = r
  BY <1>3
<1>4. CASE p = r /\ q # r
  <2>1. Works(q, Current(r)) /\ run'[r].alone
    BY <1>1, <1>2, <1>4
  <2>2. Mine(q) = source[Current(r)]
    BY <1>4, <2>1 DEF Prepared
  <2> QED  BY <1>1, <1>2, <1>4, <2>2
<1>5. CASE p # r /\ q = r
  <2>1. Works(p, Current(r)) /\ run'[p].alone
    BY <1>1, <1>2, <1>5
  <2>2. Mine(p) = source[Current(r)]
    BY <1>5, <2>1 DEF Prepared
  <2> QED  BY <1>1, <1>2, <1>5, <2>2
<1>6. CASE p # r /\ q # r
  <2>1. Mine(p) = Mine(q)
    BY <1>1, <1>6 DEF AgreeInv
  <2> QED  BY <1>1, <1>6, <2>1
<1> QED  BY <1>3, <1>4, <1>5, <1>6

\* What the run itself is left with: nothing yet, or a step of its work.
LeftStep(p) ==
    /\ run'[p].pc = "upsert" => ToSet(run'[p].left) \subseteq ToSet(run'[p].chunks)
    /\ run'[p].pc = "delete" => ToSet(run'[p].left) \cap ToSet(run'[p].chunks) = {}

LEMMA LeftKept ==
    ASSUME LeftInv, \A p \in Processes : Stays(p) \/ LeftStep(p)
    PROVE  LeftInv'
<1> SUFFICES ASSUME NEW p \in Processes PROVE LeftStep(p)
  BY DEF LeftInv, LeftStep, At, Mine
<1>1. CASE Stays(p)
  BY <1>1 DEF LeftInv, LeftStep, Stays, At, Mine
<1> QED  BY <1>1

\* Points of other corpora stay out of it.
LEMMA OtherPoints ==
    ASSUME NEW c, NEW d, c # d, NEW batch, \A chunk \in batch : chunk.corpus = d
    PROVE  /\ points' = points \cup batch => PointsOf(c)' = PointsOf(c)
           /\ points' = points \ batch => PointsOf(c)' = PointsOf(c)
<1> QED  BY DEF PointsOf

LEMMA OwnPoints ==
    ASSUME NEW c, NEW batch, \A chunk \in batch : chunk.corpus = c
    PROVE  /\ points' = points \cup batch => PointsOf(c)' = PointsOf(c) \cup batch
           /\ points' = points \ batch => PointsOf(c)' = PointsOf(c) \ batch
<1> QED  BY DEF PointsOf

LEMMA SamePoints == ASSUME NEW c, points' = points PROVE PointsOf(c)' = PointsOf(c)
<1> QED  BY DEF PointsOf

\* A file written for one corpus is another's as it was.
LEMMA OtherFiles ==
    ASSUME NEW f, NEW c, NEW d, c # d, NEW x
    PROVE  [f EXCEPT ![d] = x][c] = f[c]
<1> QED  OBVIOUS

\* What begins with the content is not disturbed by it.
LEMMA BeginMarks ==
    ASSUME TypeOK, NEW p \in Processes, NEW c \in Corpus, Current(p) = c, Begin(p)
    PROVE  unfinished'[c] = unfinished[c] \cup {Mine(p)} /\ Begun(p, c)
<1> QED  BY DEF TypeOK, Begin, Begun

LEMMA UndisturbedBefore ==
    ASSUME NEW p \in Processes, NEW c \in Corpus,
           run'[p].chunks = Mine(p), run'[p].alone = run[p].alone,
           unfinished'[c] = unfinished[c] \/ unfinished'[c] = unfinished[c] \cup {Mine(p)},
           Undisturbed(p, c)'
    PROVE  Undisturbed(p, c)
<1>1. run[p].alone \/ unfinished'[c] \subseteq {Mine(p)}
  BY DEF Undisturbed, Mine
<1> QED  BY <1>1 DEF Undisturbed

\* Beginning again with what is committed leaves it committed.
LEMMA BegunAgrees ==
    ASSUME NEW p \in Processes, NEW c \in Corpus, Mine(p) # None, AgreesOn(c), Serves(Mine(p), c),
           manifest'[c] = manifest[c], unfinished'[c] = unfinished[c] \cup {Mine(p)}
    PROVE  AgreesOn(c)'
<1> SUFFICES ASSUME unfinished'[c] \subseteq {manifest[c]}
             PROVE  Stored(manifest[c], c) /\ manifest[c] # None
  BY DEF AgreesOn, Stored, Holds
<1>1. manifest[c] = Mine(p) /\ unfinished[c] \subseteq {manifest[c]}
  OBVIOUS
<1>2. Holds(c, manifest[c])
  BY <1>1 DEF AgreesOn
<1>3. PointsOf(c) = ToSet(Mine(p))
  BY <1>1, <1>2 DEF Holds
<1>4. PointsOf(c)' = ToSet(Mine(p))
  BY <1>3 DEF Serves
<1> QED  BY <1>1, <1>2, <1>4 DEF Stored, Holds, Serves

\* Upserting: every chunk is in the collection, or left to be upserted.
LEMMA UpsertStores ==
    ASSUME TypeOK, OwnInv, StoresInv, NEW p \in Processes, Upsert(p), NEW c \in Corpus, Current(p) = c
    PROVE  /\ DataStep(p) /\ LeftStep(p)
           /\ Undisturbed(p, c)' => Reached(p, c)'
<1> DEFINE first == ToSet(FirstBatch(run[p].left))
           rest == AfterBatch(run[p].left)
           pc == IF rest = <<>> THEN "scroll" ELSE "upsert"
<1>1. /\ Active(p) /\ Moves(p, pc, rest) /\ ToSet(run[p].left) = first \cup ToSet(rest)
      /\ points' = points \cup first /\ \A chunk \in first : chunk.corpus = c
  BY UpsertMoves
<1>2. At(p, "upsert") /\ UNCHANGED <<bm25, audit, manifest>> /\ Begin(p)
  BY DEF Upsert
<1> HIDE DEF first, rest
<1>4. ToSet(run[p].left) \subseteq ToSet(Mine(p))
  BY <1>2 DEF StoresInv, LeftInv
<1>5. PointsOf(c)' = PointsOf(c) \cup first
  BY <1>1, OwnPoints
<1>6. Serves(Mine(p), c) /\ Begun(p, c)
  BY <1>1, <1>2, <1>4, <1>5, BeginMarks DEF Serves
<1>7. ASSUME NEW d \in Corpus \ {c} PROVE Untouched(d)
  <2>1. PointsOf(d)' = PointsOf(d)
    BY <1>1, <1>7, OtherPoints
  <2>2. unfinished'[d] = unfinished[d]
    BY <1>2, <1>7, OtherFiles DEF Begin
  <2> QED  BY <1>2, <2>1, <2>2 DEF Untouched
<1>8. /\ run'[p].pc = pc /\ run'[p].left = rest /\ run'[p].chunks = Mine(p) /\ run'[p].alone = run[p].alone
      /\ run'[p].todo = run[p].todo
  BY <1>1 DEF Moves, Mine
<1>9. LeftStep(p)
  BY <1>1, <1>4, <1>8 DEF LeftStep
<1>10. ASSUME Undisturbed(p, c)' PROVE Reached(p, c)'
  <2>1. Works(p, c) /\ Undisturbed(p, c)
    BY <1>1, <1>2, <1>8, <1>10, BeginMarks, UndisturbedBefore DEF Works
  <2>2. ToSet(Mine(p)) \subseteq points \cup ToSet(run[p].left)
    BY <1>2, <2>1 DEF StoresInv, StageInv, Reached
  <2>3. ToSet(Mine(p)) \subseteq points' \cup ToSet(rest)
    BY <1>1, <2>2
  <2>4. rest = <<>> => ToSet(Mine(p)) \subseteq points'
    BY <2>3, EmptyIsEmpty
  <2> QED  BY <1>8, <2>3, <2>4 DEF Reached, At, Mine
<1> QED  BY <1>6, <1>7, <1>9, <1>10 DEF DataStep

\* Deleting: what the corpus has beyond the content is left to be deleted.
LEMMA DeleteStores ==
    ASSUME TypeOK, OwnInv, StoresInv, NEW p \in Processes, DeleteStale(p), NEW c \in Corpus, Current(p) = c
    PROVE  /\ DataStep(p) /\ LeftStep(p)
           /\ Undisturbed(p, c)' => Reached(p, c)'
<1> DEFINE first == ToSet(FirstBatch(run[p].left))
           rest == AfterBatch(run[p].left)
           pc == IF rest = <<>> THEN "sparse" ELSE "delete"
<1>1. /\ Active(p) /\ Moves(p, pc, rest) /\ ToSet(run[p].left) = first \cup ToSet(rest)
      /\ points' = points \ first /\ \A chunk \in first : chunk.corpus = c
  BY DeleteStaleMoves
<1>2. At(p, "delete") /\ UNCHANGED <<bm25, audit, manifest>> /\ Begin(p)
  BY DEF DeleteStale
<1> HIDE DEF first, rest
<1>4. ToSet(run[p].left) \cap ToSet(Mine(p)) = {}
  BY <1>2 DEF StoresInv, LeftInv
<1>5. PointsOf(c)' = PointsOf(c) \ first
  BY <1>1, OwnPoints
<1>6. Serves(Mine(p), c) /\ Begun(p, c)
  BY <1>1, <1>2, <1>4, <1>5, BeginMarks DEF Serves
<1>7. ASSUME NEW d \in Corpus \ {c} PROVE Untouched(d)
  <2>1. PointsOf(d)' = PointsOf(d)
    BY <1>1, <1>7, OtherPoints
  <2>2. unfinished'[d] = unfinished[d]
    BY <1>2, <1>7, OtherFiles DEF Begin
  <2> QED  BY <1>2, <2>1, <2>2 DEF Untouched
<1>8. /\ run'[p].pc = pc /\ run'[p].left = rest /\ run'[p].chunks = Mine(p) /\ run'[p].alone = run[p].alone
      /\ run'[p].todo = run[p].todo
  BY <1>1 DEF Moves, Mine
<1>9. LeftStep(p)
  BY <1>1, <1>4, <1>8 DEF LeftStep
<1>10. ASSUME Undisturbed(p, c)' PROVE Reached(p, c)'
  <2>1. Works(p, c) /\ Undisturbed(p, c)
    BY <1>1, <1>2, <1>8, <1>10, BeginMarks, UndisturbedBefore DEF Works
  <2>2. ToSet(Mine(p)) \subseteq points /\ PointsOf(c) \subseteq ToSet(Mine(p)) \cup ToSet(run[p].left)
    BY <1>2, <2>1 DEF StoresInv, StageInv, Reached, At
  <2>3. ToSet(Mine(p)) \subseteq points' /\ PointsOf(c)' \subseteq ToSet(Mine(p)) \cup ToSet(rest)
    BY <1>1, <1>4, <1>5, <2>2
  <2>4. \A chunk \in ToSet(Mine(p)) : chunk.corpus = c
    BY <1>1 DEF OwnInv, OfCorpus
  <2>5. ToSet(Mine(p)) \subseteq PointsOf(c)'
    BY <2>3, <2>4 DEF PointsOf
  <2>6. rest = <<>> => PointsOf(c)' = ToSet(Mine(p))
    BY <2>3, <2>5, EmptyIsEmpty
  <2>7. Mine(p)' = Mine(p) /\ run[p].left' = rest /\ run'[p].pc = pc
    BY <1>8 DEF Mine
  <2>8. ToSet(Mine(p))' = ToSet(Mine(p)) /\ ToSet(run[p].left)' = ToSet(rest)
    BY <2>7
  <2> QED  BY <2>3, <2>6, <2>7, <2>8 DEF Reached, At
<1> QED  BY <1>6, <1>7, <1>9, <1>10 DEF DataStep

\* The scroll finds all that is to be deleted.
LEMMA ScrollStores ==
    ASSUME TypeOK, OwnInv, StoresInv, NEW p \in Processes, ScrollStale(p), NEW c \in Corpus, Current(p) = c
    PROVE  /\ LeftStep(p)
           /\ Undisturbed(p, c)' => Reached(p, c)'
<1>1. PICK s \in Seq(AllChunks) : /\ Moves(p, IF s = <<>> THEN "sparse" ELSE "delete", s)
                                  /\ ToSet(s) = PointsOf(c) \ ToSet(Mine(p))
  BY ScrollMoves
<1> DEFINE pc == IF s = <<>> THEN "sparse" ELSE "delete"
<1>2. Active(p) /\ At(p, "scroll") /\ points' = points
  BY ScrollMoves DEF ScrollStale, OnlyRun, stores
<1>3. /\ run'[p].pc = pc /\ run'[p].left = s /\ run'[p].chunks = Mine(p) /\ run'[p].alone = run[p].alone
  BY <1>1 DEF Moves, Mine
<1>4. LeftStep(p)
  BY <1>1, <1>3 DEF LeftStep
<1>5. ASSUME Undisturbed(p, c)' PROVE Reached(p, c)'
  <2>1. Works(p, c) /\ Undisturbed(p, c)
    BY <1>2, <1>3, <1>5, UndisturbedBefore DEF Works, ScrollStale, OnlyRun
  <2>2. ToSet(Mine(p)) \subseteq points
    BY <1>2, <2>1 DEF StoresInv, StageInv, Reached, At
  <2>3. \A chunk \in ToSet(Mine(p)) : chunk.corpus = c
    BY <1>2 DEF OwnInv, OfCorpus
  <2>4. ToSet(Mine(p)) \subseteq PointsOf(c)
    BY <2>2, <2>3 DEF PointsOf
  <2>5. PointsOf(c)' = PointsOf(c)
    BY <1>2, SamePoints
  <2>6. s = <<>> => PointsOf(c) = ToSet(Mine(p))
    BY <1>1, <2>4, EmptyIsEmpty
  <2>7. PointsOf(c) \subseteq ToSet(Mine(p)) \cup ToSet(s)
    BY <1>1
  <2>8. Mine(p)' = Mine(p) /\ run[p].left' = s /\ run'[p].pc = pc
    BY <1>3 DEF Mine
  <2>9. ToSet(Mine(p))' = ToSet(Mine(p)) /\ ToSet(run[p].left)' = ToSet(s)
    BY <2>8
  <2> QED  BY <1>2, <2>2, <2>5, <2>6, <2>7, <2>8, <2>9 DEF Reached, At
<1> QED  BY <1>4, <1>5

\* The three files in their order
LEMMA SparseStores ==
    ASSUME TypeOK, OwnInv, StoresInv, NEW p \in Processes, SaveSparse(p), NEW c \in Corpus, Current(p) = c
    PROVE  /\ DataStep(p) /\ LeftStep(p)
           /\ Undisturbed(p, c)' => Reached(p, c)'
<1>1. At(p, "sparse") /\ Active(p) /\ Moves(p, "audit", run[p].left) /\ UNCHANGED <<points, audit, manifest>>
  BY OtherMoves DEF SaveSparse
<1>2. bm25' = [bm25 EXCEPT ![c] = Mine(p)] /\ unfinished' = [unfinished EXCEPT ![c] = @ \cup {Mine(p)}]
  BY DEF SaveSparse, Begin
<1>3. bm25'[c] = Mine(p)
  BY <1>2 DEF TypeOK, FileType
<1>4. \A d \in Corpus : PointsOf(d)' = PointsOf(d)
  BY <1>1, SamePoints
<1>9. unfinished'[c] = unfinished[c] \cup {Mine(p)} /\ Begun(p, c)
  BY BeginMarks DEF SaveSparse
<1>5. Serves(Mine(p), c) /\ Begun(p, c)
  BY <1>1, <1>3, <1>4, <1>9 DEF Serves
<1>6. ASSUME NEW d \in Corpus, d # c PROVE Untouched(d)
  <2>1. bm25'[d] = bm25[d] /\ unfinished'[d] = unfinished[d]
    BY <1>2, <1>6, OtherFiles
  <2> QED  BY <1>1, <1>4, <2>1 DEF Untouched
<1>7. run'[p].pc = "audit" /\ run'[p].chunks = Mine(p) /\ run'[p].alone = run[p].alone
  BY <1>1 DEF Moves, Mine
<1>8. ASSUME Undisturbed(p, c)' PROVE Reached(p, c)'
  <2>1. Works(p, c) /\ Undisturbed(p, c)
    BY <1>1, <1>7, <1>8, <1>9, UndisturbedBefore DEF Works
  <2>2. ToSet(Mine(p)) \subseteq points /\ PointsOf(c) = ToSet(Mine(p))
    BY <1>1, <2>1 DEF StoresInv, StageInv, Reached, At
  <2> QED  BY <1>1, <1>3, <1>4, <1>7, <2>2 DEF Reached, At, Mine
<1> QED  BY <1>5, <1>6, <1>7, <1>8 DEF DataStep, LeftStep

LEMMA AuditStores ==
    ASSUME TypeOK, OwnInv, StoresInv, NEW p \in Processes, SaveAudit(p), NEW c \in Corpus, Current(p) = c
    PROVE  /\ DataStep(p) /\ LeftStep(p)
           /\ Undisturbed(p, c)' => Reached(p, c)'
<1>1. At(p, "audit") /\ Active(p) /\ Moves(p, "manifest", run[p].left) /\ UNCHANGED <<points, bm25, manifest>>
  BY OtherMoves DEF SaveAudit
<1>2. audit' = [audit EXCEPT ![c] = Mine(p)] /\ unfinished' = [unfinished EXCEPT ![c] = @ \cup {Mine(p)}]
  BY DEF SaveAudit, Begin
<1>3. audit'[c] = Mine(p)
  BY <1>2 DEF TypeOK, FileType
<1>4. \A d \in Corpus : PointsOf(d)' = PointsOf(d)
  BY <1>1, SamePoints
<1>9. unfinished'[c] = unfinished[c] \cup {Mine(p)} /\ Begun(p, c)
  BY BeginMarks DEF SaveAudit
<1>5. Serves(Mine(p), c) /\ Begun(p, c)
  BY <1>1, <1>3, <1>4, <1>9 DEF Serves
<1>6. ASSUME NEW d \in Corpus, d # c PROVE Untouched(d)
  <2>1. audit'[d] = audit[d] /\ unfinished'[d] = unfinished[d]
    BY <1>2, <1>6, OtherFiles
  <2> QED  BY <1>1, <1>4, <2>1 DEF Untouched
<1>7. run'[p].pc = "manifest" /\ run'[p].chunks = Mine(p) /\ run'[p].alone = run[p].alone
  BY <1>1 DEF Moves, Mine
<1>8. ASSUME Undisturbed(p, c)' PROVE Reached(p, c)'
  <2>1. Works(p, c) /\ Undisturbed(p, c)
    BY <1>1, <1>7, <1>8, <1>9, UndisturbedBefore DEF Works
  <2>2. ToSet(Mine(p)) \subseteq points /\ PointsOf(c) = ToSet(Mine(p)) /\ bm25[c] = Mine(p)
    BY <1>1, <2>1 DEF StoresInv, StageInv, Reached, At
  <2> QED  BY <1>1, <1>3, <1>4, <1>7, <2>2 DEF Reached, At, Mine
<1> QED  BY <1>5, <1>6, <1>7, <1>8 DEF DataStep, LeftStep

\* The commit marker: the content that a run alone commits is in all stores.
LEMMA ManifestStores ==
    ASSUME TypeOK, OwnInv, StoresInv, NEW p \in Processes, SaveManifest(p), NEW c \in Corpus, Current(p) = c
    PROVE  /\ DataStep(p) /\ LeftStep(p) /\ AgreesOn(c)'
           /\ unfinished'[c] \subseteq {Mine(p)} => Stored(Mine(p), c)
<1>1. At(p, "manifest") /\ Active(p) /\ Leaves(p) /\ UNCHANGED <<points, bm25, audit>>
  BY OtherMoves DEF SaveManifest
<1>2. /\ manifest' = [manifest EXCEPT ![c] = Mine(p)]
      /\ unfinished' = [unfinished EXCEPT ![c] = IF run[p].alone THEN {} ELSE @ \cup {Mine(p)}]
  BY DEF SaveManifest
<1>3. manifest'[c] = Mine(p) /\ Mine(p) # None
  <2>1. Mine(p) \in Seq(AllChunks)
    BY AtWork
  <2>2. manifest'[c] = Mine(p)
    BY <1>2 DEF TypeOK, FileType
  <2> QED  BY <2>1, <2>2, NoneAssumption
<1>4. \A d \in Corpus : PointsOf(d)' = PointsOf(d)
  BY <1>1, SamePoints
<1>5. ~run[p].alone => unfinished'[c] = unfinished[c] \cup {Mine(p)}
  BY <1>2 DEF TypeOK
<1>6. ASSUME Undisturbed(p, c) PROVE Stored(Mine(p), c)
  <2>1. PointsOf(c) = ToSet(Mine(p)) /\ bm25[c] = Mine(p) /\ audit[c] = Mine(p)
    BY <1>1, <1>6 DEF StoresInv, StageInv, Works, Reached, At
  <2> QED  BY <1>1, <1>3, <1>4, <2>1 DEF Stored
<1>7. Serves(Mine(p), c) /\ Begun(p, c)
  BY <1>1, <1>3, <1>4, <1>5, <1>6 DEF Serves, Begun, Undisturbed
<1>8. ASSUME NEW d \in Corpus, d # c PROVE Untouched(d)
  <2>1. manifest'[d] = manifest[d] /\ unfinished'[d] = unfinished[d]
    BY <1>2, <1>8, OtherFiles
  <2> QED  BY <1>1, <1>4, <2>1 DEF Untouched
<1>9. LeftStep(p)
  BY <1>1 DEF Leaves, Rests, LeftStep
<1>10. ASSUME unfinished'[c] \subseteq {Mine(p)} PROVE Stored(Mine(p), c)
  BY <1>5, <1>6, <1>10 DEF Undisturbed
<1>11. AgreesOn(c)'
  BY <1>3, <1>10 DEF AgreesOn, Stored, Holds
<1> QED  BY <1>7, <1>8, <1>9, <1>10, <1>11 DEF DataStep

\* What the process of a step does to the stores and to its own run suffices.
LEMMA StoresStep ==
    ASSUME OwnInv, StoresInv, NEW p \in Processes,
           \/ \A c \in Corpus : Untouched(c)
           \/ Active(p) /\ DataStep(p) /\ \A c \in Corpus : Current(p) = c => AgreesOn(c)',
           \A q \in Processes \ {p} : Stays(q),
           \/ Stays(p)
           \/ /\ Keeps(p) \/ Prepared(p)
              /\ LeftStep(p)
              /\ \A c \in Corpus : Works(p, c)' /\ Undisturbed(p, c)' => Reached(p, c)'
    PROVE  StoresInv'
<1>1. \A q \in Processes : Stays(q) => Keeps(q)
  BY DEF Stays, Keeps, Active
<1>2. AgreeInv'
  <2>1. CASE Prepared(p)
    BY <2>1, AgreePrepared DEF StoresInv
  <2>2. CASE Keeps(p) \/ Stays(p)
    BY <1>1, <2>2, AgreeKept DEF StoresInv
  <2> QED  BY <2>1, <2>2
<1>3. LeftInv'
  BY LeftKept DEF StoresInv
<1>4. StageInv'
  <2> SUFFICES ASSUME NEW q \in Processes, NEW c \in Corpus, Works(q, c)', Undisturbed(q, c)'
               PROVE  Reached(q, c)'
    BY DEF StageInv
  <2>1. CASE Stays(q)
    BY <2>1, OthersReach DEF StoresInv
  <2>2. CASE ~Stays(q)
    BY <2>2
  <2> QED  BY <2>1, <2>2
<1>5. ASSUME NEW c \in Corpus PROVE AgreesOn(c)'
  <2>1. AgreesOn(c)
    BY DEF StoresInv
  <2>2. CASE Untouched(c)
    <3>1. Holds(c, manifest[c]) => Holds(c, manifest[c])'
      BY <2>2 DEF Holds, Untouched
    <3> QED  BY <2>1, <2>2, <3>1 DEF AgreesOn, Untouched
  <2>3. CASE ~Untouched(c)
    BY <2>3 DEF DataStep
  <2> QED  BY <2>2, <2>3
<1> QED  BY <1>2, <1>3, <1>4, <1>5 DEF StoresInv

\* Steps that write nothing
LEMMA NothingWritten ==
    ASSUME UNCHANGED <<stores, unfinished>>
    PROVE  \A c \in Corpus : Untouched(c)
<1>1. points' = points /\ bm25' = bm25 /\ audit' = audit /\ manifest' = manifest /\ unfinished' = unfinished
  BY DEF stores
<1> QED  BY <1>1, SamePoints DEF Untouched

LEMMA IngestStores ==
    ASSUME TypeOK, OwnInv, StoresInv, NEW p \in Processes, Ingest(p)
    PROVE  StoresInv'
<1>1. Current(p) \in Corpus
  <2>1. ~At(p, "idle")
    BY DEF Ingest, PrepareCorpus, RefuseCorpus, SkipUnchanged, FindOutdated, Upsert, ScrollStale,
           DeleteStale, SaveSparse, SaveAudit, SaveManifest, At
  <2> QED  BY <2>1, AtWork
<1>2. PICK c \in Corpus : Current(p) = c
  BY <1>1
<1>3. ASSUME NEW pc, NEW left, Active(p), Moves(p, pc, left)
      PROVE  /\ Keeps(p) /\ (\A d \in Corpus : Works(p, d)' => d = c) /\ \A q \in Processes \ {p} : Stays(q)
  <2>1. Keeps(p) /\ \A d \in Corpus : Works(p, d)' => d = c
    BY <1>2, <1>3 DEF Moves, Keeps, Works, Current
  <2> QED  BY <1>3, <2>1, OthersStay
<1>4. ASSUME Leaves(p)
      PROVE  /\ Keeps(p) /\ LeftStep(p) /\ (\A d \in Corpus : ~Works(p, d)') /\ \A q \in Processes \ {p} : Stays(q)
  <2>1. Keeps(p) /\ LeftStep(p) /\ \A d \in Corpus : ~Works(p, d)'
    BY <1>4 DEF Leaves, Rests, Keeps, LeftStep, Works, Active
  <2> QED  BY <1>4, <2>1, OthersStay DEF Leaves
<1>5. CASE PrepareCorpus(p)
  <2>1. Prepared(p) /\ \A q \in Processes \ {p} : Stays(q)
    BY <1>5, PrepareIsPrepared, OthersStay
  <2>2. \A d \in Corpus : Untouched(d)
    BY <1>5, NothingWritten DEF PrepareCorpus, OnlyRun
  <2>3. /\ run'[p].pc \in {"count", "upsert"} /\ run'[p].todo = run[p].todo
        /\ run'[p].pc = "upsert" => run'[p].left = run'[p].chunks
        /\ run'[p].pc = "count" => manifest[c] = run'[p].chunks
    BY <1>2, <2>1 DEF Prepared, MarksMatch
  <2>4. LeftStep(p)
    BY <2>3 DEF LeftStep
  <2>5. ASSUME NEW d \in Corpus, Works(p, d)' PROVE Reached(p, d)'
    <3>1. d = c /\ manifest'[c] = manifest[c]
      BY <1>2, <2>2, <2>3, <2>5 DEF Works, Current, Untouched
    <3> QED  BY <2>3, <3>1 DEF Reached, At, Mine
  <2> QED  BY <2>1, <2>2, <2>4, <2>5, StoresStep
<1>6. CASE RefuseCorpus(p) \/ SkipUnchanged(p)
  <2>1. Leaves(p)
    BY <1>6, OtherMoves
  <2>2. \A d \in Corpus : Untouched(d)
    BY <1>6, NothingWritten DEF RefuseCorpus, SkipUnchanged
  <2> QED  BY <1>4, <2>1, <2>2, StoresStep
<1>7. CASE FindOutdated(p)
  <2>1. Active(p) /\ Moves(p, "upsert", Mine(p))
    BY <1>7, OtherMoves
  <2>2. \A d \in Corpus : Untouched(d)
    BY <1>7, NothingWritten DEF FindOutdated, OnlyRun
  <2>3. run'[p].pc = "upsert" /\ run'[p].left = run'[p].chunks
    BY <2>1 DEF Moves, Mine
  <2>4. LeftStep(p) /\ \A d \in Corpus : Reached(p, d)'
    BY <2>3 DEF LeftStep, Reached, At, Mine
  <2> QED  BY <1>3, <2>1, <2>2, <2>4, StoresStep
<1>8. CASE ScrollStale(p)
  <2>1. Active(p) /\ \E s : Moves(p, IF s = <<>> THEN "sparse" ELSE "delete", s)
    BY <1>8, ScrollMoves
  <2>2. \A d \in Corpus : Untouched(d)
    BY <1>8, NothingWritten DEF ScrollStale, OnlyRun
  <2>3. LeftStep(p) /\ (Undisturbed(p, c)' => Reached(p, c)')
    BY <1>2, <1>8, ScrollStores
  <2> QED  BY <1>3, <2>1, <2>2, <2>3, StoresStep
<1>9. CASE Upsert(p) \/ DeleteStale(p) \/ SaveSparse(p) \/ SaveAudit(p)
  <2>1. Active(p) /\ \E pc, left : Moves(p, pc, left)
    BY <1>9, UpsertMoves, DeleteStaleMoves, OtherMoves
  <2>2. DataStep(p) /\ LeftStep(p) /\ (Undisturbed(p, c)' => Reached(p, c)')
    BY <1>2, <1>9, UpsertStores, DeleteStores, SparseStores, AuditStores
  <2>3. AgreesOn(c)'
    <3>1. Begin(p) /\ manifest' = manifest
      BY <1>9 DEF Upsert, DeleteStale, SaveSparse, SaveAudit
    <3>2. unfinished'[c] = unfinished[c] \cup {Mine(p)} /\ Serves(Mine(p), c)
      BY <1>2, <2>2, <3>1, BeginMarks DEF DataStep
    <3>3. AgreesOn(c) /\ Mine(p) # None
      BY AtWork, NoneAssumption DEF StoresInv
    <3> QED  BY <3>1, <3>2, <3>3, BegunAgrees
  <2> QED  BY <1>2, <1>3, <2>1, <2>2, <2>3, StoresStep
<1>10. CASE SaveManifest(p)
  <2>1. Active(p) /\ Leaves(p)
    BY <1>10, OtherMoves
  <2>2. DataStep(p) /\ AgreesOn(c)'
    BY <1>2, <1>10, ManifestStores
  <2> QED  BY <1>2, <1>4, <2>1, <2>2, StoresStep
<1> QED  BY <1>5, <1>6, <1>7, <1>8, <1>9, <1>10 DEF Ingest

LEMMA StoresKept ==
    ASSUME TypeOK, OwnInv, StoresInv, [Next]_vars
    PROVE  StoresInv'
<1>1. Server \in Processes /\ Cli \in Processes
  BY DEF Processes
<1>2. ASSUME NEW p \in Processes, Rests(p), UNCHANGED <<stores, unfinished>> PROVE StoresInv'
  <2>1. Keeps(p) /\ LeftStep(p) /\ \A d \in Corpus : ~Works(p, d)'
    BY <1>2 DEF Rests, Keeps, LeftStep, Works, Active
  <2>2. \A q \in Processes \ {p} : Stays(q)
    BY <1>2, OthersStay
  <2>3. \A d \in Corpus : Untouched(d)
    BY <1>2, NothingWritten
  <2> QED  BY <2>1, <2>2, <2>3, StoresStep
<1>3. ASSUME UNCHANGED <<run, stores, unfinished>> PROVE StoresInv'
  <2>1. \A q \in Processes : Stays(q)
    BY <1>3 DEF Stays
  <2>2. \A d \in Corpus : Untouched(d)
    BY <1>3, NothingWritten
  <2> QED  BY <1>1, <2>1, <2>2, StoresStep
<1>4. ASSUME NEW p \in Processes, Ingest(p) PROVE StoresInv'
  BY <1>4, IngestStores
<1>5. ASSUME NEW p \in Processes, Fail(p) PROVE StoresInv'
  BY <1>2, <1>5, OtherMoves DEF Leaves, Fail
<1>6. ASSUME NEW p \in Processes, Crash(p) PROVE StoresInv'
  BY <1>2, <1>6, Starts DEF Crash
<1>7. ASSUME NEW call \in Calls, StartCli(call) PROVE StoresInv'
  BY <1>1, <1>2, <1>7, Starts DEF StartCli
<1>8. CASE StartServer
  BY <1>1, <1>2, <1>8, Starts DEF StartServer
<1>9. ASSUME NEW model \in Models, WarmUp(model) PROVE StoresInv'
  BY <1>3, <1>9 DEF WarmUp
<1>10. ASSUME NEW c \in Corpus, LoadIndex(c) PROVE StoresInv'
  BY <1>3, <1>10 DEF LoadIndex
<1>11. ASSUME NEW c \in Corpus, NEW s \in Sources[c], Edit(c, s) PROVE StoresInv'
  BY <1>3, <1>11 DEF Edit
<1>12. CASE UNCHANGED vars
  BY <1>3, <1>12 DEF vars
<1> QED  BY <1>4, <1>5, <1>6, <1>7, <1>8, <1>9, <1>10, <1>11, <1>12 DEF Next

\* Every step that writes a report finds, or leaves, what it reports.
LEMMA ReportKept ==
    ASSUME TypeOK, OwnInv, StoresInv, ReportHolds, [Next]_vars
    PROVE  ReportHolds'
<1>1. ASSUME NEW p \in Processes, SkipUnchanged(p) PROVE ReportHolds'
  <2>1. PICK c \in Corpus : Current(p) = c
    BY <1>1, AtWork DEF SkipUnchanged, At
  <2>2. /\ report'.corpus = c /\ report'.chunks = Mine(p) /\ At(p, "count") /\ Active(p)
        /\ \A d \in Corpus : Untouched(d)
    BY <1>1, <2>1, NothingWritten DEF SkipUnchanged, Report, Active, At
  <2>3. ASSUME unfinished[c] \subseteq {Mine(p)} PROVE Stored(Mine(p), c)
    <3>1. manifest[c] = Mine(p) /\ AgreesOn(c)
      BY <2>1, <2>2, <2>3 DEF StoresInv, StageInv, Works, Undisturbed, Reached
    <3>2. Mine(p) # None
      BY AtWork, NoneAssumption
    <3>3. Holds(c, Mine(p))
      BY <2>3, <3>1, <3>2 DEF AgreesOn
    <3> QED  BY <2>2, <3>3 DEF Holds, Stored, Untouched
  <2> QED  BY <2>2, <2>3 DEF ReportHolds, Stored, Holds, Untouched
<1>2. ASSUME NEW p \in Processes, SaveManifest(p) PROVE ReportHolds'
  <2>1. PICK c \in Corpus : Current(p) = c
    BY <1>2, AtWork DEF SaveManifest, At
  <2>2. report'.corpus = c /\ report'.chunks = Mine(p)
    BY <1>2, <2>1 DEF SaveManifest, Report
  <2>3. unfinished'[c] \subseteq {Mine(p)} => Stored(Mine(p), c)
    BY <1>2, <2>1, ManifestStores
  <2> QED  BY <2>2, <2>3 DEF ReportHolds, Stored, Holds
<1>3. CASE UNCHANGED vars
  BY <1>3 DEF vars, stores, ReportHolds, Holds, PointsOf
<1>4. ASSUME report' = None PROVE ReportHolds'
  BY <1>4 DEF ReportHolds
<1>5. \/ \E p \in Processes : SkipUnchanged(p) \/ SaveManifest(p)
      \/ UNCHANGED vars
      \/ report' = None
  BY DEF Next, Ingest, PrepareCorpus, RefuseCorpus, FindOutdated, Upsert, ScrollStale, DeleteStale,
         SaveSparse, SaveAudit, Fail, Crash, StartCli, StartServer, WarmUp, LoadIndex, Edit
<1> QED  BY <1>1, <1>2, <1>3, <1>4, <1>5

-----------------------------------------------------------------------------
(* What the server's startup is through with *)

\* An index and a manifest, once written, are only replaced.
LEMMA DoneKept ==
    ASSUME TypeOK, [Next]_vars, NEW c \in Corpus
    PROVE  /\ bm25[c] # None => bm25'[c] # None
           /\ manifest[c] # None => manifest'[c] # None
<1>1. \A p \in Processes : Mine(p) # None
  BY AtWork, NoneAssumption
<1>2. bm25 \in FileType /\ manifest \in FileType
  BY DEF TypeOK
<1>3. ASSUME NEW p \in Processes, SaveSparse(p)
      PROVE  (bm25[c] # None => bm25'[c] # None) /\ manifest' = manifest
  BY <1>1, <1>2, <1>3 DEF SaveSparse, FileType
<1>4. ASSUME NEW p \in Processes, SaveManifest(p)
      PROVE  (manifest[c] # None => manifest'[c] # None) /\ bm25' = bm25
  BY <1>1, <1>2, <1>4 DEF SaveManifest, FileType
<1>5. \/ UNCHANGED <<bm25, manifest>>
      \/ \E p \in Processes : SaveSparse(p) \/ SaveManifest(p)
  <2>1. ASSUME NEW p \in Processes, Ingest(p), ~SaveSparse(p), ~SaveManifest(p)
        PROVE  UNCHANGED <<bm25, manifest>>
    BY <2>1 DEF Ingest, PrepareCorpus, RefuseCorpus, SkipUnchanged, FindOutdated, Upsert, ScrollStale,
                DeleteStale, SaveAudit, OnlyRun, stores
  <2>2. ASSUME NEW p \in Processes, Fail(p) \/ Crash(p) PROVE UNCHANGED <<bm25, manifest>>
    BY <2>2 DEF Fail, Crash, stores
  <2>3. ASSUME NEW call \in Calls, StartCli(call) PROVE UNCHANGED <<bm25, manifest>>
    BY <2>3 DEF StartCli, stores
  <2>4. ASSUME NEW model \in Models, WarmUp(model) PROVE UNCHANGED <<bm25, manifest>>
    BY <2>4 DEF WarmUp, stores
  <2>5. ASSUME NEW d \in Corpus, LoadIndex(d) \/ \E s \in Sources[d] : Edit(d, s) PROVE UNCHANGED <<bm25, manifest>>
    BY <2>5 DEF LoadIndex, Edit, stores
  <2>6. CASE StartServer \/ UNCHANGED vars
    BY <2>6 DEF StartServer, vars, stores
  <2> QED  BY <2>1, <2>2, <2>3, <2>4, <2>5, <2>6 DEF Next
<1> QED  BY <1>3, <1>4, <1>5

\* A run that has found the marks, or has written the index, leaves them there.
LEMMA MarksKept ==
    ASSUME TypeOK, MarksInv, [Next]_vars, \A q \in Processes : Stays(q) \/ Marked(q)'
    PROVE  MarksInv'
<1> SUFFICES ASSUME NEW q \in Processes, Stays(q)
             PROVE  Marked(q)'
  BY DEF MarksInv
<1>1. CASE run[q].pc \in {"count", "audit", "manifest"}
  <2>1. Current(q) \in Corpus
    BY <1>1, AtWork DEF At
  <2>2. PICK c \in Corpus : c = Current(q)
    BY <2>1
  <2>3. /\ bm25[c] # None
        /\ run[q].pc = "count" => manifest[c] # None
    BY <1>1, <2>2 DEF MarksInv, Marked, At
  <2>4. /\ bm25'[c] # None
        /\ run[q].pc = "count" => manifest'[c] # None
    BY <2>3, DoneKept
  <2>5. Current(q)' = c /\ run'[q].pc = run[q].pc
    BY <2>2 DEF Current, Stays
  <2> QED  BY <2>4, <2>5 DEF Marked, At
<1>2. CASE run[q].pc \notin {"count", "audit", "manifest"}
  BY <1>2 DEF Stays, Marked, At
<1> QED  BY <1>1, <1>2

LEMMA MarksStep ==
    ASSUME TypeOK, OwnInv, MarksInv, [Next]_vars
    PROVE  MarksInv'
<1> SUFFICES \A q \in Processes : Stays(q) \/ Marked(q)'
  BY MarksKept
<1>1. Server \in Processes /\ Cli \in Processes
  BY DEF Processes
<1>2. ASSUME NEW p \in Processes, Rests(p) PROVE \A q \in Processes : Stays(q) \/ Marked(q)'
  <2>1. Marked(p)'
    BY <1>2 DEF Rests, Marked, At
  <2> QED  BY <1>2, <2>1, OthersStay
<1>3. ASSUME run' = run PROVE \A q \in Processes : Stays(q) \/ Marked(q)'
  BY <1>3 DEF Stays
<1>4. ASSUME NEW p \in Processes, Ingest(p) PROVE \A q \in Processes : Stays(q) \/ Marked(q)'
  <2>1. CASE PrepareCorpus(p)
    <3>1. Prepared(p) /\ UNCHANGED <<bm25, manifest>>
      BY <2>1, PrepareIsPrepared DEF PrepareCorpus, OnlyRun, stores
    <3>2. Current(p) \in Corpus
      BY <2>1, AtWork DEF PrepareCorpus, At
    <3>3. source[Current(p)] # None
      BY <3>2, NoneAssumption DEF TypeOK
    <3>4. Current(p)' = Current(p)
      BY <3>1 DEF Prepared, Current
    <3>5. run'[p].pc = "count" => bm25'[Current(p)] # None /\ manifest'[Current(p)] # None
      BY <3>1, <3>3 DEF Prepared, MarksMatch
    <3>6. run'[p].pc \in {"count", "upsert"}
      BY <3>1 DEF Prepared
    <3>7. Marked(p)'
      BY <3>4, <3>5, <3>6 DEF Marked, At
    <3> QED  BY <3>1, <3>7, OthersStay
  <2>2. CASE RefuseCorpus(p) \/ SkipUnchanged(p) \/ SaveManifest(p)
    BY <1>2, <2>2, OtherMoves DEF Leaves
  <2>3. ASSUME NEW pc \in {"upsert", "scroll", "delete", "sparse"}, NEW left, Moves(p, pc, left)
        PROVE  \A q \in Processes : Stays(q) \/ Marked(q)'
    <3>1. Marked(p)'
      BY <2>3 DEF Moves, Marked, At
    <3> QED  BY <2>3, <3>1, OthersStay
  <2>4. CASE FindOutdated(p)
    BY <2>3, <2>4, OtherMoves
  <2>5. CASE Upsert(p)
    BY <2>3, <2>5, UpsertMoves
  <2>6. CASE DeleteStale(p)
    BY <2>3, <2>6, DeleteStaleMoves
  <2>7. CASE ScrollStale(p)
    BY <2>3, <2>7, ScrollMoves
  <2>8. CASE SaveSparse(p)
    <3>1. Moves(p, "audit", run[p].left) /\ bm25' = [bm25 EXCEPT ![Current(p)] = Mine(p)]
      BY <2>8, OtherMoves DEF SaveSparse
    <3>2. Current(p) \in Corpus /\ Mine(p) # None
      BY <2>8, AtWork, NoneAssumption DEF SaveSparse, At
    <3>3. bm25'[Current(p)] # None
      BY <3>1, <3>2 DEF TypeOK, FileType
    <3>4. Current(p)' = Current(p) /\ run'[p].pc = "audit"
      BY <3>1 DEF Moves, Current
    <3>5. Marked(p)'
      BY <3>3, <3>4 DEF Marked, At
    <3> QED  BY <3>1, <3>5, OthersStay
  <2>9. CASE SaveAudit(p)
    <3>1. Moves(p, "manifest", run[p].left) /\ bm25' = bm25 /\ bm25[Current(p)] # None
      BY <2>9, OtherMoves DEF SaveAudit, MarksInv, Marked, At
    <3>2. Current(p)' = Current(p) /\ run'[p].pc = "manifest"
      BY <3>1 DEF Moves, Current
    <3>3. Marked(p)'
      BY <3>1, <3>2 DEF Marked, At
    <3> QED  BY <3>1, <3>3, OthersStay
  <2> QED  BY <1>4, <2>1, <2>2, <2>4, <2>5, <2>6, <2>7, <2>8, <2>9 DEF Ingest
<1>5. ASSUME NEW p \in Processes, Fail(p) \/ Crash(p) PROVE \A q \in Processes : Stays(q) \/ Marked(q)'
  BY <1>2, <1>5, OtherMoves, Starts DEF Leaves
<1>6. ASSUME NEW call \in Calls, StartCli(call) PROVE \A q \in Processes : Stays(q) \/ Marked(q)'
  BY <1>1, <1>2, <1>6, Starts
<1>7. CASE StartServer
  BY <1>1, <1>2, <1>7, Starts
<1>8. ASSUME NEW model \in Models, WarmUp(model) PROVE run' = run
  BY <1>8 DEF WarmUp
<1>9. ASSUME NEW c \in Corpus, LoadIndex(c) \/ \E s \in Sources[c] : Edit(c, s) PROVE run' = run
  BY <1>9 DEF LoadIndex, Edit
<1>10. CASE UNCHANGED vars
  BY <1>3, <1>10 DEF vars
<1> QED  BY <1>3, <1>4, <1>5, <1>6, <1>7, <1>8, <1>9, <1>10 DEF Next

\* A step of the command line, and one of no run, leaves the startup where it is.
LEMMA ServerUndisturbed ==
    ASSUME TypeOK, ServerInv, [Next]_vars,
           run'[Server].pc = run[Server].pc /\ run'[Server].todo = run[Server].todo,
           complete' = complete, serving' = serving, serving \/ cache' = cache
    PROVE  ServerInv'
<1>1. \A c \in Corpus : Done(c) => Done(c)'
  BY DoneKept DEF Done
<1>2. At(Server, "idle")' = At(Server, "idle") /\ ToSet(run'[Server].todo) = ToSet(run[Server].todo)
  BY DEF At
<1> QED  BY <1>1, <1>2 DEF ServerInv

\* The server's run is through with a corpus: the next one, or complete.
LEMMA ServerLeaves ==
    ASSUME TypeOK, ServerInv, [Next]_vars, ~At(Server, "idle"), Leaves(Server),
           serving' = serving,
           complete' # complete => complete' /\ run'[Server].pc = "idle",
           \/ run'[Server].pc = "idle" /\ complete' = complete
           \/ /\ bm25'[Current(Server)] # None /\ manifest'[Current(Server)] # None
              /\ run'[Server].pc = "idle" => Tail(run[Server].todo) = <<>>
    PROVE  ServerInv'
<1>1. /\ serving /\ ~complete /\ \A c \in Corpus : c \in ToSet(run[Server].todo) \/ Done(c)
      /\ run'[Server].pc \in {"idle", "prepare"}
      /\ run'[Server].pc = "prepare" => run'[Server].todo = Tail(run[Server].todo)
  BY DEF ServerInv, At, Leaves, Rests
<1>2. serving' /\ (complete' => run'[Server].pc = "idle")
  BY <1>1
<1>3. \A c \in Corpus : Done(c) => Done(c)'
  BY DoneKept DEF Done
<1>4. ToSet(run[Server].todo) = {Current(Server)} \cup ToSet(Tail(run[Server].todo))
  <2>1. run[Server].todo \in Seq(Corpus) /\ run[Server].todo # <<>>
    BY AtWork DEF Processes
  <2> QED  BY <2>1, HeadAndTail DEF Current
<1>5. CASE run'[Server].pc = "idle" /\ ~complete'
  BY <1>2, <1>5 DEF ServerInv, At
<1>6. CASE /\ bm25'[Current(Server)] # None /\ manifest'[Current(Server)] # None
           /\ run'[Server].pc = "idle" => Tail(run[Server].todo) = <<>>
  <2>1. \A c \in Corpus : c \in ToSet(Tail(run[Server].todo)) \/ Done(c)'
    BY <1>1, <1>3, <1>4, <1>6 DEF Done
  <2>2. run'[Server].pc = "idle" => \A c \in Corpus : Done(c)'
    BY <1>6, <2>1, EmptyIsEmpty
  <2> QED  BY <1>1, <1>2, <2>1, <2>2 DEF ServerInv, At
<1>7. complete' => complete' # complete
  BY <1>1
<1> QED  BY <1>1, <1>5, <1>6, <1>7

LEMMA ServerStep ==
    ASSUME TypeOK, OwnInv, ReadyInv, [Next]_vars
    PROVE  ServerInv'
<1>1. Server \in Processes /\ Cli \in Processes /\ Server # Cli /\ Corpora \in Seq(Corpus)
  BY IngestionAssumption DEF Processes
<1>2. ServerInv /\ MarksInv
  BY DEF ReadyInv
<1>3. ASSUME NEW p \in Processes, Ingest(p) PROVE ServerInv'
  <2>1. ~At(p, "idle") /\ serving' = serving /\ cache' = cache
    BY <1>3 DEF Ingest, PrepareCorpus, RefuseCorpus, SkipUnchanged, FindOutdated, Upsert, ScrollStale,
                DeleteStale, SaveSparse, SaveAudit, SaveManifest, At, OnlyRun, app
  <2>2. CASE complete' = complete /\ (Prepared(p) \/ \E pc, left : Moves(p, pc, left))
    <3>1. run'[Server].todo = run[Server].todo
      BY <1>1, <2>2 DEF Prepared, Moves
    <3>2. CASE p = Server
      <4>1. run'[Server].pc # "idle" => ServerInv'
        <5>1. \A c \in Corpus : Done(c) => Done(c)'
          BY DoneKept DEF Done
        <5>2. serving /\ ~complete /\ \A c \in Corpus : c \in ToSet(run[Server].todo) \/ Done(c)
          BY <1>2, <2>1, <3>2 DEF ServerInv, At
        <5>3. ToSet(run'[Server].todo) = ToSet(run[Server].todo)
          BY <3>1
        <5> QED  BY <2>1, <2>2, <5>1, <5>2, <5>3 DEF ServerInv, At
      <4>2. run'[Server].pc = "idle" => ServerInv'
        <5>1. serving /\ ~complete
          BY <1>2, <2>1, <3>2 DEF ServerInv, At
        <5> QED  BY <2>1, <2>2, <5>1 DEF ServerInv, At
      <4> QED  BY <4>1, <4>2
    <3>3. CASE p # Server
      <4>1. run'[Server].pc = run[Server].pc
        BY <1>1, <2>2, <3>3 DEF Prepared, Moves
      <4> QED  BY <1>2, <2>1, <2>2, <3>1, <4>1, ServerUndisturbed
    <3> QED  BY <3>2, <3>3
  <2>3. CASE PrepareCorpus(p) \/ FindOutdated(p) \/ ScrollStale(p)
    <3>1. complete' = complete
      BY <2>3 DEF PrepareCorpus, FindOutdated, ScrollStale, OnlyRun, app
    <3> QED  BY <2>2, <2>3, <3>1, PrepareIsPrepared, OtherMoves, ScrollMoves
  <2>4. CASE Upsert(p) \/ DeleteStale(p) \/ SaveSparse(p) \/ SaveAudit(p)
    <3>1. complete' = complete
      BY <2>4 DEF Upsert, DeleteStale, SaveSparse, SaveAudit, app
    <3> QED  BY <2>2, <2>4, <3>1, UpsertMoves, DeleteStaleMoves, OtherMoves
  <2>5. CASE Leaves(p) /\ p # Server /\ complete' = complete
    <3>1. run'[Server] = run[Server]
      BY <1>1, <2>5 DEF Leaves, Rests
    <3> QED  BY <1>2, <2>1, <2>5, <3>1, ServerUndisturbed
  <2>6. CASE RefuseCorpus(p)
    <3>1. Leaves(p) /\ complete' = complete
      BY <2>6, OtherMoves
    <3>2. CASE p = Server
      <4>1. run'[Server].pc = "idle"
        <5>1. run' = [run EXCEPT ![Server] = Idle]
          BY <1>1, <2>6, <3>2 DEF RefuseCorpus, GiveUp
        <5> QED  BY <1>1, <5>1, IdleRests
      <4> QED  BY <1>2, <2>1, <3>1, <3>2, <4>1, ServerLeaves
    <3> QED  BY <2>5, <3>1, <3>2
  <2>7. CASE SkipUnchanged(p) \/ SaveManifest(p)
    <3>1. NextCorpus(p) /\ ~At(p, "idle")
      BY <2>1, <2>7 DEF SkipUnchanged, SaveManifest
    <3>2. /\ Leaves(p) /\ (run'[p].pc = "idle" => Tail(run[p].todo) = <<>>)
          /\ complete' # complete => complete' /\ p = Server /\ run'[p].pc = "idle"
      BY <3>1, NextCorpusLeaves
    <3>3. CASE p = Server
      <4>1. bm25'[Current(p)] # None /\ manifest'[Current(p)] # None
        <5>1. CASE SkipUnchanged(p)
          BY <1>2, <5>1 DEF SkipUnchanged, MarksInv, Marked, At, stores
        <5>2. CASE SaveManifest(p)
          <6>1. Current(p) \in Corpus /\ Mine(p) # None
            BY <2>1, AtWork, NoneAssumption
          <6>2. manifest'[Current(p)] = Mine(p)
            BY <5>2, <6>1 DEF SaveManifest, TypeOK, FileType
          <6>3. bm25'[Current(p)] # None
            BY <1>2, <5>2 DEF SaveManifest, MarksInv, Marked, At
          <6> QED  BY <6>1, <6>2, <6>3
        <5> QED  BY <2>7, <5>1, <5>2
      <4> QED  BY <1>2, <2>1, <3>2, <3>3, <4>1, ServerLeaves
    <3>4. CASE p # Server
      BY <2>5, <3>2, <3>4
    <3> QED  BY <3>3, <3>4
  <2> QED  BY <1>3, <2>3, <2>4, <2>6, <2>7 DEF Ingest
<1>4. ASSUME NEW p \in Processes, Fail(p) PROVE ServerInv'
  <2>1. Leaves(p) /\ complete' = complete /\ serving' = serving /\ cache' = cache /\ ~At(p, "idle")
    BY <1>4, OtherMoves DEF Fail, At
  <2>2. CASE p = Server
    <3>1. run'[Server].pc = "idle"
      <4>1. run' = [run EXCEPT ![Server] = Idle]
        BY <1>1, <1>4, <2>2 DEF Fail, GiveUp
      <4> QED  BY <1>1, <4>1, IdleRests
    <3> QED  BY <1>2, <2>1, <2>2, <3>1, ServerLeaves
  <2>3. CASE p # Server
    <3>1. run'[Server] = run[Server]
      BY <1>1, <2>1, <2>3 DEF Leaves, Rests
    <3> QED  BY <1>2, <2>1, <3>1, ServerUndisturbed
  <2> QED  BY <2>2, <2>3
<1>5. ASSUME NEW p \in Processes, Crash(p) PROVE ServerInv'
  <2>1. Rests(p) /\ run'[p].pc = "idle"
    BY <1>5, Starts
  <2>2. CASE p = Server
    BY <1>5, <2>1, <2>2 DEF Crash, ServerInv, At
  <2>3. CASE p # Server
    <3>1. run'[Server] = run[Server] /\ UNCHANGED app
      BY <1>1, <1>5, <2>1, <2>3 DEF Rests, Crash
    <3> QED  BY <1>2, <3>1, ServerUndisturbed DEF app
  <2> QED  BY <2>2, <2>3
<1>6. ASSUME NEW call \in Calls, StartCli(call) PROVE ServerInv'
  <2>1. run'[Server] = run[Server] /\ UNCHANGED app
    BY <1>1, <1>6, Starts DEF Rests, StartCli
  <2> QED  BY <1>2, <2>1, ServerUndisturbed DEF app
<1>7. CASE StartServer
  <2>1. ~complete' /\ serving'
    BY <1>2, <1>7 DEF StartServer, ServerInv
  <2>2. CASE Corpora = <<>>
    <3>1. run'[Server].pc = "idle"
      BY <1>7, <2>2, Starts
    <3> QED  BY <2>1, <3>1 DEF ServerInv, At
  <2>3. CASE Corpora # <<>>
    <3>1. run'[Server].todo = Corpora
      BY <1>7, <2>3, Starts
    <3>2. \A c \in Corpus : c \in ToSet(run'[Server].todo)
      BY <3>1 DEF Corpus
    <3> QED  BY <2>1, <3>2 DEF ServerInv
  <2> QED  BY <2>2, <2>3
<1>8. ASSUME NEW model \in Models, WarmUp(model) PROVE ServerInv'
  <2>1. UNCHANGED <<run, complete, serving, cache>>
    BY <1>8 DEF WarmUp
  <2> QED  BY <1>2, <2>1, ServerUndisturbed
<1>9. ASSUME NEW c \in Corpus, LoadIndex(c) PROVE ServerInv'
  <2>1. UNCHANGED <<run, complete, serving>> /\ serving
    BY <1>9 DEF LoadIndex
  <2> QED  BY <1>2, <2>1, ServerUndisturbed
<1>10. ASSUME NEW c \in Corpus, NEW s \in Sources[c], Edit(c, s) PROVE ServerInv'
  <2>1. UNCHANGED <<run, app>>
    BY <1>10 DEF Edit
  <2> QED  BY <1>2, <2>1, ServerUndisturbed DEF app
<1>11. CASE UNCHANGED vars
  <2>1. UNCHANGED <<run, app>>
    BY <1>11 DEF vars
  <2> QED  BY <1>2, <2>1, ServerUndisturbed DEF app
<1> QED  BY <1>3, <1>4, <1>5, <1>6, <1>7, <1>8, <1>9, <1>10, <1>11 DEF Next

\* An index that was loaded once startup ingestion was over is never replaced
\* by the server itself.
LEMMA CacheKept ==
    ASSUME TypeOK, ReadyInv, CacheInv, [Next]_vars
    PROVE  CacheInv'
<1> SUFFICES ASSUME NEW c \in Corpus
             PROVE  c \in early' \/ cache'[c] = None \/ (complete' /\ cache'[c] = bm25'[c])
  BY DEF CacheInv
<1>1. /\ c \in early \/ cache[c] = None \/ (complete /\ cache[c] = bm25[c])
      /\ ServerInv /\ early \subseteq Corpus /\ bm25 \in FileType /\ cache \in FileType
  BY DEF CacheInv, ReadyInv, TypeOK
<1>2. ASSUME early' = early, cache' = cache, bm25' = bm25, complete => complete'
      PROVE  c \in early' \/ cache'[c] = None \/ (complete' /\ cache'[c] = bm25'[c])
  BY <1>1, <1>2
<1>3. ASSUME NEW p \in Processes, NextCorpus(p) PROVE complete => complete'
  BY <1>3 DEF NextCorpus
<1>4. ASSUME NEW p \in Processes, GiveUp(p) PROVE complete => complete'
  BY <1>3, <1>4 DEF GiveUp
<1>5. ASSUME NEW p \in Processes, Ingest(p)
      PROVE  c \in early' \/ cache'[c] = None \/ (complete' /\ cache'[c] = bm25'[c])
  <2>1. CASE PrepareCorpus(p) \/ FindOutdated(p) \/ ScrollStale(p)
    BY <1>2, <2>1 DEF PrepareCorpus, FindOutdated, ScrollStale, OnlyRun, stores, app
  <2>2. CASE RefuseCorpus(p)
    BY <1>2, <1>4, <2>2 DEF RefuseCorpus, stores
  <2>3. CASE SkipUnchanged(p)
    BY <1>2, <1>3, <2>3 DEF SkipUnchanged, stores
  <2>4. CASE SaveManifest(p)
    BY <1>2, <1>3, <2>4 DEF SaveManifest
  <2>5. CASE Upsert(p) \/ DeleteStale(p) \/ SaveAudit(p)
    BY <1>2, <2>5 DEF Upsert, DeleteStale, SaveAudit, app
  <2>6. CASE SaveSparse(p)
    <3>1. /\ bm25' = [bm25 EXCEPT ![Current(p)] = Mine(p)] /\ cache' = cache /\ complete' = complete
          /\ early' = IF p = Cli /\ serving THEN early \cup {Current(p)} ELSE early
          /\ At(p, "sparse")
      BY <2>6 DEF SaveSparse
    <3>2. CASE c = Current(p) /\ p = Cli /\ serving
      BY <3>1, <3>2
    <3>3. CASE c = Current(p) /\ p = Cli /\ ~serving
      BY <1>1, <3>1, <3>3 DEF ServerInv
    <3>4. CASE c = Current(p) /\ p # Cli
      <4>1. p = Server
        BY <3>4 DEF Processes
      <4>2. ~complete
        BY <1>1, <3>1, <4>1 DEF ServerInv, At
      <4> QED  BY <1>1, <3>1, <3>4, <4>2
    <3>5. CASE c # Current(p)
      BY <1>1, <3>1, <3>5
    <3> QED  BY <3>2, <3>3, <3>4, <3>5
  <2> QED  BY <1>5, <2>1, <2>2, <2>3, <2>4, <2>5, <2>6 DEF Ingest
<1>6. ASSUME NEW p \in Processes, Fail(p)
      PROVE  c \in early' \/ cache'[c] = None \/ (complete' /\ cache'[c] = bm25'[c])
  BY <1>2, <1>4, <1>6 DEF Fail, stores
<1>7. ASSUME NEW p \in Processes, Crash(p)
      PROVE  c \in early' \/ cache'[c] = None \/ (complete' /\ cache'[c] = bm25'[c])
  <2>1. CASE p = Server
    BY <1>7, <2>1 DEF Crash
  <2>2. CASE p # Server
    BY <1>2, <1>7, <2>2 DEF Crash, stores, app
  <2> QED  BY <2>1, <2>2
<1>8. ASSUME NEW d \in Corpus, LoadIndex(d)
      PROVE  c \in early' \/ cache'[c] = None \/ (complete' /\ cache'[c] = bm25'[c])
  <2>1. /\ cache' = [cache EXCEPT ![d] = bm25[d]] /\ bm25' = bm25 /\ complete' = complete
        /\ early' = IF complete THEN early ELSE early \cup {d}
    BY <1>8 DEF LoadIndex, stores
  <2>2. CASE c = d
    BY <1>1, <2>1, <2>2 DEF FileType, TypeOK
  <2>3. CASE c # d
    BY <1>1, <2>1, <2>3
  <2> QED  BY <2>2, <2>3
<1>9. CASE \/ StartServer \/ UNCHANGED vars
           \/ \E call \in Calls : StartCli(call)
           \/ \E model \in Models : WarmUp(model)
           \/ \E d \in Corpus : \E s \in Sources[d] : Edit(d, s)
  <2>1. CASE StartServer
    BY <1>2, <2>1 DEF StartServer, stores
  <2>2. CASE UNCHANGED vars
    BY <1>2, <2>2 DEF vars, stores, app
  <2>3. ASSUME NEW call \in Calls, StartCli(call) PROVE UNCHANGED <<early, cache, bm25, complete>>
    BY <2>3 DEF StartCli, stores, app
  <2>4. ASSUME NEW model \in Models, WarmUp(model) PROVE UNCHANGED <<early, cache, bm25, complete>>
    BY <2>4 DEF WarmUp, stores
  <2>5. ASSUME NEW d \in Corpus, NEW s \in Sources[d], Edit(d, s) PROVE UNCHANGED <<early, cache, bm25, complete>>
    BY <2>5 DEF Edit, stores, app
  <2> QED  BY <1>2, <1>9, <2>1, <2>2, <2>3, <2>4, <2>5
<1>10. \/ \E p \in Processes : Ingest(p) \/ Fail(p) \/ Crash(p)
       \/ \E d \in Corpus : LoadIndex(d)
       \/ StartServer \/ UNCHANGED vars
       \/ \E call \in Calls : StartCli(call)
       \/ \E model \in Models : WarmUp(model)
       \/ \E d \in Corpus : \E s \in Sources[d] : Edit(d, s)
  BY DEF Next
<1> QED  BY <1>5, <1>6, <1>7, <1>8, <1>9, <1>10

-----------------------------------------------------------------------------
(* The theorems *)

LEMMA InitOwns == ASSUME Init PROVE TypeOK /\ OwnInv
<1>1. PICK f \in [Corpus -> UNION {Sources[c] : c \in Corpus}] :
        /\ \A c \in Corpus : f[c] \in Sources[c]
        /\ source = [c \in Corpus |-> Prepare(c, f[c])]
  BY DEF Init
<1>2. /\ source \in [Corpus -> Seq(AllChunks)]
      /\ \A c \in Corpus : OfCorpus(c, source[c])
  BY <1>1, PrepareGives DEF OfCorpus
<1>3. Idle \in RunType /\ Idle.pc = "idle"
  BY DEF Idle, RunType, Steps
<1>4. \A p \in Processes : run[p] = Idle
  BY DEF Init
<1>5. RunsOK
  BY <1>3, <1>4 DEF RunsOK, Init
<1>6. DataOK
  <2>1. /\ points = {} /\ serving = FALSE /\ complete = FALSE /\ warm = {} /\ early = {}
        /\ bm25 = [c \in Corpus |-> None] /\ audit = [c \in Corpus |-> None]
        /\ manifest = [c \in Corpus |-> None] /\ cache = [c \in Corpus |-> None]
        /\ unfinished = [c \in Corpus |-> {}]
        /\ runs = 0 /\ edits = 0 /\ faults = 0
    BY DEF Init
  <2>2. [c \in Corpus |-> None] \in FileType
    BY DEF FileType
  <2>3. unfinished \in [Corpus -> SUBSET Seq(AllChunks)]
    BY <2>1
  <2>4. runs \in 0..MaxRuns /\ edits \in 0..MaxEdits /\ faults \in 0..MaxFaults
    BY <2>1, IngestionAssumption
  <2> QED  BY <1>2, <2>1, <2>2, <2>3, <2>4 DEF DataOK
<1>7. IsFiniteSet(points)
  BY FS_EmptySet DEF Init
<1>8. OwnInv
  BY <1>2, <1>3, <1>4, <1>7 DEF OwnInv, Active
<1> QED  BY <1>5, <1>6, <1>8, DataAndRuns

LEMMA InitInv == ASSUME Init PROVE IngestionInv
<1>1. TypeOK /\ OwnInv
  BY InitOwns
<1>2. \A p \in Processes : run[p].pc = "idle"
  BY DEF Init, Idle
<1>3. AgreeInv /\ LeftInv /\ StageInv
  BY <1>2 DEF AgreeInv, LeftInv, StageInv, Works, Active, At
<1>4. \A c \in Corpus : AgreesOn(c)
  BY DEF AgreesOn, Init, PointsOf
<1>5. MarksInv /\ ServerInv
  BY <1>2 DEF MarksInv, Marked, ServerInv, Init, At, Processes
<1>6. CacheInv
  BY DEF CacheInv, Init
<1>7. ReportHolds
  BY DEF ReportHolds, Init
<1> QED  BY <1>1, <1>3, <1>4, <1>5, <1>6, <1>7 DEF IngestionInv, StoresInv, ReadyInv

LEMMA NextInv == ASSUME IngestionInv, [Next]_vars PROVE IngestionInv'
<1>1. TypeOK /\ OwnInv /\ StoresInv /\ ReadyInv /\ CacheInv /\ ReportHolds
  BY DEF IngestionInv
<1>2. TypeOK' /\ OwnInv'
  BY <1>1, BaseKept
<1>3. StoresInv'
  BY <1>1, StoresKept
<1>4. ReadyInv'
  BY <1>1, MarksStep, ServerStep DEF ReadyInv
<1>5. CacheInv'
  BY <1>1, CacheKept
<1>6. ReportHolds'
  BY <1>1, ReportKept
<1> QED  BY <1>2, <1>3, <1>4, <1>5, <1>6 DEF IngestionInv

THEOREM IngestionInvariant == Spec => []IngestionInv
<1> QED  BY InitInv, NextInv, PTL DEF Spec

\* The stores, the runs of ingest_corpus and the server's memory keep their types.
THEOREM IngestionTypeCorrect == Spec => []TypeOK
<1>1. IngestionInv => TypeOK
  BY DEF IngestionInv
<1> QED  BY <1>1, IngestionInvariant, PTL

\* Whatever has failed, crashed or overlapped before, once a run has had a corpus
\* to itself to the end the points, the index, the audit copy and the manifest
\* agree on it (ingest_corpus, delete_stale, the manifest as the commit marker).
THEOREM StoresAlwaysAgree == Spec => []StoresAgree
<1>1. IngestionInv => StoresAgree
  BY DEF IngestionInv, StoresInv, AgreesOn, StoresAgree
<1> QED  BY <1>1, IngestionInvariant, PTL

\* A report is true whenever at most its own content was half written: a crashed run
\* that is repeated is completed (_is_up_to_date, ingest_corpus).
THEOREM ReportsHold == Spec => []ReportHolds
<1>1. IngestionInv => ReportHolds
  BY DEF IngestionInv
<1> QED  BY <1>1, IngestionInvariant, PTL

\* When /ready says so, every corpus has an index and a manifest: the startup
\* stops at the first corpus that fails (_ingest_corpora).
THEOREM ReadyIsSearchable == Spec => []ReadyMeansSearchable
<1>1. IngestionInv => ReadyMeansSearchable
  BY DEF IngestionInv, ReadyInv, ServerInv, ReadyMeansSearchable, Ready, Done
<1> QED  BY <1>1, IngestionInvariant, PTL

\* The cached index of a corpus is the one on disk, unless it was loaded before
\* startup ingestion was over or replaced by the command line since
\* (SparseIndexRegistry.get).
THEOREM ServedIndexesAreCurrent == Spec => []ServedIndexIsCurrent
<1>1. IngestionInv => ServedIndexIsCurrent
  BY DEF IngestionInv, CacheInv, ServedIndexIsCurrent
<1> QED  BY <1>1, IngestionInvariant, PTL

=============================================================================
