------------------------ MODULE EvidencePipelineProofs ------------------------
(***************************************************************************)
(* Proofs about the steps from an utterance to its evidence, for any texts *)
(* and chunks, whichever of them are alike, any search results, scores and *)
(* limits.                                                                 *)
(*                                                                         *)
(* Each property is of the result of one step, a fold or a sort; the       *)
(* invariants only carry it to where it is needed.  The first part is      *)
(* about the operators: what a fold computes is the last of a chain of     *)
(* values, one for each element (by induction, with a set of numbers for   *)
(* the predicate), and what a sort returns is a permutation.               *)
(***************************************************************************)
EXTENDS EvidencePipeline, FiniteSetTheorems, WellFoundedInduction, TLAPS

(***************************************************************************)
(* Induction and folds.                                                    *)
(***************************************************************************)

\* A set with 0 and with every successor of its members has all numbers.
LEMMA SetInduction ==
    ASSUME NEW S, 0 \in S, \A n \in Nat : n \in S => n + 1 \in S
    PROVE  Nat \subseteq S
<1> DEFINE T == Nat \ S
           Less == {p \in Nat \X Nat : p[1] < p[2]}
<1> SUFFICES ASSUME T # {} PROVE FALSE
  OBVIOUS
<1>1. IsWellFoundedOn(Less, Nat)
  BY NatLessThanWellFounded DEF OpToRel
<1>2. T \subseteq Nat
  OBVIOUS
<1>3. PICK m \in T : \A t \in T : <<t, m>> \notin Less
  <2> HIDE DEF T, Less
  <2> QED  BY <1>1, <1>2, WFMin
<1>4. m \in Nat /\ m # 0 /\ m - 1 \in Nat
  OBVIOUS
<1>5. <<m - 1, m>> \in Less
  BY <1>4
<1>6. m - 1 \notin T
  BY <1>3, <1>5
<1>7. (m - 1) + 1 \in S
  BY <1>4, <1>6
<1> QED  BY <1>4, <1>7

\* A set of positions that is not empty has a last one.
LEMMA LastPosition ==
    ASSUME NEW n \in Nat, NEW s \in SUBSET (1..n), s # {}
    PROVE  Max(s) \in s /\ \A y \in s : y <= Max(s)
<1> DEFINE Good == {k \in Nat : \A t \in SUBSET (1..k) : t # {} => \E x \in t : \A y \in t : x >= y}
<1>1. 0 \in Good
  <2>1. \A t \in SUBSET (1..0) : t = {}
    OBVIOUS
  <2> QED  BY <2>1
<1>2. ASSUME NEW k \in Nat, k \in Good PROVE k + 1 \in Good
  <2> SUFFICES ASSUME NEW t \in SUBSET (1..(k + 1)), t # {}
               PROVE  \E x \in t : \A y \in t : x >= y
    OBVIOUS
  <2>1. CASE k + 1 \in t
    BY <2>1
  <2>2. CASE k + 1 \notin t
    <3>1. t \in SUBSET (1..k)
      BY <2>2
    <3> QED  BY <1>2, <3>1
  <2> QED  BY <2>1, <2>2
<1>3. n \in Good
  <2> HIDE DEF Good
  <2> QED  BY <1>1, <1>2, SetInduction
<1>4. \E x \in s : \A y \in s : x >= y
  BY <1>3
<1> QED  BY <1>4 DEF Max

LEMMA AllButLast ==
    ASSUME NEW n \in Nat, NEW s \in SUBSET (1..(n + 1)), s # {}
    PROVE  s \ {Max(s)} \in SUBSET (1..n)
<1>1. n + 1 \in Nat
  OBVIOUS
<1>2. Max(s) \in s /\ \A y \in s : y <= Max(s)
  BY <1>1, LastPosition
<1>3. PICK m \in s : m = Max(s)
  BY <1>2
<1>4. \A y \in s \ {m} : y \in 1..n
  BY <1>2, <1>3
<1> QED  BY <1>3, <1>4

LEMMA Interval ==
    ASSUME NEW n \in Nat
    PROVE  /\ 1..(n + 1) # {} /\ Max(1..(n + 1)) = n + 1
           /\ (1..(n + 1)) \ {n + 1} = 1..n
<1>1. 1..(n + 1) # {} /\ n + 1 \in 1..(n + 1)
  OBVIOUS
<1>2. Max(1..(n + 1)) = n + 1
  <2>1. /\ Max(1..(n + 1)) \in 1..(n + 1)
        /\ \A y \in 1..(n + 1) : y <= Max(1..(n + 1))
    <3>1. n + 1 \in Nat /\ 1..(n + 1) \in SUBSET (1..(n + 1))
      OBVIOUS
    <3> QED  BY <1>1, <3>1, LastPosition
  <2> QED  BY <2>1
<1> QED  BY <1>1, <1>2

\* it is what MapThenFoldSet iterates, for a function G of position and value.
IsFold(it, n, base, G) ==
    it = [s \in SUBSET (1..n) |-> IF s = {} THEN base ELSE G[<<Max(s), it[s \ {Max(s)}]>>]]

LEMMA FoldExists ==
    ASSUME NEW n \in Nat, NEW V, NEW base \in V, NEW G \in [(1..n) \X V -> V]
    PROVE  \E it \in [SUBSET (1..n) -> V] : IsFold(it, n, base, G)
<1> DEFINE Has(k) == \E it \in [SUBSET (1..k) -> V] : IsFold(it, k, base, G)
           Good == {k \in Nat : k <= n => Has(k)}
<1>1. 0 \in Good
  <2> DEFINE it == [s \in SUBSET (1..0) |-> base]
  <2>1. \A s \in SUBSET (1..0) : s = {}
    OBVIOUS
  <2>2. it \in [SUBSET (1..0) -> V]
    OBVIOUS
  <2>3. IsFold(it, 0, base, G)
    BY <2>1 DEF IsFold
  <2> QED  BY <2>2, <2>3
<1>2. ASSUME NEW k \in Nat, k \in Good PROVE k + 1 \in Good
  <2> SUFFICES ASSUME k + 1 <= n PROVE Has(k + 1)
    <3> HIDE DEF Has
    <3> QED  OBVIOUS
  <2>0. Has(k)
    <3> HIDE DEF Has
    <3> QED  BY <1>2
  <2>1. PICK it \in [SUBSET (1..k) -> V] : IsFold(it, k, base, G)
    BY <2>0
  <2> DEFINE next == [s \in SUBSET (1..(k + 1)) |->
                        IF k + 1 \in s THEN G[<<k + 1, it[s \ {k + 1}]>>] ELSE it[s]]
  <2>2. ASSUME NEW s \in SUBSET (1..(k + 1)), k + 1 \in s
        PROVE  /\ Max(s) = k + 1 /\ s \ {k + 1} \in SUBSET (1..k)
               /\ next[s] = G[<<k + 1, it[s \ {k + 1}]>>] /\ next[s] \in V
               /\ next[s \ {k + 1}] = it[s \ {k + 1}]
    <3>1. Max(s) \in s /\ \A y \in s : y <= Max(s)
      BY <2>2, LastPosition
    <3>2. Max(s) = k + 1
      <4>1. PICK m \in s : m = Max(s)
        BY <3>1
      <4>2. m >= k + 1 /\ m \in 1..(k + 1)
        BY <2>2, <3>1, <4>1
      <4> QED  BY <4>1, <4>2
    <3>4. s \ {k + 1} \in SUBSET (1..k)
      OBVIOUS
    <3>3. it[s \ {k + 1}] \in V
      BY <2>1, <3>4
    <3> QED  BY <2>2, <3>2, <3>3, <3>4
  <2>3. ASSUME NEW s \in SUBSET (1..(k + 1)), k + 1 \notin s
        PROVE  /\ s \in SUBSET (1..k) /\ next[s] = it[s] /\ next[s] \in V
               /\ s # {} => /\ s \ {Max(s)} \in SUBSET (1..k)
                            /\ next[s \ {Max(s)}] = it[s \ {Max(s)}]
    <3>1. s \in SUBSET (1..k)
      BY <2>3
    <3> QED  BY <2>1, <2>3, <3>1
  <2>4. next \in [SUBSET (1..(k + 1)) -> V]
    BY <2>2, <2>3
  <2>5. \A s \in SUBSET (1..(k + 1)) :
           next[s] = IF s = {} THEN base ELSE G[<<Max(s), next[s \ {Max(s)}]>>]
    <3> SUFFICES ASSUME NEW s \in SUBSET (1..(k + 1))
                 PROVE  next[s] = IF s = {} THEN base ELSE G[<<Max(s), next[s \ {Max(s)}]>>]
      OBVIOUS
    <3>1. CASE k + 1 \in s
      <4>1. /\ Max(s) = k + 1 /\ next[s] = G[<<k + 1, it[s \ {k + 1}]>>]
            /\ next[s \ {k + 1}] = it[s \ {k + 1}]
        <5> HIDE DEF next
        <5> QED  BY <2>2, <3>1
      <4> HIDE DEF next
      <4> QED  BY <3>1, <4>1
    <3>2. CASE k + 1 \notin s
      <4>1. s \in SUBSET (1..k) /\ next[s] = it[s]
        BY <2>3, <3>2
      <4>2. it[s] = IF s = {} THEN base ELSE G[<<Max(s), it[s \ {Max(s)}]>>]
        BY <2>1, <4>1 DEF IsFold
      <4> HIDE DEF next
      <4> QED  BY <2>3, <3>2, <4>1, <4>2
    <3> QED  BY <3>1, <3>2
  <2> HIDE DEF next
  <2>6. IsFold(next, k + 1, base, G)
    BY <2>4, <2>5 DEF IsFold
  <2> QED  BY <2>4, <2>6
<1>3. n \in Good
  <2> HIDE DEF Good
  <2> QED  BY <1>1, <1>2, SetInduction
<1>4. Has(n)
  <2> HIDE DEF Has
  <2> QED  BY <1>3
<1> QED  BY <1>4

IsIteration(f, n, base, G) ==
    f[0] = base /\ \A i \in 1..n : f[i] = G[<<i, f[i - 1]>>]

Folds(it, n, V, base, G) ==
    /\ it[{}] = base
    /\ \A s \in SUBSET (1..n) : s # {} /\ it[s \ {Max(s)}] \in V
                                 => it[s] = G[<<Max(s), it[s \ {Max(s)}]>>]

Iterated(value, n, V, base, G) ==
    \E f \in [0..n -> V] : IsIteration(f, n, base, G) /\ value = f[n]

LEMMA FoldIterates ==
    ASSUME NEW n \in Nat, NEW V, NEW base \in V, NEW G \in [(1..n) \X V -> V],
           NEW it, Folds(it, n, V, base, G)
    PROVE  Iterated(it[1..n], n, V, base, G)
<1> DEFINE Good == {i \in Nat : i <= n => it[1..i] \in V}
<1>1. 1..0 = {}
  OBVIOUS
<1>2. ASSUME NEW i \in Nat, i + 1 <= n, it[1..i] \in V
      PROVE  it[1..(i + 1)] = G[<<i + 1, it[1..i]>>] /\ it[1..(i + 1)] \in V
  <2>1. 1..(i + 1) # {} /\ Max(1..(i + 1)) = i + 1 /\ (1..(i + 1)) \ {i + 1} = 1..i
    BY Interval
  <2>2. 1..(i + 1) \in SUBSET (1..n) /\ i + 1 \in 1..n
    BY <1>2
  <2>3. it[1..(i + 1)] = G[<<i + 1, it[1..i]>>]
    BY <1>2, <2>1, <2>2 DEF Folds
  <2> QED  BY <1>2, <2>2, <2>3
<1>3. 0 \in Good
  BY <1>1 DEF Folds
<1>4. ASSUME NEW i \in Nat, i \in Good PROVE i + 1 \in Good
  <2>1. ASSUME i + 1 <= n PROVE it[1..(i + 1)] \in V
    <3>1. it[1..i] \in V
      BY <1>4, <2>1
    <3> QED  BY <1>2, <2>1, <3>1
  <2> QED  BY <2>1
<1>5. \A i \in 0..n : it[1..i] \in V
  <2>1. Nat \subseteq Good
    <3> HIDE DEF Good
    <3> QED  BY <1>3, <1>4, SetInduction
  <2> QED  BY <2>1
<1> DEFINE f == [i \in 0..n |-> it[1..i]]
<1>6. f \in [0..n -> V] /\ it[1..n] = f[n] /\ f[0] = base
  BY <1>1, <1>5 DEF Folds
<1>7. ASSUME NEW i \in 1..n PROVE f[i] = G[<<i, f[i - 1]>>]
  <2>1. i - 1 \in Nat /\ (i - 1) + 1 = i /\ i - 1 \in 0..n /\ i \in 0..n
    OBVIOUS
  <2>2. it[1..((i - 1) + 1)] = G[<<(i - 1) + 1, it[1..(i - 1)]>>]
    BY <1>2, <1>5, <2>1
  <2> QED  BY <2>1, <2>2
<1> HIDE DEF f
<1> QED  BY <1>6, <1>7 DEF IsIteration, Iterated

(***************************************************************************)
(* Orders and sorting.                                                     *)
(***************************************************************************)

Linear(R, S) ==
    /\ \A a \in S : <<a, a>> \notin R
    /\ \A a, b \in S : a # b => <<a, b>> \in R \/ <<b, a>> \in R
    /\ \A a, b, c \in S : <<a, b>> \in R /\ <<b, c>> \in R => <<a, c>> \in R

\* f lists S in the order R.
Lists(f, S, R) ==
    /\ f \in [1..Cardinality(S) -> S]
    /\ \A x \in S : \E k \in 1..Cardinality(S) : f[k] = x
    /\ \A j, k \in 1..Cardinality(S) : j < k => <<f[j], f[k]>> \in R

LEMMA ListedLists ==
    ASSUME NEW S, IsFiniteSet(S), NEW R, Linear(R, S)
    PROVE  Lists(Listed(S, R), S, R)
<1> DEFINE n == Cardinality(S)
           below(a) == {b \in S : <<b, a>> \in R}
           place == [a \in S |-> Cardinality(below(a)) + 1]
<1>1. n \in Nat /\ IsFiniteSet(1..n) /\ Cardinality(1..n) = n
  BY FS_CardinalityType, FS_Interval
<1>2. \A a \in S : IsFiniteSet(below(a)) /\ Cardinality(below(a)) \in Nat
  BY FS_Subset, FS_CardinalityType
<1>3. ASSUME NEW a \in S PROVE place[a] \in 1..n
  <2>1. below(a) \in SUBSET (S \ {a})
    BY DEF Linear
  <2>2. IsFiniteSet(S \ {a}) /\ Cardinality(S \ {a}) = n - 1
    BY FS_RemoveElement
  <2>3. Cardinality(below(a)) <= n - 1 /\ Cardinality(below(a)) \in Nat
    <3> HIDE DEF below
    <3> QED  BY <1>2, <2>1, <2>2, FS_Subset
  <2>4. place[a] = Cardinality(below(a)) + 1
    OBVIOUS
  <2> HIDE DEF below, place
  <2> QED  BY <1>1, <2>3, <2>4
<1>4. ASSUME NEW a \in S, NEW b \in S, <<a, b>> \in R PROVE place[a] < place[b]
  <2>1. below(a) \in SUBSET below(b) /\ a \in below(b) /\ a \notin below(a)
    BY <1>4 DEF Linear
  <2>2. Cardinality(below(a)) <= Cardinality(below(b))
    BY <1>2, <2>1, FS_Subset
  <2>3. Cardinality(below(a)) # Cardinality(below(b))
    BY <1>2, <2>1, FS_Subset
  <2> QED  BY <1>2, <2>2, <2>3
<1>5. place \in [S -> 1..n]
  BY <1>3
<1>6. \A a, b \in S : a # b => place[a] # place[b]
  <2> SUFFICES ASSUME NEW a \in S, NEW b \in S, a # b PROVE place[a] # place[b]
    OBVIOUS
  <2>1. <<a, b>> \in R \/ <<b, a>> \in R
    BY DEF Linear
  <2>2. place[a] \in Nat /\ place[b] \in Nat
    BY <1>1, <1>5
  <2> HIDE DEF place
  <2> QED  BY <1>4, <2>1, <2>2
<1>7. place \in Surjection(S, 1..n)
  <2>1. place \in Injection(S, 1..n)
    <3> HIDE DEF place
    <3> QED  BY <1>5, <1>6 DEF Injection, IsInjective
  <2> HIDE DEF place
  <2> QED  BY <1>1, <2>1, FS_Injection
<1>8. \A k \in 1..n : \E a \in S : place[a] = k
  <2> HIDE DEF place
  <2> QED  BY <1>7 DEF Surjection
<1> DEFINE f == Listed(S, R)
<1>9. ASSUME NEW k \in 1..n PROVE f[k] \in S /\ place[f[k]] = k
  <2> DEFINE At(a) == Cardinality(below(a)) + 1 = k
  <2>1. f[k] = CHOOSE a \in S : At(a)
    BY DEF Listed
  <2>2. \E a \in S : At(a)
    BY <1>8
  <2>3. f[k] \in S /\ At(f[k])
    <3> HIDE DEF At, f
    <3> QED  BY <2>1, <2>2
  <2> HIDE DEF f, below
  <2> QED  BY <2>3
<1>10. f \in [1..n -> S]
  <2> DEFINE At(k) == CHOOSE a \in S : Cardinality({b \in S : <<b, a>> \in R}) + 1 = k
  <2>1. f = [k \in 1..n |-> At(k)]
    BY DEF Listed
  <2>2. \A k \in 1..n : f[k] = At(k)
    <3> HIDE DEF At, f
    <3> QED  BY <2>1
  <2> HIDE DEF f, At
  <2> QED  BY <1>9, <2>1, <2>2
<1>11. \A x \in S : \E k \in 1..n : f[k] = x
  <2> TAKE x \in S
  <2>1. place[x] \in 1..n
    BY <1>3
  <2>2. f[place[x]] \in S /\ place[f[place[x]]] = place[x]
    <3> HIDE DEF place, f
    <3> QED  BY <1>9, <2>1
  <2>3. f[place[x]] = x
    <3> HIDE DEF place, f
    <3> QED  BY <1>6, <2>2
  <2> QED  BY <2>1, <2>3
<1>12. \A j, k \in 1..n : j < k => <<f[j], f[k]>> \in R
  <2> SUFFICES ASSUME NEW j \in 1..n, NEW k \in 1..n, j < k PROVE <<f[j], f[k]>> \in R
    OBVIOUS
  <2>1. f[j] \in S /\ f[k] \in S /\ place[f[j]] = j /\ place[f[k]] = k
    <3> HIDE DEF place, f
    <3> QED  BY <1>9
  <2>2. f[j] # f[k]
    <3> HIDE DEF place, f
    <3> QED  BY <2>1
  <2>3. <<f[k], f[j]>> \notin R
    <3> HIDE DEF place, f
    <3> QED  BY <1>4, <2>1
  <2> HIDE DEF f
  <2> QED  BY <2>1, <2>2, <2>3 DEF Linear
<1> HIDE DEF f
<1> QED  BY <1>10, <1>11, <1>12 DEF Lists, f

\* pl is how t was made of seq: by a permutation of its places, or by some of them.
Picks(pl, t, seq, places) ==
    /\ t = [k \in 1..Cardinality(places) |-> seq[pl[k]]]
    /\ pl \in [1..Cardinality(places) -> places]
    /\ \A a \in places : \E k \in 1..Cardinality(places) : pl[k] = a
    /\ \A j, k \in 1..Cardinality(places) : j # k => pl[j] # pl[k]

LEMMA SortedPicks ==
    ASSUME NEW W, NEW seq \in Seq(W), NEW key, \A a \in 1..Len(seq) : key[seq[a]] \in Int
    PROVE  \E pl : /\ Picks(pl, SortedBy(seq, key), seq, 1..Len(seq))
                   /\ \A j, k \in 1..Len(seq) : j < k => key[seq[pl[j]]] >= key[seq[pl[k]]]
<1> DEFINE n == Len(seq)
           R == {p \in (1..n) \X (1..n) : \/ key[seq[p[1]]] > key[seq[p[2]]]
                                          \/ (key[seq[p[1]]] = key[seq[p[2]]] /\ p[1] < p[2])}
<1>1. n \in Nat /\ DOMAIN seq = 1..n
  OBVIOUS
<1>0. \A a \in 1..n : key[seq[a]] \in Int
  OBVIOUS
<1>2. IsFiniteSet(1..n) /\ Cardinality(1..n) = n
  BY <1>1, FS_Interval, SMTT(20), ZenonT(60)
<1>3. \A a, b \in 1..n : <<a, b>> \in R <=> \/ key[seq[a]] > key[seq[b]]
                                           \/ (key[seq[a]] = key[seq[b]] /\ a < b)
  <2> TAKE a, b \in 1..n
  <2>1. <<a, b>> \in (1..n) \X (1..n) /\ <<a, b>>[1] = a /\ <<a, b>>[2] = b
    OBVIOUS
  <2> DEFINE Before(p) == \/ key[seq[p[1]]] > key[seq[p[2]]]
                          \/ (key[seq[p[1]]] = key[seq[p[2]]] /\ p[1] < p[2])
  <2>2. <<a, b>> \in R <=> Before(<<a, b>>)
    <3>1. R = {p \in (1..n) \X (1..n) : Before(p)}
      OBVIOUS
    <3> HIDE DEF Before, R
    <3> QED  BY <2>1, <3>1
  <2> HIDE DEF R
  <2> QED  BY <2>1, <2>2
<1>4. Linear(R, 1..n)
  <2> HIDE DEF R
  <2>2. \A a, b \in 1..n : a # b => <<a, b>> \in R \/ <<b, a>> \in R
    BY <1>0, <1>3
  <2>3. \A a, b, c \in 1..n : <<a, b>> \in R /\ <<b, c>> \in R => <<a, c>> \in R
    BY <1>0, <1>3, SMTT(20), ZenonT(60)
  <2>4. \A a \in 1..n : <<a, a>> \notin R
    BY <1>0, <1>3
  <2> QED  BY <2>2, <2>3, <2>4 DEF Linear
<1> DEFINE pl == Listed(1..n, R)
<1>5. Lists(pl, 1..n, R)
  <2> HIDE DEF n, R
  <2> QED  BY <1>2, <1>4, ListedLists
<1>6. SortedBy(seq, key) = [k \in 1..n |-> seq[pl[k]]]
  BY <1>1 DEF SortedBy
<1> HIDE DEF pl, R
<1>7. /\ pl \in [1..n -> 1..n]
      /\ \A a \in 1..n : \E k \in 1..n : pl[k] = a
      /\ \A j, k \in 1..n : j < k => <<pl[j], pl[k]>> \in R
  BY <1>2, <1>5 DEF Lists
<1>8. \A j, k \in 1..n : j < k => /\ pl[j] # pl[k]
                                  /\ key[seq[pl[j]]] >= key[seq[pl[k]]]
  <2> SUFFICES ASSUME NEW j \in 1..n, NEW k \in 1..n, j < k
               PROVE  pl[j] # pl[k] /\ key[seq[pl[j]]] >= key[seq[pl[k]]]
    OBVIOUS
  <2>1. pl[j] \in 1..n /\ pl[k] \in 1..n /\ <<pl[j], pl[k]>> \in R
    BY <1>7
  <2> DEFINE x == pl[j]
             y == pl[k]
  <2>2. x \in 1..n /\ y \in 1..n /\ <<x, y>> \in R
    BY <2>1
  <2> HIDE DEF x, y
  <2>3. key[seq[x]] \in Int /\ key[seq[y]] \in Int
    BY <1>0, <2>2
  <2>4. key[seq[x]] >= key[seq[y]] /\ x # y
    BY <1>3, <2>2, <2>3
  <2> QED  BY <2>4 DEF x, y
<1>9. \A j, k \in 1..n : j # k => pl[j] # pl[k]
  <2>1. \A j, k \in 1..n : j # k => j < k \/ k < j
    OBVIOUS
  <2> QED  BY <1>8, <2>1
<1>10. Picks(pl, SortedBy(seq, key), seq, 1..n)
  BY <1>2, <1>6, <1>7, <1>9 DEF Picks
<1> QED  BY <1>8, <1>10

LEMMA ThosePicks ==
    ASSUME NEW W, NEW seq \in Seq(W), NEW S
    PROVE  \E pl : Picks(pl, Those(seq, S), seq, {a \in 1..Len(seq) : seq[a] \in S})
<1> DEFINE P == {a \in 1..Len(seq) : seq[a] \in S}
           R == {p \in P \X P : p[1] < p[2]}
           pl == Listed(P, R)
<1>1. Len(seq) \in Nat /\ DOMAIN seq = 1..Len(seq)
  OBVIOUS
<1>2. IsFiniteSet(P)
  <2>1. P \in SUBSET (1..Len(seq))
    OBVIOUS
  <2>2. IsFiniteSet(1..Len(seq))
    BY <1>1, FS_Interval
  <2> QED  BY <2>1, <2>2, FS_Subset
<1>3. Linear(R, P)
  <2>1. \A a \in P : a \in Int
    OBVIOUS
  <2>2. \A a, b \in P : <<a, b>> \in R <=> a < b
    OBVIOUS
  <2> HIDE DEF P, R
  <2> QED  BY <2>1, <2>2 DEF Linear
<1>4. Lists(pl, P, R)
  <2> HIDE DEF P, R
  <2> QED  BY <1>2, <1>3, ListedLists
<1>5. DOMAIN pl = 1..Cardinality(P)
  <2> HIDE DEF P, R, pl
  <2> QED  BY <1>4 DEF Lists
<1>6. Those(seq, S) = [k \in DOMAIN pl |-> seq[pl[k]]]
  BY <1>1 DEF Those
<1>7. \A a, b \in P : <<a, b>> \in R => a # b
  OBVIOUS
<1>8. Cardinality(P) \in Nat
  <2> HIDE DEF P
  <2> QED  BY <1>2, FS_CardinalityType
<1>9. \A j, k \in 1..Cardinality(P) : j # k => pl[j] # pl[k]
  <2> HIDE DEF P, R, pl
  <2>1. \A j, k \in 1..Cardinality(P) : j # k => j < k \/ k < j
    BY <1>8
  <2>2. \A j \in 1..Cardinality(P) : pl[j] \in P
    BY <1>4 DEF Lists
  <2>3. \A j, k \in 1..Cardinality(P) : j < k => pl[j] # pl[k]
    BY <1>4, <1>7, <2>2 DEF Lists
  <2> QED  BY <2>1, <2>3
<1>10. Picks(pl, Those(seq, S), seq, P)
  <2> HIDE DEF P, R, pl
  <2> QED  BY <1>4, <1>5, <1>6, <1>9 DEF Picks, Lists
<1> QED  BY <1>10

(***************************************************************************)
(* Sequences.                                                              *)
(***************************************************************************)

OneEach(seq) == \A j, k \in 1..Len(seq) : j # k => seq[j] # seq[k]

\* A set of positions that is not empty has a first one.
LEMMA FirstPosition ==
    ASSUME NEW s \in SUBSET Nat, s # {}
    PROVE  Min(s) \in s /\ \A y \in s : Min(s) <= y
<1> DEFINE Less == {p \in Nat \X Nat : p[1] < p[2]}
<1>1. IsWellFoundedOn(Less, Nat)
  BY NatLessThanWellFounded DEF OpToRel
<1>2. PICK m \in s : \A t \in s : <<t, m>> \notin Less
  <2> HIDE DEF Less
  <2> QED  BY <1>1, WFMin
<1>3. \A t \in s : m <= t
  <2> TAKE t \in s
  <2>1. <<t, m>> \notin Less /\ t \in Nat /\ m \in Nat
    BY <1>2
  <2>2. ~(t < m)
    BY <2>1
  <2> QED  BY <2>1, <2>2
<1> QED  BY <1>3 DEF Min

LEMMA ConcatFacts ==
    ASSUME NEW W, NEW s \in Seq(W), NEW t \in Seq(W)
    PROVE  /\ s \o t \in Seq(W) /\ Len(s \o t) = Len(s) + Len(t)
           /\ \A e : e \in ToSet(s \o t) <=> e \in ToSet(s) \/ e \in ToSet(t)
           /\ OneEach(s) /\ OneEach(t) /\ ToSet(s) \cap ToSet(t) = {} => OneEach(s \o t)
<1>1. /\ s \o t \in Seq(W) /\ Len(s) \in Nat /\ Len(t) \in Nat /\ Len(s \o t) = Len(s) + Len(t)
      /\ \A k \in 1..(Len(s) + Len(t)) : (s \o t)[k] = IF k <= Len(s) THEN s[k] ELSE t[k - Len(s)]
  OBVIOUS
<1>2. ASSUME NEW e PROVE e \in ToSet(s \o t) <=> e \in ToSet(s) \/ e \in ToSet(t)
  <2>1. ASSUME e \in ToSet(s) PROVE e \in ToSet(s \o t)
    <3>1. PICK k \in 1..Len(s) : s[k] = e
      BY <2>1 DEF ToSet
    <3>2. k \in 1..Len(s \o t) /\ (s \o t)[k] = e
      BY <1>1, <3>1
    <3> QED  BY <1>1, <3>2 DEF ToSet
  <2>2. ASSUME e \in ToSet(t) PROVE e \in ToSet(s \o t)
    <3>1. PICK k \in 1..Len(t) : t[k] = e
      BY <2>2 DEF ToSet
    <3>2. Len(s) + k \in 1..Len(s \o t) /\ (s \o t)[Len(s) + k] = e
      BY <1>1, <3>1
    <3> QED  BY <1>1, <3>2 DEF ToSet
  <2>3. ASSUME e \in ToSet(s \o t) PROVE e \in ToSet(s) \/ e \in ToSet(t)
    <3>1. PICK k \in 1..(Len(s) + Len(t)) : (s \o t)[k] = e
      BY <1>1, <2>3 DEF ToSet
    <3>2. CASE k <= Len(s)
      BY <1>1, <3>1, <3>2 DEF ToSet
    <3>3. CASE ~(k <= Len(s))
      <4>1. k - Len(s) \in 1..Len(t) /\ t[k - Len(s)] = e
        BY <1>1, <3>1, <3>3
      <4> QED  BY <4>1 DEF ToSet
    <3> QED  BY <3>2, <3>3
  <2> QED  BY <2>1, <2>2, <2>3
<1>3. ASSUME OneEach(s), OneEach(t), ToSet(s) \cap ToSet(t) = {}, NEW j \in 1..(Len(s) + Len(t)),
             NEW k \in 1..(Len(s) + Len(t)), j < k
      PROVE  (s \o t)[j] # (s \o t)[k]
  <2>1. CASE k <= Len(s)
    BY <1>1, <1>3, <2>1 DEF OneEach
  <2>2. CASE j > Len(s)
    <3>1. j - Len(s) \in 1..Len(t) /\ k - Len(s) \in 1..Len(t) /\ j - Len(s) # k - Len(s)
      BY <1>1, <1>3, <2>2
    <3> QED  BY <1>1, <1>3, <2>2, <3>1 DEF OneEach
  <2>3. CASE j <= Len(s) /\ k > Len(s)
    <3>1. j \in 1..Len(s) /\ k - Len(s) \in 1..Len(t)
      BY <1>1, <2>3
    <3>2. s[j] \in ToSet(s) /\ t[k - Len(s)] \in ToSet(t)
      BY <3>1 DEF ToSet
    <3>3. (s \o t)[j] = s[j] /\ (s \o t)[k] = t[k - Len(s)]
      BY <1>1, <2>3
    <3> QED  BY <1>3, <3>2, <3>3
  <2> QED  BY <1>1, <2>1, <2>2, <2>3
<1>4. ASSUME OneEach(s), OneEach(t), ToSet(s) \cap ToSet(t) = {} PROVE OneEach(s \o t)
  <2>1. \A j, k \in 1..(Len(s) + Len(t)) : j < k => (s \o t)[j] # (s \o t)[k]
    BY <1>3, <1>4
  <2>2. \A j, k \in 1..(Len(s) + Len(t)) : j # k => j < k \/ k < j
    BY <1>1
  <2> QED  BY <1>1, <2>1, <2>2 DEF OneEach
<1> QED  BY <1>1, <1>2, <1>4

LEMMA NothingBefore ==
    ASSUME NEW W, NEW s \in Seq(W)
    PROVE  <<>> \o s = s
<1>1. /\ <<>> \in Seq(W) /\ <<>> \o s \in Seq(W) /\ Len(<<>> \o s) = Len(s) /\ Len(s) \in Nat
      /\ \A k \in 1..Len(s) : (<<>> \o s)[k] = s[k]
  OBVIOUS
<1> QED  BY <1>1

LEMMA FlattenIterates ==
    ASSUME NEW W, NEW seqs \in Seq(Seq(W))
    PROVE  \E f \in [0..Len(seqs) -> Seq(W)] :
              /\ f[0] = <<>>
              /\ \A i \in 1..Len(seqs) : f[i] = f[i - 1] \o seqs[i]
              /\ FlattenSeq(seqs) = f[Len(seqs)]
<1> DEFINE n == Len(seqs)
           G == [p \in (1..n) \X Seq(W) |-> p[2] \o seqs[p[1]]]
<1>1. n \in Nat /\ DOMAIN seqs = 1..n /\ \A i \in 1..n : seqs[i] \in Seq(W)
  OBVIOUS
<1>2. G \in [(1..n) \X Seq(W) -> Seq(W)]
  BY <1>1
<1>3. <<>> \in Seq(W)
  OBVIOUS
<1>4. PICK f \in [0..n -> Seq(W)] : f[0] = <<>> /\ \A i \in 1..n : f[i] = G[<<i, f[i - 1]>>]
  <2>1. PICK it \in [SUBSET (1..n) -> Seq(W)] : IsFold(it, n, <<>>, G)
    <3> HIDE DEF G, n
    <3> QED  BY <1>1, <1>2, <1>3, FoldExists
  <2>2. it[{}] = <<>>
    BY <2>1 DEF IsFold
  <2>3. \A s \in SUBSET (1..n) : s # {} => it[s] = G[<<Max(s), it[s \ {Max(s)}]>>]
    <3> HIDE DEF G, n
    <3> QED  BY <2>1 DEF IsFold
  <2>4. Folds(it, n, Seq(W), <<>>, G)
    <3> HIDE DEF G, n
    <3> QED  BY <2>2, <2>3 DEF Folds
  <2>5. Iterated(it[1..n], n, Seq(W), <<>>, G)
    <3> HIDE DEF G, n
    <3> QED  BY <1>1, <1>2, <1>3, <2>4, FoldIterates
  <2> HIDE DEF G, n
  <2> QED  BY <2>5 DEF Iterated, IsIteration
<1>5. \A i \in 1..n : f[i] = f[i - 1] \o seqs[i]
  <2> TAKE i \in 1..n
  <2>1. i - 1 \in 0..n
    BY <1>1
  <2>2. f[i - 1] \in Seq(W)
    BY <2>1
  <2> QED  BY <1>4, <2>2
<1>6. CASE n = 0
  <2>1. FlattenSeq(seqs) = <<>>
    BY <1>1, <1>6 DEF FlattenSeq
  <2> QED  BY <1>4, <1>5, <1>6, <2>1
<1>7. CASE n # 0
  <2> DEFINE Is(g) == g = [i \in 1..n |-> IF i = 1 THEN seqs[i] ELSE g[i - 1] \o seqs[i]]
             ch == CHOOSE g : Is(g)
             e == [i \in 1..n |-> f[i]]
  <2>1. FlattenSeq(seqs) = ch[n]
    BY <1>1, <1>7 DEF FlattenSeq
  <2>2. Is(e)
    <3>1. \A i \in 1..n : e[i] = IF i = 1 THEN seqs[i] ELSE e[i - 1] \o seqs[i]
      <4> TAKE i \in 1..n
      <4>1. CASE i = 1
        <5>1. 1 \in 1..n /\ 1 - 1 = 0
          BY <4>1
        <5>2. f[1] = f[1 - 1] \o seqs[1] /\ f[0] = <<>> /\ seqs[1] \in Seq(W)
          <6> HIDE DEF G
          <6> QED  BY <1>1, <1>4, <1>5, <5>1
        <5>3. f[1] = seqs[1]
          BY <5>1, <5>2, NothingBefore
        <5> QED  BY <4>1, <5>3
      <4>2. CASE i # 1
        <5>1. i - 1 \in 1..n
          BY <1>1, <4>2
        <5> QED  BY <1>5, <4>2, <5>1
      <4> QED  BY <4>1, <4>2
    <3> QED  BY <3>1
  <2>3. Is(ch)
    <3> HIDE DEF Is, e
    <3> QED  BY <2>2
  <2> DEFINE Good == {i \in Nat : i + 1 <= n => ch[i + 1] = f[i + 1]}
  <2>4. \A i \in 1..n : ch[i] = IF i = 1 THEN seqs[i] ELSE ch[i - 1] \o seqs[i]
    <3> HIDE DEF ch
    <3> QED  BY <2>3
  <2> HIDE DEF ch, Is
  <2>5. f[1] = seqs[1]
    <3>1. 1 \in 1..n /\ 1 - 1 = 0
      BY <1>1, <1>7
    <3>2. f[1] = f[1 - 1] \o seqs[1] /\ f[0] = <<>> /\ seqs[1] \in Seq(W)
      <4> HIDE DEF G
      <4> QED  BY <1>1, <1>4, <1>5, <3>1
    <3> QED  BY <3>1, <3>2, NothingBefore
  <2>6. 0 \in Good
    BY <1>1, <2>4, <2>5
  <2>7. ASSUME NEW i \in Nat, i \in Good PROVE i + 1 \in Good
    <3>1. ASSUME (i + 1) + 1 <= n PROVE ch[(i + 1) + 1] = f[(i + 1) + 1]
      <4>1. ch[i + 1] = f[i + 1]
        BY <1>1, <2>7, <3>1
      <4>2. (i + 1) + 1 \in 1..n /\ (i + 1) + 1 # 1 /\ ((i + 1) + 1) - 1 = i + 1
        BY <1>1, <3>1
      <4>3. ch[(i + 1) + 1] = ch[i + 1] \o seqs[(i + 1) + 1]
        BY <2>4, <4>2
      <4>4. f[(i + 1) + 1] = f[i + 1] \o seqs[(i + 1) + 1]
        BY <1>5, <4>2
      <4> QED  BY <4>1, <4>3, <4>4
    <3> QED  BY <3>1
  <2>8. Nat \subseteq Good
    <3> HIDE DEF Good
    <3> QED  BY <2>6, <2>7, SetInduction
  <2>9. ch[n] = f[n]
    <3>1. n - 1 \in Nat /\ (n - 1) + 1 = n
      BY <1>1, <1>7
    <3>2. n - 1 \in Good
      BY <2>8, <3>1
    <3> QED  BY <1>1, <3>1, <3>2
  <2> QED  BY <1>4, <1>5, <2>1, <2>9
<1> QED  BY <1>6, <1>7

\* A sequence of sequences of different things, none in two of them, has each once.
LEMMA FlattenFacts ==
    ASSUME NEW W, NEW seqs \in Seq(Seq(W))
    PROVE  /\ FlattenSeq(seqs) \in Seq(W)
           /\ \A e : e \in ToSet(FlattenSeq(seqs)) <=> \E q \in 1..Len(seqs) : e \in ToSet(seqs[q])
           /\ /\ \A q \in 1..Len(seqs) : OneEach(seqs[q])
              /\ \A q, r \in 1..Len(seqs) : q # r => ToSet(seqs[q]) \cap ToSet(seqs[r]) = {}
              => OneEach(FlattenSeq(seqs))
<1> DEFINE n == Len(seqs)
           Apart == /\ \A q \in 1..n : OneEach(seqs[q])
                    /\ \A q, r \in 1..n : q # r => ToSet(seqs[q]) \cap ToSet(seqs[r]) = {}
<1>1. n \in Nat /\ \A q \in 1..n : seqs[q] \in Seq(W)
  OBVIOUS
<1>2. PICK f \in [0..n -> Seq(W)] :
              /\ f[0] = <<>>
              /\ \A i \in 1..n : f[i] = f[i - 1] \o seqs[i]
              /\ FlattenSeq(seqs) = f[n]
  BY FlattenIterates
<1> DEFINE Made(i) == /\ ToSet(f[i]) = UNION {ToSet(seqs[q]) : q \in 1..i}
                      /\ Apart => OneEach(f[i])
           Good == {i \in Nat : i <= n => Made(i)}
<1>3. 0 \in Good
  <2>1. ToSet(<<>>) = {} /\ OneEach(<<>>)
    BY DEF ToSet, OneEach
  <2>2. UNION {ToSet(seqs[q]) : q \in 1..0} = {}
    OBVIOUS
  <2> QED  BY <1>2, <2>1, <2>2
<1>4. ASSUME NEW i \in Nat, i \in Good PROVE i + 1 \in Good
  <2> SUFFICES ASSUME i + 1 <= n PROVE Made(i + 1)
    <3> HIDE DEF Made
    <3> QED  OBVIOUS
  <2>1. Made(i)
    <3> HIDE DEF Made
    <3> QED  BY <1>1, <1>4
  <2> DEFINE s == f[i]
             t == seqs[i + 1]
  <2>2. i + 1 \in 1..n /\ (i + 1) - 1 = i /\ i \in 0..n
    BY <1>1
  <2>3. s \in Seq(W) /\ t \in Seq(W) /\ f[i + 1] = s \o t
    BY <1>1, <1>2, <2>2
  <2>4. ToSet(f[i + 1]) = ToSet(s) \cup ToSet(t)
    <3> HIDE DEF s, t
    <3>1. \A e : e \in ToSet(s \o t) <=> e \in ToSet(s) \/ e \in ToSet(t)
      BY <2>3, ConcatFacts
    <3> QED  BY <2>3, <3>1
  <2>5. UNION {ToSet(seqs[q]) : q \in 1..(i + 1)} = (UNION {ToSet(seqs[q]) : q \in 1..i}) \cup ToSet(seqs[i + 1])
    <3>1. 1..(i + 1) = (1..i) \cup {i + 1}
      OBVIOUS
    <3> QED  BY <3>1
  <2>6. ToSet(f[i + 1]) = UNION {ToSet(seqs[q]) : q \in 1..(i + 1)}
    BY <2>1, <2>4, <2>5
  <2>7. ASSUME Apart PROVE OneEach(f[i + 1])
    <3>1. OneEach(s) /\ OneEach(t)
      BY <2>1, <2>2, <2>7
    <3>2. ToSet(s) \cap ToSet(t) = {}
      <4>1. \A q \in 1..i : q \in 1..n /\ q # i + 1
        BY <1>1, <2>2
      <4>2. \A q \in 1..i : ToSet(seqs[q]) \cap ToSet(seqs[i + 1]) = {}
        BY <2>2, <2>7, <4>1
      <4> QED  BY <2>1, <4>2
    <3> HIDE DEF s, t
    <3> QED  BY <2>3, <3>1, <3>2, ConcatFacts
  <2> QED  BY <2>6, <2>7
<1>5. Made(n)
  <2>1. Nat \subseteq Good
    <3> HIDE DEF Good
    <3> QED  BY <1>3, <1>4, SetInduction
  <2> HIDE DEF Made
  <2> QED  BY <1>1, <2>1
<1>6. \A e : e \in ToSet(FlattenSeq(seqs)) <=> \E q \in 1..n : e \in ToSet(seqs[q])
  BY <1>2, <1>5
<1>7. f[n] \in Seq(W)
  BY <1>1
<1> QED  BY <1>2, <1>5, <1>6, <1>7

(***************************************************************************)
(* The folds of the pipeline, as chains.                                   *)
(***************************************************************************)

SubQuery == [text : Texts \cup {Transcript}, merged_from : Seq(Texts)]

Row == [subquery : Nat, chunk : Chunks, rerank : Int \cup {None}, duplicate_of : Nat \cup {None},
        pair_id : (Nat \X Nat) \cup {None}, fusion : Int]

\* A text becomes a sub-query of its own, or is absorbed by one that asks the same.
LEMMA MergeIs ==
    ASSUME NEW seen \in Seq(SubQuery), NEW text \in Texts
    PROVE  \/ /\ \A i \in 1..Len(seen) : ~AsksTheSame(seen[i].text, text)
              /\ MergeInto(seen, text) = Append(seen, [text |-> text, merged_from |-> <<>>])
           \/ \E m \in 1..Len(seen) :
              /\ AsksTheSame(seen[m].text, text)
              /\ MergeInto(seen, text) =
                    [seen EXCEPT ![m] = [text |-> seen[m].text,
                                         merged_from |-> Append(seen[m].merged_from, text)]]
<1> DEFINE twins == {i \in DOMAIN seen : AsksTheSame(seen[i].text, text)}
           new == [text |-> text, merged_from |-> <<>>]
           longer == [seen EXCEPT ![Min(twins)].merged_from = Append(@, text)]
<1>1. MergeInto(seen, text) = IF twins = {} THEN Append(seen, new) ELSE longer
  BY DEF MergeInto
<1>2. CASE twins = {}
  BY <1>1, <1>2
<1>3. CASE twins # {}
  <2>1. twins \in SUBSET Nat /\ twins \in SUBSET (1..Len(seen))
    OBVIOUS
  <2>2. Min(twins) \in twins
    <3> HIDE DEF twins
    <3> QED  BY <1>3, <2>1, FirstPosition
  <2>3. PICK m \in 1..Len(seen) : m = Min(twins) /\ AsksTheSame(seen[m].text, text)
    BY <2>1, <2>2
  <2> HIDE DEF twins
  <2> DEFINE absorbing == [text |-> seen[m].text, merged_from |-> Append(seen[m].merged_from, text)]
  <2>4. longer = [seen EXCEPT ![m] = absorbing]
    <3>1. seen[m] \in SubQuery
      OBVIOUS
    <3>2. [seen[m] EXCEPT !.merged_from = Append(seen[m].merged_from, text)] = absorbing
      <4>1. \A r \in SubQuery : \A x : [r EXCEPT !.merged_from = x] = [text |-> r.text, merged_from |-> x]
        BY DEF SubQuery
      <4> QED  BY <3>1, <4>1
    <3>3. longer = [seen EXCEPT ![m] = [seen[m] EXCEPT !.merged_from = Append(@, text)]]
      <4> HIDE DEF absorbing
      <4> QED  BY <2>3
    <3> HIDE DEF longer, absorbing
    <3> QED  BY <3>2, <3>3
  <2> HIDE DEF longer
  <2> QED  BY <1>1, <1>3, <2>3, <2>4
<1> QED  BY <1>2, <1>3

LEMMA MergeKeepsType ==
    ASSUME NEW seen \in Seq(SubQuery), NEW text \in Texts
    PROVE  MergeInto(seen, text) \in Seq(SubQuery)
<1> DEFINE new == [text |-> text, merged_from |-> <<>>]
           absorbing(m) == [text |-> seen[m].text, merged_from |-> Append(seen[m].merged_from, text)]
<1>1. Append(seen, new) \in Seq(SubQuery)
  BY DEF SubQuery
<1>2. ASSUME NEW m \in 1..Len(seen) PROVE [seen EXCEPT ![m] = absorbing(m)] \in Seq(SubQuery)
  <2>1. seen \in [1..Len(seen) -> SubQuery] /\ Len(seen) \in Nat
    OBVIOUS
  <2>2. absorbing(m) \in SubQuery
    <3>1. seen[m] \in SubQuery
      BY <2>1
    <3>2. seen[m].text \in Texts \cup {Transcript} /\ seen[m].merged_from \in Seq(Texts)
      BY <3>1 DEF SubQuery
    <3>3. Append(seen[m].merged_from, text) \in Seq(Texts)
      BY <3>2
    <3> QED  BY <3>2, <3>3 DEF SubQuery
  <2> HIDE DEF absorbing
  <2>3. [seen EXCEPT ![m] = absorbing(m)] \in [1..Len(seen) -> SubQuery]
    BY <2>1, <2>2
  <2> QED  BY <2>1, <2>3
<1>3. CASE MergeInto(seen, text) = Append(seen, new)
  BY <1>1, <1>3
<1>4. ASSUME NEW m \in 1..Len(seen), MergeInto(seen, text) = [seen EXCEPT ![m] = absorbing(m)]
      PROVE  MergeInto(seen, text) \in Seq(SubQuery)
  <2> HIDE DEF absorbing
  <2> QED  BY <1>2, <1>4
<1>5. \/ MergeInto(seen, text) = Append(seen, new)
      \/ \E m \in 1..Len(seen) : MergeInto(seen, text) = [seen EXCEPT ![m] = absorbing(m)]
  BY MergeIs
<1> HIDE DEF absorbing, new
<1> QED  BY <1>3, <1>4, <1>5

\* What merge_similar has after each text
LEMMA MergeChain ==
    ASSUME NEW proposed \in Seq(Texts)
    PROVE  \E f \in [0..Len(proposed) -> Seq(SubQuery)] :
              /\ f[0] = <<>>
              /\ \A i \in 1..Len(proposed) : f[i] = MergeInto(f[i - 1], proposed[i])
              /\ merge_similar(proposed) = f[Len(proposed)]
<1> DEFINE n == Len(proposed)
           V == Seq(SubQuery)
           G == [p \in (1..n) \X V |-> MergeInto(p[2], proposed[p[1]])]
           Is(it) == it = [s \in SUBSET (1..n) |->
                             IF s = {} THEN <<>> ELSE MergeInto(it[s \ {Max(s)}], proposed[Max(s)])]
           ch == CHOOSE it : Is(it)
<1>1. n \in Nat /\ DOMAIN proposed = 1..n
  OBVIOUS
<1>2. <<>> \in V
  OBVIOUS
<1>3. \A v \in V, i \in 1..n : MergeInto(v, proposed[i]) \in V
  <2> SUFFICES ASSUME NEW v \in V, NEW i \in 1..n PROVE MergeInto(v, proposed[i]) \in V
    OBVIOUS
  <2>1. proposed[i] \in Texts
    OBVIOUS
  <2> QED  BY <2>1, MergeKeepsType
<1>4. G \in [(1..n) \X V -> V]
  BY <1>3
<1>5. \A i \in 1..n, v \in V : G[<<i, v>>] = MergeInto(v, proposed[i])
  OBVIOUS
<1>6. \A s \in SUBSET (1..n) : s # {} => Max(s) \in 1..n
  BY <1>1, LastPosition
<1> HIDE DEF V, G
<1>7. Is(ch)
  <2>1. PICK it \in [SUBSET (1..n) -> V] : IsFold(it, n, <<>>, G)
    BY <1>1, <1>2, <1>4, FoldExists
  <2>2. \A s \in SUBSET (1..n) : it[s] = IF s = {} THEN <<>> ELSE MergeInto(it[s \ {Max(s)}], proposed[Max(s)])
    <3> TAKE s \in SUBSET (1..n)
    <3>1. CASE s = {}
      BY <2>1, <3>1 DEF IsFold
    <3>2. CASE s # {}
      <4>1. it[s] = G[<<Max(s), it[s \ {Max(s)}]>>]
        BY <2>1, <3>2 DEF IsFold
      <4>2. it[s \ {Max(s)}] \in V
        BY <2>1
      <4> QED  BY <1>5, <1>6, <3>2, <4>1, <4>2
    <3> QED  BY <3>1, <3>2
  <2>3. Is(it)
    BY <2>1, <2>2
  <2> HIDE DEF Is
  <2> QED  BY <2>3
<1>8. merge_similar(proposed) = ch[1..n]
  BY <1>1 DEF merge_similar, FoldLeft, MapThenFoldSet
<1>9. /\ ch[{}] = <<>>
      /\ \A s \in SUBSET (1..n) : s # {} => ch[s] = MergeInto(ch[s \ {Max(s)}], proposed[Max(s)])
  <2> HIDE DEF ch
  <2> QED  BY <1>7
<1> HIDE DEF ch, Is
<1>10. Folds(ch, n, V, <<>>, G)
  BY <1>5, <1>6, <1>9 DEF Folds
<1>11. Iterated(ch[1..n], n, V, <<>>, G)
  BY <1>1, <1>2, <1>4, <1>10, FoldIterates
<1>12. PICK f \in [0..n -> V] : IsIteration(f, n, <<>>, G) /\ ch[1..n] = f[n]
  BY <1>11 DEF Iterated
<1>13. \A i \in 1..n : f[i] = MergeInto(f[i - 1], proposed[i])
  <2> TAKE i \in 1..n
  <2>1. i - 1 \in 0..n
    BY <1>1
  <2>2. f[i] = G[<<i, f[i - 1]>>] /\ f[i - 1] \in V
    BY <1>12, <2>1 DEF IsIteration
  <2> QED  BY <1>5, <2>2
<1> QED  BY <1>8, <1>12, <1>13 DEF IsIteration, V

\* Rows with the chunks of rs and its duplicates
Like(rs) ==
    {r \in [1..Len(rs) -> Row] :
        \A k \in 1..Len(rs) : r[k].chunk = rs[k].chunk /\ r[k].duplicate_of = rs[k].duplicate_of}

\* A comparison changes nothing but pair_id.
LEMMA FlagKeepsRows ==
    ASSUME NEW rs \in Seq(Row), NEW v \in Like(rs), NEW pair \in (1..Len(rs)) \X (1..Len(rs))
    PROVE  FlagPair(v, pair) \in Like(rs)
<1> DEFINE id == IF v[pair[1]].pair_id # None THEN v[pair[1]].pair_id
                 ELSE IF v[pair[2]].pair_id # None THEN v[pair[2]].pair_id ELSE pair
           next == [v EXCEPT ![pair[1]].pair_id = id, ![pair[2]].pair_id = id]
<1>1. PICK a \in 1..Len(rs), b \in 1..Len(rs) : pair = <<a, b>>
  OBVIOUS
<1>2. v \in [1..Len(rs) -> Row] /\ \A k \in 1..Len(rs) : v[k] \in Row
  BY DEF Like
<1>3. id \in (Nat \X Nat) \cup {None}
  BY <1>1, <1>2, SMTT(20), ZenonT(60) DEF Row
<1>4. next \in Like(rs)
  <2> DEFINE One(k) == [v[k] EXCEPT !.pair_id = id]
  <2>1. \A k \in 1..Len(rs) : next[k] = IF k = a \/ k = b THEN One(k) ELSE v[k]
    <3> HIDE DEF id
    <3> QED  BY <1>1, <1>2 DEF Row
  <2>2. \A k \in 1..Len(rs) : /\ One(k) \in Row /\ One(k).chunk = v[k].chunk
                               /\ One(k).duplicate_of = v[k].duplicate_of
    <3> HIDE DEF id
    <3> QED  BY <1>2, <1>3, ZenonT(60) DEF Row
  <2>3. DOMAIN next = 1..Len(rs) /\ next = [k \in 1..Len(rs) |-> next[k]]
    <3> HIDE DEF id
    <3> QED  BY <1>1, <1>2
  <2> HIDE DEF next, One
  <2> QED  BY <1>2, <2>1, <2>2, <2>3 DEF Like
<1>5. FlagPair(v, pair) \in {next, v}
  BY DEF FlagPair
<1> QED  BY <1>4, <1>5

\* What flag_contradictions has after each comparison
LEMMA FlagChain ==
    ASSUME NEW rs \in Seq(Row), NEW pairs \in Seq((1..Len(rs)) \X (1..Len(rs)))
    PROVE  \E f \in [0..Len(pairs) -> Like(rs)] :
              /\ f[0] = rs
              /\ \A i \in 1..Len(pairs) : f[i] = FlagPair(f[i - 1], pairs[i])
              /\ FoldLeft(FlagPair, rs, pairs) = f[Len(pairs)]
<1> DEFINE n == Len(pairs)
           V == Like(rs)
           G == [p \in (1..n) \X V |-> FlagPair(p[2], pairs[p[1]])]
           Is(it) == it = [s \in SUBSET (1..n) |->
                             IF s = {} THEN rs ELSE FlagPair(it[s \ {Max(s)}], pairs[Max(s)])]
           ch == CHOOSE it : Is(it)
<1>1. n \in Nat /\ DOMAIN pairs = 1..n
  OBVIOUS
<1>2. rs \in V
  BY DEF Like
<1>3. \A v \in V, i \in 1..n : FlagPair(v, pairs[i]) \in V
  <2> SUFFICES ASSUME NEW v \in V, NEW i \in 1..n PROVE FlagPair(v, pairs[i]) \in V
    OBVIOUS
  <2>1. pairs[i] \in (1..Len(rs)) \X (1..Len(rs))
    OBVIOUS
  <2> QED  BY <2>1, FlagKeepsRows
<1>4. G \in [(1..n) \X V -> V]
  BY <1>3
<1>5. \A i \in 1..n, v \in V : G[<<i, v>>] = FlagPair(v, pairs[i])
  OBVIOUS
<1>6. \A s \in SUBSET (1..n) : s # {} => Max(s) \in 1..n
  BY <1>1, LastPosition
<1> HIDE DEF V, G
<1>7. Is(ch)
  <2>1. PICK it \in [SUBSET (1..n) -> V] : IsFold(it, n, rs, G)
    BY <1>1, <1>2, <1>4, FoldExists
  <2>2. \A s \in SUBSET (1..n) : it[s] = IF s = {} THEN rs ELSE FlagPair(it[s \ {Max(s)}], pairs[Max(s)])
    <3> TAKE s \in SUBSET (1..n)
    <3>1. CASE s = {}
      BY <2>1, <3>1 DEF IsFold
    <3>2. CASE s # {}
      <4>1. it[s] = G[<<Max(s), it[s \ {Max(s)}]>>]
        BY <2>1, <3>2 DEF IsFold
      <4>2. it[s \ {Max(s)}] \in V
        BY <2>1
      <4> QED  BY <1>5, <1>6, <3>2, <4>1, <4>2
    <3> QED  BY <3>1, <3>2
  <2>3. Is(it)
    BY <2>1, <2>2
  <2> HIDE DEF Is
  <2> QED  BY <2>3
<1>8. FoldLeft(FlagPair, rs, pairs) = ch[1..n]
  BY <1>1 DEF FoldLeft, MapThenFoldSet
<1>9. /\ ch[{}] = rs
      /\ \A s \in SUBSET (1..n) : s # {} => ch[s] = FlagPair(ch[s \ {Max(s)}], pairs[Max(s)])
  <2> HIDE DEF ch
  <2> QED  BY <1>7
<1> HIDE DEF ch, Is
<1>10. Folds(ch, n, V, rs, G)
  BY <1>5, <1>6, <1>9 DEF Folds
<1>11. Iterated(ch[1..n], n, V, rs, G)
  BY <1>1, <1>2, <1>4, <1>10, FoldIterates
<1>12. PICK f \in [0..n -> V] : IsIteration(f, n, rs, G) /\ ch[1..n] = f[n]
  BY <1>11 DEF Iterated
<1>13. \A i \in 1..n : f[i] = FlagPair(f[i - 1], pairs[i])
  <2> TAKE i \in 1..n
  <2>1. i - 1 \in 0..n
    BY <1>1
  <2>2. f[i] = G[<<i, f[i - 1]>>] /\ f[i - 1] \in V
    BY <1>12, <2>1 DEF IsIteration
  <2> QED  BY <1>5, <2>2
<1> QED  BY <1>8, <1>12, <1>13 DEF IsIteration, V

(***************************************************************************)
(* What sorting and selecting return.                                      *)
(***************************************************************************)

LEMMA PicksFacts ==
    ASSUME NEW W, NEW seq \in Seq(W), NEW places \in SUBSET (1..Len(seq)), NEW pl, NEW t,
           Picks(pl, t, seq, places)
    PROVE  /\ t \in Seq(W) /\ Len(t) = Cardinality(places) /\ Len(t) \in Nat
           /\ ToSet(t) = {seq[a] : a \in places}
           /\ OneEach(seq) => OneEach(t)
<1> DEFINE m == Cardinality(places)
<1>1. IsFiniteSet(places) /\ m \in Nat
  <2>1. IsFiniteSet(1..Len(seq))
    BY FS_Interval
  <2> QED  BY <2>1, FS_Subset, FS_CardinalityType
<1> HIDE DEF m
<1>2. /\ t = [k \in 1..m |-> seq[pl[k]]] /\ pl \in [1..m -> places]
      /\ \A a \in places : \E k \in 1..m : pl[k] = a
      /\ \A j, k \in 1..m : j # k => pl[j] # pl[k]
  BY DEF Picks, m
<1>3. \A k \in 1..m : pl[k] \in 1..Len(seq) /\ seq[pl[k]] \in W
  <2>1. \A a \in 1..Len(seq) : seq[a] \in W
    OBVIOUS
  <2>2. \A k \in 1..m : pl[k] \in 1..Len(seq)
    BY <1>2
  <2> QED  BY <2>1, <2>2
<1>4. t \in Seq(W) /\ Len(t) = m
  BY <1>1, <1>2, <1>3
<1>5. ToSet(t) = {seq[a] : a \in places}
  <2>1. ASSUME NEW e \in ToSet(t) PROVE e \in {seq[a] : a \in places}
    <3>1. PICK k \in 1..m : e = seq[pl[k]]
      BY <1>2, <2>1 DEF ToSet
    <3> QED  BY <1>2, <3>1
  <2>2. ASSUME NEW a \in places PROVE seq[a] \in ToSet(t)
    <3>1. PICK k \in 1..m : pl[k] = a
      BY <1>2
    <3>2. k \in DOMAIN t /\ t[k] = seq[a]
      BY <1>2, <3>1
    <3> QED  BY <3>2 DEF ToSet
  <2> QED  BY <2>1, <2>2
<1>6. ASSUME OneEach(seq) PROVE OneEach(t)
  <2>1. \A j, k \in 1..m : j # k => t[j] # t[k]
    BY <1>2, <1>3, <1>6 DEF OneEach
  <2> QED  BY <1>4, <2>1 DEF OneEach
<1> QED  BY <1>1, <1>4, <1>5, <1>6 DEF m

LEMMA ThoseFacts ==
    ASSUME NEW W, NEW seq \in Seq(W), NEW S
    PROVE  /\ Those(seq, S) \in Seq(W)
           /\ ToSet(Those(seq, S)) = ToSet(seq) \cap S
           /\ OneEach(seq) => OneEach(Those(seq, S))
<1> DEFINE P == {a \in 1..Len(seq) : seq[a] \in S}
<1>1. PICK pl : Picks(pl, Those(seq, S), seq, P)
  BY ThosePicks
<1>2. P \in SUBSET (1..Len(seq))
  OBVIOUS
<1>3. {seq[a] : a \in P} = ToSet(seq) \cap S
  BY DEF ToSet
<1> HIDE DEF P
<1> QED  BY <1>1, <1>2, <1>3, PicksFacts

LEMMA SortedFacts ==
    ASSUME NEW W, NEW seq \in Seq(W), NEW key, \A a \in 1..Len(seq) : key[seq[a]] \in Int
    PROVE  /\ SortedBy(seq, key) \in Seq(W)
           /\ Len(SortedBy(seq, key)) = Len(seq)
           /\ ToSet(SortedBy(seq, key)) = ToSet(seq)
           /\ OneEach(seq) => OneEach(SortedBy(seq, key))
           /\ \A j, k \in 1..Len(seq) : j < k => key[SortedBy(seq, key)[j]] >= key[SortedBy(seq, key)[k]]
<1> DEFINE P == 1..Len(seq)
<1>1. PICK pl : /\ Picks(pl, SortedBy(seq, key), seq, P)
                /\ \A j, k \in 1..Len(seq) : j < k => key[seq[pl[j]]] >= key[seq[pl[k]]]
  BY SortedPicks
<1>2. P \in SUBSET (1..Len(seq)) /\ Cardinality(P) = Len(seq)
  <2>1. Len(seq) \in Nat
    OBVIOUS
  <2>2. Cardinality(1..Len(seq)) = IF 1 > Len(seq) THEN 0 ELSE Len(seq) - 1 + 1
    BY <2>1, FS_Interval
  <2> QED  BY <2>1, <2>2
<1>3. {seq[a] : a \in P} = ToSet(seq)
  BY DEF ToSet
<1>4. \A k \in 1..Len(seq) : SortedBy(seq, key)[k] = seq[pl[k]]
  BY <1>1, <1>2 DEF Picks
<1> HIDE DEF P
<1>5. /\ SortedBy(seq, key) \in Seq(W) /\ Len(SortedBy(seq, key)) = Len(seq)
      /\ ToSet(SortedBy(seq, key)) = ToSet(seq)
      /\ OneEach(seq) => OneEach(SortedBy(seq, key))
  BY <1>1, <1>2, <1>3, PicksFacts
<1> QED  BY <1>1, <1>4, <1>5

\* The first n of seq, or all of it
LEMMA UpToFacts ==
    ASSUME NEW W, NEW seq \in Seq(W), NEW n \in Nat
    PROVE  /\ UpTo(seq, n) \in Seq(W)
           /\ Len(UpTo(seq, n)) = (IF n < Len(seq) THEN n ELSE Len(seq))
           /\ \A k \in 1..Len(UpTo(seq, n)) : k \in 1..Len(seq) /\ UpTo(seq, n)[k] = seq[k]
           /\ ToSet(UpTo(seq, n)) \subseteq ToSet(seq)
           /\ OneEach(seq) => OneEach(UpTo(seq, n))
<1> DEFINE m == IF n < Len(seq) THEN n ELSE Len(seq)
<1>1. m \in Nat /\ m <= Len(seq) /\ Len(seq) \in Nat
  OBVIOUS
<1>2. UpTo(seq, n) = SubSeq(seq, 1, m)
  BY DEF UpTo
<1> HIDE DEF m
<1>3. /\ UpTo(seq, n) \in Seq(W) /\ Len(UpTo(seq, n)) = m
      /\ \A k \in 1..m : k \in 1..Len(seq) /\ UpTo(seq, n)[k] = seq[k]
  BY <1>1, <1>2
<1>4. ToSet(UpTo(seq, n)) \subseteq ToSet(seq)
  BY <1>3 DEF ToSet
<1>5. OneEach(seq) => OneEach(UpTo(seq, n))
  BY <1>3 DEF OneEach
<1> QED  BY <1>3, <1>4, <1>5 DEF m

LEMMA IdsFacts ==
    ASSUME rows \in Seq(Row)
    PROVE  /\ Ids \in Seq(1..Len(rows)) /\ Len(Ids) = Len(rows) /\ OneEach(Ids)
           /\ ToSet(Ids) = 1..Len(rows) /\ \A k \in 1..Len(rows) : Ids[k] = k
<1>1. DOMAIN rows = 1..Len(rows) /\ Len(rows) \in Nat
  OBVIOUS
<1>2. Ids = [k \in 1..Len(rows) |-> k]
  BY <1>1 DEF Ids
<1>3. Ids \in Seq(1..Len(rows)) /\ Len(Ids) = Len(rows) /\ DOMAIN Ids = 1..Len(rows)
  BY <1>1, <1>2
<1>4. ToSet(Ids) = 1..Len(rows)
  BY <1>2, <1>3 DEF ToSet
<1> QED  BY <1>2, <1>3, <1>4 DEF OneEach

(***************************************************************************)
(* Contradictions.                                                         *)
(***************************************************************************)

\* What a comparison flags stays flagged; the two rows it finds in disagreement are.
LEMMA FlagPairFlags ==
    ASSUME NEW rs \in Seq(Row), NEW v \in Like(rs), NEW a \in 1..Len(rs), NEW b \in 1..Len(rs)
    PROVE  /\ \A k \in 1..Len(rs) : v[k].pair_id # None => FlagPair(v, <<a, b>>)[k].pair_id # None
           /\ Disagree(rs[a].chunk, rs[b].chunk) => /\ FlagPair(v, <<a, b>>)[a].pair_id # None
                                                    /\ FlagPair(v, <<a, b>>)[b].pair_id # None
<1> DEFINE id == IF v[a].pair_id # None THEN v[a].pair_id
                 ELSE IF v[b].pair_id # None THEN v[b].pair_id ELSE <<a, b>>
           next == [v EXCEPT ![a].pair_id = id, ![b].pair_id = id]
<1>1. v \in [1..Len(rs) -> Row] /\ \A k \in 1..Len(rs) : v[k] \in Row
  BY DEF Like
<1>2. FlagPair(v, <<a, b>>) = IF Disagree(v[a].chunk, v[b].chunk) THEN next ELSE v
  BY DEF FlagPair
<1>3. id # None
  <2>1. <<a, b>> \in Nat \X Nat
    OBVIOUS
  <2> QED  BY <2>1, NoneAssumption
<1>4. \A k \in 1..Len(rs) : next[k].pair_id = IF k = a \/ k = b THEN id ELSE v[k].pair_id
  <2> DEFINE One(k) == [v[k] EXCEPT !.pair_id = id]
  <2>1. \A k \in 1..Len(rs) : next[k] = IF k = a \/ k = b THEN One(k) ELSE v[k]
    <3> HIDE DEF id
    <3> QED  BY <1>1 DEF Row
  <2>2. \A k \in 1..Len(rs) : One(k).pair_id = id
    <3> HIDE DEF id
    <3> QED  BY <1>1 DEF Row
  <2> HIDE DEF id, next, One
  <2> QED  BY <2>1, <2>2
<1>5. v[a].chunk = rs[a].chunk /\ v[b].chunk = rs[b].chunk
  BY DEF Like
<1> HIDE DEF id, next
<1> QED  BY <1>2, <1>3, <1>4, <1>5

LEMMA PairsFlagged ==
    ASSUME NEW rs \in Seq(Row), NEW pairs \in Seq((1..Len(rs)) \X (1..Len(rs)))
    PROVE  /\ FoldLeft(FlagPair, rs, pairs) \in Like(rs)
           /\ \A a, b \in 1..Len(rs) :
                 <<a, b>> \in ToSet(pairs) /\ Disagree(rs[a].chunk, rs[b].chunk)
                    => /\ FoldLeft(FlagPair, rs, pairs)[a].pair_id # None
                       /\ FoldLeft(FlagPair, rs, pairs)[b].pair_id # None
<1> DEFINE n == Len(pairs)
<1>1. n \in Nat /\ DOMAIN pairs = 1..n /\ \A i \in 1..n : pairs[i] \in (1..Len(rs)) \X (1..Len(rs))
  OBVIOUS
<1>2. PICK f \in [0..n -> Like(rs)] :
         /\ f[0] = rs
         /\ \A i \in 1..n : f[i] = FlagPair(f[i - 1], pairs[i])
         /\ FoldLeft(FlagPair, rs, pairs) = f[n]
  BY FlagChain
<1> DEFINE Flagged(i, j) == Disagree(rs[pairs[j][1]].chunk, rs[pairs[j][2]].chunk)
                               => f[i][pairs[j][1]].pair_id # None /\ f[i][pairs[j][2]].pair_id # None
           Good == {i \in Nat : i <= n => \A j \in 1..i : Flagged(i, j)}
<1>3. 0 \in Good
  OBVIOUS
<1>4. ASSUME NEW i \in Nat, i \in Good PROVE i + 1 \in Good
  <2> SUFFICES ASSUME i + 1 <= n, NEW j \in 1..(i + 1) PROVE Flagged(i + 1, j)
    <3> HIDE DEF Flagged
    <3> QED  OBVIOUS
  <2>1. i + 1 \in 1..n /\ (i + 1) - 1 = i /\ i \in 0..n /\ j \in 1..n
    BY <1>1
  <2>2. f[i] \in Like(rs) /\ f[i + 1] = FlagPair(f[i], pairs[i + 1])
    BY <1>2, <2>1
  <2>8. \A x \in 1..n : \E a \in 1..Len(rs), b \in 1..Len(rs) : pairs[x] = <<a, b>>
    <3>1. \A p \in (1..Len(rs)) \X (1..Len(rs)) : \E a \in 1..Len(rs), b \in 1..Len(rs) : p = <<a, b>>
      OBVIOUS
    <3> QED  BY <1>1, <3>1
  <2>3. PICK c \in 1..Len(rs), d \in 1..Len(rs) : pairs[i + 1] = <<c, d>>
    BY <2>1, <2>8
  <2>4. PICK a \in 1..Len(rs), b \in 1..Len(rs) : pairs[j] = <<a, b>>
    BY <2>1, <2>8
  <2>5. /\ \A k \in 1..Len(rs) : f[i][k].pair_id # None => f[i + 1][k].pair_id # None
        /\ Disagree(rs[c].chunk, rs[d].chunk) => f[i + 1][c].pair_id # None /\ f[i + 1][d].pair_id # None
    BY <2>2, <2>3, FlagPairFlags
  <2>6. CASE j = i + 1
    BY <2>3, <2>4, <2>5, <2>6
  <2>7. CASE j # i + 1
    <3>1. j \in 1..i
      BY <2>7
    <3>2. i <= n
      BY <1>1
    <3>3. Flagged(i, j)
      <4> HIDE DEF Flagged
      <4> QED  BY <1>4, <3>1, <3>2
    <3> QED  BY <2>4, <2>5, <3>3, SMTT(20), ZenonT(60)
  <2> QED  BY <2>6, <2>7
<1>5. \A j \in 1..n : Flagged(n, j)
  <2>1. Nat \subseteq Good
    <3> HIDE DEF Good
    <3> QED  BY <1>3, <1>4, SetInduction
  <2> HIDE DEF Flagged
  <2> QED  BY <1>1, <2>1, SMTT(20), ZenonT(60)
<1>6. f[n] \in Like(rs)
  BY <1>1
<1>7. ASSUME NEW a \in 1..Len(rs), NEW b \in 1..Len(rs), <<a, b>> \in ToSet(pairs),
             Disagree(rs[a].chunk, rs[b].chunk)
      PROVE  f[n][a].pair_id # None /\ f[n][b].pair_id # None
  <2>1. PICK j \in 1..n : pairs[j] = <<a, b>>
    BY <1>1, <1>7 DEF ToSet
  <2>2. Flagged(n, j)
    <3> HIDE DEF Flagged
    <3> QED  BY <1>5
  <2> QED  BY <1>7, <2>1, <2>2
<1> QED  BY <1>2, <1>6, <1>7

LEMMA ContradictionsFlagged ==
    ASSUME rows \in Seq(Row)
    PROVE  /\ flag_contradictions \in Like(rows)
           /\ \A i, j \in Active :
                 Disagree(rows[i].chunk, rows[j].chunk) => /\ flag_contradictions[i].pair_id # None
                                                           /\ flag_contradictions[j].pair_id # None
<1> DEFINE N == 1..Len(rows)
           active == Those(Ids, Active)
           pairs(i) == [j \in 1..(Len(active) - i) |-> <<active[i], active[i + j]>>]
           lists == [i \in DOMAIN active |-> pairs(i)]
           all == FlattenSeq(lists)
<1>1. active \in Seq(N) /\ ToSet(active) = Active
  <2>1. Active \subseteq N
    BY DEF Active
  <2>2. ToSet(Ids) \cap Active = Active
    BY <2>1, IdsFacts
  <2> QED  BY <2>2, IdsFacts, ThoseFacts
<1> HIDE DEF active
<1>2. Len(active) \in Nat /\ DOMAIN active = 1..Len(active) /\ \A k \in 1..Len(active) : active[k] \in N
  BY <1>1
<1>3. ASSUME NEW i \in 1..Len(active) PROVE pairs(i) \in Seq(N \X N)
  <2>1. \A j \in 1..(Len(active) - i) : i + j \in 1..Len(active)
    BY <1>2
  <2>2. \A j \in 1..(Len(active) - i) : <<active[i], active[i + j]>> \in N \X N
    BY <1>2, <2>1
  <2>3. Len(active) - i \in Nat
    BY <1>2
  <2>4. pairs(i) \in [1..(Len(active) - i) -> N \X N]
    BY <2>2
  <2> HIDE DEF pairs
  <2> QED  BY <2>3, <2>4
<1>4. lists \in Seq(Seq(N \X N)) /\ Len(lists) = Len(active)
  <2>1. lists \in [1..Len(active) -> Seq(N \X N)]
    <3> HIDE DEF pairs
    <3> QED  BY <1>2, <1>3
  <2> HIDE DEF lists
  <2> QED  BY <1>2, <2>1
<1>5. /\ all \in Seq(N \X N)
      /\ \A e : e \in ToSet(all) <=> \E q \in 1..Len(lists) : e \in ToSet(lists[q])
  BY <1>4, FlattenFacts
<1>6. flag_contradictions = FoldLeft(FlagPair, rows, all)
  BY DEF flag_contradictions, active
<1>7. ASSUME NEW a \in 1..Len(active), NEW b \in 1..Len(active), a < b
      PROVE  <<active[a], active[b]>> \in ToSet(all)
  <2>1. b - a \in 1..(Len(active) - a) /\ a + (b - a) = b
    BY <1>2, <1>7
  <2>2. <<active[a], active[b]>> \in ToSet(pairs(a))
    BY <2>1 DEF ToSet
  <2>3. a \in 1..Len(lists) /\ lists[a] = pairs(a)
    BY <1>2, <1>4
  <2> HIDE DEF pairs, lists, all
  <2> QED  BY <1>5, <2>2, <2>3
<1> HIDE DEF all, lists
<1>8. /\ flag_contradictions \in Like(rows)
      /\ \A a, b \in N : <<a, b>> \in ToSet(all) /\ Disagree(rows[a].chunk, rows[b].chunk)
                            => /\ flag_contradictions[a].pair_id # None
                               /\ flag_contradictions[b].pair_id # None
  BY <1>5, <1>6, PairsFlagged
<1>9. ASSUME NEW i \in Active, NEW j \in Active, Disagree(rows[i].chunk, rows[j].chunk)
      PROVE  flag_contradictions[i].pair_id # None /\ flag_contradictions[j].pair_id # None
  <2>1. PICK a \in 1..Len(active), b \in 1..Len(active) : active[a] = i /\ active[b] = j
    BY <1>1, <1>2 DEF ToSet
  <2>2. i # j
    BY <1>9 DEF Disagree
  <2>3. Disagree(rows[j].chunk, rows[i].chunk)
    BY <1>9 DEF Disagree
  <2>4. a < b \/ b < a
    BY <1>2, <2>1, <2>2
  <2>5. i \in N /\ j \in N
    BY DEF Active
  <2> QED  BY <1>7, <1>8, <1>9, <2>1, <2>3, <2>4, <2>5
<1> QED  BY <1>8, <1>9

(***************************************************************************)
(* Deduplication.                                                          *)
(***************************************************************************)

\* Rows that differ from those of rs in duplicate_of at most
SameBut(rs) ==
    {r \in [1..Len(rs) -> Row] :
        \A k \in 1..Len(rs) : /\ r[k].subquery = rs[k].subquery /\ r[k].chunk = rs[k].chunk
                              /\ r[k].fusion = rs[k].fusion /\ r[k].rerank = rs[k].rerank}

DedupState(rs) == [order : Seq(1..Len(rs)), rows : SameBut(rs)]

\* A step keeps the row, or makes it a duplicate of a kept one that says the same.
LEMMA DedupStepFacts ==
    ASSUME NEW rs \in Seq(Row), NEW acc \in DedupState(rs), NEW i \in 1..Len(rs)
    PROVE  /\ DedupStep(acc, i) \in DedupState(rs)
           /\ \/ /\ \A p \in 1..Len(acc.order) : ~SaysTheSame(rs[acc.order[p]].chunk, rs[i].chunk)
                 /\ DedupStep(acc, i).order = Append(acc.order, i)
                 /\ DedupStep(acc, i).rows = acc.rows
              \/ \E p \in 1..Len(acc.order) :
                 /\ SaysTheSame(rs[acc.order[p]].chunk, rs[i].chunk)
                 /\ DedupStep(acc, i).order = acc.order
                 /\ DedupStep(acc, i).rows[i].duplicate_of = acc.order[p]
                 /\ \A k \in 1..Len(rs) : k # i => DedupStep(acc, i).rows[k] = acc.rows[k]
<1> DEFINE twins == {p \in DOMAIN acc.order :
                        SaysTheSame(acc.rows[acc.order[p]].chunk, acc.rows[i].chunk)}
<1>1. /\ acc.order \in Seq(1..Len(rs)) /\ acc.rows \in SameBut(rs)
      /\ acc = [order |-> acc.order, rows |-> acc.rows]
  BY DEF DedupState
<1>2. /\ acc.rows \in [1..Len(rs) -> Row] /\ \A k \in 1..Len(rs) : acc.rows[k].chunk = rs[k].chunk
  BY <1>1 DEF SameBut
<1>3. DOMAIN acc.order = 1..Len(acc.order) /\ \A p \in 1..Len(acc.order) : acc.order[p] \in 1..Len(rs)
  BY <1>1
<1>4. twins = {p \in 1..Len(acc.order) : SaysTheSame(rs[acc.order[p]].chunk, rs[i].chunk)}
  BY <1>2, <1>3
<1>5. CASE twins = {}
  <2>1. DedupStep(acc, i) = [acc EXCEPT !.order = Append(@, i)]
    BY <1>5 DEF DedupStep
  <2> DEFINE longer == Append(acc.order, i)
  <2>2. DedupStep(acc, i) = [order |-> longer, rows |-> acc.rows]
    BY <1>1, <2>1
  <2>3. longer \in Seq(1..Len(rs))
    BY <1>1
  <2>4. DedupStep(acc, i) \in DedupState(rs)
    <3> HIDE DEF longer
    <3> QED  BY <1>1, <2>2, <2>3 DEF DedupState
  <2>5. \A p \in 1..Len(acc.order) : ~SaysTheSame(rs[acc.order[p]].chunk, rs[i].chunk)
    BY <1>4, <1>5
  <2> HIDE DEF twins
  <2> QED  BY <2>2, <2>4, <2>5
<1>6. CASE twins # {}
  <2>1. Min(twins) \in twins
    <3>1. twins \in SUBSET Nat
      BY <1>4
    <3> HIDE DEF twins
    <3> QED  BY <1>6, <3>1, FirstPosition
  <2>2. PICK p \in 1..Len(acc.order) : /\ p = Min(twins)
                                       /\ SaysTheSame(rs[acc.order[p]].chunk, rs[i].chunk)
    BY <1>4, <2>1
  <2>3. DedupStep(acc, i) = [acc EXCEPT !.rows[i].duplicate_of = acc.order[p]]
    BY <1>6, <2>2 DEF DedupStep
  <2> HIDE DEF twins
  <2> DEFINE j == acc.order[p]
             copy == [acc.rows[i] EXCEPT !.duplicate_of = j]
             marked == [acc.rows EXCEPT ![i] = copy]
  <2>4. j \in 1..Len(rs) /\ j \in Nat
    BY <1>3
  <2>5. acc.rows[i] \in Row
    BY <1>2
  <2>6. /\ copy \in Row /\ copy.duplicate_of = j /\ copy.chunk = acc.rows[i].chunk
        /\ copy.subquery = acc.rows[i].subquery /\ copy.fusion = acc.rows[i].fusion
        /\ copy.rerank = acc.rows[i].rerank
    <3> HIDE DEF j
    <3> QED  BY <2>4, <2>5 DEF Row
  <2>7. DedupStep(acc, i) = [order |-> acc.order, rows |-> marked]
    <3> HIDE DEF j
    <3> QED  BY <1>1, <2>3 DEF j
  <2> HIDE DEF copy, j
  <2>8. /\ marked \in [1..Len(rs) -> Row] /\ marked[i] = copy
        /\ \A k \in 1..Len(rs) : k # i => marked[k] = acc.rows[k]
    BY <1>2, <2>6
  <2> HIDE DEF marked
  <2>9. marked \in SameBut(rs)
    BY <1>1, <2>6, <2>8 DEF SameBut
  <2>10. DedupStep(acc, i) \in DedupState(rs)
    BY <1>1, <2>7, <2>9 DEF DedupState
  <2> QED  BY <2>2, <2>6, <2>7, <2>8, <2>10 DEF j
<1> QED  BY <1>5, <1>6

\* What dedup has after each row
LEMMA DedupChain ==
    ASSUME NEW rs \in Seq(Row), NEW ids \in Seq(1..Len(rs))
    PROVE  \E f \in [0..Len(ids) -> DedupState(rs)] :
              /\ f[0] = [order |-> <<>>, rows |-> rs]
              /\ \A i \in 1..Len(ids) : f[i] = DedupStep(f[i - 1], ids[i])
              /\ FoldLeft(DedupStep, [order |-> <<>>, rows |-> rs], ids) = f[Len(ids)]
<1> DEFINE n == Len(ids)
           V == DedupState(rs)
           G == [p \in (1..n) \X V |-> DedupStep(p[2], ids[p[1]])]
           Is(it) == it = [s \in SUBSET (1..n) |->
                             IF s = {} THEN [order |-> <<>>, rows |-> rs] ELSE DedupStep(it[s \ {Max(s)}], ids[Max(s)])]
           ch == CHOOSE it : Is(it)
<1>1. n \in Nat /\ DOMAIN ids = 1..n
  OBVIOUS
<1>2. [order |-> <<>>, rows |-> rs] \in V
  <2>1. rs \in SameBut(rs)
    BY DEF SameBut
  <2>2. <<>> \in Seq(1..Len(rs))
    OBVIOUS
  <2> QED  BY <2>1, <2>2 DEF DedupState
<1>3. \A v \in V, i \in 1..n : DedupStep(v, ids[i]) \in V
  <2> SUFFICES ASSUME NEW v \in V, NEW i \in 1..n PROVE DedupStep(v, ids[i]) \in V
    OBVIOUS
  <2>1. ids[i] \in 1..Len(rs)
    OBVIOUS
  <2> QED  BY <2>1, DedupStepFacts
<1>4. G \in [(1..n) \X V -> V]
  BY <1>3
<1>5. \A i \in 1..n, v \in V : G[<<i, v>>] = DedupStep(v, ids[i])
  OBVIOUS
<1>6. \A s \in SUBSET (1..n) : s # {} => Max(s) \in 1..n
  BY <1>1, LastPosition
<1> HIDE DEF V, G
<1>7. Is(ch)
  <2>1. PICK it \in [SUBSET (1..n) -> V] : IsFold(it, n, [order |-> <<>>, rows |-> rs], G)
    BY <1>1, <1>2, <1>4, FoldExists
  <2>2. \A s \in SUBSET (1..n) : it[s] = IF s = {} THEN [order |-> <<>>, rows |-> rs] ELSE DedupStep(it[s \ {Max(s)}], ids[Max(s)])
    <3> TAKE s \in SUBSET (1..n)
    <3>1. CASE s = {}
      BY <2>1, <3>1 DEF IsFold
    <3>2. CASE s # {}
      <4>1. it[s] = G[<<Max(s), it[s \ {Max(s)}]>>]
        BY <2>1, <3>2 DEF IsFold
      <4>2. it[s \ {Max(s)}] \in V
        BY <2>1
      <4> QED  BY <1>5, <1>6, <3>2, <4>1, <4>2
    <3> QED  BY <3>1, <3>2
  <2>3. Is(it)
    BY <2>1, <2>2
  <2> HIDE DEF Is
  <2> QED  BY <2>3
<1>8. FoldLeft(DedupStep, [order |-> <<>>, rows |-> rs], ids) = ch[1..n]
  BY <1>1 DEF FoldLeft, MapThenFoldSet
<1>9. /\ ch[{}] = [order |-> <<>>, rows |-> rs]
      /\ \A s \in SUBSET (1..n) : s # {} => ch[s] = DedupStep(ch[s \ {Max(s)}], ids[Max(s)])
  <2> HIDE DEF ch
  <2> QED  BY <1>7
<1> HIDE DEF ch, Is
<1>10. Folds(ch, n, V, [order |-> <<>>, rows |-> rs], G)
  BY <1>5, <1>6, <1>9 DEF Folds
<1>11. Iterated(ch[1..n], n, V, [order |-> <<>>, rows |-> rs], G)
  BY <1>1, <1>2, <1>4, <1>10, FoldIterates
<1>12. PICK f \in [0..n -> V] : IsIteration(f, n, [order |-> <<>>, rows |-> rs], G) /\ ch[1..n] = f[n]
  BY <1>11 DEF Iterated
<1>13. \A i \in 1..n : f[i] = DedupStep(f[i - 1], ids[i])
  <2> TAKE i \in 1..n
  <2>1. i - 1 \in 0..n
    BY <1>1
  <2>2. f[i] = G[<<i, f[i - 1]>>] /\ f[i - 1] \in V
    BY <1>12, <2>1 DEF IsIteration
  <2> QED  BY <1>5, <2>2
<1> QED  BY <1>8, <1>12, <1>13 DEF IsIteration, V

\* r, made of rs: a row is kept or a duplicate of a kept one that says the same and
\* scored no less; kept rows say different things.
Deduplicated(r, rs) ==
    /\ r \in SameBut(rs)
    /\ \A i \in 1..Len(rs) :
          r[i].duplicate_of # None =>
             /\ r[i].duplicate_of \in 1..Len(rs) /\ r[r[i].duplicate_of].duplicate_of = None
             /\ SaysTheSame(rs[i].chunk, rs[r[i].duplicate_of].chunk)
             /\ rs[r[i].duplicate_of].fusion >= rs[i].fusion
    /\ \A i, j \in 1..Len(rs) :
          i # j /\ r[i].duplicate_of = None /\ r[j].duplicate_of = None
             => ~SaysTheSame(rs[i].chunk, rs[j].chunk)

LEMMA SaysTheSameSymmetric ==
    ASSUME NEW c, NEW d, SaysTheSame(c, d)
    PROVE  SaysTheSame(d, c)
<1>1. ASSUME <<c, d>> \in AlikeChunks PROVE <<d, c>> \in AlikeChunks
  BY <1>1, ChunksAssumption DEF Symmetric
<1> QED  BY <1>1 DEF SaysTheSame

LEMMA Deduplicating ==
    ASSUME NEW rs \in Seq(Row), \A k \in 1..Len(rs) : rs[k].duplicate_of = None,
           NEW ids \in Seq(1..Len(rs)), OneEach(ids), ToSet(ids) = 1..Len(rs),
           \A j, k \in 1..Len(ids) : j < k => rs[ids[j]].fusion >= rs[ids[k]].fusion
    PROVE  Deduplicated(FoldLeft(DedupStep, [order |-> <<>>, rows |-> rs], ids).rows, rs)
<1> DEFINE n == Len(ids)
<1>1. n \in Nat /\ DOMAIN ids = 1..n /\ \A i \in 1..n : ids[i] \in 1..Len(rs)
  OBVIOUS
<1>2. PICK f \in [0..n -> DedupState(rs)] :
         /\ f[0] = [order |-> <<>>, rows |-> rs]
         /\ \A i \in 1..n : f[i] = DedupStep(f[i - 1], ids[i])
         /\ FoldLeft(DedupStep, [order |-> <<>>, rows |-> rs], ids) = f[n]
  BY DedupChain, ZenonT(60)
<1> DEFINE Kept(i) == ToSet(f[i].order)
           Dup(i, x) == f[i].rows[x].duplicate_of
           Represented(i, x) ==
              \/ x \in Kept(i) /\ Dup(i, x) = None
              \/ /\ x \notin Kept(i) /\ Dup(i, x) \in Kept(i)
                 /\ SaysTheSame(rs[x].chunk, rs[Dup(i, x)].chunk)
                 /\ rs[Dup(i, x)].fusion >= rs[x].fusion
           Waiting(i) == /\ \A x \in Kept(i) : \E k \in 1..i : x = ids[k]
                         /\ \A k \in 1..n : k > i => Dup(i, ids[k]) = None
           Seen(i) == \A k \in 1..i : Represented(i, ids[k])
           Apart(i) == \A x, y \in Kept(i) : x # y => ~SaysTheSame(rs[x].chunk, rs[y].chunk)
           Good == {i \in Nat : i <= n => Waiting(i) /\ Seen(i) /\ Apart(i)}
<1>3. 0 \in Good
  <2>1. Kept(0) = {}
    BY <1>2 DEF ToSet
  <2>2. \A k \in 1..n : Dup(0, ids[k]) = None
    BY <1>1, <1>2
  <2>3. Waiting(0) /\ Apart(0)
    <3> HIDE DEF Kept, Dup
    <3> QED  BY <2>1, <2>2
  <2>4. Seen(0)
    <3> HIDE DEF Represented
    <3> QED  OBVIOUS
  <2> HIDE DEF Waiting, Seen, Apart
  <2> QED  BY <2>3, <2>4
<1>4. ASSUME NEW i \in Nat, i \in Good PROVE i + 1 \in Good
  <2> SUFFICES ASSUME i + 1 <= n PROVE Waiting(i + 1) /\ Seen(i + 1) /\ Apart(i + 1)
    <3> HIDE DEF Waiting, Seen, Apart
    <3> QED  OBVIOUS
  <2>1. i + 1 \in 1..n /\ (i + 1) - 1 = i /\ i \in 0..n /\ i <= n
    BY <1>1
  <2>2. Waiting(i) /\ Seen(i) /\ Apart(i)
    <3> HIDE DEF Waiting, Seen, Apart
    <3> QED  BY <1>4, <2>1
  <2>3. PICK new \in 1..Len(rs) : new = ids[i + 1]
    BY <1>1, <2>1
  <2>4. f[i] \in DedupState(rs) /\ f[i + 1] = DedupStep(f[i], new)
    BY <1>2, <2>1, <2>3
  <2>5. f[i].order \in Seq(1..Len(rs)) /\ f[i + 1] \in DedupState(rs)
    BY <2>4, DedupStepFacts DEF DedupState
  <2>6. \A k \in 1..n : k # i + 1 => ids[k] # new
    BY <2>1, <2>3 DEF OneEach
  <2>7. new \notin Kept(i)
    <3> HIDE DEF Kept, Dup
    <3>1. \A k \in 1..i : k \in 1..n /\ k # i + 1
      BY <1>1, <2>1
    <3> QED  BY <2>2, <2>6, <3>1
  <2>8. Dup(i, new) = None
    <3>1. i + 1 > i
      OBVIOUS
    <3> HIDE DEF Kept, Dup
    <3> QED  BY <2>1, <2>2, <2>3, <3>1
  <2>9. \A p \in 1..Len(f[i].order) : f[i].order[p] \in Kept(i)
    BY <2>5, SMTT(20), ZenonT(60) DEF ToSet
  <2>10. \A x \in Kept(i) : x \in 1..Len(rs) /\ rs[x].fusion >= rs[new].fusion
    <3> SUFFICES ASSUME NEW x \in Kept(i) PROVE x \in 1..Len(rs) /\ rs[x].fusion >= rs[new].fusion
      OBVIOUS
    <3>1. PICK k \in 1..i : x = ids[k]
      <4> HIDE DEF Kept, Dup
      <4> QED  BY <2>2
    <3>2. k \in 1..n /\ k < i + 1
      BY <1>1, <2>1
    <3> QED  BY <1>1, <2>1, <2>3, <3>1, <3>2
  <2>11. CASE /\ \A p \in 1..Len(f[i].order) : ~SaysTheSame(rs[f[i].order[p]].chunk, rs[new].chunk)
              /\ f[i + 1].order = Append(f[i].order, new)
              /\ f[i + 1].rows = f[i].rows
    <3>1. Kept(i + 1) = Kept(i) \cup {new}
      <4>1. \A s \in Seq(1..Len(rs)) : ToSet(Append(s, new)) = ToSet(s) \cup {new}
        <5> TAKE s \in Seq(1..Len(rs))
        <5>1. Append(s, new) = s \o <<new>> /\ <<new>> \in Seq(1..Len(rs)) /\ ToSet(<<new>>) = {new}
          BY DEF ToSet
        <5>2. \A e : e \in ToSet(s \o <<new>>) <=> e \in ToSet(s) \/ e \in ToSet(<<new>>)
          BY <5>1, ConcatFacts
        <5> QED  BY <5>1, <5>2
      <4> QED  BY <2>5, <2>11, <4>1
    <3>2. \A x \in 1..Len(rs) : Dup(i + 1, x) = Dup(i, x)
      BY <2>11
    <3>3. \A x \in Kept(i) : ~SaysTheSame(rs[x].chunk, rs[new].chunk)
      <4> TAKE x \in Kept(i)
      <4>1. PICK p \in 1..Len(f[i].order) : x = f[i].order[p]
        BY <2>5 DEF ToSet
      <4> QED  BY <2>11, <4>1
    <3>4. Waiting(i + 1)
      <4> HIDE DEF Kept, Dup
      <4>1. \A k \in 1..i : k \in 1..(i + 1)
        OBVIOUS
      <4>2. \A x \in Kept(i + 1) : \E k \in 1..(i + 1) : x = ids[k]
        BY <2>2, <2>3, <3>1, <4>1
      <4>3. \A k \in 1..n : k > i + 1 => k > i
        OBVIOUS
      <4>4. \A k \in 1..n : k > i + 1 => Dup(i + 1, ids[k]) = None
        BY <1>1, <2>2, <3>2, <4>3
      <4> QED  BY <4>2, <4>4
    <3>5. Seen(i + 1)
      <4> SUFFICES ASSUME NEW k \in 1..(i + 1) PROVE Represented(i + 1, ids[k])
        OBVIOUS
      <4>1. CASE k = i + 1
        <5> HIDE DEF Kept, Dup
        <5> QED  BY <2>3, <2>8, <3>1, <3>2, <4>1
      <4>2. CASE k # i + 1
        <5>1. k \in 1..i /\ k \in 1..n
          BY <1>1, <2>1, <4>2
        <5>2. Represented(i, ids[k])
          <6> HIDE DEF Represented
          <6> QED  BY <2>2, <5>1
        <5>3. ids[k] # new /\ ids[k] \in 1..Len(rs)
          BY <1>1, <2>6, <4>2, <5>1
        <5> HIDE DEF Kept, Dup
        <5> QED  BY <3>1, <3>2, <5>2, <5>3
      <4> QED  BY <4>1, <4>2
    <3>6. Apart(i + 1)
      <4> HIDE DEF Kept, Dup
      <4> QED  BY <2>2, <3>1, <3>3, SaysTheSameSymmetric
    <3> QED  BY <3>4, <3>5, <3>6
  <2>12. CASE \E p \in 1..Len(f[i].order) :
                 /\ SaysTheSame(rs[f[i].order[p]].chunk, rs[new].chunk)
                 /\ f[i + 1].order = f[i].order
                 /\ f[i + 1].rows[new].duplicate_of = f[i].order[p]
                 /\ \A k \in 1..Len(rs) : k # new => f[i + 1].rows[k] = f[i].rows[k]
    <3>1. PICK p \in 1..Len(f[i].order) :
                 /\ SaysTheSame(rs[f[i].order[p]].chunk, rs[new].chunk)
                 /\ f[i + 1].order = f[i].order
                 /\ f[i + 1].rows[new].duplicate_of = f[i].order[p]
                 /\ \A k \in 1..Len(rs) : k # new => f[i + 1].rows[k] = f[i].rows[k]
      BY <2>12
    <3>2. Kept(i + 1) = Kept(i)
      BY <3>1
    <3>3. \A x \in 1..Len(rs) : x # new => Dup(i + 1, x) = Dup(i, x)
      BY <3>1
    <3>4. /\ Dup(i + 1, new) \in Kept(i) /\ SaysTheSame(rs[new].chunk, rs[Dup(i + 1, new)].chunk)
      BY <2>9, <3>1, SaysTheSameSymmetric
    <3>5. Waiting(i + 1)
      <4> HIDE DEF Kept, Dup
      <4>1. \A k \in 1..i : k \in 1..(i + 1)
        OBVIOUS
      <4>2. \A x \in Kept(i + 1) : \E k \in 1..(i + 1) : x = ids[k]
        BY <2>2, <3>2, <4>1
      <4>3. \A k \in 1..n : k > i + 1 => k > i /\ k # i + 1
        OBVIOUS
      <4>4. \A k \in 1..n : k > i + 1 => Dup(i + 1, ids[k]) = None
        BY <1>1, <2>2, <2>6, <3>3, <4>3
      <4> QED  BY <4>2, <4>4
    <3>6. Seen(i + 1)
      <4> SUFFICES ASSUME NEW k \in 1..(i + 1) PROVE Represented(i + 1, ids[k])
        OBVIOUS
      <4>1. CASE k = i + 1
        <5> HIDE DEF Kept, Dup
        <5> QED  BY <2>3, <2>7, <2>10, <3>2, <3>4, <4>1
      <4>2. CASE k # i + 1
        <5>1. k \in 1..i /\ k \in 1..n
          BY <1>1, <2>1, <4>2
        <5>2. Represented(i, ids[k])
          <6> HIDE DEF Represented
          <6> QED  BY <2>2, <5>1
        <5>3. ids[k] # new /\ ids[k] \in 1..Len(rs)
          BY <1>1, <2>6, <4>2, <5>1
        <5> HIDE DEF Kept, Dup
        <5> QED  BY <3>2, <3>3, <5>2, <5>3
      <4> QED  BY <4>1, <4>2
    <3>7. Apart(i + 1)
      <4> HIDE DEF Kept, Dup
      <4> QED  BY <2>2, <3>2
    <3> QED  BY <3>5, <3>6, <3>7
  <2>13. \/ /\ \A p \in 1..Len(f[i].order) : ~SaysTheSame(rs[f[i].order[p]].chunk, rs[new].chunk)
            /\ f[i + 1].order = Append(f[i].order, new)
            /\ f[i + 1].rows = f[i].rows
         \/ \E p \in 1..Len(f[i].order) :
            /\ SaysTheSame(rs[f[i].order[p]].chunk, rs[new].chunk)
            /\ f[i + 1].order = f[i].order
            /\ f[i + 1].rows[new].duplicate_of = f[i].order[p]
            /\ \A k \in 1..Len(rs) : k # new => f[i + 1].rows[k] = f[i].rows[k]
    <3>1. PICK acc \in DedupState(rs) : acc = f[i]
      BY <2>4
    <3>2. \/ /\ \A p \in 1..Len(acc.order) : ~SaysTheSame(rs[acc.order[p]].chunk, rs[new].chunk)
             /\ DedupStep(acc, new).order = Append(acc.order, new)
             /\ DedupStep(acc, new).rows = acc.rows
          \/ \E p \in 1..Len(acc.order) :
             /\ SaysTheSame(rs[acc.order[p]].chunk, rs[new].chunk)
             /\ DedupStep(acc, new).order = acc.order
             /\ DedupStep(acc, new).rows[new].duplicate_of = acc.order[p]
             /\ \A k \in 1..Len(rs) : k # new => DedupStep(acc, new).rows[k] = acc.rows[k]
      BY DedupStepFacts
    <3>3. f[i + 1] = DedupStep(acc, new)
      BY <2>4, <3>1
    <3> QED  BY <3>1, <3>2, <3>3, Zenon
  <2> QED  BY <2>11, <2>12, <2>13
<1>5. Waiting(n) /\ Seen(n) /\ Apart(n)
  <2>1. Nat \subseteq Good
    <3> HIDE DEF Good
    <3> QED  BY <1>3, <1>4, SetInduction
  <2> HIDE DEF Waiting, Seen, Apart
  <2> QED  BY <1>1, <2>1
<1>6. f[n].rows \in SameBut(rs)
  BY <1>1 DEF DedupState
<1>7. \A x \in 1..Len(rs) : Represented(n, x)
  <2> TAKE x \in 1..Len(rs)
  <2>1. PICK k \in 1..n : ids[k] = x
    BY <1>1 DEF ToSet
  <2> HIDE DEF Represented
  <2> QED  BY <1>5, <2>1
<1>8. \A x \in Kept(n) : x \in 1..Len(rs)
  <2> HIDE DEF Kept, Dup
  <2> QED  BY <1>1, <1>5
<1>9. None \notin Kept(n)
  <2> HIDE DEF Kept
  <2> QED  BY <1>8, NoneAssumption
<1> DEFINE r == f[n].rows
<1>10. \A x \in 1..Len(rs) : Dup(n, x) = r[x].duplicate_of
  OBVIOUS
<1>11. \A x \in 1..Len(rs) : r[x].duplicate_of = None <=> x \in Kept(n)
  <2> HIDE DEF Kept, Dup, r
  <2> QED  BY <1>7, <1>9, <1>10
<1>12. Deduplicated(r, rs)
  <2>1. r \in SameBut(rs)
    BY <1>6
  <2> HIDE DEF Kept, Dup, r
  <2>2. \A i \in 1..Len(rs) :
          r[i].duplicate_of # None =>
             /\ r[i].duplicate_of \in 1..Len(rs) /\ r[r[i].duplicate_of].duplicate_of = None
             /\ SaysTheSame(rs[i].chunk, rs[r[i].duplicate_of].chunk)
             /\ rs[r[i].duplicate_of].fusion >= rs[i].fusion
    BY <1>7, <1>8, <1>10, <1>11
  <2>3. \A i, j \in 1..Len(rs) :
          i # j /\ r[i].duplicate_of = None /\ r[j].duplicate_of = None
             => ~SaysTheSame(rs[i].chunk, rs[j].chunk)
    BY <1>5, <1>11
  <2> QED  BY <2>1, <2>2, <2>3 DEF Deduplicated
<1> QED  BY <1>2, <1>12

LEMMA DedupFacts ==
    ASSUME rows \in Seq(Row), \A k \in 1..Len(rows) : rows[k].duplicate_of = None
    PROVE  Deduplicated(dedup, rows)
<1> DEFINE ids == SortedBy(Ids, Fusion)
<1>1. \A k \in 1..Len(rows) : Fusion[k] = rows[k].fusion /\ rows[k].fusion \in Int
  <2>1. DOMAIN rows = 1..Len(rows) /\ \A k \in 1..Len(rows) : rows[k] \in Row
    OBVIOUS
  <2> QED  BY <2>1 DEF Fusion, Row
<1>2. \A a \in 1..Len(Ids) : Fusion[Ids[a]] \in Int
  BY <1>1, IdsFacts
<1>3. /\ ids \in Seq(1..Len(rows)) /\ Len(ids) = Len(rows) /\ ToSet(ids) = 1..Len(rows) /\ OneEach(ids)
      /\ \A j, k \in 1..Len(rows) : j < k => Fusion[ids[j]] >= Fusion[ids[k]]
  BY <1>2, IdsFacts, SortedFacts
<1> HIDE DEF ids
<1>4. \A k \in 1..Len(ids) : ids[k] \in 1..Len(rows)
  BY <1>3
<1>5. \A j, k \in 1..Len(ids) : j < k => rows[ids[j]].fusion >= rows[ids[k]].fusion
  BY <1>1, <1>3, <1>4
<1>6. dedup = FoldLeft(DedupStep, [order |-> <<>>, rows |-> rows], ids).rows
  BY DEF dedup, ids
<1> QED  BY <1>3, <1>5, <1>6, Deduplicating

(***************************************************************************)
(* Fusion.                                                                 *)
(***************************************************************************)

FreshRow == {r \in Row : r.rerank = None /\ r.duplicate_of = None /\ r.pair_id = None}

LEMMA ReciprocalType ==
    ASSUME NEW list \in Seq(Chunks), NEW c, \A k \in DOMAIN list : ScoreUnit % (RRF_K + k) = 0
    PROVE  Reciprocal(list, c) \in Int
<1> DEFINE places == {i \in 1..Len(list) : list[i] = c}
           first == SelectInSeq(list, LAMBDA d : d = c)
<1>1. first = IF places # {} THEN Min(places) ELSE 0
  BY DEF SelectInSeq
<1>2. ASSUME c \in ToSet(list) PROVE first \in Nat /\ first > 0
  <2>1. places # {} /\ places \in SUBSET Nat /\ \A i \in places : i > 0
    BY <1>2 DEF ToSet
  <2> HIDE DEF places
  <2>2. Min(places) \in places
    BY <2>1, FirstPosition
  <2> QED  BY <1>1, <2>1, <2>2
<1>3. Reciprocal(list, c) = IF c \in ToSet(list) THEN ScoreUnit \div (RRF_K + first) ELSE 0
  BY DEF Reciprocal
<1> HIDE DEF first, places
<1>4. ASSUME c \in ToSet(list) PROVE ScoreUnit \div (RRF_K + first) \in Int
  <2>1. ScoreUnit \in Nat /\ RRF_K \in Nat
    BY ScoresAssumption
  <2>2. RRF_K + first \in Nat /\ RRF_K + first > 0
    BY <1>2, <1>4, <2>1
  <2> QED  BY <2>1, <2>2
<1> QED  BY <1>3, <1>4

LEMMA FusedRows ==
    ASSUME NEW n \in Nat, NEW results \in [1..n -> Results]
    PROVE  rrf_fuse(results) \in Seq(FreshRow)
<1>1. ASSUME NEW q \in 1..n PROVE RowsOf(q, results[q]) \in Seq(FreshRow)
  <2>1. PICK result \in Results : result = results[q]
    OBVIOUS
  <2>2. /\ result.dense \in Seq(Chunks) /\ result.sparse \in Seq(Chunks)
        /\ \A k \in DOMAIN result.dense : ScoreUnit % (RRF_K + k) = 0
        /\ \A k \in DOMAIN result.sparse : ScoreUnit % (RRF_K + k) = 0
    BY ResultsAssumption
  <2> DEFINE others == Those(result.sparse, Chunks \ ToSet(result.dense))
             found == result.dense \o others
             score(k) == Reciprocal(result.dense, found[k]) + Reciprocal(result.sparse, found[k])
             row(k) == [subquery |-> q, chunk |-> found[k], rerank |-> None, duplicate_of |-> None,
                        pair_id |-> None, fusion |-> score(k)]
  <2>3. found \in Seq(Chunks)
    <3>1. others \in Seq(Chunks)
      BY <2>2, ThoseFacts
    <3> HIDE DEF others
    <3> QED  BY <2>2, <3>1
  <2> HIDE DEF found
  <2>4. \A k \in 1..Len(found) : score(k) \in Int
    <3> TAKE k \in 1..Len(found)
    <3>1. Reciprocal(result.dense, found[k]) \in Int
      BY <2>2, ReciprocalType
    <3>2. Reciprocal(result.sparse, found[k]) \in Int
      BY <2>2, ReciprocalType
    <3> QED  BY <3>1, <3>2
  <2>5. \A k \in 1..Len(found) : row(k) \in FreshRow
    <3> HIDE DEF score
    <3> QED  BY <2>3, <2>4 DEF FreshRow, Row
  <2>6. RowsOf(q, result) = [k \in DOMAIN found |-> row(k)]
    BY DEF RowsOf, found
  <2>7. DOMAIN found = 1..Len(found) /\ Len(found) \in Nat
    BY <2>3
  <2> HIDE DEF row
  <2> QED  BY <2>1, <2>5, <2>6, <2>7
<1> DEFINE lists == [q \in 1..n |-> RowsOf(q, results[q])]
<1>2. lists \in Seq(Seq(FreshRow))
  BY <1>1
<1>3. rrf_fuse(results) = FlattenSeq(lists)
  BY DEF rrf_fuse
<1> HIDE DEF lists
<1> QED  BY <1>2, <1>3, FlattenFacts

(***************************************************************************)
(* The invariant.                                                          *)
(***************************************************************************)

PipelineTypes ==
    /\ stage \in {"heard", "decomposed", "fused", "deduped", "flagged", "done"}
    /\ proposal \in Proposals \cup {None}
    /\ subqueries \in Seq(SubQuery)
    /\ rows \in Seq(Row)
    /\ kept \in Seq(Seq(1..Len(rows)))
    /\ evidence \in Seq(1..Len(rows))

\* What each step finds
StagesInv ==
    /\ stage = "heard" => proposal = None
    /\ stage \in {"heard", "decomposed", "fused", "deduped"} => kept = <<>>
    /\ stage # "done" => evidence = <<>>
    /\ stage = "fused" => \A k \in 1..Len(rows) : rows[k].duplicate_of = None

\* Rows that are kept say different things.
ActiveApart == \A i, j \in Active : i # j => ~SaysTheSame(rows[i].chunk, rows[j].chunk)

\* What a sub-query keeps are its own kept rows, each once, with their scores.
KeptInv ==
    \A q \in 1..Len(kept) :
        /\ OneEach(kept[q])
        /\ \A i \in ToSet(kept[q]) : i \in Active /\ rows[i].subquery = q /\ rows[i].rerank \in Int

EvidenceInv == OneEach(evidence) /\ ToSet(evidence) \subseteq Active

PipelineInv ==
    /\ PipelineTypes /\ StagesInv /\ KeptInv /\ EvidenceInv
    /\ stage \in {"deduped", "flagged", "done"} => ActiveApart

(***************************************************************************)
(* The evidence of the turn.                                               *)
(***************************************************************************)

LEMMA AllKeptFacts ==
    ASSUME PipelineTypes, KeptInv
    PROVE  /\ AllKept \in Seq(1..Len(rows)) /\ OneEach(AllKept)
           /\ \A i : i \in ToSet(AllKept) <=> \E q \in 1..Len(kept) : i \in ToSet(kept[q])
           /\ ToSet(AllKept) \subseteq Active
           /\ \A i \in ToSet(AllKept) : i \in 1..Len(rows) /\ Rerank[i] \in Int
<1>1. kept \in Seq(Seq(1..Len(rows)))
  BY DEF PipelineTypes
<1>2. \A q, r \in 1..Len(kept) : q # r => ToSet(kept[q]) \cap ToSet(kept[r]) = {}
  BY DEF KeptInv
<1>3. /\ AllKept \in Seq(1..Len(rows)) /\ OneEach(AllKept)
      /\ \A i : i \in ToSet(AllKept) <=> \E q \in 1..Len(kept) : i \in ToSet(kept[q])
  <2>1. \A q \in 1..Len(kept) : OneEach(kept[q])
    BY DEF KeptInv
  <2> QED  BY <1>1, <1>2, <2>1, FlattenFacts DEF AllKept
<1>4. \A i \in ToSet(AllKept) : i \in Active /\ rows[i].rerank \in Int
  BY <1>3 DEF KeptInv
<1>5. rows \in Seq(Row)
  BY DEF PipelineTypes
<1>6. \A i \in Active : i \in 1..Len(rows) /\ i \in DOMAIN rows
  BY <1>5 DEF Active
<1>7. \A i \in ToSet(AllKept) : Rerank[i] \in Int
  BY <1>4, <1>6 DEF Rerank
<1> QED  BY <1>3, <1>4, <1>6, <1>7

\* The places of the sub-queries with relevant evidence
Heard == {q \in DOMAIN kept : kept[q] # <<>>}

LEMMA FloorFacts ==
    ASSUME PipelineTypes, KeptInv
    PROVE  /\ Floor \in Seq(1..Len(rows)) /\ OneEach(Floor) /\ Len(Floor) = Cardinality(Heard)
           /\ \A i : i \in ToSet(Floor) <=> \E q \in Heard : i = Head(kept[q])
           /\ ToSet(Floor) \subseteq ToSet(AllKept)
<1> DEFINE N == 1..Len(rows)
           S == {list \in ToSet(kept) : list # <<>>}
           contributing == Those(kept, S)
           P == {a \in 1..Len(kept) : kept[a] \in S}
           heads == [q \in DOMAIN contributing |-> Head(contributing[q])]
<1>1. kept \in Seq(Seq(N)) /\ DOMAIN kept = 1..Len(kept) /\ \A q \in 1..Len(kept) : kept[q] \in Seq(N)
  BY DEF PipelineTypes
<1>2. P = Heard
  BY <1>1 DEF Heard, ToSet
<1>3. PICK pl : Picks(pl, contributing, kept, P)
  BY <1>1, ThosePicks
<1>4. contributing \in Seq(Seq(N)) /\ Len(contributing) = Cardinality(P) /\ Len(contributing) \in Nat
  <2>1. P \in SUBSET (1..Len(kept))
    OBVIOUS
  <2> HIDE DEF P, contributing
  <2> QED  BY <1>1, <1>3, <2>1, PicksFacts
<1> HIDE DEF P
<1> DEFINE m == Len(contributing)
<1>5. /\ pl \in [1..m -> Heard] /\ \A k \in 1..m : contributing[k] = kept[pl[k]]
      /\ \A a \in Heard : \E k \in 1..m : pl[k] = a
      /\ \A j, k \in 1..m : j # k => pl[j] # pl[k]
  BY <1>2, <1>3, <1>4 DEF Picks
<1>6. \A q \in Heard : /\ q \in 1..Len(kept) /\ Head(kept[q]) \in ToSet(kept[q])
                       /\ Head(kept[q]) \in N /\ rows[Head(kept[q])].subquery = q
  <2> TAKE q \in Heard
  <2>1. q \in 1..Len(kept) /\ kept[q] \in Seq(N) /\ kept[q] # <<>>
    BY <1>1 DEF Heard
  <2>2. 1 \in 1..Len(kept[q]) /\ Head(kept[q]) = kept[q][1] /\ kept[q][1] \in N
    BY <2>1
  <2>3. Head(kept[q]) \in ToSet(kept[q])
    BY <2>1, <2>2 DEF ToSet
  <2> QED  BY <2>1, <2>2, <2>3 DEF KeptInv
<1>7. DOMAIN contributing = 1..m
  BY <1>4
<1> HIDE DEF contributing
<1>8. heads = [k \in 1..m |-> Head(kept[pl[k]])]
  BY <1>5, <1>7
<1> HIDE DEF heads
<1>9. heads \in Seq(N) /\ Len(heads) = m
  <2>1. \A k \in 1..m : Head(kept[pl[k]]) \in N
    BY <1>5, <1>6
  <2>2. heads \in [1..m -> N]
    BY <1>8, <2>1
  <2>3. m \in Nat
    BY <1>4
  <2> HIDE DEF m, N
  <2> QED  BY <2>2, <2>3
<1>10. \A i : i \in ToSet(heads) <=> \E q \in Heard : i = Head(kept[q])
  <2> TAKE i
  <2>1. ASSUME i \in ToSet(heads) PROVE \E q \in Heard : i = Head(kept[q])
    <3>1. PICK k \in 1..m : i = heads[k]
      BY <1>8, <2>1 DEF ToSet
    <3> QED  BY <1>5, <1>8, <3>1
  <2>2. ASSUME NEW q \in Heard, i = Head(kept[q]) PROVE i \in ToSet(heads)
    <3>1. PICK k \in 1..m : pl[k] = q
      BY <1>5
    <3>2. k \in DOMAIN heads /\ heads[k] = i
      BY <1>8, <2>2, <3>1
    <3> QED  BY <3>2 DEF ToSet
  <2> QED  BY <2>1, <2>2
<1>11. OneEach(heads)
  <2>1. \A j, k \in 1..m : j # k => heads[j] # heads[k]
    <3> SUFFICES ASSUME NEW j \in 1..m, NEW k \in 1..m, j # k PROVE heads[j] # heads[k]
      OBVIOUS
    <3>1. pl[j] \in Heard /\ pl[k] \in Heard /\ pl[j] # pl[k]
      BY <1>5
    <3>2. heads[j] = Head(kept[pl[j]]) /\ heads[k] = Head(kept[pl[k]])
      BY <1>8
    <3>3. rows[heads[j]].subquery = pl[j] /\ rows[heads[k]].subquery = pl[k]
      BY <1>6, <3>1, <3>2
    <3> QED  BY <3>1, <3>3
  <2> QED  BY <1>9, <2>1 DEF OneEach
<1>12. \A i \in ToSet(heads) : i \in ToSet(AllKept)
  BY <1>6, <1>10, AllKeptFacts
<1>13. \A a \in 1..Len(heads) : Rerank[heads[a]] \in Int
  <2>1. \A a \in 1..Len(heads) : heads[a] \in ToSet(heads)
    BY <1>9 DEF ToSet
  <2> QED  BY <1>12, <2>1, AllKeptFacts
<1>14. Floor = SortedBy(heads, Rerank)
  BY DEF Floor, heads, contributing
<1>15. /\ Floor \in Seq(N) /\ Len(Floor) = Len(heads) /\ ToSet(Floor) = ToSet(heads) /\ OneEach(Floor)
  BY <1>9, <1>11, <1>13, <1>14, SortedFacts
<1> QED  BY <1>2, <1>4, <1>9, <1>10, <1>12, <1>15

\* What cap_global_evidence sorts
Chosen ==
    LET rest == Those(AllKept, DOMAIN rows \ ToSet(Floor))
    IN  IF Len(AllKept) <= MAX_TOTAL_EVIDENCE THEN AllKept
        ELSE UpTo(Floor \o SortedBy(rest, Rerank), MAX_TOTAL_EVIDENCE)

LEMMA ChosenFacts ==
    ASSUME PipelineTypes, KeptInv
    PROVE  /\ Chosen \in Seq(1..Len(rows)) /\ OneEach(Chosen) /\ ToSet(Chosen) \subseteq ToSet(AllKept)
           /\ \A i \in ToSet(AllKept) \ ToSet(Chosen), j \in ToSet(Chosen) :
                 Rerank[i] > Rerank[j] => j \in ToSet(Floor)
           /\ \A q \in Heard : Head(kept[q]) \in ToSet(Chosen) \/ Cardinality(Heard) > MAX_TOTAL_EVIDENCE
<1> DEFINE N == 1..Len(rows)
           rest == Those(AllKept, DOMAIN rows \ ToSet(Floor))
           sorted == SortedBy(rest, Rerank)
           places == Floor \o sorted
           cut == UpTo(places, MAX_TOTAL_EVIDENCE)
<1>1. /\ AllKept \in Seq(N) /\ OneEach(AllKept)
      /\ \A i \in ToSet(AllKept) : i \in N /\ Rerank[i] \in Int
  BY AllKeptFacts
<1>2. /\ Floor \in Seq(N) /\ OneEach(Floor) /\ Len(Floor) = Cardinality(Heard)
      /\ \A i : i \in ToSet(Floor) <=> \E q \in Heard : i = Head(kept[q])
      /\ ToSet(Floor) \subseteq ToSet(AllKept)
  BY FloorFacts
<1>3. MAX_TOTAL_EVIDENCE \in Nat
  BY LimitsAssumption
<1>4. CASE Len(AllKept) <= MAX_TOTAL_EVIDENCE
  <2>1. Chosen = AllKept
    BY <1>4 DEF Chosen
  <2> QED  BY <1>1, <1>2, <2>1
<1>5. CASE ~(Len(AllKept) <= MAX_TOTAL_EVIDENCE)
  <2>1. Chosen = cut
    BY <1>5 DEF Chosen
  <2>2. /\ rest \in Seq(N) /\ OneEach(rest) /\ ToSet(rest) = ToSet(AllKept) \ ToSet(Floor)
    <3>1. /\ rest \in Seq(N) /\ OneEach(rest)
          /\ ToSet(rest) = ToSet(AllKept) \cap (DOMAIN rows \ ToSet(Floor))
      BY <1>1, ThoseFacts
    <3>2. DOMAIN rows = N
      BY DEF PipelineTypes
    <3>3. ToSet(AllKept) \subseteq N
      BY <1>1
    <3> HIDE DEF rest, N
    <3> QED  BY <3>1, <3>2, <3>3
  <2> HIDE DEF rest
  <2>3. \A a \in 1..Len(rest) : Rerank[rest[a]] \in Int
    <3>1. \A a \in 1..Len(rest) : rest[a] \in ToSet(rest)
      BY <2>2 DEF ToSet
    <3> QED  BY <1>1, <2>2, <3>1
  <2>4. /\ sorted \in Seq(N) /\ Len(sorted) = Len(rest) /\ ToSet(sorted) = ToSet(rest) /\ OneEach(sorted)
        /\ \A j, k \in 1..Len(rest) : j < k => Rerank[sorted[j]] >= Rerank[sorted[k]]
    BY <2>2, <2>3, SortedFacts
  <2> HIDE DEF sorted
  <2>5. ToSet(Floor) \cap ToSet(sorted) = {}
    BY <2>2, <2>4
  <2>6. /\ places \in Seq(N) /\ Len(places) = Len(Floor) + Len(sorted) /\ OneEach(places)
        /\ \A e : e \in ToSet(places) <=> e \in ToSet(Floor) \/ e \in ToSet(sorted)
    <3>1. PICK t \in Seq(N) : t = sorted
      BY <2>4
    <3>2. Floor \in Seq(N)
      BY <1>2
    <3> HIDE DEF N
    <3>3. /\ Floor \o t \in Seq(N) /\ Len(Floor \o t) = Len(Floor) + Len(t)
          /\ \A e : e \in ToSet(Floor \o t) <=> e \in ToSet(Floor) \/ e \in ToSet(t)
          /\ OneEach(Floor) /\ OneEach(t) /\ ToSet(Floor) \cap ToSet(t) = {} => OneEach(Floor \o t)
      BY <3>2, ConcatFacts
    <3> QED  BY <1>2, <2>4, <2>5, <3>1, <3>3
  <2>7. \A k \in 1..Len(places) : places[k] = IF k <= Len(Floor) THEN Floor[k] ELSE sorted[k - Len(Floor)]
    BY <1>2, <2>4, <2>6
  <2> HIDE DEF places
  <2>8. /\ cut \in Seq(N) /\ OneEach(cut) /\ ToSet(cut) \subseteq ToSet(places)
        /\ Len(cut) = (IF MAX_TOTAL_EVIDENCE < Len(places) THEN MAX_TOTAL_EVIDENCE ELSE Len(places))
        /\ \A k \in 1..Len(cut) : k \in 1..Len(places) /\ cut[k] = places[k]
    BY <1>3, <2>6, UpToFacts
  <2> HIDE DEF cut
  <2>9. ToSet(cut) \subseteq ToSet(AllKept)
    BY <1>2, <2>2, <2>4, <2>6, <2>8
  <2>20. Len(cut) \in Nat /\ Len(places) \in Nat /\ Len(Floor) \in Nat /\ Len(sorted) \in Nat
    BY <1>2, <2>4, <2>6, <2>8
  \* A row of places that is not in the cut comes after every row that is.
  <2>10. ASSUME NEW k \in 1..Len(places), places[k] \notin ToSet(cut), NEW b \in 1..Len(cut)
         PROVE  b < k
    <3>1. k > Len(cut)
      <4> SUFFICES ASSUME k \in 1..Len(cut) PROVE FALSE
        BY <2>20
      <4>1. cut[k] = places[k] /\ k \in DOMAIN cut
        BY <2>8
      <4> QED  BY <2>10, <4>1 DEF ToSet
    <3> QED  BY <2>20, <3>1
  <2>11. ASSUME NEW i \in ToSet(AllKept) \ ToSet(cut), NEW j \in ToSet(cut), Rerank[i] > Rerank[j]
         PROVE  j \in ToSet(Floor)
    <3>1. i \in ToSet(places)
      BY <2>2, <2>4, <2>6
    <3>2. PICK k \in 1..Len(places) : places[k] = i
      BY <2>6, <3>1 DEF ToSet
    <3>3. PICK b \in 1..Len(cut) : cut[b] = j
      BY <2>8 DEF ToSet
    <3>4. b < k /\ b \in 1..Len(places) /\ places[b] = j
      BY <2>8, <2>10, <3>2, <3>3
    <3>5. CASE b <= Len(Floor)
      <4>1. Floor[b] = j /\ b \in 1..Len(Floor)
        BY <2>7, <2>20, <3>4, <3>5
      <4> QED  BY <1>2, <4>1, SMTT(20), ZenonT(60) DEF ToSet
    <3>6. CASE b > Len(Floor)
      <4>1. ~(b <= Len(Floor)) /\ ~(k <= Len(Floor))
        BY <2>20, <3>4, <3>6
      <4>2. places[b] = sorted[b - Len(Floor)] /\ places[k] = sorted[k - Len(Floor)]
        BY <2>7, <3>2, <3>4, <4>1
      <4>3. /\ b - Len(Floor) \in 1..Len(rest) /\ k - Len(Floor) \in 1..Len(rest)
            /\ b - Len(Floor) < k - Len(Floor)
        BY <2>4, <2>6, <2>20, <3>4, <3>6
      <4>4. Rerank[j] >= Rerank[i]
        BY <2>4, <3>2, <3>4, <4>2, <4>3
      <4>5. Rerank[i] \in Int /\ Rerank[j] \in Int
        BY <1>1, <2>9
      <4> QED  BY <2>11, <4>4, <4>5
    <3> QED  BY <2>20, <3>5, <3>6
  <2>12. ASSUME NEW q \in Heard, ~(Cardinality(Heard) > MAX_TOTAL_EVIDENCE)
         PROVE  Head(kept[q]) \in ToSet(cut)
    <3>1. Head(kept[q]) \in ToSet(Floor)
      BY <1>2
    <3>2. PICK k \in 1..Len(Floor) : Floor[k] = Head(kept[q])
      BY <1>2, <3>1 DEF ToSet
    <3>3. k \in 1..Len(places) /\ places[k] = Head(kept[q])
      BY <2>6, <2>7, <2>20, <3>2
    <3>4. Len(Floor) <= Len(cut)
      BY <1>2, <1>3, <2>6, <2>8, <2>20, <2>12, SMTT(20), ZenonT(60)
    <3>5. k \in 1..Len(cut)
      BY <2>20, <3>4
    <3>6. cut[k] = Head(kept[q]) /\ k \in DOMAIN cut
      BY <2>8, <3>3, <3>5
    <3> QED  BY <3>6 DEF ToSet
  <2> QED  BY <2>1, <2>8, <2>9, <2>11, <2>12
<1> QED  BY <1>4, <1>5

LEMMA CapFacts ==
    ASSUME PipelineTypes, KeptInv
    PROVE  /\ cap_global_evidence \in Seq(1..Len(rows)) /\ OneEach(cap_global_evidence)
           /\ ToSet(cap_global_evidence) = ToSet(Chosen)
           /\ \A j, k \in 1..Len(cap_global_evidence) :
                 j < k => Rerank[cap_global_evidence[j]] >= Rerank[cap_global_evidence[k]]
<1>1. cap_global_evidence = SortedBy(Chosen, Rerank)
  BY DEF cap_global_evidence, Chosen
<1>2. Chosen \in Seq(1..Len(rows)) /\ OneEach(Chosen) /\ ToSet(Chosen) \subseteq ToSet(AllKept)
  BY ChosenFacts
<1>3. \A a \in 1..Len(Chosen) : Rerank[Chosen[a]] \in Int
  <2>1. \A a \in 1..Len(Chosen) : Chosen[a] \in ToSet(Chosen)
    BY <1>2 DEF ToSet
  <2> QED  BY <1>2, <2>1, AllKeptFacts
<1> QED  BY <1>1, <1>2, <1>3, SortedFacts

\* What the tokens of the first rows add up to
LEMMA TokensChain ==
    ASSUME rows \in Seq(Row), NEW ids \in Seq(1..Len(rows))
    PROVE  \E f \in [0..Len(ids) -> Nat] :
              /\ f[0] = 0
              /\ \A i \in 1..Len(ids) : f[i] = f[i - 1] + Tokens[rows[ids[i]].chunk]
              /\ TokensOf(ids) = f[Len(ids)]
<1> DEFINE n == Len(ids)
           V == Nat
           G == [p \in (1..n) \X V |-> p[2] + Tokens[rows[ids[p[1]]].chunk]]
           Is(it) == it = [s \in SUBSET (1..n) |->
                             IF s = {} THEN 0 ELSE it[s \ {Max(s)}] + Tokens[rows[ids[Max(s)]].chunk]]
           ch == CHOOSE it : Is(it)
<1>1. n \in Nat /\ DOMAIN ids = 1..n
  OBVIOUS
<1>2. 0 \in V
  OBVIOUS
<1>3. \A v \in V, i \in 1..n : v + Tokens[rows[ids[i]].chunk] \in V
  <2> SUFFICES ASSUME NEW v \in V, NEW i \in 1..n PROVE v + Tokens[rows[ids[i]].chunk] \in V
    OBVIOUS
  <2>1. ids[i] \in 1..Len(rows)
    OBVIOUS
  <2>2. rows[ids[i]].chunk \in Chunks
    <3>1. \A k \in 1..Len(rows) : rows[k] \in Row
      OBVIOUS
    <3> QED  BY <2>1, <3>1 DEF Row
  <2> QED  BY <2>2, ChunksAssumption
<1>4. G \in [(1..n) \X V -> V]
  BY <1>3
<1>5. \A i \in 1..n, v \in V : G[<<i, v>>] = v + Tokens[rows[ids[i]].chunk]
  OBVIOUS
<1>6. \A s \in SUBSET (1..n) : s # {} => Max(s) \in 1..n
  BY <1>1, LastPosition
<1> HIDE DEF V, G
<1>7. Is(ch)
  <2>1. PICK it \in [SUBSET (1..n) -> V] : IsFold(it, n, 0, G)
    BY <1>1, <1>2, <1>4, FoldExists
  <2>2. \A s \in SUBSET (1..n) : it[s] = IF s = {} THEN 0 ELSE it[s \ {Max(s)}] + Tokens[rows[ids[Max(s)]].chunk]
    <3> TAKE s \in SUBSET (1..n)
    <3>1. CASE s = {}
      BY <2>1, <3>1 DEF IsFold
    <3>2. CASE s # {}
      <4>1. it[s] = G[<<Max(s), it[s \ {Max(s)}]>>]
        BY <2>1, <3>2 DEF IsFold
      <4>2. it[s \ {Max(s)}] \in V
        BY <2>1
      <4> QED  BY <1>5, <1>6, <3>2, <4>1, <4>2
    <3> QED  BY <3>1, <3>2
  <2>3. Is(it)
    BY <2>1, <2>2
  <2> HIDE DEF Is
  <2> QED  BY <2>3
<1>8. TokensOf(ids) = ch[1..n]
  BY <1>1 DEF TokensOf, FoldLeft, MapThenFoldSet
<1>9. /\ ch[{}] = 0
      /\ \A s \in SUBSET (1..n) : s # {} => ch[s] = ch[s \ {Max(s)}] + Tokens[rows[ids[Max(s)]].chunk]
  <2> HIDE DEF ch
  <2> QED  BY <1>7
<1> HIDE DEF ch, Is
<1>10. Folds(ch, n, V, 0, G)
  BY <1>5, <1>6, <1>9 DEF Folds
<1>11. Iterated(ch[1..n], n, V, 0, G)
  BY <1>1, <1>2, <1>4, <1>10, FoldIterates
<1>12. PICK f \in [0..n -> V] : IsIteration(f, n, 0, G) /\ ch[1..n] = f[n]
  BY <1>11 DEF Iterated
<1>13. \A i \in 1..n : f[i] = f[i - 1] + Tokens[rows[ids[i]].chunk]
  <2> TAKE i \in 1..n
  <2>1. i - 1 \in 0..n
    BY <1>1
  <2>2. f[i] = G[<<i, f[i - 1]>>] /\ f[i - 1] \in V
    BY <1>12, <2>1 DEF IsIteration
  <2> QED  BY <1>5, <2>2
<1> QED  BY <1>8, <1>12, <1>13 DEF IsIteration, V

\* The budget cuts off an end of the evidence: nothing, or where one row more would
\* exceed it.
LEMMA TruncateFacts ==
    ASSUME rows \in Seq(Row), NEW ids \in Seq(1..Len(rows))
    PROVE  \E m \in Nat : /\ m <= Len(ids)
                          /\ truncate_to_token_budget(ids) = UpTo(ids, m)
                          /\ m < Len(ids) => TokensOf(SubSeq(ids, 1, m + 1)) > EVIDENCE_TOKEN_BUDGET
<1> DEFINE fits == {n \in 0..Len(ids) : TokensOf(SubSeq(ids, 1, n)) <= EVIDENCE_TOKEN_BUDGET}
<1>1. Len(ids) \in Nat /\ EVIDENCE_TOKEN_BUDGET \in Nat
  BY LimitsAssumption
<1>2. \A n \in 0..Len(ids) : SubSeq(ids, 1, n) \in Seq(1..Len(rows)) /\ Len(SubSeq(ids, 1, n)) = n
  BY <1>1
<1>3. \A n \in 0..Len(ids) : TokensOf(SubSeq(ids, 1, n)) \in Nat
  <2> TAKE n \in 0..Len(ids)
  <2>1. PICK part \in Seq(1..Len(rows)) : part = SubSeq(ids, 1, n)
    BY <1>2
  <2>2. PICK f \in [0..Len(part) -> Nat] : TokensOf(part) = f[Len(part)]
    BY TokensChain
  <2>3. Len(part) \in Nat
    OBVIOUS
  <2> QED  BY <2>1, <2>2, <2>3
<1>4. 0 \in fits
  <2>0. 0 \in 0..Len(ids)
    BY <1>1
  <2>1. PICK part \in Seq(1..Len(rows)) : part = SubSeq(ids, 1, 0) /\ Len(part) = 0
    BY <1>2, <2>0
  <2>2. TokensOf(part) = 0
    BY <2>1, TokensChain
  <2> QED  BY <1>1, <2>1, <2>2
<1>5. PICK m \in fits : m = Max(fits) /\ \A y \in fits : y <= m
  <2> DEFINE shifted == {n \in 1..(Len(ids) + 1) : n - 1 \in fits}
             Best(x) == x \in fits /\ \A y \in fits : x >= y
  <2>1. Len(ids) + 1 \in Nat /\ shifted \in SUBSET (1..(Len(ids) + 1)) /\ 1 \in shifted
    BY <1>1, <1>4
  <2>2. Max(shifted) \in shifted /\ \A y \in shifted : y <= Max(shifted)
    <3> HIDE DEF shifted
    <3> QED  BY <2>1, LastPosition
  <2>3. PICK x \in shifted : \A y \in shifted : y <= x
    <3> HIDE DEF shifted
    <3> QED  BY <2>2
  <2>4. x - 1 \in fits /\ x \in Nat
    BY <1>1
  <2>5. \A y \in fits : y \in Nat /\ y + 1 \in shifted
    BY <1>1
  <2>6. Best(x - 1)
    <3> HIDE DEF shifted, fits
    <3> QED  BY <2>3, <2>4, <2>5
  <2>7. Max(fits) = CHOOSE y \in fits : \A z \in fits : y >= z
    BY DEF Max
  <2>8. Max(fits) \in fits /\ \A z \in fits : Max(fits) >= z
    <3> HIDE DEF shifted, fits
    <3> QED  BY <2>6, <2>7
  <2>9. PICK t \in fits : t = Max(fits) /\ \A z \in fits : t >= z
    <3> HIDE DEF shifted, fits
    <3> QED  BY <2>8
  <2>10. t \in Nat /\ \A z \in fits : z \in Nat
    BY <1>1
  <2>11. \A z \in fits : z <= t
    <3> HIDE DEF shifted, fits
    <3> QED  BY <2>9, <2>10
  <2> HIDE DEF shifted, fits
  <2> QED  BY <2>9, <2>11
<1>6. m \in Nat /\ m <= Len(ids)
  BY <1>1
<1>7. truncate_to_token_budget(ids) = UpTo(ids, m)
  BY <1>5 DEF truncate_to_token_budget
<1>8. ASSUME m < Len(ids) PROVE TokensOf(SubSeq(ids, 1, m + 1)) > EVIDENCE_TOKEN_BUDGET
  <2>1. m + 1 \in 0..Len(ids) /\ ~(m + 1 <= m)
    BY <1>1, <1>6, <1>8
  <2>2. m + 1 \notin fits
    <3> HIDE DEF fits
    <3> QED  BY <1>5, <2>1
  <2>3. ~(TokensOf(SubSeq(ids, 1, m + 1)) <= EVIDENCE_TOKEN_BUDGET)
    BY <2>1, <2>2
  <2>4. TokensOf(SubSeq(ids, 1, m + 1)) \in Nat
    BY <1>3, <2>1
  <2> QED  BY <1>1, <2>3, <2>4
<1> HIDE DEF fits
<1> QED  BY <1>6, <1>7, <1>8

(***************************************************************************)
(* The steps keep the invariant.                                           *)
(***************************************************************************)

LEMMA NothingYet ==
    /\ \A S : <<>> \in Seq(S)
    /\ Len(<<>>) = 0 /\ OneEach(<<>>) /\ ToSet(<<>>) = {}
  BY DEF OneEach, ToSet

LEMMA InitInv == Init => PipelineInv
<1> SUFFICES ASSUME Init PROVE PipelineInv
  OBVIOUS
<1> USE DEF Init
<1>1. PipelineTypes
  BY NothingYet DEF PipelineTypes
<1>2. StagesInv
  BY DEF StagesInv
<1>3. KeptInv
  BY NothingYet DEF KeptInv
<1>4. EvidenceInv
  BY NothingYet DEF EvidenceInv
<1> QED  BY <1>1, <1>2, <1>3, <1>4 DEF PipelineInv

LEMMA MergedType ==
    ASSUME NEW proposed \in Proposals
    PROVE  merge_similar(proposed) \in Seq(SubQuery)
<1>1. proposed \in Seq(Texts) /\ Len(proposed) \in Nat
  BY TextsAssumption
<1>2. PICK f \in [0..Len(proposed) -> Seq(SubQuery)] : merge_similar(proposed) = f[Len(proposed)]
  BY <1>1, MergeChain
<1> QED  BY <1>1, <1>2

\* Until there are rows, nothing is kept.
LEMMA DecompositionStep ==
    ASSUME PipelineInv, stage = "heard", stage' = "decomposed", proposal' \in Proposals \cup {None},
           subqueries' \in Seq(SubQuery), UNCHANGED <<rows, kept, evidence>>
    PROVE  PipelineInv'
<1>1. PipelineTypes /\ StagesInv /\ KeptInv /\ EvidenceInv
  BY DEF PipelineInv
<1>2. PipelineTypes'
  BY <1>1 DEF PipelineTypes
<1>3. StagesInv'
  BY <1>1 DEF StagesInv
<1>4. KeptInv'
  BY <1>1 DEF KeptInv, Active
<1>5. EvidenceInv'
  BY <1>1 DEF EvidenceInv, Active
<1> QED  BY <1>2, <1>3, <1>4, <1>5 DEF PipelineInv

LEMMA AskStep ==
    ASSUME PipelineInv, AskAsSpoken \/ FallBack \/ (\E proposed \in Proposals : Decompose(proposed))
    PROVE  PipelineInv'
<1>1. proposal \in Proposals \cup {None}
  BY DEF PipelineInv, PipelineTypes
<1>2. Fallback \in Seq(SubQuery)
  <2>1. [text |-> Transcript, merged_from |-> <<>>] \in SubQuery
    BY DEF SubQuery
  <2> QED  BY <2>1 DEF Fallback
<1>3. CASE AskAsSpoken
  BY <1>1, <1>2, <1>3, DecompositionStep DEF AskAsSpoken
<1>4. CASE FallBack
  BY <1>1, <1>2, <1>4, DecompositionStep DEF FallBack
<1>5. CASE \E proposed \in Proposals : Decompose(proposed)
  <2>1. PICK proposed \in Proposals : Decompose(proposed)
    BY <1>5
  <2> QED  BY <2>1, MergedType, DecompositionStep DEF Decompose
<1> QED  BY <1>3, <1>4, <1>5

LEMMA FuseStep ==
    ASSUME PipelineInv, NEW results \in [DOMAIN subqueries -> Results], Fuse(results)
    PROVE  PipelineInv'
<1>1. PipelineTypes /\ StagesInv
  BY DEF PipelineInv
<1>2. kept = <<>> /\ evidence = <<>> /\ stage' = "fused" /\ rows' = rrf_fuse(results)
      /\ UNCHANGED <<proposal, subqueries, kept, evidence>>
  BY <1>1 DEF StagesInv, Fuse
<1>3. rows' \in Seq(FreshRow)
  <2>1. subqueries \in Seq(SubQuery)
    BY <1>1 DEF PipelineTypes
  <2>2. DOMAIN subqueries = 1..Len(subqueries) /\ Len(subqueries) \in Nat
    BY <2>1
  <2> QED  BY <1>2, <2>2, FusedRows
<1>4. rows' \in Seq(Row) /\ \A k \in 1..Len(rows') : rows'[k].duplicate_of = None
  BY <1>3 DEF FreshRow
<1>5. PipelineTypes'
  BY <1>1, <1>2, <1>4, NothingYet DEF PipelineTypes
<1>6. StagesInv'
  BY <1>2, <1>4 DEF StagesInv
<1>7. KeptInv'
  BY <1>2, NothingYet DEF KeptInv
<1>8. EvidenceInv'
  BY <1>2, NothingYet DEF EvidenceInv
<1> QED  BY <1>2, <1>5, <1>6, <1>7, <1>8 DEF PipelineInv

LEMMA DedupIs ==
    ASSUME PipelineInv, Dedup
    PROVE  /\ rows \in Seq(Row) /\ kept = <<>> /\ evidence = <<>> /\ UNCHANGED <<kept, evidence>>
           /\ Deduplicated(rows', rows) /\ rows' \in [1..Len(rows) -> Row]
           /\ rows' \in Seq(Row) /\ Len(rows') = Len(rows) /\ DOMAIN rows' = 1..Len(rows)
           /\ \A k \in 1..Len(rows) : rows'[k].chunk = rows[k].chunk /\ rows'[k].fusion = rows[k].fusion
<1>1. /\ rows \in Seq(Row) /\ stage = "fused" /\ kept = <<>> /\ evidence = <<>>
      /\ \A k \in 1..Len(rows) : rows[k].duplicate_of = None
  BY DEF PipelineInv, PipelineTypes, StagesInv, Dedup
<1>2. Deduplicated(dedup, rows)
  BY <1>1, DedupFacts
<1>3. rows' = dedup /\ UNCHANGED <<kept, evidence>>
  BY DEF Dedup
<1>4. rows' \in SameBut(rows)
  BY <1>2, <1>3 DEF Deduplicated
<1>5. rows' \in [1..Len(rows) -> Row] /\ Len(rows) \in Nat
  BY <1>1, <1>4 DEF SameBut
<1>6. rows' \in Seq(Row) /\ Len(rows') = Len(rows) /\ DOMAIN rows' = 1..Len(rows)
  BY <1>5
<1>7. \A k \in 1..Len(rows) : rows'[k].chunk = rows[k].chunk /\ rows'[k].fusion = rows[k].fusion
  BY <1>4 DEF SameBut
<1> QED  BY <1>1, <1>2, <1>3, <1>5, <1>6, <1>7

LEMMA DedupActionInv ==
    ASSUME PipelineInv, Dedup
    PROVE  PipelineInv'
<1>1. PipelineTypes
  BY DEF PipelineInv
<1>2. stage' = "deduped" /\ UNCHANGED <<proposal, subqueries, kept, evidence>> /\ kept = <<>> /\ evidence = <<>>
  BY DedupIs DEF Dedup
<1>3. PipelineTypes'
  BY <1>1, <1>2, DedupIs, NothingYet DEF PipelineTypes
<1>4. StagesInv'
  BY <1>2 DEF StagesInv
<1>5. KeptInv'
  BY <1>2, NothingYet DEF KeptInv
<1>6. EvidenceInv'
  BY <1>2, NothingYet DEF EvidenceInv
<1>7. ActiveApart'
  <2>1. /\ DOMAIN rows' = 1..Len(rows) /\ \A k \in 1..Len(rows) : rows'[k].chunk = rows[k].chunk
    BY DedupIs
  <2>2. \A i, j \in 1..Len(rows) :
           i # j /\ rows'[i].duplicate_of = None /\ rows'[j].duplicate_of = None
              => ~SaysTheSame(rows[i].chunk, rows[j].chunk)
    BY DedupIs DEF Deduplicated
  <2> QED  BY <2>1, <2>2 DEF ActiveApart, Active
<1> QED  BY <1>3, <1>4, <1>5, <1>6, <1>7 DEF PipelineInv

LEMMA FlagIs ==
    ASSUME PipelineInv, Flag
    PROVE  /\ rows \in Seq(Row) /\ kept = <<>> /\ evidence = <<>> /\ ActiveApart
           /\ rows' = flag_contradictions /\ rows' \in Seq(Row) /\ Len(rows') = Len(rows)
           /\ DOMAIN rows' = 1..Len(rows) /\ DOMAIN rows = 1..Len(rows)
           /\ \A k \in 1..Len(rows) : /\ rows'[k].chunk = rows[k].chunk
                                      /\ rows'[k].duplicate_of = rows[k].duplicate_of
<1>1. rows \in Seq(Row) /\ stage = "deduped" /\ kept = <<>> /\ evidence = <<>> /\ ActiveApart
  BY DEF PipelineInv, PipelineTypes, StagesInv, Flag
<1>2. rows' = flag_contradictions
  BY DEF Flag
<1>3. rows' \in Like(rows)
  BY <1>1, <1>2, ContradictionsFlagged
<1>4. rows' \in [1..Len(rows) -> Row] /\ Len(rows) \in Nat
  BY <1>1, <1>3 DEF Like
<1>5. rows' \in Seq(Row) /\ Len(rows') = Len(rows) /\ DOMAIN rows' = 1..Len(rows)
  BY <1>4
<1>6. \A k \in 1..Len(rows) : /\ rows'[k].chunk = rows[k].chunk
                              /\ rows'[k].duplicate_of = rows[k].duplicate_of
  BY <1>3 DEF Like
<1> QED  BY <1>1, <1>2, <1>5, <1>6

LEMMA FlagActionInv ==
    ASSUME PipelineInv, Flag
    PROVE  PipelineInv'
<1>1. PipelineTypes
  BY DEF PipelineInv
<1>2. stage' = "flagged" /\ UNCHANGED <<proposal, subqueries, kept, evidence>> /\ kept = <<>> /\ evidence = <<>>
  BY FlagIs DEF Flag
<1>3. PipelineTypes'
  BY <1>1, <1>2, FlagIs, NothingYet DEF PipelineTypes
<1>4. StagesInv'
  BY <1>2 DEF StagesInv
<1>5. KeptInv'
  BY <1>2, NothingYet DEF KeptInv
<1>6. EvidenceInv'
  BY <1>2, NothingYet DEF EvidenceInv
<1>7. ActiveApart'
  BY FlagIs DEF ActiveApart, Active
<1> QED  BY <1>3, <1>4, <1>5, <1>6, <1>7 DEF PipelineInv

\* Reranking gives scores to rows of the next sub-query and changes nothing else.
LEMMA RerankIs ==
    ASSUME PipelineInv, RerankSubquery
    PROVE  /\ rows \in Seq(Row) /\ rows' \in Seq(Row) /\ Len(rows') = Len(rows)
           /\ DOMAIN rows' = 1..Len(rows) /\ DOMAIN rows = 1..Len(rows)
           /\ \A k \in 1..Len(rows) :
                 /\ rows'[k].chunk = rows[k].chunk /\ rows'[k].duplicate_of = rows[k].duplicate_of
                 /\ rows'[k].subquery = rows[k].subquery /\ rows'[k].pair_id = rows[k].pair_id
                 /\ rows[k].rerank \in Int => rows'[k].rerank \in Int
           /\ \E new \in Seq(1..Len(rows)) :
                 /\ kept' = Append(kept, new) /\ OneEach(new)
                 /\ \A i \in ToSet(new) : /\ i \in Active /\ rows[i].subquery = Len(kept) + 1
                                          /\ rows'[i].rerank \in Int
<1> DEFINE N == 1..Len(rows)
           mine == {i \in Active : rows[i].subquery = Len(kept) + 1}
           pool == UpTo(SortedBy(Candidates(Len(kept) + 1), Fusion), RERANK_CANDIDATES)
           Relevant(score) == Those(SortedBy(pool, score), {i \in DOMAIN score : score[i] >= MIN_RELEVANCE})
           Rescored(score) == [i \in DOMAIN rows |->
                                 IF i \in DOMAIN score THEN [rows[i] EXCEPT !.rerank = score[i]] ELSE rows[i]]
<1>1. /\ rows \in Seq(Row) /\ kept \in Seq(Seq(N)) /\ DOMAIN rows = N /\ Len(rows) \in Nat
      /\ \A k \in N : rows[k] \in Row
  BY DEF PipelineInv, PipelineTypes
<1>2. PICK score \in [ToSet(pool) -> RerankScores] :
           rows' = Rescored(score) /\ kept' = Append(kept, UpTo(Relevant(score), FINAL_K))
  BY DEF RerankSubquery
<1>3. RERANK_CANDIDATES \in Nat /\ FINAL_K \in Nat /\ RerankScores \subseteq Int
  BY LimitsAssumption, ScoresAssumption
<1>4. pool \in Seq(N) /\ OneEach(pool) /\ ToSet(pool) \subseteq mine
  <2> DEFINE candidates == Candidates(Len(kept) + 1)
             sorted == SortedBy(candidates, Fusion)
  <2>1. candidates \in Seq(N) /\ OneEach(candidates) /\ ToSet(candidates) \subseteq mine
    <3>1. candidates = Those(Ids, mine)
      BY DEF Candidates
    <3> HIDE DEF mine, candidates
    <3> QED  BY <1>1, <3>1, IdsFacts, ThoseFacts
  <2> HIDE DEF candidates
  <2>2. \A a \in 1..Len(candidates) : Fusion[candidates[a]] \in Int
    <3>1. \A k \in N : Fusion[k] \in Int
      BY <1>1 DEF Fusion, Row
    <3>2. \A a \in 1..Len(candidates) : candidates[a] \in N
      BY <2>1
    <3> QED  BY <3>1, <3>2
  <2>3. sorted \in Seq(N) /\ OneEach(sorted) /\ ToSet(sorted) = ToSet(candidates)
    BY <2>1, <2>2, SortedFacts
  <2>4. pool = UpTo(sorted, RERANK_CANDIDATES)
    BY DEF candidates
  <2> HIDE DEF sorted, mine, pool
  <2> QED  BY <1>3, <2>1, <2>3, <2>4, UpToFacts
<1> HIDE DEF pool
<1>5. \A i \in ToSet(pool) : score[i] \in Int
  BY <1>2, <1>3
<1> DEFINE new == UpTo(Relevant(score), FINAL_K)
<1>6. new \in Seq(N) /\ OneEach(new) /\ ToSet(new) \subseteq ToSet(pool)
  <2> DEFINE sorted == SortedBy(pool, score)
             relevant == Those(sorted, {i \in DOMAIN score : score[i] >= MIN_RELEVANCE})
  <2>1. \A a \in 1..Len(pool) : score[pool[a]] \in Int
    <3>1. \A a \in 1..Len(pool) : pool[a] \in ToSet(pool)
      BY <1>4 DEF ToSet
    <3> QED  BY <1>5, <3>1
  <2>2. sorted \in Seq(N) /\ OneEach(sorted) /\ ToSet(sorted) = ToSet(pool)
    BY <1>4, <2>1, SortedFacts
  <2> HIDE DEF sorted
  <2>3. relevant \in Seq(N) /\ OneEach(relevant) /\ ToSet(relevant) \subseteq ToSet(sorted)
    BY <2>2, ThoseFacts
  <2>4. new = UpTo(relevant, FINAL_K)
    BY DEF sorted
  <2> HIDE DEF relevant, new
  <2> QED  BY <1>3, <2>2, <2>3, <2>4, UpToFacts
<1>7. kept' = Append(kept, new)
  BY <1>2
<1> HIDE DEF new
<1>8. /\ rows' \in [N -> Row]
      /\ \A k \in N : /\ rows'[k].chunk = rows[k].chunk /\ rows'[k].duplicate_of = rows[k].duplicate_of
                      /\ rows'[k].subquery = rows[k].subquery /\ rows'[k].pair_id = rows[k].pair_id
                      /\ rows[k].rerank \in Int => rows'[k].rerank \in Int
                      /\ k \in ToSet(pool) => rows'[k].rerank \in Int
  <2> DEFINE row(k) == IF k \in ToSet(pool) THEN [rows[k] EXCEPT !.rerank = score[k]] ELSE rows[k]
  <2>1. DOMAIN score = ToSet(pool)
    BY <1>2
  <2>2. rows' = [k \in N |-> row(k)]
    BY <1>1, <1>2, <2>1
  <2>3. \A k \in N : /\ row(k) \in Row /\ row(k).chunk = rows[k].chunk
                     /\ row(k).duplicate_of = rows[k].duplicate_of
                     /\ row(k).subquery = rows[k].subquery /\ row(k).pair_id = rows[k].pair_id
                     /\ rows[k].rerank \in Int => row(k).rerank \in Int
                     /\ k \in ToSet(pool) => row(k).rerank \in Int
    <3> TAKE k \in N
    <3>1. rows[k] \in Row
      BY <1>1
    <3>2. CASE k \in ToSet(pool)
      <4>1. score[k] \in Int
        BY <1>5, <3>2
      <4> QED  BY <3>1, <3>2, <4>1 DEF Row
    <3>3. CASE k \notin ToSet(pool)
      BY <3>1, <3>3
    <3> QED  BY <3>2, <3>3
  <2> HIDE DEF row
  <2> QED  BY <2>2, <2>3
<1>9. rows' \in Seq(Row) /\ Len(rows') = Len(rows) /\ DOMAIN rows' = N
  BY <1>1, <1>8, SMTT(20), ZenonT(60)
<1>10. \A i \in ToSet(new) : i \in Active /\ rows[i].subquery = Len(kept) + 1 /\ rows'[i].rerank \in Int
  <2>1. \A i \in mine : i \in N
    BY <1>1 DEF Active
  <2> QED  BY <1>4, <1>6, <1>8, <2>1
<1> QED  BY <1>1, <1>6, <1>7, <1>8, <1>9, <1>10

LEMMA RerankActionInv ==
    ASSUME PipelineInv, RerankSubquery
    PROVE  PipelineInv'
<1>1. PipelineTypes /\ StagesInv /\ KeptInv /\ EvidenceInv /\ ActiveApart
  BY DEF PipelineInv, RerankSubquery
<1>2. stage = "flagged" /\ UNCHANGED <<stage, proposal, subqueries, evidence>>
  BY DEF RerankSubquery
<1>3. /\ rows' \in Seq(Row) /\ Len(rows') = Len(rows)
      /\ DOMAIN rows' = 1..Len(rows) /\ DOMAIN rows = 1..Len(rows)
      /\ \A k \in 1..Len(rows) :
            /\ rows'[k].chunk = rows[k].chunk /\ rows'[k].duplicate_of = rows[k].duplicate_of
            /\ rows'[k].subquery = rows[k].subquery
            /\ rows[k].rerank \in Int => rows'[k].rerank \in Int
  BY RerankIs
<1>4. PICK new \in Seq(1..Len(rows)) :
            /\ kept' = Append(kept, new) /\ OneEach(new)
            /\ \A i \in ToSet(new) : /\ i \in Active /\ rows[i].subquery = Len(kept) + 1
                                     /\ rows'[i].rerank \in Int
  BY RerankIs
<1>5. kept \in Seq(Seq(1..Len(rows)))
  BY <1>1 DEF PipelineTypes
<1>6. /\ kept' \in Seq(Seq(1..Len(rows))) /\ Len(kept') = Len(kept) + 1 /\ Len(kept) \in Nat
      /\ \A q \in 1..Len(kept) : kept'[q] = kept[q]
      /\ kept'[Len(kept) + 1] = new
  BY <1>4, <1>5
<1>7. PipelineTypes'
  BY <1>1, <1>2, <1>3, <1>6 DEF PipelineTypes
<1>8. StagesInv'
  BY <1>1, <1>2 DEF StagesInv
<1>9. Active' = Active /\ Active \subseteq 1..Len(rows)
  BY <1>3 DEF Active
<1>10. KeptInv'
  <2> SUFFICES ASSUME NEW q \in 1..Len(kept')
               PROVE  /\ OneEach(kept'[q])
                      /\ \A i \in ToSet(kept'[q]) : /\ i \in Active' /\ rows'[i].subquery = q
                                                    /\ rows'[i].rerank \in Int
    BY DEF KeptInv
  <2>1. CASE q = Len(kept) + 1
    BY <1>3, <1>4, <1>6, <1>9, <2>1
  <2>2. CASE q # Len(kept) + 1
    <3>1. q \in 1..Len(kept) /\ kept'[q] = kept[q]
      BY <1>6, <2>2
    <3>2. /\ OneEach(kept[q])
          /\ \A i \in ToSet(kept[q]) : i \in Active /\ rows[i].subquery = q /\ rows[i].rerank \in Int
      BY <1>1, <3>1 DEF KeptInv
    <3> QED  BY <1>3, <1>9, <3>1, <3>2
  <2> QED  BY <2>1, <2>2
<1>11. EvidenceInv'
  BY <1>1, <1>2, <1>9 DEF EvidenceInv
<1>12. ActiveApart'
  BY <1>1, <1>3, <1>9 DEF ActiveApart
<1> QED  BY <1>7, <1>8, <1>10, <1>11, <1>12 DEF PipelineInv

LEMMA FinishIs ==
    ASSUME PipelineInv, Finish
    PROVE  /\ PipelineTypes /\ KeptInv /\ UNCHANGED <<rows, kept>>
           /\ \E m \in Nat :
                 /\ m <= Len(cap_global_evidence) /\ evidence' = UpTo(cap_global_evidence, m)
                 /\ m < Len(cap_global_evidence)
                      => TokensOf(SubSeq(cap_global_evidence, 1, m + 1)) > EVIDENCE_TOKEN_BUDGET
<1>1. PipelineTypes /\ KeptInv
  BY DEF PipelineInv
<1>2. rows \in Seq(Row)
  BY <1>1 DEF PipelineTypes
<1>3. cap_global_evidence \in Seq(1..Len(rows))
  BY <1>1, CapFacts
<1>4. evidence' = truncate_to_token_budget(cap_global_evidence) /\ UNCHANGED <<rows, kept>>
  BY DEF Finish
<1> QED  BY <1>1, <1>2, <1>3, <1>4, TruncateFacts

LEMMA FinishActionInv ==
    ASSUME PipelineInv, Finish
    PROVE  PipelineInv'
<1>1. PipelineTypes /\ StagesInv /\ KeptInv /\ EvidenceInv /\ ActiveApart
  BY DEF PipelineInv, Finish
<1>2. stage' = "done" /\ UNCHANGED <<proposal, subqueries, rows, kept>>
  BY DEF Finish
<1>3. PICK m \in Nat : evidence' = UpTo(cap_global_evidence, m)
  BY FinishIs
<1>4. /\ evidence' \in Seq(1..Len(rows)) /\ OneEach(evidence') /\ ToSet(evidence') \subseteq Active
  <2>1. /\ cap_global_evidence \in Seq(1..Len(rows)) /\ OneEach(cap_global_evidence)
        /\ ToSet(cap_global_evidence) \subseteq Active
    BY <1>1, CapFacts, ChosenFacts, AllKeptFacts
  <2> QED  BY <1>3, <2>1, UpToFacts
<1>5. PipelineTypes'
  BY <1>1, <1>2, <1>4 DEF PipelineTypes
<1>6. StagesInv'
  BY <1>2 DEF StagesInv
<1>7. KeptInv'
  BY <1>1, <1>2 DEF KeptInv, Active
<1>8. EvidenceInv'
  BY <1>2, <1>4 DEF EvidenceInv, Active
<1>9. ActiveApart'
  BY <1>1, <1>2 DEF ActiveApart, Active
<1> QED  BY <1>5, <1>6, <1>7, <1>8, <1>9 DEF PipelineInv

LEMMA StutterInv ==
    ASSUME PipelineInv, UNCHANGED vars
    PROVE  PipelineInv'
  BY DEF PipelineInv, PipelineTypes, StagesInv, KeptInv, EvidenceInv, ActiveApart, Active, vars

LEMMA NextInv == PipelineInv /\ [Next]_vars => PipelineInv'
<1> SUFFICES ASSUME PipelineInv, [Next]_vars PROVE PipelineInv'
  OBVIOUS
<1>1. CASE AskAsSpoken \/ FallBack \/ (\E proposed \in Proposals : Decompose(proposed))
  BY <1>1, AskStep
<1>2. CASE \E results \in [DOMAIN subqueries -> Results] : Fuse(results)
  BY <1>2, FuseStep
<1>3. CASE Dedup
  BY <1>3, DedupActionInv
<1>4. CASE Flag
  BY <1>4, FlagActionInv
<1>5. CASE RerankSubquery
  BY <1>5, RerankActionInv
<1>6. CASE Finish
  BY <1>6, FinishActionInv
<1>7. CASE UNCHANGED vars
  BY <1>7, StutterInv
<1> QED  BY <1>1, <1>2, <1>3, <1>4, <1>5, <1>6, <1>7 DEF Next

\* The rows of a turn stay well formed, what a sub-query keeps are rows of its own, and
\* the evidence lists kept rows, each once (_fuse_and_rerank).
THEOREM EvidenceWellFormed == Spec => []PipelineInv
<1> QED  BY InitInv, NextInv, PTL DEF Spec

(***************************************************************************)
(* The properties.                                                         *)
(***************************************************************************)

LEMMA FlaggedInit == Init => DisagreementsFlagged
  BY DEF Init, DisagreementsFlagged

LEMMA FlaggedNext == PipelineInv /\ DisagreementsFlagged /\ [Next]_vars => DisagreementsFlagged'
<1> SUFFICES ASSUME PipelineInv, DisagreementsFlagged, [Next]_vars PROVE DisagreementsFlagged'
  OBVIOUS
<1>1. CASE AskAsSpoken \/ FallBack \/ (\E proposed \in Proposals : Decompose(proposed))
  BY <1>1 DEF DisagreementsFlagged, AskAsSpoken, FallBack, Decompose
<1>2. CASE \E results \in [DOMAIN subqueries -> Results] : Fuse(results)
  BY <1>2 DEF DisagreementsFlagged, Fuse
<1>3. CASE Dedup
  BY <1>3 DEF DisagreementsFlagged, Dedup
<1>4. CASE Flag
  <2>1. Active' = Active /\ \A i \in Active : rows'[i].chunk = rows[i].chunk
    BY <1>4, FlagIs DEF Active
  <2>2. rows \in Seq(Row) /\ rows' = flag_contradictions
    BY <1>4, FlagIs
  <2>3. \A i, j \in Active :
           Disagree(rows[i].chunk, rows[j].chunk) => /\ flag_contradictions[i].pair_id # None
                                                     /\ flag_contradictions[j].pair_id # None
    BY <2>2, ContradictionsFlagged
  <2> QED  BY <2>1, <2>2, <2>3 DEF DisagreementsFlagged
<1>5. CASE RerankSubquery
  <2>1. stage = "flagged"
    BY <1>5 DEF RerankSubquery
  <2>2. /\ Active' = Active
        /\ \A i \in Active : rows'[i].chunk = rows[i].chunk /\ rows'[i].pair_id = rows[i].pair_id
    BY <1>5, RerankIs DEF Active
  <2> QED  BY <2>1, <2>2 DEF DisagreementsFlagged
<1>6. CASE Finish
  BY <1>6 DEF DisagreementsFlagged, Finish
<1>7. CASE UNCHANGED vars
  BY <1>7 DEF DisagreementsFlagged, Active, vars
<1> QED  BY <1>1, <1>2, <1>3, <1>4, <1>5, <1>6, <1>7 DEF Next

\* Of two kept rows that give different numbers for the same entity, both are flagged,
\* however many rows are compared in whichever order: every two kept rows are compared,
\* and no later comparison takes a flag back (flag_contradictions).
THEOREM DisagreementsGetFlagged == Spec => []DisagreementsFlagged
<1>1. Init => PipelineInv /\ DisagreementsFlagged
  BY InitInv, FlaggedInit
<1>2. PipelineInv /\ DisagreementsFlagged /\ [Next]_vars => (PipelineInv /\ DisagreementsFlagged)'
  BY NextInv, FlaggedNext
<1> QED  BY <1>1, <1>2, PTL DEF Spec

\* The first part of NothingSaidTwice
Represented ==
    stage = "deduped" =>
         /\ \A i \in DOMAIN rows \ Active :
              LET j == rows[i].duplicate_of
              IN  /\ j \in Active /\ SaysTheSame(rows[i].chunk, rows[j].chunk)
                  /\ Fusion[j] >= Fusion[i]
         /\ \A i, j \in Active : i # j => ~SaysTheSame(rows[i].chunk, rows[j].chunk)

LEMMA RepresentedNext == PipelineInv /\ Represented /\ [Next]_vars => Represented'
<1> SUFFICES ASSUME PipelineInv, Represented, [Next]_vars PROVE Represented'
  OBVIOUS
<1>1. CASE AskAsSpoken \/ FallBack \/ (\E proposed \in Proposals : Decompose(proposed))
  BY <1>1 DEF Represented, AskAsSpoken, FallBack, Decompose
<1>2. CASE \E results \in [DOMAIN subqueries -> Results] : Fuse(results)
  BY <1>2 DEF Represented, Fuse
<1>3. CASE Dedup
  <2>1. /\ DOMAIN rows' = 1..Len(rows)
        /\ \A k \in 1..Len(rows) : rows'[k].chunk = rows[k].chunk /\ rows'[k].fusion = rows[k].fusion
    BY <1>3, DedupIs
  <2>2. Deduplicated(rows', rows)
    BY <1>3, DedupIs
  <2>3. \A k \in 1..Len(rows) : Fusion'[k] = rows[k].fusion
    BY <2>1 DEF Fusion
  <2>4. \A k \in 1..Len(rows) : k \in Active' <=> rows'[k].duplicate_of = None
    BY <2>1 DEF Active
  <2>5. Active' \subseteq 1..Len(rows)
    BY <2>1 DEF Active
  <2>6. ASSUME NEW i \in DOMAIN rows' \ Active'
        PROVE  /\ rows'[i].duplicate_of \in Active'
               /\ SaysTheSame(rows'[i].chunk, rows'[rows'[i].duplicate_of].chunk)
               /\ Fusion'[rows'[i].duplicate_of] >= Fusion'[i]
    <3>1. i \in 1..Len(rows) /\ rows'[i].duplicate_of # None
      BY <2>1, <2>4
    <3>2. PICK j : j = rows'[i].duplicate_of
      OBVIOUS
    <3>3. /\ j \in 1..Len(rows) /\ rows'[j].duplicate_of = None
          /\ SaysTheSame(rows[i].chunk, rows[j].chunk) /\ rows[j].fusion >= rows[i].fusion
      BY <2>2, <3>1, <3>2 DEF Deduplicated
    <3>4. j \in Active' /\ SaysTheSame(rows'[i].chunk, rows'[j].chunk) /\ Fusion'[j] >= Fusion'[i]
      BY <2>1, <2>3, <2>4, <3>1, <3>3
    <3> QED  BY <3>2, <3>4
  <2>7. \A i, j \in Active' : i # j => ~SaysTheSame(rows'[i].chunk, rows'[j].chunk)
    BY <2>1, <2>2, <2>4, <2>5 DEF Deduplicated
  <2> QED  BY <2>6, <2>7 DEF Represented
<1>4. CASE Flag
  BY <1>4 DEF Represented, Flag
<1>5. CASE RerankSubquery
  BY <1>5 DEF Represented, RerankSubquery
<1>6. CASE Finish
  BY <1>6 DEF Represented, Finish
<1>7. CASE UNCHANGED vars
  BY <1>7 DEF Represented, Active, Fusion, vars
<1> QED  BY <1>1, <1>2, <1>3, <1>4, <1>5, <1>6, <1>7 DEF Next

LEMMA EvidenceApart ==
    ASSUME PipelineInv, Represented
    PROVE  NothingSaidTwice
<1>1. \A i, j \in DOMAIN evidence :
         i # j => ~SaysTheSame(rows[evidence[i]].chunk, rows[evidence[j]].chunk)
  <2>1. CASE stage # "done"
    BY <2>1 DEF PipelineInv, StagesInv
  <2>2. CASE stage = "done"
    <3>1. /\ evidence \in Seq(1..Len(rows)) /\ OneEach(evidence) /\ ToSet(evidence) \subseteq Active
          /\ ActiveApart
      BY <2>2 DEF PipelineInv, PipelineTypes, EvidenceInv
    <3>2. DOMAIN evidence = 1..Len(evidence) /\ \A i \in 1..Len(evidence) : evidence[i] \in Active
      BY <3>1 DEF ToSet
    <3> QED  BY <3>1, <3>2 DEF ActiveApart, OneEach
  <2> QED  BY <2>1, <2>2
<1> QED  BY <1>1 DEF NothingSaidTwice, Represented

\* Deduplication loses nothing and leaves nothing twice, and neither does the evidence
\* of the turn say anything twice, across sub-queries too (dedup, _fuse_and_rerank).
THEOREM SaidOnce == Spec => []NothingSaidTwice
<1>1. Init => PipelineInv /\ Represented
  BY InitInv DEF Init, Represented
<1>2. PipelineInv /\ Represented /\ [Next]_vars => (PipelineInv /\ Represented)'
  BY NextInv, RepresentedNext
<1>3. PipelineInv /\ Represented => NothingSaidTwice
  BY EvidenceApart
<1> QED  BY <1>1, <1>2, <1>3, PTL DEF Spec

LEMMA BestFirst ==
    ASSUME PipelineTypes, KeptInv, NEW m \in Nat, NEW ev, ev = UpTo(cap_global_evidence, m)
    PROVE  /\ \A i, j \in DOMAIN ev : i < j => Rerank[ev[i]] >= Rerank[ev[j]]
           /\ \A i \in ToSet(AllKept) \ ToSet(ev), j \in ToSet(ev) :
                 Rerank[i] > Rerank[j] => j \in ToSet(Floor)
<1> DEFINE cap == cap_global_evidence
<1>1. /\ cap \in Seq(1..Len(rows)) /\ ToSet(cap) = ToSet(Chosen)
      /\ \A j, k \in 1..Len(cap) : j < k => Rerank[cap[j]] >= Rerank[cap[k]]
  BY CapFacts
<1> HIDE DEF cap
<1>2. /\ ev \in Seq(1..Len(rows)) /\ ToSet(ev) \subseteq ToSet(cap)
      /\ Len(ev) = (IF m < Len(cap) THEN m ELSE Len(cap))
      /\ \A k \in 1..Len(ev) : k \in 1..Len(cap) /\ ev[k] = cap[k]
  BY <1>1, UpToFacts DEF cap
<1>3. DOMAIN ev = 1..Len(ev) /\ Len(ev) \in Nat /\ Len(cap) \in Nat
  BY <1>1, <1>2
<1>4. \A i, j \in DOMAIN ev : i < j => Rerank[ev[i]] >= Rerank[ev[j]]
  BY <1>1, <1>2, <1>3
<1>5. ASSUME NEW i \in ToSet(AllKept) \ ToSet(ev), NEW j \in ToSet(ev), Rerank[i] > Rerank[j]
      PROVE  j \in ToSet(Floor)
  <2>1. j \in ToSet(Chosen)
    BY <1>1, <1>2
  <2>2. CASE i \notin ToSet(Chosen)
    BY <1>5, <2>1, <2>2, ChosenFacts
  <2>3. CASE i \in ToSet(Chosen)
    <3>1. PICK k \in 1..Len(cap) : cap[k] = i
      <4>1. i \in ToSet(cap) /\ DOMAIN cap = 1..Len(cap)
        BY <1>1, <2>3
      <4> QED  BY <4>1 DEF ToSet
    <3>2. PICK b \in 1..Len(ev) : ev[b] = j
      BY <1>3 DEF ToSet
    <3>3. k > Len(ev)
      <4> SUFFICES ASSUME k \in 1..Len(ev) PROVE FALSE
        BY <1>3
      <4>1. ev[k] = i /\ k \in DOMAIN ev
        BY <1>2, <1>3, <3>1
      <4> QED  BY <4>1 DEF ToSet
    <3>4. b < k /\ b \in 1..Len(cap) /\ cap[b] = j
      BY <1>2, <1>3, <3>2, <3>3
    <3>5. Rerank[j] >= Rerank[i]
      BY <1>1, <3>1, <3>4
    <3>6. Rerank[i] \in Int /\ Rerank[j] \in Int
      <4>1. i \in ToSet(AllKept) /\ j \in ToSet(AllKept)
        BY <2>1, ChosenFacts
      <4> QED  BY <4>1, AllKeptFacts
    <3> QED  BY <1>5, <3>5, <3>6
  <2> QED  BY <2>2, <2>3
<1> QED  BY <1>4, <1>5

LEMMA BetterNext == PipelineInv /\ BetterOnesFirst /\ [Next]_vars => BetterOnesFirst'
<1> SUFFICES ASSUME PipelineInv, BetterOnesFirst, [Next]_vars PROVE BetterOnesFirst'
  OBVIOUS
<1>1. CASE AskAsSpoken \/ FallBack \/ (\E proposed \in Proposals : Decompose(proposed))
  BY <1>1 DEF BetterOnesFirst, AskAsSpoken, FallBack, Decompose
<1>2. CASE \E results \in [DOMAIN subqueries -> Results] : Fuse(results)
  BY <1>2 DEF BetterOnesFirst, Fuse
<1>3. CASE Dedup
  BY <1>3 DEF BetterOnesFirst, Dedup
<1>4. CASE Flag
  BY <1>4 DEF BetterOnesFirst, Flag
<1>5. CASE RerankSubquery
  BY <1>5 DEF BetterOnesFirst, RerankSubquery
<1>6. CASE Finish
  <2>1. PICK m \in Nat : evidence' = UpTo(cap_global_evidence, m)
    BY <1>6, FinishIs
  <2>2. PipelineTypes /\ KeptInv /\ rows' = rows /\ kept' = kept
    BY <1>6, FinishIs
  <2>3. PICK ev : ev = evidence'
    OBVIOUS
  <2>4. /\ \A i, j \in DOMAIN ev : i < j => Rerank[ev[i]] >= Rerank[ev[j]]
        /\ \A i \in ToSet(AllKept) \ ToSet(ev), j \in ToSet(ev) :
                 Rerank[i] > Rerank[j] => j \in ToSet(Floor)
    BY <2>1, <2>2, <2>3, BestFirst
  <2>5. Rerank' = Rerank
    BY <2>2 DEF Rerank
  <2>6. AllKept' = AllKept
    BY <2>2 DEF AllKept
  <2>7. Floor' = Floor
    BY <2>2, <2>5 DEF Floor
  <2> QED  BY <2>3, <2>4, <2>5, <2>6, <2>7 DEF BetterOnesFirst
<1>7. CASE UNCHANGED vars
  BY <1>7 DEF BetterOnesFirst, Rerank, AllKept, Floor, vars
<1> QED  BY <1>1, <1>2, <1>3, <1>4, <1>5, <1>6, <1>7 DEF Next

\* The evidence is in order of relevance, and a row is left out in favour of a worse one
\* only if that is the best of its own sub-query, for any scores, any number of
\* sub-queries and any caps (cap_global_evidence, truncate_to_token_budget).
THEOREM EvidenceInOrder == Spec => []BetterOnesFirst
<1>1. Init => PipelineInv /\ BetterOnesFirst
  BY InitInv DEF Init, BetterOnesFirst
<1>2. PipelineInv /\ BetterOnesFirst /\ [Next]_vars => (PipelineInv /\ BetterOnesFirst)'
  BY NextInv, BetterNext
<1> QED  BY <1>1, <1>2, PTL DEF Spec

\* Tokens as a set, one member for each: a sum over rows that are listed once does not
\* depend on their order, and grows with the rows.
Units(S) == {p \in (1..Len(rows)) \X Nat : p[1] \in S /\ p[2] \in 1..Tokens[rows[p[1]].chunk]}

LEMMA UnitsOfOne ==
    ASSUME rows \in Seq(Row), NEW x \in 1..Len(rows)
    PROVE  /\ Tokens[rows[x].chunk] \in Nat
           /\ IsFiniteSet(Units({x})) /\ Cardinality(Units({x})) = Tokens[rows[x].chunk]
<1> DEFINE t == Tokens[rows[x].chunk]
           g == [k \in 1..t |-> <<x, k>>]
<1>1. t \in Nat
  <2>1. rows[x] \in Row
    OBVIOUS
  <2>2. rows[x].chunk \in Chunks
    BY <2>1 DEF Row
  <2> QED  BY <2>2, ChunksAssumption
<1>2. Units({x}) = {<<x, k>> : k \in 1..t}
  BY <1>1 DEF Units
<1> HIDE DEF t
<1>3. g \in Bijection(1..t, Units({x}))
  <2>1. g \in [1..t -> Units({x})]
    BY <1>2
  <2>2. \A j, k \in 1..t : g[j] = g[k] => j = k
    OBVIOUS
  <2>3. \A p \in Units({x}) : \E k \in 1..t : g[k] = p
    BY <1>2
  <2> HIDE DEF g
  <2> QED  BY <2>1, <2>2, <2>3 DEF Bijection, Injection, Surjection, IsInjective
<1>4. IsFiniteSet(1..t) /\ Cardinality(1..t) = t
  <2>1. 1 \in Int /\ t \in Int
    BY <1>1
  <2>2. Cardinality(1..t) = IF 1 > t THEN 0 ELSE t - 1 + 1
    BY <2>1, FS_Interval
  <2> QED  BY <1>1, <2>1, <2>2, FS_Interval
<1>5. ExistsBijection(1..t, Units({x}))
  BY <1>3 DEF ExistsBijection
<1> QED  BY <1>1, <1>4, <1>5, FS_Bijection DEF t

LEMMA TokensCounted ==
    ASSUME rows \in Seq(Row), NEW ids \in Seq(1..Len(rows)), OneEach(ids)
    PROVE  /\ IsFiniteSet(Units(ToSet(ids))) /\ Cardinality(Units(ToSet(ids))) = TokensOf(ids)
           /\ TokensOf(ids) \in Nat
<1> DEFINE n == Len(ids)
           First(i) == {ids[k] : k \in 1..i}
<1>1. n \in Nat /\ \A k \in 1..n : ids[k] \in 1..Len(rows)
  OBVIOUS
<1>2. PICK f \in [0..n -> Nat] : /\ f[0] = 0
                                 /\ \A i \in 1..n : f[i] = f[i - 1] + Tokens[rows[ids[i]].chunk]
                                 /\ TokensOf(ids) = f[n]
  BY TokensChain
<1> DEFINE Counted(i) == IsFiniteSet(Units(First(i))) /\ Cardinality(Units(First(i))) = f[i]
           Good == {i \in Nat : i <= n => Counted(i)}
<1>3. 0 \in Good
  <2>1. Units(First(0)) = {}
    BY DEF Units
  <2>2. Counted(0)
    <3> HIDE DEF First
    <3> QED  BY <1>2, <2>1, FS_EmptySet
  <2> HIDE DEF Counted
  <2> QED  BY <2>2
<1>4. ASSUME NEW i \in Nat, i \in Good PROVE i + 1 \in Good
  <2> SUFFICES ASSUME i + 1 <= n PROVE Counted(i + 1)
    <3> HIDE DEF Counted
    <3> QED  OBVIOUS
  <2>1. i + 1 \in 1..n /\ (i + 1) - 1 = i /\ i <= n /\ i \in 0..n
    BY <1>1
  <2>2. Counted(i)
    <3> HIDE DEF Counted
    <3> QED  BY <1>4, <2>1
  <2>3. PICK x \in 1..Len(rows) : x = ids[i + 1]
    BY <1>1, <2>1
  <2>4. First(i + 1) = First(i) \cup {x}
    <3>1. 1..(i + 1) = (1..i) \cup {i + 1}
      OBVIOUS
    <3> QED  BY <2>3, <3>1
  <2>5. x \notin First(i)
    <3>1. \A k \in 1..i : k \in 1..n /\ k # i + 1
      BY <1>1, <2>1
    <3>2. \A k \in 1..i : ids[k] # x
      BY <2>1, <2>3, <3>1 DEF OneEach
    <3> QED  BY <3>2
  <2> HIDE DEF First
  <2>6. Units(First(i + 1)) = Units(First(i)) \cup Units({x})
    BY <2>4 DEF Units
  <2>7. Units(First(i)) \cap Units({x}) = {}
    BY <2>5 DEF Units
  <2>8. /\ IsFiniteSet(Units({x})) /\ Cardinality(Units({x})) = Tokens[rows[x].chunk]
        /\ Tokens[rows[x].chunk] \in Nat
    BY UnitsOfOne
  <2>9. /\ IsFiniteSet(Units(First(i + 1)))
        /\ Cardinality(Units(First(i + 1))) =
              Cardinality(Units(First(i))) + Cardinality(Units({x})) - Cardinality(Units(First(i)) \cap Units({x}))
    BY <2>2, <2>6, <2>8, FS_Union, SMTT(20), ZenonT(60)
  <2>10. f[i + 1] = f[i] + Tokens[rows[x].chunk] /\ f[i] \in Nat
    BY <1>2, <2>1, <2>3
  <2>11. Cardinality(Units(First(i)) \cap Units({x})) = 0
    BY <2>7, FS_EmptySet
  <2> QED  BY <2>2, <2>8, <2>9, <2>10, <2>11
<1>5. Counted(n)
  <2>1. Nat \subseteq Good
    <3> HIDE DEF Good
    <3> QED  BY <1>3, <1>4, SetInduction
  <2> HIDE DEF Counted
  <2> QED  BY <1>1, <2>1
<1>6. ToSet(ids) = First(n)
  BY <1>1 DEF ToSet
<1>7. f[n] \in Nat
  BY <1>1, <1>2
<1> HIDE DEF First
<1> QED  BY <1>2, <1>5, <1>6, <1>7

LEMMA MoreRowsMoreTokens ==
    ASSUME rows \in Seq(Row), NEW few \in Seq(1..Len(rows)), NEW many \in Seq(1..Len(rows)),
           OneEach(few), OneEach(many), ToSet(few) \subseteq ToSet(many)
    PROVE  TokensOf(few) <= TokensOf(many) /\ TokensOf(few) \in Nat /\ TokensOf(many) \in Nat
<1>1. Units(ToSet(few)) \in SUBSET Units(ToSet(many))
  BY DEF Units
<1>2. /\ IsFiniteSet(Units(ToSet(few))) /\ Cardinality(Units(ToSet(few))) = TokensOf(few)
      /\ IsFiniteSet(Units(ToSet(many))) /\ Cardinality(Units(ToSet(many))) = TokensOf(many)
      /\ TokensOf(few) \in Nat /\ TokensOf(many) \in Nat
  BY TokensCounted
<1>3. Cardinality(Units(ToSet(few))) <= Cardinality(Units(ToSet(many)))
  BY <1>1, <1>2, FS_Subset
<1> QED  BY <1>2, <1>3

LEMMA HeardOrCut ==
    ASSUME PipelineTypes, KeptInv, NEW m \in Nat, m <= Len(cap_global_evidence),
           m < Len(cap_global_evidence)
              => TokensOf(SubSeq(cap_global_evidence, 1, m + 1)) > EVIDENCE_TOKEN_BUDGET,
           NEW ev, ev = UpTo(cap_global_evidence, m), NEW q \in Heard
    PROVE  \/ Head(kept[q]) \in ToSet(ev)
           \/ Cardinality(Heard) > MAX_TOTAL_EVIDENCE
           \/ TokensOf(Those(AllKept, {i \in ToSet(AllKept) : Rerank[i] >= Rerank[Head(kept[q])]}))
                 > EVIDENCE_TOKEN_BUDGET
<1> SUFFICES ASSUME Head(kept[q]) \notin ToSet(ev), ~(Cardinality(Heard) > MAX_TOTAL_EVIDENCE)
             PROVE  TokensOf(Those(AllKept, {i \in ToSet(AllKept) : Rerank[i] >= Rerank[Head(kept[q])]}))
                       > EVIDENCE_TOKEN_BUDGET
  OBVIOUS
<1>1. PICK cap : cap = cap_global_evidence
  OBVIOUS
<1>2. /\ cap \in Seq(1..Len(rows)) /\ OneEach(cap) /\ ToSet(cap) = ToSet(Chosen)
      /\ \A j, k \in 1..Len(cap) : j < k => Rerank[cap[j]] >= Rerank[cap[k]]
  BY <1>1, CapFacts
<1>3. /\ m <= Len(cap) /\ Len(cap) \in Nat /\ ev = UpTo(cap, m)
      /\ m < Len(cap) => TokensOf(SubSeq(cap, 1, m + 1)) > EVIDENCE_TOKEN_BUDGET
  BY <1>1, <1>2
<1>4. PICK h : h = Head(kept[q])
  OBVIOUS
<1>5. h \in ToSet(Chosen)
  BY <1>4, ChosenFacts
<1>6. PICK p \in 1..Len(cap) : cap[p] = h
  BY <1>2, <1>5, SMTT(20), ZenonT(60) DEF ToSet
<1>7. p > m
  <2> SUFFICES ASSUME p \in 1..m PROVE FALSE
    BY <1>3
  <2>1. /\ ev \in Seq(1..Len(rows)) /\ Len(ev) = (IF m < Len(cap) THEN m ELSE Len(cap))
        /\ \A k \in 1..Len(ev) : ev[k] = cap[k]
    BY <1>2, <1>3, UpToFacts, SMTT(20), ZenonT(60)
  <2>2. Len(ev) = m /\ DOMAIN ev = 1..m
    BY <1>3, <2>1
  <2>3. ev[p] = h
    BY <1>6, <2>1, <2>2
  <2> QED  BY <1>4, <2>2, <2>3 DEF ToSet
<1>8. m < Len(cap) /\ m + 1 \in Nat
  BY <1>3, <1>6, <1>7
<1> DEFINE part == UpTo(cap, m + 1)
           better == {i \in ToSet(AllKept) : Rerank[i] >= Rerank[h]}
           all == Those(AllKept, better)
<1>9. part = SubSeq(cap, 1, m + 1)
  <2>1. (IF m + 1 < Len(cap) THEN m + 1 ELSE Len(cap)) = m + 1
    BY <1>3, <1>8
  <2> QED  BY <2>1 DEF UpTo
<1>10. /\ part \in Seq(1..Len(rows)) /\ OneEach(part)
       /\ Len(part) = (IF m + 1 < Len(cap) THEN m + 1 ELSE Len(cap))
       /\ \A k \in 1..Len(part) : k \in 1..Len(cap) /\ part[k] = cap[k]
  BY <1>2, <1>8, UpToFacts
<1> HIDE DEF part
<1>11. all \in Seq(1..Len(rows)) /\ OneEach(all) /\ ToSet(all) = better
  <2>1. AllKept \in Seq(1..Len(rows)) /\ OneEach(AllKept)
    BY AllKeptFacts
  <2>2. ToSet(AllKept) \cap better = better
    OBVIOUS
  <2> HIDE DEF better
  <2> QED  BY <2>1, <2>2, ThoseFacts, ZenonT(60)
<1>12. ToSet(part) \subseteq better
  <2> SUFFICES ASSUME NEW e \in ToSet(part) PROVE e \in better
    OBVIOUS
  <2>1. PICK k \in 1..Len(part) : part[k] = e
    BY <1>10 DEF ToSet
  <2>2. k <= p /\ k \in 1..Len(cap) /\ cap[k] = e
    BY <1>3, <1>6, <1>7, <1>8, <1>10, <2>1
  <2>3. e \in ToSet(cap)
    BY <1>2, <2>2 DEF ToSet
  <2>4. e \in ToSet(AllKept) /\ h \in ToSet(AllKept)
    BY <1>2, <1>5, <2>3, ChosenFacts
  <2>5. Rerank[e] \in Int /\ Rerank[h] \in Int
    BY <2>4, AllKeptFacts
  <2>6. Rerank[e] >= Rerank[h]
    <3>1. CASE k = p
      BY <1>6, <2>2, <2>5, <3>1
    <3>2. CASE k # p
      <4>1. k < p
        BY <2>2, <3>2
      <4> QED  BY <1>2, <1>6, <2>2, <4>1
    <3> QED  BY <3>1, <3>2
  <2> QED  BY <2>4, <2>6
<1>13. rows \in Seq(Row)
  BY DEF PipelineTypes
<1>14. TokensOf(part) <= TokensOf(all) /\ TokensOf(part) \in Nat /\ TokensOf(all) \in Nat
  <2> HIDE DEF all, better
  <2> QED  BY <1>10, <1>11, <1>12, <1>13, MoreRowsMoreTokens
<1>15. TokensOf(part) > EVIDENCE_TOKEN_BUDGET /\ EVIDENCE_TOKEN_BUDGET \in Nat
  BY <1>3, <1>8, <1>9, LimitsAssumption
<1>16. TokensOf(all) > EVIDENCE_TOKEN_BUDGET
  <2> HIDE DEF all
  <2> QED  BY <1>14, <1>15
<1> QED  BY <1>4, <1>16

LEMMA SumUnchanged ==
    ASSUME rows' = rows, NEW s
    PROVE  TokensOf(s)' = TokensOf(s)
  BY DEF TokensOf, FoldLeft, MapThenFoldSet

LEMMA HeardNext == PipelineInv /\ EverySubQueryHeard /\ [Next]_vars => EverySubQueryHeard'
<1> SUFFICES ASSUME PipelineInv, EverySubQueryHeard, [Next]_vars PROVE EverySubQueryHeard'
  OBVIOUS
<1>1. CASE AskAsSpoken \/ FallBack \/ (\E proposed \in Proposals : Decompose(proposed))
  BY <1>1 DEF EverySubQueryHeard, AskAsSpoken, FallBack, Decompose
<1>2. CASE \E results \in [DOMAIN subqueries -> Results] : Fuse(results)
  BY <1>2 DEF EverySubQueryHeard, Fuse
<1>3. CASE Dedup
  BY <1>3 DEF EverySubQueryHeard, Dedup
<1>4. CASE Flag
  BY <1>4 DEF EverySubQueryHeard, Flag
<1>5. CASE RerankSubquery
  BY <1>5 DEF EverySubQueryHeard, RerankSubquery
<1>6. CASE Finish
  <2>1. PICK m \in Nat :
           /\ m <= Len(cap_global_evidence) /\ evidence' = UpTo(cap_global_evidence, m)
           /\ m < Len(cap_global_evidence)
                 => TokensOf(SubSeq(cap_global_evidence, 1, m + 1)) > EVIDENCE_TOKEN_BUDGET
    BY <1>6, FinishIs
  <2>2. PipelineTypes /\ KeptInv /\ rows' = rows /\ kept' = kept
    BY <1>6, FinishIs
  <2>3. PICK ev : ev = evidence'
    OBVIOUS
  <2>4. \A q \in Heard :
           \/ Head(kept[q]) \in ToSet(ev)
           \/ Cardinality(Heard) > MAX_TOTAL_EVIDENCE
           \/ TokensOf(Those(AllKept, {i \in ToSet(AllKept) : Rerank[i] >= Rerank[Head(kept[q])]}))
                 > EVIDENCE_TOKEN_BUDGET
    BY <2>1, <2>2, <2>3, HeardOrCut
  <2>5. Rerank' = Rerank
    BY <2>2 DEF Rerank
  <2>6. AllKept' = AllKept
    BY <2>2 DEF AllKept
  <2>7. \A q \in Heard :
           TokensOf(Those(AllKept, {i \in ToSet(AllKept) : Rerank[i] >= Rerank[Head(kept[q])]}))'
              = TokensOf(Those(AllKept, {i \in ToSet(AllKept) : Rerank[i] >= Rerank[Head(kept[q])]}))
    BY <2>2, <2>5, <2>6, SumUnchanged
  <2> QED  BY <2>2, <2>3, <2>4, <2>7 DEF EverySubQueryHeard, Heard
<1>7. CASE UNCHANGED vars
  <2>1. stage' = stage /\ rows' = rows /\ kept' = kept /\ evidence' = evidence
    BY <1>7 DEF vars
  <2>2. Rerank' = Rerank /\ AllKept' = AllKept
    BY <2>1 DEF Rerank, AllKept
  <2>3. \A q \in Heard :
           TokensOf(Those(AllKept, {i \in ToSet(AllKept) : Rerank[i] >= Rerank[Head(kept[q])]}))'
              = TokensOf(Those(AllKept, {i \in ToSet(AllKept) : Rerank[i] >= Rerank[Head(kept[q])]}))
    BY <2>1, <2>2, SumUnchanged
  <2> QED  BY <2>1, <2>3 DEF EverySubQueryHeard, Heard
<1> QED  BY <1>1, <1>2, <1>3, <1>4, <1>5, <1>6, <1>7 DEF Next

\* A sub-query with relevant evidence keeps its best row in the turn's evidence, unless
\* there are more such sub-queries than places or rows that are no worse fill the token
\* budget by themselves (cap_global_evidence, truncate_to_token_budget).
THEOREM NoSubQueryForgotten == Spec => []EverySubQueryHeard
<1>1. Init => PipelineInv /\ EverySubQueryHeard
  BY InitInv DEF Init, EverySubQueryHeard
<1>2. PipelineInv /\ EverySubQueryHeard /\ [Next]_vars => (PipelineInv /\ EverySubQueryHeard)'
  BY NextInv, HeardNext
<1> QED  BY <1>1, <1>2, PTL DEF Spec

\* Where t is among the first i texts, the sub-queries, and what they absorbed
Proposed(proposed, t, i) == {n \in 1..i : proposed[n] = t}
Asked(s, t) == {i \in 1..Len(s) : s[i].text = t}
AbsorbedBy(s, t) ==
    {p \in (1..Len(s)) \X Nat : p[2] \in 1..Len(s[p[1]].merged_from) /\ s[p[1]].merged_from[p[2]] = t}

LEMMA AsksTheSameSymmetric ==
    ASSUME NEW t, NEW u, AsksTheSame(t, u)
    PROVE  AsksTheSame(u, t)
<1>1. ASSUME <<t, u>> \in AlikeTexts PROVE <<u, t>> \in AlikeTexts
  BY <1>1, TextsAssumption DEF Symmetric
<1> QED  BY <1>1 DEF AsksTheSame

\* What a step adds to the three sets
LEMMA MergeAdds ==
    ASSUME NEW seen \in Seq(SubQuery), NEW text \in Texts, NEW t,
           \A i, j \in 1..Len(seen) : i # j => ~AsksTheSame(seen[i].text, seen[j].text)
    PROVE  LET next == MergeInto(seen, text)
           IN  /\ Len(next) > 0
               /\ \A i, j \in 1..Len(next) : i # j => ~AsksTheSame(next[i].text, next[j].text)
               /\ text # t => Asked(next, t) = Asked(seen, t) /\ AbsorbedBy(next, t) = AbsorbedBy(seen, t)
               /\ text = t => \/ /\ AbsorbedBy(next, t) = AbsorbedBy(seen, t)
                                 /\ \E i : i \notin Asked(seen, t) /\ Asked(next, t) = Asked(seen, t) \cup {i}
                              \/ /\ Asked(next, t) = Asked(seen, t)
                                 /\ \E p : /\ p \notin AbsorbedBy(seen, t)
                                           /\ AbsorbedBy(next, t) = AbsorbedBy(seen, t) \cup {p}
<1>1. seen \in [1..Len(seen) -> SubQuery] /\ Len(seen) \in Nat
  OBVIOUS
<1>2. CASE /\ \A i \in 1..Len(seen) : ~AsksTheSame(seen[i].text, text)
           /\ MergeInto(seen, text) = Append(seen, [text |-> text, merged_from |-> <<>>])
  <2> DEFINE l == Len(seen) + 1
  <2>1. PICK next : next = MergeInto(seen, text)
    OBVIOUS
  <2>2. /\ Len(next) = l /\ l \in Nat /\ l > 0 /\ l \in 1..l
        /\ \A i \in 1..Len(seen) : i \in 1..l /\ next[i] = seen[i]
        /\ next[l].text = text /\ next[l].merged_from = <<>>
        /\ \A i \in 1..l : i = l \/ i \in 1..Len(seen)
    BY <1>1, <1>2, <2>1
  <2>3. l \notin 1..Len(seen)
    BY <1>1
  <2> HIDE DEF l
  <2>4. \A i, j \in 1..l : i # j => ~AsksTheSame(next[i].text, next[j].text)
    BY <1>2, <2>2, AsksTheSameSymmetric
  <2>5. Len(<<>>) = 0
    OBVIOUS
  <2>6. AbsorbedBy(next, t) = AbsorbedBy(seen, t)
    <3>1. ASSUME NEW a \in 1..l, NEW b \in Nat
          PROVE  <<a, b>> \in AbsorbedBy(next, t) <=> <<a, b>> \in AbsorbedBy(seen, t)
      <4>1. CASE a = l
        <5>1. <<a, b>> \notin AbsorbedBy(next, t)
          BY <2>2, <2>5, <4>1 DEF AbsorbedBy
        <5>2. <<a, b>> \notin AbsorbedBy(seen, t)
          BY <2>3, <4>1 DEF AbsorbedBy
        <5> QED  BY <5>1, <5>2
      <4>2. CASE a \in 1..Len(seen)
        BY <2>2, <4>2 DEF AbsorbedBy
      <4> QED  BY <2>2, <4>1, <4>2
    <3>2. AbsorbedBy(next, t) \subseteq (1..l) \X Nat /\ AbsorbedBy(seen, t) \subseteq (1..l) \X Nat
      BY <2>2 DEF AbsorbedBy
    <3>3. \A e \in (1..l) \X Nat : e \in AbsorbedBy(next, t) <=> e \in AbsorbedBy(seen, t)
      <4> TAKE e \in (1..l) \X Nat
      <4>1. PICK a \in 1..l, b \in Nat : e = <<a, b>>
        OBVIOUS
      <4> QED  BY <3>1, <4>1
    <3> QED  BY <3>2, <3>3
  <2>7. Asked(next, t) = IF text = t THEN Asked(seen, t) \cup {l} ELSE Asked(seen, t)
    BY <2>2, <2>3 DEF Asked
  <2>8. l \notin Asked(seen, t)
    BY <2>3 DEF Asked
  <2> QED  BY <2>1, <2>2, <2>4, <2>6, <2>7, <2>8
<1>3. ASSUME NEW m \in 1..Len(seen),
             MergeInto(seen, text) = [seen EXCEPT ![m] = [text |-> seen[m].text,
                                                          merged_from |-> Append(seen[m].merged_from, text)]]
      PROVE  LET next == MergeInto(seen, text)
             IN  /\ Len(next) > 0
                 /\ \A i, j \in 1..Len(next) : i # j => ~AsksTheSame(next[i].text, next[j].text)
                 /\ text # t => Asked(next, t) = Asked(seen, t) /\ AbsorbedBy(next, t) = AbsorbedBy(seen, t)
                 /\ text = t => /\ Asked(next, t) = Asked(seen, t)
                                /\ \E p : /\ p \notin AbsorbedBy(seen, t)
                                          /\ AbsorbedBy(next, t) = AbsorbedBy(seen, t) \cup {p}
  <2> DEFINE old == seen[m].merged_from
             l == Len(old) + 1
  <2>1. PICK next : next = MergeInto(seen, text)
    OBVIOUS
  <2>2. old \in Seq(Texts)
    <3>1. seen[m] \in SubQuery
      BY <1>1
    <3> QED  BY <3>1 DEF SubQuery
  <2> HIDE DEF old
  <2>3. /\ Append(old, text) \in Seq(Texts) /\ Len(Append(old, text)) = l /\ Len(old) \in Nat /\ l \in Nat
        /\ Append(old, text)[l] = text /\ l \in 1..l
        /\ \A b \in 1..Len(old) : b \in 1..l /\ Append(old, text)[b] = old[b]
        /\ \A b \in 1..l : b = l \/ b \in 1..Len(old)
        /\ l \notin 1..Len(old)
    BY <2>2
  <2>4. next = [seen EXCEPT ![m] = [text |-> seen[m].text, merged_from |-> Append(old, text)]]
    BY <1>3, <2>1 DEF old
  <2>5. /\ next \in [1..Len(seen) -> SubQuery] /\ next \in Seq(SubQuery)
        /\ \A i \in 1..Len(seen) : next[i].text = seen[i].text
        /\ \A i \in 1..Len(seen) : i # m => next[i] = seen[i]
        /\ next[m].merged_from = Append(old, text)
    <3> DEFINE more == Append(old, text)
               absorbing == [text |-> seen[m].text, merged_from |-> more]
    <3>1. more \in Seq(Texts)
      BY <2>3
    <3> HIDE DEF more
    <3>2. absorbing \in SubQuery /\ absorbing.text = seen[m].text /\ absorbing.merged_from = more
      <4>1. seen[m] \in SubQuery
        BY <1>1
      <4> QED  BY <3>1, <4>1 DEF SubQuery
    <3>3. next = [seen EXCEPT ![m] = absorbing]
      BY <2>4 DEF more
    <3> HIDE DEF absorbing
    <3>4. next \in [1..Len(seen) -> SubQuery] /\ next[m] = absorbing /\ \A i \in 1..Len(seen) : i # m => next[i] = seen[i]
      BY <1>1, <3>2, <3>3
    <3>5. next \in Seq(SubQuery)
      BY <1>1, <3>4
    <3> QED  BY <3>2, <3>4, <3>5 DEF more
  <2>6. Len(next) = Len(seen) /\ Len(next) > 0
    BY <1>1, <2>5
  <2>7. Asked(next, t) = Asked(seen, t)
    BY <2>5, <2>6 DEF Asked
  <2>8. \A i, j \in 1..Len(next) : i # j => ~AsksTheSame(next[i].text, next[j].text)
    BY <2>5, <2>6
  <2> HIDE DEF l
  <2>9. AbsorbedBy(next, t) = IF text = t THEN AbsorbedBy(seen, t) \cup {<<m, l>>} ELSE AbsorbedBy(seen, t)
    <3>1. ASSUME NEW a \in 1..Len(seen), NEW b \in Nat
          PROVE  <<a, b>> \in AbsorbedBy(next, t) <=> \/ <<a, b>> \in AbsorbedBy(seen, t)
                                                      \/ (a = m /\ b = l /\ text = t)
      <4>1. CASE a # m
        BY <2>5, <2>6, <4>1 DEF AbsorbedBy
      <4>2. CASE a = m
        <5>1. <<a, b>> \in AbsorbedBy(next, t) <=> b \in 1..l /\ Append(old, text)[b] = t
          BY <2>3, <2>5, <2>6, <4>2 DEF AbsorbedBy
        <5>2. <<a, b>> \in AbsorbedBy(seen, t) <=> b \in 1..Len(old) /\ old[b] = t
          BY <4>2 DEF AbsorbedBy, old
        <5> QED  BY <2>3, <4>2, <5>1, <5>2
      <4> QED  BY <4>1, <4>2
    <3>2. AbsorbedBy(next, t) \subseteq (1..Len(seen)) \X Nat /\ AbsorbedBy(seen, t) \subseteq (1..Len(seen)) \X Nat
      BY <2>6 DEF AbsorbedBy
    <3>3. <<m, l>> \in (1..Len(seen)) \X Nat
      BY <2>3
    <3>4. \A e \in (1..Len(seen)) \X Nat :
             e \in AbsorbedBy(next, t) <=> e \in AbsorbedBy(seen, t) \/ (e = <<m, l>> /\ text = t)
      <4> TAKE e \in (1..Len(seen)) \X Nat
      <4>1. PICK a \in 1..Len(seen), b \in Nat : e = <<a, b>>
        OBVIOUS
      <4> QED  BY <3>1, <4>1
    <3> QED  BY <3>2, <3>3, <3>4
  <2>10. <<m, l>> \notin AbsorbedBy(seen, t)
    BY <2>3 DEF AbsorbedBy, old
  <2> QED  BY <2>1, <2>6, <2>7, <2>8, <2>9, <2>10
<1> QED  BY <1>2, <1>3, MergeIs

LEMMA MergedOnce ==
    ASSUME NEW proposed \in Seq(Texts), proposed # <<>>, NEW t
    PROVE  LET s == merge_similar(proposed)
           IN  /\ s \in Seq(SubQuery) /\ s # <<>>
               /\ \A i, j \in 1..Len(s) : i # j => ~AsksTheSame(s[i].text, s[j].text)
               /\ Cardinality(Proposed(proposed, t, Len(proposed))) =
                     Cardinality(Asked(s, t)) + Cardinality(AbsorbedBy(s, t))
<1> DEFINE n == Len(proposed)
<1>1. n \in Nat /\ n > 0 /\ \A i \in 1..n : proposed[i] \in Texts
  OBVIOUS
<1>2. PICK f \in [0..n -> Seq(SubQuery)] :
         /\ f[0] = <<>>
         /\ \A i \in 1..n : f[i] = MergeInto(f[i - 1], proposed[i])
         /\ merge_similar(proposed) = f[n]
  BY MergeChain
<1> DEFINE Apart(i) == \A j, k \in 1..Len(f[i]) : j # k => ~AsksTheSame(f[i][j].text, f[i][k].text)
           Counted(i) == /\ IsFiniteSet(Proposed(proposed, t, i)) /\ IsFiniteSet(Asked(f[i], t))
                         /\ IsFiniteSet(AbsorbedBy(f[i], t))
                         /\ Cardinality(Proposed(proposed, t, i)) =
                               Cardinality(Asked(f[i], t)) + Cardinality(AbsorbedBy(f[i], t))
           Good == {i \in Nat : i <= n => Apart(i) /\ Counted(i) /\ (i > 0 => Len(f[i]) > 0)}
<1>3. 0 \in Good
  <2>1. Len(f[0]) = 0
    BY <1>2
  <2>2. Proposed(proposed, t, 0) = {} /\ Asked(f[0], t) = {} /\ AbsorbedBy(f[0], t) = {}
    BY <2>1 DEF Proposed, Asked, AbsorbedBy
  <2>3. Counted(0)
    BY <2>2, FS_EmptySet
  <2>4. Apart(0)
    BY <2>1
  <2> HIDE DEF Counted, Apart
  <2> QED  BY <2>3, <2>4
<1>4. ASSUME NEW i \in Nat, i \in Good PROVE i + 1 \in Good
  <2> SUFFICES ASSUME i + 1 <= n PROVE Apart(i + 1) /\ Counted(i + 1) /\ Len(f[i + 1]) > 0
    <3> HIDE DEF Apart, Counted
    <3> QED  OBVIOUS
  <2>1. i + 1 \in 1..n /\ (i + 1) - 1 = i /\ i <= n /\ i \in 0..n
    BY <1>1
  <2>2. Apart(i) /\ Counted(i)
    <3> HIDE DEF Apart, Counted
    <3> QED  BY <1>4, <2>1
  <2>3. PICK seen \in Seq(SubQuery), text \in Texts : seen = f[i] /\ text = proposed[i + 1]
    BY <1>1, <2>1
  <2>4. PICK next : next = MergeInto(seen, text) /\ next = f[i + 1]
    BY <1>2, <2>1, <2>3
  <2>5. /\ Len(next) > 0
        /\ \A j, k \in 1..Len(next) : j # k => ~AsksTheSame(next[j].text, next[k].text)
        /\ text # t => Asked(next, t) = Asked(seen, t) /\ AbsorbedBy(next, t) = AbsorbedBy(seen, t)
        /\ text = t => \/ /\ AbsorbedBy(next, t) = AbsorbedBy(seen, t)
                          /\ \E j : j \notin Asked(seen, t) /\ Asked(next, t) = Asked(seen, t) \cup {j}
                       \/ /\ Asked(next, t) = Asked(seen, t)
                          /\ \E p : /\ p \notin AbsorbedBy(seen, t)
                                    /\ AbsorbedBy(next, t) = AbsorbedBy(seen, t) \cup {p}
    <3>1. \A j, k \in 1..Len(seen) : j # k => ~AsksTheSame(seen[j].text, seen[k].text)
      BY <2>2, <2>3
    <3> QED  BY <2>4, <3>1, MergeAdds
  <2>6. Proposed(proposed, t, i + 1) = IF text = t THEN Proposed(proposed, t, i) \cup {i + 1}
                                       ELSE Proposed(proposed, t, i)
    <3>1. 1..(i + 1) = (1..i) \cup {i + 1}
      OBVIOUS
    <3> QED  BY <2>3, <3>1 DEF Proposed
  <2>7. i + 1 \notin Proposed(proposed, t, i)
    BY DEF Proposed
  <2>8. /\ IsFiniteSet(Proposed(proposed, t, i)) /\ IsFiniteSet(Asked(seen, t))
        /\ IsFiniteSet(AbsorbedBy(seen, t))
        /\ Cardinality(Proposed(proposed, t, i)) =
              Cardinality(Asked(seen, t)) + Cardinality(AbsorbedBy(seen, t))
    BY <2>2, <2>3
  <2>9. /\ Cardinality(Asked(seen, t)) \in Nat /\ Cardinality(AbsorbedBy(seen, t)) \in Nat
    BY <2>8, FS_CardinalityType
  <2>10. /\ IsFiniteSet(Proposed(proposed, t, i + 1)) /\ IsFiniteSet(Asked(next, t))
         /\ IsFiniteSet(AbsorbedBy(next, t))
         /\ Cardinality(Proposed(proposed, t, i + 1)) =
               Cardinality(Asked(next, t)) + Cardinality(AbsorbedBy(next, t))
    <3>1. CASE text # t
      BY <2>5, <2>6, <2>8, <3>1
    <3>2. CASE text = t
      <4>1. /\ IsFiniteSet(Proposed(proposed, t, i + 1))
            /\ Cardinality(Proposed(proposed, t, i + 1)) = Cardinality(Proposed(proposed, t, i)) + 1
        <5>1. PICK P : P = Proposed(proposed, t, i)
          OBVIOUS
        <5>2. IsFiniteSet(P \cup {i + 1}) /\ Cardinality(P \cup {i + 1}) = Cardinality(P) + 1
          BY <2>7, <2>8, <5>1, FS_AddElement
        <5>3. Proposed(proposed, t, i + 1) = P \cup {i + 1}
          BY <2>6, <3>2, <5>1
        <5> QED  BY <5>1, <5>2, <5>3
      <4>2. CASE /\ AbsorbedBy(next, t) = AbsorbedBy(seen, t)
                 /\ \E j : j \notin Asked(seen, t) /\ Asked(next, t) = Asked(seen, t) \cup {j}
        <5>1. IsFiniteSet(Asked(next, t)) /\ Cardinality(Asked(next, t)) = Cardinality(Asked(seen, t)) + 1
          BY <2>8, <4>2, FS_AddElement
        <5> QED  BY <2>8, <2>9, <4>1, <4>2, <5>1
      <4>3. CASE /\ Asked(next, t) = Asked(seen, t)
                 /\ \E p : p \notin AbsorbedBy(seen, t) /\ AbsorbedBy(next, t) = AbsorbedBy(seen, t) \cup {p}
        <5>1. /\ IsFiniteSet(AbsorbedBy(next, t))
              /\ Cardinality(AbsorbedBy(next, t)) = Cardinality(AbsorbedBy(seen, t)) + 1
          BY <2>8, <4>3, FS_AddElement
        <5> QED  BY <2>8, <2>9, <4>1, <4>3, <5>1
      <4> QED  BY <2>5, <3>2, <4>2, <4>3
    <3> QED  BY <3>1, <3>2
  <2> QED  BY <2>4, <2>5, <2>10
<1>5. Apart(n) /\ Counted(n) /\ Len(f[n]) > 0
  <2>1. Nat \subseteq Good
    <3> HIDE DEF Good
    <3> QED  BY <1>3, <1>4, SetInduction
  <2> HIDE DEF Apart, Counted
  <2> QED  BY <1>1, <2>1
<1>6. f[n] \in Seq(SubQuery) /\ f[n] # <<>>
  BY <1>1, <1>5
<1> QED  BY <1>2, <1>5, <1>6

LEMMA AskedOnceNext == PipelineInv /\ EveryIntentAskedOnce /\ [Next]_vars => EveryIntentAskedOnce'
<1> SUFFICES ASSUME PipelineInv, EveryIntentAskedOnce, [Next]_vars PROVE EveryIntentAskedOnce'
  OBVIOUS
<1>1. CASE AskAsSpoken \/ FallBack
  <2>1. proposal' = None /\ subqueries' = Fallback
    BY <1>1 DEF AskAsSpoken, FallBack, PipelineInv, StagesInv
  <2>2. subqueries' # <<>> /\ DOMAIN subqueries' = {1}
    BY <2>1 DEF Fallback
  <2> QED  BY <2>1, <2>2 DEF EveryIntentAskedOnce
<1>2. CASE \E proposed \in Proposals : Decompose(proposed)
  <2>1. PICK proposed \in Proposals : Decompose(proposed)
    BY <1>2
  <2>2. /\ proposed \in Seq(Texts) /\ proposed # <<>> /\ proposal' = proposed
        /\ subqueries' = merge_similar(proposed)
    BY <2>1, TextsAssumption DEF Decompose
  <2> DEFINE s == subqueries'
  <2>3. s = merge_similar(proposed)
    BY <2>2
  <2> HIDE DEF s
  <2>4. \A t : /\ s \in Seq(SubQuery) /\ s # <<>>
               /\ \A i, j \in 1..Len(s) : i # j => ~AsksTheSame(s[i].text, s[j].text)
               /\ Cardinality(Proposed(proposed, t, Len(proposed))) =
                     Cardinality(Asked(s, t)) + Cardinality(AbsorbedBy(s, t))
    BY <2>2, <2>3, MergedOnce
  <2>5. DOMAIN s = 1..Len(s) /\ DOMAIN proposed = 1..Len(proposed) /\ \A i \in 1..Len(s) : s[i] \in SubQuery
    BY <2>2, <2>4
  <2>6. \A i \in 1..Len(s) : /\ DOMAIN s[i].merged_from = 1..Len(s[i].merged_from)
                             /\ Len(s[i].merged_from) \in Nat
    <3>1. \A i \in 1..Len(s) : s[i].merged_from \in Seq(Texts)
      BY <2>5 DEF SubQuery
    <3> QED  BY <3>1
  <2>7. ASSUME NEW t
        PROVE  Cardinality({n \in DOMAIN proposed : proposed[n] = t}) =
                  Cardinality({i \in DOMAIN s : s[i].text = t})
                  + Cardinality(UNION {{<<i, n>> : n \in {k \in DOMAIN s[i].merged_from : s[i].merged_from[k] = t}}
                                        : i \in DOMAIN s})
    <3>1. {n \in DOMAIN proposed : proposed[n] = t} = Proposed(proposed, t, Len(proposed))
      BY <2>5 DEF Proposed
    <3>2. {i \in DOMAIN s : s[i].text = t} = Asked(s, t)
      BY <2>5 DEF Asked
    <3>3. UNION {{<<i, n>> : n \in {k \in DOMAIN s[i].merged_from : s[i].merged_from[k] = t}} : i \in DOMAIN s}
             = AbsorbedBy(s, t)
      <4> DEFINE Places(i) == {k \in DOMAIN s[i].merged_from : s[i].merged_from[k] = t}
                 U == UNION {{<<i, n>> : n \in Places(i)} : i \in DOMAIN s}
      <4>1. ASSUME NEW e \in U PROVE e \in AbsorbedBy(s, t)
        <5>1. PICK i \in DOMAIN s : e \in {<<i, n>> : n \in Places(i)}
          BY <4>1
        <5>2. PICK n \in Places(i) : e = <<i, n>>
          BY <5>1
        <5>3. i \in 1..Len(s) /\ n \in 1..Len(s[i].merged_from) /\ s[i].merged_from[n] = t
          BY <2>5, <2>6, <5>2
        <5> QED  BY <5>2, <5>3 DEF AbsorbedBy
      <4>2. ASSUME NEW e \in AbsorbedBy(s, t) PROVE e \in U
        <5>1. PICK i \in 1..Len(s), n \in Nat : /\ e = <<i, n>> /\ n \in 1..Len(s[i].merged_from)
                                                /\ s[i].merged_from[n] = t
          BY <4>2 DEF AbsorbedBy
        <5>2. i \in DOMAIN s /\ n \in Places(i)
          BY <2>5, <2>6, <5>1
        <5>3. e \in {<<i, m>> : m \in Places(i)}
          BY <5>1, <5>2
        <5> HIDE DEF Places
        <5> QED  BY <5>2, <5>3
      <4> HIDE DEF U, Places
      <4>3. U = AbsorbedBy(s, t)
        BY <4>1, <4>2
      <4> QED  BY <4>3 DEF U, Places
    <3> QED  BY <2>4, <3>1, <3>2, <3>3
  <2>8. \A i, j \in DOMAIN s : i # j => ~AsksTheSame(s[i].text, s[j].text)
    BY <2>4, <2>5
  <2>9. \A t \in ToSet(proposal') :
           Cardinality({n \in DOMAIN proposal' : proposal'[n] = t}) =
              Cardinality({i \in DOMAIN subqueries' : subqueries'[i].text = t})
              + Cardinality(UNION {{<<i, n>> : n \in Absorbed(i, t)'} : i \in DOMAIN subqueries'})
    <3> TAKE t \in ToSet(proposal')
    <3>1. {n \in DOMAIN proposal' : proposal'[n] = t} = {n \in DOMAIN proposed : proposed[n] = t}
      BY <2>2
    <3>2. \A i : Absorbed(i, t)' = {k \in DOMAIN s[i].merged_from : s[i].merged_from[k] = t}
      BY DEF Absorbed, s
    <3>3. UNION {{<<i, n>> : n \in Absorbed(i, t)'} : i \in DOMAIN subqueries'}
             = UNION {{<<i, n>> : n \in {k \in DOMAIN s[i].merged_from : s[i].merged_from[k] = t}} : i \in DOMAIN s}
      BY <3>2 DEF s
    <3>4. {i \in DOMAIN subqueries' : subqueries'[i].text = t} = {i \in DOMAIN s : s[i].text = t}
      BY DEF s
    <3> QED  BY <2>7, <3>1, <3>3, <3>4
  <2> QED  BY <2>4, <2>8, <2>9 DEF EveryIntentAskedOnce, s
<1>3. CASE \E results \in [DOMAIN subqueries -> Results] : Fuse(results)
  BY <1>3 DEF EveryIntentAskedOnce, Fuse
<1>4. CASE Dedup
  BY <1>4 DEF EveryIntentAskedOnce, Dedup
<1>5. CASE Flag
  BY <1>5 DEF EveryIntentAskedOnce, Flag
<1>6. CASE RerankSubquery
  BY <1>6 DEF EveryIntentAskedOnce, RerankSubquery
<1>7. CASE Finish
  BY <1>7 DEF EveryIntentAskedOnce, Finish
<1>8. CASE UNCHANGED vars
  BY <1>8 DEF EveryIntentAskedOnce, Absorbed, vars
<1> QED  BY <1>1, <1>2, <1>3, <1>4, <1>5, <1>6, <1>7, <1>8 DEF Next

\* Whatever the decomposing model answers, there is something to search for, no two
\* sub-queries ask the same, and every intent it proposed is asked once for each time it
\* proposed it, as a sub-query or absorbed by one (merge_similar, decompose).
THEOREM IntentsAskedOnce == Spec => []EveryIntentAskedOnce
<1>1. Init => PipelineInv /\ EveryIntentAskedOnce
  BY InitInv DEF Init, EveryIntentAskedOnce
<1>2. PipelineInv /\ EveryIntentAskedOnce /\ [Next]_vars => (PipelineInv /\ EveryIntentAskedOnce)'
  BY NextInv, AskedOnceNext
<1> QED  BY <1>1, <1>2, PTL DEF Spec

=============================================================================
