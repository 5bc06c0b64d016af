--------------------------- MODULE EventLoggerProofs ---------------------------
(***************************************************************************)
(* Proofs about the event log, for any number of requests and events.      *)
(*                                                                         *)
(* LogInv is inductive.  It says where an event can be (PlaceInv: in one   *)
(* of the queue, the batches, the table and the lost ones), and in which   *)
(* order events stand (OrderInv: two events with one timestamp were        *)
(* drained together, so they stay together wherever their batch goes).     *)
(***************************************************************************)
EXTENDS EventLogger, SequenceTheorems, TLAPS

\* Places, but for the lost ones.
Waiting(n) == \E i \in DOMAIN queue : queue[i].no = n
Drained(w, n) == \E i \in DOMAIN batch[w] : batch[w][i].no = n
Written(n) == \E i \in DOMAIN rows : rows[i].no = n
Lost(n) == \E e \in lost : e.no = n

\* A sequence as it was emitted
InOrder(s) == \A i, j \in DOMAIN s : i < j => s[i].no < s[j].no /\ s[i].time <= s[j].time

\* Every event is in exactly one place.
PlaceInv ==
    /\ \A n \in Int : n \in 1..emitted <=>
          Waiting(n) \/ (\E w \in Writers : Drained(w, n)) \/ Written(n) \/ Lost(n)
    /\ \A n \in Int : /\ Waiting(n) => ~Written(n) /\ ~Lost(n) /\ \A w \in Writers : ~Drained(w, n)
                      /\ \A w \in Writers : Drained(w, n) => ~Written(n) /\ ~Lost(n)
                      /\ Written(n) => ~Lost(n)
                      /\ \A v, w \in Writers : Drained(v, n) /\ Drained(w, n) => v = w

\* The events that left the queue and were not lost
Left == Range(rows) \cup UNION {Range(batch[w]) : w \in Writers}

\* Events with one timestamp are in one place, in their order.
OrderInv ==
    /\ now <= emitted
    /\ awaited => queue = <<>>
    /\ InOrder(queue) /\ \A w \in Writers : InOrder(batch[w])
    /\ \A i, j \in DOMAIN rows : rows[i].no = rows[j].no => i = j
    /\ \A i, j \in DOMAIN rows : i < j /\ rows[i].time = rows[j].time => rows[i].no < rows[j].no
    /\ \A e \in Left : e.time <= now /\ (~awaited => e.time < now)
    /\ \A i \in DOMAIN queue : queue[i].time <= now
    /\ \A e \in Left : \A i \in DOMAIN queue : e.time < queue[i].time
    /\ \A e, f \in Left : e.time < f.time => e.no < f.no
    /\ \A e \in Left : \A i \in DOMAIN queue : e.no < queue[i].no
    /\ \A v, w \in Writers : \A e \in Range(batch[v]), f \in Range(batch[w]) :
          e.time = f.time => v = w
    /\ \A w \in Writers : \A e \in Range(batch[w]), f \in Range(rows) : e.time # f.time

\* A request that is about to query has drained what was emitted before it came.
AskedInv ==
    \A r \in Readers : /\ asked[r] <= emitted
                       /\ pc[r] = "query" => \A n \in 1..asked[r] : ~Waiting(n)

LogInv == TypeOK /\ PlaceInv /\ OrderInv /\ AskedInv

-----------------------------------------------------------------------------
(* Sequences *)

\* What SubSeq returns
LEMMA Parts ==
    ASSUME NEW S, NEW s \in Seq(S), NEW n \in 0..Len(s)
    PROVE  /\ SubSeq(s, 1, n) \in Seq(S) /\ Len(SubSeq(s, 1, n)) = n
           /\ SubSeq(s, n + 1, Len(s)) \in Seq(S) /\ Len(SubSeq(s, n + 1, Len(s))) = Len(s) - n
           /\ \A i \in 1..n : SubSeq(s, 1, n)[i] = s[i]
           /\ \A i \in 1..(Len(s) - n) : SubSeq(s, n + 1, Len(s))[i] = s[n + i]
           /\ n = Len(s) => SubSeq(s, 1, n) = s
<1>1. Len(s) \in Nat
  OBVIOUS
<1>2. SubSeq(s, 1, n) \in Seq(S) /\ Len(SubSeq(s, 1, n)) = n /\ \A i \in 1..n : SubSeq(s, 1, n)[i] = s[i]
  BY <1>1
<1>3. /\ SubSeq(s, n + 1, Len(s)) \in Seq(S) /\ Len(SubSeq(s, n + 1, Len(s))) = Len(s) - n
      /\ \A i \in 1..(Len(s) - n) : SubSeq(s, n + 1, Len(s))[i] = s[n + i]
  BY <1>1
<1>4. n = Len(s) => SubSeq(s, 1, n) = s
  BY <1>1, <1>2
<1> QED  BY <1>2, <1>3, <1>4

LEMMA Joined ==
    ASSUME NEW S, NEW s \in Seq(S), NEW t \in Seq(S), NEW i \in 1..Len(t)
    PROVE  (s \o t)[Len(s) + i] = t[i]
<1>1. Len(s) \in Nat /\ Len(t) \in Nat /\ Len(s) + i \in 1..(Len(s) + Len(t)) /\ ~(Len(s) + i <= Len(s))
  OBVIOUS
<1>2. (s \o t)[Len(s) + i] = t[(Len(s) + i) - Len(s)]
  BY <1>1, ConcatProperties
<1>3. (Len(s) + i) - Len(s) = i
  BY <1>1
<1> QED  BY <1>2, <1>3

LEMMA SmallerDiffers == \A x, y \in Int : x < y => x # y
<1> QED  OBVIOUS

-----------------------------------------------------------------------------
(* Moving events *)

\* A writer drains the queue: what was waiting is with it, or lost.
LEMMA FlushMoves ==
    ASSUME LogInv, NEW w \in Writers, FlushPending(w), UNCHANGED <<rows, emitted, now>>
    PROVE  /\ queue' = <<>> /\ awaited' = TRUE
           /\ batch' \in [Writers -> Seq(Events)] /\ lost' \subseteq Events
           /\ PlaceInv' /\ OrderInv'
<1> USE DEF LogInv
<1>1. queue' = <<>> /\ awaited' = TRUE /\ batch[w] = <<>>
  BY DEF FlushPending
<1>2. queue \in Seq(Events) /\ rows \in Seq(Events) /\ batch \in [Writers -> Seq(Events)]
      /\ lost \subseteq Events
  BY DEF TypeOK
<1>3. \A n : ~Waiting(n)' /\ Written(n)' = Written(n)
  BY <1>1 DEF Waiting, Written
<1>4. CASE conn = "none"
  <2>1. batch' = batch /\ lost' = lost \cup Range(queue)
    BY <1>4 DEF FlushPending
  <2>2. \A n : Lost(n)' <=> Lost(n) \/ Waiting(n)
    BY <2>1 DEF Lost, Waiting, Range
  <2>3. \A v \in Writers, n \in Int : Drained(v, n)' = Drained(v, n)
    BY <2>1 DEF Drained
  <2>4. PlaceInv'
    BY <1>3, <2>2, <2>3 DEF PlaceInv
  <2>5. Left' = Left
    BY <2>1 DEF Left
  <2>6. OrderInv'
    BY <1>1, <2>1, <2>5 DEF OrderInv, InOrder
  <2>7. Range(queue) \subseteq Events
    BY <1>2 DEF Range
  <2> QED  BY <1>1, <1>2, <2>1, <2>4, <2>6, <2>7
<1>5. CASE conn # "none"
  <2>1. lost' = lost /\ batch' = [batch EXCEPT ![w] = queue]
    BY <1>5 DEF FlushPending
  <2>2. /\ batch' \in [Writers -> Seq(Events)]
        /\ batch'[w] = queue /\ \A v \in Writers : v # w => batch'[v] = batch[v]
    BY <1>2, <2>1
  <2>3. \A n : Lost(n)' = Lost(n)
    BY <2>1 DEF Lost
  <2>4. \A n : (Drained(w, n)' <=> Waiting(n)) /\ ~Drained(w, n)
    BY <1>1, <2>2 DEF Drained, Waiting
  <2>5. \A v \in Writers, n \in Int : v # w => Drained(v, n)' = Drained(v, n)
    BY <2>2 DEF Drained
  <2>6. PlaceInv'
    BY <1>3, <2>3, <2>4, <2>5 DEF PlaceInv
  <2>7. \A e \in Range(queue) : \E i \in DOMAIN queue : e = queue[i]
    BY DEF Range
  <2>8. \A e \in Left' : e \in Left \/ e \in Range(queue)
    BY <2>2 DEF Left
  <2>9. \A e \in Left : \A f \in Range(queue) : e.time < f.time /\ e.no < f.no
    BY <2>7 DEF OrderInv
  <2>10. \A e, f \in Range(queue) : e.time < f.time => e.no < f.no
    <3> SUFFICES ASSUME NEW i \in DOMAIN queue, NEW j \in DOMAIN queue, queue[i].time < queue[j].time
                 PROVE  queue[i].no < queue[j].no
      BY <2>7
    <3>1. queue[i] \in Events /\ queue[j] \in Events /\ i \in Int /\ j \in Int
      BY <1>2
    <3>2. CASE i < j
      BY <3>2 DEF OrderInv, InOrder
    <3>3. CASE i = j
      BY <3>1, <3>3 DEF Events
    <3>4. CASE j < i
      <4>1. queue[j].time <= queue[i].time
        BY <3>4 DEF OrderInv, InOrder
      <4> QED  BY <3>1, <4>1 DEF Events
    <3> QED  BY <3>1, <3>2, <3>3, <3>4
  <2>11. Left \subseteq Events /\ Range(queue) \subseteq Events
    BY <1>2 DEF Left, Range
  <2>12. /\ \A e \in Left' : e.time <= now
         /\ \A e, f \in Left' : e.time < f.time => e.no < f.no
    <3>1. \A e \in Left' : e.time <= now
      BY <2>7, <2>8 DEF OrderInv
    <3>2. \A e, f \in Left' : e.time < f.time => e.no < f.no
      <4> SUFFICES ASSUME NEW e \in Left', NEW f \in Left', e.time < f.time PROVE e.no < f.no
        OBVIOUS
      <4>1. CASE e \in Left /\ f \in Left
        BY <4>1 DEF OrderInv
      <4>2. CASE e \in Left /\ f \in Range(queue)
        BY <4>2, <2>9
      <4>3. CASE e \in Range(queue) /\ f \in Range(queue)
        BY <4>3, <2>10
      <4>4. CASE e \in Range(queue) /\ f \in Left
        <5>1. f.time < e.time /\ f.time \in Int /\ e.time \in Int
          BY <4>4, <2>9, <2>11 DEF Events
        <5> QED  BY <5>1
      <4> QED  BY <2>8, <4>1, <4>2, <4>3, <4>4
    <3> QED  BY <3>1, <3>2
  <2>13. \A e \in Left, f \in Range(queue) : e.time # f.time
    <3> SUFFICES ASSUME NEW e \in Left, NEW f \in Range(queue), e.time = f.time PROVE FALSE
      OBVIOUS
    <3>1. e.time < f.time /\ e.time \in Int /\ f.time \in Int
      BY <2>9, <2>11 DEF Events
    <3> QED  BY <3>1
  <2>14. \A u, v \in Writers : \A e \in Range(batch'[u]), f \in Range(batch'[v]) :
            e.time = f.time => u = v
    <3> SUFFICES ASSUME NEW u \in Writers, NEW v \in Writers, NEW e \in Range(batch'[u]),
                        NEW f \in Range(batch'[v]), e.time = f.time, u # v
                 PROVE  FALSE
      OBVIOUS
    <3>1. CASE u # w /\ v # w
      BY <3>1, <2>2 DEF OrderInv
    <3>2. CASE u = w
      BY <3>2, <2>2, <2>13 DEF Left
    <3>3. CASE v = w
      BY <3>3, <2>2, <2>13 DEF Left
    <3> QED  BY <3>1, <3>2, <3>3
  <2>15. \A v \in Writers : \A e \in Range(batch'[v]), f \in Range(rows') : e.time # f.time
    <3> SUFFICES ASSUME NEW v \in Writers, NEW e \in Range(batch'[v]), NEW f \in Range(rows)
                 PROVE  e.time # f.time
      OBVIOUS
    <3>1. CASE v # w
      BY <3>1, <2>2 DEF OrderInv
    <3>2. CASE v = w
      BY <3>2, <2>2, <2>13 DEF Left
    <3> QED  BY <3>1, <3>2
  <2>16. InOrder(queue)' /\ \A v \in Writers : InOrder(batch[v])'
    BY <1>1, <2>2 DEF OrderInv, InOrder
  <2>17. OrderInv'
    BY <1>1, <2>12, <2>14, <2>15, <2>16 DEF OrderInv
  <2> QED  BY <1>1, <1>2, <2>1, <2>2, <2>6, <2>17
<1> QED  BY <1>4, <1>5
\* A batch is settled: its first n events reach the table, the others are lost.
LEMMA BatchSettles ==
    ASSUME LogInv, NEW w \in Writers, NEW n \in 0..Len(batch[w]),
           rows' = rows \o SubSeq(batch[w], 1, n),
           lost' = lost \cup Range(SubSeq(batch[w], n + 1, Len(batch[w]))),
           batch' = [batch EXCEPT ![w] = <<>>],
           UNCHANGED <<queue, awaited, emitted, now>>
    PROVE  /\ rows' \in Seq(Events) /\ lost' \subseteq Events
           /\ batch' \in [Writers -> Seq(Events)]
           /\ PlaceInv' /\ OrderInv'
<1> DEFINE b == batch[w]
           rest == SubSeq(b, n + 1, Len(b))
<1>1. /\ rows \in Seq(Events) /\ batch \in [Writers -> Seq(Events)] /\ lost \subseteq Events
      /\ queue \in Seq(Events) /\ b \in Seq(Events) /\ Len(b) \in Nat /\ Len(rows) \in Nat /\ n \in Nat
  BY DEF LogInv, TypeOK
<1>2. /\ rest \in Seq(Events) /\ Len(rest) = Len(b) - n
      /\ \A i \in 1..(Len(b) - n) : rest[i] = b[n + i]
  BY <1>1, Parts
<1>3. /\ rows' \in Seq(Events) /\ Len(rows') = Len(rows) + n
      /\ \A i \in 1..Len(rows) : rows'[i] = rows[i]
      /\ \A i \in 1..n : rows'[Len(rows) + i] = b[i]
  <2>1. SubSeq(b, 1, n) \in Seq(Events) /\ Len(SubSeq(b, 1, n)) = n
        /\ \A i \in 1..n : SubSeq(b, 1, n)[i] = b[i]
    BY <1>1, Parts
  <2> HIDE DEF b
  <2> DEFINE first == SubSeq(b, 1, n)
  <2>2. rows' = rows \o first
    BY DEF b
  <2> HIDE DEF first
  <2>3. first \in Seq(Events) /\ Len(first) = n /\ \A i \in 1..n : first[i] = b[i]
    BY <2>1 DEF first
  <2>4. rows' \in Seq(Events) /\ Len(rows') = Len(rows) + n
    BY <1>1, <2>2, <2>3
  <2>5. \A i \in 1..Len(rows) : rows'[i] = rows[i]
    BY <1>1, <2>2, <2>3
  <2>6. ASSUME NEW i \in 1..n PROVE rows'[Len(rows) + i] = b[i]
    <3>1. i \in 1..Len(first) /\ rows \in Seq(Events) /\ first \in Seq(Events)
      BY <1>1, <2>3
    <3>2. (rows \o first)[Len(rows) + i] = first[i]
      BY ONLY <3>1, Joined, Zenon
    <3> QED  BY <2>2, <2>3, <3>2
  <2> QED  BY <2>4, <2>5, <2>6
<1>4. \A i \in DOMAIN rows' : \/ i \in DOMAIN rows /\ rows'[i] = rows[i]
                              \/ \E k \in 1..n : i = Len(rows) + k /\ rows'[i] = b[k]
  <2> SUFFICES ASSUME NEW i \in DOMAIN rows', i \notin DOMAIN rows
               PROVE  \E k \in 1..n : i = Len(rows) + k /\ rows'[i] = b[k]
    BY <1>1, <1>3
  <2>1. i - Len(rows) \in 1..n /\ i = Len(rows) + (i - Len(rows))
    BY <1>1, <1>3
  <2> QED  BY <1>3, <2>1
<1>5. /\ lost' \subseteq Events
      /\ \A e : e \in lost' <=> e \in lost \/ \E k \in (n + 1)..Len(b) : e = b[k]
  <2>1. \A e : e \in Range(rest) <=> \E k \in (n + 1)..Len(b) : e = b[k]
    <3>1. ASSUME NEW e, e \in Range(rest) PROVE \E k \in (n + 1)..Len(b) : e = b[k]
      <4>0. DOMAIN rest = 1..(Len(b) - n)
        BY <1>1, <1>2
      <4> HIDE DEF rest
      <4>1. PICK i \in 1..(Len(b) - n) : e = rest[i]
        BY <3>1, <4>0 DEF Range
      <4>2. n + i \in (n + 1)..Len(b) /\ e = b[n + i]
        BY <1>1, <1>2, <4>1
      <4> QED  BY <4>2
    <3>2. ASSUME NEW k \in (n + 1)..Len(b) PROVE b[k] \in Range(rest)
      <4>1. k - n \in 1..(Len(b) - n) /\ n + (k - n) = k
        BY <1>1
      <4>2. rest[k - n] = b[k] /\ k - n \in DOMAIN rest
        BY <1>2, <4>1
      <4> QED  BY <4>2 DEF Range
    <3> QED  BY <3>1, <3>2
  <2>2. \A k \in (n + 1)..Len(b) : b[k] \in Events
    BY <1>1
  <2> QED  BY <1>1, <2>1, <2>2
<1>6. /\ batch' \in [Writers -> Seq(Events)]
      /\ batch'[w] = <<>> /\ \A v \in Writers : v # w => batch'[v] = batch[v]
  BY <1>1
<1> HIDE DEF rest
<1>7. PlaceInv'
  <2>1. \A m \in Int : Waiting(m)' = Waiting(m)
    BY DEF Waiting
  <2>2. \A v \in Writers, m \in Int : v # w => Drained(v, m)' = Drained(v, m)
    BY <1>6 DEF Drained
  <2>3. \A m \in Int : ~Drained(w, m)'
    BY <1>6 DEF Drained
  <2>4. \A m \in Int : Written(m)' <=> Written(m) \/ \E k \in 1..n : b[k].no = m
    <3> TAKE m \in Int
    <3>1. ASSUME Written(m)' PROVE Written(m) \/ \E k \in 1..n : b[k].no = m
      BY <1>4, <3>1 DEF Written
    <3>2. ASSUME NEW k \in 1..n, b[k].no = m PROVE Written(m)'
      <4>1. Len(rows) + k \in DOMAIN rows' /\ rows'[Len(rows) + k].no = m
        BY <1>1, <1>3, <3>2
      <4> QED  BY <4>1 DEF Written
    <3>3. ASSUME Written(m) PROVE Written(m)'
      <4>1. PICK i \in DOMAIN rows : rows[i].no = m
        BY <3>3 DEF Written
      <4>2. i \in DOMAIN rows' /\ rows'[i].no = m
        BY <1>1, <1>3, <4>1
      <4> QED  BY <4>2 DEF Written
    <3> QED  BY <3>1, <3>2, <3>3
  <2>5. \A m \in Int : Lost(m)' <=> Lost(m) \/ \E k \in (n + 1)..Len(b) : b[k].no = m
    BY <1>5 DEF Lost
  <2>6. \A m \in Int : Drained(w, m) <=> (\E k \in 1..n : b[k].no = m)
                                         \/ (\E k \in (n + 1)..Len(b) : b[k].no = m)
    BY <1>1 DEF Drained
  <2>7. \A m \in Int : ~((\E k \in 1..n : b[k].no = m) /\ (\E k \in (n + 1)..Len(b) : b[k].no = m))
    <3> SUFFICES ASSUME NEW k \in 1..n, NEW l \in (n + 1)..Len(b), b[k].no = b[l].no PROVE FALSE
      OBVIOUS
    <3>1. k \in DOMAIN b /\ l \in DOMAIN b /\ k < l /\ b[k] \in Events /\ b[l] \in Events
      BY <1>1
    <3>2. b[k].no < b[l].no
      BY <3>1 DEF LogInv, OrderInv, InOrder
    <3> QED  BY <3>1, <3>2 DEF Events
  <2> HIDE DEF b
  <2> DEFINE A(m) == \E k \in 1..n : b[k].no = m
             B(m) == \E k \in (n + 1)..Len(b) : b[k].no = m
  <2>8. \A m \in Int : /\ (Written(m)' <=> Written(m) \/ A(m))
                       /\ (Lost(m)' <=> Lost(m) \/ B(m))
                       /\ (Drained(w, m) <=> A(m) \/ B(m))
                       /\ ~(A(m) /\ B(m))
    BY <2>4, <2>5, <2>6, <2>7
  <2> HIDE DEF A, B
  <2> QED  BY <2>1, <2>2, <2>3, <2>8, SMTT(20), ZenonT(60) DEF LogInv, PlaceInv
<1>8. /\ \A e \in Range(rows') : e \in Range(rows) \/ e \in Range(b)
      /\ Left' \subseteq Left
  <2>1. \A e \in Range(rows') : e \in Range(rows) \/ e \in Range(b)
    BY <1>1, <1>4, SMTT(20), ZenonT(60) DEF Range
  <2>2. \A v \in Writers : Range(batch'[v]) \subseteq Range(batch[v])
    BY <1>6 DEF Range
  <2> QED  BY <2>1, <2>2 DEF Left
<1>9. /\ \A i, j \in DOMAIN rows' : rows'[i].no = rows'[j].no => i = j
      /\ \A i, j \in DOMAIN rows' : i < j /\ rows'[i].time = rows'[j].time
                                      => rows'[i].no < rows'[j].no
  <2>1. ASSUME NEW i \in DOMAIN rows', NEW j \in DOMAIN rows', i < j
        PROVE  /\ rows'[i].no # rows'[j].no
               /\ rows'[i].time = rows'[j].time => rows'[i].no < rows'[j].no
    <3>0. i \in Int /\ j \in Int
      BY <1>3
    <3>1. CASE i \in DOMAIN rows /\ j \in DOMAIN rows /\ rows'[i] = rows[i] /\ rows'[j] = rows[j]
      BY <2>1, <3>0, <3>1 DEF LogInv, OrderInv
    <3>2. ASSUME NEW k \in 1..n, i \in DOMAIN rows, rows'[i] = rows[i], rows'[j] = b[k]
          PROVE  rows'[i].no # rows'[j].no /\ rows'[i].time # rows'[j].time
      <4>1. k \in DOMAIN b /\ b[k] \in Range(b) /\ rows[i] \in Range(rows)
            /\ b[k] \in Events /\ rows[i] \in Events
        BY <1>1, <3>2 DEF Range
      <4>2. b[k].time # rows[i].time
        BY <4>1 DEF LogInv, OrderInv
      <4>3. Drained(w, b[k].no) /\ Written(rows[i].no) /\ b[k].no \in Int
        BY <4>1, <3>2, SMTT(20), ZenonT(60) DEF Drained, Written, Events
      <4>4. ~Written(b[k].no)
        BY <4>3 DEF LogInv, PlaceInv
      <4> QED  BY <3>2, <4>2, <4>3, <4>4
    <3>3. ASSUME NEW k \in 1..n, NEW l \in 1..n, i = Len(rows) + k, j = Len(rows) + l,
                 rows'[i] = b[k], rows'[j] = b[l]
          PROVE  rows'[i].no < rows'[j].no /\ rows'[i].no \in Int /\ rows'[j].no \in Int
      <4>1. k < l /\ k \in DOMAIN b /\ l \in DOMAIN b /\ b[k] \in Events /\ b[l] \in Events
        BY <1>1, <2>1, <3>3
      <4> QED  BY <3>3, <4>1, SMTT(20), ZenonT(60) DEF LogInv, OrderInv, InOrder, Events
    <3>4. ~(j \in DOMAIN rows /\ \E k \in 1..n : i = Len(rows) + k)
      BY <1>1, <2>1
    <3>5. CASE j \in DOMAIN rows /\ rows'[j] = rows[j]
      BY <1>4, <3>1, <3>4, <3>5
    <3>6. ASSUME NEW l \in 1..n, j = Len(rows) + l, rows'[j] = b[l]
          PROVE  /\ rows'[i].no # rows'[j].no
                 /\ rows'[i].time = rows'[j].time => rows'[i].no < rows'[j].no
      <4>1. CASE i \in DOMAIN rows /\ rows'[i] = rows[i]
        BY <3>2, <3>6, <4>1
      <4>2. ASSUME NEW k \in 1..n, i = Len(rows) + k, rows'[i] = b[k]
            PROVE  rows'[i].no # rows'[j].no /\ rows'[i].no < rows'[j].no
        <5>1. rows'[i].no < rows'[j].no /\ rows'[i].no \in Int /\ rows'[j].no \in Int
          BY <3>3, <3>6, <4>2
        <5> HIDE DEF b
        <5> QED  BY <5>1, SmallerDiffers
      <4> QED  BY <1>4, <4>1, <4>2
    <3> QED  BY <1>4, <3>5, <3>6
  <2>2. \A i, j \in DOMAIN rows' : i < j \/ i = j \/ j < i
    BY <1>3
  <2> QED  BY <2>1, <2>2, ZenonT(60)
<1>10. /\ \A u, v \in Writers : \A e \in Range(batch'[u]), f \in Range(batch'[v]) :
             e.time = f.time => u = v
       /\ \A v \in Writers : \A e \in Range(batch'[v]), f \in Range(rows') : e.time # f.time
       /\ \A v \in Writers : InOrder(batch[v])'
  <2>1. \A v \in Writers : v # w => \A e \in Range(batch[v]), f \in Range(rows) \cup Range(b) :
            e.time # f.time
    BY DEF LogInv, OrderInv
  <2>2. \A v \in Writers : Range(batch'[v]) \subseteq Range(batch[v])
    BY <1>6 DEF Range
  <2>3. Range(batch'[w]) = {}
    BY <1>6 DEF Range
  <2>4. InOrder(batch[w])'
    BY <1>6 DEF InOrder
  <2>5. \A v \in Writers : v # w => InOrder(batch[v])'
    BY <1>6 DEF InOrder, LogInv, OrderInv
  <2>6. \A u, v \in Writers : \A e \in Range(batch'[u]), f \in Range(batch'[v]) :
             e.time = f.time => u = v
    BY <2>2 DEF LogInv, OrderInv
  <2>7. \A v \in Writers : \A e \in Range(batch'[v]), f \in Range(rows') : e.time # f.time
    BY <1>6, <1>8, <2>1, <2>3
  <2> QED  BY <2>4, <2>5, <2>6, <2>7
<1>11. OrderInv'
  BY <1>8, <1>9, <1>10 DEF LogInv, OrderInv, InOrder
<1> QED  BY <1>3, <1>5, <1>6, <1>7, <1>11

-----------------------------------------------------------------------------
(* The invariant *)

LEMMA LogInit == ASSUME Init PROVE LogInv
<1> USE DEF Init
<1>1. TypeOK
  <2>1. queue \in Seq(Events) /\ rows \in Seq(Events) /\ batch \in [Writers -> Seq(Events)]
    OBVIOUS
  <2>2. emitted \in 0..MaxEvents /\ now \in 0..MaxEvents /\ asked \in [Readers -> 0..MaxEvents]
    BY MaxEventsAssumption
  <2> QED  BY <2>1, <2>2 DEF TypeOK
<1>2. \A n : /\ ~Waiting(n) /\ ~Written(n) /\ ~Lost(n)
             /\ \A w \in Writers : ~Drained(w, n)
  BY DEF Waiting, Written, Lost, Drained
<1>3. PlaceInv
  <2>1. \A n \in Int : n \notin 1..emitted
    OBVIOUS
  <2> QED  BY <1>2, <2>1 DEF PlaceInv
<1>4. Left = {} /\ Range(rows) = {} /\ \A w \in Writers : Range(batch[w]) = {}
  BY DEF Left, Range
<1>5. OrderInv
  BY <1>4 DEF OrderInv, InOrder
<1>6. AskedInv
  BY DEF AskedInv
<1> QED  BY <1>1, <1>3, <1>5, <1>6 DEF LogInv

\* An event is emitted: it is the last in the queue, in number and in time.
LEMMA SinkStep == ASSUME LogInv, Sink PROVE LogInv'
<1> DEFINE e == [no |-> emitted', time |-> now']
<1>1. /\ emitted \in Nat /\ emitted' = emitted + 1 /\ emitted' <= MaxEvents /\ MaxEvents \in Nat
      /\ now \in Nat /\ now <= emitted /\ now' \in {now, now + 1} /\ now' <= emitted'
      /\ (now' = now => ~awaited) /\ ~awaited'
  BY MaxEventsAssumption DEF LogInv, TypeOK, OrderInv, Sink, Timestamps
<1>2. /\ queue \in Seq(Events) /\ rows \in Seq(Events) /\ batch \in [Writers -> Seq(Events)]
      /\ lost \subseteq Events /\ Len(queue) \in Nat
  BY DEF LogInv, TypeOK
<1>3. e \in Events /\ e.no = emitted' /\ e.time = now'
  BY <1>1 DEF Events
<1>4. queue' = Append(queue, e) /\ UNCHANGED <<rows, batch, lost, asked, pc>>
  BY DEF Sink
<1> HIDE DEF e
<1>5. /\ queue' \in Seq(Events) /\ Len(queue') = Len(queue) + 1
      /\ queue'[Len(queue) + 1] = e /\ \A i \in 1..Len(queue) : queue'[i] = queue[i]
  BY <1>2, <1>3, <1>4
<1>6. \A i \in DOMAIN queue' : \/ i \in DOMAIN queue /\ queue'[i] = queue[i]
                               \/ i = Len(queue) + 1 /\ queue'[i] = e
  BY <1>2, <1>5
<1>7. TypeOK'
  <2>1. emitted' \in 0..MaxEvents /\ now' \in 0..MaxEvents
    BY <1>1
  <2>3. awaited' \in BOOLEAN
    BY DEF Sink
  <2>2. UNCHANGED <<rows, conn, run, stopping, pc, batch, lost, asked>>
    BY DEF Sink
  <2> QED  BY <1>5, <2>1, <2>2, <2>3 DEF LogInv, TypeOK
<1>8. \A n \in Int : Waiting(n)' <=> Waiting(n) \/ n = emitted'
  <2> TAKE n \in Int
  <2>1. Waiting(n)' => Waiting(n) \/ n = emitted'
    BY <1>3, <1>6 DEF Waiting
  <2>2. Waiting(n) => Waiting(n)'
    BY <1>2, <1>5 DEF Waiting
  <2>3. n = emitted' => Waiting(n)'
    <3>1. Len(queue) + 1 \in DOMAIN queue' /\ queue'[Len(queue) + 1].no = emitted'
      BY <1>2, <1>3, <1>5
    <3> QED  BY <3>1 DEF Waiting
  <2> QED  BY <2>1, <2>2, <2>3
<1>9. \A n \in Int : /\ Written(n)' = Written(n) /\ Lost(n)' = Lost(n)
                     /\ \A w \in Writers : Drained(w, n)' = Drained(w, n)
  BY <1>4 DEF Written, Lost, Drained
<1>10. PlaceInv'
  <2>1. \A n \in Int : n \in 1..emitted' <=> n \in 1..emitted \/ n = emitted'
    BY <1>1
  <2>2. emitted' \in Int /\ emitted' \notin 1..emitted
    BY <1>1
  <2>3. /\ ~Written(emitted') /\ ~Lost(emitted') /\ \A w \in Writers : ~Drained(w, emitted')
    BY <2>2 DEF LogInv, PlaceInv
  <2> QED  BY <1>8, <1>9, <2>1, <2>3 DEF LogInv, PlaceInv
<1>11. Left' = Left
  BY <1>4 DEF Left
<1>12. Left \subseteq Events
  BY <1>2 DEF Left, Range
<1>13. \A f \in Left : f.no \in 1..emitted
  <2>1. ASSUME NEW f \in Range(rows) PROVE Written(f.no)
    BY <2>1 DEF Range, Written
  <2>2. ASSUME NEW w \in Writers, NEW f \in Range(batch[w]) PROVE Drained(w, f.no)
    BY <2>2 DEF Range, Drained
  <2> SUFFICES ASSUME NEW f \in Left PROVE f.no \in 1..emitted
    OBVIOUS
  <2>3. f.no \in Int
    BY <1>12 DEF Events
  <2>4. Written(f.no) \/ \E w \in Writers : Drained(w, f.no)
    BY <2>1, <2>2 DEF Left
  <2> QED  BY <2>3, <2>4 DEF LogInv, PlaceInv
<1>14. \A f \in Left : f.time <= now' /\ f.time < e.time /\ f.no < e.no
  <2> SUFFICES ASSUME NEW f \in Left PROVE f.time <= now' /\ f.time < e.time /\ f.no < e.no
    OBVIOUS
  <2>1. f.time \in Int /\ f.no \in 1..emitted
    BY <1>12, <1>13 DEF Events
  <2>2. f.time <= now /\ (~awaited => f.time < now)
    BY DEF LogInv, OrderInv
  <2> QED  BY <1>1, <1>3, <2>1, <2>2
<1>15. \A i \in DOMAIN queue : queue[i].no < e.no /\ queue[i].time <= e.time /\ queue[i].time <= now'
  <2> TAKE i \in DOMAIN queue
  <2>1. queue[i] \in Events /\ Waiting(queue[i].no)
    BY <1>2 DEF Waiting
  <2>2. queue[i].no \in 1..emitted
    BY <2>1 DEF LogInv, PlaceInv, Events
  <2>3. queue[i].time <= now /\ queue[i].time \in Int
    BY <2>1 DEF LogInv, OrderInv, Events
  <2> QED  BY <1>1, <1>3, <2>2, <2>3
<1>16. InOrder(queue)'
  <2> SUFFICES ASSUME NEW i \in DOMAIN queue', NEW j \in DOMAIN queue', i < j
               PROVE  queue'[i].no < queue'[j].no /\ queue'[i].time <= queue'[j].time
    BY DEF InOrder
  <2>1. i \in DOMAIN queue /\ queue'[i] = queue[i]
    BY <1>2, <1>5, <1>6
  <2>2. CASE j \in DOMAIN queue /\ queue'[j] = queue[j]
    BY <2>1, <2>2 DEF LogInv, OrderInv, InOrder
  <2>3. CASE queue'[j] = e
    BY <1>15, <2>1, <2>3
  <2> QED  BY <1>6, <2>2, <2>3
<1>17. /\ \A i \in DOMAIN queue' : queue'[i].time <= now'
       /\ \A f \in Left : \A i \in DOMAIN queue' : f.time < queue'[i].time /\ f.no < queue'[i].no
  <2>1. e.time <= now'
    BY <1>1, <1>3
  <2>2. \A f \in Left : \A i \in DOMAIN queue : f.time < queue[i].time /\ f.no < queue[i].no
    BY DEF LogInv, OrderInv
  <2> QED  BY <1>6, <1>14, <1>15, <2>1, <2>2
<1>18. \A f \in Left : f.time <= now' /\ f.time < now'
  BY <1>3, <1>14
<1>19. OrderInv'
  BY <1>1, <1>4, <1>11, <1>16, <1>17, <1>18 DEF LogInv, OrderInv, InOrder
<1>20. AskedInv'
  <2> SUFFICES ASSUME NEW r \in Readers
               PROVE  /\ asked[r] <= emitted'
                      /\ pc[r] = "query" => \A n \in 1..asked[r] : ~Waiting(n)'
    BY <1>4 DEF AskedInv
  <2>1. asked[r] <= emitted /\ asked[r] \in Nat
    BY DEF LogInv, AskedInv, TypeOK
  <2>2. asked[r] <= emitted' /\ \A n \in 1..asked[r] : n \in Int /\ n # emitted'
    BY <1>1, <2>1
  <2> QED  BY <1>8, <2>2 DEF LogInv, AskedInv
<1> QED  BY <1>7, <1>10, <1>19, <1>20 DEF LogInv

\* What a flush leaves to its action
LEMMA FlushStep ==
    ASSUME LogInv, NEW w \in Writers, FlushPending(w),
           UNCHANGED <<rows, conn, eventVars>>,
           run' \in {"connecting", "running", "ended"},
           stopping' \in {"no", "flush", "close", "done"},
           pc' \in [Readers -> {"idle", "flush", "query"}]
    PROVE  LogInv'
<1>1. UNCHANGED <<rows, conn, emitted, now, asked>>
  BY DEF eventVars
<1>2. /\ queue' = <<>> /\ awaited' = TRUE
      /\ batch' \in [Writers -> Seq(Events)] /\ lost' \subseteq Events
      /\ PlaceInv' /\ OrderInv'
  BY <1>1, FlushMoves
<1>3. TypeOK'
  BY <1>1, <1>2 DEF LogInv, TypeOK
<1>4. AskedInv'
  BY <1>1, <1>2 DEF LogInv, AskedInv, Waiting
<1> QED  BY <1>2, <1>3, <1>4 DEF LogInv

\* What the end of a batch leaves to its action
LEMMA SettleStep ==
    ASSUME LogInv, NEW w \in Writers, NEW n \in 0..Len(batch[w]),
           rows' = rows \o SubSeq(batch[w], 1, n),
           lost' = lost \cup Range(SubSeq(batch[w], n + 1, Len(batch[w]))),
           batch' = [batch EXCEPT ![w] = <<>>],
           UNCHANGED <<queue, conn, pc, awaited, eventVars>>,
           run' \in {"connecting", "running", "ended"},
           stopping' \in {"no", "flush", "close", "done"}
    PROVE  LogInv'
<1>1. UNCHANGED <<queue, conn, pc, awaited, emitted, now, asked>>
  BY DEF eventVars
<1>2. /\ rows' \in Seq(Events) /\ lost' \subseteq Events
      /\ batch' \in [Writers -> Seq(Events)]
      /\ PlaceInv' /\ OrderInv'
  BY <1>1, BatchSettles
<1>3. TypeOK'
  BY <1>1, <1>2 DEF LogInv, TypeOK
<1>4. AskedInv'
  BY <1>1 DEF LogInv, AskedInv, Waiting
<1> QED  BY <1>2, <1>3, <1>4 DEF LogInv

\* A step that moves no event
LEMMA StillStep ==
    ASSUME LogInv, UNCHANGED <<queue, rows, batch, lost, awaited, emitted, now>>,
           TypeOK', AskedInv'
    PROVE  LogInv'
<1>1. \A n : Waiting(n)' = Waiting(n) /\ Written(n)' = Written(n) /\ Lost(n)' = Lost(n)
             /\ \A w \in Writers : Drained(w, n)' = Drained(w, n)
  BY DEF Waiting, Written, Lost, Drained
<1>2. PlaceInv'
  BY <1>1 DEF LogInv, PlaceInv
<1>3. Left' = Left
  BY DEF Left
<1>4. OrderInv'
  BY <1>3 DEF LogInv, OrderInv, InOrder
<1> QED  BY <1>2, <1>4 DEF LogInv

LEMMA LogStep == ASSUME LogInv, [Next]_vars PROVE LogInv'
<1> USE DEF eventVars
<1>0. /\ TypeOK /\ "run" \in Writers /\ "stop" \in Writers /\ Readers \subseteq Writers
      /\ AskedInv
  BY DEF LogInv, Writers
<1>1. CASE Sink
  BY <1>1, SinkStep
<1>2. CASE Connect
  <2>1. TypeOK' /\ AskedInv'
    BY <1>0, <1>2 DEF Connect, TypeOK, AskedInv, Waiting
  <2> QED  BY <1>2, <2>1, StillStep DEF Connect
<1>3. CASE TimerFlush
  <2>1. run' \in {"connecting", "running", "ended"} /\ stopping' \in {"no", "flush", "close", "done"}
        /\ pc' \in [Readers -> {"idle", "flush", "query"}]
    BY <1>0, <1>3 DEF TimerFlush, TypeOK
  <2> QED  BY <1>0, <1>3, <2>1, FlushStep DEF TimerFlush
<1>4. ASSUME NEW w \in Writers, Insert(w) \/ InsertFails(w) PROVE LogInv'
  <2>1. /\ run' \in {"connecting", "running", "ended"} /\ stopping' \in {"no", "flush", "close", "done"}
        /\ UNCHANGED <<queue, conn, pc, awaited, eventVars>>
        /\ batch' = [batch EXCEPT ![w] = <<>>]
    BY <1>0, <1>4 DEF Insert, InsertFails, TypeOK
  <2>2. batch[w] \in Seq(Events) /\ Len(batch[w]) \in Nat
    BY <1>0 DEF TypeOK
  <2>3. CASE Insert(w)
    <3> DEFINE n == Len(batch[w])
    <3>1. n \in 0..Len(batch[w]) /\ SubSeq(batch[w], 1, n) = batch[w]
      BY <2>2, Parts
    <3>2. Len(SubSeq(batch[w], n + 1, Len(batch[w]))) = 0
      BY <2>2, <3>1, Parts
    <3>3. Range(SubSeq(batch[w], n + 1, Len(batch[w]))) = {}
      BY <3>2, <2>2 DEF Range
    <3>4. rows' = rows \o SubSeq(batch[w], 1, n)
          /\ lost' = lost \cup Range(SubSeq(batch[w], n + 1, Len(batch[w])))
      BY <2>3, <3>1, <3>3 DEF Insert
    <3> HIDE DEF n
    <3> QED  BY <2>1, <3>1, <3>4, SettleStep
  <2>4. CASE InsertFails(w)
    <3>1. PICK n \in 0..(IF conn = "open" THEN Len(batch[w]) - 1 ELSE 0) :
             /\ rows' = rows \o SubSeq(batch[w], 1, n)
             /\ lost' = lost \cup Range(SubSeq(batch[w], n + 1, Len(batch[w])))
      BY <2>4 DEF InsertFails
    <3>2. n \in 0..Len(batch[w])
      BY <2>2
    <3> QED  BY <2>1, <3>1, <3>2, SettleStep
  <2> QED  BY <1>4, <2>3, <2>4
<1>5. ASSUME NEW r \in Readers, Request(r) PROVE LogInv'
  <2>1. TypeOK'
    BY <1>0, <1>5 DEF Request, TypeOK
  <2>2. AskedInv'
    BY <1>0, <1>5 DEF Request, TypeOK, AskedInv, Waiting
  <2> QED  BY <1>5, <2>1, <2>2, StillStep DEF Request
<1>6. ASSUME NEW r \in Readers, Flush(r) PROVE LogInv'
  <2>1. run' \in {"connecting", "running", "ended"} /\ stopping' \in {"no", "flush", "close", "done"}
        /\ pc' \in [Readers -> {"idle", "flush", "query"}]
    BY <1>0, <1>6 DEF Flush, TypeOK
  <2> QED  BY <1>0, <1>6, <2>1, FlushStep DEF Flush
<1>7. ASSUME NEW r \in Readers, Query(r) PROVE LogInv'
  <2>1. TypeOK'
    BY <1>0, <1>7, MaxEventsAssumption DEF Query, TypeOK
  <2>2. AskedInv'
    BY <1>0, <1>7 DEF Query, TypeOK, AskedInv, Waiting
  <2> QED  BY <1>7, <2>1, <2>2, StillStep DEF Query
<1>8. CASE Stop
  <2>1. run' \in {"connecting", "running", "ended"} /\ stopping' \in {"no", "flush", "close", "done"}
        /\ UNCHANGED <<queue, rows, conn, pc, awaited, eventVars>>
    BY <1>8 DEF Stop
  <2>2. CASE UNCHANGED <<batch, lost>>
    <3>1. TypeOK' /\ AskedInv'
      BY <1>0, <2>1, <2>2 DEF TypeOK, AskedInv, Waiting
    <3> QED  BY <2>1, <2>2, <3>1, StillStep
  <2>3. CASE batch' = [batch EXCEPT !["run"] = <<>>] /\ lost' = lost \cup Range(batch["run"])
    <3>1. batch["run"] \in Seq(Events) /\ Len(batch["run"]) \in Nat /\ rows \in Seq(Events)
      BY <1>0 DEF TypeOK
    <3>2. SubSeq(batch["run"], 1, 0) = <<>> /\ SubSeq(batch["run"], 0 + 1, Len(batch["run"])) = batch["run"]
          /\ rows \o <<>> = rows /\ 0 \in 0..Len(batch["run"])
      BY <3>1
    <3> QED  BY <1>0, <2>1, <2>3, <3>2, SettleStep
  <2> QED  BY <1>8, <2>2, <2>3 DEF Stop
<1>9. CASE StopFlush
  <2>1. run' \in {"connecting", "running", "ended"} /\ stopping' \in {"no", "flush", "close", "done"}
        /\ pc' \in [Readers -> {"idle", "flush", "query"}]
    BY <1>0, <1>9 DEF StopFlush, TypeOK
  <2> QED  BY <1>0, <1>9, <2>1, FlushStep DEF StopFlush
<1>10. CASE StopClose
  <2>1. TypeOK' /\ AskedInv'
    BY <1>0, <1>10 DEF StopClose, TypeOK, AskedInv, Waiting
  <2> QED  BY <1>10, <2>1, StillStep DEF StopClose
<1>11. CASE UNCHANGED vars
  <2>1. TypeOK' /\ AskedInv'
    BY <1>0, <1>11 DEF vars, TypeOK, AskedInv, Waiting
  <2> QED  BY <1>11, <2>1, StillStep DEF vars
<1> QED  BY <1>1, <1>2, <1>3, <1>4, <1>5, <1>6, <1>7, <1>8, <1>9, <1>10, <1>11 DEF Next

LEMMA LogInvariant == Spec => []LogInv
<1> QED  BY LogInit, LogStep, PTL DEF Spec

-----------------------------------------------------------------------------
(* Theorems *)

LEMMA NumbersAre ==
    ASSUME TypeOK
    PROVE  /\ \A n : n \in Numbers(queue) <=> Waiting(n)
           /\ \A n : n \in Numbers(rows) <=> Written(n)
           /\ \A n : \A w \in Writers : n \in Numbers(batch[w]) <=> Drained(w, n)
           /\ \A n : n \in LostNumbers <=> Lost(n)
           /\ Numbers(queue) \cup InFlight \cup Numbers(rows) \cup LostNumbers \subseteq Int
<1>1. /\ \A n : n \in Numbers(queue) <=> Waiting(n)
      /\ \A n : n \in Numbers(rows) <=> Written(n)
      /\ \A n : \A w \in Writers : n \in Numbers(batch[w]) <=> Drained(w, n)
      /\ \A n : n \in LostNumbers <=> Lost(n)
  BY DEF Numbers, LostNumbers, Waiting, Written, Drained, Lost
<1>2. ASSUME NEW s \in Seq(Events) PROVE Numbers(s) \subseteq Int
  <2>1. \A e \in Events : e.no \in Int
    BY MaxEventsAssumption DEF Events
  <2>2. \A i \in DOMAIN s : s[i] \in Events
    OBVIOUS
  <2> QED  BY <2>1, <2>2 DEF Numbers
<1>3. queue \in Seq(Events) /\ rows \in Seq(Events) /\ (\A w \in Writers : batch[w] \in Seq(Events))
      /\ lost \subseteq Events
  BY DEF TypeOK
<1>4. LostNumbers \subseteq Int
  BY <1>3 DEF LostNumbers, Events
<1>5. Numbers(queue) \subseteq Int /\ Numbers(rows) \subseteq Int
      /\ \A w \in Writers : Numbers(batch[w]) \subseteq Int
  BY <1>2, <1>3
<1>6. InFlight \subseteq Int
  BY <1>5 DEF InFlight
<1> QED  BY <1>1, <1>4, <1>5, <1>6

\* The event log's state keeps its types (EventLogger).
THEOREM LogTypeCorrect == Spec => []TypeOK
<1>1. LogInv => TypeOK
  BY DEF LogInv
<1> QED  BY <1>1, LogInvariant, PTL

\* However many requests flush while the timer and stop do, and whichever inserts fail:
\* an event is in the queue, with one writer, in the table once, or lost (_flush_pending,
\* _insert_batch).
THEOREM EventsAreAccountedFor == Spec => []EveryEventAccountedFor
<1>1. ASSUME LogInv PROVE EveryEventAccountedFor
  <2>1. TypeOK /\ PlaceInv /\ OrderInv
    BY <1>1 DEF LogInv
  <2>2. Numbers(queue) \cup InFlight \cup Numbers(rows) \cup LostNumbers = 1..emitted
    <3>1. \A n \in Int : n \in 1..emitted <=>
             n \in Numbers(queue) \cup InFlight \cup Numbers(rows) \cup LostNumbers
      BY <2>1, NumbersAre DEF PlaceInv, InFlight
    <3>2. 1..emitted \subseteq Int
      OBVIOUS
    <3> QED  BY <2>1, <3>1, <3>2, NumbersAre
  <2>3. IsInjective(rows)
    BY <2>1 DEF IsInjective, OrderInv
  <2>4. /\ Numbers(queue) \cap (InFlight \cup Numbers(rows) \cup LostNumbers) = {}
        /\ InFlight \cap (Numbers(rows) \cup LostNumbers) = {}
        /\ Numbers(rows) \cap LostNumbers = {}
    BY <2>1, NumbersAre DEF PlaceInv, InFlight
  <2>5. \A v, w \in Writers : v # w => Numbers(batch[v]) \cap Numbers(batch[w]) = {}
    <3> SUFFICES ASSUME NEW v \in Writers, NEW w \in Writers,
                        NEW n \in Numbers(batch[v]), n \in Numbers(batch[w])
                 PROVE  v = w
      OBVIOUS
    <3>1. n \in Int
      BY <2>1, NumbersAre DEF InFlight
    <3> QED  BY <2>1, <3>1, NumbersAre DEF PlaceInv
  <2> QED  BY <2>2, <2>3, <2>4, <2>5 DEF EveryEventAccountedFor
<1> QED  BY <1>1, LogInvariant, PTL

\* In whatever order the batches reach the table, ordering its rows by timestamp and
\* rowid gives them in the order they were emitted in (query).
THEOREM ReplaysAreInOrder == Spec => []ReplayInOrder
<1>1. ASSUME LogInv PROVE ReplayInOrder
  <2> SUFFICES ASSUME NEW i \in DOMAIN rows, NEW j \in DOMAIN rows, ReplayBefore(i, j)
               PROVE  rows[i].no < rows[j].no
    BY DEF ReplayInOrder
  <2>1. rows[i] \in Left /\ rows[j] \in Left
    BY DEF Left, Range
  <2> QED  BY <1>1, <2>1 DEF ReplayBefore, LogInv, OrderInv
<1> QED  BY <1>1, LogInvariant, PTL

\* When a request queries, no event emitted before it came in is still in the queue
\* (flush, before query).
THEOREM FlushesAreVisible == Spec => []OwnFlushIsVisible
<1>1. ASSUME LogInv PROVE OwnFlushIsVisible
  <2> SUFFICES ASSUME NEW r \in Readers, pc[r] = "query", NEW n \in 1..asked[r]
               PROVE  n \in Numbers(rows) \cup LostNumbers \cup InFlight
    BY DEF OwnFlushIsVisible
  <2>1. TypeOK /\ asked[r] <= emitted /\ ~Waiting(n) /\ asked[r] \in Nat /\ emitted \in Nat
    BY <1>1 DEF LogInv, AskedInv, TypeOK
  <2>2. n \in 1..emitted /\ n \in Int
    BY <2>1
  <2> QED  BY <1>1, <2>1, <2>2, NumbersAre DEF LogInv, PlaceInv, InFlight
<1> QED  BY <1>1, LogInvariant, PTL

=============================================================================
