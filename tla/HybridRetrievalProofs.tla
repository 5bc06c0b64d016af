----------------------- MODULE HybridRetrievalProofs -----------------------
(***************************************************************************)
(* Proofs about the retrievals, for any turns and sub-queries, any number  *)
(* of permits and threads.                                                 *)
(*                                                                         *)
(* Two inductive invariants, one on top of the other.  PermitInv follows   *)
(* the retrievals through the semaphore: who waits is in the queue of      *)
(* waiters once, and the permits that are out are those of the retrievals  *)
(* that search.  JobInv follows the jobs through the pool: a job exists    *)
(* once, what is queued is awaited, and a thread's job was started by the  *)
(* mode it belongs to.  Without the last, a mode could start a job whose   *)
(* namesake still runs, and take the older one's outcome for its own.      *)
(***************************************************************************)
EXTENDS HybridRetrieval, FiniteSetTheorems, TLAPS

PermitInv ==
    /\ turn \in [Turns -> {"idle", "gathering", "fused"}]
    /\ phase \in [Retrieval -> {"idle", "called", "waiting", "searching", "returned"}]
    /\ permits \in Int
    /\ waiters \in Seq(Retrieval)
    /\ \A t \in Turns : turn[t] = "idle" => \A r \in Range(Retrievals[t]) : phase[r] = "idle"
    /\ \A i \in 1..Len(waiters) : phase[waiters[i]] = "waiting"
    /\ \A i, j \in 1..Len(waiters) : waiters[i] = waiters[j] => i = j
    /\ permits >= 0
    /\ PermitsBalance

(***************************************************************************)
(* The semaphore                                                           *)
(***************************************************************************)

\* One more or one fewer retrieval searches.
LEMMA SearchingCounts ==
    /\ Cardinality(Searching) \in Nat
    /\ \A r \in Retrieval :
         /\ r \notin Searching => Cardinality(Searching \cup {r}) = Cardinality(Searching) + 1
         /\ r \in Searching => Cardinality(Searching \ {r}) = Cardinality(Searching) - 1
<1>1. IsFiniteSet(Searching)
  BY FS_Subset, HybridAssumption DEF Searching
<1> QED  BY <1>1, FS_CardinalityType, FS_AddElement, FS_RemoveElement

\* At the start nobody searches.
LEMMA PermitInit == ASSUME Init PROVE PermitInv
<1>1. Searching = {}
  BY DEF Init, Searching
<1>2. Cardinality({}) = 0
  BY FS_EmptySet
<1>3. PermitsBalance
  <2>1. Cardinality(Searching) = 0
    BY <1>1, <1>2
  <2> QED  BY <2>1, HybridAssumption DEF PermitsBalance, Init
<1>4. Range(<<>>) = {} /\ \A t \in Turns : Range(Retrievals[t]) \subseteq Retrieval
  BY DEF Range, Retrieval
<1> QED  BY <1>3, <1>4, HybridAssumption DEF PermitInv, Init

\* Entering takes a permit for one more retrieval.
LEMMA EnterBalances ==
    ASSUME PermitInv, NEW r \in Retrieval, phase[r] # "searching",
           permits > 0, permits' = permits - 1,
           phase' = [phase EXCEPT ![r] = "searching"]
    PROVE  permits' \in Int /\ permits' >= 0 /\ PermitsBalance'
<1>1. Searching' = Searching \cup {r}
  BY DEF Searching, PermitInv
<1>2. Cardinality(Searching') = Cardinality(Searching) + 1
  BY <1>1, SearchingCounts DEF Searching
<1> QED
  BY <1>2, SearchingCounts, HybridAssumption DEF PermitInv, PermitsBalance, Searching

LEMMA PermitStep == ASSUME PermitInv, [Next]_vars PROVE PermitInv'
<1> USE DEF PermitInv
<1>1. ASSUME NEW t \in Turns, Dispatch(t) PROVE PermitInv'
  <2>1. \A r \in Range(Retrievals[t]) : phase[r] = "idle"
    BY <1>1 DEF Dispatch
  <2>2. Searching' = Searching
    BY <1>1, <2>1 DEF Dispatch, Searching
  <2>3. \A u \in Turns : u # t => Range(Retrievals[u]) \cap Range(Retrievals[t]) = {}
    BY HybridAssumption DEF Range
  <2>4. \A u \in Turns : Range(Retrievals[u]) \subseteq Retrieval
    BY DEF Retrieval
  <2>5. \A u \in Turns : turn'[u] = "idle" => \A r \in Range(Retrievals[u]) : phase'[r] = "idle"
    BY <1>1, <2>3, <2>4 DEF Dispatch
  <2>6. \A i \in 1..Len(waiters) : phase'[waiters[i]] = "waiting"
    BY <1>1, <2>1 DEF Dispatch
  <2>7. PermitsBalance'
    BY <1>1, <2>2 DEF Dispatch, PermitsBalance, Searching
  <2> QED  BY <1>1, <2>5, <2>6, <2>7 DEF Dispatch
<1>2. ASSUME NEW r \in Retrieval, Enter(r) PROVE PermitInv'
  <2>1. permits' \in Int /\ permits' >= 0 /\ PermitsBalance'
    BY <1>2, EnterBalances DEF Enter
  <2> QED  BY <1>2, <2>1 DEF Enter
<1>3. ASSUME NEW r \in Retrieval, WaitForPermit(r) PROVE PermitInv'
  <2>1. Searching' = Searching
    BY <1>3 DEF WaitForPermit, Searching
  <2>2. PermitsBalance'
    BY <1>3, <2>1 DEF WaitForPermit, PermitsBalance, Searching
  <2>3. /\ waiters' \in Seq(Retrieval) /\ Len(waiters') = Len(waiters) + 1
        /\ \A i \in 1..Len(waiters) : waiters'[i] = waiters[i] /\ waiters'[i] # r
        /\ waiters'[Len(waiters')] = r
    BY <1>3 DEF WaitForPermit
  <2>4. \A i \in 1..Len(waiters') : phase'[waiters'[i]] = "waiting"
    BY <1>3, <2>3 DEF WaitForPermit
  <2>5. \A i, j \in 1..Len(waiters') : waiters'[i] = waiters'[j] => i = j
    BY <2>3
  <2> QED  BY <1>3, <2>2, <2>3, <2>4, <2>5 DEF WaitForPermit
<1>4. ASSUME NEW r \in Retrieval, EnterAsNext(r) PROVE PermitInv'
  <2>1. /\ waiters' \in Seq(Retrieval) /\ Len(waiters') = Len(waiters) - 1
        /\ \A i \in 1..Len(waiters') : waiters'[i] = waiters[i + 1] /\ waiters'[i] # r
        /\ phase[r] = "waiting"
    <3>1. waiters \in Seq(Retrieval) /\ waiters # <<>> /\ waiters[1] = r /\ waiters' = Tail(waiters)
      BY <1>4 DEF EnterAsNext
    <3>2. Len(waiters) \in Nat /\ Len(waiters) >= 1
      BY <3>1
    <3> QED  BY <3>1, <3>2
  <2>2. permits' \in Int /\ permits' >= 0 /\ PermitsBalance'
    BY <1>4, <2>1, EnterBalances DEF EnterAsNext
  <2>3. \A i \in 1..Len(waiters') : phase'[waiters'[i]] = "waiting"
    BY <1>4, <2>1 DEF EnterAsNext
  <2>4. \A i, j \in 1..Len(waiters') : waiters'[i] = waiters'[j] => i = j
    <3>1. Len(waiters) \in Nat
      BY DEF PermitInv
    <3>2. ASSUME NEW i \in 1..Len(waiters'), NEW j \in 1..Len(waiters'), waiters'[i] = waiters'[j]
          PROVE  i = j
      <4>1. i + 1 \in 1..Len(waiters) /\ j + 1 \in 1..Len(waiters)
        BY <2>1, <3>1
      <4>2. waiters[i + 1] = waiters[j + 1]
        BY <2>1, <3>2
      <4> QED  BY <4>1, <4>2, <3>1
    <3> QED  BY <3>2
  <2> QED  BY <1>4, <2>1, <2>2, <2>3, <2>4 DEF EnterAsNext
<1>5. ASSUME NEW r \in Retrieval, Return(r) PROVE PermitInv'
  <2>1. Searching' = Searching \ {r} /\ r \in Searching
    BY <1>5 DEF Return, Searching
  <2>2. Cardinality(Searching') = Cardinality(Searching) - 1
    BY <2>1, SearchingCounts
  <2>3. PermitsBalance'
    BY <1>5, <2>2, SearchingCounts, HybridAssumption DEF Return, PermitsBalance, Searching
  <2> QED  BY <1>5, <2>3 DEF Return
<1>6. ASSUME NEW t \in Turns, Fuse(t) PROVE PermitInv'
  BY <1>6 DEF Fuse, PermitsBalance, Searching
<1>7. ASSUME UNCHANGED <<turn, phase, permits, waiters>> PROVE PermitInv'
  BY <1>7 DEF PermitsBalance, Searching
<1>8. \/ \E t \in Turns : Dispatch(t) \/ Fuse(t)
      \/ \E r \in Retrieval : Enter(r) \/ WaitForPermit(r) \/ EnterAsNext(r) \/ Return(r)
      \/ UNCHANGED <<turn, phase, permits, waiters>>
  BY SMTT(20), ZenonT(60) DEF Next, Progress, RetrievalStep, ThreadStep, vars, EmbedTimesOut, EmbedAgain, ScoreTimesOut,
         QueryEnds, EmbedReturns, LoadReturns, ScoreReturns, TakeLock, Take
<1> QED  BY <1>1, <1>2, <1>3, <1>4, <1>5, <1>6, <1>7, <1>8

\* For any number of permits and of retrievals that want one: a permit is out for
\* each retrieval that searches, whatever its modes and their threads do.
THEOREM PermitsAlwaysBalance == Spec => []PermitsBalance
<1>1. Spec => []PermitInv
  BY PermitInit, PermitStep, PTL DEF Spec
<1>2. PermitInv => PermitsBalance
  BY DEF PermitInv
<1> QED  BY <1>1, <1>2, PTL

(***************************************************************************)
(* The pool's queue                                                        *)
(***************************************************************************)

Distinct(s) == \A i, j \in 1..Len(s) : s[i] = s[j] => i = j

\* A job that is not there yet is queued.
LEMMA Queued ==
    ASSUME NEW S, NEW s \in Seq(S), Distinct(s), NEW x \in S, x \notin Range(s)
    PROVE  /\ Append(s, x) \in Seq(S)
           /\ Distinct(Append(s, x))
           /\ Range(Append(s, x)) = Range(s) \cup {x}
<1>1. /\ Len(s) \in Nat /\ Len(Append(s, x)) = Len(s) + 1
      /\ \A i \in 1..Len(s) : Append(s, x)[i] = s[i]
      /\ Append(s, x)[Len(s) + 1] = x
      /\ DOMAIN s = 1..Len(s) /\ DOMAIN Append(s, x) = 1..(Len(s) + 1)
  OBVIOUS
<1>2. \A i \in 1..Len(s) : s[i] # x
  BY <1>1 DEF Range
<1>3. Distinct(Append(s, x))
  BY <1>1, <1>2 DEF Distinct
<1>4. Range(Append(s, x)) = Range(s) \cup {x}
  <2>1. Range(Append(s, x)) \subseteq Range(s) \cup {x}
    BY <1>1 DEF Range
  <2>2. Range(s) \subseteq Range(Append(s, x))
    BY <1>1 DEF Range
  <2>3. x \in Range(Append(s, x))
    BY <1>1 DEF Range
  <2> QED  BY <2>1, <2>2, <2>3
<1> QED  BY <1>3, <1>4

\* The first job is taken.
LEMMA Taken ==
    ASSUME NEW S, NEW s \in Seq(S), Distinct(s), s # <<>>
    PROVE  /\ Tail(s) \in Seq(S)
           /\ Distinct(Tail(s))
           /\ Head(s) \in Range(s)
           /\ Range(Tail(s)) = Range(s) \ {Head(s)}
<1>1. /\ Len(s) \in Nat \ {0} /\ Len(Tail(s)) = Len(s) - 1
      /\ \A i \in 1..(Len(s) - 1) : Tail(s)[i] = s[i + 1]
      /\ Head(s) = s[1]
      /\ DOMAIN s = 1..Len(s) /\ DOMAIN Tail(s) = 1..(Len(s) - 1)
  OBVIOUS
<1>2. \A i \in 1..(Len(s) - 1) : i + 1 \in 1..Len(s) /\ i + 1 # 1
  BY <1>1
<1>3. Distinct(Tail(s))
  <2>1. ASSUME NEW i \in 1..Len(Tail(s)), NEW j \in 1..Len(Tail(s)), Tail(s)[i] = Tail(s)[j]
        PROVE  i = j
    <3>1. i + 1 = j + 1
      BY <1>1, <1>2, <2>1 DEF Distinct
    <3> QED  BY <1>1, <3>1
  <2> QED  BY <2>1 DEF Distinct
<1>4. Range(Tail(s)) = Range(s) \ {Head(s)}
  <2>1. \A i \in 1..(Len(s) - 1) : Tail(s)[i] \in Range(s) /\ Tail(s)[i] # s[1]
    BY <1>1, <1>2 DEF Distinct, Range
  <2>2. Range(Tail(s)) \subseteq Range(s) \ {Head(s)}
    BY <1>1, <2>1 DEF Range
  <2>3. ASSUME NEW x \in Range(s), x # Head(s) PROVE x \in Range(Tail(s))
    <3>1. PICK i \in 1..Len(s) : s[i] = x
      BY <1>1 DEF Range
    <3>2. i - 1 \in 1..(Len(s) - 1) /\ (i - 1) + 1 = i
      BY <1>1, <2>3, <3>1
    <3>3. Tail(s)[i - 1] = x
      BY <1>1, <3>1, <3>2
    <3> QED  BY <1>1, <3>2, <3>3 DEF Range
  <2> QED  BY <2>2, <2>3
<1>5. Head(s) \in Range(s)
  BY <1>1 DEF Range
<1> QED  BY <1>3, <1>4, <1>5

\* A job is given up that no thread has taken.
LEMMA Removed ==
    ASSUME NEW S, NEW s \in Seq(S), Distinct(s), NEW i \in 1..Len(s)
    PROVE  /\ Without(s, i) \in Seq(S)
           /\ Distinct(Without(s, i))
           /\ Range(Without(s, i)) = Range(s) \ {s[i]}
<1> DEFINE t == Without(s, i)
<1>1. Len(s) \in Nat /\ DOMAIN s = 1..Len(s) /\ \A n \in 1..Len(s) : s[n] \in S
  OBVIOUS
<1>2. \A n \in 1..(Len(s) - 1) : (IF n < i THEN n ELSE n + 1) \in 1..Len(s) \ {i}
  BY <1>1
<1>3. t \in Seq(S) /\ Len(t) = Len(s) - 1
  <2>1. t \in [1..(Len(s) - 1) -> S]
    BY <1>1, <1>2 DEF Without
  <2>2. Len(s) - 1 \in Nat
    BY <1>1
  <2> QED  BY <2>1, <2>2
<1>4. /\ DOMAIN t = 1..(Len(s) - 1)
      /\ \A n \in 1..(Len(s) - 1) : t[n] = s[IF n < i THEN n ELSE n + 1]
  BY DEF Without
<1> HIDE DEF t
<1>5. Distinct(t)
  <2>1. ASSUME NEW n \in 1..Len(t), NEW m \in 1..Len(t), t[n] = t[m] PROVE n = m
    <3>1. (IF n < i THEN n ELSE n + 1) = (IF m < i THEN m ELSE m + 1)
      BY <1>2, <1>3, <1>4, <2>1 DEF Distinct
    <3> QED  BY <1>1, <1>3, <3>1
  <2> QED  BY <2>1 DEF Distinct
<1>6. Range(t) \subseteq Range(s) \ {s[i]}
  <2>1. \A n \in 1..(Len(s) - 1) : t[n] \in Range(s) /\ t[n] # s[i]
    BY <1>1, <1>2, <1>4 DEF Distinct, Range
  <2> QED  BY <1>4, <2>1 DEF Range
<1>7. ASSUME NEW x \in Range(s), x # s[i] PROVE x \in Range(t)
  <2>1. PICK n \in 1..Len(s) : s[n] = x
    BY <1>1 DEF Range
  <2>2. CASE n < i
    <3>1. n \in 1..(Len(s) - 1) /\ t[n] = x
      BY <1>1, <1>4, <2>1, <2>2
    <3> QED  BY <1>4, <3>1 DEF Range
  <2>3. CASE n > i
    <3>1. n - 1 \in 1..(Len(s) - 1) /\ ~(n - 1 < i) /\ (n - 1) + 1 = n
      BY <1>1, <2>3
    <3>2. t[n - 1] = x
      BY <1>4, <2>1, <3>1
    <3> QED  BY <1>4, <3>1, <3>2 DEF Range
  <2> QED  BY <1>1, <1>7, <2>1, <2>2, <2>3
<1> QED  BY <1>3, <1>5, <1>6, <1>7 DEF t

(***************************************************************************)
(* The jobs                                                                *)
(***************************************************************************)

JobTypes ==
    /\ dense \in [Retrieval -> DenseStates]
    /\ sparse \in [Retrieval -> SparseStates]
    /\ queue \in Seq(Jobs)
    /\ threads \subseteq Jobs
    /\ lock \in Retrieval \cup {None}
    /\ index \subseteq Corpora
    /\ loads \in [Corpora -> Nat]

\* What a retrieval's phase says of its modes
ModesFollowPhase ==
    \A r \in Retrieval :
        /\ phase[r] \in {"idle", "called", "waiting"} => dense[r] = "idle" /\ sparse[r] = "idle"
        /\ phase[r] = "returned" => dense[r] \in Ends /\ sparse[r] \in Ends

QueuedAreAwaited ==
    /\ Distinct(queue)
    /\ Range(queue) \cap threads = {}
    /\ \A r \in Retrieval :
         /\ <<r, "embed">> \in Range(queue) => dense[r] = "embed"
         /\ <<r, "embed again">> \in Range(queue) => dense[r] = "embed again"
         /\ <<r, "load">> \in Range(queue) => sparse[r] = "load"
         /\ <<r, "score">> \in Range(queue) => sparse[r] = "score"

\* A thread's job was started: an embedding may be given up, a load never is.
RunningWereStarted ==
    \A r \in Retrieval :
        /\ <<r, "embed">> \in threads => dense[r] # "idle"
        /\ <<r, "embed again">> \in threads => dense[r] \notin {"idle", "embed", "backoff"}
        /\ <<r, "load">> \in threads => sparse[r] = "load"
        /\ <<r, "score">> \in threads => sparse[r] \notin {"idle", "load"}
        /\ lock = r => <<r, "load">> \in threads

LoadedIfCached == \A c \in Corpora : loads[c] = IF c \in index THEN 1 ELSE 0

JobInv == JobTypes /\ ModesFollowPhase /\ QueuedAreAwaited /\ RunningWereStarted /\ LoadedIfCached

\* No job, no mode under way.
LEMMA JobInit == ASSUME Init PROVE JobInv
<1>1. Range(<<>>) = {} /\ Distinct(<<>>)
  BY DEF Range, Distinct
<1> USE DEF Init
<1>2. JobTypes
  BY DEF JobTypes, DenseStates, SparseStates
<1>3. ModesFollowPhase
  BY DEF ModesFollowPhase
<1>4. QueuedAreAwaited
  BY <1>1 DEF QueuedAreAwaited
<1>5. RunningWereStarted
  BY HybridAssumption DEF RunningWereStarted
<1>6. LoadedIfCached
  BY DEF LoadedIfCached
<1> QED  BY <1>2, <1>3, <1>4, <1>5, <1>6 DEF JobInv

\* Both modes of a retrieval begin.
LEMMA StartModesKeepsJobs ==
    ASSUME JobInv, NEW r \in Retrieval, StartModes(r), phase[r] \in {"called", "waiting"},
           phase \in [Retrieval -> {"idle", "called", "waiting", "searching", "returned"}],
           phase' = [phase EXCEPT ![r] = "searching"]
    PROVE  JobInv'
<1> USE DEF JobInv, JobTypes
<1>1. dense[r] = "idle" /\ sparse[r] = "idle"
  BY DEF ModesFollowPhase
<1>2. <<r, "embed">> \notin Range(queue) /\ <<r, "load">> \notin Range(queue)
  BY <1>1 DEF QueuedAreAwaited
<1>3. <<r, "embed">> \in Jobs /\ <<r, "load">> \in Jobs /\ <<r, "embed">> # <<r, "load">>
  BY DEF Jobs
<1>4. queue' = Append(Append(queue, <<r, "embed">>), <<r, "load">>)
  BY DEF StartModes
<1> DEFINE half == Append(queue, <<r, "embed">>)
<1>5. half \in Seq(Jobs) /\ Distinct(half) /\ Range(half) = Range(queue) \cup {<<r, "embed">>}
  <2>1. queue \in Seq(Jobs) /\ Distinct(queue)
    BY DEF QueuedAreAwaited
  <2>2. <<r, "embed">> \in Jobs /\ <<r, "embed">> \notin Range(queue)
    BY <1>2, <1>3
  <2> HIDE DEF JobInv, JobTypes
  <2> QED  BY <2>1, <2>2, Queued
<1> HIDE DEF half
<1>6. queue' \in Seq(Jobs) /\ Distinct(queue') /\ Range(queue') = Range(half) \cup {<<r, "load">>}
  <2>1. <<r, "load">> \in Jobs /\ <<r, "load">> \notin Range(half)
    BY <1>2, <1>3, <1>5
  <2>2. queue' = Append(half, <<r, "load">>)
    BY <1>4 DEF half
  <2> DEFINE full == Append(half, <<r, "load">>)
  <2> HIDE DEF JobInv, JobTypes
  <2>3. full \in Seq(Jobs) /\ Distinct(full) /\ Range(full) = Range(half) \cup {<<r, "load">>}
    BY <1>5, <2>1, Queued
  <2> QED  BY <2>2, <2>3
<1>7. JobTypes'
  BY <1>6 DEF StartModes, DenseStates, SparseStates
<1>8. ModesFollowPhase'
  BY DEF StartModes, ModesFollowPhase
<1>9. Range(queue') \cap threads' = {}
  BY <1>1, <1>5, <1>6 DEF StartModes, QueuedAreAwaited, RunningWereStarted
<1>10. QueuedAreAwaited'
  BY <1>1, <1>5, <1>6, <1>9 DEF StartModes, QueuedAreAwaited
<1>11. RunningWereStarted'
  BY <1>1 DEF StartModes, RunningWereStarted
<1>12. LoadedIfCached'
  BY DEF StartModes, LoadedIfCached
<1> QED  BY <1>7, <1>8, <1>10, <1>11, <1>12

\* What a mode awaited is given up.
LEMMA AbandonRemoves ==
    ASSUME JobInv, NEW job, Abandon(job)
    PROVE  queue' \in Seq(Jobs) /\ Distinct(queue') /\ Range(queue') = Range(queue) \ {job}
<1>1. queue \in Seq(Jobs) /\ Distinct(queue)
  BY DEF JobInv, JobTypes, QueuedAreAwaited
<1>2. DOMAIN queue = 1..Len(queue)
  BY <1>1
<1>3. CASE job \notin Range(queue) /\ queue' = queue
  BY <1>1, <1>3
<1>4. ASSUME NEW i \in DOMAIN queue, queue[i] = job,
             queue' = Without(queue, i)
      PROVE  queue' \in Seq(Jobs) /\ Distinct(queue') /\ Range(queue') = Range(queue) \ {job}
  BY <1>1, <1>2, <1>4, Removed
<1> QED  BY <1>3, <1>4 DEF Abandon

\* Whatever the event loop or a thread does next, jobs and modes keep to each other.
LEMMA JobStep == ASSUME PermitInv, JobInv, [Next]_vars PROVE JobInv'
<1> USE DEF JobInv, JobTypes
<1>a. phase \in [Retrieval -> {"idle", "called", "waiting", "searching", "returned"}]
  BY DEF PermitInv
<1>1. ASSUME NEW t \in Turns, Dispatch(t) PROVE JobInv'
  <2>1. \A r \in Range(Retrievals[t]) : phase[r] = "idle"
    BY <1>1 DEF Dispatch, PermitInv
  <2>2. ModesFollowPhase'
    BY <1>1, <1>a, <2>1 DEF Dispatch, modes, ModesFollowPhase
  <2> QED
    BY <1>1, <2>2 DEF Dispatch, modes, pool, QueuedAreAwaited, RunningWereStarted, LoadedIfCached
<1>2. ASSUME NEW r \in Retrieval, Enter(r) \/ EnterAsNext(r) PROVE JobInv'
  <2>1. phase[r] \in {"called", "waiting"}
    <3>1. CASE Enter(r)
      BY <3>1 DEF Enter
    <3>2. CASE EnterAsNext(r)
      <4>1. waiters \in Seq(Retrieval) /\ waiters # <<>> /\ waiters[1] = r
        BY <3>2 DEF EnterAsNext, PermitInv
      <4>2. 1 \in 1..Len(waiters)
        BY <4>1
      <4> QED  BY <4>1, <4>2 DEF PermitInv
    <3> QED  BY <1>2, <3>1, <3>2
  <2>2. StartModes(r) /\ phase' = [phase EXCEPT ![r] = "searching"]
    BY <1>2 DEF Enter, EnterAsNext
  <2> QED  BY <1>a, <2>1, <2>2, StartModesKeepsJobs
<1>3. ASSUME NEW r \in Retrieval, WaitForPermit(r) \/ Return(r) PROVE JobInv'
  <2>1. ModesFollowPhase'
    BY <1>3, <1>a DEF WaitForPermit, Return, modes, ModesFollowPhase
  <2> QED
    BY <1>3, <2>1 DEF WaitForPermit, Return, modes, pool, QueuedAreAwaited, RunningWereStarted,
       LoadedIfCached
<1>4. ASSUME NEW t \in Turns, Fuse(t) PROVE JobInv'
  BY <1>4 DEF Fuse, modes, pool, ModesFollowPhase, QueuedAreAwaited, RunningWereStarted, LoadedIfCached
<1>5. ASSUME Take PROVE JobInv'
  <2>1. /\ queue' \in Seq(Jobs) /\ Distinct(queue')
        /\ Head(queue) \in Range(queue) /\ Range(queue') = Range(queue) \ {Head(queue)}
    BY <1>5, Taken DEF Take, QueuedAreAwaited
  <2>2. Head(queue) \in Jobs
    BY <1>5 DEF Take
  <2>3. JobTypes'
    BY <1>5, <2>1, <2>2 DEF Take, modes
  <2>4. QueuedAreAwaited'
    BY <1>5, <2>1 DEF Take, modes, QueuedAreAwaited
  <2>5. RunningWereStarted'
    BY <1>5, <2>1 DEF Take, modes, QueuedAreAwaited, RunningWereStarted
  <2> QED  BY <1>5, <2>3, <2>4, <2>5 DEF Take, modes, ModesFollowPhase, LoadedIfCached
<1>6. ASSUME NEW r \in Retrieval, TakeLock(r) PROVE JobInv'
  BY <1>6, HybridAssumption DEF TakeLock, modes, ModesFollowPhase, QueuedAreAwaited, RunningWereStarted,
     LoadedIfCached
<1>7. ASSUME NEW r \in Retrieval, NEW job \in {"embed", "embed again"}, NEW ok \in BOOLEAN,
             EmbedReturns(r, job, ok)
      PROVE  JobInv'
  <2>1. dense' \in [Retrieval -> DenseStates]
    BY <1>7 DEF EmbedReturns, DenseGoesOn, DenseStates, Ends
  <2>2. <<r, job>> \notin Range(queue)
    BY <1>7 DEF EmbedReturns, QueuedAreAwaited
  <2>3. ModesFollowPhase'
    BY <1>7 DEF EmbedReturns, DenseGoesOn, ModesFollowPhase, Ends
  <2>4. QueuedAreAwaited'
    BY <1>7, <2>2 DEF EmbedReturns, DenseGoesOn, QueuedAreAwaited
  <2>5. RunningWereStarted'
    BY <1>7 DEF EmbedReturns, DenseGoesOn, RunningWereStarted
  <2> QED  BY <1>7, <2>1, <2>3, <2>4, <2>5 DEF EmbedReturns, LoadedIfCached
<1>8. ASSUME NEW r \in Retrieval, NEW ok \in BOOLEAN, LoadReturns(r, ok) PROVE JobInv'
  <2>1. /\ <<r, "load">> \in threads /\ sparse[r] = "load"
        /\ <<r, "score">> \notin Range(queue) /\ <<r, "score">> \notin threads
    BY <1>8 DEF LoadReturns, RunningWereStarted, QueuedAreAwaited
  <2> DEFINE longer == Append(queue, <<r, "score">>)
  <2>2. longer \in Seq(Jobs) /\ Distinct(longer) /\ Range(longer) = Range(queue) \cup {<<r, "score">>}
    <3>1. queue \in Seq(Jobs) /\ Distinct(queue)
      BY DEF QueuedAreAwaited
    <3>2. <<r, "score">> \in Jobs
      BY DEF Jobs
    <3> HIDE DEF JobInv, JobTypes
    <3> QED  BY <2>1, <3>1, <3>2, Queued, SMTT(20), ZenonT(60)
  <2>3. queue' = IF ok THEN longer ELSE queue
    BY <1>8 DEF LoadReturns
  <2> HIDE DEF longer
  <2>4. /\ threads' = threads \ {<<r, "load">>}
        /\ dense' = dense /\ phase' = phase /\ lock' = None
        /\ sparse' = [sparse EXCEPT ![r] = IF ok THEN "score" ELSE "error"]
    BY <1>8 DEF LoadReturns
  <2>5. JobTypes'
    <3>1. CorpusOf[r] \in Corpora
      BY HybridAssumption
    <3>2. index' \subseteq Corpora
      BY <1>8, <3>1 DEF LoadReturns
    <3>3. loads' \in [Corpora -> Nat]
      <4> DEFINE c == CorpusOf[r]
                 n == IF ok /\ c \notin index THEN loads[c] + 1 ELSE loads[c]
      <4>1. n \in Nat
        BY <3>1
      <4>2. loads' = [loads EXCEPT ![c] = n]
        BY <1>8 DEF LoadReturns
      <4> HIDE DEF n
      <4> QED  BY <4>1, <4>2
    <3>4. sparse' \in [Retrieval -> SparseStates]
      BY <2>4 DEF SparseStates, Ends
    <3>5. queue' \in Seq(Jobs)
      BY <2>2, <2>3
    <3> QED  BY <2>4, <3>2, <3>3, <3>4, <3>5
  <2>6. ModesFollowPhase'
    BY <2>1, <2>4 DEF ModesFollowPhase, Ends
  <2>7. QueuedAreAwaited'
    BY <2>1, <2>2, <2>3, <2>4 DEF QueuedAreAwaited
  <2>8. RunningWereStarted'
    BY <2>1, <2>4, HybridAssumption, SMTT(20), ZenonT(60) DEF RunningWereStarted
  <2>9. LoadedIfCached'
    BY <1>8 DEF LoadReturns, LoadedIfCached
  <2> QED  BY <2>5, <2>6, <2>7, <2>8, <2>9
<1>9. ASSUME NEW r \in Retrieval, NEW ok \in BOOLEAN, ScoreReturns(r, ok) PROVE JobInv'
  <2>1. sparse' \in [Retrieval -> SparseStates]
    BY <1>9 DEF ScoreReturns, SparseStates, Ends
  <2>2. <<r, "score">> \notin Range(queue)
    BY <1>9 DEF ScoreReturns, QueuedAreAwaited
  <2>3. ModesFollowPhase'
    BY <1>9 DEF ScoreReturns, ModesFollowPhase, Ends
  <2>4. QueuedAreAwaited'
    BY <1>9, <2>2 DEF ScoreReturns, QueuedAreAwaited
  <2>5. RunningWereStarted'
    BY <1>9 DEF ScoreReturns, RunningWereStarted
  <2> QED  BY <1>9, <2>1, <2>3, <2>4, <2>5 DEF ScoreReturns, LoadedIfCached
<1>10. ASSUME NEW r \in Retrieval, EmbedTimesOut(r) PROVE JobInv'
  <2>1. queue' \in Seq(Jobs) /\ Distinct(queue') /\ Range(queue') = Range(queue) \ {<<r, dense[r]>>}
    BY <1>10, AbandonRemoves DEF EmbedTimesOut
  <2>2. /\ dense[r] \in {"embed", "embed again"}
        /\ dense' = [dense EXCEPT ![r] = IF @ = "embed" THEN "backoff" ELSE "error"]
        /\ sparse' = sparse /\ phase' = phase
        /\ threads' = threads /\ lock' = lock /\ index' = index /\ loads' = loads
    BY <1>10 DEF EmbedTimesOut, Abandon
  <2>3. JobTypes'
    BY <2>1, <2>2 DEF DenseStates, Ends
  <2>4. ModesFollowPhase'
    BY <2>2 DEF ModesFollowPhase, Ends
  <2>5. QueuedAreAwaited'
    BY <2>1, <2>2 DEF QueuedAreAwaited
  <2>6. RunningWereStarted'
    BY <2>2 DEF RunningWereStarted
  <2> QED  BY <2>2, <2>3, <2>4, <2>5, <2>6 DEF LoadedIfCached
<1>11. ASSUME NEW r \in Retrieval, EmbedAgain(r) PROVE JobInv'
  <2>1. /\ dense[r] = "backoff"
        /\ <<r, "embed again">> \notin Range(queue) /\ <<r, "embed again">> \notin threads
    BY <1>11 DEF EmbedAgain, QueuedAreAwaited, RunningWereStarted
  <2> DEFINE longer == Append(queue, <<r, "embed again">>)
  <2>2. /\ longer \in Seq(Jobs) /\ Distinct(longer)
        /\ Range(longer) = Range(queue) \cup {<<r, "embed again">>}
    <3>1. queue \in Seq(Jobs) /\ Distinct(queue)
      BY DEF QueuedAreAwaited
    <3>2. <<r, "embed again">> \in Jobs
      BY DEF Jobs
    <3> HIDE DEF JobInv, JobTypes
    <3> QED  BY <2>1, <3>1, <3>2, Queued, SMTT(20), ZenonT(60)
  <2>3. queue' = longer
    BY <1>11 DEF EmbedAgain
  <2> HIDE DEF longer
  <2>4. /\ dense' = [dense EXCEPT ![r] = "embed again"]
        /\ sparse' = sparse /\ phase' = phase
        /\ threads' = threads /\ lock' = lock /\ index' = index /\ loads' = loads
    BY <1>11 DEF EmbedAgain
  <2>5. JobTypes'
    BY <2>2, <2>3, <2>4 DEF DenseStates
  <2>6. ModesFollowPhase'
    BY <2>1, <2>4 DEF ModesFollowPhase, Ends
  <2>7. QueuedAreAwaited'
    BY <2>1, <2>2, <2>3, <2>4 DEF QueuedAreAwaited
  <2>8. RunningWereStarted'
    BY <2>1, <2>4 DEF RunningWereStarted
  <2> QED  BY <2>4, <2>5, <2>6, <2>7, <2>8 DEF LoadedIfCached
<1>12. ASSUME NEW r \in Retrieval, NEW end \in Ends, QueryEnds(r, end) PROVE JobInv'
  <2>1. /\ dense[r] = "query" /\ dense' = [dense EXCEPT ![r] = end]
        /\ sparse' = sparse /\ phase' = phase /\ queue' = queue
        /\ threads' = threads /\ lock' = lock /\ index' = index /\ loads' = loads
    BY <1>12 DEF QueryEnds, pool
  <2>2. JobTypes'
    BY <2>1 DEF DenseStates
  <2>3. ModesFollowPhase'
    BY <2>1 DEF ModesFollowPhase, Ends
  <2>4. QueuedAreAwaited'
    BY <2>1 DEF QueuedAreAwaited
  <2>5. RunningWereStarted'
    BY <2>1 DEF RunningWereStarted, Ends
  <2> QED  BY <2>1, <2>2, <2>3, <2>4, <2>5 DEF LoadedIfCached
<1>13. ASSUME NEW r \in Retrieval, ScoreTimesOut(r) PROVE JobInv'
  <2>1. queue' \in Seq(Jobs) /\ Distinct(queue') /\ Range(queue') = Range(queue) \ {<<r, "score">>}
    BY <1>13, AbandonRemoves DEF ScoreTimesOut
  <2>2. /\ sparse[r] = "score" /\ sparse' = [sparse EXCEPT ![r] = "error"]
        /\ dense' = dense /\ phase' = phase
        /\ threads' = threads /\ lock' = lock /\ index' = index /\ loads' = loads
    BY <1>13 DEF ScoreTimesOut, Abandon
  <2>3. JobTypes'
    BY <2>1, <2>2 DEF SparseStates, Ends
  <2>4. ModesFollowPhase'
    BY <2>2 DEF ModesFollowPhase, Ends
  <2>5. QueuedAreAwaited'
    BY <2>1, <2>2 DEF QueuedAreAwaited
  <2>6. RunningWereStarted'
    BY <2>2 DEF RunningWereStarted
  <2> QED  BY <2>2, <2>3, <2>4, <2>5, <2>6 DEF LoadedIfCached
<1>14. CASE UNCHANGED vars
  BY <1>14 DEF vars, modes, pool, ModesFollowPhase, QueuedAreAwaited, RunningWereStarted, LoadedIfCached
<1> HIDE DEF JobInv, JobTypes
<1> QED
  BY <1>1, <1>2, <1>3, <1>4, <1>5, <1>6, <1>7, <1>8, <1>9, <1>10, <1>11, <1>12, <1>13, <1>14
  DEF Next, Progress, RetrievalStep, ThreadStep

(***************************************************************************)
(* What follows                                                            *)
(***************************************************************************)

\* Both hold in every state that can be reached.
LEMMA Invariants == Spec => [](PermitInv /\ JobInv)
<1>1. Init => PermitInv /\ JobInv
  BY PermitInit, JobInit
<1>2. PermitInv /\ JobInv /\ [Next]_vars => (PermitInv /\ JobInv)'
  BY PermitStep, JobStep
<1> QED  BY <1>1, <1>2, PTL DEF Spec

\* Every variable keeps its type; in particular the semaphore never has more
\* permits than MAX_CONCURRENT_RETRIEVALS (its counter in retrieve()).
THEOREM TypesAreKept == Spec => []TypeOK
<1>1. ASSUME PermitInv, JobInv PROVE TypeOK
  <2>1. permits \in 0..MAX_CONCURRENT_RETRIEVALS
    BY <1>1, SearchingCounts, HybridAssumption DEF PermitInv, PermitsBalance
  <2> QED  BY <1>1, <2>1 DEF TypeOK, PermitInv, JobInv, JobTypes
<1> QED  BY <1>1, Invariants, PTL

\* SparseIndexRegistry.get reads a corpus's index from disk once, for any number of
\* retrievals that ask for it at the same time.
THEOREM IndexLoadedOnce == Spec => []LoadedOnce
<1>1. JobInv => LoadedOnce
  BY DEF JobInv, LoadedIfCached, LoadedOnce
<1> QED  BY <1>1, Invariants, PTL

\* What wait_for gives up leaves the executor's queue: a queued job is always
\* awaited by a retrieval that holds a permit.
THEOREM QueueHoldsNoAbandoned == Spec => []NothingAbandonedIsQueued
<1>1. ASSUME PermitInv, JobInv PROVE NothingAbandonedIsQueued
  <2>1. SUFFICES ASSUME NEW i \in DOMAIN queue
                 PROVE  /\ phase[queue[i][1]] = "searching"
                        /\ queue[i][2] \in {dense[queue[i][1]], sparse[queue[i][1]]}
    BY DEF NothingAbandonedIsQueued
  <2>2. queue[i] \in Jobs /\ queue[i] \in Range(queue)
    BY <1>1 DEF JobInv, JobTypes, Range
  <2> DEFINE r == queue[i][1]
             job == queue[i][2]
  <2>3. r \in Retrieval /\ job \in {"embed", "embed again", "load", "score"} /\ queue[i] = <<r, job>>
    <3> DEFINE JobNames == {"embed", "embed again", "load", "score"}
    <3>1. \A x \in Retrieval \X JobNames : x[1] \in Retrieval /\ x[2] \in JobNames /\ x = <<x[1], x[2]>>
      <4> HIDE DEF JobNames
      <4> QED  OBVIOUS
    <3> QED  BY <2>2, <3>1 DEF Jobs
  <2>4. <<r, job>> \in Range(queue)
    BY <2>2, <2>3
  <2> HIDE DEF r, job
  <2>5. dense[r] = job \/ sparse[r] = job
    BY <1>1, <2>3, <2>4 DEF JobInv, QueuedAreAwaited
  <2>6. phase[r] = "searching"
    BY <1>1, <2>3, <2>5 DEF PermitInv, JobInv, ModesFollowPhase, Ends
  <2> QED  BY <2>5, <2>6 DEF r, job
<1> QED  BY <1>1, Invariants, PTL

\* The outcome of a mode is final, whatever threads come back after it (_run_mode).
THEOREM EndsStay == Spec => EndsAreFinal
<1> DEFINE Kept == \A r \in Retrieval : /\ dense[r] \in Ends => dense'[r] = dense[r]
                                        /\ sparse[r] \in Ends => sparse'[r] = sparse[r]
<1>1. ASSUME PermitInv, JobInv, [Next]_vars PROVE Kept
  <2> USE <1>1 DEF JobInv, JobTypes, Ends
  <2>1. ASSUME NEW r \in Retrieval, Enter(r) \/ EnterAsNext(r) PROVE Kept
    <3>1. phase[r] \in {"called", "waiting"}
      <4>1. CASE Enter(r)
        BY <4>1 DEF Enter
      <4>2. CASE EnterAsNext(r)
        <5>1. waiters \in Seq(Retrieval) /\ waiters # <<>> /\ waiters[1] = r
          BY <4>2 DEF EnterAsNext, PermitInv
        <5>2. 1 \in 1..Len(waiters)
          BY <5>1
        <5> QED  BY <5>1, <5>2 DEF PermitInv
      <4> QED  BY <2>1, <4>1, <4>2
    <3>2. dense[r] = "idle" /\ sparse[r] = "idle"
      BY <3>1 DEF ModesFollowPhase
    <3> QED  BY <2>1, <3>2 DEF Enter, EnterAsNext, StartModes
  <2>2. ASSUME NEW r \in Retrieval, NEW ok \in BOOLEAN,
               LoadReturns(r, ok) \/ ScoreReturns(r, ok) PROVE Kept
    <3>1. LoadReturns(r, ok) => sparse[r] = "load"
      BY DEF LoadReturns, RunningWereStarted
    <3> QED  BY <2>2, <3>1 DEF LoadReturns, ScoreReturns
  <2>3. ASSUME NEW r \in Retrieval, NEW job \in {"embed", "embed again"}, NEW ok \in BOOLEAN,
               EmbedReturns(r, job, ok)
        PROVE  Kept
    BY <2>3 DEF EmbedReturns, DenseGoesOn
  <2>4. ASSUME NEW r \in Retrieval, EmbedTimesOut(r) \/ EmbedAgain(r) \/ ScoreTimesOut(r) PROVE Kept
    BY <2>4 DEF EmbedTimesOut, EmbedAgain, ScoreTimesOut
  <2>5. ASSUME NEW r \in Retrieval, NEW end \in Ends, QueryEnds(r, end) PROVE Kept
    BY <2>5 DEF QueryEnds
  <2>6. CASE UNCHANGED modes
    BY <2>6 DEF modes
  <2>7. \/ \E r \in Retrieval : Enter(r) \/ EnterAsNext(r)
        \/ \E r \in Retrieval, ok \in BOOLEAN : LoadReturns(r, ok) \/ ScoreReturns(r, ok)
        \/ \E r \in Retrieval, job \in {"embed", "embed again"}, ok \in BOOLEAN : EmbedReturns(r, job, ok)
        \/ \E r \in Retrieval : EmbedTimesOut(r) \/ EmbedAgain(r) \/ ScoreTimesOut(r)
        \/ \E r \in Retrieval, end \in Ends : QueryEnds(r, end)
        \/ UNCHANGED modes
    <3> HIDE DEF JobInv, JobTypes, Ends
    <3> QED  BY <1>1 DEF Next, Progress, RetrievalStep, ThreadStep, vars, Dispatch, Fuse, Take, TakeLock,
                WaitForPermit, Return
  <2> HIDE DEF Kept, JobInv, JobTypes, Ends
  <2> QED  BY <2>1, <2>2, <2>3, <2>4, <2>5, <2>6, <2>7
<1>2. Spec => [][Kept]_vars
  BY <1>1, Invariants, PTL DEF Spec
<1> QED  BY <1>2 DEF EndsAreFinal

=============================================================================
