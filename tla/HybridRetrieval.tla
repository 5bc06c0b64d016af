--------------------------- MODULE HybridRetrieval ---------------------------
(***************************************************************************)
(* The retrievals of a turn (_dispatch_and_fuse in                         *)
(* src/app/controller/retrieval_controller.py, HybridRetriever in          *)
(* src/app/retrieval/hybrid.py): one retrieval per sub-query, all at once, *)
(* each in two concurrent modes, under a semaphore that all sessions share.*)
(* The modes embed, load and score in threads of the process's one pool;   *)
(* who awaits a thread may give up, the thread goes on.                    *)
(***************************************************************************)
EXTENDS Integers, Sequences, FiniteSets, Functions

CONSTANTS
    Turns,                      \* turns that retrieve, of any sessions
    Retrievals,                 \* of each turn, its sub-queries' retrievals in their order
    Corpora, CorpusOf,          \* corpora, and the one each retrieval asks
    MAX_CONCURRENT_RETRIEVALS,  \* Settings
    POOL_SIZE,                  \* threads of the event loop's default executor
    None

Retrieval == UNION {Range(Retrievals[t]) : t \in Turns}

ASSUME HybridAssumption ==
    /\ DOMAIN Retrievals = Turns
    /\ \A t, u \in Turns : \A i \in DOMAIN Retrievals[t], j \in DOMAIN Retrievals[u] :
         Retrievals[t][i] = Retrievals[u][j] => t = u /\ i = j
    /\ CorpusOf \in [Retrieval -> Corpora]
    /\ MAX_CONCURRENT_RETRIEVALS \in Nat \ {0}
    /\ POOL_SIZE \in Nat \ {0}
    /\ IsFiniteSet(Retrieval)
    /\ None \notin Retrieval

VARIABLES
    turn,       \* per turn: "idle", "gathering", "fused"
    phase,      \* per retrieval: "idle", "called", "waiting", "searching", "returned"
    permits,    \* of the semaphore
    waiters,    \* retrievals that wait for one, in their order
    dense,      \* per retrieval, what its dense mode awaits, or how it ended
    sparse,     \* the same of its sparse mode
    queue,      \* jobs that no thread has taken yet
    threads,    \* jobs that a thread is at
    lock,       \* the retrieval whose load job holds SparseIndexRegistry._lock, or None
    index,      \* corpora in SparseIndexRegistry._indexes
    loads       \* per corpus, how often its index was read from disk

modes == <<dense, sparse>>
pool == <<queue, threads, lock, index, loads>>
vars == <<turn, phase, permits, waiters, modes, pool>>

\* A timeout and an exception differ in the text of the error only.
Ends == {"hits", "error"}
DenseStates == {"idle", "embed", "backoff", "embed again", "query"} \cup Ends
SparseStates == {"idle", "load", "score"} \cup Ends
Jobs == Retrieval \X {"embed", "embed again", "load", "score"}

\* Type invariant
TypeOK ==
    /\ turn \in [Turns -> {"idle", "gathering", "fused"}]
    /\ phase \in [Retrieval -> {"idle", "called", "waiting", "searching", "returned"}]
    /\ permits \in 0..MAX_CONCURRENT_RETRIEVALS
    /\ waiters \in Seq(Retrieval)
    /\ dense \in [Retrieval -> DenseStates]
    /\ sparse \in [Retrieval -> SparseStates]
    /\ queue \in Seq(Jobs)
    /\ threads \subseteq Jobs
    /\ lock \in Retrieval \cup {None}
    /\ index \subseteq Corpora
    /\ loads \in [Corpora -> Nat]

Init ==
    /\ turn = [t \in Turns |-> "idle"]
    /\ phase = [r \in Retrieval |-> "idle"]
    /\ permits = MAX_CONCURRENT_RETRIEVALS
    /\ waiters = <<>>
    /\ dense = [r \in Retrieval |-> "idle"]
    /\ sparse = [r \in Retrieval |-> "idle"]
    /\ queue = <<>>
    /\ threads = {}
    /\ lock = None
    /\ index = {}
    /\ loads = [c \in Corpora |-> 0]

-----------------------------------------------------------------------------
(* A turn and its retrievals *)

\* gather over retriever.retrieve: a task for every sub-query.
Dispatch(t) ==
    /\ turn[t] = "idle"
    /\ turn' = [turn EXCEPT ![t] = "gathering"]
    /\ phase' = [r \in Retrieval |-> IF r \in Range(Retrievals[t]) THEN "called" ELSE phase[r]]
    /\ UNCHANGED <<permits, waiters, modes, pool>>

\* The task runs up to its first await; the tasks of a turn do so in their order.
First(r) ==
    \A t \in Turns : \A i, j \in DOMAIN Retrievals[t] :
        r = Retrievals[t][j] /\ i < j => phase[Retrievals[t][i]] # "called"

\* Both modes are started: _run_mode emits RETRIEVAL_STARTED and awaits its search,
\* which begins with a thread that embeds the query and one that gets the index.
StartModes(r) ==
    /\ dense' = [dense EXCEPT ![r] = "embed"]
    /\ sparse' = [sparse EXCEPT ![r] = "load"]
    /\ queue' = Append(Append(queue, <<r, "embed">>), <<r, "load">>)
    /\ UNCHANGED <<threads, lock, index, loads>>

Enter(r) ==
    /\ phase[r] = "called" /\ First(r)
    /\ permits > 0 /\ waiters = <<>>
    /\ permits' = permits - 1
    /\ phase' = [phase EXCEPT ![r] = "searching"]
    /\ StartModes(r)
    /\ UNCHANGED <<turn, waiters>>

WaitForPermit(r) ==
    /\ phase[r] = "called" /\ First(r)
    /\ permits = 0 \/ waiters # <<>>
    /\ waiters' = Append(waiters, r)
    /\ phase' = [phase EXCEPT ![r] = "waiting"]
    /\ UNCHANGED <<turn, permits, modes, pool>>

\* A released permit wakes the first that waits.
EnterAsNext(r) ==
    /\ waiters # <<>> /\ r = Head(waiters)
    /\ permits > 0
    /\ permits' = permits - 1
    /\ waiters' = Tail(waiters)
    /\ phase' = [phase EXCEPT ![r] = "searching"]
    /\ StartModes(r)
    /\ UNCHANGED turn

\* Mutant: a retrieval with a failed mode does not give back its permit.
KeepPermit(r) ==
    /\ phase[r] = "searching"
    /\ dense[r] \in Ends /\ sparse[r] \in Ends
    /\ phase' = [phase EXCEPT ![r] = "returned"]
    /\ permits' = IF "error" \in {dense[r], sparse[r]} THEN permits ELSE permits + 1
    /\ UNCHANGED <<turn, waiters, modes, pool>>

\* Both modes have ended, one way or another: the RetrievalResult.
Return(r) ==
    /\ phase[r] = "searching"
    /\ dense[r] \in Ends /\ sparse[r] \in Ends
    /\ phase' = [phase EXCEPT ![r] = "returned"]
    /\ permits' = permits + 1
    /\ UNCHANGED <<turn, waiters, modes, pool>>

\* The results go to _fuse_and_rerank together.
Fuse(t) ==
    /\ turn[t] = "gathering"
    /\ \A r \in Range(Retrievals[t]) : phase[r] = "returned"
    /\ turn' = [turn EXCEPT ![t] = "fused"]
    /\ UNCHANGED <<phase, permits, waiters, modes, pool>>

-----------------------------------------------------------------------------
(* The pool *)

\* A thread takes the oldest job.
Take ==
    /\ queue # <<>>
    /\ Cardinality(threads) < POOL_SIZE
    /\ threads' = threads \cup {Head(queue)}
    /\ queue' = Tail(queue)
    /\ UNCHANGED <<turn, phase, permits, waiters, modes, lock, index, loads>>

\* The thread of a load job gets the registry's lock.
TakeLock(r) ==
    /\ <<r, "load">> \in threads
    /\ lock = None
    /\ lock' = r
    /\ UNCHANGED <<turn, phase, permits, waiters, modes, queue, threads, index, loads>>

\* Mutant: a job's outcome is taken whether or not the mode still awaits it.
DenseGoesOnAnyway(r, job, outcome) == dense' = [dense EXCEPT ![r] = outcome]

\* What the awaiting mode does when a job of it is over; if it has given up on
\* it, nothing.
DenseGoesOn(r, job, outcome) ==
    dense' = IF dense[r] = job THEN [dense EXCEPT ![r] = outcome] ELSE dense

\* embedder.embed returns, or raises: _embed_query tries once more.
EmbedReturns(r, job, ok) ==
    /\ <<r, job>> \in threads /\ job \in {"embed", "embed again"}
    /\ threads' = threads \ {<<r, job>>}
    /\ DenseGoesOn(r, job, IF ok THEN "query" ELSE IF job = "embed" THEN "backoff" ELSE "error")
    /\ UNCHANGED <<turn, phase, permits, waiters, sparse, queue, lock, index, loads>>

\* SparseIndexRegistry.get: from the cache or from disk; a load that raises leaves
\* nothing behind.  search() goes on with the thread that scores.
LoadReturns(r, ok) ==
    LET c == CorpusOf[r]
    IN  /\ lock = r
        /\ c \in index => ok
        /\ threads' = threads \ {<<r, "load">>}
        /\ lock' = None
        /\ index' = IF ok THEN index \cup {c} ELSE index
        /\ loads' = [loads EXCEPT ![c] = IF ok /\ c \notin index THEN @ + 1 ELSE @]
        /\ sparse' = [sparse EXCEPT ![r] = IF ok THEN "score" ELSE "error"]
        /\ queue' = IF ok THEN Append(queue, <<r, "score">>) ELSE queue
        /\ UNCHANGED <<turn, phase, permits, waiters, dense>>

ScoreReturns(r, ok) ==
    /\ <<r, "score">> \in threads
    /\ threads' = threads \ {<<r, "score">>}
    /\ sparse' = IF sparse[r] = "score" THEN [sparse EXCEPT ![r] = IF ok THEN "hits" ELSE "error"]
                 ELSE sparse
    /\ UNCHANGED <<turn, phase, permits, waiters, dense, queue, lock, index, loads>>

-----------------------------------------------------------------------------
(* Timeouts and the rest of the modes *)

Without(s, i) == [n \in 1..(Len(s) - 1) |-> s[IF n < i THEN n ELSE n + 1]]

\* wait_for cancels what it awaits: a job no thread has taken is not run.
Abandon(job) ==
    /\ \/ job \notin Range(queue) /\ queue' = queue
       \/ \E i \in DOMAIN queue : queue[i] = job /\ queue' = Without(queue, i)
    /\ UNCHANGED <<threads, lock, index, loads>>

\* Mutant: the embedding is shielded from the timeout, its job stays in the queue.
EmbedShielded(r) ==
    /\ dense[r] \in {"embed", "embed again"}
    /\ dense' = [dense EXCEPT ![r] = IF @ = "embed" THEN "backoff" ELSE "error"]
    /\ UNCHANGED <<turn, phase, permits, waiters, sparse, pool>>

\* EMBEDDING_TIMEOUT_MS, of either attempt
EmbedTimesOut(r) ==
    /\ dense[r] \in {"embed", "embed again"}
    /\ dense' = [dense EXCEPT ![r] = IF @ = "embed" THEN "backoff" ELSE "error"]
    /\ Abandon(<<r, dense[r]>>)
    /\ UNCHANGED <<turn, phase, permits, waiters, sparse>>

EmbedAgain(r) ==
    /\ dense[r] = "backoff"
    /\ dense' = [dense EXCEPT ![r] = "embed again"]
    /\ queue' = Append(queue, <<r, "embed again">>)
    /\ UNCHANGED <<turn, phase, permits, waiters, sparse, threads, lock, index, loads>>

\* search_vector: Qdrant answers, raises, or RETRIEVAL_TIMEOUT_MS passes.
QueryEnds(r, end) ==
    /\ dense[r] = "query"
    /\ dense' = [dense EXCEPT ![r] = end]
    /\ UNCHANGED <<turn, phase, permits, waiters, sparse, pool>>

\* RETRIEVAL_TIMEOUT_MS, of the scoring only
ScoreTimesOut(r) ==
    /\ sparse[r] = "score"
    /\ sparse' = [sparse EXCEPT ![r] = "error"]
    /\ Abandon(<<r, "score">>)
    /\ UNCHANGED <<turn, phase, permits, waiters, dense>>

RetrievalStep(r) ==
    \/ Enter(r) \/ WaitForPermit(r) \/ EnterAsNext(r) \/ Return(r)
    \/ EmbedTimesOut(r) \/ EmbedAgain(r) \/ ScoreTimesOut(r)
    \/ \E end \in Ends : QueryEnds(r, end)

ThreadStep(r) ==
    \/ \E job \in {"embed", "embed again"}, ok \in BOOLEAN : EmbedReturns(r, job, ok)
    \/ \E ok \in BOOLEAN : LoadReturns(r, ok) \/ ScoreReturns(r, ok)

\* What goes on by itself once a turn has begun
Progress ==
    \/ \E t \in Turns : Fuse(t)
    \/ \E r \in Retrieval : RetrievalStep(r) \/ ThreadStep(r) \/ TakeLock(r)
    \/ Take

Next == Progress \/ \E t \in Turns : Dispatch(t)

\* The event loop and the threads do not rest while one of them has something to
\* do: timers go off and calls made in a thread come back.  No step is ever
\* repeated, so it does not matter which of them is next.
Fairness == WF_vars(Progress)

Spec == Init /\ [][Next]_vars /\ Fairness

-----------------------------------------------------------------------------
(* Properties *)

\* The retrievals that hold a permit
Searching == {r \in Retrieval : phase[r] = "searching"}

\* Permits are neither lost nor made up, whichever way the modes of a retrieval
\* end and whatever their threads do afterwards (the semaphore of retrieve()).
PermitsBalance ==
    permits + Cardinality(Searching) = MAX_CONCURRENT_RETRIEVALS

\* The pool's queue holds only jobs that a retrieval under way awaits: those given
\* up by wait_for (_embed_query, SparseIndexRegistry.search) do not pile up in
\* front of others.
NothingAbandonedIsQueued ==
    \A i \in DOMAIN queue :
        LET r == queue[i][1] IN phase[r] = "searching" /\ queue[i][2] \in {dense[r], sparse[r]}

\* However many retrievals ask for a corpus at once, its index is read
\* from disk once (the lock of SparseIndexRegistry.get).
LoadedOnce == \A c \in Corpora : loads[c] <= 1

\* A mode that has ended is never changed by a thread that comes back late, nor
\* by the end of the other mode (_run_mode).
EndsAreFinal ==
    [][\A r \in Retrieval : /\ dense[r] \in Ends => dense'[r] = dense[r]
                            /\ sparse[r] \in Ends => sparse'[r] = sparse[r]]_vars

\* Every turn that retrieves gets its results, as long as threads come back: the
\* retrievals of all turns never wait for each other's permits and threads forever.
TurnEnds == \A t \in Turns : turn[t] = "gathering" ~> turn[t] = "fused"

=============================================================================
