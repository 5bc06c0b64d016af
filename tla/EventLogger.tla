----------------------------- MODULE EventLogger -----------------------------
(***************************************************************************)
(* EventLogger (src/app/telemetry/event_logger.py): the in-memory queue    *)
(* every stage's events go through, the background task that writes it to  *)
(* SQLite in batches, the GET /session/{id}/events requests that flush and *)
(* query on demand, and stop() at the end of the process.                  *)
(*                                                                         *)
(* The event loop is one thread: the code between two awaits is a step.    *)
(* A batch is inserted by a thread of the pool, under db_lock: a step too, *)
(* of its own, at any time after the batch was handed over.  Sessions and  *)
(* filters only select from what is modelled here, and are left out.       *)
(***************************************************************************)
EXTENDS Integers, Sequences, Functions

CONSTANTS
    Readers,  \* the requests that may be replaying events at one time
    MaxEvents \* bound: events emitted in the life of the process

ASSUME ReadersAssumption == Readers \cap {"run", "stop"} = {}
ASSUME MaxEventsAssumption == MaxEvents \in Nat

VARIABLES
    queue,    \* self._queue
    rows,     \* the table telemetry_events, in rowid order
    conn,     \* self._conn: "none", "open", or "closed" by stop
    run,      \* the background task: "connecting", "running", "ended"
    stopping, \* stop(): "no", "flush", "close", "done"
    pc,       \* pc[r]: a request is "idle", or at its "flush" or its "query"
    batch,    \* batch[w]: what writer w drained and a thread is to insert
    lost,     \* events that were drained but never written
    emitted,  \* number of events emitted
    now,      \* timestamp of the last event
    awaited,  \* was the queue drained since then?
    asked     \* asked[r]: how many events had been emitted when r came in

vars == <<queue, rows, conn, run, stopping, pc, batch, lost, emitted, now,
          awaited, asked>>
eventVars == <<emitted, now, asked>>

Writers == Readers \cup {"run", "stop"}

\* An event is its place in the order of emission and its timestamp.
Events == [no : 1..MaxEvents, time : 0..MaxEvents]

TypeOK ==
    /\ queue \in Seq(Events)
    /\ rows \in Seq(Events)
    /\ conn \in {"none", "open", "closed"}
    /\ run \in {"connecting", "running", "ended"}
    /\ stopping \in {"no", "flush", "close", "done"}
    /\ pc \in [Readers -> {"idle", "flush", "query"}]
    /\ batch \in [Writers -> Seq(Events)]
    /\ lost \subseteq Events
    /\ emitted \in 0..MaxEvents
    /\ now \in 0..MaxEvents
    /\ awaited \in BOOLEAN
    /\ asked \in [Readers -> 0..MaxEvents]

Init ==
    /\ queue = <<>>
    /\ rows = <<>>
    /\ conn = "none"
    /\ run = "connecting"
    /\ stopping = "no"
    /\ pc = [r \in Readers |-> "idle"]
    /\ batch = [w \in Writers |-> <<>>]
    /\ lost = {}
    /\ emitted = 0
    /\ now = 0
    /\ awaited = FALSE
    /\ asked = [r \in Readers |-> 0]

-----------------------------------------------------------------------------
\* What datetime.now may read for the next event: two events emitted without
\* an await between them may share a microsecond, others do not.
Timestamps == IF awaited THEN {now + 1} ELSE {now, now + 1}

\* sink(): put_nowait on an unbounded queue.
Sink ==
    /\ stopping # "done"
    /\ emitted < MaxEvents
    /\ emitted' = emitted + 1
    /\ now' \in Timestamps
    /\ queue' = Append(queue, [no |-> emitted', time |-> now'])
    /\ awaited' = FALSE
    /\ UNCHANGED <<rows, conn, run, stopping, pc, batch, lost, asked>>

\* _run's first await: _connect succeeds, or fails and leaves no connection.
Connect ==
    /\ run = "connecting"
    /\ run' = "running"
    /\ conn' \in {"open", "none"}
    /\ UNCHANGED <<queue, rows, stopping, pc, batch, lost, awaited, eventVars>>

\* Mutant: the drained events are still queued if there is no connection.
FlushKeepsQueue(w) ==
    /\ batch[w] = <<>>
    /\ awaited' = TRUE
    /\ queue' = IF conn = "none" THEN queue ELSE <<>>
    /\ IF conn = "none"
         THEN lost' = lost \cup Range(queue) /\ UNCHANGED batch
         ELSE batch' = [batch EXCEPT ![w] = queue] /\ UNCHANGED lost

\* _flush_pending up to its await: the queue is drained before the connection
\* is looked at, so without one the drained events are gone.
FlushPending(w) ==
    /\ batch[w] = <<>>
    /\ awaited' = TRUE
    /\ queue' = <<>>
    /\ IF conn = "none"
         THEN lost' = lost \cup Range(queue) /\ UNCHANGED batch
         ELSE batch' = [batch EXCEPT ![w] = queue] /\ UNCHANGED lost

\* Mutant: the task only runs on with a connection.
TimerFlushConnected ==
    /\ run = "running" /\ conn = "open"
    /\ queue # <<>>
    /\ FlushPending("run")
    /\ UNCHANGED <<rows, conn, run, stopping, pc, eventVars>>

\* The background task's timer; it waits for its own insert to end.
TimerFlush ==
    /\ run = "running"
    /\ queue # <<>>
    /\ FlushPending("run")
    /\ UNCHANGED <<rows, conn, run, stopping, pc, eventVars>>

\* _insert_batch in its thread, under db_lock.
Insert(w) ==
    /\ batch[w] # <<>>
    /\ conn = "open"
    /\ rows' = rows \o batch[w]
    /\ batch' = [batch EXCEPT ![w] = <<>>]
    /\ UNCHANGED <<queue, conn, run, stopping, pc, lost, awaited, eventVars>>

\* SQLite raises, at the latest because stop closed the connection before: the
\* rows before the failing one stay, there is no rollback, the rest is lost.
InsertFails(w) ==
    /\ batch[w] # <<>>
    /\ \E n \in 0..(IF conn = "open" THEN Len(batch[w]) - 1 ELSE 0) :
         /\ rows' = rows \o SubSeq(batch[w], 1, n)
         /\ lost' = lost \cup Range(SubSeq(batch[w], n + 1, Len(batch[w])))
    /\ batch' = [batch EXCEPT ![w] = <<>>]
    /\ UNCHANGED <<queue, conn, run, stopping, pc, awaited, eventVars>>

-----------------------------------------------------------------------------
(* GET /session/{id}/events *)

Request(r) ==
    /\ pc[r] = "idle"
    /\ stopping = "no"
    /\ pc' = [pc EXCEPT ![r] = "flush"]
    /\ asked' = [asked EXCEPT ![r] = emitted]
    /\ UNCHANGED <<queue, rows, conn, run, stopping, batch, lost, emitted, now, awaited>>

\* Mutant: no flush while the timer's batch is being written.
FlushUnlessWriting(r) ==
    /\ pc[r] = "flush"
    /\ IF batch["run"] = <<>> THEN FlushPending(r)
                              ELSE UNCHANGED <<queue, batch, lost, awaited>>
    /\ pc' = [pc EXCEPT ![r] = "query"]
    /\ UNCHANGED <<rows, conn, run, stopping, eventVars>>

\* flush(): _wait_connected gives up after two seconds, so a connection still
\* being made counts as none.
Flush(r) ==
    /\ pc[r] = "flush"
    /\ FlushPending(r)
    /\ pc' = [pc EXCEPT ![r] = "query"]
    /\ UNCHANGED <<rows, conn, run, stopping, eventVars>>

\* query() once flush() has awaited its insert; the rows it returns are those
\* of the table (none without a connection), in ReplayBefore order.
Query(r) ==
    /\ pc[r] = "query"
    /\ batch[r] = <<>>
    /\ pc' = [pc EXCEPT ![r] = "idle"]
    /\ asked' = [asked EXCEPT ![r] = 0]
    /\ UNCHANGED <<queue, rows, conn, run, stopping, batch, lost, emitted, now, awaited>>

\* Mutant: ORDER BY rowid.
RowBefore(i, j) == i < j

\* ORDER BY timestamp ASC, rowid ASC.
ReplayBefore(i, j) ==
    \/ rows[i].time < rows[j].time
    \/ rows[i].time = rows[j].time /\ i < j

-----------------------------------------------------------------------------
(* stop(), once the server has no request left.  Cancelling the background *)
(* task does not stop a thread that already runs, but takes a batch out of *)
(* the pool's queue whose thread has not started.                          *)

Stop ==
    /\ stopping = "no"
    /\ \A r \in Readers : pc[r] = "idle"
    /\ stopping' = "flush"
    /\ run' = "ended"
    /\ \/ UNCHANGED <<batch, lost>>
       \/ /\ batch["run"] # <<>>
          /\ batch' = [batch EXCEPT !["run"] = <<>>]
          /\ lost' = lost \cup Range(batch["run"])
    /\ UNCHANGED <<queue, rows, conn, pc, awaited, eventVars>>

StopFlush ==
    /\ stopping = "flush"
    /\ FlushPending("stop")
    /\ stopping' = "close"
    /\ UNCHANGED <<rows, conn, run, pc, eventVars>>

StopClose ==
    /\ stopping = "close"
    /\ batch["stop"] = <<>>
    /\ stopping' = "done"
    /\ conn' = IF conn = "open" THEN "closed" ELSE conn
    /\ UNCHANGED <<queue, rows, run, pc, batch, lost, awaited, eventVars>>

Next ==
    \/ Sink
    \/ Connect
    \/ TimerFlush
    \/ \E w \in Writers : Insert(w) \/ InsertFails(w)
    \/ \E r \in Readers : Request(r) \/ Flush(r) \/ Query(r)
    \/ Stop \/ StopFlush \/ StopClose

Spec == Init /\ [][Next]_vars

\* The event loop serves every timer and the pool every thread; requests, new
\* events and the end of the process are up to the environment.
Fairness ==
    /\ WF_vars(Connect)
    /\ WF_vars(TimerFlush)
    /\ \A w \in Writers : WF_vars(Insert(w) \/ InsertFails(w))
    /\ \A r \in Readers : WF_vars(Flush(r)) /\ WF_vars(Query(r))
    /\ WF_vars(StopFlush) /\ WF_vars(StopClose)

FairSpec == Spec /\ Fairness

-----------------------------------------------------------------------------
(* Properties *)

Numbers(s) == {s[i].no : i \in DOMAIN s}
InFlight == UNION {Numbers(batch[w]) : w \in Writers}
LostNumbers == {e.no : e \in lost}

\* An event is queued, with exactly one writer, in the table once, or lost: no
\* event is written twice or forgotten, although several coroutines drain one
\* queue and threads outlive the task that started them.
EveryEventAccountedFor ==
    /\ Numbers(queue) \cup InFlight \cup Numbers(rows) \cup LostNumbers = 1..emitted
    /\ IsInjective(rows)
    /\ Numbers(queue) \cap (InFlight \cup Numbers(rows) \cup LostNumbers) = {}
    /\ InFlight \cap (Numbers(rows) \cup LostNumbers) = {}
    /\ Numbers(rows) \cap LostNumbers = {}
    /\ \A v, w \in Writers : v # w => Numbers(batch[v]) \cap Numbers(batch[w]) = {}

\* REQ-OBS-03: a replay is in the order of emission, although the batches of
\* the timer and of requests reach the table in any order.
ReplayInOrder ==
    \A i, j \in DOMAIN rows : ReplayBefore(i, j) => rows[i].no < rows[j].no

\* When a request queries, an event emitted before it came in is in the table
\* unless it was lost or another writer still has it in a batch.
OwnFlushIsVisible ==
    \A r \in Readers : pc[r] = "query" /\ batch[r] = <<>> =>
        1..asked[r] \subseteq Numbers(rows) \cup LostNumbers \cup InFlight

\* Every event emitted before stop is called reaches the table or is given up:
\* none stays in the queue or with a writer for good.
EventSettles ==
    \A n \in 1..MaxEvents :
        (emitted >= n /\ stopping = "no") ~> (n \in Numbers(rows) \cup LostNumbers)

=============================================================================
