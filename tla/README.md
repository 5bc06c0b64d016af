# Verification of streaming-rag

TLA+ models of streaming-rag: a FastAPI service that receives a live transcript
chunk by chunk over a WebSocket, decides after every chunk whether to retrieve,
and streams grounded answers and telemetry back to a browser. The models are
translated from the Python and TypeScript source; TLC checks them on small
instances, and TLAPS proves the central properties for every value of the
constants.

    tlc -workers 2 -config MCStreamSession.cfg MCStreamSession    # one run
    tlapm StreamSessionProofs.tla                                 # one proof module

`PROJECT.json` lists the runs, the mutants that show each checked property can
fail, the source lines behind every definition, the findings, the hazards and
the theorems.

## 1. The system

### Components

| Component | Source | State it keeps | Operations |
|---|---|---|---|
| Session store | `app/session/session_store.py`, `app/api/session.py` | the sessions, their status and age | `create`, `get` (expires), `touch`, `close`, `mark_connected` |
| Transcript buffer | `SessionRecord.ingest_chunk` | committed chunks, held chunks, next number, start of the reorder clock | commit in order, hold, force, ignore |
| Session stream | `app/api/stream.py` | per socket: handler, outgoing queue, sender task; per session: lock, event log, answer versions | handshake, resync, receive a frame, run a turn, deliver, disconnect |
| Retrieval controller | `app/controller/*`, `app/session/delta_engine.py` | embedding history, entities, wait count, topic, last evidence | `on_chunk`: WAIT, RETRIEVE or NO_RETRIEVAL |
| Decomposition | `app/decomposition/multi_intent.py` | none | `decompose`: propose, validate, merge, fall back |
| Hybrid retrieval | `app/retrieval/hybrid.py`, `dense.py`, `sparse_bm25.py` | index cache and its lock, semaphore, jobs in the thread pool | `retrieve` in two concurrent modes with timeouts |
| Evidence | `app/retrieval/fusion.py`, `app/reranking/cross_encoder.py` | none | fuse, deduplicate, flag contradictions, rerank, cap, truncate |
| Answer generation | `app/generation/*`, `app/grounding/*` | the answer versions | `stream_answer`: sentences, citations, regeneration, commit |
| Event log | `app/telemetry/event_logger.py`, `app/api/events.py` | queue, SQLite table, connection | `sink`, timer flush, `flush`, `query`, `stop` |
| Ingestion | `scripts/ingest_corpus.py` | collection, sparse index, audit copy, manifest | chunk, check what is up to date, upsert, delete stale, replace index, commit |
| Startup | `app/main.py` | background ingestion, warm models, readiness | lifespan, `/ready` |
| Stream client | `frontend/src/api/wsClient.ts`, `useStreamingSession.ts`, the controls | socket, reconnect timer, sequence numbers, phase | start, open, reconnect, send, close |
| Session reducer | `frontend/src/state/sessionReducer.ts`, `AnswerPanel.tsx` | what the page shows | apply an event, a sent chunk, a new session |
| Evaluation | `app/api/evaluate.py`, `benchmarks/` | one flag | one benchmark at a time |

### How they interact

One event loop runs every coroutine; models, indexes and SQLite run in threads
of a pool. A tab makes a session over POST and opens a socket on it. A frame
goes: `stream_endpoint` receives it, takes `record.lock`, calls `ingest_chunk`,
and for every chunk this commits calls `on_chunk` and, if that retrieves
(decomposition, retrievals in parallel, fusion, reranking), `stream_answer`.
All three change the `SessionRecord`. Whatever they emit goes through the
connection's `sink`: to the record's log, to the connection's own queue (a
sender task delivers it, the page's reducer folds it) and to the process-wide
`EventLogger`. What happens outside `record.lock`: the handshake,
`mark_connected`, `SESSION_RESYNC`, error replies to invalid frames, delivery,
and everything of the event logger. Ingestion runs in the starting server and
from the command line, on the same stores.

### What is hard here

* Frames arrive out of order, twice, or never; a reorder window measured in the
  chunks' own offsets decides when to give up.
* Several sockets can be open on one session (a client reconnects before the
  server notices that its old socket is dead). The old handler goes on with its
  turn, its events go to a queue nobody reads.
* Sessions expire under the clients that use them; a client learns of it at the
  next handshake, between two looks at the same record.
* Every backend call of a turn may raise or time out, and the state updates
  made before it stay.
* A mode of a retrieval may give up on a thread; the thread goes on, holding a
  place in the pool, or the index lock.
* The answer's prior version is read before a long generation and used after.
* One queue of events is drained by a timer, by requests and by the shutdown;
  the drained batches are written by threads that a cancelled task does not
  stop.
* A generation's tokens arrive while an earlier sentence is being regenerated;
  the stream may end, raise or stall in mid-sentence at any of these points.
* Being alike is not transitive: sub-queries and chunks that are merged in chains.
* Ingestion writes four stores without a transaction, fails or crashes between
  any two writes, and may run twice at once.
* The page hears the beginnings of turns, over sockets that die.

### What makes each component correct

* Buffer: strictly ascending, nothing twice, nothing held is lost, a hole is
  reported exactly when one is made.
* Stream: turns are serial, every committed chunk has exactly one pass, a
  failing stage costs its chunk only, answer versions form a chain, reconnects
  are resynced once and first, a client's view never goes back.
* Controller: waits are bounded, the entities follow the buffer, one utterance
  is retrieved for once.
* Retrieval: permits balance, an ended mode stays ended, what was given up takes
  no place in the queue, every turn gets its results.
* Decomposition and evidence: every intent is asked once, every sub-query with
  relevant evidence is heard, nothing is said twice, disagreements are flagged,
  better rows come first.
* Generation: the committed text is the streamed text, a claim is published only
  with citations of this turn's evidence that hold, a sentence is replaced rather
  than dropped, a stalled model does not hold the turn.
* Event log: an event is queued, being written, written once, or lost; replay
  is in emission order; nothing waits forever.
* Ingestion: after a completed run the four stores agree, a report is true, no
  phrase of a document is lost between chunks; `/ready` means searchable.
* Client: one live client, a page that tells the truth about its connection,
  chunks held only for one that is lost, no waiting without an end.
* Reducer: the page shows the answers of its session, each once, none mixed with
  another.

## 2. The modules

| Module | What it is |
|---|---|
| `OrderedLog` | abstract specification: a log that grows by whole ascending batches |
| `AnswerLog` | abstract specification: answer versions that are only added, numbered on, each superseding the one before |
| `TranscriptBuffer` | `ingest_chunk` |
| `StreamSession` | extends `TranscriptBuffer` with `stream_endpoint` for several connections |
| `RetrievalController` | `on_chunk` for one session |
| `HybridRetrieval` | the concurrent retrievals of several turns, with the thread pool |
| `EvidencePipeline` | from an utterance over its sub-queries to the evidence |
| `AnswerGeneration` | `stream_answer` with the grounding validator, one session's generations one after the other |
| `SessionReducer` | the page's reducer, pure operators |
| `AnswerPage` | composes `AnswerGeneration` and `SessionReducer`: what a page shows that hears the beginnings of turns |
| `EventLogger` | the event logger, its requests and its shutdown |
| `Chunking` | from a document's lines to chunks, pure operators |
| `Ingestion` | extends `Chunking` with `ingest_corpus`, the command line, the server's startup and the index cache |
| `StreamClient` | a tab's hook and clients against the session store and the handshake |
| `MC...` | the instances TLC checks, of the module behind `MC` (`MCAnswerGeneration` of `AnswerPage`; `EventLogger` needs none) |
| `...Proofs` | theorems and proofs, one module for each of `StreamSession` (with `TranscriptBuffer`), `AnswerGeneration`, `RetrievalController`, `HybridRetrieval`, `EvidencePipeline`, `EventLogger`, `Ingestion`, `StreamClient` |

Definitions marked "Mutant" in a module are plausible bugs of the code next to
them. No specification uses them; each is put in the place of the definition it
stands beside to show that a property notices.

### TranscriptBuffer

`buffer`, `pending`, `nextSeq` and `gapOpenedAt` are the record's `buffer`,
`_pending`, `_next_seq` and `_gap_opened_at_ms`; `committed` and `sequenceGap`
are what the last call returned. A chunk is its number and its offset. `pending`
is the set of the dictionary's values. One action per way out of
`ingest_chunk`: `IgnoreStale`, `CommitInOrder` (with the drain loop, as the set
`RunAfter` of held chunks that follow without a hole), `HoldOutOfOrder`,
`ForceCommit`. That the first call sets `_next_seq` is in `Expected`.

### StreamSession

A step runs from one `await` to the next. `pc[c]` is where connection `c`'s
handler stands: `new`, `accepted`, `receiving`, `waiting` (for the lock),
`controller`, `retrieve`, `answer`, `broken` (the generation raised, its text so
far is still to be committed), `gone`. `lockQueue` is `asyncio.Lock`'s FIFO with
its holder at the head. `BeginTurn` is the lock's acquisition together with
`ingest_chunk` and the gap's ERROR, since nothing is awaited in between. A
pass's inside is reduced to its ways out: a decision not to retrieve, a
retrieval that finds too little, an answer version, an empty answer, or an
exception at any of its awaits; every way out goes through `PassDone`, which
takes the next chunk or releases the lock. `Emit` is the closure `sink`. Of
an event the model keeps its kind, an ERROR's stage, its connection, its
`trace_id`, the answer version it announces and, as a history, the turn that
emitted it. The `trace_id` of what a pass emits is the turn's number (`trace[c]`
in the handler). SESSION_RESYNC and the ERRORs of `_error_event`, of an invalid frame, a gap or a
failed stage, carry a new one (`NewId`), a negative number. `seen[c]` is what
the client of `c` has been told of the answers.

A generation is in this module only as far as it competes with other turns:
`BeginAnswer` reads the prior version, `CommitAnswer` uses what was read.
`AnswerLog` joins it with `AnswerGeneration`: both implement it, here because of
the lock, there because of how the numbers are computed.

### RetrievalController

A chunk is what the decision depends on: an embedding (a model value with a
table of similarities in percent), the slot values it mentions, and three marks.
A pass is one step, because turns are serial (`TurnsDoNotInterleave` and
`PassesFollowBuffer` of `StreamSession`), and the chunks of a turn are in the
buffer before its first pass. Every `return` of `on_chunk` is an action, every
backend call that may raise too: the model keeps the updates the code made
before it. `_retrieve` and `_refine` are reduced to `Dispatch`: new evidence,
the fallback, or an exception, and an answer where there is evidence. `waits`
and `retrievals` count decisions for the properties and guide nothing.

### HybridRetrieval

What `Dispatch` stands for: the retrievals of a turn's sub-queries, gathered,
each under `MAX_CONCURRENT_RETRIEVALS` permits that all sessions share.
`phase[r]` is where `retrieve` stands, `waiters` the semaphore's FIFO,
`dense[r]` and `sparse[r]` what the two modes await or how they ended. A mode
awaits jobs of the pool: `queue` are the jobs no thread has taken, `threads`
those under way. `wait_for` that times out cancels the job if it is still
queued (`Abandon`) and otherwise leaves its thread running, whose return is then
nobody's (`DenseGoesOn`). Loading an index takes `SparseIndexRegistry._lock` in
the thread and is not under a timeout; scoring is. A timeout and an exception
differ in text only and are one end, `"error"`. `loads` is a history.

### EvidencePipeline

One behaviour is one utterance. `decompose` ends in a proposal, the fallback, or
without having been asked; `merge_similar`, `rrf_fuse`, `dedup`,
`flag_contradictions`, `cap_global_evidence` and `truncate_to_token_budget` are
operators under their own names, folds over the rows in the order of the code's
loops, and the steps apply them in `_fuse_and_rerank`'s order. Embeddings
are which texts are alike, symmetric and not transitive; a chunk is its tokens,
entity and numbers; the cross-encoder may give any scores. `ScoreUnit` is a common
multiple of the ranks' denominators, so that reciprocal ranks are integers.
`SortedBy` is Python's stable `sorted` with a negated key, `Those` a list
comprehension with a condition, `UpTo` a slice from the start. Assumed of the
constants: likeness is symmetric, as a cosine is (`TextsAssumption`,
`ChunksAssumption`); a search returns no chunk twice (`ResultsAssumption`); scores
and limits are integers.

### AnswerGeneration

The state is `stream_answer`'s own: `sentences`, `citations`, its text `buffer`
as the whole sentences in it (`closed`) and whether more text follows them
(`fragment`), and the queue of `_stream_with_timeout` (`incoming`) with the
producer's state `llm`. `draft` is the sentence `_finalize_and_emit` has sent
back to the model; the consumer awaits that, or a token (`Awaits`), and only
then the producer runs. `phase` is `streaming` in the token loop and `closing`
after it, however it ended. `TakeSentence` is one round of the inner loop up to
its await, `TakeLeftover` the text that is left at the end, `EndOfStream` and
`StreamTimesOut` the two ways out of the loop with the `except` behind it,
`Regeneration...` the three ways the second call can go. `Commit` and
`EndEmpty` are the two returns, `LackEvidence` the early one.

A sentence is a model value. What the validator sees of it is the table `cites`
(the tags in it, in order) and the table `supports` (the chunks it overlaps with
by `ENTAILMENT_MIN`). `Lookup` is `build_evidence_lookup`: the evidence whose
chunk is among this turn's retrievals, for each tag the best by score (a
tie goes to the first in the evidence, so `rank` is a place, not a score).
`Verdict` is `validate_sentence`. An uncertainty statement stands for its reason.
A citation is two things in the code, and stays two: `citations` and
CITATION_CREATED have its chunk, the committed version has its id
(`CitationIds`, made of the version and the citation's place in it).

`said` is a history: the whole sentences the model streamed. Left out are the
payload's `is_final_sentence`, the first version's text in the regeneration
prompt, and exceptions of the validator itself, which is a pure function of
strings. Time is in ticks, `waited` those of the current `wait_for`.

### SessionReducer and AnswerPage

`SessionReducer` has one operator per event and action of the reducer; the text
of an answer is the sequence of its deltas. `AnswerPage` adds one history
variable to `AnswerGeneration`: where in the log each turn begins, how many
versions there were, and what was reranked for it. From it `TurnEvents` are what the turn's connection was sent,
in order (`StreamSession` shows that a turn's events stand together and go to
one connection). A page hears all of a turn, or a beginning of it and then,
over a new connection, a `SESSION_RESYNC`. `PagesBefore` is every page that may result, of a new tab or one that
showed another session; the property folds the last turn's events into each of
them, event by event. `Cards` is what `AnswerPanel` makes of a page.

### EventLogger

`batch[w]` is what the background task, request `w` or `stop` has drained from
the queue and handed to a thread. `FlushPending` is `_flush_pending` up to its
`await` (drained first, connection looked at after), `Insert` and `InsertFails`
the thread, under `db_lock` and at any later time. `executemany` that raises
leaves the rows before the failing one, there is no rollback. `Timestamps` is
the clock: two events emitted without an `await` between them may share a
microsecond, others do not, and it is not set back.

### Chunking and Ingestion

A document is its lines, a line its kind and tokens (words, which the index can
find, and marks); the operators go from there to sections, paragraphs, windows and
chunks, one fold per loop of the code. What stands between blank lines may be an empty
paragraph, which the code skips and `Pack` leaves as it is. `ingest_corpus` is a
step for every call that writes or may fail: `PrepareCorpus` (with the files of
the up-to-date check), `SkipUnchanged` and `FindOutdated` (its count), `Upsert`
and `DeleteStale` batch by batch, `ScrollStale`, `SaveSparse`, `SaveAudit`,
`SaveManifest`. `Fail` is an exception at any of them, `Crash` the end of the
process, after which a server has lost its memory. The startup stops at the first
corpus that fails, the command line goes on (`GiveUp`). The fingerprint is a
hash of the chunks and stands for them; the embedding model stays the same.
`unfinished` is a history: what runs have begun to write since the last one that
had the corpus to itself to the end. `cache` is the registry's, which a query
fills; `early` marks what may rightly differ from the disk.

### StreamClient

`clients` and `sockets` are all that were ever made, `clientRef` the hook's
client. A callback of the browser is a step. A socket has the browser's state,
the handler's `pc`, and the code it is to close with, on its way from
whoever closed it; the network drops it with the last of the frames on it
(`lost`). `OnClose` is `onclose` with its three ways out. On the server's side:
`Handshake` and `MarkConnected`, each with its own look at the session, which may
have grown too old in between, and `Ingested`, which is `ingest_chunk` for
what a transcript waits for and holds; of offsets it is kept that those of the
demo move on and those of chunks typed by hand are 0.

## 3. The runs

Passing runs:

| Run | Shows |
|---|---|
| `buffer` | all sequences of frames, with any number and any offset (5 numbers, 3 offsets, window 2): the reorder clock runs exactly while chunks are held, nothing held is lost, gaps are reported exactly, and the refinement of `OrderedLog` |
| `session` | two connections alive at once, three frames of four numbers, window 1: one pass per chunk, serial turns and what a `trace_id` selects, one resync per reconnect; the refinement of `AnswerLog` |
| `session_one_client` | a client with at most one working socket that reconnects once, three frames of three numbers, so turns of up to two chunks: its view never goes back, its frames are served, whichever stages fail in a pass before |
| `generation` | two generations of one session, two tokens in all; a model that ends, breaks or stalls anywhere, with regenerations: claims are grounded, nothing said is lost; the page over connections lost anywhere shows the answers' text, with as many citations told as a version has ids |
| `events` | the timer, two requests and the shutdown over three events: every event accounted for, replays in order, flushes visible, nothing pending for good |
| `controller` | six chunks in turns of one or two, `MAX_WAIT_CHUNKS` 2, window 2: bounded waits, current entities, one retrieval a turn |
| `retrieval` | a turn with two retrievals and one with one, two permits, two threads, one index: permits, the queue, ends, and that every turn ends |
| `evidence` | six proposals over five texts, any two-sided results out of five for each sub-query, any scores of three: nothing asked or said twice, nothing relevant unheard |
| `ingestion` | three starts of the server or the command line over two corpora, one edit, one fault anywhere: the stores, the reports, `/ready` and the cache; and the chunks of every document of up to four lines |
| `client` | two calls of `start()`, one dropped socket, one expired session, two chunks by hand and one of the demo: one live client, a true page, chunks held for lost ones only, waiting ends |

Runs that end in a violation, each of a statement the repository makes:

| Run | The code | The statement |
|---|---|---|
| `controller_failed` | a first retrieval that raises leaves `has_retrieved_for_topic` set; the session then waits without bound | WAIT past the limit "forces a decision" (`PRD_TRD.md:110`) |
| `ingestion_reverted` | after a crash behind the upsert of an edit, and the edit's reversal, the check compares marks of the old content and a number of points | "An unchanged corpus is a no-op", the manifest is "written last as the commit marker" (`ingest_corpus.py:7`, `:10`) |

What the models show besides, stated here without a run:

* Resync and delivery. A reconnect during the old socket's turn is resynced to
  the state before it, and that turn's answer goes to the dead socket
  (`wsClient.ts:22` calls the resync "the actual state recovery"). The page keeps
  the beginning of that answer as a draft until the next turn and never shows
  the version.
* Traces. The ERROR of a gap (`stream.py:135`) and of a failed stage
  (`stream.py:158`) come from `_error_event`, which makes a `trace_id` of its own
  (`stream.py:45`): no `?trace_id=` query for the turn returns them, although the
  `trace_id` is said to be "threaded through every event that turn produces"
  (`docs/TELEMETRY.md:20`). What a `trace_id` does select is stated, and proved,
  by `TurnsDoNotInterleave`: two events have one `trace_id` exactly if they are of
  one turn and neither is such an ERROR. The ERROR of a broken generation has the turn's.
* Events. A request's flush misses what the timer drained and has not written
  yet (`api/events.py:33` "already queryable"). A flush that gives up
  waiting for the connection drops the queue (`event_logger.py:146` "nothing is
  lost by connecting lazily").
* Buffer. A chunk dropped as "already committed" (`session_store.py:110`) may be
  one that was given up. The reorder clock of a closed gap goes on for the next
  one, so a chunk can be forced before `reorder_window_ms`.
* Controller. Entities are used up by the unstable pass that first saw them,
  a "stable, actionable entity set persisting" (`PRD_TRD.md:114`) need not retrieve.
* Generation. The timeout starts anew with every token (`streaming_generator.py:247`
  speaks of the whole stream). One supporting chunk among those a sentence cites
  is enough, the others are cited all the same (`PRD_TRD.md:229`). A version's
  `citations` are ids of citations (`streaming_generator.py:370`, `:467`), and
  CITATION_CREATED tells a citation's chunk without its id (`:485`). The page
  files the former as `citationChunkIds` (`sessionReducer.ts:240`), which nothing
  reads. From the events nobody can tell which citations a
  version has; that their numbers agree is all `PageShowsTheAnswers` can say.
* Evidence. Rows that disagree may carry different ids, or an id no other
  row has (`fusion.py:109` "a shared id on every pair"). One of two
  contradicting rows may fall to the cap or the budget (`PRD_TRD.md:189` "both
  retained through truncation"). A sub-query may lose its only row to another's
  duplicate.
* Ingestion. Two processes that ingest different content of a corpus at once
  can leave stores that disagree. An index cached before the startup's ingestion
  is over, or re-ingested from the command line, stays as it was until a
  restart: `invalidate` has no caller. The load of an index is under no timeout.
* Client. A number used up by a send that fails leaves a gap; with chunks typed
  by hand, whose offset is always 0, the server waits for it for good
  (`PRD_TRD.md:90` bounds the window). Nothing moves `last_active_at`, so a
  session lives 1800 s from its creation, not from its last use
  (`PRD_TRD.md:271`). An expiry between the handshake and `mark_connected`
  escapes as an exception; the client reconnects and then sees 4404.
* Reducer. On a turn that lacks evidence, the page's stages RERANK and GROUND stay
  as they are until the next turn. A new session clears the answers only: sub-queries,
  evidence and stages of the old one stay until its first retrieval.

### Bounds, and why they are enough

* `buffer`: the state is finite without a bound on steps. Five numbers allow a
  gap of two, two gaps at once, a frame below the start, and a drain of three;
  offsets need not grow with the numbers. The proofs cover the rest.
* `MaxFrames` (`session`, `session_one_client`) bounds the frames sent, invalid
  ones too. In `session` a frame's offset is its number, and three of the numbers 0
  to 3 over window 1 give a hold, turns of both connections in either order, a
  drain of two chunks (0, 2, 1) and a forced commit of two with the gap's ERROR
  (0, 2, 3). `session_one_client` has the numbers 0 to 2: its longest turn is that
  drain, whose second chunk must get its pass whatever stage of the first fails.
* `Conns`: each is one life of a socket; two suffice for a turn that outlives
  its client beside the reconnect. The proofs are for any set.
* `generation`: `MaxGenerations` 2 for a version that supersedes one and a page
  with something to mix, `MaxTokens` 2 and `MaxEnds` 2 for a token that ends several sentences, one that
  arrives during a regeneration, and a break before, between and after them;
  `TIMEOUT` 1 tick, as the code only compares. The inputs are the interesting
  evidence: less than was retrieved, a tag without its best chunk, and an earlier
  turn's (the fallback of a refinement), of which this turn retrieved another
  part. The sentences are a sound one and one that cites two chunks of which one
  supports it. `MaxSubQueries` bounds the events of `LackEvidence`.
* `MaxEvents` (`events`) 3: one event in each of three writers' hands.
* `MaxChunks` (`controller`) 6 with `MAX_WAIT_CHUNKS` 2: the wait, the forced
  retrieval, a topic, a refinement and a new topic fit into one behaviour
  (`controller_failed`: 5).
* `retrieval`: three retrievals for two permits and two threads, so that one waits
  for a permit, jobs wait for threads, and a thread waits for the index lock.
* `evidence`: texts and chunks that are alike in chains; three rows that
  disagree in turns; more kept rows than `MAX_TOTAL_EVIDENCE` 3 and
  `EVIDENCE_TOKEN_BUDGET` 5, more relevant ones than `FINAL_K` 2, a sub-query with
  four candidates for `RERANK_CANDIDATES` 3 (`e` against `a`, `d` and `f`), scores on
  both sides of `MIN_RELEVANCE`.
* `ingestion`: batches of one chunk put a fault between any two writes.
  `MaxRuns` 3: a run that fails, its repetition, and a server beside one of
  them; `MaxEdits` 1 and `MaxFaults` 1 for a change under way. The sources share a
  chunk, and one is refused. `ingestion_reverted` needs one corpus and no server's memory, but two
  edits. Chunks of 3 tokens that overlap by 1 have windows, a cut title, and a
  paragraph that fills one exactly; seven sorts of lines.
* `client`: `MaxStarts` 2 for an old client beside a new one; `MaxDrops` 1 and
  `MaxOld` 1 for a reconnect and an expiry at every point; `MaxSeq` 2 and
  `DemoChunks` 1 for a chunk that is lost, one that is held for it and one that
  ends the wait.

Symmetry: connections are interchangeable in `session` (a safety run). Views:
`ServerView` leaves out what is queued for clients and what they have seen, on
which no server step depends; `seen` and `queue` are looked at in
`session_one_client`. Its `ClientView` leaves out what neither a step's guard nor its two properties
read: what `ingest_chunk` returned last, the log, the numbers of turns and traces, and of the queued events
all but what they tell of the answers, while their number stays. Every step of the model changes
the view and is enabled alike in states with one view, so liveness under it is
liveness of the model. `ControllerView` keeps of the buffer and the history what a
step or property can still reach.

Deadlock is not checked where a behaviour ends for good: when all frames were
sent and the sockets are gone (`session*`), after the last generation
(`generation`), after `stop` (`events`), at `MaxChunks` (`controller*`), when all
turns have their results (`retrieval`), with the evidence (`evidence`), when
runs, edits and faults are used up (`ingestion*`), and when the tab's sessions
have ended and no start is left (`client`). It is checked in `buffer`.

### Fairness

`StreamSession` has two parts. `Scheduling`: the event loop runs every coroutine that
can go on (`MarkConnected`, `BeginTurn`, `Deliver` for every connection). That
the code guarantees. `CallsReturn`: every `await` in a pass ends (`PassStep`). That
is an assumption. Some awaits have a timeout: the proposal of sub-queries
(`multi_intent.py:493`), the embedding of a query for the dense search
(`dense.py:189`), both searches, each token, the regeneration. Others have none: the
embedding of the utterance (`retrieval_controller.py:114`), suppression (`:119`), extraction (`:132`), the
merging of sub-queries (`multi_intent.py:511`), the threads that fuse, deduplicate,
flag and rerank (`retrieval_controller.py:389` to `:404`), and the load of an index
(`sparse_bm25.py:189`). They are computations on local models and files, and the assumption is
that these end. A token stream that goes on for ever is excluded by it, too: the
timeout is per token, so such a stream does hold the turn and every frame behind
it. Clients are not fair: they need not send, connect or leave. The lock needs no
fairness of its own, it is FIFO.

`HybridRetrieval`: the event loop and the threads together do not rest
(`WF(Progress)`): timers go off, calls made in a thread come back. No step is ever
repeated, so which of them is next does not matter. A search of Qdrant is under a
timeout; the load of an index is not, that it ends is an assumption about the disk.

`AnswerGeneration`: the consumer runs whenever it can go on, and time passes for
whoever waits. The model is not fair, it may never answer; `GenerationEnds` says
that neither a stalled stream nor a stalled regeneration holds the turn. It does
not speak of a model that sends for ever: `MaxTokens` bounds it, the code does
not.

`EventLogger`: the event loop serves the timer and requests, the pool its
threads, and `stop` once called goes on. Emission, requests and the call of
`stop` are the environment's.

`StreamClient`: the browser's callbacks and timers run, and so does the server
(`WF(Browser)`, `WF(Server)`). Users, expiry and the network are not fair.

`EvidencePipeline` and `Ingestion` have safety properties only.

## 4. The proofs

`StreamSessionProofs`, the part about the buffer (any set of chunks of natural
numbers and offsets, any window; the assumptions are those `TranscriptBuffer` names):

* `BufferTypeCorrect`, `BufferStaysOrdered`, `GapClockCorrect`: `BufferInv`, the
  conjunction of the three, is inductive: the order of
  the buffer needs that `nextSeq` is one above its last number and below all
  that is held, and a forced commit's order needs one held chunk per number.
* `NothingHeldIsLost`, `GapsAreReported`: step properties from `BufferInv`. For
  the second, a commit in order is shown to add consecutive numbers only
  (`RunAfter` has no hole), a forced one to leave out at least the expected one.
* `BufferImplementsOrderedLog`: the refinement.

`StreamSessionProofs`, the part about sessions (any set of connections and chunks,
any bounds). The inductive invariant `SessionInv` is

* `TypeOK` and `BufferInv`,
* `LockInv`: a connection is in the lock's queue exactly when it waits or is in
  a turn, at most once, and only the head is in a turn,
* `PassInv`: in a turn the buffer is what had its pass followed by the turn's
  remaining batch; outside there is nothing left over,
* `VersionInv`: the chain, and a connection that generates holds the number of
  the version that is still the latest,
* `TraceInv`: a connection in a turn is in the latest one, so its `trace_id` is
  the newest,
* `EventInv`: turn numbers in the log are ascending and at most `turn`, and every
  event carries its turn's `trace_id` or, if it stands alone, one made of its place
  in the log (`Filed`), which no other event has.

From it: `SessionTypeCorrect`, `VersionsFormAChain`, `EveryChunkPassesOnce`,
`TurnsAreSerial`, `SessionBufferOrdered` and, as a step simulation,
`SessionImplementsAnswerLog`. `VersionChain` alone is not inductive:
the number read before the generation could be stale. `LockInv` is what makes it
the latest, and what keeps the passes and the events of turns apart.

What connections are told is shown on top of it. `ReconnectsAreResynced`: by
`ResyncInv`, the log names only connections that came up, and all of these but one
were resynced at once. `ViewsNeverRegress`: by `ClientViewInv`, what is queued for a
client tells of ever later answers, none later than the latest and, of the client
that works, none earlier than what any dead one has seen. A lemma,
`WhatStepsSay`, reduces every step to what it adds to the log and to a queue.

`RetrievalControllerProofs` (any slots, chunks, similarities and settings).
`ControllerInv` is `TypeOK`, `PerSlot` (the entities are kept per slot), `Grounded`
(a slot the buffer says nothing of is unknown), `DeltaUsedUp` (a turn that has
retrieved did so once and has no delta left), `WaitsCounted` (the history of waits
is the code's counter while nothing was retrieved) and `EntitiesFollowBuffer`.
`TurnsRetrieveOnce` needs `DeltaUsedUp`: later passes of a turn see the same
buffer, so they have no delta left to retrieve for.

`HybridRetrievalProofs` (any turns, retrievals, permits, threads and corpora).
`PermitInv` counts: permits and searching retrievals add up, by the cardinality
of a set that gains or loses one member. `JobInv` is about jobs: their types, that a
mode's state follows its retrieval's phase (`ModesFollowPhase`), that a queued job
is the one its mode awaits (`QueuedAreAwaited`) and a running one was
(`RunningWereStarted`), and that an index in the cache was loaded once
(`LoadedIfCached`). `NothingAbandonedIsQueued` is one conjunct and needs the others:
a job must not come back into the queue, nor be there twice.

`EventLoggerProofs` (any events, readers and bounds). `LogInv` is `TypeOK`,
`PlaceInv` (every event is in one place only: queue, one batch, table, lost),
`OrderInv` (events that share a timestamp were drained together and stay
together in order, which is what a replay sorted by time relies on) and
`AskedInv` (what was emitted before a request began is behind its drain). It gives
`EventsAreAccountedFor`, `ReplaysAreInOrder` and `FlushesAreVisible`.

`AnswerGenerationProofs` (any corpus, sentences, inputs and bounds). The
inductive invariant `GenerationInv` is `TypeOK`, `NumberInv` (version `n` has
number `n`, so the prior number is the length of the log) and `DraftInv` (a
sentence is only regenerated in a turn, and while the evidence that refused it
stands, so that giving it up has a reason to publish). `GenerationTypeCorrect` and
`GenerationImplementsAnswerLog` follow; `PublishedClaimsAreGrounded` is a step
property: an accepted sentence has tags, all in the lookup, whose chunks go by
them (a lemma on `Resolved`), and the events of the step are exactly its
citations and its delta. That an uncertainty statement is no sentence
(`TextsAssumption`) keeps the two kinds of steps apart. `EverythingSaidHasItsPlace`
needs `SaidInv`, which says where every sentence is from the model to the answer:
the answer with the draft, then what is cut off the text, then the queue, whose
items are consecutive pieces of what was said (`IsCut` names where they begin). That
order is what a regeneration could break, during which the queue grows.

`PageShowsItsAnswers` is about every page there may be before the latest turn, a set that
grows with each turn by all the places where a connection may be lost. It takes the whole log
and two inductions over it:

* `LogInv` says what the log tells of each turn (`Placement`: where it stands; `InTurn`:
  what is committed only in a turn; `TurnInv`). What is told of a turn under way is its
  committed sentences, one delta each, its citations' chunks, one event each, and nothing
  about another version (`Told`); a turn that is over told nothing, or its text and as
  many citations as the version has ids, and then the version (`Whole`). That a turn is over when the
  next begins, and that a version is not changed by later ones, carries it on.
* Seen from there all is about one state. The reducer is taken event by event: those
  that leave the answers alone (`QuietEventShows`), a decision, a delta, a version, a
  resync. `ShownFollows` says that two pages that show the same of a turn still do
  after its next event, which gives `ShowsOneTurn`.
* `ShowsUpTo(page, n)`: the page's history is some of the versions 1 to `n`, ascending, and
  its answer, while it streams, is a beginning of a later one of them. It holds of each page in a turn
  by induction on its events (`StreamedPages`, with the number of deltas so far as the
  length of the prefix), and of each page before a turn by induction on the turns
  (`BeforeShows`). A page that showed another session begins with no history.
* From a version's announcement the rest follows: the deltas counted up to it are its
  text, the citations told (`CitedIs`) are as many as its ids, and its card is the last.

`IngestionProofs` (any corpora, sources, calls, batch size and bounds), in
layers: `OwnInv` (a run's chunks are its corpus's), then `StoresInv` and
`ReadyInv`, then `CacheInv`. The four parts of `StoresInv`:

* `AgreeInv`: if a run is alone with its content, all runs at work on its corpus
  have the same content.
* `LeftInv`: what a run has left to write is among its chunks, what it has left to
  delete is not.
* `StageInv`: an undisturbed run, one that is alone or whose corpus has nothing
  but its own content half written, has done what lies before its stage. This is
  what makes the manifest the commit marker: at `SaveManifest` the other three
  stores hold the run's chunks.
* `AgreesOn`: `StoresAgree`, extended to corpora where only the content that is
  committed is half written again.

`StoresAlwaysAgree` is a conjunct; `ReportsHold` follows for the step that reports,
where the extension is needed: an "unchanged" may be said after a crashed run.
`ReadyInv` is `MarksInv` (a run that compares counts has found both files, one
that is past the index leaves it there) and `ServerInv` (the corpora that are no
longer on the starting server's list have both files). The assumptions are the
types of sources, documents and limits, and that `None` is no content.

`ChunksLoseNothing` is about `Chunking` alone, for any documents and limits. Each of
its six folds is first shown to be a sequence of steps, one per element (the
`...Chain` lemmas, with the function that `FoldLeft` iterates constructed by induction
on the length). Then, from the inside out: what a window holds
(`WindowsCover`: the windows are as many as there are starts before the end, and
each phrase of up to one token more than the overlap is in the last window that begins
before it), what packing a paragraph preserves (`PackStep`), what a scan has seen
after each line (`Seen`: its number counts the headings, its fence is the parity of
the fences, a line that counts stands in its section or in the body still open),
and what the pieces of a section become (`AddSectionsMake`). `PrepareGives`, that the chunks of a
corpus carry its name, comes from the same chains; `OwnInv` rests on it.

`EvidencePipelineProofs` (any texts, chunks and likeness of them, any results, scores
and limits). Each of the five properties of `evidence` is about the result of one step,
which is a fold or a sort; `PipelineInv` carries it to where it is read: `PipelineTypes`,
`StagesInv` (what a step finds), `KeptInv` (what a sub-query keeps are active rows
of its own, each once, with scores), `EvidenceInv` and `ActiveApart`. The operators
come first:

* Induction over a list is done with a set in the place of the predicate
  (`SetInduction`), which the provers can instantiate: a fold is the last of a chain of
  values, the first its base, each next one step further (`MergeChain`,
  `DedupChain`, `FlagChain`, `TokensChain`). What a fold does is then an invariant of
  its chain.
* `SortedBy` and `Those` place their members by how many come before (`Listed`). For
  a strict total order those numbers are exactly 1 to the length, so that a sort is a
  permutation in order, and a selection has each place of its list once and keeps
  their order.

`IntentsAskedOnce`: merging places every proposal that was seen once, as a
sub-query or in one `merged_from`, and a new sub-query is unlike those before.
`SaidOnce`: rows are compared from the best down with kept ones only, so a
duplicate's original is itself kept and scored no less; the candidates are active
rows, so what holds of these holds of the evidence. `DisagreementsGetFlagged`: all
pairs of active rows are in the list of comparisons, and none removes an id.
`EvidenceInOrder` and `NoSubQueryForgotten`: a row of the floor is cut by the cap only
if the floor alone is larger than the cap, and by the budget only together
with no better rows, whose tokens then exceed it. A sum of tokens is counted as the
size of a set (`Units`), which makes it monotone in its rows whatever their order.

`StreamClientProofs` (any bounds). `ClientInv` is `HookOK`, `ClientsOK`, `SocketsOK`
and `SessionsOK` (a transcript holds finitely many chunks, so that the largest
exists) with `Calm` (a session is awaited exactly in the phase of that name, and
while there is no client none is live), `Followed` (otherwise the hook's client is
live, and no other) and `OneSocket` (a socket that is not closed is its client's
latest, which then has no timer running). `OneLiveClient`
and `PhaseTellsTheTruth` follow; neither is inductive, since a second `start()` is
only harmless because of `Calm`.

`HeldBackForALostOne` follows from `ChunksInv`, an account of the numbers: every one
below the page's next is refused, with the server (committed, or held above the
number that is expected), or on its way or lost on a socket of its session. The one
that is expected is not with the server, so it is one of the others.
That nothing is lost on a socket that stands (`NothingLostYet`), that a client's socket
is its own (`OwnSocket`) and that a number is not used up while a session is made
(`Unsent`) are needed to keep the account.

Proved and not in a run, because the runs' other properties imply them or the
provers suffice: the type invariants, `BufferOrdered`, `VersionChain`, `LoadedOnce`.

Only model-checked: liveness (`FramesAreServed`, `GenerationEnds`,
`EventSettles`, `TurnEnds`, `WaitingEnds`), which is beyond the prover. Every
invariant and every action property that a passing run checks is also a theorem.

## 5. Not modelled

* Data: texts, embeddings' values, BM25 scores, prompts, payload fields no
  property is about, the wording of messages, logging, the pickle's format checks.
* `touch`, `close` and `invalidate`, which nothing in production calls;
  `disconnect()` and leaving the page; the 4401 branch, since a tab's token is the
  server's own; an orderly shutdown beyond the event logger's.
* `POST /evaluate` and the benchmark: one flag, set without an `await` after it
  is read, and arithmetic over a finished log. `telemetry/metrics.py`: pure
  aggregates. React components but `AnswerPanel` and the controls, configuration
  parsing, data types.
* The page's list of activities, which keeps every event, and the dismissal of
  banners.
* Several event loops: the service runs one process with one loop.

## 6. What could follow

1. `StreamClient` composed with `StreamSession`, in place of the part of
   `ingest_chunk` it has of its own.
2. Evaluations beside turns, and the shutdown of a server with turns under way.
