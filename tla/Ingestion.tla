------------------------------- MODULE Ingestion -------------------------------
(***************************************************************************)
(* ingest_corpus (src/scripts/ingest_corpus.py) and its two callers: the   *)
(* command line, and the server's startup (src/app/main.py), which reports *)
(* over /ready that every corpus is in.  A corpus lives in four places that*)
(* no transaction joins: points in Qdrant, the BM25 index, an audit copy   *)
(* of the chunks and the manifest.  A run may fail or crash between any    *)
(* two steps, sources change, and two processes may work at once.          *)
(*                                                                         *)
(* The fingerprint is a hash of the chunks' ids, so it stands here for the *)
(* sequence of chunks; the embedding model stays the same.                 *)
(***************************************************************************)
EXTENDS Chunking

CONSTANTS
    Corpora,          \* discover_corpora: the corpora in their order
    Sources,          \* what the directory of a corpus may hold
    UPSERT_BATCH_SIZE,
    Documents,        \* documents to check the chunks of
    Server, Cli,      \* the processes
    Calls,            \* of the command line: corpora and whether --force is given
    Models,           \* the models to warm up: the embedder, spaCy
    None,
    MaxRuns,          \* bounds: starts of a process,
    MaxEdits,         \* changes of a source,
    MaxFaults         \* failures and crashes

Corpus == ToSet(Corpora)
Processes == {Server, Cli}

ASSUME IngestionAssumption ==
    /\ Corpora \in Seq(Corpus)
    /\ DOMAIN Sources = Corpus
    /\ \A s \in UNION {Sources[c] : c \in Corpus} :
         /\ s.documents \in Seq(ToSet(s.documents))
         /\ \A d \in ToSet(s.documents) : d.lines \in Seq(Lines)
    /\ \A d \in Documents : d.lines \in Seq(Lines)
    /\ UPSERT_BATCH_SIZE \in Nat \ {0}
    /\ Server # Cli
    /\ \A call \in Calls : /\ call.corpora \in Seq(Corpus) \ { <<>> }
                           /\ call.force \in BOOLEAN
    /\ {MaxRuns, MaxEdits, MaxFaults} \subseteq Nat

\* All chunks there may be; a chunk names its corpus.
AllChunks == UNION {UNION {ToSet(Prepare(c, s)) : s \in Sources[c]} : c \in Corpus}

ASSUME NoneAssumption == None \notin Seq(AllChunks)

VARIABLES
    source,       \* per corpus, what _prepare makes of its directory: the chunks,
                  \* or <<>> if it refuses
    points,       \* the collection: chunks of all corpora
    bm25,         \* per corpus, the chunks in bm25__<corpus_id>.pkl, or None
    audit,        \* chunks__<corpus_id>.jsonl
    manifest,     \* manifest__<corpus_id>.json
    run,          \* per process, where it stands
    serving,      \* the server process is up
    complete,     \* app.state.ingestion_complete
    warm,         \* the models that are warm
    cache,        \* SparseIndexRegistry._indexes
    early,        \* corpora whose index was cached before complete was set, or
                  \* written by the command line while the server is up
    report,       \* the IngestionReport of this step, or None
    unfinished,   \* per corpus, the contents that runs have begun to write since
                  \* the last one that had the corpus for itself to the end
    runs, edits, faults

stores == <<points, bm25, audit, manifest>>
app == <<serving, complete, warm, cache, early>>
bounds == <<runs, edits, faults>>
vars == <<source, stores, run, app, report, unfinished, bounds>>

Steps == {"idle", "prepare", "count", "upsert", "scroll", "delete", "sparse", "audit",
          "manifest"}

\* A process that does nothing, and one about to begin with the first corpus of todo
Idle == [pc |-> "idle", todo |-> <<>>, force |-> FALSE, chunks |-> <<>>, left |-> <<>>,
         alone |-> TRUE]

Preparing(todo, force) ==
    [pc |-> "prepare", todo |-> todo, force |-> force, chunks |-> <<>>, left |-> <<>>,
     alone |-> TRUE]

RunType ==
    [pc : Steps, todo : Seq(Corpus), force : BOOLEAN, chunks : Seq(AllChunks),
     left : Seq(AllChunks), alone : BOOLEAN]
FileType == [Corpus -> Seq(AllChunks) \cup {None}]

TypeOK ==
    /\ source \in [Corpus -> Seq(AllChunks)]
    /\ points \subseteq AllChunks
    /\ bm25 \in FileType /\ audit \in FileType /\ manifest \in FileType /\ cache \in FileType
    /\ run \in [Processes -> RunType]
    /\ \A p \in Processes : run[p].pc # "idle" => run[p].todo # <<>>
    /\ {serving, complete} \subseteq BOOLEAN
    /\ warm \subseteq Models
    /\ early \subseteq Corpus
    /\ unfinished \in [Corpus -> SUBSET Seq(AllChunks)]
    /\ runs \in 0..MaxRuns /\ edits \in 0..MaxEdits /\ faults \in 0..MaxFaults

Init ==
    /\ \E f \in [Corpus -> UNION {Sources[c] : c \in Corpus}] :
         /\ \A c \in Corpus : f[c] \in Sources[c]
         /\ source = [c \in Corpus |-> Prepare(c, f[c])]
    /\ points = {}
    /\ bm25 = [c \in Corpus |-> None]
    /\ audit = [c \in Corpus |-> None]
    /\ manifest = [c \in Corpus |-> None]
    /\ run = [p \in Processes |-> Idle]
    /\ serving = FALSE
    /\ complete = FALSE
    /\ warm = {}
    /\ cache = [c \in Corpus |-> None]
    /\ early = {}
    /\ report = None
    /\ unfinished = [c \in Corpus |-> {}]
    /\ runs = 0 /\ edits = 0 /\ faults = 0

-----------------------------------------------------------------------------
(* Reading the stores *)

Current(p) == Head(run[p].todo)
Mine(p) == run[p].chunks

\* corpus_filter
PointsOf(c) == {point \in points : point.corpus = c}

\* Mutant: the scroll is not filtered by the corpus.
AllPoints(c) == points

\* Mutant: the scroll finds nothing.
NoPoints(c) == {}

\* point_ids
PointIds(c) == PointsOf(c)

\* The part of _is_up_to_date that looks at files: the manifest and the index
\* agree with the fingerprint.
MarksMatch(c, content) == manifest[c] = content /\ bm25[c] = content

\* The rest of it: as many points as there are chunks.
CountMatches(p) == Cardinality(PointsOf(Current(p))) = Len(Mine(p))

\* /ready, with Qdrant reachable.
Ready == complete /\ warm = Models

-----------------------------------------------------------------------------
(* A run of ingest_corpus *)

At(p, step) == run[p].pc = step

\* On to this step, with this much left of what it works through
Goto(p, step, left) == run' = [run EXCEPT ![p] = [@ EXCEPT !.pc = step, !.left = left]]

\* Nothing but what the action names.
OnlyRun == UNCHANGED <<source, stores, app, unfinished, bounds>>

\* Mutant: complete after the first corpus.
CompleteAfterFirst(p) ==
    /\ complete' = (complete \/ p = Server)
    /\ run' = [run EXCEPT ![p] = IF Len(run[p].todo) = 1 THEN Idle
                                 ELSE Preparing(Tail(run[p].todo), run[p].force)]

\* The loop over the corpora.
NextCorpus(p) ==
    IF Len(run[p].todo) = 1
    THEN /\ run' = [run EXCEPT ![p] = Idle]
         /\ complete' = (complete \/ p = Server)
    ELSE /\ run' = [run EXCEPT ![p] = Preparing(Tail(run[p].todo), run[p].force)]
         /\ UNCHANGED complete

\* Mutant: the startup goes on with the next corpus, as the command line does.
GoOnAfterFailure(p) == NextCorpus(p)

\* After an error the startup stops, the command line goes on.
GiveUp(p) ==
    IF p = Cli THEN NextCorpus(p)
    ELSE run' = [run EXCEPT ![p] = Idle] /\ UNCHANGED complete

Report(p, status) ==
    report' = [corpus |-> Current(p), status |-> status, chunks |-> Mine(p),
               alone |-> run[p].alone]

\* To the first call of Qdrant: _prepare, the fingerprint, and the files.  A run
\* is alone if no other works on different content of the corpus while it lasts.
PrepareCorpus(p) ==
    LET c       == Current(p)
        content == source[c]
        clash   == {q \in Processes \ {p} :
                      /\ run[q].pc \notin {"idle", "prepare"}
                      /\ Current(q) = c
                      /\ Mine(q) # content}
        next    == IF ~run[p].force /\ MarksMatch(c, content) THEN "count" ELSE "upsert"
    IN  /\ At(p, "prepare")
        /\ content # <<>>
        /\ run' = [q \in Processes |->
                     IF q = p THEN [run[p] EXCEPT !.pc = next, !.chunks = content,
                                                  !.left = IF next = "upsert" THEN content ELSE @,
                                                  !.alone = (clash = {})]
                     ELSE IF q \in clash THEN [run[q] EXCEPT !.alone = FALSE]
                     ELSE run[q]]
        /\ report' = None
        /\ OnlyRun

\* IngestionError, SlotSchemaError: nothing was written.
RefuseCorpus(p) ==
    /\ At(p, "prepare")
    /\ source[Current(p)] = <<>>
    /\ GiveUp(p)
    /\ report' = None
    /\ UNCHANGED <<source, stores, serving, warm, cache, early, unfinished, bounds>>

\* The report "unchanged".
SkipUnchanged(p) ==
    /\ At(p, "count")
    /\ CountMatches(p)
    /\ Report(p, "unchanged")
    /\ NextCorpus(p)
    /\ UNCHANGED <<source, stores, serving, warm, cache, early, unfinished, bounds>>

FindOutdated(p) ==
    /\ At(p, "count")
    /\ ~CountMatches(p)
    /\ Goto(p, "upsert", Mine(p))
    /\ report' = None
    /\ OnlyRun

\* The first or the last places of a sequence, as batches take them.
FirstBatch(s) == SubSeq(s, 1, Min({UPSERT_BATCH_SIZE, Len(s)}))

AfterBatch(s) == SubSeq(s, Min({UPSERT_BATCH_SIZE, Len(s)}) + 1, Len(s))

Begin(p) == unfinished' = [unfinished EXCEPT ![Current(p)] = @ \cup {Mine(p)}]

\* upsert_chunks, one batch.  embed_batch and ensure_collection before the first
\* change nothing here: a collection that is not there counts as empty.
Upsert(p) ==
    /\ At(p, "upsert")
    /\ points' = points \cup ToSet(FirstBatch(run[p].left))
    /\ LET rest == AfterBatch(run[p].left)
       IN  Goto(p, IF rest = <<>> THEN "scroll" ELSE "upsert", rest)
    /\ Begin(p)
    /\ report' = None
    /\ UNCHANGED <<source, bm25, audit, manifest, app, bounds>>

\* delete_stale: what the collection holds of the corpus and should not.
ScrollStale(p) ==
    LET stale == PointIds(Current(p)) \ ToSet(Mine(p))
    IN  /\ At(p, "scroll")
        /\ \E s \in SetToSeqs(stale) : Goto(p, IF s = <<>> THEN "sparse" ELSE "delete", s)
        /\ report' = None
        /\ OnlyRun

DeleteStale(p) ==
    /\ At(p, "delete")
    /\ points' = points \ ToSet(FirstBatch(run[p].left))
    /\ LET rest == AfterBatch(run[p].left)
       IN  Goto(p, IF rest = <<>> THEN "sparse" ELSE "delete", rest)
    /\ Begin(p)
    /\ report' = None
    /\ UNCHANGED <<source, bm25, audit, manifest, app, bounds>>

\* BM25Index.build(...).save: atomic_write_bytes replaces the file as a whole.
SaveSparse(p) ==
    /\ At(p, "sparse")
    /\ bm25' = [bm25 EXCEPT ![Current(p)] = Mine(p)]
    /\ early' = IF p = Cli /\ serving THEN early \cup {Current(p)} ELSE early
    /\ Goto(p, "audit", run[p].left)
    /\ Begin(p)
    /\ report' = None
    /\ UNCHANGED <<source, points, audit, manifest, serving, complete, warm, cache, bounds>>

SaveAudit(p) ==
    /\ At(p, "audit")
    /\ audit' = [audit EXCEPT ![Current(p)] = Mine(p)]
    /\ Goto(p, "manifest", run[p].left)
    /\ Begin(p)
    /\ report' = None
    /\ UNCHANGED <<source, points, bm25, manifest, app, bounds>>

\* The commit marker, and the report "ingested".
SaveManifest(p) ==
    /\ At(p, "manifest")
    /\ manifest' = [manifest EXCEPT ![Current(p)] = Mine(p)]
    /\ unfinished' = [unfinished EXCEPT ![Current(p)] =
                        IF run[p].alone THEN {} ELSE @ \cup {Mine(p)}]
    /\ Report(p, "ingested")
    /\ NextCorpus(p)
    /\ UNCHANGED <<source, points, bm25, audit, serving, warm, cache, early, bounds>>

\* A call to Qdrant, the model or the disk raises.
Fail(p) ==
    /\ run[p].pc \notin {"idle", "prepare"}
    /\ faults < MaxFaults
    /\ faults' = faults + 1
    /\ GiveUp(p)
    /\ report' = None
    /\ UNCHANGED <<source, stores, serving, warm, cache, early, unfinished, runs, edits>>

Ingest(p) ==
    \/ PrepareCorpus(p) \/ RefuseCorpus(p) \/ SkipUnchanged(p) \/ FindOutdated(p)
    \/ Upsert(p) \/ ScrollStale(p) \/ DeleteStale(p)
    \/ SaveSparse(p) \/ SaveAudit(p) \/ SaveManifest(p)

-----------------------------------------------------------------------------
(* The processes *)

\* main: one corpus or --all.
StartCli(call) ==
    /\ run[Cli] = Idle
    /\ runs < MaxRuns
    /\ runs' = runs + 1
    /\ run' = [run EXCEPT ![Cli] = Preparing(call.corpora, call.force)]
    /\ report' = None
    /\ UNCHANGED <<source, stores, app, unfinished, edits, faults>>

\* lifespan, and _ingest_corpora in the background; without a corpus it ends at once.
StartServer ==
    /\ ~serving
    /\ runs < MaxRuns
    /\ runs' = runs + 1
    /\ serving' = TRUE
    /\ run' = [run EXCEPT ![Server] = IF Corpora = <<>> THEN Idle
                                      ELSE Preparing(Corpora, FALSE)]
    /\ report' = None
    /\ UNCHANGED <<source, stores, complete, warm, cache, early, unfinished, edits, faults>>

\* _warm_embedder, _warm_nlp; a failure is logged and the model stays cold.
WarmUp(model) ==
    /\ serving
    /\ warm' = warm \cup {model}
    /\ report' = None
    /\ UNCHANGED <<source, stores, run, serving, complete, cache, early, unfinished, bounds>>

\* The process dies; a server's memory goes with it.
Crash(p) ==
    /\ p = Cli => run[p] # Idle
    /\ p = Server => serving
    /\ faults < MaxFaults
    /\ faults' = faults + 1
    /\ run' = [run EXCEPT ![p] = Idle]
    /\ IF p = Server
       THEN /\ serving' = FALSE /\ complete' = FALSE /\ warm' = {} /\ early' = {}
            /\ cache' = [c \in Corpus |-> None]
       ELSE UNCHANGED app
    /\ report' = None
    /\ UNCHANGED <<source, stores, unfinished, runs, edits>>

\* SparseIndexRegistry.get for a query: loaded once, kept for good.
LoadIndex(c) ==
    /\ serving
    /\ cache[c] = None
    /\ bm25[c] # None
    /\ cache' = [cache EXCEPT ![c] = bm25[c]]
    /\ early' = IF complete THEN early ELSE early \cup {c}
    /\ report' = None
    /\ UNCHANGED <<source, stores, run, serving, complete, warm, unfinished, bounds>>

Edit(c, s) ==
    /\ edits < MaxEdits
    /\ edits' = edits + 1
    /\ source' = [source EXCEPT ![c] = Prepare(c, s)]
    /\ source' # source
    /\ report' = None
    /\ UNCHANGED <<stores, run, app, unfinished, runs, faults>>

Next ==
    \/ \E p \in Processes : Ingest(p) \/ Fail(p) \/ Crash(p)
    \/ \E call \in Calls : StartCli(call)
    \/ StartServer
    \/ \E model \in Models : WarmUp(model)
    \/ \E c \in Corpus : LoadIndex(c) \/ \E s \in Sources[c] : Edit(c, s)

Spec == Init /\ [][Next]_vars

-----------------------------------------------------------------------------
(* Properties *)

\* What depends on no variable is checked once.
AtStart == runs = 0 /\ edits = 0

\* All four stores of the corpus hold exactly this content.
Holds(c, content) ==
    /\ PointsOf(c) = ToSet(content)
    /\ bm25[c] = content /\ audit[c] = content /\ manifest[c] = content

\* Whatever runs have failed, crashed or overlapped before: once a run has had a
\* corpus to itself and come to its end, the four stores agree on it, until the
\* next run begins to write.  No run of another corpus disturbs that.
StoresAgree ==
    \A c \in Corpus : unfinished[c] = {} =>
        IF manifest[c] = None THEN PointsOf(c) = {} /\ bm25[c] = None /\ audit[c] = None
        ELSE Holds(c, manifest[c])

\* A report, "ingested" or "unchanged", is true if nothing but the same content
\* was left half written in the corpus: a crashed run that is repeated is
\* completed, never taken for complete.
ReportHolds ==
    /\ report # None
    /\ unfinished[report.corpus] \subseteq {report.chunks}
    => Holds(report.corpus, report.chunks)

\* Documented (ingest_corpus.py:7 "fingerprint; written last as the commit marker",
\* :10 "An unchanged corpus is a no-op"): a run that has the corpus to itself
\* reports it only if all stores hold the corpus as it was read.  _is_up_to_date
\* compares the number of points, not which: those of a crashed run of other
\* content with as many chunks pass for the manifest's when the source is reverted.
ReportMeansIndexed ==
    /\ report # None
    /\ report.alone
    => Holds(report.corpus, report.chunks)

\* /ready says that queries have an index of every corpus: all of them were
\* ingested by this process, or found as they are.
ReadyMeansSearchable ==
    Ready => \A c \in Corpus : bm25[c] # None /\ manifest[c] # None

\* An index that the server loads once startup ingestion is over is the one on
\* disk, unless another process has begun to replace that.
ServedIndexIsCurrent ==
    complete => \A c \in Corpus \ early : cache[c] \in {None, bm25[c]}

\* Every word of every document, and every phrase not longer than the overlap
\* provides for, can be found in a chunk of its section, and every chunk keeps to
\* CHUNK_MAX_TOKENS and to its section (split_sections, chunk_document).
ChunkedWithoutLoss ==
    AtStart => \A d \in Documents :
        LET chunks == ChunkDocument(None, d)
        IN  /\ KeepsLines(d.lines) /\ KeepsPhrases(chunks, d.lines)
            /\ \A chunk \in ToSet(chunks) : FitsItsSection(chunk, d.lines)

=============================================================================
