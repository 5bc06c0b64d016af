------------------------- MODULE RetrievalController -------------------------
(***************************************************************************)
(* on_chunk (src/app/controller/retrieval_controller.py): for every chunk  *)
(* a session commits, decide WAIT, RETRIEVE or NO_RETRIEVAL.  The chunks   *)
(* of a turn are committed to the buffer together and passed one by one,   *)
(* and every pass reads the whole buffer; turns are serial (StreamSession  *)
(* shows that), so a pass is a step.  It may raise at each backend call,   *)
(* and then keeps the updates made before.                                 *)
(*                                                                         *)
(* A chunk is what the decision depends on: its embedding, the slot values *)
(* it mentions, is_final, a presentation word, a contrastive marker.       *)
(***************************************************************************)
EXTENDS Integers, Sequences, FiniteSetsExt

CONSTANTS
    Slots,                \* the slots of the corpus
    Embeddings,           \* the embeddings of texts
    Similarity,           \* cosine of two embeddings, in percent
    Chunks,               \* the chunks a session may commit
    STABILITY_THRESHOLD,  \* Settings, in percent
    STABILITY_WINDOW,
    MAX_WAIT_CHUNKS,
    REFINEMENT_THRESHOLD, \* in percent
    None,
    MaxChunks             \* bound: chunks committed in all

NEW_TOPIC_THRESHOLD == 40

ASSUME SimilarityAssumption == Similarity \in [Embeddings \X Embeddings -> -100..100]
ASSUME ChunkAssumption ==
    \A c \in Chunks : /\ c.embedding \in Embeddings
                      /\ DOMAIN c.entities = Slots
                      /\ {c.is_final, c.presentation, c.contrastive} \subseteq BOOLEAN
ASSUME SettingsAssumption ==
    /\ STABILITY_THRESHOLD \in 1..100 /\ REFINEMENT_THRESHOLD \in 1..100
    /\ STABILITY_WINDOW \in Nat /\ STABILITY_WINDOW >= 2
    /\ MAX_WAIT_CHUNKS \in Nat /\ MaxChunks \in Nat
ASSUME TopicAssumption == None \notin Embeddings

VARIABLES
    buffer,           \* record.buffer
    passes,           \* how many of its chunks had their pass
    embeddingHistory, \* record.embedding_history
    entities,         \* record.entities; None: slot not filled
    waitCount,        \* record.wait_count
    hasRetrieved,     \* record.has_retrieved_for_topic
    topic,            \* record.topic_embedding
    lastEvidence,     \* the pass record.last_evidence was retrieved in (0: empty)
    answered,         \* bool(record.answer_versions)
    decision,         \* the reason of the last pass's decision
    waits,            \* WAIT decisions since the last attempt to retrieve
    retrievals        \* retrievals of this turn that MAX_WAIT_CHUNKS did not force

vars == <<buffer, passes, embeddingHistory, entities, waitCount, hasRetrieved,
          topic, lastEvidence, answered, decision, waits, retrievals>>

Reasons == {"none", "raised", "presentation_only", "no_new_entity",
            "ambiguous_refinement", "intent_unstable", "refinement",
            "forced_after_max_wait", "provisional", "final"}

TypeOK ==
    /\ buffer \in Seq(Chunks) /\ Len(buffer) <= MaxChunks
    /\ passes \in 0..Len(buffer)
    /\ embeddingHistory \in Seq(Embeddings) /\ Len(embeddingHistory) <= passes
    /\ DOMAIN entities = Slots
    /\ waitCount \in 0..MAX_WAIT_CHUNKS
    /\ hasRetrieved \in BOOLEAN
    /\ topic \in Embeddings \cup {None}
    /\ lastEvidence \in 0..passes
    /\ answered \in BOOLEAN
    /\ decision \in Reasons
    /\ waits \in 0..passes
    /\ retrievals \in 0..passes

Init ==
    /\ buffer = <<>>
    /\ passes = 0
    /\ embeddingHistory = <<>>
    /\ entities = [s \in Slots |-> None]
    /\ waitCount = 0
    /\ hasRetrieved = FALSE
    /\ topic = None
    /\ lastEvidence = 0
    /\ answered = FALSE
    /\ decision = "none"
    /\ waits = 0
    /\ retrievals = 0

-----------------------------------------------------------------------------
(* What a pass looks at *)

Chunk == buffer[passes + 1]

\* extract_entities over the buffer: the last mention of a slot wins.
Mentions(s) == {i \in DOMAIN buffer : buffer[i].entities[s] # None}
Extracted == [s \in Slots |-> IF Mentions(s) = {} THEN None
                              ELSE buffer[Max(Mentions(s))].entities[s]]

\* entity_diff, as the set of its slots.
Delta == {s \in Slots : Extracted[s] \notin {None, entities[s]}}

\* Mutant: the entities stay as they are until a retrieval uses them.
KeepEntities == entities

\* entities.update(new_entities)
Updated == [s \in Slots |-> IF s \in Delta THEN Extracted[s] ELSE entities[s]]

\* check_suppression: a presentation word anywhere in the buffer.
Suppressed ==
    /\ answered
    /\ \E i \in DOMAIN buffer : buffer[i].presentation
    /\ Delta = {}

Embedded == Append(embeddingHistory, Chunk.embedding)

\* compute_stability >= STABILITY_THRESHOLD, as sums of percents.
Stable ==
    LET first == Max({1, Len(Embedded) - STABILITY_WINDOW + 1})
        pairs == {p \in (first..Len(Embedded)) \X (first..Len(Embedded)) : p[1] < p[2]}
        sim(p) == Similarity[Embedded[p[1]], Embedded[p[2]]]
    IN  /\ pairs # {}
        /\ MapThenSumSet(sim, pairs) >= STABILITY_THRESHOLD * Cardinality(pairs)

\* conclusive_single_chunk
Conclusive == Chunk.is_final /\ Len(Embedded) < STABILITY_WINDOW

Ready == Delta # {} /\ (Stable \/ Conclusive)

\* classify_segment
TopicSimilarity == Similarity[Chunk.embedding, topic]
IsRefinement == TopicSimilarity >= REFINEMENT_THRESHOLD \/ Chunk.contrastive
IsNewTopic == ~IsRefinement /\ TopicSimilarity < NEW_TOPIC_THRESHOLD
IsAmbiguous == ~IsRefinement /\ ~IsNewTopic

\* The branches of on_chunk that an established topic and a delta lead to, and
\* the one all other passes take.
HasTopic == hasRetrieved /\ topic # None
OnTopic == ~Suppressed /\ Delta # {} /\ HasTopic
FreshStart ==
    /\ ~Suppressed
    /\ Delta # {} \/ ~hasRetrieved
    /\ HasTopic => IsNewTopic

-----------------------------------------------------------------------------
(* Steps *)

\* ingest_chunk: the next turn's batch, once all passes of the last are over.
CommitBatch(batch) ==
    /\ passes = Len(buffer)
    /\ Len(buffer) + Len(batch) <= MaxChunks
    /\ buffer' = buffer \o batch
    /\ decision' = "none"
    /\ retrievals' = 0
    /\ UNCHANGED <<passes, embeddingHistory, entities, waitCount, hasRetrieved,
                   topic, lastEvidence, answered, waits>>

Pass(reason) ==
    /\ passes < Len(buffer)
    /\ passes' = passes + 1
    /\ decision' = reason
    /\ UNCHANGED buffer

Observe ==
    /\ embeddingHistory' = Embedded
    /\ entities' = Updated

NoRetrieval == UNCHANGED <<hasRetrieved, topic, lastEvidence, answered, retrievals>>

\* The embedder raises before anything was changed.
EmbedFails ==
    /\ Pass("raised")
    /\ NoRetrieval
    /\ UNCHANGED <<embeddingHistory, entities, waitCount, waits>>

\* Suppression check or extraction raise, the embedding is recorded.
ExtractionFails ==
    /\ Pass("raised")
    /\ NoRetrieval
    /\ embeddingHistory' = Embedded
    /\ UNCHANGED <<entities, waitCount, waits>>

\* The embedder raises for classify_segment: the delta is used up.
ClassificationFails ==
    /\ OnTopic
    /\ Pass("raised")
    /\ NoRetrieval
    /\ Observe
    /\ UNCHANGED <<waitCount, waits>>

Suppress ==
    /\ Suppressed
    /\ Pass("presentation_only")
    /\ NoRetrieval
    /\ embeddingHistory' = Embedded
    /\ UNCHANGED <<entities, waitCount, waits>>

WaitForNewEntity ==
    /\ ~Suppressed /\ Delta = {} /\ hasRetrieved
    /\ Pass("no_new_entity")
    /\ NoRetrieval
    /\ Observe
    /\ waits' = waits + 1
    /\ UNCHANGED waitCount

RefuseToGuess ==
    /\ OnTopic /\ IsAmbiguous
    /\ Pass("ambiguous_refinement")
    /\ NoRetrieval
    /\ Observe
    /\ UNCHANGED <<waitCount, waits>>

\* _retrieve or _refine returns the evidence found (this pass's, or none), or
\* else the evidence given to fall back on; an answer may follow if there is
\* any.  If it raises, topic and evidence stay what they were.
Dispatch(fallback) ==
    /\ waits' = 0
    /\ \/ /\ topic' = Chunk.embedding
          /\ lastEvidence' \in {passes + 1, fallback}
          /\ answered' \in (IF lastEvidence' = 0 THEN {answered} ELSE {answered, TRUE})
       \/ UNCHANGED <<topic, lastEvidence, answered>>

Refine ==
    /\ OnTopic /\ IsRefinement
    /\ Pass("refinement")
    /\ Observe
    /\ Dispatch(lastEvidence)
    /\ retrievals' = retrievals + 1
    /\ UNCHANGED <<waitCount, hasRetrieved>>

\* Mutant: forced one chunk too late.
WaitTooLong ==
    /\ FreshStart /\ ~Ready
    /\ waitCount <= MAX_WAIT_CHUNKS
    /\ waitCount' = waitCount + 1
    /\ Pass("intent_unstable")
    /\ NoRetrieval
    /\ Observe
    /\ waits' = waits + 1

WaitForStability ==
    /\ FreshStart /\ ~Ready
    /\ waitCount < MAX_WAIT_CHUNKS
    /\ waitCount' = waitCount + 1
    /\ Pass("intent_unstable")
    /\ NoRetrieval
    /\ Observe
    /\ waits' = waits + 1

\* Does not count as having retrieved for the topic.
ForceRetrieval ==
    /\ FreshStart /\ ~Ready
    /\ waitCount >= MAX_WAIT_CHUNKS
    /\ waitCount' = 0
    /\ Pass("forced_after_max_wait")
    /\ Observe
    /\ Dispatch(0)
    /\ UNCHANGED <<hasRetrieved, retrievals>>

\* Stable and new: has_retrieved_for_topic is set before _retrieve is called.
Retrieve ==
    /\ FreshStart /\ Ready
    /\ waitCount' = 0
    /\ hasRetrieved' = TRUE
    /\ Pass(IF Chunk.is_final THEN "final" ELSE "provisional")
    /\ Observe
    /\ Dispatch(0)
    /\ retrievals' = retrievals + 1

OnChunk ==
    /\ passes < Len(buffer)
    /\ \/ EmbedFails \/ ExtractionFails \/ ClassificationFails
       \/ Suppress \/ WaitForNewEntity \/ RefuseToGuess
       \/ Refine \/ WaitForStability \/ ForceRetrieval \/ Retrieve

Batches == {<<c>> : c \in Chunks} \cup (Chunks \X Chunks)

Next == (\E batch \in Batches : CommitBatch(batch)) \/ OnChunk

Spec == Init /\ [][Next]_vars

-----------------------------------------------------------------------------
(* Properties *)

\* Until something was retrieved for the topic no more than MAX_WAIT_CHUNKS
\* decisions to WAIT are made between two attempts to retrieve, whatever
\* passes raise or are suppressed in between (REQ-CTRL-01).
NoStarvation == ~hasRetrieved => waits <= MAX_WAIT_CHUNKS

\* After every pass that did not raise, whichever way it decided, the session
\* knows exactly the entities of the whole buffer.
EntitiesFollowBuffer == decision \notin {"none", "raised"} => entities = Extracted

\* However many chunks a turn commits and whichever of its passes raise, it
\* dispatches at most one retrieval that was not forced: the first pass that
\* gets to see the buffer uses up the delta of all of them.
OneRetrievalPerTurn == retrievals <= 1

\* Documented (PRD_TRD.md:110, REQ-CTRL-01: "WAIT past MAX_WAIT_CHUNKS (6)
\* forces a decision"): as long as no retrieval has ever come back, at most
\* MAX_WAIT_CHUNKS decisions to WAIT are made between two attempts.  A retrieval
\* that raises leaves has_retrieved_for_topic set, and nothing is forced again.
WaitForcesDecision == topic = None => waits <= MAX_WAIT_CHUNKS

=============================================================================
