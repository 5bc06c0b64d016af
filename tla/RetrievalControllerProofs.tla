----------------------- MODULE RetrievalControllerProofs -----------------------
(***************************************************************************)
(* Proofs about on_chunk, for any slots, chunks, embeddings and settings.  *)
(*                                                                         *)
(* The inductive invariant ControllerInv adds three facts to the types:    *)
(* what the session knows of a slot is mentioned somewhere in the buffer   *)
(* (Grounded), so that updating by the delta gives what the whole buffer   *)
(* says; a turn that has retrieved has no delta left (DeltaUsedUp); and    *)
(* until the first retrieval, waits are what wait_count counts.            *)
(***************************************************************************)
EXTENDS RetrievalController, WellFoundedInduction, TLAPS

\* What is known of a slot was said in the buffer.
Grounded == \A s \in Slots : Extracted[s] = None => entities[s] = None

\* The first retrieval of a turn that was not forced leaves nothing new to retrieve for.
DeltaUsedUp == retrievals # 0 => retrievals = 1 /\ Delta = {}

\* wait_count counts the waits until something was retrieved.
WaitsCounted == ~hasRetrieved => waits = waitCount

\* Entities are kept per slot.
PerSlot == entities = [s \in Slots |-> entities[s]]

ControllerInv == TypeOK /\ PerSlot /\ Grounded /\ DeltaUsedUp /\ WaitsCounted /\ EntitiesFollowBuffer

-----------------------------------------------------------------------------
(* What is extracted *)

\* A set of places in a sequence has a last one.
LEMMA LastPlace ==
    ASSUME NEW n \in Nat, NEW S \in SUBSET (1..n), S # {}
    PROVE  Max(S) \in S
<1> DEFINE T == {n - x : x \in S}
           Less == {p \in Nat \X Nat : p[1] < p[2]}
<1>1. T \in SUBSET Nat /\ T # {}
  <2>1. \A x \in S : n - x \in Nat
    OBVIOUS
  <2>2. PICK x \in S : TRUE
    OBVIOUS
  <2>3. n - x \in T
    OBVIOUS
  <2> QED  BY <2>1, <2>3
<1>2. PICK m \in T : \A t \in T : m <= t
  <2>1. IsWellFoundedOn(Less, Nat)
    BY NatLessThanWellFounded DEF OpToRel
  <2>2. PICK m \in T : \A t \in T : <<t, m>> \notin Less
    <3> HIDE DEF T, Less
    <3> QED  BY <1>1, <2>1, WFMin
  <2>3. ASSUME NEW t \in T PROVE m <= t
    <3>1. t \in Nat /\ m \in Nat /\ <<t, m>> \notin Less
      BY <1>1, <2>2
    <3>2. ~(t < m)
      BY <3>1
    <3> HIDE DEF T
    <3> QED  BY <3>1, <3>2
  <2> QED  BY <2>2, <2>3
<1>3. PICK x \in S : m = n - x
  BY <1>2
<1>4. \A y \in S : x >= y
  <2> TAKE y \in S
  <2>1. n - y \in T /\ m <= n - y
    BY <1>2
  <2> QED  BY <2>1, <1>3
<1> QED  BY <1>3, <1>4 DEF Max

\* Nothing is extracted for a slot exactly if no chunk mentions it, of any buffer.
LEMMA ExtractedIfMentioned ==
    ASSUME NEW b \in Seq(Chunks), NEW s \in Slots,
           NEW M, M = {i \in DOMAIN b : b[i].entities[s] # None}, M # {}
    PROVE  b[Max(M)].entities[s] # None
<1>1. M \in SUBSET (1..Len(b)) /\ Len(b) \in Nat
  OBVIOUS
<1>2. Max(M) \in M
  BY <1>1, LastPlace
<1> QED  BY <1>2

\* Updating by the delta makes the session know what the buffer says.
LEMMA UpdatedIsExtracted == ASSUME Grounded PROVE Updated = Extracted
<1>1. ASSUME NEW s \in Slots PROVE Updated[s] = Extracted[s]
  BY DEF Updated, Delta, Grounded
<1> QED  BY <1>1 DEF Updated, Extracted

\* Nothing new: the session knows what the buffer says.
LEMMA NoDelta ==
    ASSUME Grounded, PerSlot, Delta = {}
    PROVE  entities = Extracted
<1>1. ASSUME NEW s \in Slots PROVE entities[s] = Extracted[s]
  BY DEF Delta, Grounded
<1> QED  BY <1>1 DEF Extracted, PerSlot

\* Knowing what the buffer says, there is no delta, and what is known was said.
LEMMA KnowingAll ==
    ASSUME entities' = Extracted, buffer' = buffer
    PROVE  /\ Extracted' = Extracted
           /\ Delta' = {}
           /\ Grounded'
           /\ PerSlot'
           /\ EntitiesFollowBuffer'
<1>1. Extracted' = Extracted
  BY DEF Extracted, Mentions
<1>2. \A s \in Slots : entities'[s] = Extracted'[s]
  BY <1>1
<1>3. Delta' = {}
  BY <1>2 DEF Delta
<1>4. Grounded'
  BY <1>2 DEF Grounded
<1>5. PerSlot'
  BY DEF PerSlot, Extracted
<1> QED  BY <1>1, <1>3, <1>4, <1>5 DEF EntitiesFollowBuffer

-----------------------------------------------------------------------------
(* The invariant *)

LEMMA ControllerInit == ASSUME Init PROVE ControllerInv
<1> USE DEF Init
<1>1. TypeOK
  <2>1. buffer \in Seq(Chunks) /\ Len(buffer) = 0
    OBVIOUS
  <2>2. embeddingHistory \in Seq(Embeddings) /\ Len(embeddingHistory) = 0
    OBVIOUS
  <2>3. DOMAIN entities = Slots
    OBVIOUS
  <2>4. decision \in Reasons /\ hasRetrieved \in BOOLEAN /\ answered \in BOOLEAN
    BY DEF Reasons
  <2>5. topic \in Embeddings \cup {None}
    OBVIOUS
  <2> QED  BY <2>1, <2>2, <2>3, <2>4, <2>5, SettingsAssumption DEF TypeOK
<1>2. PerSlot /\ Grounded /\ DeltaUsedUp /\ WaitsCounted /\ EntitiesFollowBuffer
  BY DEF PerSlot, Grounded, DeltaUsedUp, WaitsCounted, EntitiesFollowBuffer
<1> QED  BY <1>1, <1>2 DEF ControllerInv

\* A new turn: its chunks may say something new, but unsay nothing.
LEMMA CommitStep ==
    ASSUME ControllerInv, NEW batch \in Batches, CommitBatch(batch)
    PROVE  ControllerInv'
<1> USE DEF ControllerInv, CommitBatch
<1>1. batch \in Seq(Chunks)
  <2>1. CASE batch \in {<<c>> : c \in Chunks}
    BY <2>1
  <2>2. CASE batch \in Chunks \X Chunks
    <3>1. PICK c \in Chunks, d \in Chunks : batch = <<c, d>>
      BY <2>2
    <3> QED  BY <3>1
  <2> QED  BY <2>1, <2>2 DEF Batches
<1>2. /\ buffer \in Seq(Chunks) /\ buffer' \in Seq(Chunks)
      /\ Len(buffer') = Len(buffer) + Len(batch) /\ Len(batch) \in Nat
      /\ \A i \in DOMAIN buffer : i \in DOMAIN buffer' /\ buffer'[i] = buffer[i]
  BY <1>1 DEF TypeOK
<1>3. TypeOK'
  BY <1>2, SettingsAssumption DEF TypeOK, Reasons
<1>4. ASSUME NEW s \in Slots, Extracted'[s] = None PROVE entities'[s] = None
  <2>1. Mentions(s)' = {}
    <3>1. Mentions(s)' = {i \in DOMAIN buffer' : buffer'[i].entities[s] # None}
      BY DEF Mentions
    <3>2. Mentions(s)' # {} => buffer'[Max(Mentions(s)')].entities[s] # None
      BY <1>2, <3>1, ExtractedIfMentioned
    <3> QED  BY <1>4, <3>2 DEF Extracted
  <2>2. Mentions(s) = {}
    BY <1>2, <2>1 DEF Mentions
  <2>3. Extracted[s] = None
    BY <2>2 DEF Extracted
  <2> QED  BY <2>3 DEF Grounded
<1>5. Grounded'
  BY <1>4 DEF Grounded
<1> QED
  BY <1>3, <1>5 DEF PerSlot, DeltaUsedUp, WaitsCounted, EntitiesFollowBuffer

\* What every pass has in common.
LEMMA PassTypes ==
    ASSUME TypeOK, OnChunk
    PROVE  /\ buffer' = buffer
           /\ buffer \in Seq(Chunks) /\ Len(buffer) \in Nat /\ Len(buffer) <= MaxChunks
           /\ passes \in Nat /\ passes' = passes + 1 /\ passes' \in 0..Len(buffer)
           /\ Chunk \in Chunks /\ Chunk.embedding \in Embeddings
           /\ Embedded \in Seq(Embeddings)
           /\ Len(Embedded) = Len(embeddingHistory) + 1
           /\ Len(embeddingHistory) \in Nat /\ Len(embeddingHistory) <= passes
<1>1. buffer' = buffer /\ passes' = passes + 1 /\ passes < Len(buffer)
  BY DEF OnChunk, EmbedFails, ExtractionFails, ClassificationFails, Suppress, WaitForNewEntity,
         RefuseToGuess, Refine, WaitForStability, ForceRetrieval, Retrieve, Pass
<1>2. buffer \in Seq(Chunks) /\ Len(buffer) \in Nat /\ Len(buffer) <= MaxChunks /\ passes \in Nat
  BY DEF TypeOK
<1>3. Chunk \in Chunks
  BY <1>1, <1>2 DEF Chunk
<1>4. Chunk.embedding \in Embeddings
  BY <1>3, ChunkAssumption
<1>5. Embedded \in Seq(Embeddings) /\ Len(Embedded) = Len(embeddingHistory) + 1
  BY <1>4 DEF Embedded, TypeOK
<1> QED  BY <1>1, <1>2, <1>3, <1>4, <1>5 DEF TypeOK

\* A pass that leaves the entities alone changes nothing about them.
LEMMA Unobserved ==
    ASSUME ControllerInv, buffer' = buffer, entities' = entities
    PROVE  Extracted' = Extracted /\ Delta' = Delta /\ PerSlot' /\ Grounded'
<1>1. Extracted' = Extracted
  BY DEF Extracted, Mentions
<1>2. Delta' = Delta
  BY <1>1 DEF Delta
<1>3. PerSlot' /\ Grounded'
  BY <1>1 DEF ControllerInv, PerSlot, Grounded
<1> QED  BY <1>1, <1>2, <1>3

\* A pass that observes knows all, and there is no delta left.
LEMMA Observed ==
    ASSUME ControllerInv, buffer' = buffer, Observe
    PROVE  Delta' = {} /\ PerSlot' /\ Grounded' /\ EntitiesFollowBuffer' /\ DOMAIN entities' = Slots
<1>1. entities' = Extracted
  BY UpdatedIsExtracted DEF ControllerInv, Observe
<1> QED  BY <1>1, KnowingAll DEF Extracted

\* Passes that end before they look for anything new
LEMMA QuietStep ==
    ASSUME ControllerInv, OnChunk, EmbedFails \/ ExtractionFails \/ Suppress
    PROVE  ControllerInv'
<1> USE PassTypes DEF ControllerInv, NoRetrieval, Pass
<1>1. entities' = entities /\ UNCHANGED <<waitCount, waits, hasRetrieved, topic, lastEvidence,
                                          answered, retrievals>>
  BY DEF EmbedFails, ExtractionFails, Suppress
<1>2. PerSlot' /\ Grounded' /\ Delta' = Delta /\ Extracted' = Extracted
  BY <1>1, Unobserved
<1>3. TypeOK'
  <2>1. embeddingHistory' \in {embeddingHistory, Embedded} /\ decision' \in Reasons
    BY DEF EmbedFails, ExtractionFails, Suppress, Reasons
  <2> QED  BY <1>1, <2>1, SettingsAssumption DEF TypeOK
<1>4. EntitiesFollowBuffer'
  <2>1. CASE Suppress
    <3>1. entities = Extracted
      BY <2>1, NoDelta DEF Suppress, Suppressed
    <3> QED  BY <1>1, <1>2, <3>1 DEF EntitiesFollowBuffer
  <2>2. CASE EmbedFails \/ ExtractionFails
    BY <2>2 DEF EmbedFails, ExtractionFails, EntitiesFollowBuffer
  <2> QED  BY <2>1, <2>2
<1> QED  BY <1>1, <1>2, <1>3, <1>4 DEF DeltaUsedUp, WaitsCounted

\* Passes that observe and do not retrieve
LEMMA ObservingStep ==
    ASSUME ControllerInv, OnChunk,
           ClassificationFails \/ WaitForNewEntity \/ RefuseToGuess \/ WaitForStability
    PROVE  ControllerInv'
<1> USE PassTypes DEF ControllerInv, NoRetrieval, Pass
<1>1. Observe /\ UNCHANGED <<hasRetrieved, topic, lastEvidence, answered, retrievals>>
  BY DEF ClassificationFails, WaitForNewEntity, RefuseToGuess, WaitForStability
<1>2. Delta' = {} /\ PerSlot' /\ Grounded' /\ EntitiesFollowBuffer' /\ DOMAIN entities' = Slots
  BY <1>1, Observed
<1>3. /\ waitCount' \in 0..MAX_WAIT_CHUNKS
      /\ waits' \in 0..passes'
      /\ ~hasRetrieved => waits' - waits = waitCount' - waitCount
  BY SettingsAssumption, SMTT(20), ZenonT(60)
  DEF TypeOK, ClassificationFails, WaitForNewEntity, RefuseToGuess, WaitForStability
<1>4. TypeOK'
  <2>1. decision' \in Reasons
    BY DEF ClassificationFails, WaitForNewEntity, RefuseToGuess, WaitForStability, Reasons
  <2>2. embeddingHistory' = Embedded
    BY <1>1 DEF Observe
  <2> QED  BY <1>1, <1>2, <1>3, <2>1, <2>2 DEF TypeOK
<1>5. WaitsCounted'
  BY <1>1, <1>3, SettingsAssumption, SMTT(20), ZenonT(60) DEF WaitsCounted, TypeOK
<1> QED  BY <1>1, <1>2, <1>4, <1>5 DEF DeltaUsedUp

\* Passes that retrieve: but for the forced one they need a delta.
LEMMA RetrievingStep ==
    ASSUME ControllerInv, OnChunk, Refine \/ ForceRetrieval \/ Retrieve
    PROVE  ControllerInv'
<1> USE PassTypes DEF ControllerInv, Pass
<1>1. Observe /\ waits' = 0
  BY DEF Refine, ForceRetrieval, Retrieve, Dispatch
<1>2. Delta' = {} /\ PerSlot' /\ Grounded' /\ EntitiesFollowBuffer' /\ DOMAIN entities' = Slots
  BY <1>1, Observed
<1>3. DeltaUsedUp' /\ retrievals' \in 0..passes'
  <2>1. CASE ForceRetrieval
    BY <1>2, <2>1 DEF ForceRetrieval, DeltaUsedUp, TypeOK
  <2>2. CASE Refine \/ Retrieve
    <3>1. Delta # {} /\ retrievals' = retrievals + 1
      BY <2>2 DEF Refine, Retrieve, OnTopic, Ready
    <3> QED  BY <1>2, <3>1 DEF DeltaUsedUp, TypeOK
  <2> QED  BY <2>1, <2>2
<1>4. /\ waitCount' \in {0, waitCount} /\ hasRetrieved' \in BOOLEAN
      /\ ~hasRetrieved' => waitCount' = 0
  BY DEF Refine, ForceRetrieval, Retrieve, TypeOK, OnTopic, HasTopic
<1>5. topic' \in Embeddings \cup {None} /\ lastEvidence' \in 0..passes' /\ answered' \in BOOLEAN
  <2>1. PICK fallback \in {0, lastEvidence} : Dispatch(fallback)
    BY DEF Refine, ForceRetrieval, Retrieve
  <2>2. topic' \in {topic, Chunk.embedding}
    BY <2>1 DEF Dispatch
  <2>3. lastEvidence' \in {0, lastEvidence, passes + 1}
    BY <2>1 DEF Dispatch
  <2>4. answered' \in {answered, TRUE}
    BY <2>1, Zenon DEF Dispatch
  <2>5. topic \in Embeddings \cup {None} /\ lastEvidence \in 0..passes /\ answered \in BOOLEAN
    BY DEF TypeOK
  <2>6. topic' \in Embeddings \cup {None}
    BY <2>2, <2>5
  <2>7. lastEvidence' \in 0..passes'
    BY <2>3, <2>5
  <2>8. answered' \in BOOLEAN
    BY <2>4, <2>5
  <2> QED  BY <2>6, <2>7, <2>8
<1>6. TypeOK'
  <2>1. decision' \in Reasons
    BY DEF Refine, ForceRetrieval, Retrieve, Reasons
  <2>2. embeddingHistory' = Embedded
    BY <1>1 DEF Observe
  <2> QED  BY <1>1, <1>2, <1>3, <1>4, <1>5, <2>1, <2>2, SettingsAssumption DEF TypeOK
<1>7. WaitsCounted'
  BY <1>1, <1>4 DEF WaitsCounted
<1> HIDE PassTypes DEF Pass
<1> QED  BY <1>2, <1>3, <1>6, <1>7, Zenon

LEMMA ControllerStep == ASSUME ControllerInv, [Next]_vars PROVE ControllerInv'
<1>1. CASE \E batch \in Batches : CommitBatch(batch)
  BY <1>1, CommitStep
<1>2. CASE OnChunk
  BY <1>2, QuietStep, ObservingStep, RetrievingStep DEF OnChunk
<1>3. CASE UNCHANGED vars
  <2> USE <1>3 DEF vars, ControllerInv
  <2>1. TypeOK'
    BY DEF TypeOK
  <2>2. PerSlot' /\ Grounded' /\ Delta' = Delta /\ Extracted' = Extracted
    BY Unobserved
  <2>3. DeltaUsedUp' /\ WaitsCounted'
    BY <2>2 DEF DeltaUsedUp, WaitsCounted
  <2>4. EntitiesFollowBuffer'
    BY <2>2 DEF EntitiesFollowBuffer
  <2> QED  BY <2>1, <2>2, <2>3, <2>4
<1> QED  BY <1>1, <1>2, <1>3 DEF Next

LEMMA ControllerInvariant == Spec => []ControllerInv
<1> QED  BY ControllerInit, ControllerStep, PTL DEF Spec

-----------------------------------------------------------------------------
(* Theorems *)

\* The session's state keeps its types; wait_count never exceeds MAX_WAIT_CHUNKS (on_chunk).
THEOREM ControllerTypeCorrect == Spec => []TypeOK
<1>1. ControllerInv => TypeOK
  BY DEF ControllerInv
<1> QED  BY <1>1, ControllerInvariant, PTL

\* However many chunks a session commits, and whichever passes raise or are suppressed:
\* until something was retrieved, MAX_WAIT_CHUNKS waits in a row are the limit (on_chunk).
THEOREM WaitsAreBounded == Spec => []NoStarvation
<1>1. ControllerInv => NoStarvation
  BY SettingsAssumption DEF ControllerInv, TypeOK, WaitsCounted, NoStarvation
<1> QED  BY <1>1, ControllerInvariant, PTL

\* After every pass that did not raise, the session knows exactly what the whole buffer
\* says of every slot, also what passes that raised have left out (entity_diff).
THEOREM EntitiesAreCurrent == Spec => []EntitiesFollowBuffer
<1>1. ControllerInv => EntitiesFollowBuffer
  BY DEF ControllerInv
<1> QED  BY <1>1, ControllerInvariant, PTL

\* A turn dispatches at most one retrieval that was not forced, however many chunks it
\* commits (on_chunk).
THEOREM TurnsRetrieveOnce == Spec => []OneRetrievalPerTurn
<1>1. ControllerInv => OneRetrievalPerTurn
  BY DEF ControllerInv, TypeOK, DeltaUsedUp, OneRetrievalPerTurn
<1> QED  BY <1>1, ControllerInvariant, PTL

=============================================================================
