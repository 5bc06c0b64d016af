-------------------------- MODULE EvidencePipeline --------------------------
(***************************************************************************)
(* What a retrieval turn does with an utterance, from its decomposition    *)
(* into sub-queries (src/app/decomposition/multi_intent.py) to the         *)
(* evidence the answer may cite (src/app/retrieval/fusion.py,              *)
(* src/app/reranking/cross_encoder.py, _fuse_and_rerank of                 *)
(* src/app/controller/retrieval_controller.py).                            *)
(*                                                                         *)
(* Embeddings are abstracted to which texts are alike (a cosine above the  *)
(* threshold; symmetric, not transitive), chunks to their tokens and to    *)
(* the entity and numbers they state, the reranker to any scores.          *)
(***************************************************************************)
EXTENDS Integers, Sequences, SequencesExt, FiniteSets, FiniteSetsExt

CONSTANTS
    Texts, AlikeTexts,          \* texts of sub-queries; pairs above MERGE_THRESHOLD
    Transcript,                 \* the utterance
    Proposals,                  \* what the decomposing model may answer with
    Chunks, AlikeChunks,        \* chunks; pairs above DEDUP_THRESHOLD
    Tokens,                     \* of a chunk
    NumericSlots, Entity, Value,\* of a chunk, what extract_entities finds in it
    Results,                    \* what a sub-query's two searches may return
    RerankScores, RRF_K, RERANK_CANDIDATES, MIN_RELEVANCE, FINAL_K,
    MAX_TOTAL_EVIDENCE, EVIDENCE_TOKEN_BUDGET,
    ScoreUnit,                  \* scale that makes reciprocal ranks integers
    None

Symmetric(pairs) == \A p \in pairs : <<p[2], p[1]>> \in pairs

ASSUME TextsAssumption == Proposals \subseteq Seq(Texts) /\ Symmetric(AlikeTexts)
ASSUME ChunksAssumption == Tokens \in [Chunks -> Nat] /\ Symmetric(AlikeChunks)
ASSUME ResultsAssumption ==
    \A r \in Results : \A list \in {r.dense, r.sparse} :
        /\ list \in Seq(Chunks) /\ IsInjective(list)
        /\ \A n \in DOMAIN list : ScoreUnit % (RRF_K + n) = 0
ASSUME ScoresAssumption == RerankScores \subseteq Int /\ {RRF_K, ScoreUnit} \subseteq Nat
ASSUME LimitsAssumption ==
    {RERANK_CANDIDATES, FINAL_K, MAX_TOTAL_EVIDENCE, EVIDENCE_TOKEN_BUDGET} \subseteq Nat
ASSUME NoneAssumption == None \notin Int \cup (Nat \X Nat) \cup Proposals

VARIABLES
    stage,      \* "heard", "decomposed", "fused", "deduped", "flagged", "done"
    proposal,   \* what the model answered, None if it was not asked or was no use
    errors,     \* decomposition_fallback events
    subqueries, \* SubQuery records: text and merged_from
    rows,       \* Evidence records; a row's id is its index
    kept,       \* per sub-query reranked so far, per_subquery_kept
    evidence    \* what the turn returns: ids of rows, best first

vars == <<stage, proposal, errors, subqueries, rows, kept, evidence>>

Init ==
    /\ stage = "heard"
    /\ proposal = None
    /\ errors = 0
    /\ subqueries = <<>>
    /\ rows = <<>>
    /\ kept = <<>>
    /\ evidence = <<>>

\* The members of S from first to last, by an order given as its pairs
Listed(S, before) ==
    [k \in 1..Cardinality(S) |->
        CHOOSE a \in S : Cardinality({b \in S : <<b, a>> \in before}) + 1 = k]

\* sorted(..., key=-key): stable, largest first
SortedBy(seq, key) ==
    LET before == {p \in (DOMAIN seq) \X (DOMAIN seq) :
                     \/ key[seq[p[1]]] > key[seq[p[2]]]
                     \/ (key[seq[p[1]]] = key[seq[p[2]]] /\ p[1] < p[2])}
        order == Listed(DOMAIN seq, before)
    IN  [k \in DOMAIN seq |-> seq[order[k]]]

\* [x for x in seq if x in S]
Those(seq, S) ==
    LET places == {a \in DOMAIN seq : seq[a] \in S}
        order == Listed(places, {p \in places \X places : p[1] < p[2]})
    IN  [k \in DOMAIN order |-> seq[order[k]]]

UpTo(seq, n) == SubSeq(seq, 1, IF n < Len(seq) THEN n ELSE Len(seq))

-----------------------------------------------------------------------------
(* Decomposition *)

AsksTheSame(t, u) == t = u \/ <<t, u>> \in AlikeTexts

\* Mutant: a sub-query that is like an earlier one is dropped.
DropIfAlike(seen, text) ==
    IF \E i \in DOMAIN seen : AsksTheSame(seen[i].text, text) THEN seen
    ELSE Append(seen, [text |-> text, merged_from |-> <<>>])

\* One step of merge_similar: compared with those kept, not with those absorbed.
MergeInto(seen, text) ==
    LET twins == {i \in DOMAIN seen : AsksTheSame(seen[i].text, text)}
    IN  IF twins = {} THEN Append(seen, [text |-> text, merged_from |-> <<>>])
        ELSE [seen EXCEPT ![Min(twins)].merged_from = Append(@, text)]

merge_similar(proposed) == FoldLeft(MergeInto, <<>>, proposed)

Fallback == <<[text |-> Transcript, merged_from |-> <<>>]>>

\* No compound signal: the model is not asked.
AskAsSpoken ==
    /\ stage = "heard"
    /\ stage' = "decomposed"
    /\ subqueries' = Fallback
    /\ UNCHANGED <<proposal, errors, rows, kept, evidence>>

\* The call fails, is late, or its answer has no usable sub-query.
FallBack ==
    /\ stage = "heard"
    /\ stage' = "decomposed"
    /\ errors' = errors + 1
    /\ subqueries' = Fallback
    /\ UNCHANGED <<proposal, rows, kept, evidence>>

Decompose(proposed) ==
    /\ stage = "heard"
    /\ proposed # <<>>
    /\ stage' = "decomposed"
    /\ proposal' = proposed
    /\ subqueries' = merge_similar(proposed)
    /\ UNCHANGED <<errors, rows, kept, evidence>>

-----------------------------------------------------------------------------
(* Fusion *)

\* What a list adds to the score of a chunk; the first place is 1 here.
Reciprocal(list, c) ==
    IF c \in ToSet(list) THEN ScoreUnit \div (RRF_K + SelectInSeq(list, LAMBDA d : d = c)) ELSE 0

\* rrf_fuse, for the results of one sub-query: dense chunks, then those of sparse only
RowsOf(q, result) ==
    LET found == result.dense \o Those(result.sparse, Chunks \ ToSet(result.dense))
    IN  [k \in DOMAIN found |->
            [subquery |-> q, chunk |-> found[k], rerank |-> None, duplicate_of |-> None,
             pair_id |-> None,
             fusion |-> Reciprocal(result.dense, found[k]) + Reciprocal(result.sparse, found[k])]]

rrf_fuse(results) == FlattenSeq([q \in DOMAIN results |-> RowsOf(q, results[q])])

SaysTheSame(c, d) == c = d \/ <<c, d>> \in AlikeChunks

Ids == [i \in DOMAIN rows |-> i]
Fusion == [i \in DOMAIN rows |-> rows[i].fusion]
Rerank == [i \in DOMAIN rows |-> rows[i].rerank]

\* Mutant: a row is compared with the rows seen so far, kept or not.
DedupAgainstSeen(acc, i) ==
    LET twins == {p \in DOMAIN acc.order : SaysTheSame(acc.rows[acc.order[p]].chunk, acc.rows[i].chunk)}
    IN  [order |-> Append(acc.order, i),
         rows |-> IF twins = {} THEN acc.rows
                  ELSE [acc.rows EXCEPT ![i].duplicate_of = acc.order[Min(twins)]]]

\* One step of dedup: `order` are the kept rows so far.
DedupStep(acc, i) ==
    LET twins == {p \in DOMAIN acc.order : SaysTheSame(acc.rows[acc.order[p]].chunk, acc.rows[i].chunk)}
    IN  IF twins = {} THEN [acc EXCEPT !.order = Append(@, i)]
        ELSE [acc EXCEPT !.rows[i].duplicate_of = acc.order[Min(twins)]]

\* From the best fused score down
dedup == FoldLeft(DedupStep, [order |-> <<>>, rows |-> rows], SortedBy(Ids, Fusion)).rows

Active == {i \in DOMAIN rows : rows[i].duplicate_of = None}

Disagree(c, d) ==
    /\ Entity[c] # None /\ Entity[c] = Entity[d]
    /\ \E s \in NumericSlots : Value[c][s] # None /\ Value[d][s] # None /\ Value[c][s] # Value[d][s]

\* Mutant: only the row that is being compared gets the id.
FlagFirst(rs, pair) ==
    LET a == rs[pair[1]]
    IN  IF Disagree(a.chunk, rs[pair[2]].chunk)
        THEN [rs EXCEPT ![pair[1]].pair_id = IF a.pair_id # None THEN a.pair_id ELSE pair] ELSE rs

\* One comparison of flag_contradictions; a new id is named by the pair it is made for.
FlagPair(rs, pair) ==
    LET a == rs[pair[1]]
        b == rs[pair[2]]
        id == IF a.pair_id # None THEN a.pair_id ELSE IF b.pair_id # None THEN b.pair_id ELSE pair
    IN  IF Disagree(a.chunk, b.chunk)
        THEN [rs EXCEPT ![pair[1]].pair_id = id, ![pair[2]].pair_id = id] ELSE rs

flag_contradictions ==
    LET active == Those(Ids, Active)
        pairs(i) == [j \in 1..(Len(active) - i) |-> <<active[i], active[i + j]>>]
    IN  FoldLeft(FlagPair, rows, FlattenSeq([i \in DOMAIN active |-> pairs(i)]))

Fuse(results) ==
    /\ stage = "decomposed"
    /\ stage' = "fused"
    /\ rows' = rrf_fuse(results)
    /\ UNCHANGED <<proposal, errors, subqueries, kept, evidence>>

Dedup ==
    /\ stage = "fused"
    /\ stage' = "deduped"
    /\ rows' = dedup
    /\ UNCHANGED <<proposal, errors, subqueries, kept, evidence>>

Flag ==
    /\ stage = "deduped"
    /\ stage' = "flagged"
    /\ rows' = flag_contradictions
    /\ UNCHANGED <<proposal, errors, subqueries, kept, evidence>>

-----------------------------------------------------------------------------
(* Reranking and the turn's evidence *)

Candidates(q) == Those(Ids, {i \in Active : rows[i].subquery = q})

\* rerank_subquery, the next sub-query's: the pool gets its scores, the best relevant
\* ones are kept.
RerankSubquery ==
    /\ stage = "flagged" /\ Len(kept) < Len(subqueries)
    /\ LET pool == UpTo(SortedBy(Candidates(Len(kept) + 1), Fusion), RERANK_CANDIDATES)
       IN  \E score \in [ToSet(pool) -> RerankScores] :
             LET relevant == Those(SortedBy(pool, score),
                                   {i \in DOMAIN score : score[i] >= MIN_RELEVANCE})
             IN  /\ rows' = [i \in DOMAIN rows |->
                               IF i \in DOMAIN score THEN [rows[i] EXCEPT !.rerank = score[i]] ELSE rows[i]]
                 /\ kept' = Append(kept, UpTo(relevant, FINAL_K))
    /\ UNCHANGED <<stage, proposal, errors, subqueries, evidence>>

AllKept == FlattenSeq(kept)

\* The best row of each sub-query that has one, best first
Floor ==
    LET contributing == Those(kept, {list \in ToSet(kept) : list # <<>>})
    IN  SortedBy([q \in DOMAIN contributing |-> Head(contributing[q])], Rerank)

\* Mutant: the best rows whosever they are.
BestRows == UpTo(SortedBy(AllKept, Rerank), MAX_TOTAL_EVIDENCE)

\* Mutant: the places left go to the sub-queries in turn, not to the best rows.
FillInOrder ==
    LET rest == Those(AllKept, DOMAIN rows \ ToSet(Floor))
    IN  IF Len(AllKept) <= MAX_TOTAL_EVIDENCE THEN SortedBy(AllKept, Rerank)
        ELSE SortedBy(UpTo(Floor \o rest, MAX_TOTAL_EVIDENCE), Rerank)

\* With as many places as the floor takes, or fewer, the floor itself is cut.
cap_global_evidence ==
    LET rest == Those(AllKept, DOMAIN rows \ ToSet(Floor))
    IN  IF Len(AllKept) <= MAX_TOTAL_EVIDENCE THEN SortedBy(AllKept, Rerank)
        ELSE SortedBy(UpTo(Floor \o SortedBy(rest, Rerank), MAX_TOTAL_EVIDENCE), Rerank)

TokensOf(ids) == FoldLeft(LAMBDA sum, i : sum + Tokens[rows[i].chunk], 0, ids)

\* Up to the first row that would exceed the budget
truncate_to_token_budget(ids) ==
    UpTo(ids, Max({n \in 0..Len(ids) : TokensOf(SubSeq(ids, 1, n)) <= EVIDENCE_TOKEN_BUDGET}))

Finish ==
    /\ stage = "flagged" /\ Len(kept) = Len(subqueries)
    /\ stage' = "done"
    /\ evidence' = truncate_to_token_budget(cap_global_evidence)
    /\ UNCHANGED <<proposal, errors, subqueries, rows, kept>>

Next ==
    \/ AskAsSpoken \/ FallBack
    \/ \E proposed \in Proposals : Decompose(proposed)
    \/ \E results \in [DOMAIN subqueries -> Results] : Fuse(results)
    \/ Dedup \/ Flag \/ RerankSubquery \/ Finish

Spec == Init /\ [][Next]_vars

-----------------------------------------------------------------------------
(* Properties *)

\* Where the texts a sub-query absorbed are t
Absorbed(i, t) == {n \in DOMAIN subqueries[i].merged_from : subqueries[i].merged_from[n] = t}

\* Whatever the model answers, there is something to search for; every intent it
\* proposed is searched for once, itself or as one that a sub-query like it absorbed;
\* and no two sub-queries ask the same (merge_similar, decompose).
EveryIntentAskedOnce ==
    stage = "decomposed" =>
        /\ subqueries # <<>>
        /\ \A i, j \in DOMAIN subqueries :
             i # j => ~AsksTheSame(subqueries[i].text, subqueries[j].text)
        /\ proposal # None =>
             \A t \in ToSet(proposal) :
                Cardinality({n \in DOMAIN proposal : proposal[n] = t}) =
                    Cardinality({i \in DOMAIN subqueries : subqueries[i].text = t})
                    + Cardinality(UNION {{<<i, n>> : n \in Absorbed(i, t)} : i \in DOMAIN subqueries})

\* Deduplication loses nothing and leaves nothing twice: a duplicate is represented by
\* a row that was itself kept, says the same and scored no less; kept rows say different
\* things, and so do those of the evidence, across sub-queries too (dedup,
\* _fuse_and_rerank's candidates).
NothingSaidTwice ==
    /\ stage = "deduped" =>
         /\ \A i \in DOMAIN rows \ Active :
              LET j == rows[i].duplicate_of
              IN  /\ j \in Active /\ SaysTheSame(rows[i].chunk, rows[j].chunk)
                  /\ Fusion[j] >= Fusion[i]
         /\ \A i, j \in Active : i # j => ~SaysTheSame(rows[i].chunk, rows[j].chunk)
    /\ \A i, j \in DOMAIN evidence :
         i # j => ~SaysTheSame(rows[evidence[i]].chunk, rows[evidence[j]].chunk)

\* Of two kept rows that give different numbers for the same entity, both are flagged
\* (flag_contradictions).
DisagreementsFlagged ==
    stage = "flagged" =>
        \A i, j \in Active :
            Disagree(rows[i].chunk, rows[j].chunk) =>
                rows[i].pair_id # None /\ rows[j].pair_id # None

\* A sub-query with relevant evidence keeps its best row, unless there are more such
\* sub-queries than places, or better rows fill the token budget: the floor of
\* cap_global_evidence survives everything but the cuts that come after it.
EverySubQueryHeard ==
    stage = "done" =>
        LET heard == {q \in DOMAIN kept : kept[q] # <<>>}
        IN  \A q \in heard :
              \/ Head(kept[q]) \in ToSet(evidence)
              \/ Cardinality(heard) > MAX_TOTAL_EVIDENCE
              \/ TokensOf(Those(AllKept, {i \in ToSet(AllKept) : Rerank[i] >= Rerank[Head(kept[q])]}))
                    > EVIDENCE_TOKEN_BUDGET

\* The evidence is in order of relevance, which the cut of truncate_to_token_budget
\* relies on, and a row is left out in favour of a worse one only if that is the best
\* of its own sub-query (cap_global_evidence).
BetterOnesFirst ==
    stage = "done" =>
        /\ \A i, j \in DOMAIN evidence : i < j => Rerank[evidence[i]] >= Rerank[evidence[j]]
        /\ \A i \in ToSet(AllKept) \ ToSet(evidence), j \in ToSet(evidence) :
             Rerank[i] > Rerank[j] => j \in ToSet(Floor)

=============================================================================
