------------------------ MODULE MCRetrievalController ------------------------
(* Instances of RetrievalController small enough for TLC. *)
EXTENDS RetrievalController

\* Three topics: "b" is a neighbour of "a" in the ambiguous zone, "c" is about
\* something else altogether.
Angle == [a |-> 0, b |-> 5, c |-> 9]
Topics == DOMAIN Angle
Distance(x, y) == IF Angle[x] > Angle[y] THEN Angle[x] - Angle[y] ELSE Angle[y] - Angle[x]
PercentSimilarity == [p \in Topics \X Topics |-> 100 - 10 * Distance(p[1], p[2])]

\* A chunk says something (or nothing) of one slot and may have one mark.
Says(topic_, value, mark) ==
    [embedding |-> topic_, entities |-> [s \in Slots |-> value],
     is_final |-> mark = "final", presentation |-> mark = "presentation",
     contrastive |-> mark = "contrastive"]

SmallChunks ==
    {Says(t, v, "") : t \in {"a", "c"}, v \in {None, "x", "y"}}
    \cup {Says("b", "x", ""), Says("a", "x", "final"), Says("b", None, "presentation"),
          Says("c", "y", "contrastive")}

\* Of the buffer only the chunks still to be passed, the values of the slots
\* and whether a presentation word occurs make a difference to any step or
\* property; of the history only what the stability window reaches; of the
\* evidence, whether there is any.
ControllerView ==
    <<SubSeq(buffer, passes + 1, Len(buffer)), Extracted, passes, entities,
      \E i \in DOMAIN buffer : buffer[i].presentation,
      SubSeq(embeddingHistory, Max({1, Len(embeddingHistory) - STABILITY_WINDOW + 1}),
             Len(embeddingHistory)),
      waitCount, hasRetrieved, topic, lastEvidence = 0, answered, decision, waits,
      retrievals>>

=============================================================================
