-------------------------- MODULE MCHybridRetrieval --------------------------
(* Instances of HybridRetrieval small enough for TLC. *)
EXTENDS HybridRetrieval

\* A turn with two sub-queries and another session's with one, about one corpus.
TwoTurns == [compound |-> <<"r1", "r2">>, simple |-> <<"r3">>]
TurnNames == DOMAIN TwoTurns
OneCorpus == [r \in {"r1", "r2", "r3"} |-> "venues"]

=============================================================================
