------------------------- MODULE MCEvidencePipeline -------------------------
(* Instances of EvidencePipeline small enough for TLC. *)
EXTENDS EvidencePipeline

Both(pairs) == pairs \cup {<<p[2], p[1]>> : p \in pairs}

\* "parking" and "where to park" are alike, and so are the latter and "directions".
SmallAlikeTexts == Both({<<"parking", "where to park">>, <<"where to park", "directions">>})
SmallProposals ==
    { <<>>,
      <<"parking", "where to park">>,
      <<"parking", "directions", "where to park">>,
      <<"where to park", "parking", "directions", "where to park">>,
      <<"parking", "price", "directions">>,
      <<"parking", "price", "directions", "menu">> }

\* a and b are alike, b and c are alike; a, c, d and e are about one entity.
SmallAlikeChunks == Both({<<"a", "b">>, <<"b", "c">>})
SmallTokens == [a |-> 2, b |-> 1, c |-> 1, d |-> 1, e |-> 3, f |-> 1]
SmallEntity == [a |-> "hall", b |-> None, c |-> "hall", d |-> "hall", e |-> "hall", f |-> "club"]
Fact(capacity, price) == [capacity |-> capacity, price |-> price]
SmallValue ==
    [a |-> Fact(100, None), b |-> Fact(None, 7), c |-> Fact(120, 5), d |-> Fact(None, 6),
     e |-> Fact(100, None), f |-> Fact(90, 6)]

Found(dense, sparse) == [dense |-> dense, sparse |-> sparse]
SmallResults ==
    { Found(<<>>, <<>>), Found(<<"a", "b">>, <<"b", "f">>), Found(<<"c", "f">>, <<"b", "c">>),
      Found(<<"e">>, <<"a", "d", "f">>), Found(<<"f", "c">>, <<>>) }

=============================================================================
