------------------------- MODULE MCAnswerGeneration -------------------------
(* Instances of AnswerGeneration small enough for TLC. *)
EXTENDS AnswerPage, TLC

CONSTANTS k1, k2, k3, t1, t2, sound, doubtful

\* Two chunks go by one tag, the third by another.
MCTagOf == k1 :> t1 @@ k2 :> t1 @@ k3 :> t2
MCRank  == k1 :> 1 @@ k2 :> 2 @@ k3 :> 3

\* sound is right about the best chunk, doubtful about the third, but it cites
\* another one, too.
MCCites == [s \in Sentences |->
    IF s = sound THEN <<t1>> ELSE <<t2, t1>>]
MCSupports == [s \in Sentences |->
    IF s = sound THEN {k1} ELSE {k3}]

\* Less evidence than was retrieved; a tag without its best chunk; an earlier
\* turn's evidence, of which this turn retrieved nothing.
MCInputs == {<<{k1}, {k1, k2, k3}>>, <<{k2, k3}, {k1, k2, k3}>>, <<{k1, k3}, {k2}>>}

=============================================================================
