------------------------------ MODULE MCIngestion ------------------------------
(* Instances of Ingestion small enough for TLC. *)
EXTENDS Ingestion

\* Words are the numbers below 100.
SmallWords == 0..99
SmallMarks == 100..199

Line(kind_, tokens_) == [kind |-> kind_, tokens |-> tokens_]
Heading(title) == Line("heading", title)
Text(tokens_) == Line("text", tokens_)
Blank == Line("blank", <<>>)
Fence(mark) == Line("fence", <<mark>>)
Doc(id, lines_) == [doc_id |-> id, text |-> TRUE, lines |-> lines_]
Dir(docs) == [slotsValid |-> TRUE, documents |-> docs]

\* Two versions of a corpus with two chunks, the first of which they share, and
\* one that is refused.
First == Dir(<<Doc("a", <<Text(<<1, 2>>), Blank, Text(<<3, 4>>)>>)>>)
Second == Dir(<<Doc("a", <<Text(<<1, 2>>), Blank, Text(<<5, 6>>)>>)>>)
Unreadable == Dir(<<Doc("a", <<Text(<<1, 2>>)>>), [Doc("b", <<>>) EXCEPT !.text = FALSE]>>)

SmallSources ==
    [venues |-> {First, Second, Unreadable},
     menus  |-> {Dir(<<Doc("m", <<Text(<<9>>)>>)>>)}]

TwoSources == [venues |-> {First, Second}]

CorpusOrder == <<"menus", "venues">>
SmallCalls == {[corpora |-> <<"venues">>, force |-> FALSE],
               [corpora |-> <<"venues">>, force |-> TRUE]}
OneCorpus == <<"venues">>

\* All documents of up to four lines of these sorts.  Tokens are told apart by
\* the line they stand in; marks are no words.
Sorts == {"heading", "long heading", "blank", "fence", "word", "long", "mark"}
LineOf(i, sort) ==
    CASE sort = "heading"      -> Heading(<<10 * i>>)
      [] sort = "long heading" -> Heading([k \in 1..4 |-> 10 * i + k])
      [] sort = "blank"        -> Blank
      [] sort = "fence"        -> Fence(100 + i)
      [] sort = "word"         -> Text(<<10 * i>>)
      [] sort = "long"         -> Text([k \in 1..6 |-> 10 * i + k])
      [] sort = "mark"         -> Text(<<100 + i>>)
SmallDocuments ==
    {Doc("d", [i \in DOMAIN sorts |-> LineOf(i, sorts[i])]) : sorts \in BoundedSeq(Sorts, 4)}

=============================================================================
