------------------------------- MODULE Chunking -------------------------------
(***************************************************************************)
(* From a document to its chunks (src/scripts/ingest_corpus.py).  A text   *)
(* is the sequence of its tokens, of which Words are what the sparse index *)
(* can find; the others are punctuation marks.  A line has a kind and its  *)
(* tokens, for a heading those of its title.                               *)
(***************************************************************************)
EXTENDS Integers, Sequences, SequencesExt, FiniteSetsExt

CONSTANTS
    Words, Marks,          \* tokens
    CHUNK_MAX_TOKENS,      \* Settings
    CHUNK_OVERLAP_TOKENS

ASSUME ChunkingAssumption ==
    /\ CHUNK_MAX_TOKENS \in Nat \ {0} /\ CHUNK_OVERLAP_TOKENS \in Nat
    /\ CHUNK_OVERLAP_TOKENS < CHUNK_MAX_TOKENS

Texts == Seq(Words \cup Marks)
Lines == [kind : {"heading", "fence", "blank", "text"}, tokens : Texts]

-----------------------------------------------------------------------------
(* split_sections *)

AddLine(paragraphs, line) ==
    IF line.kind = "blank" THEN Append(paragraphs, <<>>)
    ELSE [paragraphs EXCEPT ![Len(paragraphs)] = @ \o line.tokens]

\* The paragraphs of a body: what stands between blank lines, which may be nothing.
Paragraphs(body) == FoldLeft(AddLine, << <<>> >>, body)

\* flush(): a section without a body is dropped, its number is used up.
Flush(scan) ==
    IF ToSet(Paragraphs(scan.body)) = { <<>> } THEN scan.sections
    ELSE Append(scan.sections,
                [label |-> scan.no, title |-> scan.title, body |-> Paragraphs(scan.body)])

ScanLine(scan, line) ==
    LET fence == (line.kind = "fence") # scan.fence
    IN  IF line.kind = "heading" /\ ~fence
        THEN [scan EXCEPT !.sections = Flush(scan), !.no = @ + 1,
                          !.title = line.tokens, !.body = <<>>]
        ELSE [scan EXCEPT !.body = Append(@, line), !.fence = fence]

NothingScanned == [no |-> 0, title |-> <<>>, body |-> <<>>, fence |-> FALSE, sections |-> <<>>]

SplitSections(lines) == Flush(FoldLeft(ScanLine, NothingScanned, lines))

-----------------------------------------------------------------------------
(* chunk_document *)

\* Mutant: windows do not overlap.
ShiftWholeWindow(paragraph, budget, overlap) ==
    LET n == Len(paragraph)
    IN  [k \in 1..((n + budget - 1) \div budget) |->
            SubSeq(paragraph, (k - 1) * budget + 1, Min({k * budget, n}))]

\* _windows: window k + 1 exists if window k does not reach the end.
Windows(paragraph, budget, overlap) ==
    LET n    == Len(paragraph)
        step == Max({budget - overlap, 1})
        more == {k \in 1..n : k * step < n /\ (k - 1) * step + budget < n}
    IN  [k \in 1..(Cardinality(more) + 1) |->
            SubSeq(paragraph, (k - 1) * step + 1, Min({(k - 1) * step + budget, n}))]

\* One round of _section_pieces: current is the text packed so far.
Pack(packed, paragraph, budget, overlap) ==
    LET closed == IF packed.current = <<>> THEN packed.pieces
                  ELSE Append(packed.pieces, packed.current)
    IN  CASE Len(paragraph) > budget ->
               [pieces |-> closed \o Windows(paragraph, budget, overlap), current |-> <<>>]
          [] Len(packed.current) + Len(paragraph) > budget /\ Len(paragraph) <= budget ->
               [pieces |-> closed, current |-> paragraph]
          [] OTHER -> [packed EXCEPT !.current = @ \o paragraph]

SectionPieces(body, budget, overlap) ==
    LET last == FoldLeft(LAMBDA packed, paragraph : Pack(packed, paragraph, budget, overlap),
                         [pieces |-> <<>>, current |-> <<>>], body)
    IN  IF last.current = <<>> THEN last.pieces ELSE Append(last.pieces, last.current)

HasWord(text) == \E i \in DOMAIN text : text[i] \in Words

Budget(section) == Max({CHUNK_MAX_TOKENS - Len(section.title), 1})

Overlap(section) == Min({CHUNK_OVERLAP_TOKENS, Budget(section) - 1})

\* A chunk is what make_chunk_id hashes: two chunks have one id iff they are equal.
\* A piece of punctuation only is none.
AddPiece(chunks, piece, corpus_id, doc_id, section) ==
    IF HasWord(piece)
    THEN Append(chunks, [corpus |-> corpus_id, doc |-> doc_id, section |-> section.label,
                         index |-> Len(chunks), text |-> section.title \o piece])
    ELSE chunks

AddSection(chunks, section, corpus_id, doc_id) ==
    FoldLeft(LAMBDA sofar, piece : AddPiece(sofar, piece, corpus_id, doc_id, section),
             chunks, SectionPieces(section.body, Budget(section), Overlap(section)))

ChunkDocument(corpus_id, document) ==
    FoldLeft(LAMBDA chunks, section : AddSection(chunks, section, corpus_id, document.doc_id),
             <<>>, SplitSections(document.lines))

-----------------------------------------------------------------------------
(* _prepare *)

\* Without a valid slots.yaml, without documents, with one that is not text or
\* two that map to one doc_id, or without any chunk, the corpus is refused:
\* no chunks.  A document without sections is skipped.
Loads(source) ==
    /\ source.slotsValid
    /\ source.documents # <<>>
    /\ \A i \in DOMAIN source.documents : source.documents[i].text
    /\ \A i, j \in DOMAIN source.documents :
         /\ i # j
         /\ SplitSections(source.documents[i].lines) # <<>>
         /\ SplitSections(source.documents[j].lines) # <<>>
         => source.documents[i].doc_id # source.documents[j].doc_id

Prepare(corpus_id, source) ==
    IF Loads(source)
    THEN FoldLeft(LAMBDA chunks, document : chunks \o ChunkDocument(corpus_id, document),
                  <<>>, source.documents)
    ELSE <<>>

-----------------------------------------------------------------------------
(* What the chunks of a document promise *)

\* The section a line belongs to, from the definition: how many headings that
\* are not in a code block stand up to it.
Fenced(lines, i) == Cardinality({j \in 1..(i - 1) : lines[j].kind = "fence"}) % 2 = 1
StartsSection(lines, i) == lines[i].kind = "heading" /\ ~Fenced(lines, i)
SectionOf(lines, i) == Cardinality({j \in 1..i : StartsSection(lines, j)})

\* A chunk has at most CHUNK_MAX_TOKENS tokens, its section's title included
\* (one more than the title if that leaves no room), and apart from the title
\* all of them come from its own section.
FitsItsSection(chunk, lines) ==
    LET own(starts) == {lines[i].tokens : i \in {j \in DOMAIN lines :
                            SectionOf(lines, j) = chunk.section /\ StartsSection(lines, j) = starts}}
        titles == own(TRUE)
    IN  /\ \/ Len(chunk.text) <= CHUNK_MAX_TOKENS
           \/ \E title \in titles : Len(chunk.text) = Len(title) + 1
        /\ ToSet(chunk.text) \subseteq UNION {ToSet(text) : text \in titles \cup own(FALSE)}

\* The phrase stands in the text in one piece.
Within(phrase, text) ==
    \E a \in 0..(Len(text) - Len(phrase)) : \A k \in DOMAIN phrase : text[a + k] = phrase[k]

\* No line is lost or gets into another section, but a heading and blank ones.
KeepsLines(lines) ==
    \A i \in DOMAIN lines :
        ~StartsSection(lines, i) /\ lines[i].kind # "blank" /\ lines[i].tokens # <<>> =>
            \E s \in ToSet(SplitSections(lines)) :
                /\ s.label = SectionOf(lines, i)
                /\ \E p \in ToSet(s.body) : Within(lines[i].tokens, p)

\* The phrase of a paragraph that begins at i, at most one token longer than the overlap
Phrase(p, i, overlap) == SubSeq(p, i, Min({i + overlap, Len(p)}))

\* No such phrase is cut in two, and with that no word is lost.
KeepsPhrases(chunks, lines) ==
    \A s \in ToSet(SplitSections(lines)) : \A p \in ToSet(s.body) : \A i \in DOMAIN p :
        HasWord(Phrase(p, i, Overlap(s))) =>
            \E chunk \in ToSet(chunks) :
                chunk.section = s.label /\ Within(Phrase(p, i, Overlap(s)), chunk.text)

=============================================================================
