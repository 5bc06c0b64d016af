------------------------------ MODULE AnswerPage ------------------------------
(***************************************************************************)
(* The answers of a session as its page shows them: the events of          *)
(* AnswerGeneration's turns, behind those the retrieval of a turn emits,   *)
(* folded by SessionReducer, and the cards that AnswerPanel makes of the   *)
(* result (src/frontend/src/components/answer/AnswerPanel.tsx).            *)
(*                                                                         *)
(* The events of a turn go to the socket its chunk came over, in order     *)
(* (StreamSession).  If that dies, the page hears the first of them, or    *)
(* none; the socket that replaces it begins with a SESSION_RESYNC.         *)
(***************************************************************************)
EXTENDS AnswerGeneration, SequencesExt

Reducer == INSTANCE SessionReducer

VARIABLE begun  \* history: for each turn where in eventLog it begins, how many versions
                \* there were, and what was reranked for it

pageVars == <<vars, begun>>

PageInit == Init /\ begun = <<>>

PageNext ==
    /\ Next
    /\ begun' = IF generations' = generations THEN begun
                ELSE Append(begun, [from |-> Len(eventLog) + 1,
                                    versions |-> Len(answer_versions),
                                    reranked |-> evidence' \cap retrieved'])

PageSpec == PageInit /\ [][PageNext]_pageVars /\ WF_vars(Consumer) /\ WF_vars(Tick)

-----------------------------------------------------------------------------
(* What a page hears of a turn *)

\* A turn of one sub-query, whose relevant chunks are all evidence.
Decided(i) == [kind |-> "RETRIEVAL_DECISION", decision |-> "RETRIEVE", trace |-> i]
SubqueryCreated(i) == [kind |-> "SUBQUERY_CREATED", subquery |-> i]
Searched(i, step, mode) == [kind |-> step, subquery |-> i, mode |-> mode]
Reranked(i) == [kind |-> "RERANK_COMPLETED", subquery |-> i, chunks |-> SetToSeq(begun[i].reranked)]

\* What it emits before stream_answer
Dispatched(i) ==
    << Decided(i), SubqueryCreated(i),
       Searched(i, "RETRIEVAL_STARTED", "dense"), Searched(i, "RETRIEVAL_STARTED", "sparse"),
       Searched(i, "RETRIEVAL_COMPLETED", "sparse"), Searched(i, "RETRIEVAL_COMPLETED", "dense"),
       Reranked(i) >>

\* An event of stream_answer with the payload the page reads.  A citation is told as
\* its chunk, without its id; a version's citations are told as their ids, which the
\* page files as citationChunkIds.
Payload(e, i) ==
    CASE e.kind = "UNCERTAINTY"      -> [kind |-> e.kind, subquery |-> i]
      [] e.kind = "ERROR"            -> [kind |-> e.kind, stage |-> "generation"]
      [] e.kind = "CITATION_CREATED" -> [kind |-> e.kind, chunk |-> e.what]
      [] e.kind = "ANSWER_DELTA"     -> [kind |-> e.kind, version_no |-> e.no, text_delta |-> e.what]
      [] e.kind = "ANSWER_VERSION_CREATED" ->
            LET v == answer_versions[e.no]
            IN  [kind |-> e.kind, version_no |-> e.no, text |-> v.text, citations |-> v.citations,
                 supersedes |-> v.supersedes]

Generated(i) ==
    LET upTo   == IF i = Len(begun) THEN Len(eventLog) ELSE begun[i + 1].from - 1
        events == SubSeq(eventLog, begun[i].from, upTo)
    IN  [k \in DOMAIN events |-> Payload(events[k], i)]

TurnEvents(i) == Dispatched(i) \o Generated(i)

\* The page after each event of turn i, page itself first
Pages(page, i) ==
    LET events == TurnEvents(i)
        pages[n \in 0..Len(events)] ==
            IF n = 0 THEN <<page>>
            ELSE LET before == pages[n - 1]
                 IN  Append(before, Reducer!applyEvent(Last(before), events[n]))
    IN  pages[Len(events)]

Resync(page) ==
    Reducer!applyEvent(page, [kind |-> "SESSION_RESYNC", latest |-> Len(answer_versions)])

\* The pages there may be when the chunk that brings turn i + 1 is sent: all of turn i
\* was heard, or not all of it and the connection is a new one.
PagesBehind(pages, i) ==
    LET heard(page) == Pages(page, i)
        next(page)  == {Last(heard(page))} \cup {Resync(p) : p \in ToSet(Front(heard(page)))}
    IN  {Reducer!ChunkSent(p, i) : p \in UNION {next(page) : page \in pages}}

\* A page that is new, and one that showed another session
NewPages ==
    LET new   == Reducer!createInitialSessionState
        other == [kind |-> "ANSWER_VERSION_CREATED", version_no |-> 1, text |-> <<None>>,
                  citations |-> <<>>, supersedes |-> None]
    IN  {new, Reducer!NewSessionStarted(Reducer!applyEvent(new, other))}

\* The pages there may be before the latest turn
PagesBefore ==
    LET before[i \in 1..Len(begun)] ==
            IF i = 1 THEN NewPages ELSE PagesBehind(before[i - 1], i - 1)
    IN  before[Len(begun)]

\* AnswerPanel's cards: the versions, and behind them the draft that is no version yet
Cards(page) ==
    LET history == page.answerHistory
        isVersion == \E i \in DOMAIN history : history[i].versionNo = page.answer.versionNo
    IN  IF page.answer.isStreaming /\ page.answer.text # <<>> /\ ~isVersion
        THEN Append(history, page.answer) ELSE history

-----------------------------------------------------------------------------
(* Properties *)

\* From its RETRIEVAL_DECISION on, the page shows of sub-queries, evidence and the
\* answer in progress what one that never heard another turn would show.
ShowsOneTurn(pages) ==
    LET fresh == Pages(Reducer!createInitialSessionState, Len(begun))
    IN  \A n \in 2..Len(pages) :
            /\ pages[n].currentTraceId = fresh[n].currentTraceId
            /\ pages[n].subqueries = fresh[n].subqueries
            /\ pages[n].evidence = fresh[n].evidence
            /\ pages[n].answer = fresh[n].answer

\* The cards are versions of this session, ascending and none twice; only the last
\* may be a draft, which is a beginning of the version of its number.
CardsAreVersions(page) ==
    LET cards == Cards(page)
    IN  \A i \in DOMAIN cards :
            /\ i > 1 => cards[i].versionNo > cards[i - 1].versionNo
            /\ cards[i].versionNo \in DOMAIN answer_versions
            /\ LET v == answer_versions[cards[i].versionNo]
               IN  IF cards[i].isStreaming
                   THEN i = Len(cards) /\ IsPrefix(cards[i].text, v.text)
                   ELSE cards[i].text = v.text /\ cards[i].citationChunkIds = v.citations

\* The chunks events say are cited, in order
Cited(events) ==
    LET chunks[n \in 0..Len(events)] ==
            IF n = 0 THEN <<>>
            ELSE IF events[n].kind = "CITATION_CREATED"
                 THEN Append(chunks[n - 1], events[n].chunk) ELSE chunks[n - 1]
    IN  chunks[Len(events)]

\* If the turn ends in a version, the page has its text already when it is announced,
\* heard of as many citations as the version has ids, and has a card of it from then on.
StreamedIsCommitted(pages) ==
    LET events == TurnEvents(Len(begun))
        v      == Last(events)
    IN  v.kind = "ANSWER_VERSION_CREATED" =>
            /\ Last(Front(pages)).answer.text = v.text
            /\ Len(Cited(events)) = Len(v.citations)
            /\ Last(Cards(Last(pages))).versionNo = v.version_no

\* Whatever the page heard of earlier turns, wherever connections were lost, and
\* whatever was regenerated, timed out or raised: it shows the answers of its session,
\* each once, a revision never mixed with what it revises, and when one is announced its
\* text is what was streamed and every citation it counts was told (sessionReducer,
\* stream_answer).  That is all there is to say of citations: their ids are told with
\* the version only and their chunks before it, so neither leads to the other.
PageShowsTheAnswers ==
    phase = "idle" /\ begun # <<>> =>
        \A before \in PagesBefore :
            LET pages == Pages(before, Len(begun))
            IN  /\ ShowsOneTurn(pages)
                /\ \A n \in DOMAIN pages : CardsAreVersions(pages[n])
                /\ StreamedIsCommitted(pages)

=============================================================================
