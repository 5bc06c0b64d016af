---------------------------- MODULE SessionReducer ----------------------------
(***************************************************************************)
(* How the page's state follows what the server tells it                   *)
(* (src/frontend/src/state/sessionReducer.ts): a pure function of the      *)
(* state and an action.  The text of an answer is the sequence of its      *)
(* deltas, joined by spaces.  Left out are the list of activities, which   *)
(* keeps every event, and the wording of decisions and errors.             *)
(***************************************************************************)
EXTENDS Integers, Sequences

CONSTANT None

Modes == {"dense", "sparse"}
StageIds == {"TRANSCRIPT", "CONTROLLER", "MULTI_INTENT", "RETRIEVAL", "RERANK", "GROUND", "ANSWER"}

NoAnswer == [versionNo |-> None, text |-> <<>>, citationChunkIds |-> <<>>, isStreaming |-> FALSE,
             supersedes |-> None]

createInitialSessionState ==
    [currentTraceId |-> None, stages |-> [s \in StageIds |-> "idle"], subqueries |-> <<>>,
     evidence |-> <<>>, answer |-> NoAnswer, answerHistory |-> <<>>, transcript |-> <<>>,
     resyncNotice |-> None, lastError |-> None]

setStage(page, stage, status) == [page EXCEPT !.stages[stage] = status]

TurnStages ==
    [s \in StageIds |-> IF s \in {"TRANSCRIPT", "CONTROLLER"} THEN "completed"
                        ELSE IF s = "MULTI_INTENT" THEN "active" ELSE "idle"]

\* Mutant: the answer of the turn before stays until it is replaced.
KeepAnswer(page, trace) ==
    [page EXCEPT !.currentTraceId = trace, !.subqueries = <<>>, !.evidence = <<>>,
                 !.stages = TurnStages]

startNewTurn(page, trace) ==
    [page EXCEPT !.currentTraceId = trace, !.subqueries = <<>>, !.evidence = <<>>,
                 !.answer = NoAnswer, !.stages = TurnStages]

\* The sub-query with this id is replaced by what f makes of it.
Updated(subqueries, id, f(_)) ==
    [i \in DOMAIN subqueries |-> IF subqueries[i].id = id THEN f(subqueries[i]) ELSE subqueries[i]]

Every(subqueries, done(_)) == subqueries # <<>> /\ \A i \in DOMAIN subqueries : done(subqueries[i])

allSubqueriesRetrieved(page) == Every(page.subqueries, LAMBDA s : s.completed = Modes)

allSubqueriesReranked(page) ==
    Every(page.subqueries, LAMBDA s : s.rerankedChunkIds # <<>> \/ s.uncertain)

-----------------------------------------------------------------------------
(* applyEvent, one operator per kind of event *)

OnDecision(page, e) ==
    CASE e.decision = "RETRIEVE"     -> startNewTurn(page, e.trace)
      [] e.decision = "WAIT"         -> setStage(page, "CONTROLLER", "waiting")
      [] e.decision = "NO_RETRIEVAL" -> setStage(page, "CONTROLLER", "completed")

OnSubquery(page, e) ==
    [page EXCEPT
        !.subqueries = Append(@, [id |-> e.subquery, started |-> {}, completed |-> {},
                                  rerankedChunkIds |-> <<>>, uncertain |-> FALSE]),
        !.stages["MULTI_INTENT"] = "completed",
        !.stages["RETRIEVAL"] = "active"]

OnRetrievalStarted(page, e) ==
    [page EXCEPT
        !.subqueries = Updated(@, e.subquery, LAMBDA s : [s EXCEPT !.started = @ \cup {e.mode}]),
        !.stages["RETRIEVAL"] = "active"]

OnRetrievalCompleted(page, e) ==
    LET next == [page EXCEPT !.subqueries =
                    Updated(@, e.subquery, LAMBDA s : [s EXCEPT !.completed = @ \cup {e.mode}])]
    IN  IF allSubqueriesRetrieved(next)
        THEN [next EXCEPT !.stages["RETRIEVAL"] = "completed", !.stages["RERANK"] = "active"]
        ELSE next

\* A sub-query without a relevant chunk counts as reranked only once it is uncertain.
OnReranked(page, e) ==
    LET rows == [i \in DOMAIN e.chunks |-> [chunk |-> e.chunks[i], subquery |-> e.subquery,
                                            cited |-> FALSE]]
        next == [page EXCEPT
                    !.subqueries = Updated(@, e.subquery,
                                           LAMBDA s : [s EXCEPT !.rerankedChunkIds = e.chunks]),
                    !.evidence = @ \o rows]
    IN  IF allSubqueriesReranked(next)
        THEN [next EXCEPT !.stages["RERANK"] = "completed", !.stages["GROUND"] = "active"]
        ELSE next

OnCitation(page, e) ==
    [page EXCEPT
        !.evidence = [i \in DOMAIN @ |-> IF @[i].chunk = e.chunk THEN [@[i] EXCEPT !.cited = TRUE]
                                         ELSE @[i]],
        !.stages["GROUND"] = "active"]

OnUncertainty(page, e) ==
    [page EXCEPT
        !.subqueries = Updated(@, e.subquery, LAMBDA s : [s EXCEPT !.uncertain = TRUE]),
        !.stages["GROUND"] = "active"]

OnDelta(page, e) ==
    [page EXCEPT
        !.answer.versionNo = e.version_no,
        !.answer.text = Append(@, e.text_delta),
        !.answer.isStreaming = TRUE,
        !.stages["ANSWER"] = "active"]

OnVersion(page, e) ==
    LET answer  == [versionNo |-> e.version_no, text |-> e.text, citationChunkIds |-> e.citations,
                    isStreaming |-> FALSE, supersedes |-> e.supersedes]
        history == page.answerHistory
        alreadyRecorded == \E i \in DOMAIN history : history[i].versionNo = e.version_no
    IN  [page EXCEPT
            !.answer = answer,
            !.answerHistory = IF alreadyRecorded THEN history ELSE Append(history, answer),
            !.stages["GROUND"] = "completed",
            !.stages["ANSWER"] = "completed"]

OnResync(page, e) == [page EXCEPT !.resyncNotice = [latestAnswerVersion |-> e.latest]]

\* Errors of other stages ("decomposition", "retrieval") only show.
OnError(page, e) ==
    LET shown == [page EXCEPT !.lastError = e.stage]
    IN  CASE e.stage \in {"controller", "stream"} -> setStage(shown, "CONTROLLER", "failed")
          [] e.stage = "generation"               -> setStage(shown, "ANSWER", "failed")
          [] OTHER                                -> shown

applyEvent(page, e) ==
    CASE e.kind = "RETRIEVAL_DECISION"     -> OnDecision(page, e)
      [] e.kind = "SUBQUERY_CREATED"       -> OnSubquery(page, e)
      [] e.kind = "RETRIEVAL_STARTED"      -> OnRetrievalStarted(page, e)
      [] e.kind = "RETRIEVAL_COMPLETED"    -> OnRetrievalCompleted(page, e)
      [] e.kind = "RERANK_COMPLETED"       -> OnReranked(page, e)
      [] e.kind = "CITATION_CREATED"       -> OnCitation(page, e)
      [] e.kind = "UNCERTAINTY"            -> OnUncertainty(page, e)
      [] e.kind = "ANSWER_DELTA"           -> OnDelta(page, e)
      [] e.kind = "ANSWER_VERSION_CREATED" -> OnVersion(page, e)
      [] e.kind = "SESSION_RESYNC"         -> OnResync(page, e)
      [] e.kind = "ERROR"                  -> OnError(page, e)

-----------------------------------------------------------------------------
(* The other actions *)

Rested == {"idle", "completed"}

ChunkSent(page, seq) ==
    [page EXCEPT
        !.transcript = Append(@, seq),
        !.stages["TRANSCRIPT"] = IF @ \in Rested THEN "active" ELSE @,
        !.stages["CONTROLLER"] = IF @ \in Rested THEN "waiting" ELSE @]

\* Mutant: a new session keeps the answers of the one before.
KeepHistory(page) == [page EXCEPT !.answer = NoAnswer]

\* The answers go; the rest of the page stays as it is.
NewSessionStarted(page) == [page EXCEPT !.answer = NoAnswer, !.answerHistory = <<>>]

=============================================================================
