-------------------------- MODULE AnswerGeneration --------------------------
(***************************************************************************)
(* stream_answer (src/app/generation/streaming_generator.py) with the      *)
(* grounding validator (src/app/grounding/citation_validator.py): the      *)
(* generations of one session, one after the other (StreamSession shows    *)
(* that they do not overlap).                                              *)
(*                                                                         *)
(* Two tasks run: the producer puts the model's tokens into a queue, the   *)
(* consumer takes them, cuts sentences off the text, validates each, asks  *)
(* the model once more for one that fails (the producer goes on meanwhile) *)
(* and publishes it.  A sentence is a model value; what the validator      *)
(* sees of it are the tags it cites and the chunks whose text supports it. *)
(* Time is counted in ticks: only its comparison with the timeout matters. *)
(***************************************************************************)
EXTENDS Integers, Sequences

CONSTANTS
    None,
    Chunks,             \* chunks of the corpus
    Tags,               \* citation tags: a document and a section
    tagOf,              \* tagOf[k]: the tag chunk k goes by
    rank,               \* rank[k]: place of k by fusion score, 1 is the best
    Sentences,          \* what a model may say, a fragment cut short included
    cites,              \* cites[s]: the tags in s, in order
    supports,           \* supports[s]: chunks s overlaps with by ENTAILMENT_MIN
    Inputs,             \* <<evidence, chunks retrieved>> a turn may come with
    TIMEOUT,            \* GENERATION_TIMEOUT_MS, in ticks
    MaxGenerations,     \* bound: generations
    MaxTokens,          \* bound: tokens in all
    MaxEnds,            \* bound: sentences one token ends
    MaxSubQueries       \* bound: sub-queries of a turn

ASSUME CorpusAssumption == /\ tagOf \in [Chunks -> Tags]
                           /\ rank \in [Chunks -> Nat]
                           /\ \A k, l \in Chunks : rank[k] = rank[l] => k = l
ASSUME SentencesAssumption == /\ cites \in [Sentences -> Seq(Tags)]
                              /\ supports \in [Sentences -> SUBSET Chunks]
ASSUME InputsAssumption == Inputs \subseteq (SUBSET Chunks) \X (SUBSET Chunks)
ASSUME BoundsAssumption == /\ TIMEOUT \in Nat \ {0} /\ MaxGenerations \in Nat
                           /\ MaxTokens \in Nat /\ MaxEnds \in Nat /\ MaxSubQueries \in Nat

Reasons == {"fabricated_id", "missing_citation", "low_entailment"}
ASSUME NoneAssumption == None \notin Sentences \cup Reasons \cup Chunks
ASSUME TextsAssumption == Sentences \cap Reasons = {}

VARIABLES
    answer_versions, \* session.answer_versions
    eventLog,        \* what the sink got
    generations,     \* number of generations begun
    phase,           \* where stream_answer stands: before, in or after its token loop
    evidence,        \* the turn's evidence, without its duplicates
    retrieved,       \* the chunks this turn's retrievals brought
    tokens,          \* number of tokens so far
    llm,             \* the producer's stream
    incoming,        \* the queue between producer and consumer
    closed,          \* whole sentences in buffer, not yet cut off
    fragment,        \* does buffer end in text that is not a whole sentence?
    draft,           \* the sentence that is being regenerated, or None
    sentences,       \* the answer's text so far
    citations,       \* and its citations: the chunk of each, in order
    waited,          \* ticks of the current wait_for
    said             \* history: whole sentences the model streamed

inputVars == <<evidence, retrieved>>
textVars  == <<closed, fragment, draft, sentences, citations>>
llmVars   == <<tokens, llm, incoming, said>>
vars == <<answer_versions, eventLog, generations, phase, inputVars, textVars,
          llmVars, waited>>

\* An uncertainty statement stands for its reason.
Texts == Sentences \cup Reasons

\* Some text the model sends: the sentences it ends, and whether it begins another.
Tokens == [ends : Seq(Sentences), opens : BOOLEAN]

Kinds == {"UNCERTAINTY", "ERROR", "CITATION_CREATED", "ANSWER_DELTA",
          "ANSWER_VERSION_CREATED"}
\* no: the answer version, or 0; what: a text, a chunk, or None.
Event(kind, no, what) == [kind |-> kind, no |-> no, what |-> what]
Events == [kind : Kinds, no : Nat, what : Texts \cup Chunks \cup {None}]

Versions == [version_no : Nat, supersedes : Nat \cup {None},
             text : Seq(Texts), citations : Seq(Nat \X Nat)]

TypeOK ==
    /\ answer_versions \in Seq(Versions)
    /\ eventLog \in Seq(Events)
    /\ generations \in 0..MaxGenerations
    /\ phase \in {"idle", "streaming", "closing"}
    /\ evidence \subseteq Chunks
    /\ retrieved \subseteq Chunks
    /\ tokens \in 0..MaxTokens
    /\ llm \in {"off", "open", "ended", "failed"}
    /\ incoming \in Seq(Tokens)
    /\ closed \in Seq(Sentences)
    /\ fragment \in BOOLEAN
    /\ draft \in Sentences \cup {None}
    /\ sentences \in Seq(Texts)
    /\ citations \in Seq(Chunks)
    /\ waited \in 0..TIMEOUT
    /\ said \in Seq(Sentences)

Init ==
    /\ answer_versions = <<>>
    /\ eventLog = <<>>
    /\ generations = 0
    /\ phase = "idle"
    /\ evidence = {}
    /\ retrieved = {}
    /\ tokens = 0
    /\ llm = "off"
    /\ incoming = <<>>
    /\ closed = <<>>
    /\ fragment = FALSE
    /\ draft = None
    /\ sentences = <<>>
    /\ citations = <<>>
    /\ waited = 0
    /\ said = <<>>

-----------------------------------------------------------------------------
(* The grounding validator *)

\* Mutant: whatever was retrieved may be cited, evidence or not.
RetrievedLookup == {k \in retrieved : \A l \in retrieved : tagOf[l] = tagOf[k] => rank[k] <= rank[l]}

\* evidence_by_tag: the evidence whose chunk this turn's retrievals brought, for
\* every tag the chunk with the best score.
Lookup ==
    LET known == evidence \cap retrieved
    IN  {k \in known : \A l \in known : tagOf[l] = tagOf[k] => rank[k] <= rank[l]}

Fabricates(s) == \E i \in DOMAIN cites[s] : cites[s][i] \notin {tagOf[k] : k \in Lookup}

\* The chunks s cites, in order, when it fabricates no tag.
Resolved(s) == [i \in DOMAIN cites[s] |-> CHOOSE k \in Lookup : tagOf[k] = cites[s][i]]

Supported(s) == \E i \in DOMAIN cites[s] : Resolved(s)[i] \in supports[s]

\* validate_sentence: "accept", or what is wrong with s.
Verdict(s) ==
    IF Fabricates(s) THEN "fabricated_id"
    ELSE IF cites[s] = <<>> THEN "missing_citation"
    ELSE IF ~Supported(s) THEN "low_entailment"
    ELSE "accept"

-----------------------------------------------------------------------------
(* Publishing *)

Emit(events) == eventLog' = eventLog \o events

\* The prior version's number, or 0.  It is read when the generation starts and
\* used to its end; the session's lock keeps it the latest.
PriorNo == IF answer_versions = <<>> THEN 0
           ELSE answer_versions[Len(answer_versions)].version_no

\* Mutant: a revised answer keeps the number of the one it revises.
RevisionNo == IF answer_versions = <<>> THEN 1 ELSE PriorNo

VersionNo == PriorNo + 1

\* new_id(): the id of the n-th citation of the answer in progress, told apart from
\* all others by the version it is for.  It says nothing of the citation's chunk.
CitationId(n) == <<VersionNo, n>>

CitationIds == [n \in DOMAIN citations |-> CitationId(n)]

\* An accepted sentence: its citations, then its delta.
PublishClaim(s) ==
    /\ Emit(Append([i \in DOMAIN cites[s] |-> Event("CITATION_CREATED", 0, Resolved(s)[i])],
                   Event("ANSWER_DELTA", VersionNo, s)))
    /\ sentences' = Append(sentences, s)
    /\ citations' = citations \o Resolved(s)

\* What could not be grounded is replaced by a statement that says so.
PublishUncertainty(reason) ==
    /\ Emit(<<Event("UNCERTAINTY", 0, reason), Event("ANSWER_DELTA", VersionNo, reason)>>)
    /\ sentences' = Append(sentences, reason)
    /\ UNCHANGED citations

\* finalize_sentence on the model's first version of a sentence; what fails is
\* sent back to the model.
Finalize(s) ==
    IF Verdict(s) = "accept"
      THEN PublishClaim(s) /\ UNCHANGED <<draft, waited>>
      ELSE /\ draft' = s
           /\ waited' = 0
           /\ UNCHANGED <<eventLog, sentences, citations>>

-----------------------------------------------------------------------------
(* The generation *)

BeginTurn ==
    /\ phase = "idle"
    /\ generations < MaxGenerations
    /\ generations' = generations + 1

\* No evidence, or none that is relevant enough (REQ-GROUND-02).
LackEvidence ==
    /\ BeginTurn
    /\ \E n \in 1..MaxSubQueries : Emit([i \in 1..n |-> Event("UNCERTAINTY", 0, None)])
    /\ UNCHANGED <<answer_versions, phase, inputVars, textVars, llmVars, waited>>

\* The turn's evidence may be of an earlier turn (a refinement that found
\* nothing); this turn's retrievals need not have brought it.
StartGeneration ==
    /\ BeginTurn
    /\ \E input \in Inputs :
         /\ input[1] # {}
         /\ evidence' = input[1]
         /\ retrieved' = input[2]
    /\ phase' = "streaming"
    /\ llm' = "open"
    /\ UNCHANGED <<answer_versions, eventLog, textVars, tokens, incoming, said, waited>>

\* The consumer awaits: a token, or a regenerated sentence.
Awaits == draft # None \/ (phase = "streaming" /\ closed = <<>>)

\* Nothing has arrived that the consumer could go on with.
Stalled == \/ draft # None
           \/ phase = "streaming" /\ closed = <<>> /\ incoming = <<>> /\ llm = "open"

\* The producer puts a token into the queue.
LlmSays(token) ==
    /\ Awaits
    /\ llm = "open"
    /\ tokens < MaxTokens
    /\ tokens' = tokens + 1
    /\ incoming' = Append(incoming, token)
    /\ said' = said \o token.ends
    /\ UNCHANGED <<answer_versions, eventLog, generations, phase, inputVars, textVars,
                   llm, waited>>

\* The model's stream ends or raises: the producer puts its end mark either way.
LlmStops ==
    /\ Awaits
    /\ llm = "open"
    /\ llm' \in {"ended", "failed"}
    /\ UNCHANGED <<answer_versions, eventLog, generations, phase, inputVars, textVars,
                   tokens, incoming, said, waited>>

\* Time passes for whoever waits.
Tick ==
    /\ Stalled
    /\ waited < TIMEOUT
    /\ waited' = waited + 1
    /\ UNCHANGED <<answer_versions, eventLog, generations, phase, inputVars, textVars, llmVars>>

AwaitsToken == phase = "streaming" /\ draft = None /\ closed = <<>>

\* Mutant: only the first sentence a token ends is cut off.
TakeTokenCutOne ==
    /\ AwaitsToken
    /\ incoming # <<>>
    /\ LET token == Head(incoming)
       IN  /\ closed' = (IF token.ends = <<>> THEN <<>> ELSE <<Head(token.ends)>>)
           /\ fragment' = (token.opens \/ (fragment /\ token.ends = <<>>))
    /\ incoming' = Tail(incoming)
    /\ waited' = 0
    /\ UNCHANGED <<answer_versions, eventLog, generations, phase, inputVars, draft,
                   sentences, citations, tokens, llm, said>>

\* The next token is added to the text, which its whole sentences are cut off.
TakeToken ==
    /\ AwaitsToken
    /\ incoming # <<>>
    /\ LET token == Head(incoming)
       IN  /\ closed' = token.ends
           /\ fragment' = (token.opens \/ (fragment /\ token.ends = <<>>))
    /\ incoming' = Tail(incoming)
    /\ waited' = 0
    /\ UNCHANGED <<answer_versions, eventLog, generations, phase, inputVars, draft,
                   sentences, citations, tokens, llm, said>>

TakeSentence ==
    /\ phase = "streaming"
    /\ draft = None
    /\ closed # <<>>
    /\ closed' = Tail(closed)
    /\ Finalize(Head(closed))
    /\ UNCHANGED <<answer_versions, generations, phase, inputVars, fragment, llmVars>>

\* The end mark; what the producer raised is raised again here.
EndOfStream ==
    /\ AwaitsToken
    /\ incoming = <<>>
    /\ llm \in {"ended", "failed"}
    /\ phase' = "closing"
    /\ llm' = "off"
    /\ Emit(IF llm = "failed" THEN <<Event("ERROR", 0, None)>> ELSE <<>>)
    /\ UNCHANGED <<answer_versions, generations, inputVars, textVars, tokens, incoming,
                   said, waited>>

\* No token in time: the producer is cancelled.
StreamTimesOut ==
    /\ AwaitsToken
    /\ Stalled
    /\ waited = TIMEOUT
    /\ phase' = "closing"
    /\ llm' = "off"
    /\ Emit(<<Event("ERROR", 0, None)>>)
    /\ UNCHANGED <<answer_versions, generations, inputVars, textVars, tokens, incoming,
                   said, waited>>

\* However the stream ended, text that is left is treated as a sentence.
TakeLeftover ==
    /\ phase = "closing"
    /\ draft = None
    /\ fragment
    /\ fragment' = FALSE
    /\ \E s \in Sentences : Finalize(s)
    /\ UNCHANGED <<answer_versions, generations, phase, inputVars, closed, llmVars>>

Regenerated ==
    /\ draft # None
    /\ draft' = None
    /\ waited' = 0
    /\ UNCHANGED <<answer_versions, generations, phase, inputVars, closed, fragment,
                   llmVars>>

\* The model's second version of a sentence is published or given up.
RegenerationAnswers(s) ==
    /\ Regenerated
    /\ IF Verdict(s) = "accept" THEN PublishClaim(s) ELSE PublishUncertainty(Verdict(s))

\* Without one, the first version's fault stands.
RegenerationFails ==
    /\ Regenerated
    /\ PublishUncertainty(Verdict(draft))

\* Mutant: the regeneration is awaited without a timeout.
RegenerationWaits ==
    /\ FALSE
    /\ UNCHANGED vars

RegenerationTimesOut ==
    /\ waited = TIMEOUT
    /\ RegenerationFails

\* stream_answer returns; what only it knew is gone.
Return ==
    /\ phase = "closing"
    /\ draft = None
    /\ ~fragment
    /\ phase' = "idle"
    /\ evidence' = {}
    /\ retrieved' = {}
    /\ sentences' = <<>>
    /\ citations' = <<>>
    /\ said' = <<>>
    /\ waited' = 0
    /\ UNCHANGED <<generations, closed, fragment, draft, tokens, llm, incoming>>

\* Mutant: of the text only the sentences the model completed are committed.
WholeSentences == SubSeq(sentences, 1, Len(said))

AnswerText == sentences

\* The version keeps the ids of its citations; CITATION_CREATED told the chunks.
Commit ==
    /\ Return
    /\ sentences # <<>>
    /\ answer_versions' = Append(answer_versions,
         [version_no |-> VersionNo,
          supersedes |-> IF answer_versions = <<>> THEN None ELSE PriorNo,
          text |-> AnswerText, citations |-> CitationIds])
    /\ Emit(<<Event("ANSWER_VERSION_CREATED", VersionNo, None)>>)

\* No sentence at all: no version, and no event either.
EndEmpty ==
    /\ Return
    /\ sentences = <<>>
    /\ UNCHANGED <<answer_versions, eventLog>>

\* Bounded: the tokens a model may stream.  Each ends or opens a sentence.
SomeTokens ==
    {token \in [ends : UNION {[1..n -> Sentences] : n \in 0..MaxEnds}, opens : BOOLEAN] :
        token.ends # <<>> \/ token.opens}

Consumer ==
    \/ TakeToken
    \/ TakeSentence
    \/ EndOfStream
    \/ StreamTimesOut
    \/ TakeLeftover
    \/ RegenerationTimesOut
    \/ Commit
    \/ EndEmpty

Next ==
    \/ LackEvidence
    \/ StartGeneration
    \/ \E token \in SomeTokens : LlmSays(token)
    \/ LlmStops
    \/ Tick
    \/ Consumer
    \/ \E s \in Sentences : RegenerationAnswers(s)
    \/ RegenerationFails

Spec == Init /\ [][Next]_vars

\* The event loop runs the consumer when it can go on, and time passes.  The
\* model is not fair: it may stall for good, in its stream and in a call.
FairSpec == Spec /\ WF_vars(Consumer) /\ WF_vars(Tick)

-----------------------------------------------------------------------------
(* Properties *)

\* Every sentence the model completes gets its place in the answer, a sound one
\* unchanged, also when the stream then breaks; at most the text it left
\* unfinished is added.
NothingSaidIsLost ==
    /\ phase # "idle" =>
         \A i \in DOMAIN sentences \cap DOMAIN said :
            Verdict(said[i]) = "accept" => sentences[i] = said[i]
    /\ phase = "closing" =>
         Len(sentences) + (IF draft # None \/ fragment THEN 1 ELSE 0)
            \in {Len(said), Len(said) + 1}

\* REQ-GROUND-01: with a sentence that is no uncertainty statement come, before
\* it, one citation for each of its tags, of evidence this turn retrieved and
\* goes by that tag, at least one of them supporting it.
ClaimsAreGrounded ==
    [][\A s \in Sentences :
         sentences' = Append(sentences, s) =>
           LET news == SubSeq(eventLog', Len(eventLog) + 1, Len(eventLog'))
               n    == Len(cites[s])
           IN  /\ n > 0 /\ Len(news) = n + 1
               /\ \A i \in 1..n : /\ news[i].kind = "CITATION_CREATED"
                                  /\ news[i].what \in evidence \cap retrieved
                                  /\ tagOf[news[i].what] = cites[s][i]
               /\ \E i \in 1..n : news[i].what \in supports[s]]_vars

\* A stalled model, in its stream or in a regeneration, does not hold the turn
\* (and with it the session's lock) for good.  It says nothing of a model that
\* never stops sending (MaxTokens): the code does not stop it.
GenerationEnds == (phase # "idle") ~> (phase = "idle")

\* The versions are an AnswerLog; see StreamSession for turns that compete.
Answers == INSTANCE AnswerLog WITH
    log <- [i \in DOMAIN answer_versions |->
              [version_no |-> answer_versions[i].version_no,
               supersedes |-> answer_versions[i].supersedes]]
ImplementsAnswerLog == Answers!Spec

=============================================================================
