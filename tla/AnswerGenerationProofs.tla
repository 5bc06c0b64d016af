------------------------ MODULE AnswerGenerationProofs ------------------------
(***************************************************************************)
(* Proofs about the generations of AnswerGeneration and the page they are  *)
(* shown on, for any corpus, any sentences and evidence, and any timeout.  *)
(*                                                                         *)
(* A claim is grounded because Verdict accepted it against the evidence of *)
(* the turn that publishes it, with what the tags resolve to then.  That   *)
(* the versions form an answer log needs their numbers: the latest one's   *)
(* is their count (NumberInv).  A sentence is regenerated only while the   *)
(* evidence that refused it stands (DraftInv).  That nothing said is lost  *)
(* is no invariant by itself: it needs where each sentence is that has no  *)
(* place yet, in the text or in the queue behind it (SaidInv).             *)
(*                                                                         *)
(* For the page it takes an invariant of the whole log (LogInv): of every  *)
(* turn that is over, the log tells nothing of an answer, or its text, as  *)
(* many citations as it has ids, and then the version.  From there on all  *)
(* is about one state: induction on the events of a turn (StreamedPages)   *)
(* and on the turns (BeforeShows) shows that each page before, in and      *)
(* after a turn shows nothing but versions of the session (ShowsUpTo).     *)
(***************************************************************************)
EXTENDS AnswerPage, WellFoundedInduction, TLAPS

NumberInv == \A i \in 1..Len(answer_versions) : answer_versions[i].version_no = i

DraftInv ==
    /\ phase = "idle" => draft = None
    /\ draft # None => Verdict(draft) # "accept"

GenerationInv == TypeOK /\ NumberInv /\ DraftInv

(***************************************************************************)
(* The validator.                                                          *)
(***************************************************************************)

\* What an accepted sentence cites are chunks of the turn's evidence that this
\* turn retrieved, by its tags, and one of them supports it.
LEMMA AcceptedIsGrounded ==
    ASSUME NEW s \in Sentences, Verdict(s) = "accept"
    PROVE  /\ cites[s] \in Seq(Tags) /\ cites[s] # <<>>
           /\ DOMAIN Resolved(s) = DOMAIN cites[s]
           /\ \A i \in DOMAIN cites[s] :
                Resolved(s)[i] \in Lookup /\ tagOf[Resolved(s)[i]] = cites[s][i]
           /\ \E i \in DOMAIN cites[s] : Resolved(s)[i] \in supports[s]
<1>1. ~Fabricates(s) /\ cites[s] # <<>> /\ Supported(s)
  BY DEF Verdict
<1>2. cites[s] \in Seq(Tags)
  BY SentencesAssumption
<1>3. ASSUME NEW i \in DOMAIN cites[s]
      PROVE  Resolved(s)[i] \in Lookup /\ tagOf[Resolved(s)[i]] = cites[s][i]
  <2>1. \E k \in Lookup : tagOf[k] = cites[s][i]
    BY <1>1, <1>3 DEF Fabricates
  <2>2. Resolved(s)[i] = CHOOSE k \in Lookup : tagOf[k] = cites[s][i]
    BY <1>3 DEF Resolved
  <2> QED  BY <2>1, <2>2
<1>4. DOMAIN Resolved(s) = DOMAIN cites[s]
  BY DEF Resolved
<1> QED  BY <1>1, <1>2, <1>3, <1>4 DEF Supported

LEMMA LookupIsEvidence == Lookup \subseteq evidence \cap retrieved
BY DEF Lookup

LEMMA RefusalHasReason ==
    ASSUME NEW s \in Sentences, Verdict(s) # "accept"
    PROVE  Verdict(s) \in Reasons
BY DEF Verdict, Reasons

(***************************************************************************)
(* Types.                                                                  *)
(***************************************************************************)

LEMMA VersionNoType == TypeOK => PriorNo \in Nat /\ VersionNo \in Nat
<1> SUFFICES ASSUME TypeOK PROVE PriorNo \in Nat /\ VersionNo \in Nat
  OBVIOUS
<1>1. CASE answer_versions = <<>>
  BY <1>1 DEF PriorNo, VersionNo
<1>2. CASE answer_versions # <<>>
  <2>1. answer_versions[Len(answer_versions)] \in Versions
    BY <1>2 DEF TypeOK
  <2>2. answer_versions[Len(answer_versions)].version_no \in Nat
    BY <2>1 DEF Versions
  <2> QED  BY <1>2, <2>2 DEF PriorNo, VersionNo
<1> QED  BY <1>1, <1>2

\* There are as many ids as citations.
LEMMA CitationIdsType ==
    ASSUME TypeOK
    PROVE  CitationIds \in Seq(Nat \X Nat) /\ Len(CitationIds) = Len(citations)
<1>1. PICK n \in Nat : n = Len(citations) /\ DOMAIN citations = 1..n
  BY DEF TypeOK
<1>2. \A i \in 1..n : CitationId(i) \in Nat \X Nat
  BY VersionNoType DEF CitationId
<1>3. CitationIds = [i \in 1..n |-> CitationId(i)]
  BY <1>1 DEF CitationIds
<1>4. DOMAIN CitationIds = 1..n /\ CitationIds \in [1..n -> Nat \X Nat]
  BY <1>2, <1>3
<1> QED  BY <1>1, <1>4

LEMMA EventType ==
    ASSUME NEW kind \in Kinds, NEW no \in Nat, NEW what \in Texts \cup Chunks \cup {None}
    PROVE  Event(kind, no, what) \in Events
BY DEF Event, Events

LEMMA EmitType ==
    ASSUME TypeOK, NEW events \in Seq(Events), Emit(events)
    PROVE  eventLog' \in Seq(Events)
BY DEF TypeOK, Emit

LEMMA ClaimType ==
    ASSUME TypeOK, evidence \subseteq Chunks, NEW s \in Sentences, Verdict(s) = "accept",
           PublishClaim(s)
    PROVE  /\ eventLog' \in Seq(Events)
           /\ sentences' \in Seq(Texts)
           /\ citations' \in Seq(Chunks)
<1> DEFINE told == [i \in DOMAIN cites[s] |-> Event("CITATION_CREATED", 0, Resolved(s)[i])]
<1>1. cites[s] \in Seq(Tags) /\ DOMAIN cites[s] = 1..Len(cites[s])
  BY AcceptedIsGrounded
<1>2. \A i \in DOMAIN cites[s] : Resolved(s)[i] \in Chunks
  BY AcceptedIsGrounded, LookupIsEvidence
<1>3. Resolved(s) \in Seq(Chunks)
  <2>1. Resolved(s) \in [1..Len(cites[s]) -> Chunks]
    BY <1>1, <1>2 DEF Resolved
  <2> QED  BY <1>1, <2>1
<1>4. told \in Seq(Events)
  <2>1. \A i \in DOMAIN cites[s] : Event("CITATION_CREATED", 0, Resolved(s)[i]) \in Events
    BY <1>2, EventType DEF Kinds
  <2>2. told \in [1..Len(cites[s]) -> Events]
    BY <1>1, <2>1
  <2> QED  BY <1>1, <2>2
<1>5. Event("ANSWER_DELTA", VersionNo, s) \in Events
  BY EventType, VersionNoType DEF Kinds, Texts
<1> HIDE DEF told
<1>6. Append(told, Event("ANSWER_DELTA", VersionNo, s)) \in Seq(Events)
  BY <1>4, <1>5
<1>7. eventLog' \in Seq(Events)
  BY <1>6, EmitType DEF PublishClaim, told
<1> QED  BY <1>3, <1>7 DEF PublishClaim, TypeOK, Texts

LEMMA UncertaintyType ==
    ASSUME TypeOK, NEW reason \in Reasons, PublishUncertainty(reason)
    PROVE  /\ eventLog' \in Seq(Events)
           /\ sentences' \in Seq(Texts)
           /\ citations' \in Seq(Chunks)
<1> DEFINE told == <<Event("UNCERTAINTY", 0, reason), Event("ANSWER_DELTA", VersionNo, reason)>>
<1>1. told \in Seq(Events)
  <2>1. /\ Event("UNCERTAINTY", 0, reason) \in Events
        /\ Event("ANSWER_DELTA", VersionNo, reason) \in Events
    BY EventType, VersionNoType DEF Kinds, Texts
  <2> QED  BY <2>1
<1> HIDE DEF told
<1>2. eventLog' \in Seq(Events)
  BY <1>1, EmitType DEF PublishUncertainty, told
<1>3. reason \in Texts
  BY DEF Texts
<1> QED  BY <1>2, <1>3 DEF PublishUncertainty, TypeOK

LEMMA FinalizeType ==
    ASSUME TypeOK, NEW s \in Sentences, Finalize(s)
    PROVE  /\ eventLog' \in Seq(Events)
           /\ sentences' \in Seq(Texts)
           /\ citations' \in Seq(Chunks)
           /\ draft' \in Sentences \cup {None}
           /\ waited' \in 0..TIMEOUT
<1>1. CASE Verdict(s) = "accept"
  BY <1>1, ClaimType DEF Finalize, TypeOK
<1>2. CASE Verdict(s) # "accept"
  BY <1>2, BoundsAssumption DEF Finalize, TypeOK
<1> QED  BY <1>1, <1>2

LEMMA NoTypes == /\ <<>> \in Seq(Events) /\ <<>> \in Seq(Texts) /\ <<>> \in Seq(Chunks)
                 /\ <<>> \in Seq(Sentences) /\ <<>> \in Seq(Tokens) /\ <<>> \in Seq(Versions)
OBVIOUS

LEMMA TypeInit == Init => TypeOK
<1> SUFFICES ASSUME Init PROVE TypeOK
  OBVIOUS
<1>1. /\ answer_versions \in Seq(Versions) /\ eventLog \in Seq(Events)
      /\ incoming \in Seq(Tokens) /\ closed \in Seq(Sentences) /\ said \in Seq(Sentences)
      /\ sentences \in Seq(Texts) /\ citations \in Seq(Chunks)
  BY NoTypes DEF Init
<1>2. /\ generations \in 0..MaxGenerations /\ tokens \in 0..MaxTokens
      /\ waited \in 0..TIMEOUT
  BY BoundsAssumption DEF Init
<1> QED  BY <1>1, <1>2 DEF Init, TypeOK

LEMMA TypeStep ==
    ASSUME TypeOK, DraftInv, [Next]_vars
    PROVE  TypeOK'
<1>1. CASE LackEvidence
  <2>1. PICK n \in 1..MaxSubQueries : Emit([i \in 1..n |-> Event("UNCERTAINTY", 0, None)])
    BY <1>1 DEF LackEvidence
  <2>2. Event("UNCERTAINTY", 0, None) \in Events
    BY EventType DEF Kinds
  <2> DEFINE told == [i \in 1..n |-> Event("UNCERTAINTY", 0, None)]
  <2>3. told \in Seq(Events)
    BY <2>2, BoundsAssumption
  <2> HIDE DEF told
  <2>4. eventLog' \in Seq(Events)
    BY <2>1, <2>3, EmitType DEF told
  <2> QED
    BY <1>1, <2>4, BoundsAssumption
       DEF LackEvidence, BeginTurn, TypeOK, inputVars, textVars, llmVars
<1>2. CASE StartGeneration
  <2>1. evidence' \subseteq Chunks /\ retrieved' \subseteq Chunks
    <3>1. PICK input \in Inputs : evidence' = input[1] /\ retrieved' = input[2]
      BY <1>2 DEF StartGeneration
    <3> QED  BY <3>1, InputsAssumption
  <2> QED
    BY <1>2, <2>1, BoundsAssumption DEF StartGeneration, BeginTurn, TypeOK, textVars
<1>3. ASSUME NEW token \in SomeTokens, LlmSays(token) PROVE TypeOK'
  <2>1. token \in Tokens
    BY DEF SomeTokens, Tokens
  <2>2. token.ends \in Seq(Sentences)
    BY <2>1 DEF Tokens
  <2>3. incoming' \in Seq(Tokens) /\ said' \in Seq(Sentences)
    BY <1>3, <2>1, <2>2 DEF LlmSays, TypeOK
  <2>4. tokens' \in 0..MaxTokens
    BY <1>3, BoundsAssumption DEF LlmSays, TypeOK
  <2> QED
    BY <1>3, <2>3, <2>4 DEF LlmSays, TypeOK, inputVars, textVars
<1>4. CASE LlmStops
  BY <1>4 DEF LlmStops, TypeOK, inputVars, textVars
<1>5. CASE Tick
  <2>1. waited' \in 0..TIMEOUT
    BY <1>5, BoundsAssumption DEF Tick, TypeOK
  <2> QED
    BY <1>5, <2>1 DEF Tick, TypeOK, inputVars, textVars, llmVars
<1>6. CASE TakeToken
  <2>1. incoming \in Seq(Tokens) /\ incoming # <<>>
    BY <1>6 DEF TakeToken, TypeOK
  <2>2. Head(incoming) \in Tokens /\ Tail(incoming) \in Seq(Tokens)
    BY <2>1
  <2>3. Head(incoming).ends \in Seq(Sentences) /\ Head(incoming).opens \in BOOLEAN
    BY <2>2 DEF Tokens
  <2>4. closed' \in Seq(Sentences) /\ fragment' \in BOOLEAN
    BY <1>6, <2>3 DEF TakeToken, TypeOK
  <2> QED
    BY <1>6, <2>2, <2>4, BoundsAssumption DEF TakeToken, TypeOK, inputVars
<1>7. CASE TakeSentence
  <2>1. Head(closed) \in Sentences /\ Tail(closed) \in Seq(Sentences)
    BY <1>7 DEF TakeSentence, TypeOK
  <2>2. Finalize(Head(closed))
    BY <1>7 DEF TakeSentence
  <2> QED
    BY <1>7, <2>1, <2>2, FinalizeType DEF TakeSentence, TypeOK, inputVars, llmVars
<1>8. ASSUME NEW events \in Seq(Events), Emit(events), UNCHANGED <<answer_versions,
             generations, inputVars, textVars, tokens, incoming, said, waited>>,
             phase' = "closing", llm' = "off"
      PROVE  TypeOK'
  <2>1. eventLog' \in Seq(Events)
    BY <1>8, EmitType
  <2> QED  BY <1>8, <2>1 DEF TypeOK, inputVars, textVars
<1>9. <<Event("ERROR", 0, None)>> \in Seq(Events)
  <2>1. Event("ERROR", 0, None) \in Events
    BY EventType DEF Kinds
  <2> QED  BY <2>1
<1>10. CASE EndOfStream
  BY <1>8, <1>9, <1>10, NoTypes DEF EndOfStream
<1>11. CASE StreamTimesOut
  BY <1>8, <1>9, <1>11 DEF StreamTimesOut
<1>12. CASE TakeLeftover
  <2>1. PICK s \in Sentences : Finalize(s)
    BY <1>12 DEF TakeLeftover
  <2> QED
    BY <1>12, <2>1, FinalizeType DEF TakeLeftover, TypeOK, inputVars, llmVars
<1>13. ASSUME Regenerated, eventLog' \in Seq(Events), sentences' \in Seq(Texts),
              citations' \in Seq(Chunks)
       PROVE  TypeOK'
  BY <1>13, BoundsAssumption DEF Regenerated, TypeOK, inputVars, llmVars
<1>14. ASSUME NEW s \in Sentences, RegenerationAnswers(s) PROVE TypeOK'
  <2>1. CASE Verdict(s) = "accept"
    BY <1>13, <1>14, <2>1, ClaimType DEF RegenerationAnswers, TypeOK
  <2>2. CASE Verdict(s) # "accept"
    BY <1>13, <1>14, <2>2, UncertaintyType, RefusalHasReason DEF RegenerationAnswers
  <2> QED  BY <2>1, <2>2
<1>15. CASE RegenerationFails
  <2>1. draft \in Sentences /\ Verdict(draft) # "accept"
    BY <1>15 DEF RegenerationFails, Regenerated, TypeOK, DraftInv
  <2> QED
    BY <1>13, <1>15, <2>1, UncertaintyType, RefusalHasReason DEF RegenerationFails
<1>16. ASSUME Return, eventLog' \in Seq(Events), answer_versions' \in Seq(Versions)
       PROVE  TypeOK'
  BY <1>16, NoTypes, BoundsAssumption DEF Return, TypeOK
<1>17. CASE Commit
  <2> DEFINE version ==
        [version_no |-> VersionNo,
         supersedes |-> IF answer_versions = <<>> THEN None ELSE PriorNo,
         text |-> AnswerText, citations |-> CitationIds]
  <2>1. version \in Versions
    BY VersionNoType, CitationIdsType DEF Versions, AnswerText, TypeOK
  <2>2. answer_versions' = Append(answer_versions, version)
    BY <1>17 DEF Commit
  <2> HIDE DEF version
  <2>3. answer_versions' \in Seq(Versions)
    BY <2>1, <2>2 DEF TypeOK
  <2>4. Event("ANSWER_VERSION_CREATED", VersionNo, None) \in Events
    BY VersionNoType, EventType DEF Kinds
  <2>5. <<Event("ANSWER_VERSION_CREATED", VersionNo, None)>> \in Seq(Events)
    BY <2>4
  <2>6. eventLog' \in Seq(Events)
    BY <1>17, <2>5, EmitType DEF Commit
  <2> QED  BY <1>16, <1>17, <2>3, <2>6 DEF Commit
<1>18. CASE EndEmpty
  BY <1>16, <1>18 DEF EndEmpty, TypeOK
<1>19. CASE UNCHANGED vars
  BY <1>19 DEF vars, TypeOK, inputVars, textVars, llmVars
<1> QED
  BY <1>1, <1>2, <1>3, <1>4, <1>5, <1>6, <1>7, <1>10, <1>11, <1>12, <1>14, <1>15,
     <1>17, <1>18, <1>19 DEF Next, Consumer, RegenerationTimesOut

(***************************************************************************)
(* The invariant.                                                          *)
(***************************************************************************)

LEMMA SameVerdict ==
    ASSUME UNCHANGED inputVars, NEW s
    PROVE  Verdict(s)' = Verdict(s)
BY DEF inputVars, Verdict, Fabricates, Supported, Resolved, Lookup

LEMMA DraftStep ==
    ASSUME TypeOK, DraftInv, [Next]_vars
    PROVE  DraftInv'
<1>1. ASSUME UNCHANGED inputVars, UNCHANGED draft, phase' = "idle" => draft = None
      PROVE  DraftInv'
  <2>1. (Verdict(draft))' = Verdict(draft)
    BY <1>1 DEF inputVars, Verdict, Fabricates, Supported, Resolved, Lookup
  <2> QED  BY <1>1, <2>1 DEF DraftInv
<1>2. ASSUME draft' = None PROVE DraftInv'
  BY <1>2 DEF DraftInv
<1>3. ASSUME NEW s \in Sentences, Finalize(s), draft = None, UNCHANGED inputVars,
             phase' # "idle"
      PROVE  DraftInv'
  <2>1. CASE Verdict(s) = "accept"
    BY <1>2, <1>3, <2>1 DEF Finalize
  <2>2. CASE Verdict(s) # "accept"
    <3>1. draft' = s /\ Verdict(s)' # "accept"
      BY <1>3, <2>2, SameVerdict DEF Finalize
    <3> QED  BY <1>3, <3>1 DEF DraftInv
  <2> QED  BY <2>1, <2>2
<1>4. CASE LackEvidence \/ UNCHANGED vars
  BY <1>1, <1>4 DEF LackEvidence, textVars, vars, DraftInv
<1>5. CASE StartGeneration
  <2>1. draft' = None
    BY <1>5 DEF StartGeneration, BeginTurn, DraftInv, textVars
  <2> QED  BY <1>2, <2>1
<1>6. CASE LlmStops \/ Tick \/ \E token \in SomeTokens : LlmSays(token)
  BY <1>1, <1>6 DEF LlmStops, Tick, LlmSays, textVars, DraftInv
<1>7. CASE TakeToken \/ EndOfStream \/ StreamTimesOut
  BY <1>1, <1>7 DEF TakeToken, EndOfStream, StreamTimesOut, AwaitsToken, textVars
<1>8. CASE TakeSentence
  <2>1. Head(closed) \in Sentences
    BY <1>8 DEF TakeSentence, TypeOK
  <2> QED  BY <1>3, <1>8, <2>1 DEF TakeSentence
<1>9. CASE TakeLeftover
  BY <1>3, <1>9 DEF TakeLeftover
<1>10. CASE RegenerationFails \/ \E s \in Sentences : RegenerationAnswers(s)
  BY <1>2, <1>10 DEF RegenerationFails, RegenerationAnswers, Regenerated
<1>11. CASE Commit \/ EndEmpty
  BY <1>2, <1>11 DEF Commit, EndEmpty, Return
<1> QED
  BY <1>4, <1>5, <1>6, <1>7, <1>8, <1>9, <1>10, <1>11
     DEF Next, Consumer, RegenerationTimesOut

\* Nothing but a commit changes the versions.
LEMMA VersionsStep ==
    ASSUME [Next]_vars
    PROVE  Commit \/ UNCHANGED answer_versions
BY DEF Next, Consumer, RegenerationTimesOut, LackEvidence, StartGeneration, LlmSays,
       LlmStops, Tick, TakeToken, TakeSentence, EndOfStream, StreamTimesOut,
       TakeLeftover, RegenerationAnswers, RegenerationFails, Regenerated, EndEmpty, vars

\* The latest version's number is the count of all.
LEMMA PriorIsCount ==
    ASSUME TypeOK, NumberInv
    PROVE  PriorNo = Len(answer_versions) /\ Len(answer_versions) \in Nat
<1>1. answer_versions \in Seq(Versions)
  BY DEF TypeOK
<1>2. CASE answer_versions = <<>>
  BY <1>2 DEF PriorNo
<1>3. CASE answer_versions # <<>>
  <2>1. Len(answer_versions) \in 1..Len(answer_versions)
    BY <1>1, <1>3
  <2> QED  BY <1>1, <1>3, <2>1 DEF PriorNo, NumberInv
<1> QED  BY <1>2, <1>3

\* What a commit appends.
NewVersion == [version_no |-> VersionNo,
               supersedes |-> IF answer_versions = <<>> THEN None ELSE PriorNo,
               text |-> AnswerText, citations |-> CitationIds]

LEMMA CommitAppends ==
    ASSUME TypeOK, NumberInv, Commit
    PROVE  /\ answer_versions' = Append(answer_versions, NewVersion)
           /\ NewVersion.version_no = Len(answer_versions) + 1
           /\ NewVersion.supersedes = IF answer_versions = <<>> THEN None
                                      ELSE Len(answer_versions)
BY PriorIsCount DEF Commit, NewVersion, VersionNo

LEMMA NumberStep ==
    ASSUME TypeOK, NumberInv, [Next]_vars
    PROVE  NumberInv'
<1>1. CASE Commit
  <2>1. /\ answer_versions' = Append(answer_versions, NewVersion)
        /\ NewVersion.version_no = Len(answer_versions) + 1
        /\ answer_versions \in Seq(Versions)
    BY <1>1, CommitAppends DEF TypeOK
  <2>2. /\ Len(answer_versions') = Len(answer_versions) + 1
        /\ answer_versions'[Len(answer_versions) + 1] = NewVersion
        /\ \A i \in 1..Len(answer_versions) : answer_versions'[i] = answer_versions[i]
    BY <2>1
  <2> QED  BY <2>1, <2>2 DEF NumberInv
<1>2. CASE UNCHANGED answer_versions
  BY <1>2 DEF NumberInv
<1> QED  BY <1>1, <1>2, VersionsStep

LEMMA GenerationInvariant == Spec => []GenerationInv
<1>1. Init => GenerationInv
  BY TypeInit DEF GenerationInv, Init, NumberInv, DraftInv
<1>2. GenerationInv /\ [Next]_vars => GenerationInv'
  BY TypeStep, DraftStep, NumberStep DEF GenerationInv
<1> QED  BY <1>1, <1>2, PTL DEF Spec

(***************************************************************************)
(* The theorems.                                                           *)
(***************************************************************************)

\* Every variable of the generations keeps its type.
THEOREM GenerationTypeCorrect == Spec => []TypeOK
<1>1. GenerationInv => TypeOK
  BY DEF GenerationInv
<1> QED  BY <1>1, GenerationInvariant, PTL

\* No step changes the answer versions but a commit on top of the latest one.
THEOREM GenerationImplementsAnswerLog == Spec => ImplementsAnswerLog
<1> DEFINE Numbered(versions) ==
        [i \in DOMAIN versions |-> [version_no |-> versions[i].version_no,
                                    supersedes |-> versions[i].supersedes]]
<1>1. Init => Answers!Init
  BY DEF Init, Answers!Init
<1>2. ASSUME GenerationInv, [Next]_vars
      PROVE  [Answers!Supersede]_(Numbered(answer_versions))
  <2>1. CASE Commit
    <3>1. /\ answer_versions' = Append(answer_versions, NewVersion)
          /\ NewVersion.version_no = Len(answer_versions) + 1
          /\ NewVersion.supersedes = IF answer_versions = <<>> THEN None
                                     ELSE Len(answer_versions)
          /\ answer_versions \in Seq(Versions)
      BY <1>2, <2>1, CommitAppends DEF GenerationInv, TypeOK
    <3> DEFINE n == Len(answer_versions)
               log == Numbered(answer_versions)
               new == [version_no |-> n + 1,
                       supersedes |-> IF log = <<>> THEN None ELSE n]
    <3>2. /\ n \in Nat /\ DOMAIN answer_versions = 1..n
          /\ DOMAIN answer_versions' = 1..n + 1
          /\ answer_versions'[n + 1] = NewVersion
          /\ \A i \in 1..n : answer_versions'[i] = answer_versions[i]
      BY <3>1
    <3>3. log = <<>> <=> answer_versions = <<>>
      BY <3>1, <3>2
    <3>4. log \in Seq([version_no : {versions.version_no : versions \in Versions},
                       supersedes : {versions.supersedes : versions \in Versions}])
      BY <3>1, <3>2
    <3>5. Len(log) = n /\ Append(log, new) = [i \in 1..n + 1 |-> IF i = n + 1 THEN new ELSE log[i]]
      BY <3>2, <3>4
    <3>6. /\ NewVersion.version_no = new.version_no
          /\ NewVersion.supersedes = new.supersedes
      BY <3>1, <3>3
    <3>7. Numbered(answer_versions') = Append(log, new)
      <4> HIDE DEF new
      <4>1. new = [version_no |-> new.version_no, supersedes |-> new.supersedes]
        BY DEF new
      <4> QED  BY <3>2, <3>5, <3>6, <4>1
    <3> QED  BY <3>5, <3>7 DEF Answers!Supersede
  <2>2. CASE UNCHANGED answer_versions
    BY <2>2
  <2> QED  BY <1>2, <2>1, <2>2, VersionsStep
<1> QED
  BY <1>1, <1>2, GenerationInvariant, PTL DEF Spec, ImplementsAnswerLog, Answers!Spec

LEMMA WhatIsAppended ==
    ASSUME NEW S, NEW old \in Seq(S), NEW more \in Seq(S)
    PROVE  SubSeq(old \o more, Len(old) + 1, Len(old \o more)) = more
<1>1. Len(old \o more) = Len(old) + Len(more) /\ old \o more \in Seq(S)
  OBVIOUS
<1>2. ASSUME NEW i \in 1..Len(more) PROVE (old \o more)[Len(old) + i] = more[i]
  OBVIOUS
<1> DEFINE part == SubSeq(old \o more, Len(old) + 1, Len(old \o more))
<1>3. part \in Seq(S) /\ Len(part) = Len(more)
  BY <1>1
<1>4. ASSUME NEW i \in 1..Len(more) PROVE part[i] = more[i]
  BY <1>1, <1>2
<1> QED  BY <1>3, <1>4

\* A sentence of the model gets into the text only as an accepted claim.
LEMMA OnlyClaimsArePublished ==
    ASSUME GenerationInv, [Next]_vars, NEW s \in Sentences, sentences' = Append(sentences, s)
    PROVE  Verdict(s) = "accept" /\ PublishClaim(s)
<1>1. sentences \in Seq(Texts) /\ s \in Texts
  BY DEF GenerationInv, TypeOK, Texts
<1>2. sentences' # sentences /\ sentences' # <<>>
  BY <1>1
<1>3. ASSUME NEW reason \in Reasons, PublishUncertainty(reason) PROVE FALSE
  <2>1. Append(sentences, s) = Append(sentences, reason) /\ reason \in Texts
    BY <1>3 DEF PublishUncertainty, Texts
  <2>2. s = reason
    BY <1>1, <2>1
  <2> QED  BY <2>2, TextsAssumption
<1>4. ASSUME NEW t \in Sentences, PublishClaim(t), Verdict(t) = "accept"
      PROVE  Verdict(s) = "accept" /\ PublishClaim(s)
  <2>1. Append(sentences, s) = Append(sentences, t) /\ t \in Texts
    BY <1>4 DEF PublishClaim, Texts
  <2>2. s = t
    BY <1>1, <2>1
  <2> QED  BY <1>4, <2>2
<1>5. ASSUME NEW t \in Sentences, Finalize(t)
      PROVE  Verdict(s) = "accept" /\ PublishClaim(s)
  BY <1>2, <1>4, <1>5 DEF Finalize
<1>6. CASE TakeSentence
  <2>1. Head(closed) \in Sentences
    BY <1>6 DEF TakeSentence, GenerationInv, TypeOK
  <2> QED  BY <1>5, <1>6, <2>1 DEF TakeSentence
<1>7. CASE TakeLeftover
  BY <1>5, <1>7 DEF TakeLeftover
<1>8. ASSUME NEW t \in Sentences, RegenerationAnswers(t)
      PROVE  Verdict(s) = "accept" /\ PublishClaim(s)
  BY <1>3, <1>4, <1>8, RefusalHasReason DEF RegenerationAnswers
<1>9. CASE RegenerationFails
  <2>1. draft \in Sentences /\ Verdict(draft) # "accept"
    BY <1>9 DEF RegenerationFails, Regenerated, GenerationInv, DraftInv, TypeOK
  <2> QED  BY <1>3, <1>9, <2>1, RefusalHasReason DEF RegenerationFails
<1>10. CASE Commit \/ EndEmpty
  BY <1>2, <1>10 DEF Commit, EndEmpty, Return
<1>11. ASSUME UNCHANGED sentences PROVE FALSE
  BY <1>2, <1>11
<1> QED
  BY <1>6, <1>7, <1>8, <1>9, <1>10, <1>11
     DEF Next, Consumer, RegenerationTimesOut, LackEvidence, StartGeneration, LlmSays,
         LlmStops, Tick, TakeToken, EndOfStream, StreamTimesOut, textVars, vars

\* Whatever a model says, at first or when asked again, is published only with
\* a citation of this turn's evidence for each of its tags and with one that
\* supports it (REQ-GROUND-01).
THEOREM PublishedClaimsAreGrounded == Spec => ClaimsAreGrounded
<1> DEFINE News == SubSeq(eventLog', Len(eventLog) + 1, Len(eventLog'))
           Grounded(s) ==
             /\ Len(cites[s]) > 0 /\ Len(News) = Len(cites[s]) + 1
             /\ \A i \in 1..Len(cites[s]) :
                  /\ News[i].kind = "CITATION_CREATED"
                  /\ News[i].what \in evidence \cap retrieved
                  /\ tagOf[News[i].what] = cites[s][i]
             /\ \E i \in 1..Len(cites[s]) : News[i].what \in supports[s]
<1>1. ASSUME GenerationInv, [Next]_vars, NEW s \in Sentences,
             sentences' = Append(sentences, s)
      PROVE  Grounded(s)
  <2> DEFINE n == Len(cites[s])
             told == [i \in DOMAIN cites[s] |-> Event("CITATION_CREATED", 0, Resolved(s)[i])]
             delta == Event("ANSWER_DELTA", VersionNo, s)
  <2>1. Verdict(s) = "accept" /\ PublishClaim(s)
    BY <1>1, OnlyClaimsArePublished
  <2>2. /\ cites[s] \in Seq(Tags) /\ cites[s] # <<>>
        /\ \A i \in DOMAIN cites[s] :
             /\ Resolved(s)[i] \in evidence \cap retrieved
             /\ tagOf[Resolved(s)[i]] = cites[s][i]
        /\ \E i \in DOMAIN cites[s] : Resolved(s)[i] \in supports[s]
    BY <2>1, AcceptedIsGrounded, LookupIsEvidence
  <2>3. n \in Nat /\ n > 0 /\ DOMAIN cites[s] = 1..n
    BY <2>2
  <2>4. /\ delta \in Events
        /\ \A i \in 1..n : Event("CITATION_CREATED", 0, Resolved(s)[i]) \in Events
    <3>1. VersionNo \in Nat /\ s \in Texts
      BY <1>1, VersionNoType DEF GenerationInv, Texts
    <3>2. \A i \in 1..n : Resolved(s)[i] \in Chunks
      BY <1>1, <2>2, <2>3 DEF GenerationInv, TypeOK
    <3> QED  BY <3>1, <3>2, EventType DEF Kinds
  <2>5. /\ told \in Seq(Events) /\ Len(told) = n
        /\ \A i \in 1..n : told[i] = Event("CITATION_CREATED", 0, Resolved(s)[i])
    <3>1. told \in [1..n -> Events]
      BY <2>3, <2>4
    <3> QED  BY <2>3, <3>1
  <2> HIDE DEF told, delta
  <2>6. /\ Append(told, delta) \in Seq(Events) /\ Len(Append(told, delta)) = n + 1
        /\ \A i \in 1..n : Append(told, delta)[i] = told[i]
    BY <2>3, <2>4, <2>5
  <2>7. eventLog' = eventLog \o Append(told, delta) /\ eventLog \in Seq(Events)
    BY <1>1, <2>1 DEF PublishClaim, Emit, told, delta, GenerationInv, TypeOK
  <2>8. News = Append(told, delta)
    BY <2>6, <2>7, WhatIsAppended
  <2>9. \A i \in 1..n : News[i].kind = "CITATION_CREATED" /\ News[i].what = Resolved(s)[i]
    <3> HIDE DEF News
    <3> SUFFICES ASSUME NEW i \in 1..n
                 PROVE  News[i].kind = "CITATION_CREATED" /\ News[i].what = Resolved(s)[i]
      OBVIOUS
    <3>1. News[i] = Event("CITATION_CREATED", 0, Resolved(s)[i])
      BY <2>5, <2>6, <2>8
    <3> QED  BY <3>1 DEF Event
  <2> QED  BY <2>2, <2>3, <2>6, <2>8, <2>9
<1>2. GenerationInv /\ [Next]_vars =>
        [\A s \in Sentences : sentences' = Append(sentences, s) => Grounded(s)]_vars
  BY <1>1
<1> QED
  BY <1>2, GenerationInvariant, PTL DEF Spec, ClaimsAreGrounded

(***************************************************************************)
(* Where every sentence the model streamed is.                             *)
(***************************************************************************)

\* The sentences the validator accepts in this turn.
Sound == {s \in Sentences : Verdict(s) = "accept"}

\* Places of the answer that are taken: a draft waits for the next one.
Placed == Len(sentences) + (IF draft # None THEN 1 ELSE 0)

Follow(text, at, more) == \A i \in 1..Len(more) : text[at + i] = more[i]

\* cut[j]: how many sentences of said end with the j-th token of the queue.
IsCut(cut) ==
    /\ cut[0] = Placed + Len(closed)
    /\ cut[Len(incoming)] = Len(said)
    /\ \A j \in 1..Len(incoming) :
         /\ cut[j] = cut[j - 1] + Len(incoming[j].ends)
         /\ Follow(said, cut[j - 1], incoming[j].ends)

\* While the model streams, what it said is what is placed, then what is cut
\* off the text, then what is in the queue.
Streamed == phase = "streaming" =>
    /\ Placed + Len(closed) <= Len(said)
    /\ Follow(said, Placed, closed)
    /\ \E cut \in [0..Len(incoming) -> 0..Len(said)] : IsCut(cut)

\* Afterwards all of it has its place, and the unfinished text at most one more.
Closed == phase = "closing" =>
    /\ closed = <<>> /\ incoming = <<>>
    /\ Placed \in {Len(said), Len(said) + 1}
    /\ draft # None => Placed = Len(said) + 1
    /\ fragment => Placed = Len(said)

Forgotten == phase = "idle" => /\ said = <<>> /\ sentences = <<>> /\ closed = <<>>
                               /\ incoming = <<>> /\ ~fragment

\* A sound sentence stands where it was said; a draft stands for an unsound one.
Kept ==
    /\ \A i \in 1..Len(sentences) :
         i <= Len(said) /\ said[i] \in Sound => sentences[i] = said[i]
    /\ draft # None /\ Placed <= Len(said) => said[Placed] \notin Sound

SaidInv ==
    /\ llm # "off" <=> phase = "streaming"
    /\ Streamed /\ Closed /\ Forgotten /\ Kept

LEMMA SoundStays ==
    ASSUME UNCHANGED inputVars
    PROVE  Sound' = Sound
BY DEF Sound, inputVars, Verdict, Fabricates, Supported, Resolved, Lookup

LEMMA FinalizePlaces ==
    ASSUME NEW s \in Sentences, Finalize(s)
    PROVE  \/ s \in Sound /\ sentences' = Append(sentences, s) /\ draft' = draft
           \/ s \notin Sound /\ sentences' = sentences /\ draft' = s
BY DEF Finalize, PublishClaim, Sound

LEMMA RegeneratedPlaces ==
    ASSUME TypeOK, DraftInv,
           RegenerationFails \/ \E s \in Sentences : RegenerationAnswers(s)
    PROVE  /\ Regenerated
           /\ \E text \in Texts : sentences' = Append(sentences, text)
<1>1. CASE RegenerationFails
  <2>1. draft \in Sentences /\ Verdict(draft) # "accept"
    BY <1>1 DEF RegenerationFails, Regenerated, DraftInv, TypeOK
  <2>2. Verdict(draft) \in Texts
    BY <2>1, RefusalHasReason DEF Texts
  <2> QED  BY <1>1, <2>2 DEF RegenerationFails, PublishUncertainty
<1>2. ASSUME NEW s \in Sentences, RegenerationAnswers(s)
      PROVE  /\ Regenerated
             /\ \E text \in Texts : sentences' = Append(sentences, text)
  <2>1. CASE Verdict(s) = "accept"
    BY <1>2, <2>1 DEF RegenerationAnswers, PublishClaim, Texts
  <2>2. CASE Verdict(s) # "accept"
    <3>1. Verdict(s) \in Texts
      BY <2>2, RefusalHasReason DEF Texts
    <3> QED  BY <1>2, <2>2, <3>1 DEF RegenerationAnswers, PublishUncertainty
  <2> QED  BY <2>1, <2>2
<1> QED  BY <1>1, <1>2

\* Every step that leaves the text and the stream alone.
LEMMA SaidStays ==
    ASSUME SaidInv, UNCHANGED <<phase, inputVars, textVars, incoming, said>>,
           llm' # "off" <=> llm # "off"
    PROVE  SaidInv'
<1>1. Sound' = Sound
  BY SoundStays
<1>2. Placed' = Placed
  BY DEF Placed, textVars
<1> QED
  BY <1>1, <1>2 DEF SaidInv, Streamed, Closed, Forgotten, Kept, IsCut, Follow, textVars

LEMMA StartSaid ==
    ASSUME TypeOK, DraftInv, SaidInv, StartGeneration
    PROVE  SaidInv'
<1>1. /\ phase = "idle" /\ phase' = "streaming" /\ llm' = "open"
      /\ draft' = None /\ sentences' = <<>> /\ said' = <<>> /\ closed' = <<>>
      /\ incoming' = <<>>
  BY DEF StartGeneration, BeginTurn, DraftInv, SaidInv, Forgotten, textVars
<1>2. Placed' = 0
  BY <1>1 DEF Placed
<1>3. \E cut \in [0..0 -> 0..0] : cut[0] = 0
  <2>1. [j \in 0..0 |-> 0] \in [0..0 -> 0..0] /\ [j \in 0..0 |-> 0][0] = 0
    OBVIOUS
  <2> QED  BY <2>1
<1>4. Streamed'
  BY <1>1, <1>2, <1>3 DEF Streamed, IsCut, Follow
<1> QED  BY <1>1, <1>4 DEF SaidInv, Closed, Forgotten, Kept

LEMMA LlmSaysSaid ==
    ASSUME TypeOK, SaidInv, NEW token \in SomeTokens, LlmSays(token)
    PROVE  SaidInv'
<1> DEFINE n == Len(incoming)
           m == Len(said)
           e == Len(token.ends)
<1>1. token \in Tokens /\ token.ends \in Seq(Sentences)
  BY DEF SomeTokens, Tokens
<1>2. /\ incoming \in Seq(Tokens) /\ said \in Seq(Sentences) /\ closed \in Seq(Sentences)
      /\ sentences \in Seq(Texts)
      /\ n \in Nat /\ m \in Nat /\ e \in Nat /\ Len(closed) \in Nat /\ Len(sentences) \in Nat
  BY <1>1 DEF TypeOK
<1>3. /\ phase = "streaming" /\ llm = "open" /\ incoming' = Append(incoming, token)
      /\ said' = said \o token.ends
      /\ UNCHANGED <<phase, llm, inputVars, textVars>>
  BY DEF LlmSays, SaidInv
<1>4. /\ Len(incoming') = n + 1 /\ incoming'[n + 1] = token
      /\ \A j \in 1..n : incoming'[j] = incoming[j]
  BY <1>2, <1>3, <1>1
<1>5. /\ Len(said') = m + e
      /\ \A i \in 1..m : said'[i] = said[i]
      /\ \A i \in 1..e : said'[m + i] = token.ends[i]
  BY <1>2, <1>3, <1>1
<1>6. Placed' = Placed /\ Placed \in Nat /\ Sound' = Sound
  BY <1>2, <1>3, SoundStays DEF Placed, textVars
<1>7. PICK cut \in [0..n -> 0..m] : IsCut(cut)
  BY <1>3 DEF SaidInv, Streamed
<1>8. PICK next \in [0..(n + 1) -> 0..(m + e)] :
         next = [j \in 0..(n + 1) |-> IF j = n + 1 THEN m + e ELSE cut[j]]
  <2>1. [j \in 0..(n + 1) |-> IF j = n + 1 THEN m + e ELSE cut[j]]
          \in [0..(n + 1) -> 0..(m + e)]
    BY <1>2, <1>7
  <2> QED  BY <2>1
<1>9. /\ next[n + 1] = m + e
      /\ \A j \in 0..n : next[j] = cut[j] /\ cut[j] \in 0..m
  BY <1>2, <1>7, <1>8
<1>10. IsCut(next)'
  <2>1. next[0] = Placed' + Len(closed')
    BY <1>2, <1>3, <1>6, <1>7, <1>9 DEF IsCut, textVars
  <2>2. next[Len(incoming')] = Len(said')
    BY <1>4, <1>5, <1>9
  <2>3. ASSUME NEW j \in 1..(n + 1)
        PROVE  /\ next[j] = next[j - 1] + Len(incoming'[j].ends)
               /\ Follow(said', next[j - 1], incoming'[j].ends)
    <3>1. CASE j = n + 1
      <4>1. cut[n] = m
        BY <1>7 DEF IsCut
      <4>2. j - 1 = n /\ n \in 0..n
        BY <1>2, <3>1
      <4>3. next[j - 1] = m
        BY <1>9, <4>1, <4>2
      <4> QED  BY <1>4, <1>5, <1>9, <3>1, <4>3 DEF Follow
    <3>2. CASE j \in 1..n
      <4>1. /\ cut[j] = cut[j - 1] + Len(incoming[j].ends)
            /\ Follow(said, cut[j - 1], incoming[j].ends)
        BY <1>7, <3>2 DEF IsCut
      <4>2. j - 1 \in 0..n /\ j \in 0..n
        BY <1>2, <3>2
      <4>3. next[j] = cut[j] /\ next[j - 1] = cut[j - 1] /\ cut[j] \in 0..m /\ cut[j - 1] \in 0..m
        BY <1>9, <4>2
      <4>4. /\ incoming[j].ends \in Seq(Sentences) /\ Len(incoming[j].ends) \in Nat
            /\ incoming'[j] = incoming[j]
        <5>1. incoming[j] \in Tokens
          <6>1. incoming \in [1..n -> Tokens]
            BY <1>2
          <6> QED  BY <3>2, <6>1
        <5>2. incoming[j].ends \in Seq(Sentences)
          BY <5>1 DEF Tokens
        <5> QED  BY <1>4, <3>2, <5>2
      <4>5. ASSUME NEW i \in 1..Len(incoming[j].ends)
            PROVE  said'[cut[j - 1] + i] = incoming[j].ends[i]
        <5>1. cut[j - 1] + i \in 1..m
          <6>1. \A a, l \in Nat : \A b \in 0..m : \A k \in 1..l : b = a + l => a + k \in 1..m
            BY <1>2
          <6>2. cut[j - 1] \in Nat
            BY <1>2, <4>3
          <6> QED  BY <4>1, <4>3, <4>4, <6>1, <6>2
        <5> QED  BY <1>5, <4>1, <5>1 DEF Follow
      <4> QED  BY <4>1, <4>3, <4>4, <4>5 DEF Follow
    <3> QED  BY <1>2, <3>1, <3>2
  <2> QED  BY <1>4, <2>1, <2>2, <2>3 DEF IsCut
<1>11. Streamed'
  <2>1. \A i \in 1..Len(closed) : Placed + i \in 1..m /\ said[Placed + i] = closed[i]
    BY <1>2, <1>3, <1>6 DEF SaidInv, Streamed, Follow
  <2>2. Placed + Len(closed) <= m
    BY <1>3 DEF SaidInv, Streamed
  <2>3. closed' = closed
    BY <1>3 DEF textVars
  <2>4. Follow(said', Placed', closed')
    BY <1>5, <1>6, <2>1, <2>3 DEF Follow
  <2>5. Placed' + Len(closed') <= Len(said')
    BY <1>2, <1>5, <1>6, <2>2, <2>3
  <2>6. next \in [0..Len(incoming') -> 0..Len(said')]
    BY <1>4, <1>5, <1>8
  <2> QED  BY <2>4, <2>5, <2>6, <1>10 DEF Streamed
<1>12. Kept'
  <2>1. Placed <= m
    BY <1>2, <1>3, <1>6 DEF SaidInv, Streamed
  <2>2. Len(sentences) <= m /\ (draft # None => Placed \in 1..m)
    BY <1>2, <2>1 DEF Placed
  <2>3. sentences' = sentences /\ draft' = draft
    BY <1>3 DEF textVars
  <2>4. \A i \in 1..Len(sentences) : i \in 1..m
    BY <1>2, <2>2
  <2> QED
    BY <1>2, <1>5, <1>6, <2>1, <2>2, <2>3, <2>4 DEF SaidInv, Kept
<1> QED  BY <1>3, <1>11, <1>12 DEF SaidInv, Closed, Forgotten

LEMMA TakeTokenSaid ==
    ASSUME TypeOK, SaidInv, TakeToken
    PROVE  SaidInv'
<1> DEFINE n == Len(incoming)
           m == Len(said)
           ends == incoming[1].ends
<1>1. /\ phase = "streaming" /\ draft = None /\ closed = <<>> /\ incoming # <<>>
      /\ closed' = Head(incoming).ends /\ incoming' = Tail(incoming)
      /\ UNCHANGED <<phase, llm, inputVars, draft, sentences, said>>
  BY DEF TakeToken, AwaitsToken
<1>2. /\ incoming \in [1..n -> Tokens] /\ n \in Nat /\ n >= 1
      /\ said \in Seq(Sentences) /\ m \in Nat
      /\ Len(sentences) \in Nat
  BY <1>1 DEF TypeOK
<1>3. /\ closed' = ends /\ ends \in Seq(Sentences) /\ Len(ends) \in Nat
      /\ Len(incoming') = n - 1 /\ \A j \in 1..(n - 1) : incoming'[j] = incoming[j + 1]
  <2>1. Head(incoming) = incoming[1] /\ incoming[1] \in Tokens
    BY <1>1, <1>2
  <2>2. ends \in Seq(Sentences)
    BY <2>1 DEF Tokens
  <2>3. Len(Tail(incoming)) = n - 1 /\ \A j \in 1..(n - 1) : Tail(incoming)[j] = incoming[j + 1]
    BY <1>1, <1>2 DEF TypeOK
  <2> QED  BY <1>1, <2>1, <2>2, <2>3
<1>4. /\ Placed = Len(sentences) /\ Placed' = Placed /\ Sound' = Sound
  BY <1>1, <1>2, SoundStays DEF Placed
<1>5. PICK cut \in [0..n -> 0..m] : IsCut(cut)
  BY <1>1 DEF SaidInv, Streamed
<1>6. /\ cut[0] = Placed /\ cut[n] = m
      /\ cut[1] = Placed + Len(ends) /\ Follow(said, Placed, ends)
  <2>1. cut[0] = Placed /\ cut[n] = m
    BY <1>1, <1>2, <1>4, <1>5 DEF IsCut
  <2>2. 1 \in 1..n
    BY <1>2
  <2> QED  BY <1>5, <2>1, <2>2 DEF IsCut
<1>7. PICK next \in [0..(n - 1) -> 0..m] : next = [j \in 0..(n - 1) |-> cut[j + 1]]
  <2>1. [j \in 0..(n - 1) |-> cut[j + 1]] \in [0..(n - 1) -> 0..m]
    BY <1>2, <1>5
  <2> QED  BY <2>1
<1>8. IsCut(next)'
  <2>1. next[0] = Placed' + Len(closed')
    BY <1>2, <1>3, <1>4, <1>6, <1>7
  <2>2. next[Len(incoming')] = Len(said')
    BY <1>1, <1>2, <1>3, <1>6, <1>7
  <2>3. ASSUME NEW j \in 1..(n - 1)
        PROVE  /\ next[j] = next[j - 1] + Len(incoming'[j].ends)
               /\ Follow(said', next[j - 1], incoming'[j].ends)
    <3>1. j + 1 \in 1..n /\ next[j] = cut[j + 1] /\ next[j - 1] = cut[j]
      BY <1>2, <1>7
    <3>2. /\ cut[j + 1] = cut[(j + 1) - 1] + Len(incoming[j + 1].ends)
          /\ Follow(said, cut[(j + 1) - 1], incoming[j + 1].ends)
      BY <1>5, <3>1 DEF IsCut
    <3> QED  BY <1>1, <1>3, <3>1, <3>2
  <2> QED  BY <1>3, <2>1, <2>2, <2>3 DEF IsCut
<1>9. Streamed'
  <2>1. Placed' + Len(closed') <= Len(said')
    <3>1. cut[1] \in 0..m
      BY <1>2, <1>5
    <3> QED  BY <1>1, <1>3, <1>4, <1>6, <3>1
  <2>2. Follow(said', Placed', closed')
    BY <1>1, <1>3, <1>4, <1>6
  <2>3. next \in [0..Len(incoming') -> 0..Len(said')]
    BY <1>1, <1>3, <1>7
  <2> QED  BY <1>8, <2>1, <2>2, <2>3 DEF Streamed
<1> QED
  BY <1>1, <1>4, <1>9 DEF SaidInv, Closed, Forgotten, Kept

LEMMA TakeSentenceSaid ==
    ASSUME TypeOK, SaidInv, TakeSentence
    PROVE  SaidInv'
<1> DEFINE n == Len(sentences)
           m == Len(said)
<1>0. PICK s \in Sentences : s = Head(closed)
  BY DEF TakeSentence, TypeOK
<1>1. /\ phase = "streaming" /\ draft = None /\ closed # <<>>
      /\ closed' = Tail(closed) /\ Finalize(s)
      /\ UNCHANGED <<phase, llm, inputVars, incoming, said>>
  BY <1>0 DEF TakeSentence, llmVars
<1>2. /\ closed \in Seq(Sentences) /\ said \in Seq(Sentences) /\ sentences \in Seq(Texts)
      /\ n \in Nat /\ m \in Nat /\ Len(closed) \in Nat /\ Len(closed) >= 1
      /\ s = closed[1] /\ s # None
  BY <1>0, <1>1, NoneAssumption DEF TypeOK
<1>3. /\ Len(closed') = Len(closed) - 1
      /\ \A i \in 1..(Len(closed) - 1) : closed'[i] = closed[i + 1]
  BY <1>1, <1>2
<1>4. Placed = n /\ Sound' = Sound /\ n + Len(closed) <= m
  BY <1>1, <1>2, SoundStays DEF Placed, SaidInv, Streamed
<1>5. \A i \in 1..Len(closed) : said[n + i] = closed[i]
  BY <1>1, <1>4 DEF SaidInv, Streamed, Follow
<1>6. \/ /\ s \in Sound /\ draft' = None /\ Len(sentences') = n + 1 /\ sentences'[n + 1] = s
         /\ \A i \in 1..n : sentences'[i] = sentences[i]
      \/ s \notin Sound /\ sentences' = sentences /\ draft' = s
  <2>1. s \in Texts
    BY DEF Texts
  <2>2. \/ s \in Sound /\ sentences' = Append(sentences, s) /\ draft' = draft
        \/ s \notin Sound /\ sentences' = sentences /\ draft' = s
    BY <1>1, FinalizePlaces
  <2>3. ASSUME sentences' = Append(sentences, s)
        PROVE  /\ Len(sentences') = n + 1 /\ sentences'[n + 1] = s
               /\ \A i \in 1..n : sentences'[i] = sentences[i]
    BY <1>2, <2>1, <2>3
  <2> QED  BY <1>1, <2>2, <2>3
<1>7. Placed' = n + 1
  BY <1>2, <1>6 DEF Placed
<1>8. PICK cut \in [0..Len(incoming) -> 0..m] : IsCut(cut)
  BY <1>1 DEF SaidInv, Streamed
<1>9. IsCut(cut)'
  BY <1>1, <1>2, <1>3, <1>4, <1>7, <1>8 DEF IsCut, Follow
<1>10. Streamed'
  <2>1. Placed' + Len(closed') <= Len(said')
    BY <1>1, <1>2, <1>3, <1>4, <1>7
  <2>2. ASSUME NEW i \in 1..(Len(closed) - 1) PROVE said[(n + 1) + i] = closed'[i]
    <3>1. i + 1 \in 1..Len(closed) /\ n + (i + 1) = (n + 1) + i
      BY <1>2
    <3> QED  BY <1>3, <1>5, <3>1
  <2>3. Follow(said', Placed', closed')
    BY <1>1, <1>3, <1>7, <2>2 DEF Follow
  <2> QED  BY <1>1, <1>8, <1>9, <2>1, <2>3 DEF Streamed
<1>11. Kept'
  <2>1. said[n + 1] = s
    <3>1. 1 \in 1..Len(closed)
      BY <1>2
    <3> QED  BY <1>2, <1>5, <3>1
  <2>2. \A i \in 1..n : i <= m /\ said[i] \in Sound => sentences[i] = said[i]
    BY DEF SaidInv, Kept
  <2>3. CASE s \in Sound
    <3>1. /\ draft' = None /\ Len(sentences') = n + 1 /\ sentences'[n + 1] = s
          /\ \A i \in 1..n : sentences'[i] = sentences[i]
      BY <1>6, <2>3
    <3>2. \A i \in 1..(n + 1) : i \in 1..n \/ i = n + 1
      BY <1>2
    <3> QED  BY <1>1, <1>4, <2>1, <2>2, <3>1, <3>2 DEF Kept
  <2>4. CASE s \notin Sound
    <3>1. sentences' = sentences
      BY <1>6, <2>4
    <3> QED  BY <1>1, <1>4, <1>7, <2>1, <2>2, <2>4, <3>1 DEF Kept
  <2> QED  BY <2>3, <2>4
<1> QED  BY <1>1, <1>10, <1>11 DEF SaidInv, Closed, Forgotten

\* Nothing is cut off and nothing is queued any more.
LEMMA CloseSaid ==
    ASSUME TypeOK, SaidInv, EndOfStream \/ StreamTimesOut
    PROVE  SaidInv'
<1>1. /\ phase = "streaming" /\ draft = None /\ closed = <<>> /\ incoming = <<>>
      /\ phase' = "closing" /\ llm' = "off"
      /\ UNCHANGED <<inputVars, textVars, incoming, said>>
  BY DEF EndOfStream, StreamTimesOut, Stalled, AwaitsToken
<1>2. Len(said) \in Nat /\ Len(sentences) \in Nat
  BY DEF TypeOK
<1>3. Placed' = Placed /\ Placed = Len(sentences) /\ Sound' = Sound
  BY <1>1, SoundStays DEF Placed, textVars
<1>4. PICK cut \in [0..Len(incoming) -> 0..Len(said)] : IsCut(cut)
  BY <1>1 DEF SaidInv, Streamed
<1>5. Placed = Len(said)
  BY <1>1, <1>2, <1>3, <1>4 DEF IsCut
<1>6. Closed'
  BY <1>1, <1>3, <1>5 DEF Closed, textVars
<1> QED
  BY <1>1, <1>3, <1>6 DEF SaidInv, Streamed, Forgotten, Kept, textVars

LEMMA LeftoverSaid ==
    ASSUME TypeOK, SaidInv, TakeLeftover
    PROVE  SaidInv'
<1> DEFINE n == Len(sentences)
           m == Len(said)
<1>1. /\ phase = "closing" /\ draft = None /\ fragment /\ ~fragment'
      /\ UNCHANGED <<phase, llm, inputVars, closed, incoming, said>>
  BY DEF TakeLeftover, llmVars
<1>2. PICK s \in Sentences : Finalize(s)
  BY DEF TakeLeftover
<1>3. n \in Nat /\ m \in Nat /\ sentences \in Seq(Texts) /\ s \in Texts /\ s # None
  BY NoneAssumption DEF TypeOK, Texts
<1>4. Placed = n /\ n = m /\ Sound' = Sound /\ closed = <<>> /\ incoming = <<>>
  BY <1>1, SoundStays DEF Placed, SaidInv, Closed
<1>5. \/ /\ draft' = None /\ Len(sentences') = n + 1
         /\ \A i \in 1..n : sentences'[i] = sentences[i]
      \/ sentences' = sentences /\ draft' = s
  BY <1>1, <1>2, <1>3, FinalizePlaces
<1>6. Placed' = n + 1
  BY <1>3, <1>5 DEF Placed
<1>7. Closed'
  BY <1>1, <1>3, <1>4, <1>6 DEF Closed
<1>8. Kept'
  BY <1>1, <1>3, <1>4, <1>5, <1>6 DEF SaidInv, Kept
<1> QED  BY <1>1, <1>7, <1>8 DEF SaidInv, Streamed, Forgotten

LEMMA RegeneratedSaid ==
    ASSUME TypeOK, DraftInv, SaidInv,
           RegenerationFails \/ \E s \in Sentences : RegenerationAnswers(s)
    PROVE  SaidInv'
<1> DEFINE n == Len(sentences)
           m == Len(said)
<1>1. /\ draft # None /\ draft' = None
      /\ UNCHANGED <<phase, llm, inputVars, closed, fragment, incoming, said>>
  BY RegeneratedPlaces DEF Regenerated, llmVars
<1>2. PICK text \in Texts : sentences' = Append(sentences, text)
  BY RegeneratedPlaces
<1>3. n \in Nat /\ m \in Nat /\ sentences \in Seq(Texts)
  BY DEF TypeOK
<1>4. Len(sentences') = n + 1 /\ \A i \in 1..n : sentences'[i] = sentences[i]
  BY <1>2, <1>3
<1>5. Placed = n + 1 /\ Placed' = n + 1 /\ Sound' = Sound
  BY <1>1, <1>3, <1>4, SoundStays DEF Placed
<1>6. phase # "idle"
  BY <1>1 DEF DraftInv
<1>7. Streamed'
  BY <1>1, <1>5 DEF SaidInv, Streamed, IsCut, Follow
<1>8. Closed'
  BY <1>1, <1>3, <1>5 DEF SaidInv, Closed
<1>9. Kept'
  BY <1>1, <1>3, <1>4, <1>5 DEF SaidInv, Kept
<1> QED  BY <1>1, <1>6, <1>7, <1>8, <1>9 DEF SaidInv, Forgotten

LEMMA ReturnSaid ==
    ASSUME TypeOK, SaidInv, Return
    PROVE  SaidInv'
<1>1. /\ phase = "closing" /\ phase' = "idle" /\ llm' = llm /\ draft' = None /\ ~fragment'
      /\ said' = <<>> /\ sentences' = <<>> /\ closed' = closed /\ incoming' = incoming
  BY DEF Return
<1>2. closed = <<>> /\ incoming = <<>> /\ llm = "off"
  BY <1>1 DEF SaidInv, Closed
<1> QED  BY <1>1, <1>2 DEF SaidInv, Streamed, Closed, Forgotten, Kept

LEMMA SaidStep ==
    ASSUME TypeOK, DraftInv, SaidInv, [Next]_vars
    PROVE  SaidInv'
<1>1. CASE LackEvidence \/ LlmStops \/ Tick \/ UNCHANGED vars
  <2>1. UNCHANGED <<phase, inputVars, textVars, incoming, said>>
    BY <1>1 DEF LackEvidence, LlmStops, Tick, vars, llmVars
  <2>2. llm' # "off" <=> llm # "off"
    BY <1>1 DEF LackEvidence, LlmStops, Tick, vars, llmVars
  <2> QED  BY <2>1, <2>2, SaidStays
<1>2. CASE Commit \/ EndEmpty
  BY <1>2, ReturnSaid DEF Commit, EndEmpty
<1>3. CASE RegenerationFails \/ \E s \in Sentences : RegenerationAnswers(s)
  BY <1>3, RegeneratedSaid
<1> QED
  BY <1>1, <1>2, <1>3, StartSaid, LlmSaysSaid, TakeTokenSaid, TakeSentenceSaid, CloseSaid,
     LeftoverSaid DEF Next, Consumer, RegenerationTimesOut

\* No sentence a model streamed is dropped, doubled or moved on its way through
\* the queue, the text and the validator, however the stream ends and however
\* often the model is asked again: each has its place, a sound one unchanged.
THEOREM EverythingSaidHasItsPlace == Spec => []NothingSaidIsLost
<1>1. Init => SaidInv
  BY DEF Init, SaidInv, Streamed, Closed, Forgotten, Kept
<1>2. GenerationInv /\ SaidInv /\ [Next]_vars => SaidInv'
  BY SaidStep DEF GenerationInv
<1>3. GenerationInv /\ SaidInv => NothingSaidIsLost
  <2> SUFFICES ASSUME GenerationInv, SaidInv PROVE NothingSaidIsLost
    OBVIOUS
  <2>1. sentences \in Seq(Texts) /\ said \in Seq(Sentences)
    BY DEF GenerationInv, TypeOK
  <2>2. ASSUME NEW i \in DOMAIN sentences \cap DOMAIN said, Verdict(said[i]) = "accept"
        PROVE  sentences[i] = said[i]
    <3>1. i \in 1..Len(sentences) /\ i <= Len(said) /\ said[i] \in Sentences
      BY <2>1
    <3>2. said[i] \in Sound
      BY <2>2, <3>1 DEF Sound
    <3> QED  BY <3>1, <3>2 DEF SaidInv, Kept
  <2>3. ASSUME phase = "closing"
        PROVE  Len(sentences) + (IF draft # None \/ fragment THEN 1 ELSE 0)
                 \in {Len(said), Len(said) + 1}
    <3>1. Len(sentences) \in Nat /\ Len(said) \in Nat
      BY <2>1
    <3> QED  BY <2>3, <3>1 DEF SaidInv, Closed, Placed
  <2> QED  BY <2>2, <2>3 DEF NothingSaidIsLost
<1> QED  BY <1>1, <1>2, <1>3, GenerationInvariant, PTL DEF Spec

(***************************************************************************)
(* Induction.                                                              *)
(***************************************************************************)

\* A set with 0 and with every successor of its members has all numbers.
LEMMA SetInduction ==
    ASSUME NEW S, 0 \in S, \A n \in Nat : n \in S => n + 1 \in S
    PROVE  Nat \subseteq S
<1> DEFINE T == Nat \ S
           Less == {p \in Nat \X Nat : p[1] < p[2]}
<1> SUFFICES ASSUME T # {} PROVE FALSE
  OBVIOUS
<1>1. IsWellFoundedOn(Less, Nat)
  BY NatLessThanWellFounded DEF OpToRel
<1>2. T \subseteq Nat
  OBVIOUS
<1>3. PICK m \in T : \A t \in T : <<t, m>> \notin Less
  <2> HIDE DEF T, Less
  <2> QED  BY <1>1, <1>2, WFMin
<1>4. m \in Nat /\ m # 0 /\ m - 1 \in Nat
  OBVIOUS
<1>5. <<m - 1, m>> \in Less
  BY <1>4
<1>6. m - 1 \notin T
  BY <1>3, <1>5
<1>7. (m - 1) + 1 \in S
  BY <1>4, <1>6
<1> QED  BY <1>4, <1>7

\* What holds of 0 and of the next number up to n holds of n.
LEMMA UpToN ==
    ASSUME NEW n \in Nat, NEW S, 0 \in S, \A i \in 1..n : i - 1 \in S => i \in S
    PROVE  \A i \in 0..n : i \in S
<1> DEFINE T == {i \in Nat : i <= n => i \in S}
<1>1. 0 \in T
  OBVIOUS
<1>2. ASSUME NEW i \in Nat, i \in T PROVE i + 1 \in T
  <2>1. ASSUME i + 1 <= n PROVE i + 1 \in S
    <3>1. i + 1 \in 1..n /\ (i + 1) - 1 = i /\ i <= n
      BY <2>1
    <3>2. i \in S
      BY <1>2, <3>1
    <3> QED  BY <3>1, <3>2
  <2> QED  BY <2>1
<1>3. Nat \subseteq T
  <2> HIDE DEF T
  <2> QED  BY <1>1, <1>2, SetInduction
<1> QED  BY <1>3
(***************************************************************************)
(* The log.                                                                *)
(***************************************************************************)

\* The events of kind in log[a..b] carry seq, one element each: at[k] of them have
\* been carried up to k.
IsCount(at, log, a, b, kind, seq) ==
    /\ at[a - 1] = 0 /\ at[b] = Len(seq)
    /\ \A k \in a..b : IF log[k].kind = kind
                       THEN at[k] = at[k - 1] + 1 /\ log[k].what = seq[at[k]]
                       ELSE at[k] = at[k - 1]

Carry(log, a, b, kind, seq) ==
    \E at \in [(a - 1)..b -> 0..Len(seq)] : IsCount(at, log, a, b, kind, seq)

LEMMA CarryNothing ==
    ASSUME NEW log, NEW a \in Nat \ {0}, NEW kind
    PROVE  Carry(log, a, a - 1, kind, <<>>)
<1> DEFINE at == [k \in (a - 1)..(a - 1) |-> 0]
<1>1. at \in [(a - 1)..(a - 1) -> 0..Len(<<>>)] /\ at[a - 1] = 0 /\ a..(a - 1) = {}
  OBVIOUS
<1> QED  BY <1>1 DEF Carry, IsCount

LEMMA CarryStays ==
    ASSUME NEW log, NEW next, NEW a \in Nat \ {0}, NEW b \in Nat, NEW kind, NEW seq,
           Carry(log, a, b, kind, seq), \A k \in a..b : next[k] = log[k]
    PROVE  Carry(next, a, b, kind, seq)
BY DEF Carry, IsCount

\* What a log carries and what is carried behind it are carried one after the other.
LEMMA CarryMore ==
    ASSUME NEW S, NEW E,
           NEW log \in Seq(E), NEW more \in Seq(E), NEW a \in 1..(Len(log) + 1), NEW kind,
           NEW seq \in Seq(S), NEW new \in Seq(S),
           Carry(log, a, Len(log), kind, seq), Carry(more, 1, Len(more), kind, new)
    PROVE  Carry(log \o more, a, Len(log \o more), kind, seq \o new)
<1> DEFINE b == Len(log)
           m == Len(more)
           all == log \o more
           text == seq \o new
<1>1. /\ b \in Nat /\ m \in Nat /\ Len(seq) \in Nat /\ Len(new) \in Nat
      /\ Len(all) = b + m /\ Len(text) = Len(seq) + Len(new)
      /\ \A k \in 1..b : all[k] = log[k]
      /\ \A k \in 1..m : all[b + k] = more[k]
      /\ \A k \in 1..Len(seq) : text[k] = seq[k]
      /\ \A k \in 1..Len(new) : text[Len(seq) + k] = new[k]
  OBVIOUS
<1>2. PICK at \in [(a - 1)..b -> 0..Len(seq)] : IsCount(at, log, a, b, kind, seq)
  BY DEF Carry
<1>3. PICK to \in [0..m -> 0..Len(new)] : IsCount(to, more, 1, m, kind, new)
  BY DEF Carry
<1> HIDE DEF b, m, all, text
<1> DEFINE on == [k \in (a - 1)..(b + m) |-> IF k <= b THEN at[k] ELSE Len(seq) + to[k - b]]
<1>4. a \in 1..(b + 1)
  BY DEF b
<1>5. on \in [(a - 1)..(b + m) -> 0..Len(text)]
  <2> SUFFICES ASSUME NEW k \in (a - 1)..(b + m)
               PROVE  (IF k <= b THEN at[k] ELSE Len(seq) + to[k - b]) \in 0..Len(text)
    OBVIOUS
  <2>1. CASE k <= b
    <3>1. at[k] \in 0..Len(seq)
      BY <1>1, <1>2, <1>4, <2>1
    <3> QED  BY <1>1, <2>1, <3>1
  <2>2. CASE ~(k <= b)
    <3>1. to[k - b] \in 0..Len(new)
      BY <1>1, <1>3, <1>4, <2>2
    <3> QED  BY <1>1, <2>2, <3>1
  <2> QED  BY <2>1, <2>2
<1>6. /\ \A k \in (a - 1)..b : on[k] = at[k]
      /\ \A k \in 0..m : on[b + k] = Len(seq) + to[k]
  <2>1. ASSUME NEW k \in (a - 1)..b PROVE on[k] = at[k]
    BY <1>1, <1>4
  <2>2. ASSUME NEW k \in 0..m PROVE on[b + k] = Len(seq) + to[k]
    <3>1. CASE k = 0
      <4>1. at[b] = Len(seq) /\ to[0] = 0
        BY <1>2, <1>3 DEF IsCount
      <4> QED  BY <1>1, <1>4, <3>1, <4>1
    <3>2. CASE k # 0
      <4>1. b + k \in (a - 1)..(b + m) /\ ~(b + k <= b) /\ (b + k) - b = k
        BY <1>1, <1>4, <3>2
      <4> QED  BY <4>1
    <3> QED  BY <3>1, <3>2
  <2> QED  BY <2>1, <2>2
<1> HIDE DEF on
<1>8. b \in Nat /\ m \in Nat /\ a \in Nat \ {0} /\ a <= b + 1
  BY <1>1, <1>4
<1>9. Len(seq) \in Nat /\ Len(new) \in Nat
  BY <1>1
<1>7. IsCount(on, all, a, b + m, kind, text)
  <2>1. on[a - 1] = 0
    <3>1. a - 1 \in (a - 1)..b
      BY <1>8
    <3>2. at[a - 1] = 0
      BY <1>2 DEF IsCount
    <3> QED  BY <1>6, <3>1, <3>2
  <2>2. on[b + m] = Len(text)
    <3>1. m \in 0..m
      BY <1>8
    <3>2. to[m] = Len(new)
      BY <1>3 DEF IsCount
    <3> QED  BY <1>1, <1>6, <3>1, <3>2
  <2>3. ASSUME NEW k \in a..b
        PROVE  IF all[k].kind = kind
               THEN on[k] = on[k - 1] + 1 /\ all[k].what = text[on[k]]
               ELSE on[k] = on[k - 1]
    <3>1. /\ k \in 1..b /\ k \in (a - 1)..b /\ k - 1 \in (a - 1)..b
      BY <1>8
    <3>2. all[k] = log[k] /\ on[k] = at[k] /\ on[k - 1] = at[k - 1]
      BY <1>1, <1>6, <3>1
    <3>3. /\ at[k] \in 0..Len(seq) /\ at[k - 1] \in 0..Len(seq)
          /\ IF log[k].kind = kind
             THEN at[k] = at[k - 1] + 1 /\ log[k].what = seq[at[k]]
             ELSE at[k] = at[k - 1]
      BY <1>2, <3>1 DEF IsCount
    <3>4. CASE log[k].kind = kind
      <4>1. at[k] \in 1..Len(seq) /\ log[k].what = seq[at[k]] /\ at[k] = at[k - 1] + 1
        BY <1>1, <3>3, <3>4
      <4>2. text[at[k]] = seq[at[k]]
        BY <1>1, <4>1
      <4> QED  BY <3>2, <3>4, <4>1, <4>2
    <3> QED  BY <3>2, <3>3, <3>4
  <2>4. ASSUME NEW k \in 1..m
        PROVE  IF all[b + k].kind = kind
               THEN on[b + k] = on[b + k - 1] + 1 /\ all[b + k].what = text[on[b + k]]
               ELSE on[b + k] = on[b + k - 1]
    <3>1. k \in 0..m /\ k - 1 \in 0..m /\ b + (k - 1) = b + k - 1
      BY <1>1
    <3>2. all[b + k] = more[k] /\ on[b + k] = Len(seq) + to[k] /\ on[b + k - 1] = Len(seq) + to[k - 1]
      BY <1>1, <1>6, <3>1
    <3>3. /\ to[k] \in 0..Len(new) /\ to[k - 1] \in 0..Len(new)
          /\ IF more[k].kind = kind
             THEN to[k] = to[k - 1] + 1 /\ more[k].what = new[to[k]]
             ELSE to[k] = to[k - 1]
      BY <1>3, <3>1 DEF IsCount
    <3>4. CASE more[k].kind = kind
      <4>1. to[k] \in 1..Len(new) /\ more[k].what = new[to[k]] /\ to[k] = to[k - 1] + 1
        BY <1>9, <3>3, <3>4
      <4>2. text[Len(seq) + to[k]] = new[to[k]]
        BY <1>1, <4>1
      <4>3. Len(seq) + to[k] = (Len(seq) + to[k - 1]) + 1
        <5>1. to[k - 1] \in Nat
          BY <1>9, <3>3
        <5> QED  BY <1>9, <4>1, <5>1
      <4> QED  BY <3>2, <3>4, <4>1, <4>2, <4>3
    <3> QED  BY <3>2, <3>3, <3>4
  <2>5. ASSUME NEW k \in a..(b + m)
        PROVE  IF all[k].kind = kind
               THEN on[k] = on[k - 1] + 1 /\ all[k].what = text[on[k]]
               ELSE on[k] = on[k - 1]
    <3>1. CASE k <= b
      BY <1>1, <1>4, <2>3, <3>1, SMTT(20)
    <3>2. CASE ~(k <= b)
      <4>1. k - b \in 1..m /\ b + (k - b) = k /\ b + (k - b) - 1 = k - 1
        BY <1>1, <1>4, <3>2
      <4>2. PICK j \in 1..m : j = k - b
        BY <4>1
      <4>3. b + j = k /\ b + j - 1 = k - 1
        BY <4>1, <4>2
      <4> QED  BY <2>4, <4>3
    <3> QED  BY <3>1, <3>2
  <2> QED  BY <2>1, <2>2, <2>5 DEF IsCount
<1> QED  BY <1>1, <1>5, <1>7 DEF Carry, all, text

\* What a turn says before it ends: its deltas are of the version no and carry text,
\* its citations carry chunks.
BodyKinds == {"UNCERTAINTY", "ERROR", "CITATION_CREATED", "ANSWER_DELTA"}

Body(log, a, b, no) ==
    \A k \in a..b : /\ log[k].kind \in BodyKinds
                    /\ log[k].kind = "ANSWER_DELTA" => log[k].no = no

Told(log, a, b, no, text, chunks) ==
    /\ Body(log, a, b, no)
    /\ Carry(log, a, b, "ANSWER_DELTA", text)
    /\ Carry(log, a, b, "CITATION_CREATED", chunks)

\* The same, of as many chunks as there are ids.
ToldAsMany(log, a, b, no, text, ids) ==
    \E chunks \in Seq(Chunks) : Len(chunks) = Len(ids) /\ Told(log, a, b, no, text, chunks)

\* A turn that is over said nothing of an answer, or just what it then committed.
Whole(log, versions, a, b, n, m) ==
    \/ m = n /\ Told(log, a, b, n + 1, <<>>, <<>>)
    \/ /\ m = n + 1 /\ m \in DOMAIN versions /\ a <= b
       /\ ToldAsMany(log, a, b - 1, m, versions[m].text, versions[m].citations)
       /\ log[b] = Event("ANSWER_VERSION_CREATED", m, None)

\* Where the log of turn i ends, and how many versions there are then.
TurnEnd(i) == IF i = Len(begun) THEN Len(eventLog) ELSE begun[i + 1].from - 1
VersionsAfter(i) == IF i = Len(begun) THEN Len(answer_versions) ELSE begun[i + 1].versions

\* What is told of the turn under way is what is committed so far.
TurnInv(i) ==
    IF i = Len(begun) /\ phase # "idle"
    THEN /\ begun[i].versions = Len(answer_versions)
         /\ Told(eventLog, begun[i].from, Len(eventLog), Len(answer_versions) + 1, sentences, citations)
    ELSE Whole(eventLog, answer_versions, begun[i].from, TurnEnd(i), begun[i].versions, VersionsAfter(i))

Turns == [from : Nat \ {0}, versions : Nat, reranked : SUBSET Chunks]

\* What is committed belongs to a turn, and citations to its sentences.
InTurn ==
    /\ phase # "idle" => begun # <<>>
    /\ phase = "idle" => sentences = <<>>
    /\ sentences = <<>> => citations = <<>>

\* The turns stand one behind the other in the log.
Placement ==
    /\ begun \in Seq(Turns)
    /\ \A i \in 1..Len(begun) : /\ begun[i].from <= TurnEnd(i) + 1 /\ TurnEnd(i) <= Len(eventLog)
                                /\ VersionsAfter(i) <= Len(answer_versions)

LogInv == Placement /\ InTurn /\ \A i \in 1..Len(begun) : TurnInv(i)

LEMMA ToldStays ==
    ASSUME NEW log, NEW next, NEW a \in Nat \ {0}, NEW b \in Nat, NEW no, NEW text, NEW chunks,
           Told(log, a, b, no, text, chunks), \A k \in a..b : next[k] = log[k]
    PROVE  Told(next, a, b, no, text, chunks)
BY CarryStays DEF Told, Body

LEMMA WholeStays ==
    ASSUME NEW log, NEW next, NEW a \in Nat \ {0}, NEW b \in Nat, NEW n \in Nat, NEW m \in Nat,
           NEW versions, NEW later, Whole(log, versions, a, b, n, m),
           \A k \in a..b : next[k] = log[k],
           m \in DOMAIN versions => m \in DOMAIN later /\ later[m] = versions[m]
    PROVE  Whole(next, later, a, b, n, m)
<1>1. CASE m = n /\ Told(log, a, b, n + 1, <<>>, <<>>)
  <2>1. Told(next, a, b, n + 1, <<>>, <<>>)
    BY <1>1, ToldStays
  <2> QED  BY <1>1, <2>1 DEF Whole
<1>2. CASE /\ m = n + 1 /\ m \in DOMAIN versions /\ a <= b
           /\ ToldAsMany(log, a, b - 1, m, versions[m].text, versions[m].citations)
           /\ log[b] = Event("ANSWER_VERSION_CREATED", m, None)
  <2>1. b - 1 \in Nat /\ b \in a..b /\ \A k \in a..(b - 1) : k \in a..b
    BY <1>2
  <2>2. ToldAsMany(next, a, b - 1, m, versions[m].text, versions[m].citations)
    <3>1. PICK chunks \in Seq(Chunks) :
             /\ Len(chunks) = Len(versions[m].citations)
             /\ Told(log, a, b - 1, m, versions[m].text, chunks)
      BY <1>2 DEF ToldAsMany
    <3>2. Told(next, a, b - 1, m, versions[m].text, chunks)
      BY <2>1, <3>1, ToldStays
    <3> QED  BY <3>1, <3>2 DEF ToldAsMany
  <2> QED  BY <1>2, <2>1, <2>2 DEF Whole
<1> QED  BY <1>1, <1>2 DEF Whole

\* What a step adds to the log, and with it to the text and the citations.
Published(events, text, chunks) ==
    /\ Told(events, 1, Len(events), Len(answer_versions) + 1, text, chunks)
    /\ text = <<>> => chunks = <<>>
    /\ eventLog' = eventLog \o events
    /\ sentences' = sentences \o text
    /\ citations' = citations \o chunks

Publishes ==
    \E events \in Seq(Events), text \in Seq(Texts), chunks \in Seq(Chunks) :
        Published(events, text, chunks)

LEMMA QuietPublishes ==
    ASSUME TypeOK, UNCHANGED <<eventLog, sentences, citations>>
    PROVE  Publishes
<1>1. /\ <<>> \in Seq(Events) /\ <<>> \in Seq(Texts) /\ <<>> \in Seq(Chunks) /\ Len(<<>>) = 0
      /\ 1..0 = {}
  OBVIOUS
<1>2. \A kind : Carry(<<>>, 1, 0, kind, <<>>)
  <2> TAKE kind
  <2>1. 1 \in Nat \ {0} /\ 1 - 1 = 0
    OBVIOUS
  <2>2. Carry(<<>>, 1, 1 - 1, kind, <<>>)
    BY <2>1, CarryNothing
  <2> QED  BY <2>1, <2>2
<1>3. Told(<<>>, 1, Len(<<>>), Len(answer_versions) + 1, <<>>, <<>>)
  BY <1>1, <1>2 DEF Told, Body
<1>4. eventLog \o <<>> = eventLog /\ sentences \o <<>> = sentences /\ citations \o <<>> = citations
  BY DEF TypeOK
<1>5. Published(<<>>, <<>>, <<>>)
  BY <1>3, <1>4 DEF Published
<1> QED  BY <1>1, <1>5 DEF Publishes

LEMMA ErrorPublishes ==
    ASSUME TypeOK, Emit(<<Event("ERROR", 0, None)>>), UNCHANGED <<sentences, citations>>
    PROVE  Publishes
<1> DEFINE events == <<Event("ERROR", 0, None)>>
           at == [k \in 0..1 |-> 0]
<1>1. /\ events \in Seq(Events) /\ Len(events) = 1 /\ events[1].kind = "ERROR"
      /\ <<>> \in Seq(Texts) /\ <<>> \in Seq(Chunks) /\ Len(<<>>) = 0 /\ 1..1 = {1}
  <2>1. Event("ERROR", 0, None) \in Events
    BY EventType DEF Kinds
  <2> QED  BY <2>1 DEF Event
<1> HIDE DEF events
<1>2. at \in [(1 - 1)..1 -> 0..0] /\ at[1 - 1] = 0 /\ at[1] = 0
  OBVIOUS
<1>3. \A kind \in {"ANSWER_DELTA", "CITATION_CREATED"} : Carry(events, 1, 1, kind, <<>>)
  <2> TAKE kind \in {"ANSWER_DELTA", "CITATION_CREATED"}
  <2>1. IsCount(at, events, 1, 1, kind, <<>>)
    BY <1>1, <1>2 DEF IsCount
  <2> HIDE DEF at
  <2> QED  BY <1>1, <1>2, <2>1 DEF Carry
<1>4. Told(events, 1, Len(events), Len(answer_versions) + 1, <<>>, <<>>)
  BY <1>1, <1>3 DEF Told, Body, BodyKinds
<1>5. sentences \o <<>> = sentences /\ citations \o <<>> = citations
  BY DEF TypeOK
<1>6. Published(events, <<>>, <<>>)
  BY <1>4, <1>5 DEF Published, Emit, events
<1> QED  BY <1>1, <1>6 DEF Publishes

LEMMA UncertaintyPublishes ==
    ASSUME TypeOK, NumberInv, NEW reason \in Reasons, PublishUncertainty(reason)
    PROVE  Publishes
<1> DEFINE events == <<Event("UNCERTAINTY", 0, reason), Event("ANSWER_DELTA", VersionNo, reason)>>
           text == <<reason>>
           none == [k \in 0..2 |-> 0]
           one == [k \in 0..2 |-> IF k = 2 THEN 1 ELSE 0]
<1>1. /\ events \in Seq(Events) /\ Len(events) = 2
      /\ events[1].kind = "UNCERTAINTY" /\ events[2].kind = "ANSWER_DELTA"
      /\ events[2].what = reason /\ events[2].no = Len(answer_versions) + 1
  <2>1. /\ Event("UNCERTAINTY", 0, reason) \in Events
        /\ Event("ANSWER_DELTA", VersionNo, reason) \in Events
    BY EventType, VersionNoType DEF Kinds, Texts
  <2>2. VersionNo = Len(answer_versions) + 1
    BY PriorIsCount DEF VersionNo
  <2> QED  BY <2>1, <2>2 DEF Event
<1>2. /\ text \in Seq(Texts) /\ Len(text) = 1 /\ text[1] = reason /\ text # <<>>
      /\ <<>> \in Seq(Chunks) /\ Len(<<>>) = 0 /\ 1..2 = {1, 2}
  BY DEF Texts
<1> HIDE DEF events, text
<1>3. /\ none \in [(1 - 1)..2 -> 0..0] /\ none[1 - 1] = 0 /\ none[1] = 0 /\ none[2] = 0
      /\ one \in [(1 - 1)..2 -> 0..1] /\ one[1 - 1] = 0 /\ one[1] = 0 /\ one[2] = 1
  OBVIOUS
<1> HIDE DEF none, one
<1>4. Carry(events, 1, 2, "CITATION_CREATED", <<>>)
  BY <1>1, <1>2, <1>3 DEF Carry, IsCount
<1>5. Carry(events, 1, 2, "ANSWER_DELTA", text)
  BY <1>1, <1>2, <1>3 DEF Carry, IsCount
<1>6. Told(events, 1, Len(events), Len(answer_versions) + 1, text, <<>>)
  BY <1>1, <1>2, <1>4, <1>5 DEF Told, Body, BodyKinds
<1>7. Append(sentences, reason) = sentences \o text /\ citations \o <<>> = citations
  BY DEF TypeOK, Texts, text
<1>8. Published(events, text, <<>>)
  BY <1>2, <1>6, <1>7 DEF Published, PublishUncertainty, Emit, events
<1> QED  BY <1>1, <1>2, <1>8 DEF Publishes

LEMMA ClaimPublishes ==
    ASSUME TypeOK, NumberInv, NEW s \in Sentences, Verdict(s) = "accept", PublishClaim(s)
    PROVE  Publishes
<1> DEFINE n == Len(cites[s])
           told == [i \in DOMAIN cites[s] |-> Event("CITATION_CREATED", 0, Resolved(s)[i])]
           last == Event("ANSWER_DELTA", VersionNo, s)
           events == Append(told, last)
           text == <<s>>
           chunks == Resolved(s)
           cited == [k \in 0..(n + 1) |-> IF k = n + 1 THEN n ELSE k]
           one == [k \in 0..(n + 1) |-> IF k = n + 1 THEN 1 ELSE 0]
<1>1. /\ n \in Nat /\ DOMAIN cites[s] = 1..n
      /\ DOMAIN chunks = 1..n /\ \A i \in 1..n : chunks[i] \in Chunks
  <2>1. cites[s] \in Seq(Tags)
    BY AcceptedIsGrounded
  <2>2. DOMAIN cites[s] = 1..n /\ n \in Nat
    BY <2>1
  <2> HIDE DEF n
  <2> QED  BY <2>2, AcceptedIsGrounded, LookupIsEvidence DEF TypeOK
<1>2. chunks \in Seq(Chunks) /\ Len(chunks) = n
  <2>1. chunks = [i \in 1..n |-> chunks[i]]
    BY <1>1 DEF Resolved
  <2> HIDE DEF chunks, n
  <2>2. chunks \in [1..n -> Chunks]
    BY <1>1, <2>1
  <2> QED  BY <1>1, <2>2
<1>3. told \in Seq(Events) /\ Len(told) = n /\ \A i \in 1..n : told[i] = Event("CITATION_CREATED", 0, chunks[i])
  <2>1. \A i \in 1..n : Event("CITATION_CREATED", 0, chunks[i]) \in Events
    BY <1>1, EventType DEF Kinds
  <2>2. told = [i \in 1..n |-> Event("CITATION_CREATED", 0, chunks[i])]
    BY <1>1
  <2> HIDE DEF told, n, chunks
  <2>3. told \in [1..n -> Events]
    BY <2>1, <2>2
  <2> QED  BY <1>1, <2>2, <2>3
<1>4. last \in Events /\ last.kind = "ANSWER_DELTA" /\ last.what = s /\ last.no = Len(answer_versions) + 1
  <2>1. last \in Events
    BY EventType, VersionNoType DEF Kinds, Texts
  <2>2. VersionNo = Len(answer_versions) + 1
    BY PriorIsCount DEF VersionNo
  <2> QED  BY <2>1, <2>2 DEF Event
<1> HIDE DEF told, last
<1>5. /\ events \in Seq(Events) /\ Len(events) = n + 1
      /\ events[n + 1] = last
      /\ \A i \in 1..n : events[i] = Event("CITATION_CREATED", 0, chunks[i])
  <2> HIDE DEF n, chunks
  <2>1. /\ events \in Seq(Events) /\ Len(events) = n + 1 /\ events[n + 1] = last
        /\ \A i \in 1..n : events[i] = told[i]
    BY <1>1, <1>3, <1>4
  <2> QED  BY <1>3, <2>1
<1>6. /\ \A i \in 1..n : events[i].kind = "CITATION_CREATED" /\ events[i].what = chunks[i]
      /\ events[n + 1].kind = "ANSWER_DELTA" /\ events[n + 1].what = s
      /\ events[n + 1].no = Len(answer_versions) + 1
  <2> HIDE DEF events, chunks, n
  <2>1. ASSUME NEW i \in 1..n
        PROVE  events[i].kind = "CITATION_CREATED" /\ events[i].what = chunks[i]
    <3>1. events[i] = Event("CITATION_CREATED", 0, chunks[i])
      BY <1>5
    <3> QED  BY <3>1 DEF Event
  <2>2. events[n + 1] = last
    BY <1>5
  <2> QED  BY <1>4, <2>1, <2>2
<1>7. text \in Seq(Texts) /\ Len(text) = 1 /\ text[1] = s /\ text # <<>>
  BY DEF Texts
<1> HIDE DEF events, text, chunks, n
<1>8. /\ cited \in [(1 - 1)..(n + 1) -> 0..Len(chunks)]
      /\ one \in [(1 - 1)..(n + 1) -> 0..Len(text)]
      /\ \A k \in 1..(n + 1) : k = n + 1 \/ k \in 1..n
  BY <1>1, <1>2, <1>7
<1>9. IsCount(cited, events, 1, n + 1, "CITATION_CREATED", chunks)
  BY <1>1, <1>2, <1>6, <1>8 DEF IsCount
<1>10. IsCount(one, events, 1, n + 1, "ANSWER_DELTA", text)
  BY <1>1, <1>6, <1>7, <1>8 DEF IsCount
<1> HIDE DEF cited, one
<1>11. Told(events, 1, Len(events), Len(answer_versions) + 1, text, chunks)
  <2>1. Body(events, 1, n + 1, Len(answer_versions) + 1)
    BY <1>6, <1>8 DEF Body, BodyKinds
  <2> QED  BY <1>5, <1>8, <1>9, <1>10, <2>1 DEF Told, Carry
<1>12. Append(sentences, s) = sentences \o text
  BY DEF TypeOK, Texts, text
<1>13. Published(events, text, chunks)
  BY <1>7, <1>11, <1>12 DEF Published, PublishClaim, Emit, events, chunks, told, last
<1> QED  BY <1>2, <1>5, <1>7, <1>13 DEF Publishes

LEMMA ToldMore ==
    ASSUME NEW log \in Seq(Events), NEW more \in Seq(Events), NEW a \in 1..(Len(log) + 1), NEW no,
           NEW text \in Seq(Texts), NEW chunks \in Seq(Chunks),
           NEW text2 \in Seq(Texts), NEW chunks2 \in Seq(Chunks),
           Told(log, a, Len(log), no, text, chunks), Told(more, 1, Len(more), no, text2, chunks2)
    PROVE  Told(log \o more, a, Len(log \o more), no, text \o text2, chunks \o chunks2)
<1>1. Carry(log \o more, a, Len(log \o more), "ANSWER_DELTA", text \o text2)
  BY CarryMore DEF Told
<1>2. Carry(log \o more, a, Len(log \o more), "CITATION_CREATED", chunks \o chunks2)
  BY CarryMore DEF Told
<1>3. Body(log \o more, a, Len(log \o more), no)
  <2> DEFINE all == log \o more
  <2>1. /\ Len(log) \in Nat /\ Len(more) \in Nat /\ Len(all) = Len(log) + Len(more)
        /\ \A k \in 1..Len(log) : all[k] = log[k]
        /\ \A k \in 1..Len(more) : all[Len(log) + k] = more[k]
    OBVIOUS
  <2> HIDE DEF all
  <2>2. ASSUME NEW k \in a..Len(all)
        PROVE  /\ all[k].kind \in BodyKinds
               /\ all[k].kind = "ANSWER_DELTA" => all[k].no = no
    <3>1. CASE k <= Len(log)
      <4>0. k \in a..Len(log) /\ k \in 1..Len(log)
        <5>1. a \in Nat /\ a >= 1 /\ Len(log) \in Nat
          BY <2>1
        <5> QED  BY <3>1, <5>1
      <4>1. k \in a..Len(log) /\ all[k] = log[k]
        BY <2>1, <4>0
      <4> QED  BY <4>1 DEF Told, Body
    <3>2. CASE ~(k <= Len(log))
      <4>1. k - Len(log) \in 1..Len(more) /\ Len(log) + (k - Len(log)) = k
        BY <2>1, <3>2
      <4>2. all[k] = more[k - Len(log)]
        BY <2>1, <4>1
      <4> QED  BY <4>1, <4>2 DEF Told, Body
    <3> QED  BY <3>1, <3>2
  <2> QED  BY <2>2 DEF Body, all
<1> QED  BY <1>1, <1>2, <1>3 DEF Told

LEMMA ToldNothing ==
    ASSUME NEW log, NEW a \in Nat \ {0}, NEW no
    PROVE  Told(log, a, a - 1, no, <<>>, <<>>)
<1>1. a..(a - 1) = {}
  OBVIOUS
<1> QED  BY <1>1, CarryNothing DEF Told, Body

\* Facts of types every step needs.
LEMMA LogTypes ==
    ASSUME TypeOK, Placement
    PROVE  /\ begun \in Seq(Turns) /\ Len(begun) \in Nat /\ DOMAIN begun = 1..Len(begun)
           /\ Len(eventLog) \in Nat /\ Len(answer_versions) \in Nat
           /\ DOMAIN answer_versions = 1..Len(answer_versions)
           /\ \A i \in 1..Len(begun) :
                /\ begun[i].from \in Nat \ {0} /\ begun[i].versions \in Nat
                /\ TurnEnd(i) \in 0..Len(eventLog) /\ begun[i].from <= TurnEnd(i) + 1
                /\ VersionsAfter(i) \in 0..Len(answer_versions)
<1>1. /\ begun \in Seq(Turns) /\ Len(begun) \in Nat /\ DOMAIN begun = 1..Len(begun)
      /\ Len(eventLog) \in Nat /\ Len(answer_versions) \in Nat
      /\ DOMAIN answer_versions = 1..Len(answer_versions)
  BY DEF TypeOK, Placement
<1>2. ASSUME NEW i \in 1..Len(begun)
      PROVE  begun[i].from \in Nat \ {0} /\ begun[i].versions \in Nat
  <2>1. begun[i] \in Turns
    BY <1>1
  <2> QED  BY <2>1 DEF Turns
<1>3. ASSUME NEW i \in 1..Len(begun)
      PROVE  /\ TurnEnd(i) \in 0..Len(eventLog) /\ begun[i].from <= TurnEnd(i) + 1
             /\ VersionsAfter(i) \in 0..Len(answer_versions)
  <2>1. /\ begun[i].from <= TurnEnd(i) + 1 /\ TurnEnd(i) <= Len(eventLog)
        /\ VersionsAfter(i) <= Len(answer_versions)
    BY DEF Placement
  <2>2. CASE i = Len(begun)
    BY <1>1, <2>1, <2>2 DEF TurnEnd, VersionsAfter
  <2>3. CASE i # Len(begun)
    <3>1. i + 1 \in 1..Len(begun)
      <4>1. Len(begun) \in Nat
        BY <1>1
      <4> QED  BY <2>3, <4>1
    <3>2. begun[i + 1].from \in Nat \ {0} /\ begun[i + 1].versions \in Nat
      BY <1>2, <3>1
    <3> QED  BY <1>1, <2>1, <2>3, <3>2 DEF TurnEnd, VersionsAfter
  <2> QED  BY <2>2, <2>3
<1> QED  BY <1>1, <1>2, <1>3

\* A turn that is over stays as it was while the log and the versions only grow.
LEMMA OverStays ==
    ASSUME TypeOK, LogInv, NEW i \in 1..Len(begun), ~(i = Len(begun) /\ phase # "idle"),
           NEW next, NEW later,
           \A k \in 1..Len(eventLog) : next[k] = eventLog[k],
           \A k \in 1..Len(answer_versions) : k \in DOMAIN later /\ later[k] = answer_versions[k]
    PROVE  Whole(next, later, begun[i].from, TurnEnd(i), begun[i].versions, VersionsAfter(i))
<1> DEFINE a == begun[i].from
           b == TurnEnd(i)
           n == begun[i].versions
           m == VersionsAfter(i)
<1>1. /\ a \in Nat \ {0} /\ b \in Nat /\ n \in Nat /\ m \in Nat
      /\ \A k \in a..b : k \in 1..Len(eventLog)
      /\ DOMAIN answer_versions = 1..Len(answer_versions)
  <2>1. /\ a \in Nat \ {0} /\ b \in 0..Len(eventLog) /\ n \in Nat
        /\ m \in 0..Len(answer_versions) /\ Len(answer_versions) \in Nat /\ Len(eventLog) \in Nat
        /\ DOMAIN answer_versions = 1..Len(answer_versions)
    BY LogTypes DEF LogInv
  <2> HIDE DEF a, b, n, m
  <2> QED  BY <2>1
<1>2. Whole(eventLog, answer_versions, a, b, n, m)
  BY DEF LogInv, TurnInv
<1> HIDE DEF a, b, n, m
<1>3. \A k \in a..b : next[k] = eventLog[k]
  BY <1>1
<1>4. m \in DOMAIN answer_versions => m \in DOMAIN later /\ later[m] = answer_versions[m]
  BY <1>1
<1>5. Whole(next, later, a, b, n, m)
  BY <1>1, <1>2, <1>3, <1>4, WholeStays
<1> QED  BY <1>5 DEF a, b, n, m

\* Nothing of it changes but the phase.
LEMMA QuietLog ==
    ASSUME LogInv, UNCHANGED <<eventLog, answer_versions, begun, sentences, citations>>,
           phase' = "idle" <=> phase = "idle"
    PROVE  LogInv'
BY DEF LogInv, Placement, InTurn, TurnInv, TurnEnd, VersionsAfter

LEMMA PublishLog ==
    ASSUME TypeOK, LogInv, Publishes, UNCHANGED <<answer_versions, begun>>,
           phase # "idle", phase' # "idle"
    PROVE  LogInv'
<1> DEFINE N == Len(begun)
<1>1. PICK events \in Seq(Events), text \in Seq(Texts), chunks \in Seq(Chunks) :
         Published(events, text, chunks)
  BY DEF Publishes
<1>2. /\ eventLog \in Seq(Events) /\ sentences \in Seq(Texts) /\ citations \in Seq(Chunks)
      /\ eventLog' = eventLog \o events /\ sentences' = sentences \o text
      /\ citations' = citations \o chunks /\ (text = <<>> => chunks = <<>>)
      /\ Told(events, 1, Len(events), Len(answer_versions) + 1, text, chunks)
  BY <1>1 DEF Published, TypeOK
<1>3. /\ Len(eventLog') = Len(eventLog) + Len(events) /\ Len(events) \in Nat
      /\ \A k \in 1..Len(eventLog) : eventLog'[k] = eventLog[k]
  BY <1>2
<1>4. /\ N \in Nat \ {0} /\ Len(eventLog) \in Nat /\ Len(answer_versions) \in Nat
      /\ begun \in Seq(Turns)
      /\ \A i \in 1..N : /\ begun[i].from \in Nat \ {0} /\ TurnEnd(i) \in 0..Len(eventLog)
                         /\ begun[i].from <= TurnEnd(i) + 1
                         /\ VersionsAfter(i) \in 0..Len(answer_versions)
  <2>1. begun # <<>>
    BY DEF LogInv, InTurn
  <2> QED  BY <2>1, LogTypes DEF LogInv
<1>5. /\ begun' = begun /\ answer_versions' = answer_versions
      /\ \A i \in 1..N : /\ VersionsAfter(i)' = VersionsAfter(i)
                         /\ i # N => TurnEnd(i)' = TurnEnd(i)
                         /\ i = N => TurnEnd(i)' = Len(eventLog') /\ TurnEnd(i) = Len(eventLog)
  BY DEF TurnEnd, VersionsAfter
<1>6. Placement'
  <2>1. ASSUME NEW i \in 1..N
        PROVE  /\ begun[i].from <= TurnEnd(i)' + 1 /\ TurnEnd(i)' <= Len(eventLog')
               /\ VersionsAfter(i)' <= Len(answer_versions)
    <3>1. /\ begun[i].from \in Nat \ {0} /\ TurnEnd(i) \in 0..Len(eventLog)
          /\ begun[i].from <= TurnEnd(i) + 1 /\ VersionsAfter(i) \in 0..Len(answer_versions)
          /\ VersionsAfter(i)' = VersionsAfter(i)
          /\ i # N => TurnEnd(i)' = TurnEnd(i)
          /\ i = N => TurnEnd(i)' = Len(eventLog') /\ TurnEnd(i) = Len(eventLog)
      BY <1>4, <1>5
    <3>2. Len(eventLog) \in Nat /\ Len(eventLog') \in Nat /\ Len(eventLog) <= Len(eventLog')
      <4>1. Len(eventLog) \in Nat /\ Len(events) \in Nat /\ Len(eventLog') = Len(eventLog) + Len(events)
        BY <1>3, <1>4
      <4> QED  BY <4>1
    <3>3. Len(answer_versions) \in Nat
      BY <1>4
    <3> HIDE DEF N
    <3>4. VersionsAfter(i)' <= Len(answer_versions)
      BY <3>1, <3>3
    <3>5. CASE i = N
      BY <3>1, <3>2, <3>4, <3>5
    <3>6. CASE i # N
      BY <3>1, <3>2, <3>4, <3>6
    <3> QED  BY <3>5, <3>6
  <2> QED  BY <1>4, <1>5, <2>1 DEF Placement
<1>7. InTurn'
  <2>1. sentences' = <<>> => citations' = <<>>
    <3>1. sentences \o text = <<>> => sentences = <<>> /\ text = <<>>
      BY <1>2
    <3>2. citations = <<>> /\ chunks = <<>> => citations \o chunks = <<>>
      OBVIOUS
    <3> QED  BY <1>2, <3>1, <3>2 DEF LogInv, InTurn
  <2>2. begun' # <<>>
    BY <1>5 DEF LogInv, InTurn
  <2> QED  BY <2>1, <2>2 DEF InTurn
<1>8. ASSUME NEW i \in 1..N PROVE TurnInv(i)'
  <2>1. CASE i = N
    <3>1. /\ begun[N].versions = Len(answer_versions)
          /\ Told(eventLog, begun[N].from, Len(eventLog), Len(answer_versions) + 1, sentences, citations)
      BY <1>4 DEF LogInv, TurnInv
    <3>2. begun[N].from \in 1..(Len(eventLog) + 1)
      <4>1. N \in 1..N
        BY <1>4
      <4>2. begun[N].from \in Nat \ {0} /\ begun[N].from <= TurnEnd(N) + 1 /\ TurnEnd(N) = Len(eventLog)
        BY <1>4, <1>5, <4>1
      <4> QED  BY <1>4, <4>2
    <3>3. Told(eventLog', begun[N].from, Len(eventLog'), Len(answer_versions) + 1, sentences', citations')
      BY <1>2, <3>1, <3>2, ToldMore
    <3> QED  BY <1>5, <2>1, <3>1, <3>3 DEF TurnInv
  <2>2. CASE i # N
    <3>1. Whole(eventLog', answer_versions', begun[i].from, TurnEnd(i), begun[i].versions, VersionsAfter(i))
      <4>1. \A k \in 1..Len(answer_versions) :
               k \in DOMAIN answer_versions' /\ answer_versions'[k] = answer_versions[k]
        BY <1>5, LogTypes DEF LogInv
      <4> QED  BY <1>3, <2>2, <4>1, OverStays
    <3> QED  BY <1>5, <2>2, <3>1 DEF TurnInv
  <2> QED  BY <2>1, <2>2
<1>9. Len(begun') = N
  BY <1>5
<1> QED  BY <1>6, <1>7, <1>8, <1>9 DEF LogInv

\* A new turn begins where the last one ended.
LEMMA BeginLog ==
    ASSUME TypeOK, LogInv, phase = "idle", NEW turn \in Turns,
           turn.from = Len(eventLog) + 1, turn.versions = Len(answer_versions),
           begun' = Append(begun, turn), answer_versions' = answer_versions,
           NEW events \in Seq(Events), eventLog' = eventLog \o events
    PROVE  /\ Placement' /\ Len(begun') = Len(begun) + 1 /\ begun'[Len(begun) + 1] = turn
           /\ \A i \in 1..Len(begun) : TurnInv(i)'
           /\ Len(eventLog') = Len(eventLog) + Len(events)
<1>0. PICK N \in Nat : N = Len(begun)
  BY LogTypes DEF LogInv
<1>1. /\ eventLog \in Seq(Events) /\ begun \in Seq(Turns) /\ N \in Nat /\ Len(events) \in Nat
      /\ Len(eventLog) \in Nat /\ Len(answer_versions) \in Nat
      /\ \A i \in 1..N : /\ begun[i].from \in Nat \ {0} /\ TurnEnd(i) \in 0..Len(eventLog)
                         /\ begun[i].from <= TurnEnd(i) + 1
                         /\ VersionsAfter(i) \in 0..Len(answer_versions)
  <2>1. eventLog \in Seq(Events)
    BY DEF TypeOK
  <2> QED  BY <1>0, <2>1, LogTypes DEF LogInv
<1>2. /\ Len(eventLog') = Len(eventLog) + Len(events)
      /\ \A k \in 1..Len(eventLog) : eventLog'[k] = eventLog[k]
  BY <1>1
<1>3. /\ begun' \in Seq(Turns) /\ Len(begun') = N + 1 /\ begun'[N + 1] = turn
      /\ \A i \in 1..N : begun'[i] = begun[i]
  BY <1>0, <1>1
<1>4. ASSUME NEW i \in 1..N
      PROVE  TurnEnd(i)' = TurnEnd(i) /\ VersionsAfter(i)' = VersionsAfter(i)
  <2>1. /\ TurnEnd(i)' = IF i = N + 1 THEN Len(eventLog') ELSE begun'[i + 1].from - 1
        /\ VersionsAfter(i)' = IF i = N + 1 THEN Len(answer_versions') ELSE begun'[i + 1].versions
    BY <1>3 DEF TurnEnd, VersionsAfter
  <2>2. CASE i = N
    <3>1. TurnEnd(i) = Len(eventLog) /\ VersionsAfter(i) = Len(answer_versions)
      BY <1>0, <2>2 DEF TurnEnd, VersionsAfter
    <3>2. i # N + 1 /\ i + 1 = N + 1
      BY <1>0, <2>2
    <3>3. TurnEnd(i)' = turn.from - 1 /\ VersionsAfter(i)' = turn.versions
      BY <1>3, <2>1, <3>2
    <3>4. turn.from - 1 = Len(eventLog)
      BY <1>1
    <3> QED  BY <3>1, <3>3, <3>4
  <2>3. CASE i # N
    <3>1. i + 1 \in 1..N /\ i # N + 1
      BY <1>1, <2>3
    <3> QED  BY <1>0, <1>3, <2>1, <2>3, <3>1 DEF TurnEnd, VersionsAfter
  <2> QED  BY <2>2, <2>3
<1>5. TurnEnd(N + 1)' = Len(eventLog') /\ VersionsAfter(N + 1)' = Len(answer_versions)
  BY <1>3 DEF TurnEnd, VersionsAfter
<1>6. Placement'
  <2>1. ASSUME NEW i \in 1..(N + 1)
        PROVE  /\ begun'[i].from <= TurnEnd(i)' + 1 /\ TurnEnd(i)' <= Len(eventLog')
               /\ VersionsAfter(i)' <= Len(answer_versions)
    <3>1. CASE i = N + 1
      <4>1. /\ begun'[i].from = Len(eventLog) + 1 /\ TurnEnd(i)' = Len(eventLog')
            /\ VersionsAfter(i)' = Len(answer_versions)
        BY <1>3, <1>5, <3>1
      <4> QED  BY <1>1, <1>2, <4>1
    <3>2. CASE i # N + 1
      <4>1. i \in 1..N
        BY <1>1, <3>2
      <4>2. /\ begun[i].from \in Nat \ {0} /\ TurnEnd(i) \in 0..Len(eventLog)
            /\ begun[i].from <= TurnEnd(i) + 1 /\ VersionsAfter(i) \in 0..Len(answer_versions)
            /\ TurnEnd(i)' = TurnEnd(i) /\ VersionsAfter(i)' = VersionsAfter(i)
            /\ begun'[i] = begun[i]
        BY <1>1, <1>3, <1>4, <4>1
      <4> QED  BY <1>1, <1>2, <4>2
    <3> QED  BY <3>1, <3>2
  <2> QED  BY <1>3, <2>1 DEF Placement
<1>7. ASSUME NEW i \in 1..N PROVE TurnInv(i)'
  <2>1. Whole(eventLog', answer_versions', begun[i].from, TurnEnd(i), begun[i].versions, VersionsAfter(i))
    <3>1. \A k \in 1..Len(answer_versions) :
             k \in DOMAIN answer_versions' /\ answer_versions'[k] = answer_versions[k]
      BY LogTypes DEF LogInv
    <3>2. i \in 1..Len(begun) /\ ~(i = Len(begun) /\ phase # "idle")
      BY <1>0
    <3> QED  BY <1>2, <3>1, <3>2, OverStays
  <2>2. i # N + 1 /\ begun'[i] = begun[i]
    BY <1>1, <1>3
  <2> QED  BY <1>3, <1>4, <2>1, <2>2 DEF TurnInv
<1> QED  BY <1>0, <1>2, <1>3, <1>6, <1>7

LEMMA StartLog ==
    ASSUME TypeOK, TypeOK', LogInv, StartGeneration, PageNext
    PROVE  LogInv'
<1> DEFINE turn == [from |-> Len(eventLog) + 1, versions |-> Len(answer_versions),
                    reranked |-> evidence' \cap retrieved']
<1>0. PICK N \in Nat : N = Len(begun)
  BY LogTypes DEF LogInv
<1>1. /\ phase = "idle" /\ phase' = "streaming" /\ begun' = Append(begun, turn)
      /\ UNCHANGED <<answer_versions, eventLog, sentences, citations>>
  <2>1. generations' # generations
    BY DEF StartGeneration, BeginTurn, TypeOK
  <2> QED  BY <2>1 DEF StartGeneration, BeginTurn, PageNext, textVars
<1>2. /\ turn \in Turns /\ turn.from = Len(eventLog) + 1 /\ turn.versions = Len(answer_versions)
      /\ Len(eventLog) \in Nat /\ Len(answer_versions) \in Nat
  <2>1. Len(eventLog) \in Nat /\ Len(answer_versions) \in Nat
    BY LogTypes DEF LogInv
  <2>2. evidence' \subseteq Chunks
    BY DEF TypeOK
  <2> QED  BY <2>1, <2>2 DEF Turns
<1>3. <<>> \in Seq(Events) /\ eventLog' = eventLog \o <<>> /\ Len(<<>>) = 0
  BY <1>1 DEF TypeOK
<1> HIDE DEF turn
<1>4. /\ Placement' /\ Len(begun') = N + 1 /\ begun'[N + 1] = turn
      /\ \A i \in 1..N : TurnInv(i)'
      /\ Len(eventLog') = Len(eventLog)
  <2>1. /\ Placement' /\ Len(begun') = Len(begun) + 1 /\ begun'[Len(begun) + 1] = turn
        /\ \A i \in 1..Len(begun) : TurnInv(i)'
    BY <1>1, <1>2, <1>3, BeginLog
  <2> QED  BY <1>0, <1>1, <2>1
<1>5. sentences' = <<>> /\ citations' = <<>>
  BY <1>1 DEF LogInv, InTurn
<1>6. TurnInv(N + 1)'
  <2>1. Told(eventLog', turn.from, turn.from - 1, Len(answer_versions) + 1, <<>>, <<>>)
    <3>1. turn.from \in Nat \ {0}
      BY <1>2
    <3> QED  BY <3>1, ToldNothing
  <2>2. turn.from - 1 = Len(eventLog')
    BY <1>1, <1>2
  <2> QED  BY <1>1, <1>2, <1>4, <1>5, <2>1, <2>2 DEF TurnInv
<1>7. \A i \in 1..(N + 1) : i \in 1..N \/ i = N + 1
  BY <1>0
<1>8. InTurn'
  <2>1. begun' # <<>>
    BY <1>2, <1>4
  <2> QED  BY <1>5, <2>1 DEF InTurn
<1> QED  BY <1>4, <1>6, <1>7, <1>8 DEF LogInv

LEMMA LackLog ==
    ASSUME TypeOK, TypeOK', LogInv, LackEvidence, PageNext
    PROVE  LogInv'
<1> DEFINE turn == [from |-> Len(eventLog) + 1, versions |-> Len(answer_versions),
                    reranked |-> evidence' \cap retrieved']
           no == Len(answer_versions) + 1
<1>0. PICK N \in Nat : N = Len(begun)
  BY LogTypes DEF LogInv
<1>1. /\ phase = "idle" /\ phase' = "idle" /\ begun' = Append(begun, turn)
      /\ UNCHANGED <<answer_versions, sentences, citations>>
  <2>1. generations' # generations
    BY DEF LackEvidence, BeginTurn, TypeOK
  <2> QED  BY <2>1 DEF LackEvidence, BeginTurn, PageNext, textVars
<1>2. /\ turn \in Turns /\ turn.from = Len(eventLog) + 1 /\ turn.versions = Len(answer_versions)
      /\ Len(eventLog) \in Nat /\ Len(answer_versions) \in Nat
  <2>1. Len(eventLog) \in Nat /\ Len(answer_versions) \in Nat
    BY LogTypes DEF LogInv
  <2>2. evidence' \subseteq Chunks
    BY DEF TypeOK
  <2> QED  BY <2>1, <2>2 DEF Turns
<1>3. PICK n \in 1..MaxSubQueries : eventLog' = eventLog \o [i \in 1..n |-> Event("UNCERTAINTY", 0, None)]
  BY DEF LackEvidence, Emit
<1> DEFINE events == [i \in 1..n |-> Event("UNCERTAINTY", 0, None)]
<1>4. /\ events \in Seq(Events) /\ Len(events) = n /\ n \in Nat /\ eventLog \in Seq(Events)
      /\ \A i \in 1..n : events[i].kind = "UNCERTAINTY"
  <2>1. Event("UNCERTAINTY", 0, None) \in Events /\ n \in Nat
    BY EventType, BoundsAssumption DEF Kinds
  <2> QED  BY <2>1 DEF Event, TypeOK
<1>5. eventLog' = eventLog \o events
  BY <1>3
<1> HIDE DEF turn, events
<1>6. /\ Placement' /\ Len(begun') = N + 1 /\ begun'[N + 1] = turn
      /\ \A i \in 1..N : TurnInv(i)'
      /\ Len(eventLog') = Len(eventLog) + n
  <2>1. /\ Placement' /\ Len(begun') = Len(begun) + 1 /\ begun'[Len(begun) + 1] = turn
        /\ \A i \in 1..Len(begun) : TurnInv(i)'
        /\ Len(eventLog') = Len(eventLog) + Len(events)
    BY <1>1, <1>2, <1>4, <1>5, BeginLog
  <2> QED  BY <1>0, <1>4, <2>1
<1>7. sentences' = <<>> /\ citations' = <<>>
  BY <1>1 DEF LogInv, InTurn
<1>8. Told(events, 1, Len(events), no, <<>>, <<>>)
  <2> DEFINE at == [k \in 0..n |-> 0]
  <2>1. /\ at \in [(1 - 1)..n -> 0..Len(<<>>)] /\ at[1 - 1] = 0 /\ at[n] = 0 /\ Len(<<>>) = 0
        /\ \A k \in 1..n : at[k] = at[k - 1]
    BY <1>4
  <2> HIDE DEF at
  <2>2. \A kind \in {"ANSWER_DELTA", "CITATION_CREATED"} : IsCount(at, events, 1, n, kind, <<>>)
    BY <1>4, <2>1 DEF IsCount
  <2>3. \A kind \in {"ANSWER_DELTA", "CITATION_CREATED"} : Carry(events, 1, n, kind, <<>>)
    BY <2>1, <2>2 DEF Carry
  <2> QED  BY <1>4, <2>3 DEF Told, Body, BodyKinds
<1>9. Told(eventLog', turn.from, Len(eventLog'), no, <<>>, <<>>)
  <2>1. turn.from \in 1..(Len(eventLog) + 1) /\ turn.from \in Nat \ {0} /\ turn.from - 1 = Len(eventLog)
    BY <1>2
  <2>2. Told(eventLog, turn.from, turn.from - 1, no, <<>>, <<>>)
    BY <2>1, ToldNothing
  <2>3. /\ <<>> \in Seq(Texts) /\ <<>> \in Seq(Chunks) /\ <<>> \o <<>> = <<>>
    OBVIOUS
  <2>4. Told(eventLog, turn.from, Len(eventLog), no, <<>>, <<>>)
    BY <2>1, <2>2
  <2> HIDE DEF no
  <2>5. Told(eventLog \o events, turn.from, Len(eventLog \o events), no, <<>> \o <<>>, <<>> \o <<>>)
    BY <1>4, <1>8, <2>1, <2>3, <2>4, ToldMore
  <2> QED  BY <1>5, <2>3, <2>5
<1>10. TurnInv(N + 1)'
  <2>1. TurnEnd(N + 1)' = Len(eventLog') /\ VersionsAfter(N + 1)' = Len(answer_versions)
    BY <1>1, <1>6 DEF TurnEnd, VersionsAfter
  <2>2. Whole(eventLog', answer_versions', turn.from, Len(eventLog'), turn.versions, Len(answer_versions))
    BY <1>2, <1>9 DEF Whole
  <2> QED  BY <1>1, <1>6, <2>1, <2>2 DEF TurnInv
<1>11. \A i \in 1..(N + 1) : i \in 1..N \/ i = N + 1
  BY <1>0
<1>12. InTurn'
  BY <1>1, <1>7 DEF InTurn
<1> QED  BY <1>6, <1>10, <1>11, <1>12 DEF LogInv

\* The turn ends, with a version of what it said or with nothing said.
LEMMA EndLog ==
    ASSUME TypeOK, NumberInv, LogInv, Commit \/ EndEmpty, UNCHANGED begun
    PROVE  LogInv'
<1>0. PICK N \in Nat : N = Len(begun)
  BY LogTypes DEF LogInv
<1>1. /\ phase # "idle" /\ phase' = "idle" /\ sentences' = <<>> /\ citations' = <<>>
      /\ begun' = begun
  BY DEF Commit, EndEmpty, Return
<1>2. /\ Len(eventLog) \in Nat /\ Len(answer_versions) \in Nat /\ N \in 1..N
      /\ DOMAIN answer_versions = 1..Len(answer_versions)
      /\ \A i \in 1..N : /\ begun[i].from \in Nat \ {0} /\ begun[i].versions \in Nat
                         /\ TurnEnd(i) \in 0..Len(eventLog) /\ begun[i].from <= TurnEnd(i) + 1
                         /\ VersionsAfter(i) \in 0..Len(answer_versions)
  <2>1. begun # <<>> /\ begun \in Seq(Turns)
    BY <1>1 DEF LogInv, InTurn, Placement
  <2>2. N # 0
    BY <1>0, <2>1
  <2> QED  BY <1>0, <2>2, LogTypes DEF LogInv
<1>3. /\ begun[N].versions = Len(answer_versions)
      /\ Told(eventLog, begun[N].from, Len(eventLog), Len(answer_versions) + 1, sentences, citations)
      /\ TurnEnd(N) = Len(eventLog)
  BY <1>0, <1>1, <1>2 DEF LogInv, TurnInv, TurnEnd
<1>4. /\ \A k \in 1..Len(eventLog) : eventLog'[k] = eventLog[k]
      /\ \A k \in 1..Len(answer_versions) :
            k \in DOMAIN answer_versions' /\ answer_versions'[k] = answer_versions[k]
      /\ Len(eventLog') \in Nat /\ Len(eventLog') >= Len(eventLog)
      /\ Len(answer_versions') \in Nat /\ Len(answer_versions') >= Len(answer_versions)
      /\ Whole(eventLog', answer_versions', begun[N].from, Len(eventLog'),
               begun[N].versions, Len(answer_versions'))
  <2>1. CASE Commit
    <3> DEFINE L == Len(eventLog)
               V == Len(answer_versions)
    <3>1. /\ eventLog' = eventLog \o <<Event("ANSWER_VERSION_CREATED", V + 1, None)>>
          /\ answer_versions' = Append(answer_versions, NewVersion)
          /\ NewVersion.text = sentences /\ NewVersion.citations = CitationIds
      <4>1. VersionNo = V + 1
        BY PriorIsCount DEF VersionNo
      <4>2. eventLog' = eventLog \o <<Event("ANSWER_VERSION_CREATED", VersionNo, None)>>
        BY <2>1 DEF Commit, Emit
      <4> QED  BY <2>1, <4>1, <4>2, CommitAppends DEF NewVersion, AnswerText
    <3>2. eventLog \in Seq(Events) /\ answer_versions \in Seq(Versions)
      BY DEF TypeOK
    <3>3. /\ Len(eventLog') = L + 1 /\ eventLog'[L + 1] = Event("ANSWER_VERSION_CREATED", V + 1, None)
          /\ \A k \in 1..L : eventLog'[k] = eventLog[k]
      BY <3>1, <3>2
    <3>4. /\ Len(answer_versions') = V + 1 /\ DOMAIN answer_versions' = 1..(V + 1)
          /\ answer_versions'[V + 1] = NewVersion
          /\ \A k \in 1..V : answer_versions'[k] = answer_versions[k]
      BY <3>1, <3>2
    <3> HIDE DEF L, V
    <3>5. L \in Nat /\ V \in Nat /\ begun[N].from \in Nat \ {0} /\ begun[N].from <= L + 1
      BY <1>2, <1>3 DEF L, V
    <3>6. Told(eventLog', begun[N].from, L, V + 1, sentences, citations)
      <4>1. \A k \in begun[N].from..L : k \in 1..L
        BY <3>5
      <4>2. \A k \in begun[N].from..L : eventLog'[k] = eventLog[k]
        BY <3>3, <4>1
      <4>3. Told(eventLog, begun[N].from, L, V + 1, sentences, citations)
        BY <1>3 DEF L, V
      <4> QED  BY <3>5, <4>2, <4>3, ToldStays
    <3>7. V + 1 \in DOMAIN answer_versions' /\ L + 1 - 1 = L
      BY <3>4, <3>5
    <3>11. ToldAsMany(eventLog', begun[N].from, L, V + 1, sentences, CitationIds)
      <4>1. citations \in Seq(Chunks) /\ Len(citations) = Len(CitationIds)
        BY CitationIdsType DEF TypeOK
      <4> QED  BY <3>6, <4>1 DEF ToldAsMany
    <3>8. Whole(eventLog', answer_versions', begun[N].from, L + 1, V, V + 1)
      BY <3>1, <3>3, <3>4, <3>5, <3>7, <3>11 DEF Whole
    <3>9. \A k \in 1..V : k \in 1..(V + 1)
      BY <3>5
    <3>10. begun[N].versions = V /\ L = Len(eventLog) /\ V = Len(answer_versions)
      BY <1>3 DEF L, V
    <3> QED  BY <3>3, <3>4, <3>5, <3>8, <3>9, <3>10
  <2>2. CASE EndEmpty
    <3>1. eventLog' = eventLog /\ answer_versions' = answer_versions /\ sentences = <<>> /\ citations = <<>>
      BY <2>2 DEF EndEmpty, LogInv, InTurn
    <3>2. Told(eventLog', begun[N].from, Len(eventLog'), Len(answer_versions') + 1, <<>>, <<>>)
      BY <1>3, <3>1
    <3>3. begun[N].versions = Len(answer_versions')
      BY <1>3, <3>1
    <3>4. Whole(eventLog', answer_versions', begun[N].from, Len(eventLog'),
                begun[N].versions, Len(answer_versions'))
      BY <3>2, <3>3 DEF Whole
    <3> QED  BY <1>2, <3>1, <3>4
  <2> QED  BY <2>1, <2>2
<1>5. \A i \in 1..N : /\ i # N => TurnEnd(i)' = TurnEnd(i) /\ VersionsAfter(i)' = VersionsAfter(i)
                      /\ i = N => TurnEnd(i)' = Len(eventLog') /\ VersionsAfter(i)' = Len(answer_versions')
  BY <1>0, <1>1 DEF TurnEnd, VersionsAfter
<1>6. Placement'
  <2>1. ASSUME NEW i \in 1..N
        PROVE  /\ begun[i].from <= TurnEnd(i)' + 1 /\ TurnEnd(i)' <= Len(eventLog')
               /\ VersionsAfter(i)' <= Len(answer_versions')
    <3>1. CASE i = N
      <4>1. begun[i].from \in Nat \ {0} /\ begun[i].from <= Len(eventLog) + 1
        BY <1>2, <1>3, <3>1
      <4>2. TurnEnd(i)' = Len(eventLog') /\ VersionsAfter(i)' = Len(answer_versions')
        BY <1>5, <3>1
      <4>3. /\ Len(eventLog) \in Nat /\ Len(eventLog') \in Nat /\ Len(eventLog') >= Len(eventLog)
            /\ Len(answer_versions') \in Nat
        BY <1>2, <1>4
      <4> QED  BY <4>1, <4>2, <4>3
    <3>2. CASE i # N
      <4>1. /\ begun[i].from \in Nat \ {0} /\ TurnEnd(i) \in 0..Len(eventLog)
            /\ begun[i].from <= TurnEnd(i) + 1 /\ VersionsAfter(i) \in 0..Len(answer_versions)
            /\ TurnEnd(i)' = TurnEnd(i) /\ VersionsAfter(i)' = VersionsAfter(i)
        BY <1>2, <1>5, <3>2
      <4>2. /\ Len(eventLog) \in Nat /\ Len(eventLog') \in Nat /\ Len(eventLog') >= Len(eventLog)
            /\ Len(answer_versions) \in Nat /\ Len(answer_versions') \in Nat
            /\ Len(answer_versions') >= Len(answer_versions)
        BY <1>2, <1>4
      <4>3. TurnEnd(i)' <= Len(eventLog')
        BY <4>1, <4>2
      <4>4. VersionsAfter(i)' <= Len(answer_versions')
        BY <4>1, <4>2
      <4> QED  BY <4>1, <4>3, <4>4
    <3> QED  BY <3>1, <3>2
  <2> QED  BY <1>0, <1>1, <2>1 DEF Placement, LogInv
<1>7. ASSUME NEW i \in 1..N PROVE TurnInv(i)'
  <2>1. CASE i = N
    BY <1>1, <1>4, <1>5, <2>1 DEF TurnInv
  <2>2. CASE i # N
    <3>1. i \in 1..Len(begun) /\ ~(i = Len(begun) /\ phase # "idle")
      BY <1>0, <2>2
    <3>2. Whole(eventLog', answer_versions', begun[i].from, TurnEnd(i), begun[i].versions, VersionsAfter(i))
      BY <1>4, <3>1, OverStays
    <3> QED  BY <1>1, <1>5, <2>2, <3>2 DEF TurnInv
  <2> QED  BY <2>1, <2>2
<1>8. InTurn'
  BY <1>1 DEF InTurn
<1>9. Len(begun') = N
  BY <1>0, <1>1
<1> QED  BY <1>6, <1>7, <1>8, <1>9 DEF LogInv

LEMMA LogStep ==
    ASSUME GenerationInv, GenerationInv', LogInv, [PageNext]_pageVars
    PROVE  LogInv'
<1>1. TypeOK /\ NumberInv /\ DraftInv /\ TypeOK'
  BY DEF GenerationInv
<1>2. CASE UNCHANGED pageVars
  BY <1>2, QuietLog DEF pageVars, vars, textVars
<1>3. CASE PageNext /\ generations' # generations
  <2>1. LackEvidence \/ StartGeneration
    BY <1>3 DEF PageNext, Next, Consumer, LlmSays, LlmStops, Tick, TakeToken, TakeSentence,
        EndOfStream, StreamTimesOut, TakeLeftover, RegenerationTimesOut, RegenerationFails,
        RegenerationAnswers, Regenerated, Commit, EndEmpty, Return
  <2> QED  BY <1>1, <1>3, <2>1, LackLog, StartLog
<1>4. CASE PageNext /\ generations' = generations
  <2>1. Next /\ begun' = begun
    BY <1>4 DEF PageNext
  <2>2. ~LackEvidence /\ ~StartGeneration
    BY <1>1, <1>4 DEF LackEvidence, StartGeneration, BeginTurn, TypeOK
  <2>3. CASE LlmStops \/ Tick \/ \E token \in SomeTokens : LlmSays(token)
    BY <2>1, <2>3, QuietLog DEF LlmStops, Tick, LlmSays, textVars
  <2>4. CASE TakeToken
    BY <2>1, <2>4, QuietLog DEF TakeToken
  <2>5. CASE Commit \/ EndEmpty
    BY <1>1, <2>1, <2>5, EndLog
  <2>6. ASSUME Publishes, UNCHANGED answer_versions, phase # "idle", phase' # "idle"
        PROVE  LogInv'
    BY <1>1, <2>1, <2>6, PublishLog
  <2>7. ASSUME NEW s \in Sentences, Finalize(s)
        PROVE  Publishes
    <3>1. CASE Verdict(s) = "accept"
      BY <1>1, <2>7, <3>1, ClaimPublishes DEF Finalize
    <3>2. CASE Verdict(s) # "accept"
      BY <1>1, <2>7, <3>2, QuietPublishes DEF Finalize
    <3> QED  BY <3>1, <3>2
  <2>8. CASE TakeSentence
    <3>1. Head(closed) \in Sentences
      <4>1. closed \in Seq(Sentences)
        BY <1>1 DEF TypeOK
      <4>2. closed # <<>>
        BY <2>8 DEF TakeSentence
      <4> QED  BY <4>1, <4>2
    <3> QED  BY <2>6, <2>7, <2>8, <3>1 DEF TakeSentence
  <2>9. CASE TakeLeftover
    BY <2>6, <2>7, <2>9 DEF TakeLeftover
  <2>10. CASE EndOfStream \/ StreamTimesOut
    <3>1. /\ phase = "streaming" /\ phase' = "closing"
          /\ UNCHANGED <<answer_versions, sentences, citations>>
      BY <2>10 DEF EndOfStream, StreamTimesOut, AwaitsToken, textVars
    <3>2. Emit(<<Event("ERROR", 0, None)>>) \/ Emit(<<>>)
      BY <2>10 DEF EndOfStream, StreamTimesOut
    <3>3. CASE Emit(<<Event("ERROR", 0, None)>>)
      BY <1>1, <2>6, <3>1, <3>3, ErrorPublishes
    <3>4. CASE Emit(<<>>)
      <4>1. eventLog' = eventLog
        BY <1>1, <3>4 DEF Emit, TypeOK
      <4> QED  BY <1>1, <2>6, <3>1, <4>1, QuietPublishes
    <3> QED  BY <3>2, <3>3, <3>4
  <2>11. ASSUME Regenerated
         PROVE  UNCHANGED <<answer_versions, phase>> /\ phase # "idle"
    BY <1>1, <2>11 DEF Regenerated, DraftInv
  <2>12. ASSUME NEW s \in Sentences, RegenerationAnswers(s) PROVE LogInv'
    <3>1. Regenerated
      BY <2>12 DEF RegenerationAnswers
    <3>2. CASE Verdict(s) = "accept"
      BY <1>1, <2>6, <2>11, <2>12, <3>1, <3>2, ClaimPublishes DEF RegenerationAnswers
    <3>3. CASE Verdict(s) # "accept"
      <4>1. Verdict(s) \in Reasons /\ PublishUncertainty(Verdict(s))
        BY <2>12, <3>3, RefusalHasReason DEF RegenerationAnswers
      <4> QED  BY <1>1, <2>6, <2>11, <3>1, <4>1, UncertaintyPublishes
    <3> QED  BY <3>2, <3>3
  <2>13. CASE RegenerationFails
    <3>1. Regenerated /\ PublishUncertainty(Verdict(draft)) /\ draft \in Sentences
      BY <1>1, <2>13 DEF RegenerationFails, Regenerated, TypeOK
    <3>2. Verdict(draft) \in Reasons
      BY <1>1, <3>1, RefusalHasReason DEF DraftInv, Regenerated
    <3> QED  BY <1>1, <2>6, <2>11, <3>1, <3>2, UncertaintyPublishes
  <2> QED
    BY <2>1, <2>2, <2>3, <2>4, <2>5, <2>8, <2>9, <2>10, <2>12, <2>13
       DEF Next, Consumer, RegenerationTimesOut
<1> QED  BY <1>2, <1>3, <1>4 DEF pageVars

\* The generations of a page are those of AnswerGeneration.
LEMMA PageRefines == PageSpec => Spec
<1>1. PageInit => Init
  BY DEF PageInit
<1>2. [PageNext]_pageVars => [Next]_vars
  BY DEF PageNext, pageVars
<1> QED  BY <1>1, <1>2, PTL DEF PageSpec, Spec

LEMMA LogInvariant == PageSpec => [](GenerationInv /\ LogInv)
<1>1. PageInit => LogInv
  <2> SUFFICES ASSUME PageInit PROVE LogInv
    OBVIOUS
  <2>1. /\ begun = <<>> /\ eventLog = <<>> /\ answer_versions = <<>> /\ phase = "idle"
        /\ sentences = <<>> /\ citations = <<>>
    BY DEF PageInit, Init
  <2>2. begun \in Seq(Turns) /\ Len(begun) = 0 /\ 1..0 = {}
    BY <2>1
  <2> QED  BY <2>1, <2>2 DEF LogInv, Placement, InTurn
<1>2. GenerationInv /\ GenerationInv' /\ LogInv /\ [PageNext]_pageVars => LogInv'
  BY LogStep
<1>3. PageSpec => []GenerationInv
  BY PageRefines, GenerationInvariant, PTL
<1> QED  BY <1>1, <1>2, <1>3, PTL DEF PageSpec

(***************************************************************************)
(* What an event does to a page.                                           *)
(***************************************************************************)

PageFields == {"currentTraceId", "stages", "subqueries", "evidence", "answer", "answerHistory",
               "transcript", "resyncNotice", "lastError"}
AnswerFields == {"versionNo", "text", "citationChunkIds", "isStreaming", "supersedes"}

IsPage(p) == PageFields \subseteq DOMAIN p /\ AnswerFields \subseteq DOMAIN p.answer

\* What a page shows of the turn.
Shown(p) == <<p.currentTraceId, p.subqueries, p.evidence, p.answer>>

\* next shows the answers p shows.
SameAnswers(p, next) ==
    IsPage(next) /\ next.answer = p.answer /\ next.answerHistory = p.answerHistory

\* What the page shows of the turn depends on what it showed of it only.
ShownFollows(p, next, q, nextq) == Shown(p) = Shown(q) => Shown(next) = Shown(nextq)

LEMMA SubqueryShows ==
    ASSUME NEW p, NEW q, IsPage(p), IsPage(q), NEW e
    PROVE  /\ SameAnswers(p, Reducer!OnSubquery(p, e))
           /\ ShownFollows(p, Reducer!OnSubquery(p, e), q, Reducer!OnSubquery(q, e))
BY DEF SameAnswers, ShownFollows, Shown, IsPage, PageFields, AnswerFields, Reducer!OnSubquery

LEMMA StartedShows ==
    ASSUME NEW p, NEW q, IsPage(p), IsPage(q), NEW e
    PROVE  /\ SameAnswers(p, Reducer!OnRetrievalStarted(p, e))
           /\ ShownFollows(p, Reducer!OnRetrievalStarted(p, e), q, Reducer!OnRetrievalStarted(q, e))
BY DEF SameAnswers, ShownFollows, Shown, IsPage, PageFields, AnswerFields,
       Reducer!OnRetrievalStarted, Reducer!Updated

LEMMA CompletedShows ==
    ASSUME NEW p, NEW q, IsPage(p), IsPage(q), NEW e
    PROVE  /\ SameAnswers(p, Reducer!OnRetrievalCompleted(p, e))
           /\ ShownFollows(p, Reducer!OnRetrievalCompleted(p, e), q, Reducer!OnRetrievalCompleted(q, e))
BY DEF SameAnswers, ShownFollows, Shown, IsPage, PageFields, AnswerFields,
       Reducer!OnRetrievalCompleted, Reducer!Updated

LEMMA RerankedShows ==
    ASSUME NEW p, NEW q, IsPage(p), IsPage(q), NEW e
    PROVE  /\ SameAnswers(p, Reducer!OnReranked(p, e))
           /\ ShownFollows(p, Reducer!OnReranked(p, e), q, Reducer!OnReranked(q, e))
BY DEF SameAnswers, ShownFollows, Shown, IsPage, PageFields, AnswerFields,
       Reducer!OnReranked, Reducer!Updated

LEMMA CitationShows ==
    ASSUME NEW p, NEW q, IsPage(p), IsPage(q), NEW e
    PROVE  /\ SameAnswers(p, Reducer!OnCitation(p, e))
           /\ ShownFollows(p, Reducer!OnCitation(p, e), q, Reducer!OnCitation(q, e))
BY DEF SameAnswers, ShownFollows, Shown, IsPage, PageFields, AnswerFields, Reducer!OnCitation

LEMMA UncertaintyShows ==
    ASSUME NEW p, NEW q, IsPage(p), IsPage(q), NEW e
    PROVE  /\ SameAnswers(p, Reducer!OnUncertainty(p, e))
           /\ ShownFollows(p, Reducer!OnUncertainty(p, e), q, Reducer!OnUncertainty(q, e))
BY DEF SameAnswers, ShownFollows, Shown, IsPage, PageFields, AnswerFields,
       Reducer!OnUncertainty, Reducer!Updated

LEMMA ErrorShows ==
    ASSUME NEW p, NEW q, IsPage(p), IsPage(q), NEW e, e.stage = "generation"
    PROVE  /\ SameAnswers(p, Reducer!OnError(p, e))
           /\ ShownFollows(p, Reducer!OnError(p, e), q, Reducer!OnError(q, e))
BY DEF SameAnswers, ShownFollows, Shown, IsPage, PageFields, AnswerFields, Reducer!OnError,
       Reducer!setStage

LEMMA ResyncShows ==
    ASSUME NEW p, IsPage(p), NEW e
    PROVE  SameAnswers(p, Reducer!OnResync(p, e))
BY DEF SameAnswers, IsPage, PageFields, AnswerFields, Reducer!OnResync

LEMMA ChunkShows ==
    ASSUME NEW p, IsPage(p), NEW seq
    PROVE  SameAnswers(p, Reducer!ChunkSent(p, seq))
BY DEF SameAnswers, IsPage, PageFields, AnswerFields, Reducer!ChunkSent

LEMMA NewTurnShows ==
    ASSUME NEW p, IsPage(p), NEW trace
    PROVE  LET next == Reducer!startNewTurn(p, trace)
           IN  /\ IsPage(next) /\ next.answerHistory = p.answerHistory
               /\ Shown(next) = <<trace, <<>>, <<>>, Reducer!NoAnswer>>
BY DEF Shown, IsPage, PageFields, AnswerFields, Reducer!startNewTurn, Reducer!NoAnswer

LEMMA DeltaShows ==
    ASSUME NEW p, NEW q, IsPage(p), IsPage(q), NEW e
    PROVE  LET next == Reducer!OnDelta(p, e)
           IN  /\ IsPage(next) /\ next.answerHistory = p.answerHistory
               /\ next.answer.versionNo = e.version_no
               /\ next.answer.text = Append(p.answer.text, e.text_delta)
               /\ next.answer.isStreaming = TRUE
               /\ ShownFollows(p, next, q, Reducer!OnDelta(q, e))
BY DEF ShownFollows, Shown, IsPage, PageFields, AnswerFields, Reducer!OnDelta

\* The answer an announced version becomes.
Announced(e) == [versionNo |-> e.version_no, text |-> e.text, citationChunkIds |-> e.citations,
                 isStreaming |-> FALSE, supersedes |-> e.supersedes]

LEMMA VersionShows ==
    ASSUME NEW p, NEW q, IsPage(p), IsPage(q), NEW e
    PROVE  LET next == Reducer!OnVersion(p, e)
               history == p.answerHistory
           IN  /\ IsPage(next) /\ next.answer = Announced(e)
               /\ (\A i \in DOMAIN history : history[i].versionNo # e.version_no)
                     => next.answerHistory = Append(history, Announced(e))
               /\ ShownFollows(p, next, q, Reducer!OnVersion(q, e))
BY DEF ShownFollows, Shown, IsPage, PageFields, AnswerFields, Reducer!OnVersion, Announced

\* An event of a turn that leaves the answers as they are.
Quiet(e) ==
    /\ e.kind \in {"SUBQUERY_CREATED", "RETRIEVAL_STARTED", "RETRIEVAL_COMPLETED",
                   "RERANK_COMPLETED", "CITATION_CREATED", "UNCERTAINTY", "ERROR"}
    /\ e.kind = "ERROR" => e.stage = "generation"

LEMMA QuietEventShows ==
    ASSUME NEW p, NEW q, IsPage(p), IsPage(q), NEW e, Quiet(e)
    PROVE  /\ SameAnswers(p, Reducer!applyEvent(p, e))
           /\ ShownFollows(p, Reducer!applyEvent(p, e), q, Reducer!applyEvent(q, e))
<1>1. CASE e.kind = "SUBQUERY_CREATED"
  BY <1>1, SubqueryShows DEF Reducer!applyEvent
<1>2. CASE e.kind = "RETRIEVAL_STARTED"
  BY <1>2, StartedShows DEF Reducer!applyEvent
<1>3. CASE e.kind = "RETRIEVAL_COMPLETED"
  BY <1>3, CompletedShows DEF Reducer!applyEvent
<1>4. CASE e.kind = "RERANK_COMPLETED"
  BY <1>4, RerankedShows DEF Reducer!applyEvent
<1>5. CASE e.kind = "CITATION_CREATED"
  BY <1>5, CitationShows DEF Reducer!applyEvent
<1>6. CASE e.kind = "UNCERTAINTY"
  BY <1>6, UncertaintyShows DEF Reducer!applyEvent
<1>7. CASE e.kind = "ERROR"
  BY <1>7, ErrorShows DEF Reducer!applyEvent, Quiet
<1> QED  BY <1>1, <1>2, <1>3, <1>4, <1>5, <1>6, <1>7 DEF Quiet

LEMMA DecisionEventShows ==
    ASSUME NEW p, IsPage(p), NEW i
    PROVE  LET next == Reducer!applyEvent(p, Decided(i))
           IN  /\ IsPage(next) /\ next.answerHistory = p.answerHistory
               /\ Shown(next) = <<i, <<>>, <<>>, Reducer!NoAnswer>>
<1>1. Reducer!applyEvent(p, Decided(i)) = Reducer!startNewTurn(p, i)
  BY DEF Reducer!applyEvent, Reducer!OnDecision, Decided
<1> QED  BY <1>1, NewTurnShows

LEMMA DeltaEventShows ==
    ASSUME NEW p, NEW q, IsPage(p), IsPage(q), NEW e, e.kind = "ANSWER_DELTA"
    PROVE  LET next == Reducer!applyEvent(p, e)
           IN  /\ IsPage(next) /\ next.answerHistory = p.answerHistory
               /\ next.answer.versionNo = e.version_no
               /\ next.answer.text = Append(p.answer.text, e.text_delta)
               /\ next.answer.isStreaming = TRUE
               /\ ShownFollows(p, next, q, Reducer!applyEvent(q, e))
<1>1. Reducer!applyEvent(p, e) = Reducer!OnDelta(p, e)
  BY DEF Reducer!applyEvent
<1>2. Reducer!applyEvent(q, e) = Reducer!OnDelta(q, e)
  BY DEF Reducer!applyEvent
<1>3. /\ IsPage(Reducer!OnDelta(p, e))
      /\ Reducer!OnDelta(p, e).answerHistory = p.answerHistory
      /\ Reducer!OnDelta(p, e).answer.versionNo = e.version_no
      /\ Reducer!OnDelta(p, e).answer.text = Append(p.answer.text, e.text_delta)
      /\ Reducer!OnDelta(p, e).answer.isStreaming = TRUE
      /\ ShownFollows(p, Reducer!OnDelta(p, e), q, Reducer!OnDelta(q, e))
  BY DeltaShows
<1> QED  BY ONLY <1>1, <1>2, <1>3

LEMMA VersionEventShows ==
    ASSUME NEW p, NEW q, IsPage(p), IsPage(q), NEW e, e.kind = "ANSWER_VERSION_CREATED"
    PROVE  LET next == Reducer!applyEvent(p, e)
               history == p.answerHistory
           IN  /\ IsPage(next) /\ next.answer = Announced(e)
               /\ (\A i \in DOMAIN history : history[i].versionNo # e.version_no)
                     => next.answerHistory = Append(history, Announced(e))
               /\ ShownFollows(p, next, q, Reducer!applyEvent(q, e))
<1>1. /\ Reducer!applyEvent(p, e) = Reducer!OnVersion(p, e)
      /\ Reducer!applyEvent(q, e) = Reducer!OnVersion(q, e)
  BY DEF Reducer!applyEvent
<1> QED  BY <1>1, VersionShows

LEMMA ResyncEventShows ==
    ASSUME NEW p, IsPage(p)
    PROVE  SameAnswers(p, Resync(p))
BY ResyncShows DEF Reducer!applyEvent, Resync

(***************************************************************************)
(* The pages of a turn.                                                    *)
(***************************************************************************)

\* heard[n] is the page after the first n of events.
Hears(heard, page, events, n) ==
    heard = [k \in 0..n |-> IF k = 0 THEN page ELSE Reducer!applyEvent(heard[k - 1], events[k])]

LEMMA HeardExists ==
    ASSUME NEW page, NEW events, NEW L \in Nat
    PROVE  \E heard : Hears(heard, page, events, L)
<1> DEFINE Has(n) == \E heard : Hears(heard, page, events, n)
           Good == {n \in Nat : Has(n)}
<1>1. 0 \in Good
  <2> DEFINE heard == [k \in 0..0 |-> page]
  <2>1. Hears(heard, page, events, 0)
    BY DEF Hears
  <2> QED  BY <2>1
<1>2. ASSUME NEW n \in Nat, n \in Good PROVE n + 1 \in Good
  <2>1. PICK heard : Hears(heard, page, events, n)
    BY <1>2
  <2> DEFINE next == [k \in 0..(n + 1) |->
                        IF k = n + 1 THEN Reducer!applyEvent(heard[n], events[n + 1]) ELSE heard[k]]
  <2>2. \A k \in 0..n : k \in 0..(n + 1) /\ k # n + 1 /\ next[k] = heard[k]
    OBVIOUS
  <2>3. \A k \in 0..(n + 1) :
           next[k] = IF k = 0 THEN page ELSE Reducer!applyEvent(next[k - 1], events[k])
    <3> SUFFICES ASSUME NEW k \in 0..(n + 1)
                 PROVE  next[k] = IF k = 0 THEN page ELSE Reducer!applyEvent(next[k - 1], events[k])
      OBVIOUS
    <3>1. CASE k = n + 1
      <4>1. next[k] = Reducer!applyEvent(heard[n], events[n + 1]) /\ k # 0 /\ k - 1 = n /\ n \in 0..n
        BY <3>1
      <4>2. next[n] = heard[n]
        BY <2>2, <4>1
      <4> HIDE DEF next
      <4> QED  BY <3>1, <4>1, <4>2
    <3>2. CASE k # n + 1
      <4>1. k \in 0..n
        BY <3>2
      <4>2. next[k] = heard[k] /\ heard[k] = IF k = 0 THEN page ELSE Reducer!applyEvent(heard[k - 1], events[k])
        BY <2>1, <2>2, <4>1 DEF Hears
      <4>3. k # 0 => k - 1 \in 0..n
        BY <4>1
      <4>4. k # 0 => next[k - 1] = heard[k - 1]
        BY <2>2, <4>3
      <4> HIDE DEF next
      <4> QED  BY <4>2, <4>4
    <3> QED  BY <3>1, <3>2
  <2>4. next = [k \in 0..(n + 1) |-> next[k]]
    OBVIOUS
  <2> HIDE DEF next
  <2>5. Hears(next, page, events, n + 1)
    BY <2>3, <2>4 DEF Hears
  <2>6. Has(n + 1)
    BY <2>5
  <2> QED  BY <2>6
<1>3. L \in Good
  <2> HIDE DEF Good
  <2> QED  BY <1>1, <1>2, SetInduction
<1> QED  BY <1>3

\* What Pages makes of a turn's events is what is heard of them.
LEMMA PagesHeard ==
    ASSUME NEW page, NEW i, NEW L \in Nat, Len(TurnEvents(i)) = L
    PROVE  \E heard : /\ Hears(heard, page, TurnEvents(i), L)
                      /\ Pages(page, i) = [n \in 1..(L + 1) |-> heard[n - 1]]
<1> DEFINE events == TurnEvents(i)
           Is(it) == it = [n \in 0..L |->
                             IF n = 0 THEN <<page>>
                             ELSE LET before == it[n - 1]
                                  IN  Append(before, Reducer!applyEvent(Last(before), events[n]))]
           pages == CHOOSE it : Is(it)
<1>1. PICK heard : Hears(heard, page, events, L)
  BY HeardExists
<1> DEFINE part(n) == [k \in 1..(n + 1) |-> heard[k - 1]]
           Some == {heard[k] : k \in 0..L}
<1>2. ASSUME NEW n \in 0..L PROVE part(n) \in Seq(Some) /\ Len(part(n)) = n + 1 /\ Last(part(n)) = heard[n]
  <2>1. \A k \in 1..(n + 1) : k - 1 \in 0..L
    OBVIOUS
  <2>2. part(n) \in [1..(n + 1) -> Some] /\ n + 1 \in Nat
    BY <2>1
  <2>3. part(n) \in Seq(Some) /\ Len(part(n)) = n + 1
    BY <2>2
  <2>4. part(n)[n + 1] = heard[n]
    OBVIOUS
  <2> HIDE DEF part
  <2> QED  BY <2>3, <2>4 DEF Last
<1>3. ASSUME NEW n \in 1..L PROVE part(n) = Append(part(n - 1), Reducer!applyEvent(Last(part(n - 1)), events[n]))
  <2>1. n - 1 \in 0..L /\ (n - 1) + 1 = n
    OBVIOUS
  <2>2. part(n - 1) \in Seq(Some) /\ Len(part(n - 1)) = n /\ Last(part(n - 1)) = heard[n - 1]
    BY <1>2, <2>1
  <2>3. heard[n] = Reducer!applyEvent(heard[n - 1], events[n])
    BY <1>1 DEF Hears
  <2>4. heard[n] \in Some
    OBVIOUS
  <2> DEFINE more == Append(part(n - 1), heard[n])
  <2>5. more = [k \in 1..(n + 1) |-> IF k = n + 1 THEN heard[n] ELSE part(n - 1)[k]]
    <3> HIDE DEF part, Some
    <3> QED  BY <2>2, <2>4
  <2>6. \A k \in 1..(n + 1) : k # n + 1 => part(n - 1)[k] = heard[k - 1]
    BY <2>1
  <2>7. more = part(n)
    <3>1. \A k \in 1..(n + 1) : k = n + 1 => heard[k - 1] = heard[n]
      OBVIOUS
    <3> QED  BY <2>5, <2>6, <3>1
  <2> HIDE DEF part, more
  <2>8. more = Append(part(n - 1), Reducer!applyEvent(Last(part(n - 1)), events[n]))
    BY <2>2, <2>3 DEF more
  <2> QED  BY <2>7, <2>8
<1>4. part(0) = <<page>>
  <2>1. heard[0] = page
    BY <1>1 DEF Hears
  <2> QED  BY <2>1
<1> HIDE DEF Some
<1>5. Is(pages)
  <2> DEFINE all == [n \in 0..L |-> part(n)]
  <2>1. \A n \in 0..L : all[n] = part(n)
    OBVIOUS
  <2>2. \A n \in 0..L : n # 0 => n \in 1..L /\ n - 1 \in 0..L
    OBVIOUS
  <2> HIDE DEF part
  <2>3. all = [n \in 0..L |-> all[n]]
    OBVIOUS
  <2> HIDE DEF all
  <2>4. \A n \in 0..L : all[n] = IF n = 0 THEN <<page>>
                                 ELSE LET before == all[n - 1]
                                      IN  Append(before, Reducer!applyEvent(Last(before), events[n]))
    BY <1>3, <1>4, <2>1, <2>2
  <2>5. Is(all)
    BY <2>3, <2>4
  <2> HIDE DEF Is
  <2> QED  BY <2>5
<1>6. Pages(page, i) = pages[L]
  BY DEF Pages
<1> HIDE DEF pages, part
<1>7. pages[L] = part(L)
  <2> DEFINE S == {n \in 0..L : pages[n] = part(n)}
  <2>1. 0 \in S
    BY <1>4, <1>5
  <2>2. ASSUME NEW n \in 1..L, n - 1 \in S PROVE n \in S
    <3>1. n \in 0..L /\ n # 0
      OBVIOUS
    <3>2. pages[n] = Append(pages[n - 1], Reducer!applyEvent(Last(pages[n - 1]), events[n]))
      BY <1>5, <3>1
    <3>3. pages[n - 1] = part(n - 1)
      BY <2>2
    <3> QED  BY <1>3, <3>1, <3>2, <3>3
  <2>3. \A n \in 0..L : n \in S
    <3> HIDE DEF S
    <3> QED  BY <2>1, <2>2, UpToN
  <2> QED  BY <2>3
<1> QED  BY <1>1, <1>6, <1>7 DEF part

(***************************************************************************)
(* What a turn that is over tells a page.                                  *)
(***************************************************************************)

\* The first K events begin turn i and stream text as the version no: streamed[n] of its
\* sentences after n of them.
Streams(events, K, i, no, text, streamed) ==
    /\ streamed \in [1..K -> 0..Len(text)] /\ streamed[1] = 0 /\ streamed[K] = Len(text)
    /\ events[1] = Decided(i)
    /\ \A n \in 2..K :
          \/ Quiet(events[n]) /\ streamed[n] = streamed[n - 1]
          \/ /\ events[n].kind = "ANSWER_DELTA" /\ streamed[n] = streamed[n - 1] + 1
             /\ events[n].version_no = no /\ events[n].text_delta = text[streamed[n]]

\* The first K events cite chunks: cited[n] of them after n of the events.
Cites(events, K, chunks, cited) ==
    /\ cited \in [0..K -> 0..Len(chunks)] /\ cited[0] = 0 /\ cited[K] = Len(chunks)
    /\ \A n \in 1..K :
          IF events[n].kind = "CITATION_CREATED"
          THEN cited[n] = cited[n - 1] + 1 /\ events[n].chunk = chunks[cited[n]]
          ELSE cited[n] = cited[n - 1]

\* The same, of as many chunks as there are ids.
CitesAsMany(events, K, ids) ==
    \E chunks \in Seq(Chunks) : Len(chunks) = Len(ids) /\ \E cited : Cites(events, K, chunks, cited)

\* The event that announces version n.
Announcement(n) ==
    [kind |-> "ANSWER_VERSION_CREATED", version_no |-> n, text |-> answer_versions[n].text,
     citations |-> answer_versions[n].citations, supersedes |-> answer_versions[n].supersedes]

\* Of an answer a turn tells nothing, or its text and as many citations as it has ids, and
\* then the version.
Tells(i) ==
    LET events == TurnEvents(i)
        L == Len(events)
        no == begun[i].versions + 1
        version == answer_versions[no]
    IN  /\ L \in Nat /\ L >= 7
        /\ \/ /\ VersionsAfter(i) = begun[i].versions
              /\ events[L].kind # "ANSWER_VERSION_CREATED"
              /\ \E streamed : Streams(events, L, i, no, <<>>, streamed)
           \/ /\ VersionsAfter(i) = no /\ no \in 1..Len(answer_versions) /\ L >= 8
              /\ \E streamed : Streams(events, L - 1, i, no, version.text, streamed)
              /\ CitesAsMany(events, L - 1, version.citations)
              /\ events[L] = Announcement(no)

LEMMA DispatchTells ==
    ASSUME NEW i
    PROVE  /\ Len(Dispatched(i)) = 7
           /\ Dispatched(i)[1] = Decided(i)
           /\ \A n \in 1..7 : n # 1 => Quiet(Dispatched(i)[n])
           /\ \A n \in 1..7 : Dispatched(i)[n].kind \notin {"CITATION_CREATED", "ANSWER_VERSION_CREATED"}
<1>1. /\ Len(Dispatched(i)) = 7
      /\ Dispatched(i)[1] = Decided(i)
      /\ Dispatched(i)[2] = SubqueryCreated(i)
      /\ Dispatched(i)[3] = Searched(i, "RETRIEVAL_STARTED", "dense")
      /\ Dispatched(i)[4] = Searched(i, "RETRIEVAL_STARTED", "sparse")
      /\ Dispatched(i)[5] = Searched(i, "RETRIEVAL_COMPLETED", "sparse")
      /\ Dispatched(i)[6] = Searched(i, "RETRIEVAL_COMPLETED", "dense")
      /\ Dispatched(i)[7] = Reranked(i)
  BY DEF Dispatched
<1>2. /\ Decided(i).kind = "RETRIEVAL_DECISION" /\ SubqueryCreated(i).kind = "SUBQUERY_CREATED"
      /\ \A step, mode : Searched(i, step, mode).kind = step
      /\ Reranked(i).kind = "RERANK_COMPLETED"
  BY DEF Decided, SubqueryCreated, Searched, Reranked
<1>3. 1..7 = {1, 2, 3, 4, 5, 6, 7}
  OBVIOUS
<1>4. \A n \in 1..7 : n # 1 => Quiet(Dispatched(i)[n])
  BY <1>1, <1>2, <1>3 DEF Quiet
<1>5. \A n \in 1..7 : Dispatched(i)[n].kind \notin {"CITATION_CREATED", "ANSWER_VERSION_CREATED"}
  BY <1>1, <1>2, <1>3
<1> QED  BY <1>1, <1>4, <1>5

\* What makes a sequence.
LEMMA SeqIs ==
    ASSUME NEW S, NEW n \in Nat, NEW f \in [1..n -> S]
    PROVE  f \in Seq(S) /\ Len(f) = n
OBVIOUS

\* What a part of a sequence is.
LEMMA PartIs ==
    ASSUME NEW S, NEW seq \in Seq(S), NEW a \in Nat \ {0}, NEW b \in Nat, a <= b + 1, b <= Len(seq)
    PROVE  /\ SubSeq(seq, a, b) \in Seq(S) /\ Len(SubSeq(seq, a, b)) = b - a + 1
           /\ \A k \in 1..(b - a + 1) : SubSeq(seq, a, b)[k] = seq[a + k - 1]
<1>1. \A k \in a..b : seq[k] \in S
  OBVIOUS
<1>2. SubSeq(seq, a, b) \in Seq(S)
  BY <1>1
<1>3. Len(SubSeq(seq, a, b)) = b - a + 1
  OBVIOUS
<1>4. \A k \in 1..(b - a + 1) : SubSeq(seq, a, b)[k] = seq[a + k - 1]
  OBVIOUS
<1> QED  BY <1>2, <1>3, <1>4

\* What two sequences are behind one another.
LEMMA BothAre ==
    ASSUME NEW S, NEW first \in Seq(S), NEW second \in Seq(S)
    PROVE  /\ first \o second \in Seq(S) /\ Len(first \o second) = Len(first) + Len(second)
           /\ \A k \in 1..Len(first) : (first \o second)[k] = first[k]
           /\ \A k \in 1..Len(second) : (first \o second)[Len(first) + k] = second[k]
OBVIOUS

LEMMA TurnIs ==
    ASSUME TypeOK, Placement, NEW i \in 1..Len(begun), NEW m, m = TurnEnd(i) - begun[i].from + 1
    PROVE  /\ m \in Nat /\ Len(TurnEvents(i)) = 7 + m
           /\ \A n \in 1..7 : TurnEvents(i)[n] = Dispatched(i)[n]
           /\ \A k \in 1..m : TurnEvents(i)[7 + k] = Payload(eventLog[begun[i].from + k - 1], i)
<1> DEFINE from == begun[i].from
           events == SubSeq(eventLog, from, TurnEnd(i))
           told == [k \in 1..m |-> Payload(events[k], i)]
           Some == {told[k] : k \in 1..m} \cup {Dispatched(i)[n] : n \in 1..7}
<1>1. /\ from \in Nat \ {0} /\ TurnEnd(i) \in 0..Len(eventLog) /\ from <= TurnEnd(i) + 1
      /\ Len(eventLog) \in Nat
  BY LogTypes
<1>2. m \in Nat /\ eventLog \in Seq(Events)
  <2>1. eventLog \in Seq(Events)
    BY DEF TypeOK
  <2> QED  BY <1>1, <2>1
<1>3. Len(events) = m /\ events \in Seq(Events) /\ DOMAIN events = 1..m
      /\ \A k \in 1..m : events[k] = eventLog[from + k - 1]
  <2>1. PICK a \in Nat \ {0}, b \in Nat : a = from /\ b = TurnEnd(i) /\ a <= b + 1 /\ b <= Len(eventLog)
    BY <1>1
  <2>4. m = b - a + 1
    BY <2>1
  <2>5. /\ SubSeq(eventLog, a, b) \in Seq(Events) /\ Len(SubSeq(eventLog, a, b)) = b - a + 1
        /\ \A k \in 1..(b - a + 1) : SubSeq(eventLog, a, b)[k] = eventLog[a + k - 1]
    BY <1>2, <2>1, PartIs, SMTT(20)
  <2>2. /\ events \in Seq(Events) /\ Len(events) = m
        /\ \A k \in 1..m : events[k] = eventLog[from + k - 1]
    BY <2>1, <2>4, <2>5
  <2> HIDE DEF events
  <2>3. DOMAIN events = 1..m
    BY <2>2
  <2> QED  BY <2>2, <2>3
<1>4. Generated(i) = told
  <2>1. Generated(i) = [k \in DOMAIN events |-> Payload(events[k], i)]
    BY DEF Generated, TurnEnd
  <2> HIDE DEF events
  <2> QED  BY <1>3, <2>1
<1> HIDE DEF events
<1>5. told \in Seq(Some) /\ Len(told) = m
  <2>1. told \in [1..m -> Some]
    OBVIOUS
  <2> HIDE DEF told, Some
  <2> QED  BY <1>2, <2>1
<1>6. Dispatched(i) \in Seq(Some) /\ Len(Dispatched(i)) = 7
  <2>1. Dispatched(i) = [n \in 1..7 |-> Dispatched(i)[n]]
    BY DEF Dispatched
  <2>2. \A n \in 1..7 : Dispatched(i)[n] \in Some
    OBVIOUS
  <2> HIDE DEF Some
  <2>3. Dispatched(i) \in [1..7 -> Some]
    BY <2>1, <2>2
  <2>4. 7 \in Nat
    OBVIOUS
  <2>5. Dispatched(i) \in Seq(Some)
    BY <2>3, <2>4, SeqIs
  <2> QED  BY <2>5, DispatchTells
<1>7. \A k \in 1..m : told[k] = Payload(eventLog[from + k - 1], i)
  BY <1>3
<1> HIDE DEF told, Some
<1>8. TurnEvents(i) = Dispatched(i) \o told
  BY <1>4 DEF TurnEvents
<1>9. /\ Len(TurnEvents(i)) = 7 + m
      /\ \A n \in 1..7 : TurnEvents(i)[n] = Dispatched(i)[n]
      /\ \A k \in 1..m : TurnEvents(i)[7 + k] = told[k]
  <2>1. PICK first, second : first = Dispatched(i) /\ second = told
    OBVIOUS
  <2>2. first \in Seq(Some) /\ second \in Seq(Some)
    BY <1>5, <1>6, <2>1
  <2>3. /\ Len(first \o second) = Len(first) + Len(second)
        /\ \A k \in 1..Len(first) : (first \o second)[k] = first[k]
        /\ \A k \in 1..Len(second) : (first \o second)[Len(first) + k] = second[k]
    BY <2>2, BothAre
  <2>4. TurnEvents(i) = first \o second
    BY <1>8, <2>1
  <2>5. Len(first) = 7 /\ Len(second) = m
    BY <1>5, <1>6, <2>1
  <2> QED  BY <2>1, <2>3, <2>4, <2>5
<1> QED  BY <1>2, <1>7, <1>9

LEMMA PayloadIs ==
    ASSUME NEW e, NEW i
    PROVE  /\ e.kind \in BodyKinds => Payload(e, i).kind = e.kind
           /\ e.kind \in BodyKinds /\ e.kind # "ANSWER_DELTA" => Quiet(Payload(e, i))
           /\ e.kind = "CITATION_CREATED" => Payload(e, i).chunk = e.what
           /\ e.kind = "ANSWER_DELTA" =>
                 Payload(e, i).version_no = e.no /\ Payload(e, i).text_delta = e.what
           /\ e.kind = "ANSWER_VERSION_CREATED" => Payload(e, i) = Announcement(e.no)
<1>1. CASE e.kind = "UNCERTAINTY"
  BY <1>1 DEF Payload, Quiet
<1>2. CASE e.kind = "ERROR"
  BY <1>2 DEF Payload, Quiet
<1>3. CASE e.kind = "CITATION_CREATED"
  BY <1>3 DEF Payload, Quiet
<1>4. CASE e.kind = "ANSWER_DELTA"
  BY <1>4 DEF Payload
<1>5. CASE e.kind = "ANSWER_VERSION_CREATED"
  BY <1>5 DEF Payload, Announcement, BodyKinds
<1>6. CASE e.kind \notin BodyKinds \cup {"ANSWER_VERSION_CREATED"}
  BY <1>6 DEF BodyKinds
<1> QED  BY <1>1, <1>2, <1>3, <1>4, <1>5, <1>6 DEF BodyKinds

\* What is told of an answer in the log is streamed and cited to the page.
LEMMA ToldIsStreamed ==
    ASSUME TypeOK, Placement, NEW i \in 1..Len(begun), NEW b \in Nat,
           begun[i].from <= b + 1, b <= TurnEnd(i), NEW K, K = 7 + (b - begun[i].from + 1),
           NEW no, NEW text, NEW chunks, Len(text) \in Nat, Len(chunks) \in Nat,
           Told(eventLog, begun[i].from, b, no, text, chunks)
    PROVE  /\ K \in Nat /\ K >= 7
           /\ \E streamed : Streams(TurnEvents(i), K, i, no, text, streamed)
           /\ \E cited : Cites(TurnEvents(i), K, chunks, cited)
           /\ TurnEvents(i)[K].kind # "ANSWER_VERSION_CREATED"
<1> DEFINE events == TurnEvents(i)
<1>1. PICK from \in Nat \ {0} : from = begun[i].from
  BY LogTypes
<1>2. PICK last \in Nat : last = TurnEnd(i)
  BY LogTypes
<1> DEFINE m == last - from + 1
           place(n) == from + (n - 7) - 1
<1>12. K = 7 + (b - from + 1) /\ from <= b + 1 /\ b <= last
  BY <1>1, <1>2
<1>3. /\ \A n \in 1..7 : events[n] = Dispatched(i)[n]
      /\ \A k \in 1..m : events[7 + k] = Payload(eventLog[from + k - 1], i)
  BY <1>1, <1>2, TurnIs
<1> HIDE DEF events
<1>4. K \in Nat /\ K >= 7
  BY <1>12
<1>5. ASSUME NEW n \in 8..K
      PROVE  /\ place(n) \in from..b /\ place(n) \in (from - 1)..b
             /\ events[n] = Payload(eventLog[place(n)], i)
             /\ n # 8 => place(n - 1) = place(n) - 1
             /\ n = 8 => place(n) - 1 = from - 1
  <2>1. n - 7 \in 1..m /\ 7 + (n - 7) = n /\ n \in Nat
    BY <1>4, <1>12
  <2>2. events[7 + (n - 7)] = Payload(eventLog[from + (n - 7) - 1], i)
    BY <1>3, <2>1
  <2>3. place(n) \in from..b /\ place(n) \in (from - 1)..b
    BY <1>4, <1>12
  <2>4. place(n - 1) = place(n) - 1
    BY <2>1
  <2>5. n = 8 => place(n) - 1 = from - 1
    OBVIOUS
  <2> QED  BY <2>1, <2>2, <2>3, <2>4, <2>5
<1>6. K # 7 => place(K) = b
  BY <1>12
<1>7. ASSUME NEW n \in 8..K
      PROVE  /\ eventLog[place(n)].kind \in BodyKinds
             /\ eventLog[place(n)].kind = "ANSWER_DELTA" => eventLog[place(n)].no = no
  <2> HIDE DEF place
  <2> QED  BY <1>1, <1>5 DEF Told, Body
<1>8. K = 7 => b = from - 1
  BY <1>12
<1> HIDE DEF m, place
<1>9. \E streamed : Streams(events, K, i, no, text, streamed)
  <2>1. PICK at \in [(from - 1)..b -> 0..Len(text)] : IsCount(at, eventLog, from, b, "ANSWER_DELTA", text)
    BY <1>1 DEF Told, Carry
  <2> DEFINE streamed == [n \in 1..K |-> IF n <= 7 THEN 0 ELSE at[place(n)]]
  <2>2. \A n \in 8..K : streamed[n] = at[place(n)]
    BY <1>4
  <2>3. \A n \in 1..7 : streamed[n] = 0
    <3>1. \A n \in 1..7 : n \in 1..K /\ n <= 7
      BY <1>4, SMTT(20)
    <3> QED  BY <3>1
  <2>4. streamed \in [1..K -> 0..Len(text)]
    <3>1. \A n \in 8..K : at[place(n)] \in 0..Len(text)
      BY <1>5, <2>1
    <3>2. \A n \in 1..K : (IF n <= 7 THEN 0 ELSE at[place(n)]) \in 0..Len(text)
      BY <1>4, <3>1
    <3> QED  BY <3>2
  <2> HIDE DEF streamed
  <2>5. streamed[K] = Len(text)
    <3>1. CASE K = 7
      <4>1. at[b] = 0 /\ at[b] = Len(text)
        BY <1>8, <2>1, <3>1 DEF IsCount
      <4> QED  BY <2>3, <3>1, <4>1
    <3>2. CASE K # 7
      <4>1. K \in 8..K
        BY <1>4, <3>2
      <4> QED  BY <1>6, <2>1, <2>2, <3>2, <4>1 DEF IsCount
    <3> QED  BY <3>1, <3>2
  <2>6. ASSUME NEW n \in 2..K
        PROVE  \/ Quiet(events[n]) /\ streamed[n] = streamed[n - 1]
               \/ /\ events[n].kind = "ANSWER_DELTA" /\ streamed[n] = streamed[n - 1] + 1
                  /\ events[n].version_no = no /\ events[n].text_delta = text[streamed[n]]
    <3>1. CASE n <= 7
      <4>1. n \in 1..7 /\ n # 1 /\ n - 1 \in 1..7
        BY <1>4, <3>1
      <4>2. Quiet(events[n])
        BY <1>3, <4>1, DispatchTells
      <4> QED  BY <2>3, <4>1, <4>2
    <3>2. CASE ~(n <= 7)
      <4>1. n \in 8..K
        BY <1>4, <3>2
      <4>2. streamed[n] = at[place(n)] /\ streamed[n - 1] = at[place(n) - 1]
        <5>1. CASE n = 8
          <6>1. n - 1 \in 1..7 /\ at[from - 1] = 0
            BY <2>1, <5>1 DEF IsCount
          <6> QED  BY <1>5, <2>2, <2>3, <4>1, <5>1, <6>1
        <5>2. CASE n # 8
          <6>1. n - 1 \in 8..K
            BY <4>1, <5>2
          <6> QED  BY <1>5, <2>2, <4>1, <5>2, <6>1
        <5> QED  BY <5>1, <5>2
      <4>3. events[n] = Payload(eventLog[place(n)], i) /\ place(n) \in from..b
        BY <1>5, <4>1
      <4>4. CASE eventLog[place(n)].kind = "ANSWER_DELTA"
        <5>1. /\ events[n].kind = "ANSWER_DELTA" /\ events[n].version_no = no
              /\ events[n].text_delta = eventLog[place(n)].what
          <6>1. eventLog[place(n)].no = no
            BY <1>7, <4>1, <4>4
          <6>2. eventLog[place(n)].kind \in BodyKinds
            BY <4>4 DEF BodyKinds
          <6> QED  BY <4>3, <4>4, <6>1, <6>2, PayloadIs, SMTT(20)
        <5>2. at[place(n)] = at[place(n) - 1] + 1 /\ eventLog[place(n)].what = text[at[place(n)]]
          BY <2>1, <4>3, <4>4 DEF IsCount
        <5> QED  BY <4>2, <5>1, <5>2
      <4>5. CASE eventLog[place(n)].kind # "ANSWER_DELTA"
        <5>1. Quiet(events[n])
          BY <1>7, <4>1, <4>3, <4>5, PayloadIs
        <5>2. at[place(n)] = at[place(n) - 1]
          BY <2>1, <4>3, <4>5 DEF IsCount
        <5> QED  BY <4>2, <5>1, <5>2
      <4> QED  BY <4>4, <4>5
    <3> QED  BY <3>1, <3>2
  <2>7. events[1] = Decided(i) /\ streamed[1] = 0
    BY <1>3, <2>3, DispatchTells
  <2>8. Streams(events, K, i, no, text, streamed)
    BY <2>4, <2>5, <2>6, <2>7 DEF Streams
  <2> QED  BY <2>8
<1>10. \E cited : Cites(events, K, chunks, cited)
  <2>1. PICK at \in [(from - 1)..b -> 0..Len(chunks)] : IsCount(at, eventLog, from, b, "CITATION_CREATED", chunks)
    BY <1>1 DEF Told, Carry
  <2> DEFINE cited == [n \in 0..K |-> IF n <= 7 THEN 0 ELSE at[place(n)]]
  <2>2. \A n \in 8..K : cited[n] = at[place(n)]
    BY <1>4
  <2>3. \A n \in 0..7 : cited[n] = 0
    <3>1. \A n \in 0..7 : n \in 0..K /\ n <= 7
      BY <1>4, SMTT(20)
    <3> QED  BY <3>1
  <2>4. cited \in [0..K -> 0..Len(chunks)]
    <3>1. \A n \in 8..K : at[place(n)] \in 0..Len(chunks)
      BY <1>5, <2>1
    <3>2. \A n \in 0..K : (IF n <= 7 THEN 0 ELSE at[place(n)]) \in 0..Len(chunks)
      BY <1>4, <3>1
    <3> QED  BY <3>2
  <2> HIDE DEF cited
  <2>5. cited[K] = Len(chunks)
    <3>1. CASE K = 7
      <4>1. at[b] = 0 /\ at[b] = Len(chunks)
        BY <1>8, <2>1, <3>1 DEF IsCount
      <4> QED  BY <2>3, <3>1, <4>1
    <3>2. CASE K # 7
      <4>1. K \in 8..K
        BY <1>4, <3>2
      <4> QED  BY <1>6, <2>1, <2>2, <3>2, <4>1 DEF IsCount
    <3> QED  BY <3>1, <3>2
  <2>6. ASSUME NEW n \in 1..K
        PROVE  IF events[n].kind = "CITATION_CREATED"
               THEN cited[n] = cited[n - 1] + 1 /\ events[n].chunk = chunks[cited[n]]
               ELSE cited[n] = cited[n - 1]
    <3>1. CASE n <= 7
      <4>1. n \in 1..7 /\ n \in 0..7 /\ n - 1 \in 0..7
        BY <1>4, <3>1
      <4>2. events[n].kind # "CITATION_CREATED"
        <5>1. Dispatched(i)[n].kind # "CITATION_CREATED"
          BY <4>1, DispatchTells
        <5> QED  BY <1>3, <4>1, <5>1
      <4> QED  BY <2>3, <4>1, <4>2
    <3>2. CASE ~(n <= 7)
      <4>1. n \in 8..K
        BY <1>4, <3>2
      <4>2. cited[n] = at[place(n)] /\ cited[n - 1] = at[place(n) - 1]
        <5>1. CASE n = 8
          <6>1. n - 1 \in 0..7 /\ at[from - 1] = 0
            BY <2>1, <5>1 DEF IsCount
          <6> QED  BY <1>5, <2>2, <2>3, <4>1, <5>1, <6>1
        <5>2. CASE n # 8
          <6>1. n - 1 \in 8..K
            BY <4>1, <5>2
          <6> QED  BY <1>5, <2>2, <4>1, <5>2, <6>1
        <5> QED  BY <5>1, <5>2
      <4>3. events[n] = Payload(eventLog[place(n)], i) /\ place(n) \in from..b
        BY <1>5, <4>1
      <4>4. /\ events[n].kind = eventLog[place(n)].kind
            /\ eventLog[place(n)].kind = "CITATION_CREATED" => events[n].chunk = eventLog[place(n)].what
        <5>1. eventLog[place(n)].kind \in BodyKinds
          BY <1>7, <4>1
        <5> QED  BY <4>3, <5>1, PayloadIs, SMTT(20)
      <4>5. IF eventLog[place(n)].kind = "CITATION_CREATED"
            THEN at[place(n)] = at[place(n) - 1] + 1 /\ eventLog[place(n)].what = chunks[at[place(n)]]
            ELSE at[place(n)] = at[place(n) - 1]
        BY <2>1, <4>3 DEF IsCount
      <4> QED  BY <4>2, <4>4, <4>5
    <3> QED  BY <3>1, <3>2
  <2>7. Cites(events, K, chunks, cited)
    BY <1>4, <2>3, <2>4, <2>5, <2>6 DEF Cites
  <2> QED  BY <2>7
<1>11. events[K].kind # "ANSWER_VERSION_CREATED"
  <2>1. CASE K = 7
    <3>1. K \in 1..7
      BY <2>1
    <3> QED  BY <1>3, <3>1, DispatchTells
  <2>2. CASE K # 7
    <3>1. K \in 8..K
      BY <1>4, <2>2
    <3>2. events[K].kind \in BodyKinds
      <4>1. eventLog[place(K)].kind \in BodyKinds
        BY <1>7, <3>1
      <4>2. events[K] = Payload(eventLog[place(K)], i)
        BY <1>5, <3>1
      <4> QED  BY <4>1, <4>2, PayloadIs
    <3> QED  BY <3>2 DEF BodyKinds
  <2> QED  BY <2>1, <2>2
<1> QED  BY <1>4, <1>9, <1>10, <1>11 DEF events

LEMMA TurnTells ==
    ASSUME TypeOK, LogInv, phase = "idle", NEW i \in 1..Len(begun)
    PROVE  Tells(i)
<1> DEFINE L == Len(TurnEvents(i))
           B == begun[i].versions
           no == B + 1
<1>1. Placement /\ Whole(eventLog, answer_versions, begun[i].from, TurnEnd(i), B, VersionsAfter(i))
  BY DEF LogInv, TurnInv
<1>2. PICK from \in Nat \ {0} : from = begun[i].from
  BY <1>1, LogTypes
<1>3. PICK b \in Nat : b = TurnEnd(i) /\ from <= b + 1
  BY <1>1, <1>2, LogTypes
<1>4. PICK m \in Nat : m = b - from + 1 /\ m = TurnEnd(i) - begun[i].from + 1
  BY <1>2, <1>3
<1>5. L = 7 + m /\ \A k \in 1..m : TurnEvents(i)[7 + k] = Payload(eventLog[from + k - 1], i)
  BY <1>1, <1>2, <1>4, TurnIs
<1>6. B \in Nat
  BY <1>1, LogTypes
<1> HIDE DEF L, B
<1>7. CASE VersionsAfter(i) = B /\ Told(eventLog, from, b, no, <<>>, <<>>)
  <2>1. Len(<<>>) \in Nat
    OBVIOUS
  <2>2. L = 7 + (b - begun[i].from + 1) /\ begun[i].from <= b + 1 /\ b <= TurnEnd(i)
    BY <1>2, <1>3, <1>4, <1>5
  <2>3. /\ L \in Nat /\ L >= 7
        /\ \E streamed : Streams(TurnEvents(i), L, i, no, <<>>, streamed)
        /\ TurnEvents(i)[L].kind # "ANSWER_VERSION_CREATED"
    <3> HIDE DEF no
    <3> QED  BY <1>1, <1>2, <1>3, <1>7, <2>1, <2>2, ToldIsStreamed
  <2> QED  BY <1>7, <2>3 DEF Tells, L, B
<1>8. CASE /\ VersionsAfter(i) = no /\ no \in DOMAIN answer_versions /\ from <= b
           /\ ToldAsMany(eventLog, from, b - 1, no, answer_versions[no].text, answer_versions[no].citations)
           /\ eventLog[b] = Event("ANSWER_VERSION_CREATED", no, None)
  <2>1. no \in 1..Len(answer_versions) /\ answer_versions[no] \in Versions
    <3>1. answer_versions \in Seq(Versions)
      BY DEF TypeOK
    <3> QED  BY <1>8, <3>1
  <2>8. PICK chunks \in Seq(Chunks) :
           /\ Len(chunks) = Len(answer_versions[no].citations)
           /\ Told(eventLog, from, b - 1, no, answer_versions[no].text, chunks)
    BY <1>8 DEF ToldAsMany
  <2>2. Len(answer_versions[no].text) \in Nat /\ Len(chunks) \in Nat
    <3>1. Len(answer_versions[no].text) \in Nat
      BY <2>1 DEF Versions
    <3>2. \A s \in Seq(Chunks) : Len(s) \in Nat
      OBVIOUS
    <3> QED  BY <3>1, <3>2
  <2>3. /\ b - 1 \in Nat /\ L - 1 = 7 + ((b - 1) - from + 1) /\ from <= (b - 1) + 1
        /\ b - 1 <= b /\ L \in Nat /\ L >= 8 /\ L = 7 + m /\ m \in 1..m /\ from + m - 1 = b
    <3>1. L = 7 + m /\ m = b - from + 1 /\ from <= b
      BY <1>4, <1>5, <1>8
    <3> QED  BY <3>1
  <2>6. PICK c \in Nat, K \in Nat : c = b - 1 /\ K = L - 1
    BY <2>3
  <2>7. /\ begun[i].from <= c + 1 /\ c <= TurnEnd(i) /\ K = 7 + (c - begun[i].from + 1)
        /\ Told(eventLog, begun[i].from, c, no, answer_versions[no].text, chunks)
    BY <1>2, <1>3, <2>3, <2>6, <2>8
  <2>4. /\ \E streamed : Streams(TurnEvents(i), L - 1, i, no, answer_versions[no].text, streamed)
        /\ CitesAsMany(TurnEvents(i), L - 1, answer_versions[no].citations)
    <3> HIDE DEF no
    <3>1. /\ \E streamed : Streams(TurnEvents(i), K, i, no, answer_versions[no].text, streamed)
          /\ \E cited : Cites(TurnEvents(i), K, chunks, cited)
      BY <1>1, <2>2, <2>7, ToldIsStreamed
    <3> QED  BY <2>6, <2>8, <3>1 DEF CitesAsMany
  <2>5. TurnEvents(i)[L] = Announcement(no)
    <3>1. TurnEvents(i)[7 + m] = Payload(eventLog[from + m - 1], i)
      BY <1>5, <2>3
    <3>2. TurnEvents(i)[L] = Payload(eventLog[b], i)
      BY <2>3, <3>1
    <3>3. eventLog[b].kind = "ANSWER_VERSION_CREATED" /\ eventLog[b].no = no
      BY <1>8 DEF Event
    <3> QED  BY <3>2, <3>3, PayloadIs
  <2> QED  BY <1>8, <2>1, <2>3, <2>4, <2>5 DEF Tells, L, B
<1> QED  BY <1>1, <1>2, <1>3, <1>7, <1>8 DEF Whole

(***************************************************************************)
(* What the page shows.                                                    *)
(***************************************************************************)

\* A beginning of a text and its next sentence are the beginning longer by one.
LEMMA NextBeginning ==
    ASSUME NEW S, NEW text \in Seq(S), NEW n \in 1..Len(text)
    PROVE  Append(SubSeq(text, 1, n - 1), text[n]) = SubSeq(text, 1, n)
<1>1. /\ SubSeq(text, 1, n - 1) \in Seq(S) /\ Len(SubSeq(text, 1, n - 1)) = n - 1
      /\ \A k \in 1..(n - 1) : SubSeq(text, 1, n - 1)[k] = text[k]
  OBVIOUS
<1>2. /\ SubSeq(text, 1, n) \in Seq(S) /\ Len(SubSeq(text, 1, n)) = n
      /\ \A k \in 1..n : SubSeq(text, 1, n)[k] = text[k]
  OBVIOUS
<1>3. text[n] \in S
  OBVIOUS
<1> QED  BY <1>1, <1>2, <1>3

\* What a page shows after n events of a turn, behind what it showed before the turn.
Streaming(p, page, no, text, n) ==
    /\ IsPage(p) /\ p.answerHistory = page.answerHistory
    /\ p.answer.text = SubSeq(text, 1, n)
    /\ IF n = 0 THEN p.answer.isStreaming = FALSE
       ELSE p.answer.isStreaming = TRUE /\ p.answer.versionNo = no

LEMMA StreamedPages ==
    ASSUME NEW S, NEW text \in Seq(S), NEW events, NEW K \in Nat, K >= 1, NEW i, NEW no, NEW streamed,
           Streams(events, K, i, no, text, streamed),
           NEW page, IsPage(page), NEW L \in Nat, K <= L, NEW heard, Hears(heard, page, events, L)
    PROVE  \A n \in 1..K : Streaming(heard[n], page, no, text, streamed[n])
<1> DEFINE Good == {n \in 0..K : n # 0 => Streaming(heard[n], page, no, text, streamed[n])}
<1>1. heard[0] = page /\ \A n \in 1..K : heard[n] = Reducer!applyEvent(heard[n - 1], events[n])
  BY DEF Hears
<1>2. 0 \in Good
  OBVIOUS
<1>3. ASSUME NEW n \in 1..K, n - 1 \in Good PROVE n \in Good
  <2>1. heard[n] = Reducer!applyEvent(heard[n - 1], events[n])
    BY <1>1
  <2>2. CASE n = 1
    <3>1. heard[n] = Reducer!applyEvent(page, Decided(i)) /\ streamed[n] = 0
      BY <1>1, <2>1, <2>2 DEF Streams
    <3>2. /\ IsPage(heard[n]) /\ heard[n].answerHistory = page.answerHistory
          /\ Shown(heard[n]) = <<i, <<>>, <<>>, Reducer!NoAnswer>>
      BY <3>1, DecisionEventShows
    <3>3. heard[n].answer = Reducer!NoAnswer
      BY <3>2 DEF Shown
    <3>4. heard[n].answer.text = <<>> /\ heard[n].answer.isStreaming = FALSE
      BY <3>3 DEF Reducer!NoAnswer
    <3>5. SubSeq(text, 1, 0) = <<>>
      OBVIOUS
    <3>6. Streaming(heard[n], page, no, text, 0)
      BY <3>2, <3>4, <3>5 DEF Streaming
    <3> QED  BY <3>1, <3>6
  <2>3. CASE n # 1
    <3> DEFINE p == heard[n - 1]
               next == heard[n]
    <3>1. n \in 2..K /\ n - 1 \in 1..K
      BY <2>3
    <3>2. Streaming(p, page, no, text, streamed[n - 1])
      BY <1>3, <3>1
    <3>3. streamed[n] \in 0..Len(text) /\ streamed[n - 1] \in 0..Len(text)
      BY <3>1 DEF Streams
    <3>4. CASE Quiet(events[n]) /\ streamed[n] = streamed[n - 1]
      <4>1. SameAnswers(p, next)
        BY <2>1, <3>2, <3>4, QuietEventShows DEF Streaming
      <4> HIDE DEF p, next
      <4>2. Streaming(next, page, no, text, streamed[n])
        BY <3>2, <3>4, <4>1 DEF SameAnswers, Streaming
      <4> QED  BY <4>2 DEF next
    <3>5. CASE /\ events[n].kind = "ANSWER_DELTA" /\ streamed[n] = streamed[n - 1] + 1
               /\ events[n].version_no = no /\ events[n].text_delta = text[streamed[n]]
      <4>1. /\ IsPage(next) /\ next.answerHistory = p.answerHistory
            /\ next.answer.versionNo = no
            /\ next.answer.text = Append(p.answer.text, text[streamed[n]])
            /\ next.answer.isStreaming = TRUE
        <5>1. PICK e : e = events[n]
          OBVIOUS
        <5>2. IsPage(p) /\ next = Reducer!applyEvent(p, e) /\ e.kind = "ANSWER_DELTA"
          BY <2>1, <3>2, <3>5, <5>1 DEF Streaming
        <5> HIDE DEF p, next
        <5>3. /\ IsPage(next) /\ next.answerHistory = p.answerHistory
              /\ next.answer.versionNo = e.version_no
              /\ next.answer.text = Append(p.answer.text, e.text_delta)
              /\ next.answer.isStreaming = TRUE
          BY <5>2, DeltaEventShows
        <5> QED  BY <3>5, <5>1, <5>3
      <4>2. streamed[n] \in 1..Len(text) /\ streamed[n - 1] = streamed[n] - 1 /\ streamed[n] # 0
        BY <3>3, <3>5
      <4>3. p.answer.text = SubSeq(text, 1, streamed[n] - 1)
        BY <3>2, <4>2 DEF Streaming
      <4>4. next.answer.text = SubSeq(text, 1, streamed[n])
        BY <4>1, <4>2, <4>3, NextBeginning
      <4>5. next.answerHistory = page.answerHistory
        BY <3>2, <4>1 DEF Streaming
      <4> HIDE DEF p, next
      <4>6. Streaming(next, page, no, text, streamed[n])
        BY <4>1, <4>2, <4>4, <4>5 DEF Streaming
      <4> QED  BY <4>6 DEF next
    <3> QED  BY <3>1, <3>4, <3>5 DEF Streams
  <2> QED  BY <2>2, <2>3
<1>4. \A n \in 0..K : n \in Good
  <2> HIDE DEF Good
  <2> QED  BY <1>2, <1>3, UpToN
<1> QED  BY <1>4

AnswerOf(n) == Announced(Announcement(n))

LEMMA AnswerOfIs ==
    ASSUME NEW n
    PROVE  /\ AnswerOf(n).versionNo = n /\ AnswerOf(n).isStreaming = FALSE
           /\ AnswerOf(n).text = answer_versions[n].text
           /\ AnswerOf(n).citationChunkIds = answer_versions[n].citations
BY DEF AnswerOf, Announced, Announcement

\* A history of the first K versions, ascending.
Recorded(history, K) ==
    /\ history \in Seq({AnswerOf(n) : n \in 1..K})
    /\ \A i \in 2..Len(history) : history[i - 1].versionNo < history[i].versionNo

\* An answer in progress, of a version behind those of the history.
Drafted(answer, history, K) ==
    /\ answer.isStreaming = TRUE
    /\ answer.versionNo \in 1..K
    /\ \E n \in 0..Len(answer_versions[answer.versionNo].text) :
          answer.text = SubSeq(answer_versions[answer.versionNo].text, 1, n)
    /\ \A i \in 1..Len(history) : history[i].versionNo < answer.versionNo

\* p shows nothing but the first K versions.
ShowsUpTo(p, K) ==
    /\ IsPage(p)
    /\ Recorded(p.answerHistory, K)
    /\ p.answer.isStreaming = FALSE \/ Drafted(p.answer, p.answerHistory, K)

LEMMA RecordedIs ==
    ASSUME NEW K \in Nat, NEW history, Recorded(history, K)
    PROVE  /\ Len(history) \in Nat /\ DOMAIN history = 1..Len(history)
           /\ \A i \in 1..Len(history) :
                 history[i].versionNo \in 1..K /\ history[i] = AnswerOf(history[i].versionNo)
<1> DEFINE S == {AnswerOf(n) : n \in 1..K}
<1>1. history \in Seq(S)
  BY DEF Recorded
<1>2. Len(history) \in Nat /\ DOMAIN history = 1..Len(history) /\ \A i \in 1..Len(history) : history[i] \in S
  <2> HIDE DEF S
  <2> QED  BY <1>1
<1>3. ASSUME NEW i \in 1..Len(history)
      PROVE  history[i].versionNo \in 1..K /\ history[i] = AnswerOf(history[i].versionNo)
  <2>1. PICK n \in 1..K : history[i] = AnswerOf(n)
    BY <1>2
  <2> QED  BY <2>1, AnswerOfIs
<1> QED  BY <1>2, <1>3

LEMMA ShowsMore ==
    ASSUME NEW K \in Nat, NEW M \in Nat, K <= M, NEW p, ShowsUpTo(p, K)
    PROVE  ShowsUpTo(p, M)
<1>1. {AnswerOf(n) : n \in 1..K} \subseteq {AnswerOf(n) : n \in 1..M}
  OBVIOUS
<1>2. p.answerHistory \in Seq({AnswerOf(n) : n \in 1..M})
  <2>1. \A S, T : S \subseteq T => Seq(S) \subseteq Seq(T)
    OBVIOUS
  <2> QED  BY <1>1, <2>1 DEF ShowsUpTo, Recorded
<1>3. 1..K \subseteq 1..M
  OBVIOUS
<1>4. Recorded(p.answerHistory, M)
  BY <1>2 DEF ShowsUpTo, Recorded
<1>5. Drafted(p.answer, p.answerHistory, K) => Drafted(p.answer, p.answerHistory, M)
  BY <1>3 DEF Drafted
<1> QED  BY <1>4, <1>5 DEF ShowsUpTo

LEMMA ShowsSame ==
    ASSUME NEW K, NEW p, NEW next, ShowsUpTo(p, K), SameAnswers(p, next)
    PROVE  ShowsUpTo(next, K)
BY DEF SameAnswers, ShowsUpTo

LEMMA NewShowsNothing ==
    ASSUME NEW p \in NewPages
    PROVE  ShowsUpTo(p, 0)
<1> DEFINE new == Reducer!createInitialSessionState
           other == [kind |-> "ANSWER_VERSION_CREATED", version_no |-> 1, text |-> <<None>>,
                     citations |-> <<>>, supersedes |-> None]
           more == Reducer!applyEvent(new, other)
<1>1. IsPage(new) /\ new.answer = Reducer!NoAnswer /\ new.answerHistory = <<>>
  BY DEF IsPage, PageFields, AnswerFields, Reducer!createInitialSessionState, Reducer!NoAnswer
<1>2. IsPage(more)
  <2>1. other.kind = "ANSWER_VERSION_CREATED"
    OBVIOUS
  <2> HIDE DEF new, other
  <2> QED  BY <1>1, <2>1, VersionEventShows
<1> HIDE DEF new, more
<1>3. /\ IsPage(Reducer!NewSessionStarted(more))
      /\ Reducer!NewSessionStarted(more).answer = Reducer!NoAnswer
      /\ Reducer!NewSessionStarted(more).answerHistory = <<>>
  BY <1>2 DEF IsPage, PageFields, AnswerFields, Reducer!NewSessionStarted, Reducer!NoAnswer
<1>4. p \in {new, Reducer!NewSessionStarted(more)}
  BY DEF NewPages, new, more
<1>5. IsPage(p) /\ p.answer = Reducer!NoAnswer /\ p.answerHistory = <<>>
  BY <1>1, <1>3, <1>4
<1>6. <<>> \in Seq({AnswerOf(n) : n \in 1..0}) /\ Len(<<>>) = 0 /\ 2..0 = {}
  OBVIOUS
<1>7. Recorded(p.answerHistory, 0)
  BY <1>5, <1>6 DEF Recorded
<1> QED  BY <1>5, <1>7 DEF ShowsUpTo, Reducer!NoAnswer

\* While the next version is streamed.
LEMMA StreamingShows ==
    ASSUME NEW B \in Nat, NEW K \in Nat, B <= K, NEW page, ShowsUpTo(page, B),
           NEW text, NEW n \in 0..Len(text), NEW p, Streaming(p, page, B + 1, text, n),
           n # 0 => K = B + 1 /\ text = answer_versions[B + 1].text
    PROVE  ShowsUpTo(p, K)
<1>1. IsPage(p) /\ Recorded(p.answerHistory, K)
  <2>1. ShowsUpTo(page, K)
    BY ShowsMore
  <2> QED  BY <2>1 DEF ShowsUpTo, Streaming
<1>2. CASE n = 0
  BY <1>1, <1>2 DEF Streaming, ShowsUpTo
<1>3. CASE n # 0
  <2>1. PICK no \in Nat : no = B + 1 /\ no \in 1..K
    BY <1>3
  <2>2. /\ p.answer.isStreaming = TRUE /\ p.answer.versionNo = no
        /\ p.answer.text = SubSeq(text, 1, n) /\ text = answer_versions[no].text
    BY <1>3, <2>1 DEF Streaming
  <2>3. \E k \in 0..Len(answer_versions[p.answer.versionNo].text) :
           p.answer.text = SubSeq(answer_versions[p.answer.versionNo].text, 1, k)
    BY <2>2
  <2>4. \A i \in 1..Len(p.answerHistory) : p.answerHistory[i].versionNo < p.answer.versionNo
    <3>1. Recorded(page.answerHistory, B) /\ p.answerHistory = page.answerHistory
      BY DEF ShowsUpTo, Streaming
    <3>2. \A i \in 1..Len(page.answerHistory) : page.answerHistory[i].versionNo \in 1..B
      BY <3>1, RecordedIs
    <3>3. \A i \in 1..Len(page.answerHistory) : page.answerHistory[i].versionNo < no
      <4>1. \A x \in 1..B : x < no
        BY <2>1
      <4> QED  BY <3>2, <4>1
    <3> QED  BY <2>2, <3>1, <3>3
  <2>5. Drafted(p.answer, p.answerHistory, K)
    BY <2>1, <2>2, <2>3, <2>4 DEF Drafted
  <2> QED  BY <1>1, <2>5 DEF ShowsUpTo
<1> QED  BY <1>2, <1>3

\* When it is announced.
LEMMA AnnouncedShows ==
    ASSUME NEW B \in Nat, NEW page, ShowsUpTo(page, B), NEW p, IsPage(p),
           p.answerHistory = page.answerHistory,
           NEW next, next = Reducer!applyEvent(p, Announcement(B + 1))
    PROVE  /\ next.answerHistory = Append(page.answerHistory, AnswerOf(B + 1))
           /\ next.answer = AnswerOf(B + 1)
           /\ ShowsUpTo(next, B + 1)
<1>1. PICK no \in Nat : no = B + 1
  OBVIOUS
<1>2. PICK history : history = page.answerHistory
  OBVIOUS
<1>3. PICK e : e = Announcement(no) /\ e.kind = "ANSWER_VERSION_CREATED" /\ e.version_no = no
  <2>1. Announcement(no).kind = "ANSWER_VERSION_CREATED" /\ Announcement(no).version_no = no
    BY DEF Announcement
  <2> QED  BY <2>1
<1>4. Recorded(history, B) /\ p.answerHistory = history
  BY <1>2 DEF ShowsUpTo
<1>5. \A i \in 1..Len(history) : history[i].versionNo \in 1..B /\ history[i].versionNo # no
  <2>1. \A i \in 1..Len(history) : history[i].versionNo \in 1..B
    BY <1>4, RecordedIs
  <2>2. \A x \in 1..B : x # no
    BY <1>1
  <2> QED  BY <2>1, <2>2
<1>6. DOMAIN history = 1..Len(history) /\ Len(history) \in Nat
  BY <1>4, RecordedIs
<1>7. /\ IsPage(next) /\ next.answer = Announced(e)
      /\ next.answerHistory = Append(history, Announced(e))
  BY <1>1, <1>3, <1>4, <1>5, <1>6, VersionEventShows
<1>8. Announced(e) = AnswerOf(no)
  BY <1>3 DEF AnswerOf
<1> DEFINE S == {AnswerOf(n) : n \in 1..B}
           T == {AnswerOf(n) : n \in 1..no}
           more == Append(history, AnswerOf(no))
<1>9. history \in Seq(T) /\ AnswerOf(no) \in T
  <2>1. S \subseteq T
    BY <1>1
  <2>2. AnswerOf(no) \in T
    BY <1>1
  <2>3. history \in Seq(S)
    BY <1>4 DEF Recorded
  <2> HIDE DEF S, T
  <2>4. \A x \in Seq(S) : x \in Seq(T)
    BY <2>1
  <2> QED  BY <2>2, <2>3, <2>4
<1>10. /\ more \in Seq(T) /\ Len(more) = Len(history) + 1
       /\ \A i \in 1..Len(history) : more[i] = history[i]
       /\ more[Len(history) + 1] = AnswerOf(no)
  <2> HIDE DEF T
  <2> QED  BY <1>9
<1>11. AnswerOf(no).versionNo = no /\ AnswerOf(no).isStreaming = FALSE
  BY AnswerOfIs
<1> HIDE DEF more
<1>12. ASSUME NEW i \in 2..Len(more) PROVE more[i - 1].versionNo < more[i].versionNo
  <2>1. i - 1 \in 1..Len(history)
    BY <1>6, <1>10
  <2>2. more[i - 1] = history[i - 1]
    BY <1>10, <2>1
  <2>3. CASE i = Len(history) + 1
    <3>1. more[i].versionNo = no
      BY <1>10, <1>11, <2>3
    <3>2. \A x \in 1..B : x < no
      BY <1>1
    <3> QED  BY <1>5, <2>1, <2>2, <3>1, <3>2
  <2>4. CASE i # Len(history) + 1
    <3>1. i \in 2..Len(history) /\ i \in 1..Len(history)
      BY <1>6, <1>10, <2>4
    <3>2. history[i - 1].versionNo < history[i].versionNo
      BY <1>4, <3>1 DEF Recorded
    <3> QED  BY <1>10, <2>2, <3>1, <3>2
  <2> QED  BY <2>3, <2>4
<1>13. Recorded(more, no)
  BY <1>10, <1>12 DEF Recorded
<1>14. ShowsUpTo(next, no)
  BY <1>7, <1>8, <1>11, <1>13 DEF ShowsUpTo, more
<1> QED  BY <1>1, <1>2, <1>7, <1>8, <1>14

\* The version a turn ends in: streamed, then announced and recorded.
CommittedTurn(heard, page, L, no) ==
    /\ heard[L - 1].answer.text = answer_versions[no].text
    /\ heard[L].answerHistory = Append(page.answerHistory, AnswerOf(no))
    /\ heard[L].answer = AnswerOf(no)

LEMMA TurnShows ==
    ASSUME TypeOK, LogInv, phase = "idle", NEW i \in 1..Len(begun),
           NEW page, ShowsUpTo(page, begun[i].versions),
           NEW L, L = Len(TurnEvents(i)), NEW heard, Hears(heard, page, TurnEvents(i), L)
    PROVE  /\ \A n \in 0..L : ShowsUpTo(heard[n], VersionsAfter(i))
           /\ TurnEvents(i)[L].kind = "ANSWER_VERSION_CREATED"
                 => CommittedTurn(heard, page, L, begun[i].versions + 1)
<1> DEFINE events == TurnEvents(i)
<1>1. Tells(i)
  BY TurnTells
<1>2. PICK B \in Nat : B = begun[i].versions
  BY LogTypes DEF LogInv
<1>3. PICK no \in Nat : no = B + 1 /\ no # B
  OBVIOUS
<1>4. L \in Nat /\ L >= 7
  BY <1>1 DEF Tells
<1>5. heard[0] = page /\ IsPage(page) /\ ShowsUpTo(page, B)
  BY <1>2, <1>4 DEF Hears, ShowsUpTo
<1>6. CASE /\ VersionsAfter(i) = B /\ events[L].kind # "ANSWER_VERSION_CREATED"
           /\ \E streamed : Streams(events, L, i, no, <<>>, streamed)
  <2>1. PICK streamed : Streams(events, L, i, no, <<>>, streamed)
    BY <1>6
  <2>2. <<>> \in Seq({}) /\ Len(<<>>) = 0 /\ L >= 1 /\ L <= L
    BY <1>4
  <2>3. \A n \in 1..L : Streaming(heard[n], page, no, <<>>, streamed[n])
    <3> HIDE DEF events
    <3>1. Hears(heard, page, events, L)
      BY DEF events
    <3> QED  BY <1>4, <1>5, <2>1, <2>2, <3>1, StreamedPages
  <2>4. ASSUME NEW n \in 1..L PROVE ShowsUpTo(heard[n], B)
    <3>1. streamed[n] = 0 /\ 0 \in 0..Len(<<>>)
      BY <2>1, <2>2 DEF Streams
    <3>2. Streaming(heard[n], page, B + 1, <<>>, 0)
      BY <1>3, <2>3, <3>1
    <3>3. B <= B
      OBVIOUS
    <3> QED  BY <1>5, <3>1, <3>2, <3>3, StreamingShows
  <2>5. \A n \in 0..L : n # 0 => n \in 1..L
    OBVIOUS
  <2> QED  BY <1>5, <1>6, <2>4, <2>5
<1>7. CASE /\ VersionsAfter(i) = no /\ no \in 1..Len(answer_versions) /\ L >= 8
           /\ \E streamed : Streams(events, L - 1, i, no, answer_versions[no].text, streamed)
           /\ events[L] = Announcement(no)
  <2> DEFINE text == answer_versions[no].text
  <2>1. PICK streamed : Streams(events, L - 1, i, no, text, streamed)
    BY <1>7
  <2>2. text \in Seq(Texts)
    <3>1. answer_versions[no] \in Versions
      <4>1. answer_versions \in Seq(Versions)
        BY DEF TypeOK
      <4> QED  BY <1>7, <4>1
    <3> QED  BY <3>1 DEF Versions
  <2>3. PICK K \in Nat : K = L - 1 /\ K >= 1 /\ K <= L /\ K \in 1..K
    BY <1>4, <1>7
  <2>4. \A n \in 1..K : Streaming(heard[n], page, no, text, streamed[n])
    <3>1. Hears(heard, page, events, L) /\ Streams(events, K, i, no, text, streamed)
      BY <2>1, <2>3
    <3> HIDE DEF events, text
    <3> QED  BY <1>4, <1>5, <2>2, <2>3, <3>1, StreamedPages
  <2>5. ASSUME NEW n \in 1..K PROVE ShowsUpTo(heard[n], no)
    <3>1. streamed[n] \in 0..Len(text)
      BY <2>1, <2>3 DEF Streams
    <3>2. Streaming(heard[n], page, B + 1, text, streamed[n])
      BY <1>3, <2>4
    <3>3. B <= no
      BY <1>3
    <3>4. text = answer_versions[B + 1].text
      BY <1>3
    <3> HIDE DEF text
    <3> QED  BY <1>3, <1>5, <3>1, <3>2, <3>3, <3>4, StreamingShows
  <2>6. /\ IsPage(heard[K]) /\ heard[K].answerHistory = page.answerHistory
        /\ heard[K].answer.text = text
    <3>1. Streaming(heard[K], page, no, text, Len(text))
      BY <2>1, <2>3, <2>4 DEF Streams
    <3>2. SubSeq(text, 1, Len(text)) = text
      <4> HIDE DEF text
      <4> QED  BY <2>2
    <3> QED  BY <3>1, <3>2 DEF Streaming
  <2>7. heard[L] = Reducer!applyEvent(heard[K], Announcement(B + 1))
    <3>1. L \in 0..L /\ L # 0
      BY <1>4
    <3>2. heard[L] = Reducer!applyEvent(heard[L - 1], events[L])
      BY <3>1 DEF Hears
    <3> QED  BY <1>3, <1>7, <2>3, <3>2
  <2>8. /\ heard[L].answerHistory = Append(page.answerHistory, AnswerOf(no))
        /\ heard[L].answer = AnswerOf(no)
        /\ ShowsUpTo(heard[L], no)
    BY <1>3, <1>5, <2>6, <2>7, AnnouncedShows
  <2>9. ShowsUpTo(heard[0], no)
    <3>1. B <= no
      BY <1>3
    <3> QED  BY <1>5, <3>1, ShowsMore
  <2>10. \A n \in 0..L : n = 0 \/ n \in 1..K \/ n = L
    BY <1>4, <2>3
  <2>11. \A n \in 0..L : ShowsUpTo(heard[n], no)
    BY <2>5, <2>8, <2>9, <2>10
  <2>12. CommittedTurn(heard, page, L, no)
    BY <2>3, <2>6, <2>8 DEF CommittedTurn
  <2> QED  BY <1>2, <1>3, <1>7, <2>11, <2>12
<1>8. \/ /\ VersionsAfter(i) = B /\ events[L].kind # "ANSWER_VERSION_CREATED"
         /\ \E streamed : Streams(events, L, i, no, <<>>, streamed)
      \/ /\ VersionsAfter(i) = no /\ no \in 1..Len(answer_versions) /\ L >= 8
         /\ \E streamed : Streams(events, L - 1, i, no, answer_versions[no].text, streamed)
         /\ events[L] = Announcement(no)
  <2> HIDE DEF events
  <2> QED  BY <1>1, <1>2, <1>3 DEF Tells, events
<1> QED  BY <1>6, <1>7, <1>8

ArePages(heard, L) == \A n \in 0..L : IsPage(heard[n])

\* What a page shows of a turn is what a page that heard nothing else shows.
LEMMA TurnsAreShownAlike ==
    ASSUME NEW i, Tells(i), NEW page, NEW fresh, NEW L, L = Len(TurnEvents(i)),
           NEW heard, Hears(heard, page, TurnEvents(i), L), ArePages(heard, L),
           NEW once, Hears(once, fresh, TurnEvents(i), L), ArePages(once, L)
    PROVE  \A n \in 1..L : Shown(heard[n]) = Shown(once[n])
<1> DEFINE Good == {n \in 0..L : n # 0 => Shown(heard[n]) = Shown(once[n])}
<1>1. PICK events : events = TurnEvents(i)
  OBVIOUS
<1>2. L \in Nat /\ L >= 7
  BY DEF Tells
<1>3. /\ \A n \in 1..L : heard[n] = Reducer!applyEvent(heard[n - 1], events[n])
      /\ \A n \in 1..L : once[n] = Reducer!applyEvent(once[n - 1], events[n])
  <2>1. Hears(heard, page, events, L) /\ Hears(once, fresh, events, L)
    BY <1>1
  <2>2. \A n \in 1..L : n \in 0..L /\ n # 0
    BY <1>2
  <2> QED  BY <2>1, <2>2 DEF Hears
<1>4. /\ events[1] = Decided(i)
      /\ \A n \in 2..L : Quiet(events[n]) \/ events[n].kind \in {"ANSWER_DELTA", "ANSWER_VERSION_CREATED"}
  <2>1. PICK K, no, text, streamed :
           /\ K \in {L, L - 1}
           /\ Streams(events, K, i, no, text, streamed)
           /\ K = L - 1 => events[L].kind = "ANSWER_VERSION_CREATED"
    <3> DEFINE next == begun[i].versions + 1
    <3>1. Announcement(next).kind = "ANSWER_VERSION_CREATED"
      BY DEF Announcement
    <3>2. \/ \E streamed : Streams(events, L, i, next, <<>>, streamed)
          \/ /\ \E streamed : Streams(events, L - 1, i, next, answer_versions[next].text, streamed)
             /\ events[L] = Announcement(next)
      BY <1>1 DEF Tells
    <3>3. L # L - 1
      BY <1>2
    <3> HIDE DEF next
    <3> QED  BY <3>1, <3>2, <3>3
  <2>2. \A n \in 2..L : n \in 2..K \/ n = L
    BY <1>2, <2>1
  <2>3. K = L => L \in 2..K
    BY <1>2
  <2> QED  BY <2>1, <2>2, <2>3 DEF Streams
<1>5. 0 \in Good
  BY <1>2
<1>6. ASSUME NEW n \in 1..L, n - 1 \in Good PROVE n \in Good
  <2>1. PICK p, q, next, nextq : /\ p = heard[n - 1] /\ q = once[n - 1]
                                 /\ next = heard[n] /\ nextq = once[n]
    OBVIOUS
  <2>2. PICK e : e = events[n]
    OBVIOUS
  <2>3. n \in 0..L /\ n - 1 \in 0..L /\ n # 0
    BY <1>2
  <2>4. /\ IsPage(p) /\ IsPage(q)
        /\ next = Reducer!applyEvent(p, e) /\ nextq = Reducer!applyEvent(q, e)
    BY <1>3, <2>1, <2>2, <2>3 DEF ArePages
  <2>5. CASE n = 1
    <3>1. e = Decided(i)
      BY <1>4, <2>2, <2>5
    <3>2. Shown(next) = <<i, <<>>, <<>>, Reducer!NoAnswer>> /\ Shown(nextq) = <<i, <<>>, <<>>, Reducer!NoAnswer>>
      BY <2>4, <3>1, DecisionEventShows
    <3> QED  BY <2>1, <2>3, <3>2
  <2>6. CASE n # 1
    <3>1. n \in 2..L /\ n - 1 # 0
      BY <1>2, <2>6
    <3>2. Quiet(e) \/ e.kind \in {"ANSWER_DELTA", "ANSWER_VERSION_CREATED"}
      BY <1>4, <2>2, <3>1
    <3>3. ShownFollows(p, next, q, nextq)
      <4>1. CASE Quiet(e)
        BY <2>4, <4>1, QuietEventShows
      <4>2. CASE e.kind = "ANSWER_DELTA"
        BY <2>4, <4>2, DeltaEventShows
      <4>3. CASE e.kind = "ANSWER_VERSION_CREATED"
        BY <2>4, <4>3, VersionEventShows
      <4> QED  BY <3>2, <4>1, <4>2, <4>3
    <3>4. Shown(p) = Shown(q)
      BY <1>6, <2>1, <3>1
    <3>5. Shown(next) = Shown(nextq)
      BY <3>3, <3>4 DEF ShownFollows
    <3> QED  BY <2>1, <2>3, <3>5
  <2> QED  BY <2>5, <2>6
<1>7. \A n \in 0..L : n \in Good
  <2> HIDE DEF Good
  <2> QED  BY <1>2, <1>5, <1>6, UpToN
<1> QED  BY <1>2, <1>7

\* The cards of a page that shows nothing but versions.
LEMMA CardsShow ==
    ASSUME TypeOK, NEW p, ShowsUpTo(p, Len(answer_versions))
    PROVE  CardsAreVersions(p)
<1> DEFINE history == p.answerHistory
           answer == p.answer
           N == Len(answer_versions)
<1>1. N \in Nat /\ DOMAIN answer_versions = 1..N
  BY DEF TypeOK
<1>2. Recorded(history, N)
  BY DEF ShowsUpTo
<1>3. /\ Len(history) \in Nat /\ DOMAIN history = 1..Len(history)
      /\ \A i \in 1..Len(history) :
            history[i].versionNo \in 1..N /\ history[i] = AnswerOf(history[i].versionNo)
  BY <1>1, <1>2, RecordedIs
<1>4. \A i \in 1..Len(history) :
         /\ i > 1 => history[i].versionNo > history[i - 1].versionNo
         /\ history[i].versionNo \in DOMAIN answer_versions
         /\ history[i].isStreaming = FALSE
         /\ history[i].text = answer_versions[history[i].versionNo].text
         /\ history[i].citationChunkIds = answer_versions[history[i].versionNo].citations
  <2> TAKE i \in 1..Len(history)
  <2>1. history[i].versionNo \in 1..N /\ history[i] = AnswerOf(history[i].versionNo)
    BY <1>3
  <2>2. ASSUME i > 1 PROVE history[i].versionNo > history[i - 1].versionNo
    <3>1. i \in 2..Len(history) /\ i \in 1..Len(history) /\ i - 1 \in 1..Len(history)
      BY <1>3, <2>2
    <3>2. history[i - 1].versionNo < history[i].versionNo
      BY <1>2, <3>1 DEF Recorded
    <3>3. history[i].versionNo \in Nat /\ history[i - 1].versionNo \in Nat
      BY <1>1, <1>3, <3>1
    <3> QED  BY <3>2, <3>3
  <2>3. PICK no : no = history[i].versionNo /\ no \in 1..N /\ history[i] = AnswerOf(no)
    BY <2>1
  <2>4. /\ history[i].isStreaming = FALSE /\ history[i].text = answer_versions[no].text
        /\ history[i].citationChunkIds = answer_versions[no].citations
    BY <2>3, AnswerOfIs
  <2> QED  BY <1>1, <2>2, <2>3, <2>4
<1>5. CASE Cards(p) = history
  BY <1>3, <1>4, <1>5 DEF CardsAreVersions
<1>6. CASE Cards(p) # history
  <2> DEFINE cards == Append(history, answer)
             n == Len(history) + 1
  <2>1. Cards(p) = cards /\ answer.isStreaming # FALSE
    BY <1>6 DEF Cards
  <2>2. Drafted(answer, history, N)
    BY <2>1 DEF ShowsUpTo
  <2>3. /\ Len(cards) = n /\ DOMAIN cards = 1..n /\ n \in Nat
        /\ \A i \in 1..Len(history) : cards[i] = history[i]
        /\ cards[n] = answer
    <3>1. history \in Seq({history[i] : i \in 1..Len(history)} \cup {answer})
      <4>1. history \in Seq({AnswerOf(k) : k \in 1..N})
        BY <1>2 DEF Recorded
      <4>2. history = [i \in 1..Len(history) |-> history[i]]
        BY <4>1
      <4> DEFINE S == {history[i] : i \in 1..Len(history)} \cup {answer}
      <4>3. \A i \in 1..Len(history) : history[i] \in S
        OBVIOUS
      <4> HIDE DEF S
      <4>4. history \in [1..Len(history) -> S]
        BY <4>2, <4>3
      <4>5. history \in Seq(S)
        BY <1>3, <4>4, SeqIs
      <4> QED  BY <4>5 DEF S
    <3> QED  BY <1>3, <3>1
  <2> HIDE DEF cards
  <2>4. PICK k \in 0..Len(answer_versions[answer.versionNo].text) :
           answer.text = SubSeq(answer_versions[answer.versionNo].text, 1, k)
    BY <2>2 DEF Drafted
  <2>5. answer.versionNo \in 1..N /\ answer.isStreaming = TRUE
    BY <2>2 DEF Drafted
  <2>6. IsPrefix(answer.text, answer_versions[answer.versionNo].text)
    <3>1. PICK text \in Seq(Texts) : text = answer_versions[answer.versionNo].text
      <4>1. answer_versions[answer.versionNo] \in Versions
        BY <2>5 DEF TypeOK
      <4> QED  BY <4>1 DEF Versions
    <3>2. k \in 0..Len(text) /\ answer.text = SubSeq(text, 1, k)
      BY <2>4, <3>1
    <3>3. Len(SubSeq(text, 1, k)) = k /\ SubSeq(text, 1, k) \in Seq(Texts)
      BY <3>2
    <3>4. SubSeq(SubSeq(text, 1, k), 1, k) = SubSeq(text, 1, k) /\ k <= Len(text)
      BY <3>2, <3>3
    <3>5. IsPrefix(SubSeq(text, 1, k), text)
      BY <3>2, <3>3, <3>4 DEF IsPrefix
    <3> QED  BY <3>1, <3>2, <3>5
  <2>7. ASSUME NEW i \in 1..n
        PROVE  /\ i > 1 => cards[i].versionNo > cards[i - 1].versionNo
               /\ cards[i].versionNo \in DOMAIN answer_versions
               /\ LET v == answer_versions[cards[i].versionNo]
                  IN  IF cards[i].isStreaming
                      THEN i = Len(cards) /\ IsPrefix(cards[i].text, v.text)
                      ELSE cards[i].text = v.text /\ cards[i].citationChunkIds = v.citations
    <3>1. CASE i = n
      <4>1. cards[i] = answer
        BY <2>3, <3>1
      <4>2. ASSUME i > 1 PROVE cards[i].versionNo > cards[i - 1].versionNo
        <5>1. i - 1 \in 1..Len(history)
          BY <1>3, <3>1, <4>2
        <5>2. cards[i - 1] = history[i - 1] /\ history[i - 1].versionNo < answer.versionNo
          BY <2>2, <2>3, <5>1 DEF Drafted
        <5>3. history[i - 1].versionNo \in Nat /\ answer.versionNo \in Nat
          BY <1>1, <1>3, <2>5, <5>1
        <5> QED  BY <4>1, <5>2, <5>3
      <4> QED  BY <1>1, <2>3, <2>5, <2>6, <3>1, <4>1, <4>2
    <3>2. CASE i # n
      <4>1. i \in 1..Len(history) /\ (i > 1 => i - 1 \in 1..Len(history))
        BY <1>3, <3>2
      <4>2. cards[i] = history[i] /\ (i > 1 => cards[i - 1] = history[i - 1])
        BY <2>3, <4>1
      <4> QED  BY <1>4, <4>1, <4>2
    <3> QED  BY <3>1, <3>2
  <2> QED  BY <2>1, <2>3, <2>7 DEF CardsAreVersions
<1> QED  BY <1>5, <1>6

\* What is cited up to an announcement.
LEMMA CitedIs ==
    ASSUME NEW S, NEW chunks \in Seq(S), NEW events, NEW L \in Nat, Len(events) = L, L >= 1,
           NEW cited, Cites(events, L - 1, chunks, cited),
           events[L].kind = "ANSWER_VERSION_CREATED"
    PROVE  Cited(events) = chunks
<1> DEFINE Is(it) == it = [n \in 0..L |->
                             IF n = 0 THEN <<>>
                             ELSE IF events[n].kind = "CITATION_CREATED"
                                  THEN Append(it[n - 1], events[n].chunk) ELSE it[n - 1]]
           all == [n \in 0..L |-> SubSeq(chunks, 1, IF n = L THEN Len(chunks) ELSE cited[n])]
           it0 == CHOOSE it : Is(it)
<1>1. PICK K \in Nat : K = L - 1 /\ L = K + 1 /\ L # 0
  OBVIOUS
<1>2. /\ cited \in [0..K -> 0..Len(chunks)] /\ cited[0] = 0 /\ cited[K] = Len(chunks)
      /\ \A n \in 1..K : IF events[n].kind = "CITATION_CREATED"
                         THEN cited[n] = cited[n - 1] + 1 /\ events[n].chunk = chunks[cited[n]]
                         ELSE cited[n] = cited[n - 1]
  BY <1>1 DEF Cites
<1>3. /\ \A n \in 0..K : all[n] = SubSeq(chunks, 1, cited[n])
      /\ all[L] = SubSeq(chunks, 1, Len(chunks))
  <2>1. \A n \in 0..K : n \in 0..L /\ n # L
    BY <1>1
  <2>2. L \in 0..L
    OBVIOUS
  <2> QED  BY <2>1, <2>2
<1>4. all = [n \in 0..L |-> all[n]]
  OBVIOUS
<1> HIDE DEF all
<1>5. SubSeq(chunks, 1, Len(chunks)) = chunks /\ SubSeq(chunks, 1, 0) = <<>>
  OBVIOUS
<1>6. ASSUME NEW n \in 0..L
      PROVE  all[n] = IF n = 0 THEN <<>>
                      ELSE IF events[n].kind = "CITATION_CREATED"
                           THEN Append(all[n - 1], events[n].chunk) ELSE all[n - 1]
  <2>1. CASE n = 0
    <3>1. 0 \in 0..K
      BY <1>1
    <3> QED  BY <1>2, <1>3, <1>5, <2>1, <3>1
  <2>2. CASE n \in 1..K
    <3>1. n \in 0..K /\ n - 1 \in 0..K /\ n # 0
      BY <1>1, <2>2
    <3>2. all[n] = SubSeq(chunks, 1, cited[n]) /\ all[n - 1] = SubSeq(chunks, 1, cited[n - 1])
      BY <1>3, <3>1
    <3>3. CASE events[n].kind = "CITATION_CREATED"
      <4>1. cited[n] = cited[n - 1] + 1 /\ events[n].chunk = chunks[cited[n]]
        BY <1>2, <2>2, <3>3
      <4>2. cited[n] \in 1..Len(chunks) /\ cited[n] - 1 = cited[n - 1]
        BY <1>2, <3>1, <4>1
      <4>3. Append(SubSeq(chunks, 1, cited[n] - 1), chunks[cited[n]]) = SubSeq(chunks, 1, cited[n])
        BY <4>2, NextBeginning
      <4> QED  BY <3>1, <3>2, <3>3, <4>1, <4>2, <4>3
    <3>4. CASE events[n].kind # "CITATION_CREATED"
      <4>1. cited[n] = cited[n - 1]
        BY <1>2, <2>2, <3>4
      <4> QED  BY <3>1, <3>2, <3>4, <4>1
    <3> QED  BY <3>3, <3>4
  <2>3. CASE n = L
    <3>1. events[n].kind # "CITATION_CREATED" /\ n - 1 = K /\ K \in 0..K /\ n # 0
      BY <1>1, <2>3
    <3>2. all[K] = SubSeq(chunks, 1, Len(chunks))
      BY <1>2, <1>3, <3>1
    <3> QED  BY <1>3, <2>3, <3>1, <3>2
  <2>4. n = 0 \/ n \in 1..K \/ n = L
    BY <1>1
  <2> QED  BY <2>1, <2>2, <2>3, <2>4
<1>7. Is(all)
  BY <1>4, <1>6
<1>8. Is(it0)
  <2> HIDE DEF Is
  <2> QED  BY <1>7
<1>9. Cited(events) = it0[L]
  BY DEF Cited
<1> HIDE DEF it0
<1>10. it0[L] = all[L]
  <2> DEFINE Same == {n \in 0..L : it0[n] = all[n]}
  <2>1. 0 \in Same
    <3>1. 0 \in 0..L
      BY <1>1
    <3>2. it0[0] = <<>> /\ all[0] = <<>>
      BY <1>6, <1>8, <3>1
    <3> QED  BY <3>1, <3>2
  <2>2. ASSUME NEW n \in 1..L, n - 1 \in Same PROVE n \in Same
    <3>1. n \in 0..L /\ n # 0 /\ it0[n - 1] = all[n - 1]
      BY <2>2
    <3>2. it0[n] = IF events[n].kind = "CITATION_CREATED"
                   THEN Append(it0[n - 1], events[n].chunk) ELSE it0[n - 1]
      BY <1>8, <3>1
    <3>3. all[n] = IF events[n].kind = "CITATION_CREATED"
                   THEN Append(all[n - 1], events[n].chunk) ELSE all[n - 1]
      BY <1>6, <3>1
    <3> QED  BY <3>1, <3>2, <3>3
  <2>3. \A n \in 0..L : n \in Same
    <3> HIDE DEF Same
    <3> QED  BY <2>1, <2>2, UpToN
  <2> QED  BY <1>1, <2>3
<1> QED  BY <1>3, <1>5, <1>9, <1>10

\* The pages of a turn, as a sequence.
LEMMA PagesAre ==
    ASSUME NEW heard, NEW L \in Nat \ {0}, NEW pages, pages = [n \in 1..(L + 1) |-> heard[n - 1]]
    PROVE  /\ Len(pages) = L + 1 /\ DOMAIN pages = 1..(L + 1) /\ Last(pages) = heard[L]
           /\ \A n \in 1..(L + 1) : n - 1 \in 0..L /\ pages[n] = heard[n - 1]
           /\ Last(Front(pages)) = heard[L - 1]
           /\ ToSet(Front(pages)) \subseteq {heard[n] : n \in 0..L}
<1> DEFINE S == {heard[n] : n \in 0..L}
<1>1. \A n \in 1..(L + 1) : n - 1 \in 0..L /\ pages[n] = heard[n - 1]
  OBVIOUS
<1>2. \A n \in 0..L : heard[n] \in S
  OBVIOUS
<1> HIDE DEF S
<1>3. pages \in [1..(L + 1) -> S] /\ L + 1 \in Nat
  BY <1>1, <1>2
<1>4. pages \in Seq(S) /\ Len(pages) = L + 1
  BY <1>3, SeqIs
<1>5. Last(pages) = heard[L]
  <2>1. L + 1 \in 1..(L + 1) /\ (L + 1) - 1 = L
    OBVIOUS
  <2> QED  BY <1>1, <1>4, <2>1 DEF Last
<1> DEFINE front == SubSeq(pages, 1, L)
<1>6. front \in Seq(S) /\ Len(front) = L /\ \A n \in 1..L : front[n] = pages[n]
  BY <1>4
<1>7. Front(pages) = front
  <2>1. (L + 1) - 1 = L
    OBVIOUS
  <2> QED  BY <1>4, <2>1 DEF Front
<1> HIDE DEF front
<1>8. Last(front) = heard[L - 1]
  <2>1. L \in 1..L /\ L \in 1..(L + 1)
    OBVIOUS
  <2> QED  BY <1>1, <1>6, <2>1 DEF Last
<1>9. ASSUME NEW p \in ToSet(front) PROVE \E n \in 0..L : p = heard[n]
  <2>1. PICK k \in 1..L : p = front[k]
    <3>1. DOMAIN front = 1..L
      BY <1>6
    <3> QED  BY <1>9, <3>1 DEF ToSet
  <2>2. k \in 1..(L + 1) /\ k - 1 \in 0..L
    BY <2>1
  <2>3. p = heard[k - 1]
    BY <1>1, <1>6, <2>1, <2>2
  <2> QED  BY <2>2, <2>3
<1> QED  BY <1>1, <1>3, <1>4, <1>5, <1>7, <1>8, <1>9

\* The pages of a turn behind one that shows nothing but versions show nothing else.
LEMMA TurnPages ==
    ASSUME TypeOK, LogInv, phase = "idle", NEW i \in 1..Len(begun),
           NEW page, ShowsUpTo(page, begun[i].versions), NEW L, L = Len(TurnEvents(i))
    PROVE  /\ L \in Nat \ {0}
           /\ \E heard : /\ Hears(heard, page, TurnEvents(i), L)
                         /\ Pages(page, i) = [n \in 1..(L + 1) |-> heard[n - 1]]
                         /\ \A n \in 0..L : ShowsUpTo(heard[n], VersionsAfter(i)) /\ IsPage(heard[n])
                         /\ TurnEvents(i)[L].kind = "ANSWER_VERSION_CREATED"
                              => CommittedTurn(heard, page, L, begun[i].versions + 1)
<1>1. L \in Nat \ {0}
  <2>1. L \in Nat /\ L >= 7
    BY TurnTells DEF Tells
  <2> QED  BY <2>1
<1>2. PICK heard : /\ Hears(heard, page, TurnEvents(i), L)
                   /\ Pages(page, i) = [n \in 1..(L + 1) |-> heard[n - 1]]
  <2>1. L \in Nat
    BY <1>1
  <2>2. Len(TurnEvents(i)) = L
    OBVIOUS
  <2> QED  BY <2>1, <2>2, PagesHeard, SMTT(20)
<1>3. /\ \A n \in 0..L : ShowsUpTo(heard[n], VersionsAfter(i))
      /\ TurnEvents(i)[L].kind = "ANSWER_VERSION_CREATED"
           => CommittedTurn(heard, page, L, begun[i].versions + 1)
  BY <1>2, TurnShows
<1>4. \A n \in 0..L : IsPage(heard[n])
  BY <1>3 DEF ShowsUpTo
<1> QED  BY <1>1, <1>2, <1>3, <1>4

LEMMA BehindShows ==
    ASSUME TypeOK, LogInv, phase = "idle", NEW i \in 1..Len(begun),
           NEW pages, \A page \in pages : ShowsUpTo(page, begun[i].versions)
    PROVE  \A p \in PagesBehind(pages, i) : ShowsUpTo(p, VersionsAfter(i))
<1> DEFINE next(page) == {Last(Pages(page, i))} \cup {Resync(p) : p \in ToSet(Front(Pages(page, i)))}
           K == VersionsAfter(i)
<1> SUFFICES ASSUME NEW p \in PagesBehind(pages, i) PROVE ShowsUpTo(p, K)
  OBVIOUS
<1>9. PICK page \in pages : \E q \in next(page) : p = Reducer!ChunkSent(q, i)
  BY DEF PagesBehind
<1>1. PICK q \in next(page) : p = Reducer!ChunkSent(q, i)
  BY <1>9
<1>2. PICK L : L = Len(TurnEvents(i))
  OBVIOUS
<1>3. ShowsUpTo(page, begun[i].versions)
  BY <1>1
<1>4. L \in Nat \ {0}
  BY <1>2, <1>3, TurnPages
<1>5. PICK heard : /\ Pages(page, i) = [n \in 1..(L + 1) |-> heard[n - 1]]
                   /\ \A n \in 0..L : ShowsUpTo(heard[n], K)
  BY <1>2, <1>3, TurnPages
<1>6. /\ Last(Pages(page, i)) = heard[L]
      /\ \A r \in ToSet(Front(Pages(page, i))) : \E n \in 0..L : r = heard[n]
  <2>1. PICK all : all = Pages(page, i)
    OBVIOUS
  <2>2. all = [n \in 1..(L + 1) |-> heard[n - 1]]
    BY <1>5, <2>1
  <2>3. Last(all) = heard[L]
    BY <1>4, <2>2, PagesAre
  <2>4. ToSet(Front(all)) \subseteq {heard[n] : n \in 0..L}
    BY <1>4, <2>2, PagesAre
  <2> QED  BY <2>1, <2>3, <2>4
<1> HIDE DEF K
<1>7. ShowsUpTo(q, K)
  <2>1. CASE q = Last(Pages(page, i))
    <3>1. L \in 0..L
      BY <1>4
    <3> QED  BY <1>5, <1>6, <2>1, <3>1
  <2>2. CASE q # Last(Pages(page, i))
    <3>1. PICK r \in ToSet(Front(Pages(page, i))) : q = Resync(r)
      BY <1>1, <2>2
    <3>2. ShowsUpTo(r, K)
      BY <1>5, <1>6
    <3>3. IsPage(r)
      BY <3>2 DEF ShowsUpTo
    <3> QED  BY <3>1, <3>2, <3>3, ResyncEventShows, ShowsSame
  <2> QED  BY <2>1, <2>2
<1>8. IsPage(q)
  BY <1>7 DEF ShowsUpTo
<1> QED  BY <1>1, <1>7, <1>8, ChunkShows, ShowsSame

\* The pages before each of the first n turns.
Befores(before, n) ==
    before = [i \in 1..n |-> IF i = 1 THEN NewPages ELSE PagesBehind(before[i - 1], i - 1)]

LEMMA BeforesExist ==
    ASSUME NEW N \in Nat
    PROVE  \E before : Befores(before, N)
<1> DEFINE Good == {n \in Nat : \E before : Befores(before, n)}
<1>1. 0 \in Good
  <2> DEFINE before == [i \in 1..0 |-> NewPages]
  <2>1. Befores(before, 0)
    BY DEF Befores
  <2> QED  BY <2>1
<1>2. ASSUME NEW n \in Nat, n \in Good PROVE n + 1 \in Good
  <2>1. PICK before : Befores(before, n)
    BY <1>2
  <2> DEFINE last == IF n = 0 THEN NewPages ELSE PagesBehind(before[n], n)
             next == [i \in 1..(n + 1) |-> IF i = n + 1 THEN last ELSE before[i]]
  <2>2. \A i \in 1..n : i \in 1..(n + 1) /\ i # n + 1 /\ next[i] = before[i]
    OBVIOUS
  <2>3. next[n + 1] = last
    OBVIOUS
  <2>4. next = [i \in 1..(n + 1) |-> next[i]]
    OBVIOUS
  <2> HIDE DEF next
  <2>5. ASSUME NEW i \in 1..(n + 1)
        PROVE  next[i] = IF i = 1 THEN NewPages ELSE PagesBehind(next[i - 1], i - 1)
    <3>1. CASE i = n + 1
      <4>1. CASE n = 0
        BY <2>3, <3>1, <4>1
      <4>2. CASE n # 0
        <5>1. n \in 1..n /\ i - 1 = n /\ i # 1
          BY <3>1, <4>2
        <5>2. next[n] = before[n] /\ next[i] = PagesBehind(before[n], n)
          BY <2>2, <2>3, <3>1, <4>2, <5>1
        <5> QED  BY <5>1, <5>2
      <4> QED  BY <4>1, <4>2
    <3>2. CASE i # n + 1
      <4>1. i \in 1..n /\ (i # 1 => i - 1 \in 1..n)
        BY <3>2
      <4>2. next[i] = before[i] /\ (i # 1 => next[i - 1] = before[i - 1])
        BY <2>2, <4>1
      <4>3. before[i] = IF i = 1 THEN NewPages ELSE PagesBehind(before[i - 1], i - 1)
        BY <2>1, <4>1 DEF Befores
      <4> QED  BY <4>2, <4>3
    <3> QED  BY <3>1, <3>2
  <2>6. Befores(next, n + 1)
    BY <2>4, <2>5 DEF Befores
  <2> QED  BY <2>6
<1>3. N \in Good
  <2> HIDE DEF Good
  <2> QED  BY <1>1, <1>2, SetInduction
<1> QED  BY <1>3

\* Before the latest turn a page shows nothing but versions there were then.
LEMMA BeforeShows ==
    ASSUME TypeOK, LogInv, phase = "idle", begun # <<>>
    PROVE  \A p \in PagesBefore : ShowsUpTo(p, begun[Len(begun)].versions)
<1> DEFINE Is(it) == Befores(it, Len(begun))
           before == CHOOSE it : Is(it)
<1>1. PICK N \in Nat \ {0} : N = Len(begun)
  <2>1. begun \in Seq(Turns)
    BY DEF LogInv, Placement
  <2> QED  BY <2>1
<1>2. Befores(before, N)
  <2>1. \E it : Is(it)
    BY <1>1, BeforesExist
  <2> HIDE DEF Is
  <2>2. Is(before)
    BY <2>1
  <2> QED  BY <1>1, <2>2 DEF Is
<1>3. PagesBefore = before[N]
  BY <1>1 DEF PagesBefore, Befores
<1> HIDE DEF before
<1> DEFINE Good == {i \in 0..N : i # 0 => \A p \in before[i] : ShowsUpTo(p, begun[i].versions)}
<1>4. 0 \in Good
  BY <1>1
<1>5. ASSUME NEW i \in 1..N, i - 1 \in Good PROVE i \in Good
  <2>1. i \in 0..N /\ before[i] = IF i = 1 THEN NewPages ELSE PagesBehind(before[i - 1], i - 1)
    BY <1>2 DEF Befores
  <2>2. CASE i = 1
    <3>1. begun[i].versions \in Nat /\ 0 <= begun[i].versions
      <4>1. begun[i].versions \in Nat
        BY <1>1, LogTypes DEF LogInv
      <4> QED  BY <4>1
    <3>2. ASSUME NEW p \in before[i] PROVE ShowsUpTo(p, begun[i].versions)
      <4>1. ShowsUpTo(p, 0)
        BY <2>1, <2>2, <3>2, NewShowsNothing
      <4> QED  BY <3>1, <4>1, ShowsMore
    <3> QED  BY <2>1, <3>2
  <2>3. CASE i # 1
    <3>1. PICK j : j = i - 1 /\ j \in 1..N /\ j # 0 /\ j # N /\ j + 1 = i
      BY <2>3
    <3>2. \A p \in before[j] : ShowsUpTo(p, begun[j].versions)
      BY <1>5, <3>1
    <3>3. \A p \in PagesBehind(before[j], j) : ShowsUpTo(p, VersionsAfter(j))
      BY <1>1, <3>1, <3>2, BehindShows
    <3>4. VersionsAfter(j) = begun[i].versions
      BY <1>1, <3>1 DEF VersionsAfter
    <3> QED  BY <2>1, <2>3, <3>1, <3>3, <3>4
  <2> QED  BY <2>2, <2>3
<1>6. \A i \in 0..N : i \in Good
  <2> HIDE DEF Good
  <2> QED  BY <1>1, <1>4, <1>5, UpToN
<1>7. N \in 0..N /\ N # 0
  BY <1>1
<1> QED  BY <1>1, <1>3, <1>6, <1>7

LEMMA ShowsTheAnswers ==
    ASSUME TypeOK, LogInv, phase = "idle", begun # <<>>, NEW before \in PagesBefore
    PROVE  /\ ShowsOneTurn(Pages(before, Len(begun)))
           /\ \A n \in DOMAIN Pages(before, Len(begun)) : CardsAreVersions(Pages(before, Len(begun))[n])
           /\ StreamedIsCommitted(Pages(before, Len(begun)))
<1>1. PICK N : N = Len(begun) /\ N \in 1..Len(begun)
  <2>1. begun \in Seq(Turns)
    BY DEF LogInv, Placement
  <2> QED  BY <2>1
<1>2. PICK B \in Nat : B = begun[N].versions
  BY <1>1, LogTypes DEF LogInv
<1>3. PICK K : K = VersionsAfter(N) /\ K = Len(answer_versions)
  BY <1>1 DEF VersionsAfter
<1>4. PICK L \in Nat \ {0} : L = Len(TurnEvents(N))
  <2>1. ShowsUpTo(before, begun[N].versions)
    BY <1>1, BeforeShows
  <2> QED  BY <1>1, <2>1, TurnPages
<1>5. PICK events : events = TurnEvents(N)
  OBVIOUS
<1>6. PICK pages, fresh, first : /\ pages = Pages(before, N) /\ fresh = Pages(first, N)
                                 /\ first = Reducer!createInitialSessionState
  OBVIOUS
<1>7. ShowsUpTo(before, B) /\ ShowsUpTo(first, B)
  <2>1. ShowsUpTo(before, B)
    BY <1>1, <1>2, BeforeShows
  <2>2. first \in NewPages
    BY <1>6 DEF NewPages
  <2>3. ShowsUpTo(first, 0) /\ 0 <= B
    BY <1>2, <2>2, NewShowsNothing
  <2> QED  BY <2>1, <2>3, ShowsMore
<1>8. PICK heard : /\ Hears(heard, before, events, L)
                   /\ pages = [n \in 1..(L + 1) |-> heard[n - 1]]
                   /\ \A n \in 0..L : ShowsUpTo(heard[n], K) /\ IsPage(heard[n])
                   /\ events[L].kind = "ANSWER_VERSION_CREATED" => CommittedTurn(heard, before, L, B + 1)
  <2>1. phase = "idle" /\ N \in 1..Len(begun) /\ ShowsUpTo(before, begun[N].versions) /\ L = Len(TurnEvents(N))
    BY <1>1, <1>2, <1>4, <1>7
  <2>2. \E heard : /\ Hears(heard, before, TurnEvents(N), L)
                   /\ Pages(before, N) = [n \in 1..(L + 1) |-> heard[n - 1]]
                   /\ \A n \in 0..L : ShowsUpTo(heard[n], VersionsAfter(N)) /\ IsPage(heard[n])
                   /\ TurnEvents(N)[L].kind = "ANSWER_VERSION_CREATED"
                        => CommittedTurn(heard, before, L, begun[N].versions + 1)
    BY <2>1, TurnPages
  <2> QED  BY <1>2, <1>3, <1>5, <1>6, <2>2
<1>9. PICK once : /\ Hears(once, first, events, L)
                  /\ fresh = [n \in 1..(L + 1) |-> once[n - 1]]
                  /\ \A n \in 0..L : IsPage(once[n])
  <2>1. phase = "idle" /\ N \in 1..Len(begun) /\ ShowsUpTo(first, begun[N].versions) /\ L = Len(TurnEvents(N))
    BY <1>1, <1>2, <1>4, <1>7
  <2>2. \E once : /\ Hears(once, first, TurnEvents(N), L)
                  /\ Pages(first, N) = [n \in 1..(L + 1) |-> once[n - 1]]
                  /\ \A n \in 0..L : ShowsUpTo(once[n], VersionsAfter(N)) /\ IsPage(once[n])
    BY <2>1, TurnPages
  <2> QED  BY <1>5, <1>6, <2>2
<1>10. /\ Len(pages) = L + 1 /\ DOMAIN pages = 1..(L + 1) /\ Last(pages) = heard[L]
       /\ \A n \in 1..(L + 1) : n - 1 \in 0..L /\ pages[n] = heard[n - 1]
       /\ Last(Front(pages)) = heard[L - 1]
  <2>1. pages = [n \in 1..(L + 1) |-> heard[n - 1]]
    BY <1>8
  <2>2. Len(pages) = L + 1 /\ DOMAIN pages = 1..(L + 1)
    BY <1>4, <2>1, PagesAre
  <2>3. Last(pages) = heard[L] /\ Last(Front(pages)) = heard[L - 1]
    BY <1>4, <2>1, PagesAre
  <2>4. \A n \in 1..(L + 1) : n - 1 \in 0..L /\ pages[n] = heard[n - 1]
    BY <1>4, <2>1, PagesAre
  <2> QED  BY <2>2, <2>3, <2>4
<1>11. \A n \in 1..(L + 1) : n - 1 \in 0..L /\ fresh[n] = once[n - 1]
  BY <1>4, <1>9, PagesAre
<1>12. Tells(N)
  BY <1>1, TurnTells
<1>13. ShowsOneTurn(pages)
  <2>1. \A n \in 1..L : Shown(heard[n]) = Shown(once[n])
    <3>1. /\ Hears(heard, before, TurnEvents(N), L) /\ ArePages(heard, L)
          /\ Hears(once, first, TurnEvents(N), L) /\ ArePages(once, L)
      BY <1>5, <1>8, <1>9 DEF ArePages
    <3> QED  BY <1>4, <1>12, <3>1, TurnsAreShownAlike
  <2>2. ASSUME NEW n \in 2..(L + 1) PROVE Shown(pages[n]) = Shown(fresh[n])
    <3>1. n \in 1..(L + 1) /\ n - 1 \in 1..L
      BY <1>4
    <3> QED  BY <1>10, <1>11, <2>1, <3>1
  <2>3. ASSUME NEW n \in 2..Len(pages)
        PROVE  /\ pages[n].currentTraceId = fresh[n].currentTraceId
               /\ pages[n].subqueries = fresh[n].subqueries
               /\ pages[n].evidence = fresh[n].evidence
               /\ pages[n].answer = fresh[n].answer
    <3>1. Shown(pages[n]) = Shown(fresh[n])
      BY <1>10, <2>2
    <3> QED  BY <3>1 DEF Shown
  <2>4. fresh = Pages(Reducer!createInitialSessionState, Len(begun))
    BY <1>1, <1>6
  <2> QED  BY <2>3, <2>4 DEF ShowsOneTurn
<1>14. \A n \in DOMAIN pages : CardsAreVersions(pages[n])
  <2> TAKE n \in DOMAIN pages
  <2>1. ShowsUpTo(pages[n], Len(answer_versions))
    BY <1>3, <1>8, <1>10
  <2> QED  BY <2>1, CardsShow
<1>15. StreamedIsCommitted(pages)
  <2>1. Last(events) = events[L]
    BY <1>4, <1>5 DEF Last
  <2>2. SUFFICES ASSUME events[L].kind = "ANSWER_VERSION_CREATED"
                 PROVE  /\ Last(Front(pages)).answer.text = events[L].text
                        /\ Len(Cited(events)) = Len(events[L].citations)
                        /\ Last(Cards(Last(pages))).versionNo = events[L].version_no
    BY <1>1, <1>5, <2>1 DEF StreamedIsCommitted
  <2>3. PICK no \in Nat : no = B + 1
    BY <1>2
  <2>4. /\ no \in 1..Len(answer_versions) /\ L >= 8 /\ events[L] = Announcement(no)
        /\ CitesAsMany(events, L - 1, answer_versions[no].citations)
    BY <1>2, <1>4, <1>5, <1>12, <2>2, <2>3 DEF Tells
  <2>5. /\ events[L].version_no = no /\ events[L].text = answer_versions[no].text
        /\ events[L].citations = answer_versions[no].citations
    BY <2>4 DEF Announcement
  <2>6. CommittedTurn(heard, before, L, no)
    BY <1>8, <2>2, <2>3
  <2>7. Last(Front(pages)).answer.text = events[L].text
    BY <1>10, <2>5, <2>6 DEF CommittedTurn
  <2>8. Len(Cited(events)) = Len(events[L].citations)
    <3>1. PICK chunks \in Seq(Chunks) :
             /\ Len(chunks) = Len(answer_versions[no].citations)
             /\ \E cited : Cites(events, L - 1, chunks, cited)
      BY <2>4 DEF CitesAsMany
    <3>2. PICK cited : Cites(events, L - 1, chunks, cited)
      BY <3>1
    <3>3. Len(events) = L /\ L \in Nat /\ L >= 1
      BY <1>4, <1>5
    <3>4. Cited(events) = chunks
      BY <2>2, <3>2, <3>3, CitedIs
    <3> QED  BY <2>5, <3>1, <3>4
  <2>9. Last(Cards(Last(pages))).versionNo = no
    <3>1. PICK p : p = heard[L] /\ p = Last(pages)
      BY <1>10
    <3>2. /\ p.answerHistory = Append(before.answerHistory, AnswerOf(no))
          /\ p.answer = AnswerOf(no)
      BY <2>6, <3>1 DEF CommittedTurn
    <3>3. Cards(p) = p.answerHistory
      BY <3>2, AnswerOfIs DEF Cards
    <3>4. Last(p.answerHistory) = AnswerOf(no)
      <4>1. PICK history : history = before.answerHistory
        OBVIOUS
      <4>2. Recorded(history, B)
        BY <1>7, <4>1 DEF ShowsUpTo
      <4> DEFINE S == {AnswerOf(n) : n \in 1..B} \cup {AnswerOf(no)}
      <4>3. history \in Seq({AnswerOf(n) : n \in 1..B})
        BY <4>2 DEF Recorded
      <4>4. {AnswerOf(n) : n \in 1..B} \subseteq S /\ AnswerOf(no) \in S
        OBVIOUS
      <4>5. history \in Seq(S)
        <5> HIDE DEF S
        <5> QED  BY <4>3, <4>4
      <4> HIDE DEF S
      <4>6. /\ Len(Append(history, AnswerOf(no))) = Len(history) + 1
            /\ Append(history, AnswerOf(no))[Len(history) + 1] = AnswerOf(no)
        BY <4>4, <4>5
      <4> QED  BY <3>2, <4>1, <4>6 DEF Last
    <3>5. Cards(Last(pages)) = p.answerHistory
      BY <3>1, <3>3
    <3>6. Last(Cards(Last(pages))) = AnswerOf(no)
      BY <3>4, <3>5
    <3> QED  BY <3>6, AnswerOfIs
  <2> QED  BY <2>5, <2>7, <2>8, <2>9
<1> QED  BY <1>1, <1>6, <1>13, <1>14, <1>15

\* Whatever a page heard of earlier turns, it shows the answers of its session, each
\* once, a revision never mixed with what it revises, and when one is announced its text
\* is what was streamed, with as many citations told as it has ids (sessionReducer,
\* stream_answer).
THEOREM PageShowsItsAnswers == PageSpec => []PageShowsTheAnswers
<1>1. GenerationInv /\ LogInv => PageShowsTheAnswers
  <2> SUFFICES ASSUME GenerationInv, LogInv, phase = "idle", begun # <<>>, NEW before \in PagesBefore
               PROVE  LET pages == Pages(before, Len(begun))
                      IN  /\ ShowsOneTurn(pages)
                          /\ \A n \in DOMAIN pages : CardsAreVersions(pages[n])
                          /\ StreamedIsCommitted(pages)
    BY DEF PageShowsTheAnswers
  <2>1. TypeOK
    BY DEF GenerationInv
  <2> QED  BY <2>1, ShowsTheAnswers
<1> QED  BY <1>1, LogInvariant, PTL

=============================================================================
