--------------------------- MODULE StreamSession ---------------------------
(***************************************************************************)
(* WS /session/{id}/stream (src/app/api/stream.py) for one session: every  *)
(* WebSocket a client opens is one run of stream_endpoint, and several     *)
(* runs may be alive at once (a client that reconnects before the server   *)
(* notices its old socket is dead, two tabs on one session).  They share   *)
(* the SessionRecord; record.lock serialises their turns, but connecting,  *)
(* SESSION_RESYNC and the delivery of events happen outside it.            *)
(*                                                                         *)
(* A step of the model runs from one await of the code to the next.  The   *)
(* controller's and the generator's insides are left to other modules:     *)
(* here a pass ends in one of its decisions or in an exception, a          *)
(* generation in a committed answer version, in none, or in an exception.  *)
(* The transcript buffer is TranscriptBuffer's, extended by this module.   *)
(***************************************************************************)
EXTENDS TranscriptBuffer

CONSTANTS
    Conns,             \* the connections opened on the session
    MaxFrames,         \* bound: frames sent to the session in all
    ConcurrentClients  \* may a socket be opened while another is still open?

ASSUME ConnsAssumption == None \notin Conns
ASSUME MaxFramesAssumption == MaxFrames \in Nat
ASSUME ConcurrentClientsAssumption == ConcurrentClients \in BOOLEAN

VARIABLES
    pc,            \* pc[c]: where the handler of c stands
    online,        \* online[c]: the socket of c works
    sent,          \* how many frames were sent
    frame,         \* frame[c]: the chunk that waits for the lock
    todo,          \* todo[c]: chunks of the turn's batch still to be passed on
    prior,         \* prior[c]: number of the answer version a generation started from
    lockQueue,     \* record.lock: its holder first, then who waits (FIFO)
    everConnected, \* record.ever_connected
    turn,          \* number of turns begun
    trace,         \* trace[c]: trace_id of the last turn c began: its number
    versions,      \* record.answer_versions
    passed,        \* the chunks that had their controller pass, in order
    eventLog,      \* record.event_log
    queue,         \* queue[c]: events waiting for c's sender task
    seen           \* seen[c]: answer version the client of c knows of (0: none)

turnVars   == <<frame, todo, prior, lockQueue, turn, trace, versions, passed>>
clientVars == <<online, sent, everConnected, seen>>
vars == <<bufferVars, turnVars, clientVars, pc, eventLog, queue>>

InTurn(c) == pc[c] \in {"controller", "retrieve", "answer", "broken"}

Kinds == {"SESSION_RESYNC", "ERROR", "RETRIEVAL_DECISION", "UNCERTAINTY",
          "ANSWER_VERSION_CREATED"}

\* What an ERROR gives as its stage; other events give none.
Stages == {"", "stream", "controller", "generation"}

\* turn: the turn that emitted the event, a history (0: none); trace: its
\* trace_id; no: an answer version number, or 0.
Events == [kind : Kinds, stage : Stages, conn : Conns, turn : Nat, trace : Int, no : Nat]

\* The id of the event that is emitted next, if new_id() makes one for it
\* alone: a number no turn has and no other event.
NewId == -(Len(eventLog) + 1)

\* An event of the controller or the generator, with the turn's trace_id
Event(kind, c, t, no) ==
    [kind |-> kind, stage |-> IF kind = "ERROR" THEN "generation" ELSE "",
     conn |-> c, turn |-> t, trace |-> t, no |-> no]

\* _error_event: the turn that emits it, t, is not in its trace_id.
ErrorEvent(c, stage, t) ==
    [kind |-> "ERROR", stage |-> stage, conn |-> c, turn |-> t, trace |-> NewId, no |-> 0]

\* Mutant: the resync reports the version before the latest.
StaleResyncEvent(c) ==
    [kind |-> "SESSION_RESYNC", stage |-> "", conn |-> c, turn |-> 0, trace |-> NewId,
     no |-> Len(versions) - 1]

\* What SESSION_RESYNC tells of the answers is the latest version's number.
ResyncEvent(c) ==
    [kind |-> "SESSION_RESYNC", stage |-> "", conn |-> c, turn |-> 0, trace |-> NewId,
     no |-> Len(versions)]

Versions == [version_no : Nat, supersedes : Nat \cup {None}]

TypeOK ==
    /\ BufferTypeOK
    /\ pc \in [Conns -> {"new", "accepted", "receiving", "waiting",
                         "controller", "retrieve", "answer", "broken", "gone"}]
    /\ online \in [Conns -> BOOLEAN]
    /\ sent \in 0..MaxFrames
    /\ frame \in [Conns -> Chunks \cup {None}]
    /\ todo \in [Conns -> Seq(Chunks)]
    /\ prior \in [Conns -> Nat]
    /\ lockQueue \in Seq(Conns)
    /\ everConnected \in BOOLEAN
    /\ turn \in Nat
    /\ trace \in [Conns -> Nat]
    /\ versions \in Seq(Versions)
    /\ passed \in Seq(Chunks)
    /\ eventLog \in Seq(Events)
    /\ queue \in [Conns -> Seq(Events)]
    /\ seen \in [Conns -> Nat]

Init ==
    /\ BufferInit
    /\ pc = [c \in Conns |-> "new"]
    /\ online = [c \in Conns |-> FALSE]
    /\ sent = 0
    /\ frame = [c \in Conns |-> None]
    /\ todo = [c \in Conns |-> <<>>]
    /\ prior = [c \in Conns |-> 0]
    /\ lockQueue = <<>>
    /\ everConnected = FALSE
    /\ turn = 0
    /\ trace = [c \in Conns |-> 0]
    /\ versions = <<>>
    /\ passed = <<>>
    /\ eventLog = <<>>
    /\ queue = [c \in Conns |-> <<>>]
    /\ seen = [c \in Conns |-> 0]

-----------------------------------------------------------------------------
(* Helpers *)

\* stream_endpoint's sink: the session's log and this connection's own queue.
Emit(c, events) ==
    /\ eventLog' = eventLog \o events
    /\ queue' = [queue EXCEPT ![c] = @ \o events]

GoTo(c, place) == pc' = [pc EXCEPT ![c] = place]

\* Mutant: turns without a lock.
NoLock(c) == TRUE

\* record.lock is granted in the order it was asked for.
HoldsLock(c) == Head(lockQueue) = c

\* Mutant: the lock is left held.
KeepLock(c) == GoTo(c, "receiving") /\ UNCHANGED lockQueue

\* Leaving the lock's scope: the longest waiting connection holds it next.
Release(c) ==
    /\ lockQueue' = Tail(lockQueue)
    /\ GoTo(c, "receiving")

\* The pass over the first chunk of the batch is over; an exception ends it
\* like a decision does.  The turn goes on with the next chunk or ends.
PassDone(c) ==
    /\ passed' = Append(passed, Head(todo[c]))
    /\ todo' = [todo EXCEPT ![c] = Tail(@)]
    /\ IF Tail(todo[c]) = <<>>
         THEN Release(c)
         ELSE GoTo(c, "controller") /\ UNCHANGED lockQueue

-----------------------------------------------------------------------------
(* Connections *)

\* The handshake found the session; accept() returned.
Connect(c) ==
    /\ pc[c] = "new"
    /\ ConcurrentClients \/ \A d \in Conns : ~online[d]
    /\ GoTo(c, "accepted")
    /\ online' = [online EXCEPT ![c] = TRUE]
    /\ UNCHANGED <<bufferVars, turnVars, sent, everConnected, seen, eventLog, queue>>

\* Mutant: a first connection is taken for a reconnect.
ResyncAlways(c) == <<ResyncEvent(c)>>

\* What a connection is told when it comes up (REQ-STREAM-03).
Resync(c) == IF everConnected THEN <<ResyncEvent(c)>> ELSE <<>>

\* store.mark_connected and, on a reconnect, SESSION_RESYNC: not under the
\* lock, so it reads the record in the middle of whatever turn is running.
MarkConnected(c) ==
    /\ pc[c] = "accepted"
    /\ everConnected' = TRUE
    /\ Emit(c, Resync(c))
    /\ GoTo(c, "receiving")
    /\ UNCHANGED <<bufferVars, turnVars, online, sent, seen>>

Disconnect(c) ==
    /\ online[c]
    /\ online' = [online EXCEPT ![c] = FALSE]
    /\ UNCHANGED <<bufferVars, turnVars, sent, everConnected, seen, pc, eventLog, queue>>

\* The handler ends; its sender task is cancelled with whatever it still had.
Leave(c) ==
    /\ GoTo(c, "gone")
    /\ queue' = [queue EXCEPT ![c] = <<>>]

\* Only the next receive_json finds out that the client has left.
NoticeDisconnect(c) ==
    /\ pc[c] = "receiving"
    /\ ~online[c]
    /\ Leave(c)
    /\ UNCHANGED <<bufferVars, turnVars, clientVars, eventLog>>

\* The sender task; a send over a dead socket ends it.
Deliver(c) ==
    /\ online[c]
    /\ pc[c] # "gone"
    /\ queue[c] # <<>>
    /\ queue' = [queue EXCEPT ![c] = Tail(@)]
    /\ seen' = [seen EXCEPT ![c] =
         IF Head(queue[c]).kind \in {"SESSION_RESYNC", "ANSWER_VERSION_CREATED"}
           THEN Head(queue[c]).no ELSE @]
    /\ UNCHANGED <<bufferVars, turnVars, online, sent, everConnected, pc, eventLog>>

-----------------------------------------------------------------------------
(* Frames *)

Receive(c) ==
    /\ pc[c] = "receiving"
    /\ sent < MaxFrames
    /\ sent' = sent + 1

\* A valid TRANSCRIPT_CHUNK: the handler asks for record.lock.  A frame that
\* was on its way when the client left is received all the same.
ReceiveChunk(c, chunk) ==
    /\ Receive(c)
    /\ frame' = [frame EXCEPT ![c] = chunk]
    /\ lockQueue' = Append(lockQueue, c)
    /\ GoTo(c, "waiting")
    /\ UNCHANGED <<bufferVars, todo, prior, turn, trace, versions, passed,
                   online, everConnected, seen, eventLog, queue>>

\* JSON that is not a TRANSCRIPT_CHUNK is answered with an ERROR.
ReceiveInvalidFrame(c) ==
    /\ Receive(c)
    /\ Emit(c, <<ErrorEvent(c, "stream", 0)>>)
    /\ UNCHANGED <<bufferVars, turnVars, online, everConnected, seen, pc>>

\* A frame that is not JSON makes receive_json itself raise, which nothing in
\* the handler catches.
ReceiveUndecodable(c) ==
    /\ Receive(c)
    /\ Leave(c)
    /\ online' = [online EXCEPT ![c] = FALSE]
    /\ UNCHANGED <<bufferVars, turnVars, everConnected, seen, eventLog>>

-----------------------------------------------------------------------------
(* Turns *)

\* The lock is granted and ingest_chunk runs; there is no await between.
BeginTurn(c) ==
    /\ pc[c] = "waiting"
    /\ HoldsLock(c)
    /\ turn' = turn + 1
    /\ trace' = [trace EXCEPT ![c] = turn']
    /\ Ingest(frame[c])
    /\ frame' = [frame EXCEPT ![c] = None]
    /\ Emit(c, IF sequenceGap' THEN <<ErrorEvent(c, "stream", turn')>> ELSE <<>>)
    /\ todo' = [todo EXCEPT ![c] = committed']
    /\ IF committed' = <<>>
         THEN Release(c)
         ELSE GoTo(c, "controller") /\ UNCHANGED lockQueue
    /\ UNCHANGED <<prior, versions, passed, clientVars>>

\* on_chunk decides not to retrieve: WAIT or NO_RETRIEVAL.
DecideNotToRetrieve(c) ==
    /\ pc[c] = "controller"
    /\ Emit(c, <<Event("RETRIEVAL_DECISION", c, trace[c], 0)>>)
    /\ PassDone(c)
    /\ UNCHANGED <<bufferVars, frame, prior, turn, trace, versions, clientVars>>

\* on_chunk announces a RETRIEVE, then awaits decomposition and retrieval.
DecideToRetrieve(c) ==
    /\ pc[c] = "controller"
    /\ Emit(c, <<Event("RETRIEVAL_DECISION", c, trace[c], 0)>>)
    /\ GoTo(c, "retrieve")
    /\ UNCHANGED <<bufferVars, turnVars, clientVars>>

\* on_chunk returned evidence; stream_answer reads the prior version and
\* starts generating.
BeginAnswer(c) ==
    /\ pc[c] = "retrieve"
    /\ prior' = [prior EXCEPT ![c] = IF versions = <<>> THEN 0
                                     ELSE versions[Len(versions)].version_no]
    /\ GoTo(c, "answer")
    /\ UNCHANGED <<bufferVars, frame, todo, lockQueue, turn, trace, versions, passed,
                   clientVars, eventLog, queue>>

\* Nothing usable to ground an answer in.
LackEvidence(c) ==
    /\ pc[c] = "retrieve"
    /\ Emit(c, <<Event("UNCERTAINTY", c, trace[c], 0)>>)
    /\ PassDone(c)
    /\ UNCHANGED <<bufferVars, frame, prior, turn, trace, versions, clientVars>>

\* The AnswerVersion built on version n (0: on none).
VersionAfter(n) == [version_no |-> n + 1, supersedes |-> IF n = 0 THEN None ELSE n]

\* The generation raised or timed out: an ERROR at once, but the sentences
\* finished before, and the one begun, still make an answer.
GenerationBreaks(c) ==
    /\ pc[c] = "answer"
    /\ Emit(c, <<Event("ERROR", c, trace[c], 0)>>)
    /\ GoTo(c, "broken")
    /\ UNCHANGED <<bufferVars, turnVars, clientVars>>

CommitAnswer(c) ==
    /\ pc[c] \in {"answer", "broken"}
    /\ versions' = Append(versions, VersionAfter(prior[c]))
    /\ Emit(c, <<Event("ANSWER_VERSION_CREATED", c, trace[c], prior[c] + 1)>>)
    /\ PassDone(c)
    /\ UNCHANGED <<bufferVars, frame, prior, turn, trace, clientVars>>

\* The generation produced no sentence: no version, and no event says so.
AnswerEmpty(c) ==
    /\ pc[c] \in {"answer", "broken"}
    /\ PassDone(c)
    /\ UNCHANGED <<bufferVars, frame, prior, turn, trace, versions, clientVars,
                   eventLog, queue>>

\* Mutant: an exception of the pipeline escapes the handler.
StageEscapes(c) ==
    /\ InTurn(c)
    /\ Leave(c)
    /\ lockQueue' = Tail(lockQueue)
    /\ todo' = [todo EXCEPT ![c] = <<>>]
    /\ UNCHANGED <<bufferVars, frame, prior, turn, trace, versions, passed, clientVars,
                   eventLog>>

\* The embedding, a retrieval stage or a sentence's validation raised: an
\* ERROR event, and no answer version.
StageFails(c) ==
    /\ InTurn(c)
    /\ Emit(c, <<ErrorEvent(c, "controller", trace[c])>>)
    /\ PassDone(c)
    /\ UNCHANGED <<bufferVars, frame, prior, turn, trace, versions, clientVars>>

\* What follows once the call a pass awaits has returned, raised or timed out
PassStep(c) ==
    \/ DecideNotToRetrieve(c)
    \/ DecideToRetrieve(c)
    \/ BeginAnswer(c)
    \/ LackEvidence(c)
    \/ GenerationBreaks(c)
    \/ CommitAnswer(c)
    \/ AnswerEmpty(c)
    \/ StageFails(c)

TurnStep(c) == BeginTurn(c) \/ PassStep(c)

Next ==
    \E c \in Conns :
        \/ Connect(c)
        \/ MarkConnected(c)
        \/ Disconnect(c)
        \/ NoticeDisconnect(c)
        \/ Deliver(c)
        \/ \E chunk \in Chunks : ReceiveChunk(c, chunk)
        \/ ReceiveInvalidFrame(c)
        \/ ReceiveUndecodable(c)
        \/ TurnStep(c)

Spec == Init /\ [][Next]_vars

\* The event loop runs every coroutine that can go on.
Scheduling ==
    \A c \in Conns : /\ WF_vars(MarkConnected(c))
                     /\ WF_vars(BeginTurn(c))
                     /\ WF_vars(Deliver(c))

\* Assumed, of what the code calls: whatever a pass awaits comes back or raises.
\* Of the searches, the decomposition, every token and a regeneration the
\* code's own timeouts see to that.  Nothing in the code does for the threads
\* with the embeddings, the extraction of entities, fusion, deduplication and
\* reranking, and the loading of an index, nor for a stream of tokens without
\* an end: a turn that awaits one of these for ever keeps the lock for ever.
CallsReturn == \A c \in Conns : WF_vars(PassStep(c))

\* What clients do is not fair.
FairSpec == Spec /\ Scheduling /\ CallsReturn

-----------------------------------------------------------------------------
(* Properties *)

\* Answer versions are numbered 1, 2, 3, ... and each supersedes the one
\* before it, although a generation reads its prior version long before it
\* appends its own and other connections run turns meanwhile.
VersionChain ==
    \A i \in DOMAIN versions :
        versions[i] = [version_no |-> i, supersedes |-> IF i = 1 THEN None ELSE i - 1]

\* The answer versions are an AnswerLog: a committed version stays, and nothing
\* but a commit on top of the latest one changes them.
Answers == INSTANCE AnswerLog WITH log <- versions
ImplementsAnswerLog == Answers!Spec

\* Every committed chunk gets exactly one controller pass, in buffer order,
\* whatever connection it came over and however many passes failed or clients
\* left: between turns nothing is left over, in a turn only its batch is.
PassesFollowBuffer ==
    /\ \A c \in Conns : InTurn(c) => buffer = passed \o todo[c]
    /\ (\A c \in Conns : ~InTurn(c)) => buffer = passed

\* The events that stand alone under their trace_id: a resync, and an ERROR that
\* stream_endpoint reports itself, be it an invalid frame, a gap or a stage that
\* raised.
StandsAlone(e) == e.kind = "SESSION_RESYNC" \/ e.stage \in {"stream", "controller"}

\* The events of two turns never interleave in the log, and a trace_id selects
\* events of one turn: all of them but the ERRORs of stream_endpoint, which it
\* never selects, although they are what tells of a gap or of a failed stage.
TurnsDoNotInterleave ==
    \A i, j \in DOMAIN eventLog : i < j =>
        /\ eventLog[i].turn # 0 /\ eventLog[j].turn # 0
             => eventLog[i].turn <= eventLog[j].turn
        /\ eventLog[i].trace = eventLog[j].trace
             <=> /\ eventLog[i].turn = eventLog[j].turn
                 /\ ~StandsAlone(eventLog[i]) /\ ~StandsAlone(eventLog[j])

Before(i, c) == {j \in DOMAIN eventLog : j < i /\ eventLog[j].conn = c}
Resynced(c) == \E i \in DOMAIN eventLog : /\ eventLog[i].conn = c
                                          /\ eventLog[i].kind = "SESSION_RESYNC"

\* REQ-STREAM-03: of all connections that ever came up exactly one, the first,
\* gets no SESSION_RESYNC; for any other it is the first event, and the only one.
ResyncOnEveryReconnect ==
    /\ \A i \in DOMAIN eventLog :
         eventLog[i].kind = "SESSION_RESYNC" => Before(i, eventLog[i].conn) = {}
    /\ everConnected =>
         \E first \in Conns :
            \A c \in Conns : pc[c] \notin {"new", "accepted"}
                                => (Resynced(c) <=> c # first)

\* What a client knows of the answers never goes back, neither on one
\* connection nor from a dead one to the reconnect that replaces it.
ViewNeverRegresses ==
    [][\A c, d \in Conns :
         seen'[c] # seen[c] /\ (c = d \/ ~online[d]) /\ ~ConcurrentClients
            => seen'[c] >= seen[d]]_vars

FrameGetsItsTurn ==
    \A c \in Conns : (pc[c] = "waiting") ~> (pc[c] # "waiting")
CommittedGetsItsPass ==
    \A n \in 1..Cardinality(Chunks) : (Len(buffer) >= n) ~> (Len(passed) >= n)

\* A frame that asked for the lock gets its turn, and every chunk committed to
\* the buffer gets its pass, even if the client that sent it is gone and
\* whichever stages of the passes before it failed (stream_endpoint).
FramesAreServed == FrameGetsItsTurn /\ CommittedGetsItsPass

=============================================================================
