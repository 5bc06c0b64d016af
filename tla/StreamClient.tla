---------------------------- MODULE StreamClient ----------------------------
(***************************************************************************)
(* A browser tab and its sessions, from POST /session to the last          *)
(* reconnect: the hook useStreamingSession and its StreamClients           *)
(* (src/frontend/src/state/useStreamingSession.ts,                         *)
(* src/frontend/src/api/wsClient.ts), the controls that call them, and     *)
(* what the server does at either end of a connection: SessionStore        *)
(* (src/app/session/session_store.py), POST and GET /session               *)
(* (src/app/api/session.py), the handshake of stream_endpoint              *)
(* (src/app/api/stream.py).                                                *)
(*                                                                         *)
(* A callback of the browser is one step, and so is what the server does   *)
(* between two awaits.  The network may drop a socket and lose what is     *)
(* under way on it; either end finds out later.  Of a chunk only its seq   *)
(* is kept and whether it comes from the demo script, whose offsets move   *)
(* on; chunks typed by hand all have the offset 0.  Of a transcript, what  *)
(* it waits for and what it holds back.                                    *)
(***************************************************************************)
EXTENDS Integers, Sequences, SequencesExt, FiniteSets

CONSTANTS
    MaxStarts,   \* bound: calls of start()
    MaxDrops,    \* bound: sockets the network drops
    MaxOld,      \* bound: sessions that outlive SESSION_TTL_SECONDS
    MaxSeq,      \* bound: chunks sent in a session by hand
    DemoChunks,  \* chunks of NORTHSTAR_DEMO_SCRIPT
    None

ASSUME StreamClientAssumption ==
    /\ {MaxStarts, MaxDrops, MaxOld, MaxSeq, DemoChunks} \subseteq Nat
    /\ None \notin Nat /\ None \notin {"caller", "dropped"}

VARIABLES
    phase,       \* LifecyclePhase
    connection,  \* state.connection
    pending,     \* createSession calls that start() awaits
    clientRef,   \* index of the hook's StreamClient, None if it has none
    nextSeq,     \* nextSeqRef
    demo,        \* chunks the demo's timers have still to send
    refused,     \* seqs of this session that sendTranscriptChunk did not send
    clients,     \* StreamClients made so far
    sockets,     \* WebSockets opened so far, with their handlers on the server
    sessions,    \* SessionStore._sessions
    starts, drops

hook == <<phase, connection, pending, clientRef, nextSeq, demo, refused>>
vars == <<hook, clients, sockets, sessions, starts, drops>>

\* The token is the server's own, from the ws_url of POST /session: it is never
\* rejected.
Codes == {None, "caller", "dropped", "unknown_session", "server_error"}
ClientType == [session : Nat, closedByCaller : BOOLEAN, hasConnectedOnce : BOOLEAN,
               reconnectTimer : BOOLEAN, socket : Nat \cup {None}]
Frames == [seq : Nat, demo : BOOLEAN]
SocketType ==
    [client : Nat,
     state : {"opening", "accepted", "open", "closed"},  \* as the browser has it
     code : Codes,                                       \* why it is to close, on its way
     pc : {"handshake", "accepted", "receiving", "gone"},\* stream_endpoint
     frames : Seq(Frames),                               \* sent, not yet received
     lost : SUBSET Nat]                                  \* seqs sent, never to arrive
SessionType == [status : {"active", "closed"}, old : BOOLEAN, ever_connected : BOOLEAN,
                next : Nat \cup {None}, pending : SUBSET Nat]

\* Type invariant
TypeOK ==
    /\ phase \in {"idle", "creating_session", "connecting", "ready", "error"}
    /\ connection \in {"connecting", "connected", "reconnecting", "disconnected"}
    /\ pending \in 0..1
    /\ clientRef \in DOMAIN clients \cup {None}
    /\ nextSeq \in Nat
    /\ demo \in 0..DemoChunks
    /\ refused \subseteq Nat
    /\ clients \in Seq(ClientType)
    /\ \A c \in DOMAIN clients : clients[c].session \in DOMAIN sessions
    /\ sockets \in Seq(SocketType)
    /\ \A k \in DOMAIN sockets : sockets[k].client \in DOMAIN clients
    /\ sessions \in Seq(SessionType)
    /\ starts \in 0..MaxStarts /\ drops \in 0..MaxDrops

Init ==
    /\ phase = "idle"
    /\ connection = "disconnected"
    /\ pending = 0
    /\ clientRef = None
    /\ nextSeq = 0
    /\ demo = 0
    /\ refused = {}
    /\ clients = <<>>
    /\ sockets = <<>>
    /\ sessions = <<>>
    /\ starts = 0
    /\ drops = 0

-----------------------------------------------------------------------------
(* SessionStore *)

\* A record of create()
NewSession == [status |-> "active", old |-> FALSE, ever_connected |-> FALSE,
               next |-> None, pending |-> {}]

Usable(s) == sessions[s].status = "active" /\ ~sessions[s].old

\* What get() leaves of a record: one found too old is closed, once (_close_record).
Looked(s) ==
    IF sessions[s].status = "active" /\ sessions[s].old
    THEN [sessions[s] EXCEPT !.status = "closed"] ELSE sessions[s]

\* SESSION_TTL_SECONDS after its creation: nothing moves last_active_at.
GrowOld(s) ==
    /\ ~sessions[s].old
    /\ Cardinality({o \in DOMAIN sessions : sessions[o].old}) < MaxOld
    /\ sessions' = [sessions EXCEPT ![s].old = TRUE]
    /\ UNCHANGED <<hook, clients, sockets, starts, drops>>

\* GET /session/{id}, by anyone
GetSession(s) ==
    /\ sessions' = [sessions EXCEPT ![s] = Looked(s)]
    /\ UNCHANGED <<hook, clients, sockets, starts, drops>>

-----------------------------------------------------------------------------
(* StreamClient *)

\* close(), if the hook has a client
Teardown ==
    IF clientRef = None THEN UNCHANGED <<clients, sockets>>
    ELSE LET k == clients[clientRef].socket
         IN  /\ clients' = [clients EXCEPT ![clientRef].closedByCaller = TRUE,
                                           ![clientRef].reconnectTimer = FALSE,
                                           ![clientRef].socket = None]
             /\ sockets' = IF k # None /\ sockets[k].state # "closed" /\ sockets[k].code = None
                           THEN [sockets EXCEPT ![k].code = "caller"] ELSE sockets

NewSocket(c) == [client |-> c, state |-> "opening", code |-> None, pc |-> "handshake",
                 frames |-> <<>>, lost |-> {}]

Open(c) ==
    /\ sockets' = Append(sockets, NewSocket(c))
    /\ clients' = [clients EXCEPT ![c].reconnectTimer = FALSE, ![c].socket = Len(sockets')]
    /\ connection' = IF clients[c].hasConnectedOnce THEN "reconnecting" ELSE "connecting"
    /\ UNCHANGED <<phase, pending, clientRef, nextSeq, demo, refused, sessions, starts, drops>>

\* Mutant: a client that was connected once does not connect again.
ConnectOnce(c) ==
    /\ clients[c].reconnectTimer /\ ~clients[c].closedByCaller
    /\ ~clients[c].hasConnectedOnce
    /\ Open(c)

\* The timer of scheduleReconnect goes off.
Reopen(c) ==
    /\ clients[c].reconnectTimer /\ ~clients[c].closedByCaller
    /\ Open(c)

OnOpen(k) ==
    /\ sockets[k].state = "accepted"
    /\ sockets[k].code \notin {"caller", "dropped"}
    /\ sockets' = [sockets EXCEPT ![k].state = "open"]
    /\ clients' = [clients EXCEPT ![sockets[k].client].hasConnectedOnce = TRUE]
    /\ connection' = "connected"
    /\ phase' = "ready"
    /\ UNCHANGED <<pending, clientRef, nextSeq, demo, refused, sessions, starts, drops>>

\* The codes after which a client does not try again
Final(code) == code = "unknown_session"

\* Mutant: the branches of onclose do not return.
OnCloseFallingThrough(k) ==
    LET c == sockets[k].client
        code == sockets[k].code
    IN  /\ code # None /\ sockets[k].state # "closed"
        /\ Final(code) => sockets[k].state = "open"
        /\ sockets' = [sockets EXCEPT ![k].state = "closed"]
        /\ clients' = [clients EXCEPT ![c].reconnectTimer = TRUE]
        /\ connection' = "reconnecting"
        /\ phase' = IF Final(code) THEN "error" ELSE phase
        /\ UNCHANGED <<pending, clientRef, nextSeq, demo, refused, sessions, starts, drops>>

\* A code sent by the server comes behind its accept; the browser fires open first.
OnClose(k) ==
    LET c == sockets[k].client
        code == sockets[k].code
    IN  /\ code # None /\ sockets[k].state # "closed"
        /\ Final(code) => sockets[k].state = "open"
        /\ sockets' = [sockets EXCEPT ![k].state = "closed"]
        /\ IF clients[c].closedByCaller
             THEN connection' = "disconnected" /\ UNCHANGED <<phase, clients>>
           ELSE IF Final(code)
             THEN connection' = "disconnected" /\ phase' = "error" /\ UNCHANGED clients
           ELSE /\ connection' = "reconnecting"
                /\ clients' = [clients EXCEPT ![c].reconnectTimer = TRUE]
                /\ UNCHANGED phase
        /\ UNCHANGED <<pending, clientRef, nextSeq, demo, refused, sessions, starts, drops>>

-----------------------------------------------------------------------------
(* useStreamingSession and the controls *)

\* Mutant: the button is not disabled while a session is being made.
NeverBusy == FALSE

\* ConnectPanel.busy
Busy == phase \in {"creating_session", "connecting"}

\* start(), from the ConnectPanel, which App shows unless phase is "ready"
Start ==
    /\ phase # "ready" /\ ~Busy
    /\ starts < MaxStarts
    /\ starts' = starts + 1
    /\ Teardown
    /\ clientRef' = None
    /\ phase' = "creating_session"
    /\ nextSeq' = 0
    /\ refused' = {}
    /\ pending' = pending + 1
    /\ UNCHANGED <<connection, demo, sessions, drops>>

\* createSession answers: start() goes on with a client of the new session.
SessionCreated ==
    /\ pending > 0
    /\ pending' = pending - 1
    /\ sessions' = Append(sessions, NewSession)
    /\ clients' = Append(clients, [session |-> Len(sessions'), closedByCaller |-> FALSE,
                                   hasConnectedOnce |-> FALSE, reconnectTimer |-> FALSE,
                                   socket |-> Len(sockets) + 1])
    /\ sockets' = Append(sockets, NewSocket(Len(clients')))
    /\ clientRef' = Len(clients')
    /\ phase' = "connecting"
    /\ connection' = "connecting"
    /\ UNCHANGED <<nextSeq, demo, refused, starts, drops>>

\* It fails; the server may have made a session all the same.
CreationFails(made) ==
    /\ pending > 0
    /\ pending' = pending - 1
    /\ sessions' = IF made THEN Append(sessions, NewSession) ELSE sessions
    /\ phase' = "error"
    /\ UNCHANGED <<connection, clientRef, nextSeq, demo, refused, clients, sockets, starts, drops>>

\* readyState OPEN: the browser has not been told otherwise.
Sendable ==
    /\ clientRef # None
    /\ LET k == clients[clientRef].socket
       IN  k # None /\ sockets[k].state = "open" /\ sockets[k].code # "caller"

\* sendChunk; what is sent on a socket that is dead already is lost.
SendChunk(isDemo) ==
    /\ nextSeq' = nextSeq + 1
    /\ IF Sendable
         THEN LET k == clients[clientRef].socket
              IN  /\ sockets' = IF sockets[k].code = None
                                THEN [sockets EXCEPT ![k].frames =
                                        Append(@, [seq |-> nextSeq, demo |-> isDemo])]
                                ELSE [sockets EXCEPT ![k].lost = @ \cup {nextSeq}]
                  /\ UNCHANGED refused
         ELSE refused' = refused \cup {nextSeq} /\ UNCHANGED sockets

\* DemoControls.sendManual: the form is disabled unless phase is "ready".
SendManual ==
    /\ phase = "ready"
    /\ nextSeq < MaxSeq
    /\ SendChunk(FALSE)
    /\ UNCHANGED <<phase, connection, pending, clientRef, demo, clients, sessions, starts, drops>>

\* DemoControls.startDemo
StartDemo ==
    /\ phase = "ready" /\ demo = 0 /\ nextSeq < MaxSeq
    /\ demo' = DemoChunks
    /\ UNCHANGED <<phase, connection, pending, clientRef, nextSeq, refused, clients, sockets,
                   sessions, starts, drops>>

\* A timer of the demo; nothing stops them while the page is up.
SendDemo ==
    /\ demo > 0
    /\ demo' = demo - 1
    /\ SendChunk(TRUE)
    /\ UNCHANGED <<phase, connection, pending, clientRef, clients, sessions, starts, drops>>

-----------------------------------------------------------------------------
(* stream_endpoint *)

SessionOf(k) == clients[sockets[k].client].session

\* The session is looked up; one that is not there or too old is told after accept().
Handshake(k) ==
    LET s == SessionOf(k)
    IN  /\ sockets[k].pc = "handshake"
        /\ sessions' = [sessions EXCEPT ![s] = Looked(s)]
        /\ sockets' = [sockets EXCEPT
             ![k].state = IF @ = "opening" THEN "accepted" ELSE @,
             ![k].pc = IF Usable(s) THEN "accepted" ELSE "gone",
             ![k].code = IF Usable(s) \/ @ # None THEN @ ELSE "unknown_session"]
        /\ UNCHANGED <<hook, clients, starts, drops>>

\* mark_connected looks it up again: by now it may be too old, which nothing catches.
MarkConnected(k) ==
    LET s == SessionOf(k)
    IN  /\ sockets[k].pc = "accepted"
        /\ sessions' = [sessions EXCEPT ![s] =
             IF Usable(s) THEN [@ EXCEPT !.ever_connected = TRUE] ELSE Looked(s)]
        /\ sockets' = [sockets EXCEPT
             ![k].pc = IF Usable(s) THEN "receiving" ELSE "gone",
             ![k].code = IF Usable(s) \/ @ # None THEN @ ELSE "server_error"]
        /\ UNCHANGED <<hook, clients, starts, drops>>

\* Mutant: a chunk that closes a gap is committed without those that waited for it.
CommitAlone(s, frame, late) ==
    LET r    == sessions[s]
        next == IF r.next = None THEN frame.seq ELSE r.next
        held == r.pending \cup {frame.seq}
    IN  IF frame.seq < next THEN [r EXCEPT !.next = next]
        ELSE IF frame.seq = next THEN [r EXCEPT !.next = next + 1]
        ELSE IF frame.demo /\ late THEN [r EXCEPT !.next = Max(held) + 1, !.pending = {}]
        ELSE [r EXCEPT !.next = next, !.pending = held]

\* The chunks that go on from n without a gap
RunFrom(n, held) == {m \in held : n <= m /\ n..m \subseteq held}

\* ingest_chunk.  REORDER_WINDOW_MS is measured in the chunks' own offsets: a chunk
\* typed by hand never finds it over.
Ingested(s, frame, late) ==
    LET r    == sessions[s]
        next == IF r.next = None THEN frame.seq ELSE r.next
        held == r.pending \cup {frame.seq}
        run  == RunFrom(next, held)
    IN  IF frame.seq < next THEN [r EXCEPT !.next = next]
        ELSE IF frame.seq = next THEN [r EXCEPT !.next = Max(run) + 1, !.pending = held \ run]
        ELSE IF frame.demo /\ late THEN [r EXCEPT !.next = Max(held) + 1, !.pending = {}]
        ELSE [r EXCEPT !.next = next, !.pending = held]

Receive(k, late) ==
    /\ sockets[k].pc = "receiving" /\ sockets[k].frames # <<>>
    /\ late => Head(sockets[k].frames).demo
    /\ sockets' = [sockets EXCEPT ![k].frames = Tail(@)]
    /\ LET s == SessionOf(k)
       IN  sessions' = [sessions EXCEPT ![s] = Ingested(s, Head(sockets[k].frames), late)]
    /\ UNCHANGED <<hook, clients, starts, drops>>

\* receive_json finds the socket closed.
NoticeDisconnect(k) ==
    /\ sockets[k].pc = "receiving" /\ sockets[k].frames = <<>>
    /\ sockets[k].code # None
    /\ sockets' = [sockets EXCEPT ![k].pc = "gone"]
    /\ UNCHANGED <<hook, clients, sessions, starts, drops>>

\* The network drops a socket, with the last of what is under way on it.
Drop(k, n) ==
    LET frames == sockets[k].frames
    IN  /\ drops < MaxDrops
        /\ drops' = drops + 1
        /\ sockets[k].code = None /\ sockets[k].state # "closed"
        /\ sockets' = [sockets EXCEPT
             ![k].code = "dropped",
             ![k].frames = SubSeq(frames, 1, n),
             ![k].lost = {frames[i].seq : i \in (n + 1)..Len(frames)}]
        /\ UNCHANGED <<hook, clients, sessions, starts>>

-----------------------------------------------------------------------------
Browser ==
    \/ SessionCreated
    \/ \E made \in BOOLEAN : CreationFails(made)
    \/ \E c \in DOMAIN clients : Reopen(c)
    \/ \E k \in DOMAIN sockets : OnOpen(k) \/ OnClose(k)
    \/ SendDemo

Server ==
    \E k \in DOMAIN sockets :
        \/ Handshake(k) \/ MarkConnected(k) \/ NoticeDisconnect(k)
        \/ \E late \in BOOLEAN : Receive(k, late)

Environment ==
    \/ Start \/ SendManual \/ StartDemo
    \/ \E s \in DOMAIN sessions : GrowOld(s) \/ GetSession(s)
    \/ \E k \in DOMAIN sockets : \E n \in 0..Len(sockets[k].frames) : Drop(k, n)

Next == Browser \/ Server \/ Environment

\* Both event loops run, and timers go off.
Spec == Init /\ [][Next]_vars /\ WF_vars(Browser) /\ WF_vars(Server)

-----------------------------------------------------------------------------
(* Properties *)

Live(c) ==
    clients[c].reconnectTimer \/ \E k \in DOMAIN sockets :
        sockets[k].client = c /\ sockets[k].state # "closed" /\ sockets[k].code # "caller"

\* At most one StreamClient is connected or will connect by itself, the hook's own,
\* however start() is called (useStreamingSession, ConnectPanel).
OneLiveClient == \A c \in DOMAIN clients : Live(c) => c = clientRef

\* What the page shows of its connection: chunks can only be entered while the
\* client is connected or will be by itself; an error is final, nothing goes on
\* behind it (useStreamingSession, StreamClient.open).
PhaseTellsTheTruth ==
    /\ phase = "ready" => Live(clientRef)
    /\ phase = "error" => \A c \in DOMAIN clients : ~Live(c)
    /\ connection = "connected" /\ phase = "ready" => sockets[clients[clientRef].socket].state = "open"

\* The server keeps a chunk back only for one that never comes: its seq was used up
\* by a send that failed, or the network lost it, or it is still on its way on
\* another socket (sendChunk, ingest_chunk).
HeldForALostOne ==
    clientRef # None =>
        LET s   == clients[clientRef].session
            r   == sessions[s]
            own == {k \in DOMAIN sockets : SessionOf(k) = s}
        IN  r.pending # {} =>
                \/ r.next \in refused
                \/ \E k \in own : \/ r.next \in sockets[k].lost
                                  \/ \E i \in DOMAIN sockets[k].frames :
                                        r.next = sockets[k].frames[i].seq

\* The page never waits for good: start() ends where chunks can be entered or with an
\* error, and a page that lost its connection gets it back or says that its session
\* is gone (start, StreamClient.open, scheduleReconnect).
StartEnds == Busy ~> ~Busy
ReconnectEnds == connection = "reconnecting" ~> connection = "connected" \/ phase = "error"
WaitingEnds == StartEnds /\ ReconnectEnds

=============================================================================
