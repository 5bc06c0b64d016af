--------------------------- MODULE StreamClientProofs ---------------------------
(***************************************************************************)
(* Proofs about the browser tab, for any number of starts, drops, sessions *)
(* and chunks.  No property is inductive: a client is the only live one    *)
(* because start() can only be called while none is (Calm), a client that  *)
(* goes on after a close has no socket left to go on with (OneSocket), and *)
(* what the page shows follows the one live client (Followed).  That a     *)
(* chunk is held back only for a lost one needs where every number that    *)
(* was assigned is: ingested, held, on a live socket, or lost (ChunksInv). *)
(***************************************************************************)
EXTENDS StreamClient, FiniteSetTheorems, WellFoundedInduction, TLAPS

NoClient == phase \in {"idle", "creating_session", "error"}

\* Between two clients nothing is connected or will be; a session is awaited once.
Calm ==
    /\ pending = 1 <=> phase = "creating_session"
    /\ NoClient => \A c \in DOMAIN clients : ~Live(c)

\* The hook's client, and no other, is live.
Followed ==
    ~NoClient => /\ clientRef \in DOMAIN clients /\ Live(clientRef) /\ ~clients[clientRef].closedByCaller
                 /\ \A c \in DOMAIN clients : Live(c) => c = clientRef
                 /\ connection = "connected" =>
                       /\ clients[clientRef].socket \in DOMAIN sockets
                       /\ sockets[clients[clientRef].socket].state = "open"

\* A socket that is not closed is its client's latest, which then waits for no
\* timer, and nobody closes a socket that is still of use.
OneSocket ==
    \A k \in DOMAIN sockets :
        /\ sockets[k].code # "caller"
        /\ sockets[k].state # "closed" => /\ clients[sockets[k].client].socket = k
                                          /\ ~clients[sockets[k].client].reconnectTimer

\* The type invariant by parts, and what is held back are finitely many chunks.
HookOK ==
    /\ phase \in {"idle", "creating_session", "connecting", "ready", "error"}
    /\ connection \in {"connecting", "connected", "reconnecting", "disconnected"}
    /\ pending \in 0..1
    /\ clientRef \in DOMAIN clients \cup {None}
    /\ nextSeq \in Nat
    /\ demo \in 0..DemoChunks
    /\ refused \subseteq Nat
    /\ starts \in 0..MaxStarts /\ drops \in 0..MaxDrops

ClientsOK ==
    /\ clients \in Seq(ClientType)
    /\ \A c \in DOMAIN clients : clients[c].session \in DOMAIN sessions

SocketsOK ==
    /\ sockets \in Seq(SocketType)
    /\ \A k \in DOMAIN sockets : sockets[k].client \in DOMAIN clients

SessionsOK ==
    /\ sessions \in Seq(SessionType)
    /\ \A s \in DOMAIN sessions : \E m \in Nat : sessions[s].pending \subseteq 0..m

Types == HookOK /\ ClientsOK /\ SocketsOK /\ SessionsOK
Links == Calm /\ Followed /\ OneSocket
ClientInv == Types /\ Links

-----------------------------------------------------------------------------
(* Sequences and sets *)

LEMMA Replaced ==
    ASSUME NEW S, NEW s \in Seq(S), NEW k \in DOMAIN s, NEW x \in S
    PROVE  LET t == [s EXCEPT ![k] = x]
           IN  /\ t \in Seq(S) /\ DOMAIN t = DOMAIN s /\ Len(t) = Len(s) /\ t[k] = x
               /\ \A i \in DOMAIN s \ {k} : t[i] = s[i]
<1> QED  OBVIOUS

LEMMA Appended ==
    ASSUME NEW S, NEW s \in Seq(S), NEW x \in S
    PROVE  LET t == Append(s, x)
           IN  /\ t \in Seq(S) /\ Len(t) = Len(s) + 1 /\ Len(s) \in Nat
               /\ DOMAIN t = DOMAIN s \cup {Len(s) + 1} /\ Len(s) + 1 \notin DOMAIN s
               /\ DOMAIN s = 1..Len(s) /\ t[Len(s) + 1] = x
               /\ \A i \in DOMAIN s : t[i] = s[i]
<1> QED  OBVIOUS

\* A set of numbers up to m has a largest one.
LEMMA LargestOne ==
    ASSUME NEW m \in Nat, NEW S \in SUBSET (0..m), S # {}
    PROVE  Max(S) \in S /\ \A y \in S : Max(S) >= y
<1> DEFINE T == {m - x : x \in S}
           Less == {p \in Nat \X Nat : p[1] < p[2]}
<1>1. T \in SUBSET Nat /\ T # {}
  <2>1. \A x \in S : m - x \in Nat
    OBVIOUS
  <2>2. PICK x \in S : TRUE
    OBVIOUS
  <2>3. m - x \in T
    OBVIOUS
  <2> QED  BY <2>1, <2>3
<1>2. PICK t \in T : \A u \in T : <<u, t>> \notin Less
  <2>1. IsWellFoundedOn(Less, Nat)
    BY NatLessThanWellFounded DEF OpToRel
  <2> HIDE DEF T, Less
  <2> QED  BY <1>1, <2>1, WFMin
<1>3. \A u \in T : t <= u
  <2> TAKE u \in T
  <2>1. t \in Nat /\ u \in Nat /\ <<u, t>> \notin Less
    BY <1>1, <1>2
  <2> QED  BY <2>1
<1>4. PICK x \in S : t = m - x
  OBVIOUS
<1>5. \A y \in S : x >= y
  <2> TAKE y \in S
  <2>1. t <= m - y
    BY <1>3
  <2> QED  BY <2>1, <1>4
<1> QED  BY <1>4, <1>5 DEF Max

-----------------------------------------------------------------------------
(* Types *)

\* A socket some of whose fields a step changed
LEMMA SocketFields ==
    ASSUME NEW r \in SocketType,
           NEW state \in {"opening", "accepted", "open", "closed"}, NEW code \in Codes,
           NEW pc \in {"handshake", "accepted", "receiving", "gone"},
           NEW frames \in Seq(Frames), NEW lost \in SUBSET Nat
    PROVE  /\ [r EXCEPT !.state = state] \in SocketType
           /\ [r EXCEPT !.code = code] \in SocketType
           /\ [r EXCEPT !.pc = pc] \in SocketType
           /\ [r EXCEPT !.frames = frames] \in SocketType
           /\ [r EXCEPT !.lost = lost] \in SocketType
           /\ [r EXCEPT !.pc = pc, !.code = code] \in SocketType
           /\ [r EXCEPT !.state = state, !.pc = pc, !.code = code] \in SocketType
           /\ [r EXCEPT !.code = code, !.frames = frames, !.lost = lost] \in SocketType
<1> QED  BY DEF SocketType

Bounded(r) == r \in SessionType /\ \E m \in Nat : r.pending \subseteq 0..m

\* A record of the session store some of whose fields a step changed
LEMMA SessionHeld ==
    ASSUME NEW r, Bounded(r), NEW next \in Nat, NEW held, NEW n \in Nat, held \subseteq 0..n
    PROVE  Bounded([r EXCEPT !.next = next, !.pending = held])
<1>1. r \in SessionType /\ held \in SUBSET Nat
  BY DEF Bounded
<1>2. [r EXCEPT !.next = next, !.pending = held] \in SessionType
  BY <1>1 DEF SessionType
<1>3. [r EXCEPT !.next = next, !.pending = held].pending = held
  BY <1>1 DEF SessionType
<1> QED  BY <1>2, <1>3 DEF Bounded

LEMMA SessionNext ==
    ASSUME NEW r, Bounded(r), NEW next \in Nat
    PROVE  Bounded([r EXCEPT !.next = next])
<1>1. r \in SessionType /\ \E m \in Nat : r.pending \subseteq 0..m
  BY DEF Bounded
<1>2. [r EXCEPT !.next = next] \in SessionType /\ [r EXCEPT !.next = next].pending = r.pending
  BY <1>1 DEF SessionType
<1> QED  BY <1>1, <1>2 DEF Bounded

LEMMA SessionFields ==
    ASSUME NEW r, Bounded(r)
    PROVE  /\ Bounded([r EXCEPT !.old = TRUE])
           /\ Bounded([r EXCEPT !.status = "closed"])
           /\ Bounded([r EXCEPT !.ever_connected = TRUE])
<1>1. r \in SessionType /\ \E m \in Nat : r.pending \subseteq 0..m
  BY DEF Bounded
<1>2. /\ [r EXCEPT !.old = TRUE] \in SessionType /\ [r EXCEPT !.old = TRUE].pending = r.pending
      /\ [r EXCEPT !.status = "closed"] \in SessionType /\ [r EXCEPT !.status = "closed"].pending = r.pending
      /\ [r EXCEPT !.ever_connected = TRUE] \in SessionType
      /\ [r EXCEPT !.ever_connected = TRUE].pending = r.pending
  BY <1>1 DEF SessionType
<1> QED  BY <1>1, <1>2 DEF Bounded

\* What ingest_chunk makes of a record
LEMMA IngestedBounded ==
    ASSUME SessionsOK, NEW s \in DOMAIN sessions, NEW frame \in Frames, NEW late \in BOOLEAN
    PROVE  Bounded(Ingested(s, frame, late))
<1> DEFINE r == sessions[s]
           next == IF r.next = None THEN frame.seq ELSE r.next
           held == r.pending \cup {frame.seq}
           run == RunFrom(next, held)
<1>1. r \in SessionType /\ frame.seq \in Nat /\ Bounded(r)
  BY DEF SessionsOK, Frames, Bounded
<1>2. PICK m \in Nat : r.pending \subseteq 0..m
  BY DEF SessionsOK
<1>3. next \in Nat
  BY <1>1 DEF SessionType
<1>4. PICK n \in Nat : held \subseteq 0..n
  <2>1. CASE frame.seq <= m
    <3>1. held \subseteq 0..m
      BY <1>1, <1>2, <2>1
    <3> QED  BY <3>1
  <2>2. CASE ~(frame.seq <= m)
    <3>1. held \subseteq 0..frame.seq
      <4>1. \A x \in 0..m : x \in 0..frame.seq
        BY <1>1, <2>2
      <4> QED  BY <1>1, <1>2, <4>1
    <3> QED  BY <1>1, <3>1
  <2> QED  BY <2>1, <2>2
<1>5. frame.seq \in held /\ held \in SUBSET Nat
  BY <1>4
<1>6. Max(held) + 1 \in Nat
  <2>1. Max(held) \in held
    BY <1>4, <1>5, LargestOne
  <2> QED  BY <1>5, <2>1
<1>7. ASSUME frame.seq = next PROVE Max(run) + 1 \in Nat
  <2>1. run \subseteq held
    BY DEF RunFrom
  <2>2. frame.seq \in run
    <3>1. frame.seq..frame.seq = {frame.seq}
      BY <1>1
    <3> QED  BY <1>1, <1>5, <1>7, <3>1 DEF RunFrom
  <2>3. Max(run) \in run
    BY <1>4, <2>1, <2>2, LargestOne
  <2> QED  BY <1>5, <2>1, <2>3
<1> HIDE DEF r, next, held, run
<1>8. CASE frame.seq < next
  <2>1. Ingested(s, frame, late) = [r EXCEPT !.next = next]
    BY <1>8 DEF Ingested, r, next
  <2>2. Bounded([r EXCEPT !.next = next])
    BY <1>1, <1>3, SessionNext
  <2> QED  BY <2>1, <2>2
<1>9. CASE ~(frame.seq < next) /\ frame.seq = next
  <2>1. Ingested(s, frame, late) = [r EXCEPT !.next = Max(run) + 1, !.pending = held \ run]
    BY <1>9 DEF Ingested, r, next, held, run
  <2>2. held \ run \subseteq 0..n
    BY <1>4
  <2>3. Max(run) + 1 \in Nat
    BY <1>7, <1>9
  <2>4. Bounded([r EXCEPT !.next = Max(run) + 1, !.pending = held \ run])
    BY <1>1, <2>2, <2>3, SessionHeld
  <2> QED  BY <2>1, <2>4
<1>10. CASE ~(frame.seq < next) /\ frame.seq # next /\ frame.demo /\ late
  <2>1. Ingested(s, frame, late) = [r EXCEPT !.next = Max(held) + 1, !.pending = {}]
    BY <1>10 DEF Ingested, r, next, held
  <2>2. {} \subseteq 0..0
    OBVIOUS
  <2>3. Bounded([r EXCEPT !.next = Max(held) + 1, !.pending = {}])
    BY <1>1, <1>6, <2>2, SessionHeld
  <2> QED  BY <2>1, <2>3
<1>11. CASE ~(frame.seq < next) /\ frame.seq # next /\ ~(frame.demo /\ late)
  <2>1. Ingested(s, frame, late) = [r EXCEPT !.next = next, !.pending = held]
    BY <1>11 DEF Ingested, r, next, held
  <2>2. Bounded([r EXCEPT !.next = next, !.pending = held])
    BY <1>1, <1>3, <1>4, SessionHeld
  <2> QED  BY <2>1, <2>2
<1> QED  BY <1>8, <1>9, <1>10, <1>11

\* One record is replaced, or a new one made.
LEMMA SessionReplaced ==
    ASSUME SessionsOK, NEW s \in DOMAIN sessions, NEW r, Bounded(r), sessions' = [sessions EXCEPT ![s] = r]
    PROVE  SessionsOK' /\ DOMAIN sessions' = DOMAIN sessions
<1>1. r \in SessionType /\ (\E m \in Nat : r.pending \subseteq 0..m) /\ sessions \in Seq(SessionType)
  BY DEF Bounded, SessionsOK
<1>2. /\ sessions' \in Seq(SessionType) /\ DOMAIN sessions' = DOMAIN sessions /\ sessions'[s] = r
      /\ \A i \in DOMAIN sessions \ {s} : sessions'[i] = sessions[i]
  BY <1>1, Replaced
<1> QED  BY <1>1, <1>2 DEF SessionsOK

LEMMA SessionMade ==
    ASSUME SessionsOK, sessions' = Append(sessions, NewSession)
    PROVE  /\ SessionsOK' /\ DOMAIN sessions \subseteq DOMAIN sessions' /\ Len(sessions') \in DOMAIN sessions'
           /\ Len(sessions') \in Nat
<1>1. NewSession \in SessionType /\ NewSession.pending \subseteq 0..0 /\ sessions \in Seq(SessionType)
  BY DEF NewSession, SessionType, SessionsOK
<1> DEFINE n == Len(sessions) + 1
<1>2. /\ sessions' \in Seq(SessionType) /\ DOMAIN sessions' = DOMAIN sessions \cup {n}
      /\ sessions'[n] = NewSession /\ Len(sessions') = n /\ n \in Nat
      /\ \A i \in DOMAIN sessions : sessions'[i] = sessions[i]
  BY <1>1, Appended
<1> HIDE DEF n
<1>3. \A i \in DOMAIN sessions' : \E m \in Nat : sessions'[i].pending \subseteq 0..m
  <2>1. \E m \in Nat : sessions'[n].pending \subseteq 0..m
    BY <1>1, <1>2
  <2> QED  BY <1>2, <2>1 DEF SessionsOK
<1> QED  BY <1>2, <1>3 DEF SessionsOK

\* get() and mark_connected
LEMMA LookedBounded ==
    ASSUME SessionsOK, NEW s \in DOMAIN sessions
    PROVE  /\ Bounded(sessions[s]) /\ Bounded(Looked(s)) /\ Bounded([sessions[s] EXCEPT !.old = TRUE])
           /\ Bounded([sessions[s] EXCEPT !.ever_connected = TRUE])
<1>1. Bounded(sessions[s])
  BY DEF SessionsOK, Bounded
<1>2. /\ Bounded([sessions[s] EXCEPT !.status = "closed"]) /\ Bounded([sessions[s] EXCEPT !.old = TRUE])
      /\ Bounded([sessions[s] EXCEPT !.ever_connected = TRUE])
  BY <1>1, SessionFields
<1> QED  BY <1>1, <1>2 DEF Looked

-----------------------------------------------------------------------------
(* Steps that change neither what a client is nor what it is connected to *)

\* One socket is replaced by what a step makes of it.
LEMMA SocketReplaced ==
    ASSUME SocketsOK, NEW k \in DOMAIN sockets, NEW r \in SocketType,
           r.client = sockets[k].client, sockets' = [sockets EXCEPT ![k] = r],
           DOMAIN clients \subseteq DOMAIN clients'
    PROVE  /\ SocketsOK' /\ DOMAIN sockets' = DOMAIN sockets /\ sockets'[k] = r
           /\ \A i \in DOMAIN sockets \ {k} : sockets'[i] = sockets[i]
<1>1. sockets \in Seq(SocketType)
  BY DEF SocketsOK
<1>2. /\ sockets' \in Seq(SocketType) /\ DOMAIN sockets' = DOMAIN sockets /\ sockets'[k] = r
      /\ \A i \in DOMAIN sockets \ {k} : sockets'[i] = sockets[i]
  BY <1>1, Replaced
<1> QED  BY <1>2 DEF SocketsOK

\* Nobody is closed by its caller, and no socket opens or closes.
Quiet ==
    /\ UNCHANGED <<phase, connection, pending, clientRef, clients>>
    /\ DOMAIN sockets' = DOMAIN sockets
    /\ \A k \in DOMAIN sockets :
          /\ sockets'[k].client = sockets[k].client
          /\ sockets'[k].code # "caller"
          /\ \/ sockets'[k].state = sockets[k].state
             \/ sockets[k].state = "opening" /\ sockets'[k].state = "accepted"

LEMMA QuietKeepsLinks ==
    ASSUME Types, Links, Quiet
    PROVE  Links'
<1>1. \A c \in DOMAIN clients : Live(c)' <=> Live(c)
  BY DEF Live, Quiet, Links, OneSocket
<1>2. Calm'
  BY <1>1 DEF Calm, NoClient, Quiet, Links
<1>3. OneSocket'
  BY DEF OneSocket, Quiet, Links
<1>4. Followed'
  <2>1. NoClient' <=> NoClient
    BY DEF NoClient, Quiet
  <2>2. CASE ~NoClient
    BY <1>1, <2>1, <2>2 DEF Followed, Quiet, Links
  <2> QED  BY <2>1, <2>2 DEF Followed
<1> QED  BY <1>2, <1>3, <1>4 DEF Links

\* A step that only moves one socket on
LEMMA SocketMoves ==
    ASSUME Types, Links, NEW k \in DOMAIN sockets, NEW r \in SocketType,
           sockets' = [sockets EXCEPT ![k] = r],
           r.client = sockets[k].client, r.code # "caller",
           r.state = sockets[k].state \/ (sockets[k].state = "opening" /\ r.state = "accepted"),
           UNCHANGED <<phase, connection, pending, clientRef, clients>>
    PROVE  SocketsOK' /\ Links'
<1>1. /\ SocketsOK' /\ DOMAIN sockets' = DOMAIN sockets /\ sockets'[k] = r
      /\ \A i \in DOMAIN sockets \ {k} : sockets'[i] = sockets[i]
  BY SocketReplaced DEF Types
<1>2. Quiet
  BY <1>1 DEF Quiet, Links, OneSocket
<1> QED  BY <1>1, <1>2, QuietKeepsLinks

-----------------------------------------------------------------------------
(* Actions of the environment and of the server *)

LEMMA ClientsStay ==
    ASSUME ClientsOK, UNCHANGED clients, DOMAIN sessions \subseteq DOMAIN sessions'
    PROVE  ClientsOK'
<1> QED  BY DEF ClientsOK

\* Only the record of a session changes.
LEMMA StoreKeeps ==
    ASSUME ClientInv, NEW s \in DOMAIN sessions, NEW r, Bounded(r),
           sessions' = [sessions EXCEPT ![s] = r],
           UNCHANGED <<hook, clients, sockets, starts>>, drops' \in 0..MaxDrops
    PROVE  ClientInv'
<1>1. SessionsOK' /\ DOMAIN sessions' = DOMAIN sessions
  BY SessionReplaced DEF ClientInv, Types
<1>2. HookOK' /\ SocketsOK'
  BY DEF ClientInv, Types, HookOK, SocketsOK, hook
<1>3. ClientsOK'
  BY <1>1, ClientsStay DEF ClientInv, Types
<1>4. Quiet
  BY DEF Quiet, ClientInv, Links, OneSocket, hook
<1>5. Links'
  BY <1>4, QuietKeepsLinks DEF ClientInv
<1> QED  BY <1>1, <1>2, <1>3, <1>5 DEF ClientInv, Types

LEMMA GrowOldKeeps ==
    ASSUME ClientInv, NEW s \in DOMAIN sessions, GrowOld(s)
    PROVE  ClientInv'
<1>1. Bounded([sessions[s] EXCEPT !.old = TRUE])
  BY LookedBounded DEF ClientInv, Types
<1>2. sessions' = [sessions EXCEPT ![s] = [sessions[s] EXCEPT !.old = TRUE]]
  BY DEF GrowOld
<1>3. drops' \in 0..MaxDrops
  BY DEF GrowOld, ClientInv, Types, HookOK
<1> QED  BY <1>1, <1>2, <1>3, StoreKeeps DEF GrowOld

LEMMA GetSessionKeeps ==
    ASSUME ClientInv, NEW s \in DOMAIN sessions, GetSession(s)
    PROVE  ClientInv'
<1>1. Bounded(Looked(s))
  BY LookedBounded DEF ClientInv, Types
<1>2. drops' \in 0..MaxDrops
  BY DEF GetSession, ClientInv, Types, HookOK
<1> QED  BY <1>1, <1>2, StoreKeeps DEF GetSession

\* A socket and the record of its session change.
LEMMA ServerKeeps ==
    ASSUME ClientInv, NEW k \in DOMAIN sockets, NEW r \in SocketType, NEW t, Bounded(t),
           sockets' = [sockets EXCEPT ![k] = r], sessions' = [sessions EXCEPT ![SessionOf(k)] = t],
           r.client = sockets[k].client, r.code # "caller",
           r.state = sockets[k].state \/ (sockets[k].state = "opening" /\ r.state = "accepted"),
           UNCHANGED <<hook, clients, starts>>, drops' \in 0..MaxDrops
    PROVE  ClientInv'
<1>1. SessionOf(k) \in DOMAIN sessions
  BY DEF ClientInv, Types, SocketsOK, ClientsOK, SessionOf
<1>2. SessionsOK' /\ DOMAIN sessions' = DOMAIN sessions
  BY <1>1, SessionReplaced DEF ClientInv, Types
<1>3. SocketsOK' /\ Links'
  BY SocketMoves DEF ClientInv, hook
<1>4. HookOK'
  BY DEF ClientInv, Types, HookOK, hook
<1>5. ClientsOK'
  BY <1>2, ClientsStay DEF ClientInv, Types
<1> QED  BY <1>2, <1>3, <1>4, <1>5 DEF ClientInv, Types

\* What ServerKeeps asks of the socket's record
LEMMA SocketOf ==
    ASSUME ClientInv, NEW k \in DOMAIN sockets
    PROVE  /\ sockets[k] \in SocketType /\ sockets[k].code \in Codes \ {"caller"}
           /\ SessionOf(k) \in DOMAIN sessions /\ sockets[k].client \in DOMAIN clients
<1>1. sockets[k] \in SocketType /\ sockets[k].client \in DOMAIN clients
  BY DEF ClientInv, Types, SocketsOK
<1>2. sockets[k].code \in Codes
  BY <1>1 DEF SocketType
<1>3. sockets[k].code # "caller"
  BY DEF ClientInv, Links, OneSocket
<1>4. SessionOf(k) \in DOMAIN sessions
  BY <1>1 DEF ClientInv, Types, ClientsOK, SessionOf
<1> QED  BY <1>1, <1>2, <1>3, <1>4

LEMMA HandshakeKeeps ==
    ASSUME ClientInv, NEW k \in DOMAIN sockets, Handshake(k)
    PROVE  ClientInv'
<1> DEFINE q == sockets[k]
           s == SessionOf(k)
           state == IF q.state = "opening" THEN "accepted" ELSE q.state
           pc == IF Usable(s) THEN "accepted" ELSE "gone"
           code == IF Usable(s) \/ q.code # None THEN q.code ELSE "unknown_session"
           r == [q EXCEPT !.state = state, !.pc = pc, !.code = code]
<1>1. q \in SocketType /\ q.code \in Codes \ {"caller"} /\ s \in DOMAIN sessions
  BY SocketOf
<1>2. /\ state \in {"opening", "accepted", "open", "closed"}
      /\ pc \in {"handshake", "accepted", "receiving", "gone"} /\ code \in Codes \ {"caller"}
  BY <1>1 DEF SocketType, Codes
<1>3. sockets' = [sockets EXCEPT ![k] = r]
  BY DEF Handshake
<1>4. sessions' = [sessions EXCEPT ![s] = Looked(s)] /\ Bounded(Looked(s))
  BY <1>1, LookedBounded DEF Handshake, ClientInv, Types
<1>5. /\ r.client = q.client /\ r.code = code /\ r.state = state
  BY <1>1 DEF SocketType
<1>6. r \in SocketType
  BY <1>1, <1>2 DEF SocketType
<1>7. UNCHANGED <<hook, clients, starts>> /\ drops' \in 0..MaxDrops
  BY DEF Handshake, ClientInv, Types, HookOK
<1>8. r.state = q.state \/ (q.state = "opening" /\ r.state = "accepted")
  BY <1>5
<1> HIDE DEF r, code, state, pc
<1> QED  BY <1>2, <1>3, <1>4, <1>5, <1>6, <1>7, <1>8, ServerKeeps

LEMMA MarkConnectedKeeps ==
    ASSUME ClientInv, NEW k \in DOMAIN sockets, MarkConnected(k)
    PROVE  ClientInv'
<1> DEFINE q == sockets[k]
           s == SessionOf(k)
           pc == IF Usable(s) THEN "receiving" ELSE "gone"
           code == IF Usable(s) \/ q.code # None THEN q.code ELSE "server_error"
           r == [q EXCEPT !.pc = pc, !.code = code]
           t == IF Usable(s) THEN [sessions[s] EXCEPT !.ever_connected = TRUE] ELSE Looked(s)
<1>1. q \in SocketType /\ q.code \in Codes \ {"caller"} /\ s \in DOMAIN sessions
  BY SocketOf
<1>2. pc \in {"handshake", "accepted", "receiving", "gone"} /\ code \in Codes \ {"caller"}
  BY <1>1 DEF Codes
<1>3. sockets' = [sockets EXCEPT ![k] = r]
  BY DEF MarkConnected
<1>4. sessions' = [sessions EXCEPT ![s] = t]
  BY DEF MarkConnected
<1>5. Bounded(t)
  <2>1. Bounded(Looked(s)) /\ Bounded([sessions[s] EXCEPT !.ever_connected = TRUE])
    BY <1>1, LookedBounded DEF ClientInv, Types
  <2> QED  BY <2>1
<1>6. r.client = q.client /\ r.code = code /\ r.state = q.state
  BY <1>1 DEF SocketType
<1>7. r \in SocketType
  BY <1>1, <1>2 DEF SocketType
<1>8. UNCHANGED <<hook, clients, starts>> /\ drops' \in 0..MaxDrops
  BY DEF MarkConnected, ClientInv, Types, HookOK
<1> HIDE DEF r, code, pc, t
<1> QED  BY <1>2, <1>3, <1>4, <1>5, <1>6, <1>7, <1>8, ServerKeeps

LEMMA ReceiveKeeps ==
    ASSUME ClientInv, NEW k \in DOMAIN sockets, NEW late \in BOOLEAN, Receive(k, late)
    PROVE  ClientInv'
<1> DEFINE q == sockets[k]
           s == SessionOf(k)
           r == [q EXCEPT !.frames = Tail(q.frames)]
           t == Ingested(s, Head(q.frames), late)
<1>1. q \in SocketType /\ q.code # "caller" /\ s \in DOMAIN sessions
  BY SocketOf
<1>2. q.frames \in Seq(Frames) /\ q.frames # <<>>
  BY <1>1 DEF SocketType, Receive
<1>3. Head(q.frames) \in Frames /\ Tail(q.frames) \in Seq(Frames)
  BY <1>2
<1>4. sockets' = [sockets EXCEPT ![k] = r]
  BY DEF Receive
<1>5. sessions' = [sessions EXCEPT ![s] = t]
  BY DEF Receive
<1>6. Bounded(t)
  BY <1>1, <1>3, IngestedBounded DEF ClientInv, Types
<1>7. r.client = q.client /\ r.code = q.code /\ r.state = q.state /\ r \in SocketType
  BY <1>1, <1>3 DEF SocketType
<1>8. UNCHANGED <<hook, clients, starts>> /\ drops' \in 0..MaxDrops
  BY DEF Receive, ClientInv, Types, HookOK
<1> HIDE DEF r, t
<1> QED  BY <1>1, <1>4, <1>5, <1>6, <1>7, <1>8, ServerKeeps

\* Only a socket changes.
LEMMA SocketKeeps ==
    ASSUME ClientInv, NEW k \in DOMAIN sockets, NEW r \in SocketType,
           sockets' = [sockets EXCEPT ![k] = r],
           r.client = sockets[k].client, r.code # "caller", r.state = sockets[k].state,
           UNCHANGED <<phase, connection, pending, clientRef, clients, sessions>>, HookOK'
    PROVE  ClientInv'
<1>1. SocketsOK' /\ Links'
  BY SocketMoves DEF ClientInv
<1>2. ClientsOK' /\ SessionsOK'
  BY DEF ClientInv, Types, ClientsOK, SessionsOK
<1> QED  BY <1>1, <1>2 DEF ClientInv, Types

LEMMA NoticeDisconnectKeeps ==
    ASSUME ClientInv, NEW k \in DOMAIN sockets, NoticeDisconnect(k)
    PROVE  ClientInv'
<1> DEFINE q == sockets[k]
           r == [q EXCEPT !.pc = "gone"]
<1>1. q \in SocketType /\ q.code # "caller"
  BY SocketOf
<1>2. r.client = q.client /\ r.code = q.code /\ r.state = q.state /\ r \in SocketType
  BY <1>1 DEF SocketType
<1>3. sockets' = [sockets EXCEPT ![k] = r]
  BY DEF NoticeDisconnect
<1>4. UNCHANGED <<phase, connection, pending, clientRef, clients, sessions>> /\ HookOK'
  BY DEF NoticeDisconnect, hook, ClientInv, Types, HookOK
<1> HIDE DEF r
<1> QED  BY <1>1, <1>2, <1>3, <1>4, SocketKeeps

LEMMA DropKeeps ==
    ASSUME ClientInv, NEW k \in DOMAIN sockets, NEW n \in 0..Len(sockets[k].frames), Drop(k, n),
           MaxDrops \in Nat
    PROVE  ClientInv'
<1> DEFINE q == sockets[k]
           lost == {q.frames[i].seq : i \in (n + 1)..Len(q.frames)}
           r == [q EXCEPT !.code = "dropped", !.frames = SubSeq(q.frames, 1, n), !.lost = lost]
<1>1. q \in SocketType
  BY SocketOf
<1>2. q.frames \in Seq(Frames) /\ n \in Nat /\ n <= Len(q.frames) /\ Len(q.frames) \in Nat
  BY <1>1 DEF SocketType
<1>3. SubSeq(q.frames, 1, n) \in Seq(Frames)
  BY <1>2
<1>4. lost \in SUBSET Nat
  <2>1. \A i \in (n + 1)..Len(q.frames) : q.frames[i] \in Frames
    BY <1>2
  <2> QED  BY <2>1 DEF Frames
<1>5. "dropped" \in Codes
  BY DEF Codes
<1>6. r.client = q.client /\ r.code = "dropped" /\ r.state = q.state
  BY <1>1 DEF SocketType
<1>7. r \in SocketType
  BY <1>1, <1>3, <1>4, <1>5 DEF SocketType
<1>8. sockets' = [sockets EXCEPT ![k] = r]
  BY DEF Drop
<1>9. UNCHANGED <<phase, connection, pending, clientRef, clients, sessions>>
  BY DEF Drop, hook
<1>10. HookOK'
  BY DEF Drop, hook, ClientInv, Types, HookOK
<1> HIDE DEF r
<1> QED  BY <1>6, <1>7, <1>8, <1>9, <1>10, SocketKeeps

-----------------------------------------------------------------------------
(* Sending *)

\* Nothing changes but the hook's counters.
LEMMA HookKeeps ==
    ASSUME ClientInv, HookOK',
           UNCHANGED <<phase, connection, pending, clientRef, clients, sockets, sessions>>
    PROVE  ClientInv'
<1>1. ClientsOK' /\ SocketsOK' /\ SessionsOK'
  BY DEF ClientInv, Types, ClientsOK, SocketsOK, SessionsOK
<1>2. Quiet
  BY DEF Quiet, ClientInv, Links, OneSocket
<1> QED  BY <1>1, <1>2, QuietKeepsLinks DEF ClientInv, Types

LEMMA SendKeeps ==
    ASSUME ClientInv, NEW isDemo \in BOOLEAN, SendChunk(isDemo), demo' \in 0..DemoChunks,
           UNCHANGED <<phase, connection, pending, clientRef, clients, sessions, starts, drops>>
    PROVE  ClientInv'
<1>1. nextSeq \in Nat /\ nextSeq' = nextSeq + 1
  BY DEF SendChunk, ClientInv, Types, HookOK
<1>2. CASE ~Sendable
  <2>1. refused' = refused \cup {nextSeq} /\ UNCHANGED sockets
    BY <1>2 DEF SendChunk
  <2>2. HookOK'
    BY <1>1, <2>1 DEF ClientInv, Types, HookOK
  <2> QED  BY <2>1, <2>2, HookKeeps
<1>3. CASE Sendable
  <2> DEFINE k == clients[clientRef].socket
             q == sockets[k]
             sent == [q EXCEPT !.frames = Append(q.frames, [seq |-> nextSeq, demo |-> isDemo])]
             lost == [q EXCEPT !.lost = q.lost \cup {nextSeq}]
  <2>1. UNCHANGED refused
    BY <1>3 DEF SendChunk
  <2>2. HookOK'
    BY <1>1, <2>1 DEF ClientInv, Types, HookOK
  <2>3. sockets' = [sockets EXCEPT ![k] = sent] \/ sockets' = [sockets EXCEPT ![k] = lost]
    <3>1. CASE q.code = None
      BY <1>3, <3>1 DEF SendChunk
    <3>2. CASE q.code # None
      BY <1>3, <3>2 DEF SendChunk
    <3> QED  BY <3>1, <3>2
  <2>4. CASE k \notin DOMAIN sockets
    <3>1. sockets \in Seq(SocketType)
      BY DEF ClientInv, Types, SocketsOK
    <3> HIDE DEF k, sent, lost
    <3>2. UNCHANGED sockets
      BY <2>3, <2>4, <3>1
    <3> QED  BY <2>1, <2>2, <3>2, HookKeeps
  <2>5. CASE k \in DOMAIN sockets
    <3>1. q \in SocketType /\ q.code # "caller"
      BY <2>5, SocketOf
    <3>2. /\ sent.client = q.client /\ sent.code = q.code /\ sent.state = q.state
          /\ lost.client = q.client /\ lost.code = q.code /\ lost.state = q.state
      BY <3>1 DEF SocketType
    <3>3. sent \in SocketType
      <4>1. [seq |-> nextSeq, demo |-> isDemo] \in Frames /\ q.frames \in Seq(Frames)
        BY <1>1, <3>1 DEF SocketType, Frames
      <4>2. Append(q.frames, [seq |-> nextSeq, demo |-> isDemo]) \in Seq(Frames)
        BY <4>1
      <4> QED  BY <3>1, <4>2 DEF SocketType
    <3>4. lost \in SocketType
      BY <1>1, <3>1 DEF SocketType
    <3> HIDE DEF sent, lost, k
    <3> QED  BY <2>2, <2>3, <2>5, <3>1, <3>2, <3>3, <3>4, SocketKeeps
  <2> QED  BY <2>4, <2>5
<1> QED  BY <1>2, <1>3

LEMMA SendManualKeeps ==
    ASSUME ClientInv, SendManual
    PROVE  ClientInv'
<1>1. demo' \in 0..DemoChunks
  BY DEF SendManual, ClientInv, Types, HookOK
<1> QED  BY <1>1, SendKeeps DEF SendManual

LEMMA SendDemoKeeps ==
    ASSUME ClientInv, SendDemo, DemoChunks \in Nat
    PROVE  ClientInv'
<1>1. demo' \in 0..DemoChunks
  BY DEF SendDemo, ClientInv, Types, HookOK
<1> QED  BY <1>1, SendKeeps DEF SendDemo

LEMMA StartDemoKeeps ==
    ASSUME ClientInv, StartDemo, DemoChunks \in Nat
    PROVE  ClientInv'
<1>1. HookOK'
  BY DEF StartDemo, ClientInv, Types, HookOK
<1> QED  BY <1>1, HookKeeps DEF StartDemo

-----------------------------------------------------------------------------
(* Connecting *)

\* A client with a socket or a timer is the hook's.
LEMMA LiveIsTheHooks ==
    ASSUME ClientInv, NEW c \in DOMAIN clients, Live(c)
    PROVE  /\ ~NoClient /\ c = clientRef /\ ~clients[c].closedByCaller
           /\ pending = 0 /\ phase \in {"connecting", "ready"}
           /\ \A d \in DOMAIN clients : Live(d) => d = c
<1>1. ~NoClient
  BY DEF ClientInv, Links, Calm
<1>2. /\ c = clientRef /\ ~clients[c].closedByCaller
      /\ \A d \in DOMAIN clients : Live(d) => d = c
  BY <1>1 DEF ClientInv, Links, Followed
<1>3. pending = 0 /\ phase \in {"connecting", "ready"}
  BY <1>1 DEF ClientInv, Links, Calm, Types, HookOK, NoClient
<1> QED  BY <1>1, <1>2, <1>3

LEMMA ConnectedIsLive ==
    ASSUME ClientInv, NEW k \in DOMAIN sockets, sockets[k].state # "closed"
    PROVE  LET c == sockets[k].client
           IN  /\ c \in DOMAIN clients /\ Live(c) /\ clients[c].socket = k /\ ~clients[c].reconnectTimer
               /\ \A i \in DOMAIN sockets \ {k} :
                     sockets[i].client = c => sockets[i].state = "closed"
<1> DEFINE c == sockets[k].client
<1>1. c \in DOMAIN clients
  BY SocketOf
<1>2. /\ sockets[k].code # "caller" /\ clients[c].socket = k /\ ~clients[c].reconnectTimer
      /\ \A i \in DOMAIN sockets : sockets[i].state # "closed" => clients[sockets[i].client].socket = i
  BY DEF ClientInv, Links, OneSocket
<1>3. Live(c)
  BY <1>2 DEF Live
<1> QED  BY <1>1, <1>2, <1>3

LEMMA OnOpenKeeps ==
    ASSUME ClientInv, NEW k \in DOMAIN sockets, OnOpen(k)
    PROVE  ClientInv'
<1> DEFINE q == sockets[k]
           c == q.client
           r == [q EXCEPT !.state = "open"]
           d == [clients[c] EXCEPT !.hasConnectedOnce = TRUE]
<1>1. q \in SocketType /\ q.code # "caller" /\ q.state = "accepted"
  BY SocketOf DEF OnOpen
<1>2. /\ c \in DOMAIN clients /\ Live(c) /\ clients[c].socket = k /\ ~clients[c].reconnectTimer
  BY <1>1, ConnectedIsLive
<1>3. /\ ~NoClient /\ c = clientRef /\ ~clients[c].closedByCaller /\ pending = 0
      /\ \A e \in DOMAIN clients : Live(e) => e = c
  BY <1>2, LiveIsTheHooks
<1>4. r.client = c /\ r.code = q.code /\ r.state = "open" /\ r \in SocketType
  BY <1>1 DEF SocketType
<1>5. clients \in Seq(ClientType) /\ clients[c] \in ClientType
  BY <1>2 DEF ClientInv, Types, ClientsOK
<1>6. /\ d \in ClientType /\ d.session = clients[c].session /\ d.socket = clients[c].socket
      /\ d.reconnectTimer = clients[c].reconnectTimer /\ d.closedByCaller = clients[c].closedByCaller
  BY <1>5 DEF ClientType
<1>7. /\ clients' = [clients EXCEPT ![c] = d] /\ sockets' = [sockets EXCEPT ![k] = r]
      /\ phase' = "ready" /\ connection' = "connected"
      /\ UNCHANGED <<pending, clientRef, nextSeq, demo, refused, sessions, starts, drops>>
  BY DEF OnOpen
<1> HIDE DEF r, d, c
<1>8. /\ clients' \in Seq(ClientType) /\ DOMAIN clients' = DOMAIN clients /\ clients'[c] = d
      /\ \A i \in DOMAIN clients \ {c} : clients'[i] = clients[i]
  BY <1>2, <1>5, <1>6, <1>7, Replaced
<1>9. /\ SocketsOK' /\ DOMAIN sockets' = DOMAIN sockets /\ sockets'[k] = r
      /\ \A i \in DOMAIN sockets \ {k} : sockets'[i] = sockets[i]
  <2>1. r.client = sockets[k].client
    BY <1>4 DEF c
  <2> QED  BY <1>4, <1>7, <1>8, <2>1, SocketReplaced DEF ClientInv, Types
<1>10. ClientsOK'
  <2>1. \A i \in DOMAIN clients : clients'[i].session = clients[i].session
    BY <1>6, <1>8
  <2> QED  BY <1>7, <1>8, <2>1 DEF ClientInv, Types, ClientsOK
<1>11. HookOK' /\ SessionsOK'
  BY <1>7, <1>8 DEF ClientInv, Types, HookOK, SessionsOK
<1>12. \A e \in DOMAIN clients : Live(e)' <=> Live(e)
  <2>1. \A e \in DOMAIN clients : clients'[e].reconnectTimer = clients[e].reconnectTimer
    BY <1>6, <1>8
  <2>2. \A i \in DOMAIN sockets : /\ sockets'[i].client = sockets[i].client
                                  /\ sockets'[i].code = sockets[i].code
                                  /\ sockets'[i].state = "closed" <=> sockets[i].state = "closed"
    BY <1>1, <1>4, <1>9 DEF c
  <2> QED  BY <1>9, <2>1, <2>2 DEF Live
<1>13. Calm'
  BY <1>3, <1>7 DEF Calm, NoClient
<1>14. Followed'
  BY <1>2, <1>3, <1>4, <1>6, <1>7, <1>8, <1>9, <1>12 DEF Followed
<1>15. OneSocket'
  <2> SUFFICES ASSUME NEW i \in DOMAIN sockets
               PROVE  /\ sockets'[i].code # "caller"
                      /\ sockets'[i].state # "closed" =>
                            /\ clients'[sockets'[i].client].socket = i
                            /\ ~clients'[sockets'[i].client].reconnectTimer
    BY <1>9 DEF OneSocket
  <2>1. CASE i = k
    BY <1>1, <1>2, <1>4, <1>6, <1>8, <1>9, <2>1
  <2>2. CASE i # k
    <3>1. sockets'[i] = sockets[i] /\ sockets[i].client \in DOMAIN clients
      BY <1>9, <2>2, SocketOf
    <3>2. /\ clients'[sockets[i].client].socket = clients[sockets[i].client].socket
          /\ clients'[sockets[i].client].reconnectTimer = clients[sockets[i].client].reconnectTimer
      BY <1>6, <1>8, <3>1
    <3> QED  BY <3>1, <3>2 DEF ClientInv, Links, OneSocket
  <2> QED  BY <2>1, <2>2
<1> QED  BY <1>9, <1>10, <1>11, <1>13, <1>14, <1>15 DEF ClientInv, Types, Links

\* The one socket of the hook's client closes: for good, or the timer is set.
LEMMA OnCloseKeeps ==
    ASSUME ClientInv, NEW k \in DOMAIN sockets, OnClose(k)
    PROVE  ClientInv'
<1> DEFINE q == sockets[k]
           c == q.client
           r == [q EXCEPT !.state = "closed"]
           d == [clients[c] EXCEPT !.reconnectTimer = TRUE]
<1>1. q \in SocketType /\ q.code # "caller" /\ q.state # "closed"
  BY SocketOf DEF OnClose
<1>2. /\ c \in DOMAIN clients /\ Live(c) /\ clients[c].socket = k /\ ~clients[c].reconnectTimer
      /\ \A i \in DOMAIN sockets \ {k} : sockets[i].client = c => sockets[i].state = "closed"
  BY <1>1, ConnectedIsLive
<1>3. /\ ~NoClient /\ c = clientRef /\ ~clients[c].closedByCaller /\ pending = 0
      /\ phase \in {"connecting", "ready"} /\ \A e \in DOMAIN clients : Live(e) => e = c
  BY <1>2, LiveIsTheHooks
<1>4. r.client = c /\ r.code = q.code /\ r.state = "closed" /\ r \in SocketType
  BY <1>1 DEF SocketType
<1>5. clients \in Seq(ClientType) /\ clients[c] \in ClientType
  BY <1>2 DEF ClientInv, Types, ClientsOK
<1>6. /\ d \in ClientType /\ d.session = clients[c].session /\ d.socket = clients[c].socket
      /\ d.reconnectTimer = TRUE /\ d.closedByCaller = clients[c].closedByCaller
  BY <1>5 DEF ClientType
<1>7. /\ sockets' = [sockets EXCEPT ![k] = r]
      /\ UNCHANGED <<pending, clientRef, nextSeq, demo, refused, sessions, starts, drops>>
      /\ \/ connection' = "disconnected" /\ phase' = "error" /\ UNCHANGED clients
         \/ /\ connection' = "reconnecting" /\ clients' = [clients EXCEPT ![c] = d]
            /\ UNCHANGED phase
  BY <1>3 DEF OnClose
<1> HIDE DEF r, d, c
<1>8. /\ clients' \in Seq(ClientType) /\ DOMAIN clients' = DOMAIN clients
      /\ clients'[c].session = clients[c].session /\ clients'[c].socket = clients[c].socket
      /\ clients'[c].closedByCaller = clients[c].closedByCaller
      /\ UNCHANGED clients \/ clients'[c].reconnectTimer = TRUE
      /\ \A i \in DOMAIN clients \ {c} : clients'[i] = clients[i]
  <2>1. CASE UNCHANGED clients
    BY <1>5, <2>1
  <2>2. CASE clients' = [clients EXCEPT ![c] = d]
    <3>1. /\ clients' \in Seq(ClientType) /\ DOMAIN clients' = DOMAIN clients /\ clients'[c] = d
          /\ \A i \in DOMAIN clients \ {c} : clients'[i] = clients[i]
      BY <1>2, <1>5, <1>6, <2>2, Replaced
    <3> QED  BY <1>6, <3>1
  <2> QED  BY <1>7, <2>1, <2>2
<1>9. /\ SocketsOK' /\ DOMAIN sockets' = DOMAIN sockets /\ sockets'[k] = r
      /\ \A i \in DOMAIN sockets \ {k} : sockets'[i] = sockets[i]
  <2>1. r.client = sockets[k].client
    BY <1>4 DEF c
  <2> QED  BY <1>4, <1>7, <1>8, <2>1, SocketReplaced DEF ClientInv, Types
<1>10. ClientsOK'
  <2>1. \A i \in DOMAIN clients : clients'[i].session = clients[i].session
    BY <1>8
  <2> QED  BY <1>7, <1>8, <2>1 DEF ClientInv, Types, ClientsOK
<1>11. HookOK' /\ SessionsOK'
  BY <1>7, <1>8 DEF ClientInv, Types, HookOK, SessionsOK
<1>12. \A i \in DOMAIN sockets : /\ sockets'[i].client = sockets[i].client
                                 /\ sockets'[i].code # "caller"
                                 /\ sockets'[i].state # "closed" =>
                                       /\ i # k /\ sockets[i].client # c
                                       /\ sockets'[i] = sockets[i] /\ sockets[i].client \in DOMAIN clients
  BY <1>1, <1>2, <1>4, <1>9, SocketOf DEF c
<1>13. \A e \in DOMAIN clients : e # c => ~Live(e)'
  <2> TAKE e \in DOMAIN clients
  <2> HAVE e # c
  <2>1. ~Live(e) /\ clients'[e] = clients[e]
    BY <1>3, <1>8
  <2> QED  BY <1>9, <1>12, <2>1 DEF Live
<1>14. OneSocket'
  <2> SUFFICES ASSUME NEW i \in DOMAIN sockets, sockets'[i].state # "closed"
               PROVE  /\ clients'[sockets'[i].client].socket = i
                      /\ ~clients'[sockets'[i].client].reconnectTimer
    BY <1>9, <1>12 DEF OneSocket
  <2>1. /\ sockets'[i] = sockets[i] /\ sockets[i].client \in DOMAIN clients /\ sockets[i].client # c
    BY <1>12
  <2>2. clients'[sockets[i].client] = clients[sockets[i].client]
    BY <1>8, <2>1
  <2> QED  BY <2>1, <2>2 DEF ClientInv, Links, OneSocket
<1>15. c' = c
  BY <1>4, <1>9 DEF c
<1>16. CASE connection' = "disconnected" /\ phase' = "error" /\ UNCHANGED clients
  <2>1. ~Live(c)'
    BY <1>2, <1>9, <1>12, <1>16, <1>15 DEF Live
  <2>2. Calm' /\ Followed'
    BY <1>3, <1>7, <1>8, <1>13, <1>16, <1>15, <2>1 DEF Calm, Followed, NoClient
  <2> QED  BY <1>9, <1>10, <1>11, <1>14, <2>2 DEF ClientInv, Types, Links
<1>17. CASE connection' = "reconnecting" /\ clients' = [clients EXCEPT ![c] = d] /\ UNCHANGED phase
  <2>1. clients'[c].reconnectTimer
    BY <1>2, <1>5, <1>6, <1>17, Replaced
  <2>2. Live(c)'
    BY <1>8, <1>2, <1>15, <2>1 DEF Live
  <2>3. Calm' /\ Followed'
    BY <1>2, <1>3, <1>7, <1>8, <1>13, <1>17, <1>15, <2>2 DEF Calm, Followed, NoClient
  <2> QED  BY <1>9, <1>10, <1>11, <1>14, <2>3 DEF ClientInv, Types, Links
<1> QED  BY <1>7, <1>16, <1>17

\* The hook's client, which has no socket left, opens another.
LEMMA ReopenKeeps ==
    ASSUME ClientInv, NEW c \in DOMAIN clients, Reopen(c)
    PROVE  ClientInv'
<1> DEFINE n == Len(sockets) + 1
           new == NewSocket(c)
           d == [clients[c] EXCEPT !.reconnectTimer = FALSE, !.socket = n]
<1>1. clients[c].reconnectTimer /\ Live(c)
  BY DEF Reopen, Live
<1>2. /\ ~NoClient /\ c = clientRef /\ ~clients[c].closedByCaller /\ pending = 0
      /\ phase \in {"connecting", "ready"} /\ \A e \in DOMAIN clients : Live(e) => e = c
  BY <1>1, LiveIsTheHooks
<1>3. \A i \in DOMAIN sockets : sockets[i].client = c => sockets[i].state = "closed"
  BY <1>1 DEF ClientInv, Links, OneSocket
<1>4. sockets \in Seq(SocketType) /\ clients \in Seq(ClientType) /\ clients[c] \in ClientType
  BY DEF ClientInv, Types, SocketsOK, ClientsOK
<1>5. new \in SocketType /\ new.client = c /\ new.state = "opening" /\ new.code = None
  <2>1. c \in Nat
    BY <1>4
  <2>2. <<>> \in Seq(Frames)
    OBVIOUS
  <2> QED  BY <2>1, <2>2 DEF NewSocket, SocketType, Codes
<1>6. /\ sockets' = Append(sockets, new) /\ clients' = [clients EXCEPT ![c] = d]
      /\ connection' \in {"reconnecting", "connecting"}
      /\ UNCHANGED <<phase, pending, clientRef, nextSeq, demo, refused, sessions, starts, drops>>
  <2>1. Len(Append(sockets, new)) = n
    BY <1>4
  <2> QED  BY <2>1 DEF Reopen, Open
<1> HIDE DEF new
<1>7. /\ sockets' \in Seq(SocketType) /\ DOMAIN sockets' = DOMAIN sockets \cup {n} /\ n \notin DOMAIN sockets
      /\ n \in Nat /\ sockets'[n] = new /\ \A i \in DOMAIN sockets : sockets'[i] = sockets[i]
  BY <1>4, <1>5, <1>6, Appended
<1> HIDE DEF n
<1>8. /\ d \in ClientType /\ d.session = clients[c].session /\ d.socket = n
      /\ d.reconnectTimer = FALSE /\ d.closedByCaller = clients[c].closedByCaller
  BY <1>4, <1>7 DEF ClientType
<1> HIDE DEF d
<1>9. /\ clients' \in Seq(ClientType) /\ DOMAIN clients' = DOMAIN clients /\ clients'[c] = d
      /\ \A i \in DOMAIN clients \ {c} : clients'[i] = clients[i]
  BY <1>4, <1>6, <1>8, Replaced
<1>10. \A i \in DOMAIN sockets : /\ sockets[i].client \in DOMAIN clients /\ sockets[i].code # "caller"
                                 /\ sockets[i].state # "closed" =>
                                       /\ sockets[i].client # c
                                       /\ clients[sockets[i].client].socket = i
                                       /\ ~clients[sockets[i].client].reconnectTimer
  BY <1>3, SocketOf DEF ClientInv, Links, OneSocket
<1>11. SocketsOK'
  BY <1>5, <1>7, <1>9, <1>10 DEF SocketsOK
<1>12. ClientsOK'
  <2>1. \A i \in DOMAIN clients : clients'[i].session = clients[i].session
    BY <1>8, <1>9
  <2> QED  BY <1>6, <1>9, <2>1 DEF ClientInv, Types, ClientsOK
<1>13. HookOK' /\ SessionsOK'
  BY <1>6, <1>9 DEF ClientInv, Types, HookOK, SessionsOK
<1>14. OneSocket'
  BY <1>5, <1>7, <1>8, <1>9, <1>10, StreamClientAssumption DEF OneSocket
<1>15. \A e \in DOMAIN clients : e # c => ~Live(e)'
  <2> TAKE e \in DOMAIN clients
  <2> HAVE e # c
  <2>1. ~Live(e) /\ clients'[e] = clients[e]
    BY <1>2, <1>9
  <2> QED  BY <1>5, <1>7, <2>1 DEF Live
<1>16. Live(c)'
  BY <1>5, <1>7, StreamClientAssumption DEF Live
<1>17. Calm' /\ Followed'
  BY <1>2, <1>6, <1>8, <1>9, <1>15, <1>16 DEF Calm, Followed, NoClient
<1> QED  BY <1>11, <1>12, <1>13, <1>14, <1>17 DEF ClientInv, Types, Links

-----------------------------------------------------------------------------
(* start() *)

\* While nothing is live every socket is closed.
LEMMA CalmIsClosed ==
    ASSUME ClientInv, NoClient
    PROVE  /\ \A c \in DOMAIN clients : ~Live(c) /\ ~clients[c].reconnectTimer
           /\ \A k \in DOMAIN sockets : sockets[k].state = "closed"
<1>1. \A c \in DOMAIN clients : ~Live(c)
  BY DEF ClientInv, Links, Calm
<1> QED  BY <1>1, ConnectedIsLive DEF Live

LEMMA StartKeeps ==
    ASSUME ClientInv, Start
    PROVE  ClientInv'
<1>1. /\ NoClient /\ phase # "creating_session" /\ Teardown
      /\ starts < MaxStarts /\ starts' = starts + 1 /\ clientRef' = None
      /\ phase' = "creating_session" /\ nextSeq' = 0 /\ refused' = {} /\ pending' = pending + 1
      /\ UNCHANGED <<connection, demo, sessions, drops>>
  BY DEF Start, Busy, NoClient, ClientInv, Types, HookOK
<1>2. pending = 0
  BY <1>1 DEF ClientInv, Links, Calm, Types, HookOK
<1>3. /\ \A c \in DOMAIN clients : ~clients[c].reconnectTimer
      /\ \A k \in DOMAIN sockets : sockets[k].state = "closed" /\ sockets[k].code # "caller"
  BY <1>1, CalmIsClosed DEF ClientInv, Links, OneSocket
<1>4. clients \in Seq(ClientType) /\ sockets \in Seq(SocketType)
  BY DEF ClientInv, Types, ClientsOK, SocketsOK
<1>5. UNCHANGED sockets
  <2>1. CASE clientRef = None
    BY <1>1, <2>1 DEF Teardown
  <2>2. CASE clientRef # None
    <3> DEFINE k == clients[clientRef].socket
    <3>1. CASE k \in DOMAIN sockets
      BY <1>1, <1>3, <2>2, <3>1 DEF Teardown
    <3>2. CASE k \notin DOMAIN sockets
      <4>1. \/ UNCHANGED sockets
            \/ sockets' = [sockets EXCEPT ![k].code = "caller"]
        BY <1>1, <2>2 DEF Teardown
      <4> HIDE DEF k
      <4> QED  BY <1>4, <3>2, <4>1
    <3> QED  BY <3>1, <3>2
  <2> QED  BY <2>1, <2>2
<1>6. /\ clients' \in Seq(ClientType) /\ DOMAIN clients' = DOMAIN clients
      /\ \A c \in DOMAIN clients : ~clients'[c].reconnectTimer /\ clients'[c].session = clients[c].session
  <2>1. CASE clientRef = None
    BY <1>1, <1>3, <1>4, <2>1 DEF Teardown
  <2>2. CASE clientRef # None
    <3> DEFINE d == [clients[clientRef] EXCEPT !.closedByCaller = TRUE, !.reconnectTimer = FALSE,
                                               !.socket = None]
    <3>1. clientRef \in DOMAIN clients
      BY <2>2 DEF ClientInv, Types, HookOK
    <3>2. clients[clientRef] \in ClientType
      BY <1>4, <3>1
    <3>3. d \in ClientType /\ ~d.reconnectTimer /\ d.session = clients[clientRef].session
      BY <3>2 DEF ClientType
    <3>4. clients' = [clients EXCEPT ![clientRef] = d]
      BY <1>1, <2>2 DEF Teardown
    <3> HIDE DEF d
    <3>5. /\ clients' \in Seq(ClientType) /\ DOMAIN clients' = DOMAIN clients /\ clients'[clientRef] = d
          /\ \A i \in DOMAIN clients \ {clientRef} : clients'[i] = clients[i]
      BY <1>4, <3>1, <3>3, <3>4, Replaced
    <3> QED  BY <1>3, <3>3, <3>5
  <2> QED  BY <2>1, <2>2
<1>7. HookOK'
  BY <1>1, <1>2, StreamClientAssumption DEF ClientInv, Types, HookOK
<1>8. ClientsOK' /\ SocketsOK' /\ SessionsOK'
  BY <1>1, <1>5, <1>6 DEF ClientInv, Types, ClientsOK, SocketsOK, SessionsOK
<1>9. \A c \in DOMAIN clients : ~Live(c)'
  BY <1>3, <1>5, <1>6 DEF Live
<1>10. Calm' /\ Followed'
  BY <1>1, <1>2, <1>6, <1>9 DEF Calm, Followed, NoClient
<1>11. OneSocket'
  BY <1>3, <1>5 DEF OneSocket
<1> QED  BY <1>7, <1>8, <1>10, <1>11 DEF ClientInv, Types, Links

LEMMA SessionCreatedKeeps ==
    ASSUME ClientInv, SessionCreated
    PROVE  ClientInv'
<1> DEFINE n == Len(clients) + 1
           m == Len(sockets) + 1
           new == NewSocket(n)
           d == [session |-> Len(sessions'), closedByCaller |-> FALSE, hasConnectedOnce |-> FALSE,
                 reconnectTimer |-> FALSE, socket |-> m]
<1>1. pending = 1 /\ phase = "creating_session" /\ NoClient
  BY DEF SessionCreated, ClientInv, Links, Calm, Types, HookOK, NoClient
<1>2. /\ \A c \in DOMAIN clients : ~clients[c].reconnectTimer
      /\ \A k \in DOMAIN sockets : sockets[k].state = "closed" /\ sockets[k].code # "caller"
  BY <1>1, CalmIsClosed DEF ClientInv, Links, OneSocket
<1>3. clients \in Seq(ClientType) /\ sockets \in Seq(SocketType)
  BY DEF ClientInv, Types, ClientsOK, SocketsOK
<1>4. /\ SessionsOK' /\ DOMAIN sessions \subseteq DOMAIN sessions' /\ Len(sessions') \in DOMAIN sessions'
      /\ Len(sessions') \in Nat
  BY SessionMade DEF SessionCreated, ClientInv, Types
<1>5. clients' = Append(clients, d)
  BY DEF SessionCreated
<1>6. n \in Nat /\ m \in Nat
  BY <1>3
<1>7. /\ d \in ClientType /\ d.session = Len(sessions') /\ ~d.closedByCaller /\ ~d.reconnectTimer
      /\ d.socket = m
  BY <1>4, <1>6 DEF ClientType
<1> HIDE DEF d
<1>8. /\ clients' \in Seq(ClientType) /\ DOMAIN clients' = DOMAIN clients \cup {n} /\ n \notin DOMAIN clients
      /\ Len(clients') = n /\ clients'[n] = d /\ \A i \in DOMAIN clients : clients'[i] = clients[i]
  BY <1>3, <1>5, <1>7, Appended
<1>9. /\ sockets' = Append(sockets, new) /\ clientRef' = n /\ phase' = "connecting"
      /\ connection' = "connecting" /\ pending' = 0
      /\ UNCHANGED <<nextSeq, demo, refused, starts, drops>>
  BY <1>1, <1>8 DEF SessionCreated
<1>10. /\ new \in SocketType /\ new.client = n /\ new.state = "opening" /\ new.code = None
  <2>1. <<>> \in Seq(Frames)
    OBVIOUS
  <2> QED  BY <1>6, <2>1 DEF NewSocket, SocketType, Codes
<1> HIDE DEF new
<1>11. /\ sockets' \in Seq(SocketType) /\ DOMAIN sockets' = DOMAIN sockets \cup {m} /\ m \notin DOMAIN sockets
       /\ sockets'[m] = new /\ \A i \in DOMAIN sockets : sockets'[i] = sockets[i]
  BY <1>3, <1>9, <1>10, Appended
<1> HIDE DEF m
<1>12. SocketsOK'
  BY <1>8, <1>10, <1>11, SocketOf DEF SocketsOK
<1>13. ClientsOK'
  <2>1. \A i \in DOMAIN clients : clients[i].session \in DOMAIN sessions'
    BY <1>4 DEF ClientInv, Types, ClientsOK
  <2> QED  BY <1>4, <1>7, <1>8, <2>1 DEF ClientsOK
<1>14. HookOK'
  BY <1>8, <1>9 DEF ClientInv, Types, HookOK
<1>15. PICK b : b = n
  OBVIOUS
<1>16. \A c \in DOMAIN clients' : c # b => ~Live(c)'
  <2> TAKE c \in DOMAIN clients'
  <2> HAVE c # b
  <2>1. c \in DOMAIN clients /\ ~clients'[c].reconnectTimer
    BY <1>2, <1>8, <1>15
  <2> QED  BY <1>2, <1>10, <1>11, <1>15, <2>1 DEF Live
<1>17. Live(b)'
  BY <1>10, <1>11, <1>15, StreamClientAssumption DEF Live
<1> HIDE DEF n
<1>18. Calm' /\ Followed'
  BY <1>7, <1>8, <1>9, <1>15, <1>16, <1>17 DEF Calm, Followed, NoClient
<1>19. OneSocket'
  BY <1>2, <1>7, <1>8, <1>10, <1>11, StreamClientAssumption DEF OneSocket
<1> QED  BY <1>4, <1>12, <1>13, <1>14, <1>18, <1>19 DEF ClientInv, Types, Links

LEMMA CreationFailsKeeps ==
    ASSUME ClientInv, NEW made \in BOOLEAN, CreationFails(made)
    PROVE  ClientInv'
<1>1. /\ pending = 1 /\ phase = "creating_session" /\ NoClient
      /\ pending' = 0 /\ phase' = "error"
      /\ UNCHANGED <<connection, clientRef, nextSeq, demo, refused, clients, sockets, starts, drops>>
  BY DEF CreationFails, ClientInv, Links, Calm, Types, HookOK, NoClient
<1>2. SessionsOK' /\ DOMAIN sessions \subseteq DOMAIN sessions'
  <2>1. CASE made
    BY <2>1, SessionMade DEF CreationFails, ClientInv, Types
  <2>2. CASE ~made
    BY <2>2 DEF CreationFails, ClientInv, Types, SessionsOK
  <2> QED  BY <2>1, <2>2
<1>3. ClientsOK'
  BY <1>1, <1>2, ClientsStay DEF ClientInv, Types
<1>4. HookOK' /\ SocketsOK'
  BY <1>1 DEF ClientInv, Types, HookOK, SocketsOK
<1>5. \A c \in DOMAIN clients : ~Live(c)'
  <2>1. \A c \in DOMAIN clients : ~Live(c)
    BY <1>1, CalmIsClosed
  <2> QED  BY <1>1, <2>1 DEF Live
<1>6. Calm' /\ Followed' /\ OneSocket'
  BY <1>1, <1>5 DEF Calm, Followed, OneSocket, NoClient, ClientInv, Links
<1> QED  BY <1>2, <1>3, <1>4, <1>6 DEF ClientInv, Types, Links

-----------------------------------------------------------------------------
(* Where every seq of the session is *)

\* The seqs a socket has still to bring to the server
Coming(q) == {q.frames[i].seq : i \in DOMAIN q.frames}

Settled(r, m) == m \in r.pending \/ (r.next # None /\ m < r.next)

\* A transcript after n chunks were sent: what is held back is behind a gap.
InOrder(r, n) ==
    /\ r.pending \subseteq 0..(n - 1)
    /\ r.next # None => r.next <= n
    /\ r.pending # {} => r.next # None
    /\ \A p \in r.pending : r.next < p

OnItsWay(s, m) ==
    \E k \in DOMAIN sockets : SessionOf(k) = s /\ m \in sockets[k].lost \cup Coming(sockets[k])

\* No seq of the session s is unaccounted for.
ChunksOf(s) ==
    /\ InOrder(sessions[s], nextSeq)
    /\ \A k \in DOMAIN sockets :
          SessionOf(k) = s => Coming(sockets[k]) \subseteq 0..(nextSeq - 1)
    /\ \A m \in 0..(nextSeq - 1) :
          m \in refused \/ Settled(sessions[s], m) \/ OnItsWay(s, m)

Chunks ==
    /\ clientRef = None => \A m \in 0..(nextSeq - 1) : m \in refused
    /\ clientRef # None => ChunksOf(clients[clientRef].session)

\* What a client sends goes to its own session, nothing is lost on a socket that
\* stands, and the demo's timers find no client while a session is being made.
OwnSocket ==
    \A c \in DOMAIN clients :
        clients[c].socket # None => /\ clients[c].socket \in DOMAIN sockets
                                    /\ sockets[clients[c].socket].client = c

NothingLostYet == \A k \in DOMAIN sockets : sockets[k].code = None => sockets[k].lost = {}

Unsent == phase = "creating_session" => clientRef = None

ChunksInv == Chunks /\ OwnSocket /\ NothingLostYet /\ Unsent

\* ingest_chunk commits or holds back the chunk it is given, and forgets none.
LEMMA IngestedSettles ==
    ASSUME SessionsOK, NEW s \in DOMAIN sessions, NEW frame \in Frames, NEW late \in BOOLEAN,
           NEW n \in Nat, InOrder(sessions[s], n), frame.seq < n
    PROVE  LET t == Ingested(s, frame, late)
           IN  /\ InOrder(t, n)
               /\ Settled(t, frame.seq)
               /\ \A m \in Nat : Settled(sessions[s], m) => Settled(t, m)
<1> DEFINE r == sessions[s]
           next == IF r.next = None THEN frame.seq ELSE r.next
           held == r.pending \cup {frame.seq}
           run == RunFrom(next, held)
           t == Ingested(s, frame, late)
<1>1. /\ r \in SessionType /\ frame.seq \in Nat /\ None \notin Nat
      /\ r.next \in Nat \cup {None} /\ r.pending \in SUBSET Nat
  <2>1. r \in SessionType
    BY DEF SessionsOK
  <2>2. r.next \in Nat \cup {None} /\ r.pending \in SUBSET Nat
    BY <2>1 DEF SessionType
  <2>3. frame.seq \in Nat /\ None \notin Nat
    BY StreamClientAssumption DEF Frames
  <2> QED  BY <2>1, <2>2, <2>3
<1>2. next \in Nat /\ next <= n /\ next # None
  BY <1>1 DEF InOrder
<1>3. /\ held \in SUBSET (0..(n - 1)) /\ frame.seq \in held /\ n - 1 \in Nat
      /\ \A m \in held : m \in Nat /\ m < n
  BY <1>1 DEF InOrder
<1>4. \A p \in r.pending : r.next # None /\ r.next < p /\ next = r.next
  BY DEF InOrder
<1>5. \A m \in Nat : Settled(r, m) => m \in r.pending \/ (m < next /\ r.next = next)
  BY DEF Settled
<1> HIDE DEF next, held
<1>6. CASE frame.seq < next
  <2>1. t = [r EXCEPT !.next = next]
    BY <1>6 DEF Ingested, next
  <2>2. t.next = next /\ t.pending = r.pending
    BY <1>1, <2>1 DEF SessionType
  <2> HIDE DEF t
  <2>3. InOrder(t, n)
    BY <1>2, <1>4, <2>2 DEF InOrder
  <2>4. Settled(t, frame.seq) /\ \A m \in Nat : Settled(r, m) => Settled(t, m)
    BY <1>2, <1>5, <1>6, <2>2 DEF Settled
  <2> QED  BY <2>3, <2>4 DEF t
<1>7. CASE ~(frame.seq < next) /\ frame.seq = next
  <2> DEFINE top == Max(run)
  <2>1. t = [r EXCEPT !.next = top + 1, !.pending = held \ run]
    BY <1>7 DEF Ingested, next, held, run
  <2>2. t.next = top + 1 /\ t.pending = held \ run
    BY <1>1, <2>1 DEF SessionType
  <2> HIDE DEF t
  <2>3. frame.seq \in run /\ run \subseteq held
    <3>1. frame.seq..frame.seq = {frame.seq}
      BY <1>1
    <3> QED  BY <1>1, <1>3, <1>7, <3>1 DEF RunFrom
  <2>4. top \in run /\ \A x \in run : top >= x
    <3>1. run \in SUBSET (0..(n - 1)) /\ run # {}
      BY <1>3, <2>3
    <3> QED  BY <1>3, <3>1, LargestOne
  <2>5. top \in held /\ top \in Nat /\ top < n /\ next <= top /\ next..top \subseteq held
    BY <1>3, <2>3, <2>4 DEF RunFrom
  <2> HIDE DEF top
  <2>6. \A p \in held \ run : top + 1 < p
    <3> TAKE p \in held \ run
    <3>1. p \in Nat /\ next <= p
      BY <1>2, <1>3, <1>4, <1>7 DEF held
    <3>2. ~(next..p \subseteq held)
      BY <3>1 DEF RunFrom
    <3>3. ASSUME p <= top + 1 PROVE FALSE
      <4>1. \A x \in next..p : x \in next..top \/ x = p
        BY <1>2, <2>5, <3>1, <3>3
      <4> QED  BY <2>5, <3>2, <4>1
    <3> QED  BY <2>5, <3>1, <3>3
  <2>7. top + 1 # None
    BY <1>1, <2>5
  <2>8. InOrder(t, n)
    <3>1. held \ run \subseteq 0..(n - 1)
      BY <1>3
    <3>2. top + 1 <= n
      BY <2>5
    <3> QED  BY <2>2, <2>6, <2>7, <3>1, <3>2 DEF InOrder
  <2>9. \A m \in held : Settled(t, m)
    <3> TAKE m \in held
    <3>1. CASE m \in run
      <4>1. m \in Nat /\ m < top + 1
        BY <1>3, <2>4, <2>5, <3>1
      <4> QED  BY <2>2, <2>7, <4>1 DEF Settled
    <3>2. CASE m \notin run
      BY <2>2, <3>2 DEF Settled
    <3> QED  BY <3>1, <3>2
  <2>10. \A m \in Nat : m < next => Settled(t, m)
    BY <1>2, <2>2, <2>5, <2>7 DEF Settled
  <2>11. \A m \in Nat : Settled(r, m) => Settled(t, m)
    BY <1>5, <2>9, <2>10 DEF held
  <2> QED  BY <1>3, <2>8, <2>9, <2>11 DEF t
<1>8. CASE ~(frame.seq < next) /\ frame.seq # next /\ frame.demo /\ late
  <2> DEFINE top == Max(held)
  <2>1. t = [r EXCEPT !.next = top + 1, !.pending = {}]
    BY <1>8 DEF Ingested, next, held
  <2>2. t.next = top + 1 /\ t.pending = {}
    BY <1>1, <2>1 DEF SessionType
  <2> HIDE DEF t
  <2>3. top \in held /\ \A x \in held : top >= x
    BY <1>3, LargestOne
  <2> HIDE DEF top
  <2>4. top \in Nat /\ top < n /\ next < top + 1 /\ top + 1 # None
    BY <1>1, <1>2, <1>3, <1>8, <2>3
  <2>5. InOrder(t, n)
    BY <2>2, <2>4 DEF InOrder
  <2>6. \A m \in Nat : m \in held \/ m < next => Settled(t, m)
    BY <1>2, <1>3, <2>2, <2>3, <2>4 DEF Settled
  <2>7. \A m \in Nat : Settled(r, m) => Settled(t, m)
    BY <1>5, <2>6 DEF held
  <2> QED  BY <1>1, <1>3, <2>5, <2>6, <2>7 DEF t
<1>9. CASE ~(frame.seq < next) /\ frame.seq # next /\ ~(frame.demo /\ late)
  <2>1. t = [r EXCEPT !.next = next, !.pending = held]
    BY <1>9 DEF Ingested, next, held
  <2>2. t.next = next /\ t.pending = held
    BY <1>1, <2>1 DEF SessionType
  <2> HIDE DEF t
  <2>3. \A p \in held : next < p
    BY <1>1, <1>2, <1>4, <1>9 DEF held
  <2>4. InOrder(t, n)
    BY <1>2, <1>3, <2>2, <2>3 DEF InOrder
  <2>5. \A m \in Nat : Settled(r, m) => Settled(t, m)
    BY <1>2, <1>5, <2>2 DEF Settled, held
  <2>6. Settled(t, frame.seq)
    BY <1>3, <2>2 DEF Settled
  <2> QED  BY <2>4, <2>5, <2>6 DEF t
<1> QED  BY <1>6, <1>7, <1>8, <1>9

\* A step that sends nothing new and starts no session keeps track of every seq.
LEMMA ChunksStay ==
    ASSUME Types, Chunks, UNCHANGED <<clientRef, nextSeq, refused>>,
           \A c \in DOMAIN clients : clients'[c].session = clients[c].session,
           \A k \in DOMAIN sockets : /\ k \in DOMAIN sockets' /\ sockets'[k].client = sockets[k].client
                                     /\ Coming(sockets'[k]) \subseteq Coming(sockets[k]),
           \A k \in DOMAIN sockets' \ DOMAIN sockets : Coming(sockets'[k]) = {},
           \A c \in DOMAIN clients : c = clientRef =>
              LET s == clients[c].session
              IN  /\ InOrder(sessions'[s], nextSeq)
                  /\ \A m \in Nat : Settled(sessions[s], m) => Settled(sessions'[s], m)
                  /\ \A k \in DOMAIN sockets : \A m \in sockets[k].lost \cup Coming(sockets[k]) :
                        SessionOf(k) = s =>
                            m \in sockets'[k].lost \cup Coming(sockets'[k]) \/ Settled(sessions'[s], m)
    PROVE  Chunks'
<1>1. CASE clientRef = None
  BY <1>1 DEF Chunks
<1>2. CASE clientRef # None
  <2> DEFINE s == clients[clientRef].session
  <2>1. clientRef \in DOMAIN clients
    BY <1>2 DEF Types, HookOK
  <2>2. clients'[clientRef].session = s /\ ChunksOf(s) /\ nextSeq \in Nat
    BY <1>2, <2>1 DEF Chunks, Types, HookOK
  <2>3. /\ InOrder(sessions'[s], nextSeq)
        /\ \A m \in Nat : Settled(sessions[s], m) => Settled(sessions'[s], m)
        /\ \A k \in DOMAIN sockets : \A m \in sockets[k].lost \cup Coming(sockets[k]) :
              SessionOf(k) = s =>
                  m \in sockets'[k].lost \cup Coming(sockets'[k]) \/ Settled(sessions'[s], m)
    BY <2>1
  <2>4. \A k \in DOMAIN sockets : /\ clients'[sockets'[k].client].session = SessionOf(k)
                                  /\ k \in DOMAIN sockets' 
                                  /\ Coming(sockets'[k]) \subseteq Coming(sockets[k])
    BY DEF Types, SocketsOK, SessionOf
  <2> HIDE DEF s
  <2>5. \A k \in DOMAIN sockets' :
           clients'[sockets'[k].client].session = s => Coming(sockets'[k]) \subseteq 0..(nextSeq - 1)
    <3> TAKE k \in DOMAIN sockets'
    <3> HAVE clients'[sockets'[k].client].session = s
    <3>1. CASE k \in DOMAIN sockets
      BY <2>2, <2>4, <3>1 DEF ChunksOf
    <3>2. CASE k \notin DOMAIN sockets
      BY <3>2
    <3> QED  BY <3>1, <3>2
  <2>6. \A m \in 0..(nextSeq - 1) :
           \/ m \in refused \/ Settled(sessions'[s], m)
           \/ \E k \in DOMAIN sockets' : /\ clients'[sockets'[k].client].session = s
                                         /\ m \in sockets'[k].lost \cup Coming(sockets'[k])
    <3> TAKE m \in 0..(nextSeq - 1)
    <3>1. m \in refused \/ Settled(sessions[s], m) \/ OnItsWay(s, m)
      BY <2>2 DEF ChunksOf
    <3>2. CASE Settled(sessions[s], m)
      BY <2>2, <2>3, <3>2
    <3>3. CASE OnItsWay(s, m)
      <4> PICK k \in DOMAIN sockets : SessionOf(k) = s /\ m \in sockets[k].lost \cup Coming(sockets[k])
        BY <3>3 DEF OnItsWay
      <4> QED  BY <2>3, <2>4
    <3> QED  BY <3>1, <3>2, <3>3
  <2>7. ChunksOf(clients[clientRef].session)'
    BY <2>2, <2>3, <2>5, <2>6 DEF ChunksOf, OnItsWay, SessionOf
  <2> QED  BY <1>2, <2>7 DEF Chunks
<1> QED  BY <1>1, <1>2

\* Sockets and records change, but nothing in them that the chunks depend on.
Steady ==
    /\ UNCHANGED <<clientRef, nextSeq, refused>>
    /\ phase' = "creating_session" => phase = "creating_session"
    /\ DOMAIN clients' = DOMAIN clients
    /\ \A c \in DOMAIN clients : /\ clients'[c].session = clients[c].session
                                 /\ clients'[c].socket = clients[c].socket
    /\ DOMAIN sockets' = DOMAIN sockets
    /\ \A k \in DOMAIN sockets : /\ sockets'[k].client = sockets[k].client
                                 /\ sockets'[k].frames = sockets[k].frames
                                 /\ sockets'[k].lost = sockets[k].lost
                                 /\ sockets'[k].code = None => sockets[k].code = None
    /\ \A s \in DOMAIN sessions : /\ sessions'[s].next = sessions[s].next
                                  /\ sessions'[s].pending = sessions[s].pending

LEMMA SteadyKeeps ==
    ASSUME Types, ChunksInv, Steady
    PROVE  ChunksInv'
<1>1. OwnSocket' /\ NothingLostYet' /\ Unsent'
  <2>1. OwnSocket'
    BY DEF ChunksInv, OwnSocket, Steady
  <2>2. NothingLostYet'
    BY DEF ChunksInv, NothingLostYet, Steady
  <2>3. Unsent'
    BY DEF ChunksInv, Unsent, Steady
  <2> QED  BY <2>1, <2>2, <2>3
<1>2. \A k \in DOMAIN sockets : Coming(sockets'[k]) = Coming(sockets[k])
  BY DEF Coming, Steady
<1>3. ASSUME NEW c \in DOMAIN clients, c = clientRef
      PROVE  LET s == clients[c].session
             IN  /\ InOrder(sessions'[s], nextSeq)
                 /\ \A m \in Nat : Settled(sessions[s], m) => Settled(sessions'[s], m)
  <2> DEFINE s == clients[c].session
  <2>1. s \in DOMAIN sessions
    BY DEF Types, ClientsOK
  <2>2. sessions'[s].next = sessions[s].next /\ sessions'[s].pending = sessions[s].pending
    BY <2>1 DEF Steady
  <2>3. InOrder(sessions[s], nextSeq)
    <3>1. c # None
      <4>1. clients \in Seq(ClientType)
        BY DEF Types, ClientsOK
      <4>2. c \in Nat
        BY <4>1
      <4> QED  BY <4>2, StreamClientAssumption
    <3> QED  BY <1>3, <3>1 DEF ChunksInv, Chunks, ChunksOf
  <2> HIDE DEF s
  <2> QED  BY <2>2, <2>3 DEF InOrder, Settled, s
<1>4. Chunks'
  BY <1>2, <1>3, ChunksStay DEF ChunksInv, Steady
<1> QED  BY <1>1, <1>4 DEF ChunksInv

\* One socket moves on with what it carries, and one record keeps its transcript.
LEMMA SteadySocket ==
    ASSUME SocketsOK, NEW k \in DOMAIN sockets, NEW r \in SocketType, sockets' = [sockets EXCEPT ![k] = r],
           r.client = sockets[k].client, r.frames = sockets[k].frames, r.lost = sockets[k].lost,
           r.code = None => sockets[k].code = None
    PROVE  /\ DOMAIN sockets' = DOMAIN sockets
           /\ \A i \in DOMAIN sockets : /\ sockets'[i].client = sockets[i].client
                                        /\ sockets'[i].frames = sockets[i].frames
                                        /\ sockets'[i].lost = sockets[i].lost
                                        /\ sockets'[i].code = None => sockets[i].code = None
<1>1. /\ DOMAIN sockets' = DOMAIN sockets /\ sockets'[k] = r
      /\ \A i \in DOMAIN sockets \ {k} : sockets'[i] = sockets[i]
  BY Replaced DEF SocketsOK
<1> QED  BY <1>1

LEMMA SteadyRecord ==
    ASSUME SessionsOK, NEW s \in DOMAIN sessions, NEW r \in SessionType,
           sessions' = [sessions EXCEPT ![s] = r],
           r.next = sessions[s].next, r.pending = sessions[s].pending
    PROVE  \A i \in DOMAIN sessions : /\ sessions'[i].next = sessions[i].next
                                      /\ sessions'[i].pending = sessions[i].pending
<1>1. /\ sessions'[s] = r /\ \A i \in DOMAIN sessions \ {s} : sessions'[i] = sessions[i]
  BY Replaced DEF SessionsOK
<1> QED  BY <1>1

LEMMA LookedSteady ==
    ASSUME SessionsOK, NEW s \in DOMAIN sessions
    PROVE  /\ Looked(s) \in SessionType
           /\ Looked(s).next = sessions[s].next /\ Looked(s).pending = sessions[s].pending
           /\ LET r == [sessions[s] EXCEPT !.ever_connected = TRUE]
              IN  r \in SessionType /\ r.next = sessions[s].next /\ r.pending = sessions[s].pending
           /\ LET r == [sessions[s] EXCEPT !.old = TRUE]
              IN  r \in SessionType /\ r.next = sessions[s].next /\ r.pending = sessions[s].pending
<1>1. sessions[s] \in SessionType
  BY DEF SessionsOK
<1> QED  BY <1>1 DEF SessionType, Looked

LEMMA StoreKeepsChunks ==
    ASSUME ClientInv, ChunksInv, NEW s \in DOMAIN sessions, GrowOld(s) \/ GetSession(s)
    PROVE  ChunksInv'
<1>1. \A i \in DOMAIN sessions : /\ sessions'[i].next = sessions[i].next
                                 /\ sessions'[i].pending = sessions[i].pending
  <2>1. CASE GrowOld(s)
    <3>1. sessions' = [sessions EXCEPT ![s] = [sessions[s] EXCEPT !.old = TRUE]]
      BY <2>1 DEF GrowOld
    <3> QED  BY <3>1, LookedSteady, SteadyRecord DEF ClientInv, Types
  <2>2. CASE GetSession(s)
    <3>1. sessions' = [sessions EXCEPT ![s] = Looked(s)]
      BY <2>2 DEF GetSession
    <3> QED  BY <3>1, LookedSteady, SteadyRecord DEF ClientInv, Types
  <2> QED  BY <2>1, <2>2
<1>2. UNCHANGED <<hook, clients, sockets>>
  BY DEF GrowOld, GetSession
<1>3. Steady
  BY <1>1, <1>2 DEF Steady, hook
<1> QED  BY <1>3, SteadyKeeps DEF ClientInv

LEMMA HandshakeKeepsChunks ==
    ASSUME ClientInv, ChunksInv, NEW k \in DOMAIN sockets, Handshake(k)
    PROVE  ChunksInv'
<1> DEFINE q == sockets[k]
           s == SessionOf(k)
           state == IF q.state = "opening" THEN "accepted" ELSE q.state
           pc == IF Usable(s) THEN "accepted" ELSE "gone"
           code == IF Usable(s) \/ q.code # None THEN q.code ELSE "unknown_session"
           r == [q EXCEPT !.state = state, !.pc = pc, !.code = code]
<1>1. q \in SocketType /\ q.code \in Codes \ {"caller"} /\ s \in DOMAIN sessions
  BY SocketOf
<1>2. /\ state \in {"opening", "accepted", "open", "closed"}
      /\ pc \in {"handshake", "accepted", "receiving", "gone"} /\ code \in Codes
  BY <1>1 DEF SocketType, Codes
<1>3. sockets' = [sockets EXCEPT ![k] = r] /\ sessions' = [sessions EXCEPT ![s] = Looked(s)]
  BY DEF Handshake
<1>4. /\ r \in SocketType /\ r.client = q.client /\ r.frames = q.frames /\ r.lost = q.lost
      /\ r.code = code
  BY <1>1, <1>2 DEF SocketType
<1>5. code = None => q.code = None
  OBVIOUS
<1>6. UNCHANGED <<hook, clients>>
  BY DEF Handshake
<1> HIDE DEF r, code, state, pc
<1>7. /\ DOMAIN sockets' = DOMAIN sockets
      /\ \A i \in DOMAIN sockets : /\ sockets'[i].client = sockets[i].client
                                   /\ sockets'[i].frames = sockets[i].frames
                                   /\ sockets'[i].lost = sockets[i].lost
                                   /\ sockets'[i].code = None => sockets[i].code = None
  BY <1>3, <1>4, <1>5, SteadySocket DEF ClientInv, Types
<1>8. \A i \in DOMAIN sessions : /\ sessions'[i].next = sessions[i].next
                                 /\ sessions'[i].pending = sessions[i].pending
  BY <1>1, <1>3, LookedSteady, SteadyRecord DEF ClientInv, Types
<1>9. Steady
  BY <1>6, <1>7, <1>8 DEF Steady, hook
<1> QED  BY <1>9, SteadyKeeps DEF ClientInv

LEMMA MarkConnectedKeepsChunks ==
    ASSUME ClientInv, ChunksInv, NEW k \in DOMAIN sockets, MarkConnected(k)
    PROVE  ChunksInv'
<1> DEFINE q == sockets[k]
           s == SessionOf(k)
           pc == IF Usable(s) THEN "receiving" ELSE "gone"
           code == IF Usable(s) \/ q.code # None THEN q.code ELSE "server_error"
           r == [q EXCEPT !.pc = pc, !.code = code]
           t == IF Usable(s) THEN [sessions[s] EXCEPT !.ever_connected = TRUE] ELSE Looked(s)
<1>1. q \in SocketType /\ q.code \in Codes \ {"caller"} /\ s \in DOMAIN sessions
  BY SocketOf
<1>2. pc \in {"handshake", "accepted", "receiving", "gone"} /\ code \in Codes
  BY <1>1 DEF Codes
<1>3. sockets' = [sockets EXCEPT ![k] = r] /\ sessions' = [sessions EXCEPT ![s] = t]
  BY DEF MarkConnected
<1>4. /\ r \in SocketType /\ r.client = q.client /\ r.frames = q.frames /\ r.lost = q.lost
      /\ r.code = code
  BY <1>1, <1>2 DEF SocketType
<1>5. code = None => q.code = None
  OBVIOUS
<1>6. t \in SessionType /\ t.next = sessions[s].next /\ t.pending = sessions[s].pending
  BY <1>1, LookedSteady DEF ClientInv, Types
<1>7. UNCHANGED <<hook, clients>>
  BY DEF MarkConnected
<1> HIDE DEF r, code, pc, t
<1>8. /\ DOMAIN sockets' = DOMAIN sockets
      /\ \A i \in DOMAIN sockets : /\ sockets'[i].client = sockets[i].client
                                   /\ sockets'[i].frames = sockets[i].frames
                                   /\ sockets'[i].lost = sockets[i].lost
                                   /\ sockets'[i].code = None => sockets[i].code = None
  BY <1>3, <1>4, <1>5, SteadySocket DEF ClientInv, Types
<1>9. \A i \in DOMAIN sessions : /\ sessions'[i].next = sessions[i].next
                                 /\ sessions'[i].pending = sessions[i].pending
  BY <1>1, <1>3, <1>6, SteadyRecord DEF ClientInv, Types
<1>10. Steady
  BY <1>7, <1>8, <1>9 DEF Steady, hook
<1> QED  BY <1>10, SteadyKeeps DEF ClientInv

LEMMA NoticeDisconnectKeepsChunks ==
    ASSUME ClientInv, ChunksInv, NEW k \in DOMAIN sockets, NoticeDisconnect(k)
    PROVE  ChunksInv'
<1> DEFINE q == sockets[k]
           r == [q EXCEPT !.pc = "gone"]
<1>1. q \in SocketType
  BY SocketOf
<1>2. /\ r \in SocketType /\ r.client = q.client /\ r.frames = q.frames /\ r.lost = q.lost
      /\ r.code = q.code
  BY <1>1 DEF SocketType
<1>3. sockets' = [sockets EXCEPT ![k] = r] /\ UNCHANGED <<hook, clients, sessions>>
  BY DEF NoticeDisconnect
<1> HIDE DEF r
<1>4. /\ DOMAIN sockets' = DOMAIN sockets
      /\ \A i \in DOMAIN sockets : /\ sockets'[i].client = sockets[i].client
                                   /\ sockets'[i].frames = sockets[i].frames
                                   /\ sockets'[i].lost = sockets[i].lost
                                   /\ sockets'[i].code = None => sockets[i].code = None
  BY <1>2, <1>3, SteadySocket DEF ClientInv, Types
<1>5. Steady
  BY <1>3, <1>4 DEF Steady, hook
<1> QED  BY <1>5, SteadyKeeps DEF ClientInv

\* The browser's handlers: only whether the client was connected, and its timer
LEMMA HandlerKeepsChunks ==
    ASSUME ClientInv, ChunksInv, NEW k \in DOMAIN sockets, OnOpen(k) \/ OnClose(k)
    PROVE  ChunksInv'
<1> DEFINE q == sockets[k]
           c == q.client
           up == [q EXCEPT !.state = "open"]
           down == [q EXCEPT !.state = "closed"]
           was == [clients[c] EXCEPT !.hasConnectedOnce = TRUE]
           waits == [clients[c] EXCEPT !.reconnectTimer = TRUE]
<1>1. q \in SocketType /\ c \in DOMAIN clients
  BY SocketOf
<1>2. clients \in Seq(ClientType) /\ clients[c] \in ClientType
  BY <1>1 DEF ClientInv, Types, ClientsOK
<1>3. \A r \in {up, down} : /\ r \in SocketType /\ r.client = q.client /\ r.frames = q.frames
                            /\ r.lost = q.lost /\ r.code = q.code
  BY <1>1 DEF SocketType
<1>4. \A d \in {was, waits} : /\ d \in ClientType /\ d.session = clients[c].session
                              /\ d.socket = clients[c].socket
  BY <1>2 DEF ClientType
<1>5. PICK r \in {up, down} : sockets' = [sockets EXCEPT ![k] = r]
  BY DEF OnOpen, OnClose
<1>6. UNCHANGED clients \/ \E d \in {was, waits} : clients' = [clients EXCEPT ![c] = d]
  BY DEF OnOpen, OnClose
<1>7. UNCHANGED <<clientRef, nextSeq, refused, sessions>> /\ (phase' = phase \/ phase' \in {"ready", "error"})
  BY DEF OnOpen, OnClose
<1> HIDE DEF up, down, was, waits
<1>8. /\ DOMAIN sockets' = DOMAIN sockets
      /\ \A i \in DOMAIN sockets : /\ sockets'[i].client = sockets[i].client
                                   /\ sockets'[i].frames = sockets[i].frames
                                   /\ sockets'[i].lost = sockets[i].lost
                                   /\ sockets'[i].code = None => sockets[i].code = None
  BY <1>3, <1>5, SteadySocket DEF ClientInv, Types
<1>9. /\ DOMAIN clients' = DOMAIN clients
      /\ \A i \in DOMAIN clients : /\ clients'[i].session = clients[i].session
                                   /\ clients'[i].socket = clients[i].socket
  <2>1. CASE UNCHANGED clients
    BY <2>1
  <2>2. CASE \E d \in {was, waits} : clients' = [clients EXCEPT ![c] = d]
    <3>1. PICK d \in {was, waits} : clients' = [clients EXCEPT ![c] = d]
      BY <2>2
    <3>2. /\ DOMAIN clients' = DOMAIN clients /\ clients'[c] = d
          /\ \A i \in DOMAIN clients \ {c} : clients'[i] = clients[i]
      BY <1>1, <1>2, <1>4, <3>1, Replaced
    <3> QED  BY <1>4, <3>2
  <2> QED  BY <1>6, <2>1, <2>2
<1>10. Steady
  BY <1>7, <1>8, <1>9 DEF Steady
<1> QED  BY <1>10, SteadyKeeps DEF ClientInv

LEMMA CreationFailsKeepsChunks ==
    ASSUME ClientInv, ChunksInv, NEW made \in BOOLEAN, CreationFails(made)
    PROVE  ChunksInv'
<1>1. /\ phase' = "error"
      /\ UNCHANGED <<connection, clientRef, nextSeq, demo, refused, clients, sockets, starts, drops>>
  BY DEF CreationFails
<1>2. \A s \in DOMAIN sessions : sessions'[s] = sessions[s]
  <2>1. sessions \in Seq(SessionType) /\ NewSession \in SessionType
    BY DEF ClientInv, Types, SessionsOK, NewSession, SessionType
  <2> QED  BY <2>1, Appended DEF CreationFails
<1>3. Steady
  BY <1>1, <1>2 DEF Steady
<1> QED  BY <1>3, SteadyKeeps DEF ClientInv

LEMMA StartDemoKeepsChunks ==
    ASSUME ClientInv, ChunksInv, StartDemo
    PROVE  ChunksInv'
<1>1. Steady
  BY DEF StartDemo, Steady
<1> QED  BY <1>1, SteadyKeeps DEF ClientInv

\* The server takes the first frame: its seq is settled, the others are still coming.
LEMMA ReceiveKeepsChunks ==
    ASSUME ClientInv, ChunksInv, NEW k \in DOMAIN sockets, NEW late \in BOOLEAN, Receive(k, late)
    PROVE  ChunksInv'
<1> DEFINE q == sockets[k]
           s == SessionOf(k)
           head == Head(q.frames)
           r == [q EXCEPT !.frames = Tail(q.frames)]
           t == Ingested(s, head, late)
<1>1. q \in SocketType /\ s \in DOMAIN sessions
  BY SocketOf
<1>2. q.frames \in Seq(Frames) /\ q.frames # <<>> /\ head \in Frames /\ Tail(q.frames) \in Seq(Frames)
  <2>1. q.frames \in Seq(Frames) /\ q.frames # <<>>
    BY <1>1 DEF SocketType, Receive
  <2> QED  BY <2>1
<1>3. /\ sockets' = [sockets EXCEPT ![k] = r] /\ sessions' = [sessions EXCEPT ![s] = t]
      /\ UNCHANGED <<hook, clients>>
  BY DEF Receive
<1>4. /\ r \in SocketType /\ r.client = q.client /\ r.frames = Tail(q.frames) /\ r.lost = q.lost
      /\ r.code = q.code
  BY <1>1, <1>2 DEF SocketType
<1>5. Coming(q) = Coming(r) \cup {head.seq}
  <2>1. head = q.frames[1] /\ 1 \in DOMAIN q.frames
    BY <1>2
  <2>2. \A i \in DOMAIN q.frames : i = 1 \/ (i - 1 \in DOMAIN r.frames /\ r.frames[i - 1] = q.frames[i])
    BY <1>2, <1>4
  <2>3. \A i \in DOMAIN r.frames : i + 1 \in DOMAIN q.frames /\ r.frames[i] = q.frames[i + 1]
    BY <1>2, <1>4
  <2> HIDE DEF r, q, head
  <2> QED  BY <2>1, <2>2, <2>3 DEF Coming
<1> HIDE DEF r, t, head
<1>6. /\ DOMAIN sockets' = DOMAIN sockets /\ sockets'[k] = r
      /\ \A i \in DOMAIN sockets \ {k} : sockets'[i] = sockets[i]
  BY <1>3, <1>4, Replaced DEF ClientInv, Types, SocketsOK
<1>7. Bounded(t)
  BY <1>1, <1>2, IngestedBounded DEF ClientInv, Types, t
<1>8. sessions'[s] = t /\ \A i \in DOMAIN sessions \ {s} : sessions'[i] = sessions[i]
  BY <1>1, <1>3, <1>7, Replaced DEF ClientInv, Types, SessionsOK, Bounded
<1>9. OwnSocket' /\ NothingLostYet' /\ Unsent'
  <2>1. OwnSocket'
    BY <1>3, <1>4, <1>6 DEF ChunksInv, OwnSocket
  <2>2. NothingLostYet'
    BY <1>4, <1>6 DEF ChunksInv, NothingLostYet
  <2>3. Unsent'
    BY <1>3 DEF ChunksInv, Unsent, hook
  <2> QED  BY <2>1, <2>2, <2>3
<1>10. ASSUME NEW c \in DOMAIN clients, c = clientRef
       PROVE  LET u == clients[c].session
              IN  /\ InOrder(sessions'[u], nextSeq)
                  /\ \A m \in Nat : Settled(sessions[u], m) => Settled(sessions'[u], m)
                  /\ \A i \in DOMAIN sockets : \A m \in sockets[i].lost \cup Coming(sockets[i]) :
                        SessionOf(i) = u =>
                            m \in sockets'[i].lost \cup Coming(sockets'[i]) \/ Settled(sessions'[u], m)
  <2> DEFINE u == clients[c].session
  <2>1. u \in DOMAIN sessions /\ nextSeq \in Nat
    BY DEF ClientInv, Types, ClientsOK, HookOK
  <2>2. ChunksOf(u)
    <3>1. c # None
      <4>1. clients \in Seq(ClientType)
        BY DEF ClientInv, Types, ClientsOK
      <4>2. c \in Nat
        BY <4>1
      <4> QED  BY <4>2, StreamClientAssumption
    <3> QED  BY <1>10, <3>1 DEF ChunksInv, Chunks
  <2> HIDE DEF u
  <2>3. CASE u = s
    <3>1. InOrder(sessions[s], nextSeq) /\ Coming(sockets[k]) \subseteq 0..(nextSeq - 1)
      BY <2>2, <2>3 DEF ChunksOf
    <3>2. head.seq \in Nat /\ head.seq < nextSeq
      BY <1>5, <2>1, <3>1
    <3>3. /\ InOrder(t, nextSeq) /\ Settled(t, head.seq)
          /\ \A m \in Nat : Settled(sessions[s], m) => Settled(t, m)
      BY <1>1, <1>2, <2>1, <3>1, <3>2, IngestedSettles DEF ClientInv, Types, t
    <3>4. \A i \in DOMAIN sockets : \A m \in sockets[i].lost \cup Coming(sockets[i]) :
             m \in sockets'[i].lost \cup Coming(sockets'[i]) \/ Settled(t, m)
      BY <1>4, <1>5, <1>6, <3>3
    <3> QED  BY <1>8, <2>3, <3>3, <3>4 DEF u
  <2>4. CASE u # s
    <3>1. sessions'[u] = sessions[u] /\ InOrder(sessions[u], nextSeq)
      BY <1>8, <2>1, <2>2, <2>4 DEF ChunksOf
    <3>2. \A i \in DOMAIN sockets : SessionOf(i) = u => sockets'[i] = sockets[i]
      BY <1>6, <2>4
    <3> QED  BY <3>1, <3>2 DEF u
  <2> QED  BY <2>3, <2>4
<1>11. Chunks'
  <2>1. \A i \in DOMAIN sockets : /\ sockets'[i].client = sockets[i].client
                                  /\ Coming(sockets'[i]) \subseteq Coming(sockets[i])
    BY <1>4, <1>5, <1>6
  <2> QED  BY <1>3, <1>6, <1>10, <2>1, ChunksStay DEF ChunksInv, ClientInv, hook
<1> QED  BY <1>9, <1>11 DEF ChunksInv

\* What the network drops was coming, and nothing was lost there before.
LEMMA DropKeepsChunks ==
    ASSUME ClientInv, ChunksInv, NEW k \in DOMAIN sockets, NEW n \in 0..Len(sockets[k].frames), Drop(k, n)
    PROVE  ChunksInv'
<1> DEFINE q == sockets[k]
           kept == SubSeq(q.frames, 1, n)
           lost == {q.frames[i].seq : i \in (n + 1)..Len(q.frames)}
           r == [q EXCEPT !.code = "dropped", !.frames = kept, !.lost = lost]
<1>1. q \in SocketType
  BY SocketOf
<1>2. q.frames \in Seq(Frames) /\ n \in Nat /\ n <= Len(q.frames) /\ Len(q.frames) \in Nat
  BY <1>1 DEF SocketType
<1>3. kept \in Seq(Frames) /\ lost \in SUBSET Nat /\ "dropped" \in Codes
  <2>1. \A i \in (n + 1)..Len(q.frames) : q.frames[i] \in Frames
    BY <1>2
  <2>2. kept \in Seq(Frames)
    BY <1>2
  <2>3. lost \in SUBSET Nat
    BY <2>1 DEF Frames
  <2> QED  BY <2>2, <2>3 DEF Codes
<1>4. /\ r \in SocketType /\ r.client = q.client /\ r.frames = kept /\ r.lost = lost /\ r.code = "dropped"
  BY <1>1, <1>3 DEF SocketType
<1>5. /\ sockets' = [sockets EXCEPT ![k] = r] /\ UNCHANGED <<hook, clients, sessions>>
      /\ q.code = None
  BY DEF Drop
<1>6. q.lost = {}
  BY <1>5 DEF ChunksInv, NothingLostYet
<1>7. Coming(q) = Coming(r) \cup lost
  <2>1. DOMAIN q.frames = 1..Len(q.frames) /\ DOMAIN kept = 1..n /\ \A i \in 1..n : kept[i] = q.frames[i]
    BY <1>2
  <2>2. 1..Len(q.frames) = (1..n) \cup ((n + 1)..Len(q.frames))
    BY <1>2
  <2>3. Coming(r) = {q.frames[i].seq : i \in 1..n}
    BY <1>4, <2>1 DEF Coming
  <2>4. Coming(q) = {q.frames[i].seq : i \in 1..Len(q.frames)}
    BY <2>1 DEF Coming
  <2> HIDE DEF r, kept
  <2> QED  BY <2>2, <2>3, <2>4
<1> HIDE DEF r, kept, lost
<1>8. /\ DOMAIN sockets' = DOMAIN sockets /\ sockets'[k] = r
      /\ \A i \in DOMAIN sockets \ {k} : sockets'[i] = sockets[i]
  BY <1>4, <1>5, Replaced DEF ClientInv, Types, SocketsOK
<1>9. OwnSocket' /\ NothingLostYet' /\ Unsent'
  <2>1. OwnSocket'
    BY <1>4, <1>5, <1>8 DEF ChunksInv, OwnSocket
  <2>2. "dropped" # None
    BY StreamClientAssumption
  <2>3. NothingLostYet'
    BY <1>4, <1>5, <1>8, <2>2 DEF ChunksInv, NothingLostYet
  <2>4. Unsent'
    BY <1>5 DEF ChunksInv, Unsent, hook
  <2> QED  BY <2>1, <2>3, <2>4
<1>10. \A i \in DOMAIN sockets : /\ sockets'[i].client = sockets[i].client
                                 /\ Coming(sockets'[i]) \subseteq Coming(sockets[i])
                                 /\ sockets[i].lost \cup Coming(sockets[i])
                                       = sockets'[i].lost \cup Coming(sockets'[i])
  BY <1>4, <1>6, <1>7, <1>8
<1>11. ASSUME NEW c \in DOMAIN clients, c = clientRef
       PROVE  InOrder(sessions[clients[c].session], nextSeq)
  <2>1. c # None
    <3>1. clients \in Seq(ClientType)
      BY DEF ClientInv, Types, ClientsOK
    <3>2. c \in Nat
      BY <3>1
    <3> QED  BY <3>2, StreamClientAssumption
  <2> QED  BY <1>11, <2>1 DEF ChunksInv, Chunks, ChunksOf
<1>12. Chunks'
  BY <1>5, <1>8, <1>10, <1>11, ChunksStay DEF ChunksInv, ClientInv, hook
<1> QED  BY <1>9, <1>12 DEF ChunksInv

\* A chunk is sent on the session's own socket, is lost there, or is never sent.
LEMMA SendKeepsChunks ==
    ASSUME ClientInv, ChunksInv, NEW isDemo \in BOOLEAN, SendChunk(isDemo),
           UNCHANGED <<phase, clientRef, clients, sessions>>
    PROVE  ChunksInv'
<1>1. nextSeq \in Nat /\ nextSeq' = nextSeq + 1 /\ nextSeq' - 1 = nextSeq
  BY DEF SendChunk, ClientInv, Types, HookOK
<1>2. \A m \in 0..(nextSeq' - 1) : m \in 0..(nextSeq - 1) \/ m = nextSeq
  BY <1>1
<1>3. Unsent'
  BY DEF ChunksInv, Unsent
<1>4. ASSUME clientRef # None
      PROVE  LET s == clients[clientRef].session
             IN  /\ clientRef \in DOMAIN clients /\ s \in DOMAIN sessions
                 /\ ChunksOf(s) /\ InOrder(sessions[s], nextSeq')
  <2> DEFINE s == clients[clientRef].session
  <2>1. clientRef \in DOMAIN clients /\ s \in DOMAIN sessions
    BY <1>4 DEF ClientInv, Types, ClientsOK, HookOK
  <2>2. ChunksOf(s)
    BY <1>4 DEF ChunksInv, Chunks
  <2>3. InOrder(sessions[s], nextSeq)
    BY <2>2 DEF ChunksOf
  <2>4. sessions[s].next \in Nat \cup {None}
    <3>1. sessions[s] \in SessionType
      BY <2>1 DEF ClientInv, Types, SessionsOK
    <3> QED  BY <3>1 DEF SessionType
  <2> HIDE DEF s
  <2>5. InOrder(sessions[s], nextSeq')
    BY <1>1, <2>3, <2>4 DEF InOrder
  <2> QED  BY <2>1, <2>2, <2>5 DEF s
<1>5. CASE ~Sendable
  <2>1. refused' = refused \cup {nextSeq} /\ UNCHANGED sockets
    BY <1>5 DEF SendChunk
  <2>2. ASSUME clientRef = None PROVE Chunks'
    BY <1>2, <2>1, <2>2 DEF ChunksInv, Chunks
  <2>3. ASSUME clientRef # None PROVE Chunks'
    <3> DEFINE s == clients[clientRef].session
    <3>1. ChunksOf(s) /\ InOrder(sessions[s], nextSeq')
      BY <1>4, <2>3
    <3> HIDE DEF s
    <3>2. \A k \in DOMAIN sockets : SessionOf(k) = s => Coming(sockets[k]) \subseteq 0..(nextSeq' - 1)
      BY <1>1, <3>1 DEF ChunksOf
    <3>3. \A m \in 0..(nextSeq' - 1) : m \in refused' \/ Settled(sessions[s], m) \/ OnItsWay(s, m)
      BY <1>2, <2>1, <3>1 DEF ChunksOf
    <3>4. \A k \in DOMAIN sockets : SessionOf(k)' = SessionOf(k)
      BY <2>1 DEF SessionOf
    <3>5. s' = s
      BY DEF s
    <3>6. ChunksOf(s)'
      BY <2>1, <3>1, <3>2, <3>3, <3>4, <3>5 DEF ChunksOf, OnItsWay
    <3> QED  BY <2>3, <3>6 DEF Chunks, s
  <2>4. OwnSocket' /\ NothingLostYet'
    BY <2>1 DEF ChunksInv, OwnSocket, NothingLostYet
  <2> QED  BY <1>3, <2>2, <2>3, <2>4 DEF ChunksInv
<1>6. CASE Sendable
  <2> DEFINE k == clients[clientRef].socket
             s == clients[clientRef].session
             q == sockets[k]
             frame == [seq |-> nextSeq, demo |-> isDemo]
             sent == [q EXCEPT !.frames = Append(q.frames, frame)]
             lost == [q EXCEPT !.lost = q.lost \cup {nextSeq}]
  <2>1. clientRef # None /\ k # None /\ UNCHANGED refused
    BY <1>6 DEF SendChunk, Sendable
  <2>2. /\ clientRef \in DOMAIN clients /\ s \in DOMAIN sessions
        /\ ChunksOf(s) /\ InOrder(sessions[s], nextSeq')
    BY <1>4, <2>1
  <2>3. k \in DOMAIN sockets /\ q.client = clientRef /\ SessionOf(k) = s
    BY <2>1, <2>2 DEF ChunksInv, OwnSocket, SessionOf
  <2>4. q \in SocketType /\ q.frames \in Seq(Frames) /\ frame \in Frames /\ frame.seq = nextSeq
    <3>1. q \in SocketType
      BY <2>3, SocketOf
    <3>2. q.frames \in Seq(Frames)
      BY <3>1 DEF SocketType
    <3> QED  BY <1>1, <3>1, <3>2 DEF Frames
  <2> HIDE DEF frame
  <2>5. Coming([q EXCEPT !.frames = Append(q.frames, frame)]) = Coming(q) \cup {nextSeq}
    <3> DEFINE fs == Append(q.frames, frame)
               n == Len(q.frames) + 1
    <3>1. /\ DOMAIN fs = DOMAIN q.frames \cup {n} /\ fs[n] = frame
          /\ \A i \in DOMAIN q.frames : fs[i] = q.frames[i]
      <4> HIDE DEF q
      <4> QED  BY <2>4, Appended
    <3>2. [q EXCEPT !.frames = fs].frames = fs
      BY <2>4 DEF SocketType
    <3> HIDE DEF fs, n, q
    <3>3. {fs[i].seq : i \in DOMAIN fs} = {q.frames[i].seq : i \in DOMAIN q.frames} \cup {nextSeq}
      BY <2>4, <3>1
    <3> QED  BY <3>2, <3>3 DEF Coming, fs
  <2>6. PICK r \in SocketType :
           /\ sockets' = [sockets EXCEPT ![k] = r]
           /\ r.client = q.client /\ r.code = q.code
           /\ \/ Coming(r) = Coming(q) \cup {nextSeq} /\ r.lost = q.lost
              \/ Coming(r) = Coming(q) /\ r.lost = q.lost \cup {nextSeq} /\ r.code # None
    <3>1. CASE q.code = None
      <4>1. sockets' = [sockets EXCEPT ![k] = sent]
        BY <1>6, <3>1 DEF SendChunk, frame
      <4>2. Append(q.frames, frame) \in Seq(Frames)
        BY <2>4
      <4>3. sent \in SocketType /\ sent.client = q.client /\ sent.code = q.code /\ sent.lost = q.lost
        BY <2>4, <4>2 DEF SocketType
      <4> HIDE DEF k
      <4> QED  BY <2>5, <4>1, <4>3
    <3>2. CASE q.code # None
      <4>1. sockets' = [sockets EXCEPT ![k] = lost]
        BY <1>6, <3>2 DEF SendChunk
      <4>2. /\ lost \in SocketType /\ lost.client = q.client /\ lost.code = q.code
            /\ lost.frames = q.frames /\ lost.lost = q.lost \cup {nextSeq}
        BY <1>1, <2>4 DEF SocketType
      <4>3. Coming(lost) = Coming(q)
        BY <4>2 DEF Coming
      <4> HIDE DEF lost, k
      <4> QED  BY <3>2, <4>1, <4>2, <4>3
    <3> QED  BY <3>1, <3>2
  <2> HIDE DEF q, s
  <2>7. /\ DOMAIN sockets' = DOMAIN sockets /\ sockets'[k] = r
        /\ \A i \in DOMAIN sockets \ {k} : sockets'[i] = sockets[i]
    BY <2>3, <2>6, Replaced DEF ClientInv, Types, SocketsOK
  <2>8. PICK j : j = k
    OBVIOUS
  <2> HIDE DEF k
  <2>9. OwnSocket' /\ NothingLostYet'
    <3>1. OwnSocket'
      BY <2>6, <2>7 DEF ChunksInv, OwnSocket, q
    <3>2. NothingLostYet'
      BY <2>6, <2>7 DEF ChunksInv, NothingLostYet, q
    <3> QED  BY <3>1, <3>2
  <2>10. \A i \in DOMAIN sockets : clients[sockets'[i].client].session = SessionOf(i)
    BY <2>6, <2>7 DEF SessionOf, q
  <2>11. \A i \in DOMAIN sockets : 
            SessionOf(i) = s => Coming(sockets'[i]) \subseteq 0..(nextSeq' - 1)
    <3> TAKE i \in DOMAIN sockets
    <3> HAVE SessionOf(i) = s
    <3>1. Coming(sockets[i]) \subseteq 0..(nextSeq - 1) 
      BY <2>2 DEF ChunksOf
    <3>2. \A m \in 0..(nextSeq - 1) : m \in 0..(nextSeq' - 1)
      BY <1>1
    <3>3. nextSeq \in 0..(nextSeq' - 1)
      BY <1>1
    <3> QED  BY <2>6, <2>7, <3>1, <3>2, <3>3 DEF q
  <2>12. \A m \in 0..(nextSeq' - 1) :
            \/ m \in refused \/ Settled(sessions[s], m)
            \/ \E i \in DOMAIN sockets : SessionOf(i) = s /\ m \in sockets'[i].lost \cup Coming(sockets'[i])
    <3> TAKE m \in 0..(nextSeq' - 1)
    <3>1. CASE m = nextSeq
      BY <2>3, <2>6, <2>7, <3>1 DEF s
    <3>2. CASE m \in 0..(nextSeq - 1)
      <4>1. CASE OnItsWay(s, m)
        <5> PICK i \in DOMAIN sockets : SessionOf(i) = s /\ m \in sockets[i].lost \cup Coming(sockets[i])
          BY <4>1 DEF OnItsWay
        <5>1. m \in sockets'[i].lost \cup Coming(sockets'[i])
          BY <2>6, <2>7 DEF q
        <5> QED  BY <5>1
      <4> QED  BY <2>2, <3>2, <4>1 DEF ChunksOf
    <3> QED  BY <1>2, <3>1, <3>2
  <2>13. s' = s
    BY DEF s
  <2>14. ChunksOf(s)'
    BY <2>1, <2>2, <2>7, <2>10, <2>11, <2>12, <2>13 DEF ChunksOf, OnItsWay, SessionOf
  <2>15. Chunks'
    BY <2>1, <2>14 DEF Chunks, s
  <2> QED  BY <1>3, <2>9, <2>15 DEF ChunksInv
<1> QED  BY <1>5, <1>6

\* start() gives the client up and counts from 0 again.
LEMMA StartKeepsChunks ==
    ASSUME ClientInv, ChunksInv, Start
    PROVE  ChunksInv'
<1>1. Teardown /\ clientRef' = None /\ nextSeq' = 0
  BY DEF Start
<1>2. Chunks' /\ Unsent'
  BY <1>1 DEF Chunks, Unsent
<1>3. clients \in Seq(ClientType) /\ sockets \in Seq(SocketType) /\ ClientsOK
  BY DEF ClientInv, Types, ClientsOK, SocketsOK
<1>4. /\ DOMAIN clients' = DOMAIN clients
      /\ \A c \in DOMAIN clients : clients'[c].socket = clients[c].socket \/ clients'[c].socket = None
  <2>1. CASE clientRef = None
    BY <1>1, <2>1 DEF Teardown
  <2>2. CASE clientRef # None
    <3> DEFINE d == [clients[clientRef] EXCEPT !.closedByCaller = TRUE, !.reconnectTimer = FALSE,
                                               !.socket = None]
    <3>1. clientRef \in DOMAIN clients
      BY <2>2 DEF ClientInv, Types, HookOK
    <3>2. clients[clientRef] \in ClientType
      BY <1>3, <3>1
    <3>3. d \in ClientType /\ d.socket = None
      BY <3>2 DEF ClientType
    <3>4. clients' = [clients EXCEPT ![clientRef] = d]
      BY <1>1, <2>2 DEF Teardown
    <3> HIDE DEF d
    <3> QED  BY <1>3, <3>1, <3>3, <3>4, Replaced
  <2> QED  BY <2>1, <2>2
<1>5. /\ DOMAIN sockets' = DOMAIN sockets
      /\ \A k \in DOMAIN sockets : /\ sockets'[k].client = sockets[k].client
                                   /\ sockets'[k].lost = sockets[k].lost
                                   /\ sockets'[k].code = None => sockets[k].code = None
  <2>1. CASE UNCHANGED sockets
    BY <2>1
  <2>2. CASE ~UNCHANGED sockets
    <3> DEFINE k == clients[clientRef].socket
               r == [sockets[k] EXCEPT !.code = "caller"]
    <3>1. clientRef # None /\ k # None /\ sockets' = [sockets EXCEPT ![k] = r]
      BY <1>1, <2>2 DEF Teardown
    <3>2. clientRef \in DOMAIN clients
      BY <3>1 DEF ClientInv, Types, HookOK
    <3>3. k \in DOMAIN sockets
      BY <3>1, <3>2 DEF ChunksInv, OwnSocket
    <3>4. sockets[k] \in SocketType
      BY <3>3, SocketOf
    <3>5. /\ r \in SocketType /\ r.client = sockets[k].client /\ r.lost = sockets[k].lost
          /\ r.frames = sockets[k].frames /\ r.code = "caller"
      BY <3>4 DEF SocketType, Codes
    <3>6. r.code = None => sockets[k].code = None
      BY <3>5, StreamClientAssumption
    <3> HIDE DEF r, k
    <3> QED  BY <3>1, <3>3, <3>5, <3>6, SteadySocket DEF ClientInv, Types
  <2> QED  BY <2>1, <2>2
<1>6. OwnSocket'
  BY <1>4, <1>5 DEF ChunksInv, OwnSocket
<1>7. NothingLostYet'
  BY <1>5 DEF ChunksInv, NothingLostYet
<1> QED  BY <1>2, <1>6, <1>7 DEF ChunksInv

\* The new session knows of no chunk: those of the demo's timers were refused.
LEMMA SessionCreatedKeepsChunks ==
    ASSUME ClientInv, ChunksInv, SessionCreated
    PROVE  ChunksInv'
<1> DEFINE n == Len(clients) + 1
           k == Len(sockets) + 1
           s == Len(sessions) + 1
           new == NewSocket(n)
           d == [session |-> s, closedByCaller |-> FALSE, hasConnectedOnce |-> FALSE,
                 reconnectTimer |-> FALSE, socket |-> k]
<1>1. clients \in Seq(ClientType) /\ sockets \in Seq(SocketType) /\ sessions \in Seq(SessionType)
  BY DEF ClientInv, Types, ClientsOK, SocketsOK, SessionsOK
<1>2. phase = "creating_session" /\ clientRef = None
  BY DEF SessionCreated, ClientInv, Links, Calm, Types, HookOK, ChunksInv, Unsent
<1>3. NewSession \in SessionType /\ NewSession.pending = {} /\ NewSession.next = None
  BY DEF NewSession, SessionType
<1>4. n \in Nat /\ k \in Nat /\ s \in Nat /\ n # None
  <2>1. n \in Nat /\ k \in Nat /\ s \in Nat
    BY <1>1
  <2> QED  BY <2>1, StreamClientAssumption
<1>5. d \in ClientType /\ d.session = s /\ d.socket = k
  BY <1>4 DEF ClientType
<1>6. /\ new \in SocketType /\ new.client = n /\ new.frames = <<>> /\ new.lost = {}
  <2>1. <<>> \in Seq(Frames)
    OBVIOUS
  <2> QED  BY <1>4, <2>1 DEF NewSocket, SocketType, Codes
<1>7. Coming(new) = {}
  BY <1>6 DEF Coming
<1>8. sessions' = Append(sessions, NewSession) /\ Len(Append(sessions, NewSession)) = s
  BY <1>1 DEF SessionCreated
<1>9. clients' = Append(clients, d) /\ Len(Append(clients, d)) = n
  BY <1>1, <1>8 DEF SessionCreated
<1>10. /\ sockets' = Append(sockets, new) /\ clientRef' = n /\ phase' = "connecting"
       /\ UNCHANGED <<nextSeq, refused>>
  BY <1>9 DEF SessionCreated
<1> HIDE DEF new, d
<1>11. /\ DOMAIN clients' = DOMAIN clients \cup {n} /\ clients'[n] = d
       /\ n \notin DOMAIN clients /\ \A i \in DOMAIN clients : clients'[i] = clients[i]
  BY <1>1, <1>5, <1>9, Appended
<1>12. /\ DOMAIN sockets' = DOMAIN sockets \cup {k} /\ sockets'[k] = new
       /\ k \notin DOMAIN sockets /\ \A i \in DOMAIN sockets : sockets'[i] = sockets[i]
  BY <1>1, <1>6, <1>10, Appended
<1>13. sessions'[s] = NewSession /\ s \notin DOMAIN sessions
  BY <1>1, <1>3, <1>8, Appended
<1> HIDE DEF n, k, s
<1>14. \A i \in DOMAIN sockets : clients'[sockets'[i].client].session # s
  BY <1>11, <1>12, <1>13, SocketOf DEF SessionOf
<1>15. PICK b : b = s
  OBVIOUS
<1>16. ChunksOf(b)'
  <2>1. InOrder(sessions'[s], nextSeq')
    BY <1>3, <1>13 DEF InOrder
  <2>2. \A i \in DOMAIN sockets' :
           clients'[sockets'[i].client].session = s => Coming(sockets'[i]) \subseteq 0..(nextSeq' - 1)
    BY <1>7, <1>12, <1>14
  <2>3. \A m \in 0..(nextSeq' - 1) : m \in refused'
    BY <1>2, <1>10 DEF ChunksInv, Chunks
  <2> QED  BY <1>15, <2>1, <2>2, <2>3 DEF ChunksOf, SessionOf
<1>17. PICK c : c = n
  OBVIOUS
<1>18. Chunks'
  <2>1. clientRef' = c /\ c # None /\ clients'[c].session = b
    BY <1>4, <1>5, <1>10, <1>11, <1>15, <1>17
  <2> QED  BY <1>16, <2>1 DEF Chunks
<1>19. OwnSocket'
  <2>1. clients'[n].socket = k /\ sockets'[k].client = n
    BY <1>5, <1>6, <1>11, <1>12
  <2> QED  BY <1>11, <1>12, <2>1 DEF ChunksInv, OwnSocket
<1>20. NothingLostYet'
  BY <1>6, <1>12 DEF ChunksInv, NothingLostYet
<1>21. Unsent'
  BY <1>10 DEF Unsent
<1> QED  BY <1>18, <1>19, <1>20, <1>21 DEF ChunksInv

\* A new socket of the same client carries nothing yet.
LEMMA ReopenKeepsChunks ==
    ASSUME ClientInv, ChunksInv, NEW c \in DOMAIN clients, Reopen(c)
    PROVE  ChunksInv'
<1> DEFINE n == Len(sockets) + 1
           new == NewSocket(c)
           d == [clients[c] EXCEPT !.reconnectTimer = FALSE, !.socket = n]
<1>1. sockets \in Seq(SocketType) /\ clients \in Seq(ClientType) /\ clients[c] \in ClientType
  BY DEF ClientInv, Types, SocketsOK, ClientsOK
<1>2. /\ new \in SocketType /\ new.client = c /\ new.frames = <<>> /\ new.lost = {}
  <2>1. c \in Nat
    BY <1>1
  <2>2. <<>> \in Seq(Frames)
    OBVIOUS
  <2> QED  BY <2>1, <2>2 DEF NewSocket, SocketType, Codes
<1>3. /\ sockets' = Append(sockets, new) /\ clients' = [clients EXCEPT ![c] = d]
      /\ UNCHANGED <<phase, clientRef, nextSeq, refused, sessions>>
  <2>1. Len(Append(sockets, new)) = n
    BY <1>1
  <2> QED  BY <2>1 DEF Reopen, Open
<1>4. Coming(new) = {}
  BY <1>2 DEF Coming
<1>5. n \in Nat
  BY <1>1
<1>6. d \in ClientType /\ d.session = clients[c].session /\ d.socket = n
  BY <1>1, <1>5 DEF ClientType
<1> HIDE DEF new, d
<1>7. /\ DOMAIN sockets' = DOMAIN sockets \cup {n} /\ n \notin DOMAIN sockets
      /\ sockets'[n] = new /\ \A i \in DOMAIN sockets : sockets'[i] = sockets[i]
  BY <1>1, <1>2, <1>3, Appended
<1> HIDE DEF n
<1>8. /\ DOMAIN clients' = DOMAIN clients /\ clients'[c] = d
      /\ \A i \in DOMAIN clients \ {c} : clients'[i] = clients[i]
  BY <1>1, <1>3, <1>6, Replaced
<1>9. OwnSocket'
  <2>1. clients'[c].socket = n /\ sockets'[n].client = c
    BY <1>2, <1>6, <1>7, <1>8
  <2> QED  BY <1>7, <1>8, <2>1 DEF ChunksInv, OwnSocket
<1>10. NothingLostYet' /\ Unsent'
  BY <1>2, <1>3, <1>7 DEF ChunksInv, NothingLostYet, Unsent
<1>11. ASSUME NEW e \in DOMAIN clients, e = clientRef
       PROVE  InOrder(sessions[clients[e].session], nextSeq)
  <2>1. e # None
    <3>1. e \in Nat
      BY <1>1
    <3> QED  BY <3>1, StreamClientAssumption
  <2> QED  BY <1>11, <2>1 DEF ChunksInv, Chunks, ChunksOf
<1>12. \A e \in DOMAIN clients : clients'[e].session = clients[e].session
  BY <1>6, <1>8
<1>13. Chunks'
  BY <1>3, <1>4, <1>7, <1>11, <1>12, ChunksStay DEF ChunksInv, ClientInv
<1> QED  BY <1>9, <1>10, <1>13 DEF ChunksInv

LEMMA ChunksStep ==
    ASSUME ClientInv, ChunksInv, [Next]_vars
    PROVE  ChunksInv'
<1>1. CASE UNCHANGED vars
  <2>1. Steady
    BY <1>1 DEF vars, hook, Steady
  <2> QED  BY <2>1, SteadyKeeps DEF ClientInv
<1>2. CASE Browser
  <2>1. CASE SessionCreated
    BY <2>1, SessionCreatedKeepsChunks
  <2>2. CASE \E made \in BOOLEAN : CreationFails(made)
    BY <2>2, CreationFailsKeepsChunks
  <2>3. CASE \E c \in DOMAIN clients : Reopen(c)
    BY <2>3, ReopenKeepsChunks
  <2>4. CASE \E k \in DOMAIN sockets : OnOpen(k) \/ OnClose(k)
    BY <2>4, HandlerKeepsChunks
  <2>5. CASE SendDemo
    BY <2>5, SendKeepsChunks DEF SendDemo
  <2> QED  BY <1>2, <2>1, <2>2, <2>3, <2>4, <2>5 DEF Browser
<1>3. CASE Server
  <2> PICK k \in DOMAIN sockets :
         \/ Handshake(k) \/ MarkConnected(k) \/ NoticeDisconnect(k)
         \/ \E late \in BOOLEAN : Receive(k, late)
    BY <1>3 DEF Server
  <2> QED  BY HandshakeKeepsChunks, MarkConnectedKeepsChunks, NoticeDisconnectKeepsChunks,
              ReceiveKeepsChunks
<1>4. CASE Environment
  <2>1. CASE SendManual
    BY <2>1, SendKeepsChunks DEF SendManual
  <2>2. CASE Start \/ StartDemo
    BY <2>2, StartKeepsChunks, StartDemoKeepsChunks
  <2>3. CASE \E s \in DOMAIN sessions : GrowOld(s) \/ GetSession(s)
    BY <2>3, StoreKeepsChunks
  <2>4. CASE \E k \in DOMAIN sockets : \E n \in 0..Len(sockets[k].frames) : Drop(k, n)
    BY <2>4, DropKeepsChunks
  <2> QED  BY <1>4, <2>1, <2>2, <2>3, <2>4 DEF Environment
<1> QED  BY <1>1, <1>2, <1>3, <1>4 DEF Next

-----------------------------------------------------------------------------
(* The theorems *)

LEMMA ClientInitially ==
    ASSUME Init
    PROVE  ClientInv
<1>1. /\ phase = "idle" /\ connection = "disconnected" /\ pending = 0 /\ clientRef = None
      /\ nextSeq = 0 /\ demo = 0 /\ refused = {} /\ clients = <<>> /\ sockets = <<>> /\ sessions = <<>>
      /\ starts = 0 /\ drops = 0
  BY DEF Init
<1>2. HookOK
  BY <1>1, StreamClientAssumption DEF HookOK
<1>3. ClientsOK /\ SocketsOK /\ SessionsOK
  BY <1>1 DEF ClientsOK, SocketsOK, SessionsOK
<1>4. Calm /\ Followed /\ OneSocket
  BY <1>1 DEF Calm, Followed, OneSocket, NoClient
<1> QED  BY <1>2, <1>3, <1>4 DEF ClientInv, Types, Links

LEMMA ClientStep ==
    ASSUME ClientInv, [Next]_vars
    PROVE  ClientInv'
<1>1. CASE UNCHANGED vars
  <2>1. UNCHANGED <<hook, clients, sockets, sessions, starts, drops>>
    BY <1>1 DEF vars
  <2>2. HookOK'
    BY <2>1 DEF hook, ClientInv, Types, HookOK
  <2> QED  BY <2>1, <2>2, HookKeeps DEF hook
<1>2. CASE Browser
  <2>1. CASE SessionCreated
    BY <2>1, SessionCreatedKeeps
  <2>2. CASE \E made \in BOOLEAN : CreationFails(made)
    BY <2>2, CreationFailsKeeps
  <2>3. CASE \E c \in DOMAIN clients : Reopen(c)
    BY <2>3, ReopenKeeps
  <2>4. CASE \E k \in DOMAIN sockets : OnOpen(k) \/ OnClose(k)
    BY <2>4, OnOpenKeeps, OnCloseKeeps
  <2>5. CASE SendDemo
    BY <2>5, SendDemoKeeps, StreamClientAssumption
  <2> QED  BY <1>2, <2>1, <2>2, <2>3, <2>4, <2>5 DEF Browser
<1>3. CASE Server
  <2> PICK k \in DOMAIN sockets :
         \/ Handshake(k) \/ MarkConnected(k) \/ NoticeDisconnect(k)
         \/ \E late \in BOOLEAN : Receive(k, late)
    BY <1>3 DEF Server
  <2> QED  BY HandshakeKeeps, MarkConnectedKeeps, NoticeDisconnectKeeps, ReceiveKeeps
<1>4. CASE Environment
  <2>1. CASE Start \/ SendManual \/ StartDemo
    BY <2>1, StartKeeps, SendManualKeeps, StartDemoKeeps, StreamClientAssumption
  <2>2. CASE \E s \in DOMAIN sessions : GrowOld(s) \/ GetSession(s)
    BY <2>2, GrowOldKeeps, GetSessionKeeps
  <2>3. CASE \E k \in DOMAIN sockets : \E n \in 0..Len(sockets[k].frames) : Drop(k, n)
    BY <2>3, DropKeeps, StreamClientAssumption
  <2> QED  BY <1>4, <2>1, <2>2, <2>3 DEF Environment
<1> QED  BY <1>1, <1>2, <1>3, <1>4 DEF Next

\* The inductive invariant of the tab and its sessions
THEOREM ClientInvariant == Spec => []ClientInv
<1>1. Init => ClientInv
  BY ClientInitially
<1>2. ClientInv /\ [Next]_vars => ClientInv'
  BY ClientStep
<1> QED  BY <1>1, <1>2, PTL DEF Spec

\* The records of the hook, its clients, their sockets and the session store are
\* always well formed.
THEOREM ClientTypeCorrect == Spec => []TypeOK
<1>1. ClientInv => TypeOK
  BY DEF ClientInv, Types, HookOK, ClientsOK, SocketsOK, SessionsOK, TypeOK
<1> QED  BY <1>1, ClientInvariant, PTL

\* However start() is called, at most one StreamClient is connected or will connect
\* by itself, the hook's own.
THEOREM OnlyOneLiveClient == Spec => []OneLiveClient
<1>1. ClientInv => OneLiveClient
  BY LiveIsTheHooks DEF OneLiveClient
<1> QED  BY <1>1, ClientInvariant, PTL

\* Chunks can only be entered while the hook's client is connected or will be by
\* itself, and nothing goes on behind an error.
THEOREM PageTellsTheTruth == Spec => []PhaseTellsTheTruth
<1>1. ClientInv => PhaseTellsTheTruth
  <2> SUFFICES ASSUME ClientInv PROVE PhaseTellsTheTruth
    OBVIOUS
  <2>1. phase = "ready" => /\ Live(clientRef)
                           /\ connection = "connected" =>
                                 sockets[clients[clientRef].socket].state = "open"
    BY DEF ClientInv, Links, Followed, NoClient
  <2>2. phase = "error" => \A c \in DOMAIN clients : ~Live(c)
    BY DEF ClientInv, Links, Calm, NoClient
  <2> QED  BY <2>1, <2>2 DEF PhaseTellsTheTruth
<1> QED  BY <1>1, ClientInvariant, PTL

\* No seq is ever unaccounted for: the page never sent it, the server committed it or
\* holds it back, or it is on its way or lost on a socket of the session.
THEOREM ChunksAccountedFor == Spec => []ChunksInv
<1>1. Init => ChunksInv
  <2> SUFFICES ASSUME Init PROVE ChunksInv
    OBVIOUS
  <2>1. clientRef = None /\ nextSeq = 0 /\ clients = <<>> /\ sockets = <<>> /\ phase = "idle"
    BY DEF Init
  <2> QED  BY <2>1 DEF ChunksInv, Chunks, OwnSocket, NothingLostYet, Unsent
<1>2. ClientInv /\ ChunksInv /\ [Next]_vars => ChunksInv'
  BY ChunksStep
<1> QED  BY <1>1, <1>2, ClientInvariant, PTL DEF Spec

\* The server keeps a chunk back only for one that never comes.
THEOREM HeldBackForALostOne == Spec => []HeldForALostOne
<1>1. ClientInv /\ ChunksInv => HeldForALostOne
  <2> SUFFICES ASSUME ClientInv, ChunksInv, clientRef # None,
                      sessions[clients[clientRef].session].pending # {}
               PROVE  LET s   == clients[clientRef].session
                          r   == sessions[s]
                          own == {k \in DOMAIN sockets : SessionOf(k) = s}
                      IN  \/ r.next \in refused
                          \/ \E k \in own : \/ r.next \in sockets[k].lost
                                            \/ \E i \in DOMAIN sockets[k].frames :
                                                  r.next = sockets[k].frames[i].seq
    BY DEF HeldForALostOne
  <2> DEFINE s == clients[clientRef].session
             r == sessions[s]
  <2>1. ChunksOf(s)
    BY DEF ChunksInv, Chunks
  <2>2. clientRef \in DOMAIN clients /\ s \in DOMAIN sessions /\ nextSeq \in Nat
    BY DEF ClientInv, Types, ClientsOK, HookOK
  <2>3. r.next \in Nat \cup {None} /\ r.pending \in SUBSET Nat
    <3>1. r \in SessionType
      BY <2>2 DEF ClientInv, Types, SessionsOK
    <3> QED  BY <3>1 DEF SessionType
  <2> HIDE DEF s
  <2>4. PICK p \in r.pending : TRUE
    BY DEF s
  <2>5. /\ r.next # None /\ r.next < p /\ p \in 0..(nextSeq - 1)
        /\ \A x \in r.pending : r.next < x
    BY <2>1, <2>4 DEF ChunksOf, InOrder
  <2>6. r.next \in 0..(nextSeq - 1) /\ ~Settled(r, r.next)
    BY <2>2, <2>3, <2>5 DEF Settled
  <2>7. r.next \in refused \/ OnItsWay(s, r.next)
    BY <2>1, <2>6 DEF ChunksOf
  <2>8. OnItsWay(s, r.next) =>
           \E k \in {k \in DOMAIN sockets : SessionOf(k) = s} :
              \/ r.next \in sockets[k].lost
              \/ \E i \in DOMAIN sockets[k].frames : r.next = sockets[k].frames[i].seq
    BY DEF OnItsWay, Coming
  <2> QED  BY <2>7, <2>8 DEF s
<1> QED  BY <1>1, ClientInvariant, ChunksAccountedFor, PTL

=============================================================================
