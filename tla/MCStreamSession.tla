--------------------------- MODULE MCStreamSession ---------------------------
(* Instances of StreamSession small enough for TLC. *)
EXTENDS StreamSession, TLC

CONSTANTS MaxSeq

\* One chunk per number, offsets growing with the numbers.
TimedChunks == {[seq |-> n, t_offset_ms |-> n] : n \in 0..MaxSeq}

\* Nothing distinguishes one connection from another.
ConnSymmetry == Permutations(Conns)

\* The server's side of a state.  No action's effect on it depends on what is
\* queued for a client or what the client has seen, and no invariant but the
\* types of those two does: states that differ in nothing else are one state.
ServerView == <<bufferVars, turnVars, online, sent, everConnected, pc, eventLog>>

\* What the steps to come depend on, and the two properties of a single client: of
\* what is queued for a client only what it tells of the answers, and neither the
\* log nor the numbers of the turns.
ClientView ==
    <<buffer, pending, nextSeq, gapOpenedAt, frame, todo, prior, lockQueue,
      versions, passed, pc, clientVars,
      [c \in Conns |-> [i \in DOMAIN queue[c] |->
          IF queue[c][i].kind \in {"SESSION_RESYNC", "ANSWER_VERSION_CREATED"}
            THEN queue[c][i].no ELSE None]]>>

=============================================================================
