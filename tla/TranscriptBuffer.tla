-------------------------- MODULE TranscriptBuffer --------------------------
(***************************************************************************)
(* SessionRecord.ingest_chunk (src/app/session/session_store.py): the      *)
(* ordered, gap-resolved transcript buffer of one session (REQ-STREAM-01). *)
(*                                                                         *)
(* Every TRANSCRIPT_CHUNK frame a client sends is one call.  Frames may    *)
(* come in any order and more than once (a client that reconnects, two     *)
(* clients on one session); a chunk is its sequence number and the offset  *)
(* the reorder window is measured with, the text is left out.              *)
(***************************************************************************)
EXTENDS Integers, Sequences, FiniteSets, Functions

CONSTANTS
    Chunks,            \* the chunks clients may send
    REORDER_WINDOW_MS, \* Settings.reorder_window_ms
    None               \* Python's None

ASSUME ChunksAssumption == Chunks \subseteq [seq : Nat, t_offset_ms : Nat]
ASSUME WindowAssumption == REORDER_WINDOW_MS \in Nat
ASSUME NoneAssumption   == None \notin Nat

VARIABLES
    buffer,      \* record.buffer: the committed chunks, in order
    pending,     \* record._pending: chunks held back behind a gap
    nextSeq,     \* record._next_seq
    gapOpenedAt, \* record._gap_opened_at_ms
    committed,   \* what the last call returned: the newly committed chunks
    sequenceGap  \* and whether it gave up waiting for missing ones

bufferVars == <<buffer, pending, nextSeq, gapOpenedAt, committed, sequenceGap>>

Seqs(S) == {c.seq : c \in S}

BufferTypeOK ==
    /\ buffer \in Seq(Chunks)
    /\ pending \subseteq Chunks /\ IsFiniteSet(pending)
    /\ nextSeq \in Nat \cup {None}
    /\ gapOpenedAt \in Nat \cup {None}
    /\ committed \in Seq(Chunks)
    /\ sequenceGap \in BOOLEAN

BufferInit ==
    /\ buffer = <<>>
    /\ pending = {}
    /\ nextSeq = None
    /\ gapOpenedAt = None
    /\ committed = <<>>
    /\ sequenceGap = FALSE

-----------------------------------------------------------------------------
Ascending(s) == \A i, j \in DOMAIN s : i < j => s[i].seq < s[j].seq

\* The sequences (there is one) that list a set of chunks in sequence order.
InSeqOrder(S) ==
    {s \in [1..Cardinality(S) -> S] : Range(s) = S /\ Ascending(s)}

\* The batch S goes to the end of the buffer and is what the call returns.
Commit(S) ==
    \E batch \in InSeqOrder(S) :
        /\ buffer' = buffer \o batch
        /\ committed' = batch
        /\ nextSeq' = batch[Len(batch)].seq + 1

\* Mutant: the numbering starts anew whenever nothing is held back.
ExpectAnything(c) == IF pending = {} THEN c.seq ELSE nextSeq

\* The first chunk of a session defines where its numbering starts.
Expected(c) == IF nextSeq = None THEN c.seq ELSE nextSeq

\* Mutant: the drain loop does not stop at a hole.
DrainAll(n) == {p \in pending : p.seq > n}

\* The held chunks that follow n without a hole: what the drain loop pops.
RunAfter(n) == {p \in pending : \A m \in n+1..p.seq : m \in Seqs(pending)}

\* Mutant: a list of held chunks instead of one per number.
HeldTwice(c) == pending \cup {c}

\* Mutant: only the newest chunk is held.
HeldAlone(c) == {c}

\* pending[c.seq] = c: a second chunk with the same number replaces the first.
Held(c) == {p \in pending : p.seq # c.seq} \cup {c}

\* The offset the reorder clock counts from if c is held.
GapStart(c) == IF gapOpenedAt = None THEN c.t_offset_ms ELSE gapOpenedAt

IgnoreStale(c) ==
    /\ c.seq < Expected(c)
    /\ committed' = <<>>
    /\ sequenceGap' = FALSE
    /\ UNCHANGED <<buffer, pending, nextSeq, gapOpenedAt>>

CommitInOrder(c) ==
    /\ c.seq = Expected(c)
    /\ Commit({c} \cup RunAfter(c.seq))
    /\ pending' = pending \ RunAfter(c.seq)
    /\ gapOpenedAt' = IF pending' = {} THEN None ELSE gapOpenedAt
    /\ sequenceGap' = FALSE

HoldOutOfOrder(c) ==
    /\ c.seq > Expected(c)
    /\ c.t_offset_ms - GapStart(c) < REORDER_WINDOW_MS
    /\ pending' = Held(c)
    /\ gapOpenedAt' = GapStart(c)
    /\ committed' = <<>>
    /\ sequenceGap' = FALSE
    /\ UNCHANGED <<buffer, nextSeq>>

ForceCommit(c) ==
    /\ c.seq > Expected(c)
    /\ c.t_offset_ms - GapStart(c) >= REORDER_WINDOW_MS
    /\ Commit(Held(c))
    /\ pending' = {}
    /\ gapOpenedAt' = None
    /\ sequenceGap' = TRUE

Ingest(c) ==
    \/ IgnoreStale(c)
    \/ CommitInOrder(c)
    \/ HoldOutOfOrder(c)
    \/ ForceCommit(c)

BufferNext == \E c \in Chunks : Ingest(c)

BufferSpec == BufferInit /\ [][BufferNext]_bufferVars

-----------------------------------------------------------------------------
(* Properties *)

LastSeq == buffer[Len(buffer)].seq

\* Numbers the buffer has jumped over for good.
Skipped == IF buffer = <<>> THEN {}
           ELSE (buffer[1].seq .. LastSeq) \ Seqs(Range(buffer))

\* The buffer is in strictly increasing order, whatever order frames came in,
\* ends just below the next expected number, and everything held back is
\* strictly above that number: a chunk is never committed twice or too early.
BufferOrdered ==
    /\ Ascending(buffer)
    /\ buffer = <<>> <=> nextSeq = None
    /\ buffer # <<>> => nextSeq = LastSeq + 1
    /\ \A p \in pending : nextSeq # None /\ p.seq > nextSeq

\* At most one chunk is held per number, and the reorder clock runs exactly
\* while something is held: a clock left running would force a later, innocent
\* chunk out of order, a clock not started would hold chunks forever.
GapClockRuns ==
    /\ \A p, q \in pending : p.seq = q.seq => p = q
    /\ gapOpenedAt = None <=> pending = {}

\* A chunk once held is never dropped: it stays held (or is replaced by a
\* chunk of the same number) until it is committed.
HeldNeverLost ==
    [][Seqs(pending) \subseteq Seqs(pending') \cup Seqs(Range(buffer'))]_bufferVars

\* The caller is told sequence_gap exactly when the buffer jumps over missing
\* numbers: no silent hole in the transcript, no false alarm.
GapReported == [][sequenceGap' <=> Skipped' # Skipped]_bufferVars

\* The buffer implements the append-only ordered log.
Log == INSTANCE OrderedLog WITH log <- buffer
ImplementsOrderedLog == Log!Spec

=============================================================================
