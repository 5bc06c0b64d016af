------------------------- MODULE StreamSessionProofs -------------------------
(***************************************************************************)
(* Proofs about the sessions of StreamSession, for any number of           *)
(* connections, any chunks and any number of frames.                       *)
(*                                                                         *)
(* None of the safety properties is inductive by itself.  What makes them  *)
(* so is the lock: whoever is in a turn is the head of lockQueue           *)
(* (LockInv), so at most one connection is; hence the version a generation *)
(* started from is still the latest when it commits (VersionInv), the      *)
(* chunks left in a batch are all that separates the passes from the       *)
(* buffer (PassInv), and events can only be those of the latest turn       *)
(* (TraceInv, EventInv).  That a connection which misses something is      *)
(* resynced needs what each connection was told so far (ResyncInv), and    *)
(* that a client's view never goes back what is still on its way to it     *)
(* (ClientViewInv).                                                        *)
(*                                                                         *)
(* The first part is about the transcript buffer alone (TranscriptBuffer), *)
(* for every set of chunks and every reorder window.  BufferInv is its     *)
(* inductive invariant: the type, the order of the buffer (which holds of  *)
(* a commit only because everything held back lies above nextSeq) and the  *)
(* gap clock (one chunk per held number, without which a forced batch      *)
(* would not be strictly ascending).                                       *)
(***************************************************************************)
EXTENDS StreamSession, FiniteSetTheorems, TLAPS

BufferInv == BufferTypeOK /\ BufferOrdered /\ GapClockRuns

(***************************************************************************)
(* The operators Commit and RunAfter are built from.                       *)
(***************************************************************************)

\* What committing a set of chunks needs to know of its ordering.
LEMMA BatchFacts ==
    ASSUME NEW S, IsFiniteSet(S), S # {}, NEW batch \in InSeqOrder(S)
    PROVE  /\ batch \in Seq(S)
           /\ Len(batch) \in Nat \ {0}
           /\ DOMAIN batch = 1..Len(batch)
           /\ \A i \in 1..Len(batch) : batch[i] \in S
           /\ \A x \in S : \E i \in 1..Len(batch) : batch[i] = x
           /\ Range(batch) = S
           /\ Ascending(batch)
<1>1. Cardinality(S) \in Nat
  BY FS_CardinalityType
<1>2. batch \in [1..Cardinality(S) -> S] /\ Range(batch) = S /\ Ascending(batch)
  BY DEF InSeqOrder
<1>3. batch \in Seq(S) /\ Len(batch) = Cardinality(S)
  BY <1>1, <1>2
<1>4. DOMAIN batch = 1..Len(batch)
  BY <1>2, <1>3
<1>5. \A x \in S : \E i \in 1..Len(batch) : batch[i] = x
  BY <1>2, <1>4 DEF Range
<1>6. Len(batch) # 0
  BY <1>1, <1>3, <1>5
<1> QED
  BY <1>1, <1>2, <1>3, <1>4, <1>5, <1>6

\* The last element of an ascending batch carries its greatest number.
LEMMA LastIsGreatest ==
    ASSUME NEW S \in SUBSET Chunks, IsFiniteSet(S), S # {},
           NEW batch \in InSeqOrder(S)
    PROVE  /\ batch[Len(batch)] \in S
           /\ \A x \in S : x.seq <= batch[Len(batch)].seq
<1>1. /\ Len(batch) \in Nat \ {0}
      /\ DOMAIN batch = 1..Len(batch)
      /\ \A i \in 1..Len(batch) : batch[i] \in S
      /\ \A x \in S : \E i \in 1..Len(batch) : batch[i] = x
      /\ Ascending(batch)
  BY BatchFacts
<1>2. \A x \in S : x.seq \in Nat
  BY ChunksAssumption
<1>3. ASSUME NEW x \in S PROVE x.seq <= batch[Len(batch)].seq
  <2>1. PICK i \in 1..Len(batch) : batch[i] = x
    BY <1>1
  <2>2. CASE i = Len(batch)
    BY <2>1, <2>2, <1>2
  <2>3. CASE i < Len(batch)
    <3>1. batch[i].seq < batch[Len(batch)].seq
      BY <1>1, <2>3 DEF Ascending
    <3>2. batch[Len(batch)].seq \in Nat
      BY <1>1, <1>2
    <3> QED  BY <2>1, <3>1, <3>2, <1>2
  <2>4. i = Len(batch) \/ i < Len(batch)
    <3>1. Len(batch) \in Nat
      BY <1>1
    <3> QED  BY <3>1
  <2> QED  BY <2>2, <2>3, <2>4
<1> QED  BY <1>1, <1>3

\* Appending a batch that starts above everything committed keeps the order.
LEMMA CommitKeepsOrder ==
    ASSUME NEW s \in Seq(Chunks), Ascending(s),
           NEW b \in Seq(Chunks), Ascending(b),
           \A i \in 1..Len(s), j \in 1..Len(b) : s[i].seq < b[j].seq
    PROVE  Ascending(s \o b)
<1> SUFFICES ASSUME NEW i \in DOMAIN (s \o b), NEW j \in DOMAIN (s \o b), i < j
             PROVE  (s \o b)[i].seq < (s \o b)[j].seq
  BY DEF Ascending
<1>1. /\ DOMAIN (s \o b) = 1..(Len(s) + Len(b))
      /\ Len(s) \in Nat /\ Len(b) \in Nat
      /\ DOMAIN s = 1..Len(s) /\ DOMAIN b = 1..Len(b)
      /\ \A k \in 1..(Len(s) + Len(b)) :
           (s \o b)[k] = IF k <= Len(s) THEN s[k] ELSE b[k - Len(s)]
  OBVIOUS
<1>2. CASE j <= Len(s)
  BY <1>1, <1>2 DEF Ascending
<1>3. CASE i <= Len(s) /\ j > Len(s)
  BY <1>1, <1>3
<1>4. CASE i > Len(s)
  <2>1. i - Len(s) \in DOMAIN b /\ j - Len(s) \in DOMAIN b /\ i - Len(s) < j - Len(s)
    BY <1>1, <1>4
  <2>2. b[i - Len(s)].seq < b[j - Len(s)].seq
    BY <2>1 DEF Ascending
  <2> QED  BY <1>1, <1>4, <2>1, <2>2
<1> QED  BY <1>1, <1>2, <1>3, <1>4

\* In an ascending buffer nothing exceeds the last number.
LEMMA BufferBelowNext ==
    ASSUME BufferInv
    PROVE  \A i \in 1..Len(buffer) : nextSeq \in Nat /\ buffer[i].seq < nextSeq
<1> SUFFICES ASSUME NEW i \in 1..Len(buffer)
             PROVE  nextSeq \in Nat /\ buffer[i].seq < nextSeq
  OBVIOUS
<1> USE DEF BufferInv, BufferTypeOK, BufferOrdered, LastSeq
<1>1. buffer \in Seq(Chunks) /\ Len(buffer) \in Nat \ {0} /\ buffer # <<>>
  OBVIOUS
<1>2. \A k \in 1..Len(buffer) : buffer[k] \in Chunks /\ buffer[k].seq \in Nat
  BY <1>1, ChunksAssumption, SMTT(20), ZenonT(60)
<1>3. nextSeq = buffer[Len(buffer)].seq + 1 /\ nextSeq \in Nat
  BY <1>1, <1>2, NoneAssumption
<1>4. i = Len(buffer) \/ buffer[i].seq < buffer[Len(buffer)].seq
  BY <1>1 DEF Ascending
<1> QED  BY <1>2, <1>3, <1>4

\* What every committing call establishes, whichever set it commits.
LEMMA CommitFacts ==
    ASSUME BufferInv,
           NEW S \in SUBSET Chunks, IsFiniteSet(S), S # {}, Commit(S),
           \A x \in S : nextSeq # None => x.seq >= nextSeq
    PROVE  /\ buffer' \in Seq(Chunks) /\ committed' \in Seq(Chunks)
           /\ committed' # <<>>
           /\ buffer' = buffer \o committed'
           /\ Range(committed') = S
           /\ Ascending(committed') /\ Ascending(buffer')
           /\ buffer' # <<>> /\ nextSeq' = LastSeq' + 1
           /\ \E top \in S : nextSeq' = top.seq + 1
                             /\ \A x \in S : x.seq <= top.seq
<1>1. PICK batch \in InSeqOrder(S) :
         /\ buffer' = buffer \o batch
         /\ committed' = batch
         /\ nextSeq' = batch[Len(batch)].seq + 1
  BY DEF Commit
<1>2. /\ batch \in Seq(S) /\ batch \in Seq(Chunks)
      /\ Len(batch) \in Nat \ {0}
      /\ \A i \in 1..Len(batch) : batch[i] \in S
      /\ Range(batch) = S /\ Ascending(batch)
  BY BatchFacts
<1>3. buffer \in Seq(Chunks) /\ Ascending(buffer)
  BY DEF BufferInv, BufferTypeOK, BufferOrdered
<1>4. \A i \in 1..Len(buffer), j \in 1..Len(batch) : buffer[i].seq < batch[j].seq
  <2> SUFFICES ASSUME NEW i \in 1..Len(buffer), NEW j \in 1..Len(batch)
               PROVE  buffer[i].seq < batch[j].seq
    OBVIOUS
  <2>1. nextSeq \in Nat /\ buffer[i].seq < nextSeq
    BY BufferBelowNext
  <2>2. batch[j].seq >= nextSeq
    BY <1>2, <2>1, NoneAssumption
  <2>3. buffer[i].seq \in Nat /\ batch[j].seq \in Nat
    <3>1. buffer[i] \in Chunks
      BY <1>3
    <3>2. batch[j] \in Chunks
      BY <1>2
    <3> QED  BY <3>1, <3>2, ChunksAssumption
  <2> QED  BY <2>1, <2>2, <2>3
<1>5. Ascending(buffer \o batch)
  BY <1>2, <1>3, <1>4, CommitKeepsOrder
<1>6. /\ buffer \o batch \in Seq(Chunks) /\ buffer \o batch # <<>>
      /\ (buffer \o batch)[Len(buffer \o batch)] = batch[Len(batch)]
  BY <1>2, <1>3
<1>7. LastSeq' = batch[Len(batch)].seq
  BY <1>1, <1>6 DEF LastSeq
<1>8. /\ batch[Len(batch)] \in S
      /\ \A x \in S : x.seq <= batch[Len(batch)].seq
  BY LastIsGreatest
<1>9. batch # <<>>
  BY <1>2
<1> QED
  BY <1>1, <1>2, <1>5, <1>6, <1>7, <1>8, <1>9

\* The drained run, with the chunk that filled the gap, has no hole: whatever
\* stays pending lies beyond it, with at least one number missing between.
LEMMA RunHasNoHole ==
    ASSUME BufferInv, NEW c \in Chunks, c.seq = Expected(c),
           NEW top \in {c} \cup RunAfter(c.seq),
           \A x \in {c} \cup RunAfter(c.seq) : x.seq <= top.seq
    PROVE  /\ c.seq <= top.seq
           /\ \A m \in c.seq..top.seq : m \in Seqs({c} \cup RunAfter(c.seq))
           /\ \A p \in pending \ RunAfter(c.seq) : p.seq > top.seq + 1
<1>1. \A x \in Chunks : x.seq \in Nat
  BY ChunksAssumption
<1>2. pending \subseteq Chunks /\ RunAfter(c.seq) \subseteq pending
  BY DEF BufferInv, BufferTypeOK, RunAfter
<1>3. top \in Chunks /\ c.seq <= top.seq
  BY <1>1, <1>2
<1>4. \A m \in c.seq+1..top.seq : m \in Seqs(pending)
  BY <1>1, <1>3 DEF RunAfter
<1>5. ASSUME NEW p \in pending, c.seq < p.seq,
             \A m \in c.seq+1..p.seq : m \in Seqs(pending)
      PROVE  p \in RunAfter(c.seq)
  BY <1>5 DEF RunAfter
<1>6. \A p \in pending : p.seq > c.seq
  BY <1>1, <1>2, NoneAssumption DEF BufferInv, BufferOrdered, BufferTypeOK, Expected
<1>7. ASSUME NEW m \in c.seq..top.seq
      PROVE  m \in Seqs({c} \cup RunAfter(c.seq))
  <2>1. CASE m = c.seq
    BY <2>1 DEF Seqs
  <2>2. CASE m # c.seq
    <3>1. m \in c.seq+1..top.seq
      BY <1>1, <1>3, <2>2
    <3>2. PICK p \in pending : p.seq = m
      BY <1>4, <3>1 DEF Seqs
    <3>3. \A n \in c.seq+1..p.seq : n \in c.seq+1..top.seq
      BY <3>1, <3>2, <1>1, <1>3
    <3>4. p \in RunAfter(c.seq)
      BY <1>4, <1>5, <1>6, <3>2, <3>3
    <3> QED  BY <3>2, <3>4 DEF Seqs
  <2> QED  BY <2>1, <2>2
<1>8. ASSUME NEW p \in pending \ RunAfter(c.seq), ~(p.seq > top.seq + 1)
      PROVE  FALSE
  <2>1. p.seq \in Nat /\ top.seq \in Nat /\ c.seq \in Nat /\ p.seq <= top.seq + 1
    BY <1>1, <1>2, <1>3, <1>8
  <2>2. p.seq \in Seqs(pending)
    BY DEF Seqs
  <2>3. \A m \in c.seq+1..p.seq : m \in c.seq+1..top.seq \/ m = p.seq
    BY <2>1
  <2>4. \A m \in c.seq+1..p.seq : m \in Seqs(pending)
    BY <1>4, <2>2, <2>3
  <2>5. p \in RunAfter(c.seq)
    BY <1>5, <1>6, <2>4
  <2> QED  BY <2>5
<1> QED
  BY <1>3, <1>7, <1>8

(***************************************************************************)
(* Every call keeps the invariant.                                         *)
(***************************************************************************)

LEMMA EmptyTranscript == <<>> \in Seq(Chunks)
OBVIOUS

LEMMA InitBuffer == BufferInit => BufferInv
<1> SUFFICES ASSUME BufferInit PROVE BufferInv
  OBVIOUS
<1>1. BufferTypeOK
  BY EmptyTranscript, FS_EmptySet DEF BufferInit, BufferTypeOK
<1>2. BufferOrdered /\ GapClockRuns
  BY DEF BufferInit, BufferOrdered, GapClockRuns, Ascending
<1> QED  BY <1>1, <1>2 DEF BufferInv

\* The sets the two committing actions hand to Commit.
LEMMA CommittedSets ==
    ASSUME BufferInv, NEW c \in Chunks
    PROVE  /\ RunAfter(c.seq) \subseteq pending
           /\ {c} \cup RunAfter(c.seq) \in SUBSET Chunks
           /\ IsFiniteSet({c} \cup RunAfter(c.seq))
           /\ IsFiniteSet(pending \ RunAfter(c.seq))
           /\ Held(c) \in SUBSET Chunks
           /\ IsFiniteSet(Held(c))
<1>1. /\ pending \subseteq Chunks /\ IsFiniteSet(pending)
      /\ RunAfter(c.seq) \in SUBSET pending
      /\ pending \ RunAfter(c.seq) \in SUBSET pending
      /\ {p \in pending : p.seq # c.seq} \in SUBSET pending
  BY DEF BufferInv, BufferTypeOK, RunAfter
<1>2. IsFiniteSet(RunAfter(c.seq)) /\ IsFiniteSet(pending \ RunAfter(c.seq))
      /\ IsFiniteSet({p \in pending : p.seq # c.seq})
  BY <1>1, FS_Subset
<1>3. IsFiniteSet(RunAfter(c.seq) \cup {c})
  BY <1>2, FS_AddElement
<1>4. IsFiniteSet({p \in pending : p.seq # c.seq} \cup {c})
  BY <1>2, FS_AddElement
<1>5. RunAfter(c.seq) \cup {c} = {c} \cup RunAfter(c.seq)
  OBVIOUS
<1> QED  BY <1>1, <1>2, <1>3, <1>4, <1>5 DEF Held

LEMMA CommitInOrderKeepsInv ==
    ASSUME BufferInv, NEW c \in Chunks, CommitInOrder(c)
    PROVE  BufferInv'
<1> DEFINE S == {c} \cup RunAfter(c.seq)
<1>1. \A x \in Chunks : x.seq \in Nat
  BY ChunksAssumption
<1>2. /\ S \in SUBSET Chunks /\ IsFiniteSet(S) /\ S # {}
      /\ RunAfter(c.seq) \subseteq pending
      /\ IsFiniteSet(pending \ RunAfter(c.seq))
  BY CommittedSets
<1>3. /\ c.seq = Expected(c) /\ Commit(S)
      /\ pending' = pending \ RunAfter(c.seq)
      /\ gapOpenedAt' = IF pending' = {} THEN None ELSE gapOpenedAt
      /\ sequenceGap' = FALSE
  BY DEF CommitInOrder
<1>4. \A x \in S : nextSeq # None => x.seq >= nextSeq
  <2>1. nextSeq # None => c.seq = nextSeq /\ \A p \in pending : p.seq > nextSeq
    BY <1>3 DEF Expected, BufferInv, BufferOrdered
  <2> QED  BY <1>1, <1>2, <2>1, NoneAssumption DEF BufferInv, BufferTypeOK
<1> HIDE DEF S
<1>5. /\ buffer' \in Seq(Chunks) /\ committed' \in Seq(Chunks)
      /\ Ascending(buffer') /\ buffer' # <<>> /\ nextSeq' = LastSeq' + 1
      /\ \E top \in S : nextSeq' = top.seq + 1 /\ \A x \in S : x.seq <= top.seq
  BY <1>2, <1>3, <1>4, CommitFacts
<1>6. PICK top \in S : nextSeq' = top.seq + 1 /\ \A x \in S : x.seq <= top.seq
  BY <1>5
<1>7. nextSeq' \in Nat
  BY <1>1, <1>2, <1>6
<1>8. \A p \in pending \ RunAfter(c.seq) : p.seq > top.seq + 1
  BY <1>3, <1>6, RunHasNoHole DEF S
<1>9. BufferTypeOK'
  BY <1>2, <1>3, <1>5, <1>7 DEF BufferInv, BufferTypeOK
<1>10. BufferOrdered'
  BY <1>3, <1>5, <1>6, <1>7, <1>8, NoneAssumption DEF BufferOrdered
<1>11. GapClockRuns'
  BY <1>3 DEF BufferInv, GapClockRuns
<1> QED  BY <1>9, <1>10, <1>11 DEF BufferInv

LEMMA HoldKeepsInv ==
    ASSUME BufferInv, NEW c \in Chunks, HoldOutOfOrder(c)
    PROVE  BufferInv'
<1>1. c.seq \in Nat /\ c.t_offset_ms \in Nat
  BY ChunksAssumption
<1>2. /\ c.seq > Expected(c) /\ pending' = Held(c) /\ gapOpenedAt' = GapStart(c)
      /\ committed' = <<>> /\ sequenceGap' = FALSE
      /\ buffer' = buffer /\ nextSeq' = nextSeq
  BY DEF HoldOutOfOrder
<1>3. nextSeq # None /\ c.seq > nextSeq
  BY <1>1, <1>2 DEF Expected
<1>4. GapStart(c) \in Nat
  BY <1>1 DEF GapStart, BufferInv, BufferTypeOK
<1>5. BufferTypeOK'
  <2>1. pending' \subseteq Chunks /\ IsFiniteSet(pending')
    BY <1>2, CommittedSets
  <2> QED  BY <1>2, <1>4, <2>1, EmptyTranscript DEF BufferInv, BufferTypeOK
<1>6. BufferOrdered'
  BY <1>2, <1>3 DEF BufferInv, BufferOrdered, Held, LastSeq
<1>7. GapClockRuns'
  BY <1>2, <1>4, NoneAssumption DEF BufferInv, GapClockRuns, Held
<1> QED  BY <1>5, <1>6, <1>7 DEF BufferInv

LEMMA ForceKeepsInv ==
    ASSUME BufferInv, NEW c \in Chunks, ForceCommit(c)
    PROVE  BufferInv'
<1>1. \A x \in Chunks : x.seq \in Nat
  BY ChunksAssumption
<1>2. /\ c.seq > Expected(c) /\ Commit(Held(c)) /\ pending' = {}
      /\ gapOpenedAt' = None /\ sequenceGap' = TRUE
  BY DEF ForceCommit
<1>3. Held(c) \in SUBSET Chunks /\ IsFiniteSet(Held(c)) /\ Held(c) # {}
  BY CommittedSets DEF Held
<1>4. \A x \in Held(c) : nextSeq # None => x.seq >= nextSeq
  <2>1. nextSeq # None => c.seq > nextSeq /\ \A p \in pending : p.seq > nextSeq
    BY <1>2 DEF Expected, BufferInv, BufferOrdered
  <2> QED  BY <1>1, <1>3, <2>1 DEF Held, BufferInv, BufferTypeOK
<1>5. /\ buffer' \in Seq(Chunks) /\ committed' \in Seq(Chunks)
      /\ Ascending(buffer') /\ buffer' # <<>> /\ nextSeq' = LastSeq' + 1
      /\ \E top \in Held(c) : nextSeq' = top.seq + 1
  BY <1>2, <1>3, <1>4, CommitFacts
<1>6. nextSeq' \in Nat
  BY <1>1, <1>3, <1>5
<1>7. BufferTypeOK'
  BY <1>2, <1>5, <1>6, FS_EmptySet DEF BufferTypeOK
<1>8. BufferOrdered' /\ GapClockRuns'
  BY <1>2, <1>5, <1>6, NoneAssumption DEF BufferOrdered, GapClockRuns
<1> QED  BY <1>7, <1>8 DEF BufferInv

LEMMA StepKeepsBufferInv == BufferInv /\ [BufferNext]_bufferVars => BufferInv'
<1> SUFFICES ASSUME BufferInv, [BufferNext]_bufferVars PROVE BufferInv'
  OBVIOUS
<1>1. ASSUME NEW c \in Chunks, IgnoreStale(c) PROVE BufferInv'
  BY <1>1, EmptyTranscript
     DEF IgnoreStale, BufferInv, BufferTypeOK, BufferOrdered, GapClockRuns, LastSeq
<1>2. ASSUME NEW c \in Chunks, CommitInOrder(c) PROVE BufferInv'
  BY <1>2, CommitInOrderKeepsInv
<1>3. ASSUME NEW c \in Chunks, HoldOutOfOrder(c) PROVE BufferInv'
  BY <1>3, HoldKeepsInv
<1>4. ASSUME NEW c \in Chunks, ForceCommit(c) PROVE BufferInv'
  BY <1>4, ForceKeepsInv
<1>5. CASE UNCHANGED bufferVars
  BY <1>5 DEF bufferVars, BufferInv, BufferTypeOK, BufferOrdered, GapClockRuns, LastSeq
<1> QED
  BY <1>1, <1>2, <1>3, <1>4, <1>5 DEF BufferNext, Ingest

\* Type correctness of the buffer's state.
THEOREM BufferTypeCorrect == BufferSpec => []BufferTypeOK
<1>1. BufferSpec => []BufferInv
  BY InitBuffer, StepKeepsBufferInv, PTL DEF BufferSpec
<1>2. BufferInv => BufferTypeOK
  BY DEF BufferInv
<1> QED  BY <1>1, <1>2, PTL

\* The buffer stays strictly ascending and everything held lies above nextSeq,
\* for any arrival order, duplicates included.
THEOREM BufferStaysOrdered == BufferSpec => []BufferOrdered
<1>1. BufferSpec => []BufferInv
  BY InitBuffer, StepKeepsBufferInv, PTL DEF BufferSpec
<1>2. BufferInv => BufferOrdered
  BY DEF BufferInv
<1> QED  BY <1>1, <1>2, PTL

\* One chunk per held number, and the reorder clock runs exactly while
\* something is held.
THEOREM GapClockCorrect == BufferSpec => []GapClockRuns
<1>1. BufferSpec => []BufferInv
  BY InitBuffer, StepKeepsBufferInv, PTL DEF BufferSpec
<1>2. BufferInv => GapClockRuns
  BY DEF BufferInv
<1> QED  BY <1>1, <1>2, PTL

(***************************************************************************)
(* What a call may never do.                                               *)
(***************************************************************************)

\* What stood in the buffer stands there after a commit, and so does the batch.
LEMMA CommittedNumbers ==
    ASSUME BufferInv,
           NEW S \in SUBSET Chunks, IsFiniteSet(S), S # {}, Commit(S),
           \A x \in S : nextSeq # None => x.seq >= nextSeq
    PROVE  Range(buffer') = Range(buffer) \cup S
<1>1. /\ buffer \in Seq(Chunks) /\ committed' \in Seq(Chunks)
      /\ buffer' = buffer \o committed' /\ Range(committed') = S
  BY CommitFacts DEF BufferInv, BufferTypeOK
<1>2. ASSUME NEW x \in Range(buffer) \cup Range(committed')
      PROVE  x \in Range(buffer \o committed')
  <2>1. CASE x \in Range(buffer)
    <3>1. PICK i \in 1..Len(buffer) : buffer[i] = x
      BY <1>1, <2>1 DEF Range
    <3>2. i \in DOMAIN (buffer \o committed') /\ (buffer \o committed')[i] = x
      BY <1>1, <3>1
    <3> QED  BY <3>2 DEF Range
  <2>2. CASE x \in Range(committed')
    <3>1. PICK i \in 1..Len(committed') : committed'[i] = x
      BY <1>1, <2>2 DEF Range
    <3>2. /\ Len(buffer) + i \in DOMAIN (buffer \o committed')
          /\ (buffer \o committed')[Len(buffer) + i] = x
      BY <1>1, <3>1
    <3> QED  BY <3>2 DEF Range
  <2> QED  BY <1>2, <2>1, <2>2
<1>3. ASSUME NEW x \in Range(buffer \o committed')
      PROVE  x \in Range(buffer) \cup Range(committed')
  <2>1. PICK i \in 1..(Len(buffer) + Len(committed')) : (buffer \o committed')[i] = x
    BY <1>1, <1>3 DEF Range
  <2>2. CASE i <= Len(buffer)
    <3>1. i \in DOMAIN buffer /\ buffer[i] = x
      BY <1>1, <2>1, <2>2
    <3> QED  BY <3>1 DEF Range
  <2>3. CASE i > Len(buffer)
    <3>1. /\ i - Len(buffer) \in DOMAIN committed'
          /\ committed'[i - Len(buffer)] = x
      BY <1>1, <2>1, <2>3
    <3> QED  BY <3>1 DEF Range
  <2> QED  BY <1>1, <2>2, <2>3
<1> QED  BY <1>1, <1>2, <1>3

\* The batches of the two committing actions, with what Commit makes of them.
LEMMA InOrderBatch ==
    ASSUME BufferInv, NEW c \in Chunks, CommitInOrder(c)
    PROVE  /\ {c} \cup RunAfter(c.seq) \in SUBSET Chunks
           /\ IsFiniteSet({c} \cup RunAfter(c.seq))
           /\ Commit({c} \cup RunAfter(c.seq))
           /\ \A x \in {c} \cup RunAfter(c.seq) : nextSeq # None => x.seq >= nextSeq
<1>1. \A x \in Chunks : x.seq \in Nat
  BY ChunksAssumption
<1>2. /\ {c} \cup RunAfter(c.seq) \in SUBSET Chunks
      /\ IsFiniteSet({c} \cup RunAfter(c.seq))
      /\ RunAfter(c.seq) \subseteq pending /\ pending \subseteq Chunks
  BY CommittedSets DEF BufferInv, BufferTypeOK
<1>3. c.seq = Expected(c) /\ Commit({c} \cup RunAfter(c.seq))
  BY DEF CommitInOrder
<1>4. nextSeq # None => nextSeq \in Nat /\ c.seq = nextSeq
                        /\ \A p \in pending : p.seq > nextSeq
  BY <1>3 DEF Expected, BufferInv, BufferOrdered, BufferTypeOK
<1> QED  BY <1>1, <1>2, <1>3, <1>4

LEMMA ForcedBatch ==
    ASSUME BufferInv, NEW c \in Chunks, ForceCommit(c)
    PROVE  /\ Held(c) \in SUBSET Chunks
           /\ IsFiniteSet(Held(c)) /\ Held(c) # {}
           /\ Commit(Held(c))
           /\ nextSeq \in Nat
           /\ \A x \in Held(c) : x.seq > nextSeq
<1>1. \A x \in Chunks : x.seq \in Nat
  BY ChunksAssumption
<1>2. c.seq > Expected(c) /\ Commit(Held(c))
  BY DEF ForceCommit
<1>3. nextSeq # None /\ c.seq > nextSeq
  BY <1>1, <1>2 DEF Expected
<1>4. nextSeq \in Nat /\ \A p \in pending : p.seq > nextSeq
  BY <1>3 DEF BufferInv, BufferOrdered, BufferTypeOK
<1>5. Held(c) \in SUBSET Chunks /\ IsFiniteSet(Held(c)) /\ Held(c) # {}
  BY CommittedSets DEF Held
<1> QED  BY <1>2, <1>3, <1>4, <1>5 DEF Held

LEMMA HeldNeverLostStep ==
    BufferInv /\ [BufferNext]_bufferVars
      => Seqs(pending) \subseteq Seqs(pending') \cup Seqs(Range(buffer'))
<1> SUFFICES ASSUME BufferInv, [BufferNext]_bufferVars
             PROVE  Seqs(pending) \subseteq Seqs(pending') \cup Seqs(Range(buffer'))
  OBVIOUS
<1>1. ASSUME NEW c \in Chunks, CommitInOrder(c)
      PROVE  Seqs(pending) \subseteq Seqs(pending') \cup Seqs(Range(buffer'))
  <2>1. Range(buffer') = Range(buffer) \cup ({c} \cup RunAfter(c.seq))
    BY <1>1, InOrderBatch, CommittedNumbers
  <2> QED  BY <1>1, <2>1 DEF CommitInOrder, Seqs
<1>2. ASSUME NEW c \in Chunks, ForceCommit(c)
      PROVE  Seqs(pending) \subseteq Seqs(pending') \cup Seqs(Range(buffer'))
  <2>1. Range(buffer') = Range(buffer) \cup Held(c)
    <3>1. \A x \in Held(c) : nextSeq # None => x.seq >= nextSeq
      BY <1>2, ForcedBatch, ChunksAssumption
    <3> QED  BY <1>2, <3>1, ForcedBatch, CommittedNumbers
  <2>2. Seqs(pending) \subseteq Seqs(Held(c))
    BY DEF Seqs, Held
  <2> QED  BY <2>1, <2>2 DEF Seqs
<1>3. ASSUME NEW c \in Chunks, HoldOutOfOrder(c)
      PROVE  Seqs(pending) \subseteq Seqs(pending')
  BY <1>3 DEF HoldOutOfOrder, Seqs, Held
<1>4. ASSUME NEW c \in Chunks, IgnoreStale(c) PROVE pending' = pending
  BY <1>4 DEF IgnoreStale
<1>5. CASE UNCHANGED bufferVars
  BY <1>5 DEF bufferVars
<1> QED  BY <1>1, <1>2, <1>3, <1>4, <1>5 DEF BufferNext, Ingest

\* A chunk held back is never dropped.
THEOREM NothingHeldIsLost == BufferSpec => HeldNeverLost
<1>1. BufferSpec => []BufferInv
  BY InitBuffer, StepKeepsBufferInv, PTL DEF BufferSpec
<1> QED  BY <1>1, HeldNeverLostStep, PTL DEF BufferSpec, HeldNeverLost

LEMMA RefinementStep == BufferInv /\ [BufferNext]_bufferVars => [Log!Next]_buffer
<1> SUFFICES ASSUME BufferInv, [BufferNext]_bufferVars PROVE [Log!Next]_buffer
  OBVIOUS
<1>1. ASSUME NEW S \in SUBSET Chunks, IsFiniteSet(S), S # {}, Commit(S),
             \A x \in S : nextSeq # None => x.seq >= nextSeq
      PROVE  Log!Next
  <2>1. /\ buffer \in Seq(Chunks) /\ buffer' \in Seq(Chunks)
        /\ committed' \in Seq(Chunks) /\ committed' # <<>>
        /\ buffer' = buffer \o committed' /\ Ascending(buffer')
    BY <1>1, CommitFacts DEF BufferInv, BufferTypeOK
  <2>2. Len(committed') \in Nat \ {0} /\ Len(buffer) < Len(buffer')
    BY <2>1
  <2>3. SubSeq(buffer', 1, Len(buffer)) = buffer
    BY <2>1
  <2>4. Log!Ascending(buffer')
    BY <2>1 DEF Ascending, Log!Ascending
  <2> QED  BY <2>1, <2>2, <2>3, <2>4 DEF Log!Next, Log!AppendBatch
<1>2. ASSUME NEW c \in Chunks, CommitInOrder(c) PROVE Log!Next
  BY <1>1, <1>2, InOrderBatch
<1>3. ASSUME NEW c \in Chunks, ForceCommit(c) PROVE Log!Next
  <2>1. \A x \in Held(c) : nextSeq # None => x.seq >= nextSeq
    BY <1>3, ForcedBatch, ChunksAssumption
  <2> QED  BY <1>1, <1>3, <2>1, ForcedBatch
<1>4. ASSUME NEW c \in Chunks, HoldOutOfOrder(c) \/ IgnoreStale(c)
      PROVE  UNCHANGED buffer
  BY <1>4 DEF HoldOutOfOrder, IgnoreStale
<1>5. CASE UNCHANGED bufferVars
  BY <1>5 DEF bufferVars
<1> QED  BY <1>2, <1>3, <1>4, <1>5 DEF BufferNext, Ingest

\* The buffer implements the append-only ordered log its readers rely on.
THEOREM BufferImplementsOrderedLog == BufferSpec => ImplementsOrderedLog
<1>1. BufferSpec => []BufferInv
  BY InitBuffer, StepKeepsBufferInv, PTL DEF BufferSpec
<1>2. BufferInit => Log!Init
  BY DEF BufferInit, Log!Init
<1> QED
  BY <1>1, <1>2, RefinementStep, PTL DEF BufferSpec, ImplementsOrderedLog, Log!Spec

\* A number is newly skipped by a step only if it lies in or above the batch.
LEMMA SkippedByCommit ==
    ASSUME BufferInv, buffer # <<>>,
           NEW S \in SUBSET Chunks, IsFiniteSet(S), S # {}, Commit(S),
           \A x \in S : nextSeq # None => x.seq >= nextSeq
    PROVE  /\ Skipped' = Skipped \cup ((nextSeq .. nextSeq' - 1) \ Seqs(S))
           /\ nextSeq \in Nat /\ nextSeq' \in Nat /\ nextSeq < nextSeq'
           /\ \A n \in Skipped : n < nextSeq
<1>1. \A x \in Chunks : x.seq \in Nat
  BY ChunksAssumption
<1>2. /\ buffer \in Seq(Chunks) /\ Len(buffer) \in Nat \ {0}
      /\ nextSeq = LastSeq + 1 /\ Ascending(buffer)
  BY DEF BufferInv, BufferTypeOK, BufferOrdered
<1>3. /\ buffer[1] \in Chunks /\ buffer[Len(buffer)] \in Chunks
      /\ LastSeq \in Nat /\ buffer[1].seq \in Nat /\ nextSeq \in Nat
      /\ buffer[1].seq <= LastSeq
  <2>1. /\ buffer[1] \in Chunks /\ buffer[Len(buffer)] \in Chunks
        /\ DOMAIN buffer = 1..Len(buffer)
    BY <1>2
  <2>2. Len(buffer) = 1 \/ buffer[1].seq < buffer[Len(buffer)].seq
    BY <1>2, <2>1 DEF Ascending
  <2> QED  BY <1>1, <1>2, <2>1, <2>2 DEF LastSeq
<1>4. /\ committed' \in Seq(Chunks) /\ buffer' = buffer \o committed'
      /\ buffer' # <<>> /\ nextSeq' = LastSeq' + 1
      /\ \E top \in S : nextSeq' = top.seq + 1
  BY CommitFacts
<1>5. nextSeq' \in Nat /\ nextSeq < nextSeq' /\ LastSeq' = nextSeq' - 1
  <2>1. PICK top \in S : nextSeq' = top.seq + 1
    BY <1>4
  <2>2. top.seq \in Nat /\ top.seq >= nextSeq
    BY <1>1, <1>3, <2>1, NoneAssumption
  <2>3. PICK last \in Chunks : LastSeq' = last.seq
    <3>1. buffer' \in Seq(Chunks) /\ Len(buffer') \in Nat \ {0}
      BY CommitFacts
    <3> QED  BY <3>1 DEF LastSeq
  <2>4. nextSeq \in Nat
    BY <1>1, <1>3
  <2>5. nextSeq' \in Nat /\ nextSeq < nextSeq'
    BY <2>1, <2>2, <2>4
  <2>6. last.seq \in Nat
    BY <2>3, ChunksAssumption
  <2>7. nextSeq' = LastSeq' + 1
    BY <1>4
  <2> QED  BY <2>3, <2>5, <2>6, <2>7
<1>6. buffer'[1] = buffer[1]
  BY <1>2, <1>4
<1>7. Range(buffer') = Range(buffer) \cup S
  BY CommittedNumbers
<1>8. \A n \in Seqs(Range(buffer)) : n \in Nat /\ n < nextSeq
  <2> SUFFICES ASSUME NEW x \in Range(buffer) PROVE x.seq \in Nat /\ x.seq < nextSeq
    BY DEF Seqs
  <2>1. PICK i \in 1..Len(buffer) : buffer[i] = x
    BY <1>2 DEF Range
  <2> QED  BY <1>1, <1>2, <2>1, BufferBelowNext
<1>9. \A n \in Seqs(S) : n \in Nat /\ n >= nextSeq
  BY <1>1, <1>3, NoneAssumption DEF Seqs
<1>10. Seqs(Range(buffer')) = Seqs(Range(buffer)) \cup Seqs(S)
  BY <1>7 DEF Seqs
<1>11. Skipped = (buffer[1].seq .. nextSeq - 1) \ Seqs(Range(buffer))
  BY <1>2, <1>3 DEF Skipped
<1>12. Skipped' = (buffer[1].seq .. nextSeq' - 1)
                    \ (Seqs(Range(buffer)) \cup Seqs(S))
  BY <1>4, <1>5, <1>6, <1>10 DEF Skipped
<1>13. buffer[1].seq \in Nat /\ nextSeq \in Nat /\ buffer[1].seq < nextSeq
  BY <1>2, <1>3
<1>14. Skipped' = Skipped \cup ((nextSeq .. nextSeq' - 1) \ Seqs(S))
  BY <1>5, <1>8, <1>9, <1>11, <1>12, <1>13
<1> QED  BY <1>3, <1>5, <1>11, <1>14

LEMMA FirstOfInterval ==
    ASSUME NEW a \in Nat, NEW b \in Nat, a < b
    PROVE  a \in a .. b - 1
OBVIOUS

LEMMA GapReportedStep ==
    BufferInv /\ [BufferNext]_bufferVars
      => (sequenceGap' <=> Skipped' # Skipped) \/ UNCHANGED bufferVars
<1> SUFFICES ASSUME BufferInv, BufferNext
             PROVE  sequenceGap' <=> Skipped' # Skipped
  OBVIOUS
<1>1. \A x \in Chunks : x.seq \in Nat
  BY ChunksAssumption
<1>2. ASSUME NEW c \in Chunks, CommitInOrder(c)
      PROVE  ~sequenceGap' /\ Skipped' = Skipped
  <2> DEFINE S == {c} \cup RunAfter(c.seq)
  <2>1. /\ S \in SUBSET Chunks /\ IsFiniteSet(S) /\ S # {} /\ Commit(S)
        /\ \A x \in S : nextSeq # None => x.seq >= nextSeq
    BY <1>2, InOrderBatch
  <2>2. c.seq = Expected(c) /\ sequenceGap' = FALSE
    BY <1>2 DEF CommitInOrder
  <2> HIDE DEF S
  <2>3. PICK top \in S : nextSeq' = top.seq + 1 /\ \A x \in S : x.seq <= top.seq
    BY <2>1, CommitFacts
  <2>4. \A m \in c.seq..top.seq : m \in Seqs(S)
    BY <2>2, <2>3, RunHasNoHole DEF S
  <2>5. CASE buffer # <<>>
    <3>1. c.seq = nextSeq
      BY <2>2, <2>5 DEF Expected, BufferInv, BufferOrdered
    <3>2. Skipped' = Skipped \cup ((nextSeq .. nextSeq' - 1) \ Seqs(S))
      BY <2>1, <2>5, SkippedByCommit
    <3>3. top.seq \in Nat /\ nextSeq' - 1 = top.seq
      BY <1>1, <2>1, <2>3
    <3> QED  BY <2>2, <2>4, <3>1, <3>2, <3>3
  <2>6. CASE buffer = <<>>
    <3>1. pending = {} /\ RunAfter(c.seq) = {}
      BY <2>6 DEF BufferInv, BufferOrdered, RunAfter
    <3>2. S = {c} /\ top = c
      BY <3>1 DEF S
    <3>3. Range(buffer') = {c}
      BY <2>1, <2>6, <3>2, CommittedNumbers DEF Range
    <3>4. buffer' \in Seq(Chunks) /\ Len(buffer') \in Nat \ {0}
      BY <2>1, CommitFacts
    <3>5. buffer'[1] = c /\ buffer'[Len(buffer')] = c
      <4>1. 1 \in DOMAIN buffer' /\ Len(buffer') \in DOMAIN buffer'
        BY <3>4
      <4>2. buffer'[1] \in Range(buffer') /\ buffer'[Len(buffer')] \in Range(buffer')
        BY <4>1 DEF Range
      <4> QED  BY <3>3, <4>2
    <3>6. Skipped' = (c.seq .. c.seq) \ Seqs({c})
      BY <2>1, <3>3, <3>5, CommitFacts DEF Skipped, LastSeq
    <3>7. Skipped' = {}
      BY <1>1, <3>6 DEF Seqs
    <3> QED  BY <2>2, <2>6, <3>7 DEF Skipped
  <2> QED  BY <2>5, <2>6
<1>3. ASSUME NEW c \in Chunks, ForceCommit(c)
      PROVE  sequenceGap' /\ Skipped' # Skipped
  <2>1. /\ Held(c) \in SUBSET Chunks /\ IsFiniteSet(Held(c)) /\ Held(c) # {}
        /\ Commit(Held(c)) /\ nextSeq \in Nat
        /\ \A x \in Held(c) : x.seq > nextSeq
    BY <1>3, ForcedBatch
  <2>2. buffer # <<>> /\ \A x \in Held(c) : nextSeq # None => x.seq >= nextSeq
    BY <1>1, <2>1, NoneAssumption DEF BufferInv, BufferOrdered
  <2>3. /\ Skipped' = Skipped \cup ((nextSeq .. nextSeq' - 1) \ Seqs(Held(c)))
        /\ nextSeq' \in Nat /\ nextSeq < nextSeq'
        /\ \A n \in Skipped : n < nextSeq
    BY <2>1, <2>2, SkippedByCommit
  <2>4. nextSeq \notin Seqs(Held(c))
    BY <1>1, <2>1 DEF Seqs
  <2>5. nextSeq \in Skipped' /\ nextSeq \notin Skipped
    <3>1. nextSeq \in (nextSeq .. nextSeq' - 1) \ Seqs(Held(c))
      <4>1. nextSeq \in Nat /\ nextSeq' \in Nat /\ nextSeq < nextSeq'
        BY <2>1, <2>3
      <4>2. nextSeq \in nextSeq .. nextSeq' - 1
        BY <4>1, FirstOfInterval
      <4> QED  BY <2>4, <4>2
    <3>2. nextSeq \notin Skipped
      BY <2>1, <2>3
    <3> QED  BY <2>3, <3>1, <3>2
  <2>6. sequenceGap'
    BY <1>3 DEF ForceCommit
  <2> QED  BY <2>5, <2>6
<1>4. ASSUME NEW c \in Chunks, HoldOutOfOrder(c) \/ IgnoreStale(c)
      PROVE  ~sequenceGap' /\ Skipped' = Skipped
  BY <1>4 DEF HoldOutOfOrder, IgnoreStale, Skipped, LastSeq
<1> QED  BY <1>2, <1>3, <1>4 DEF BufferNext, Ingest

\* sequence_gap is returned exactly by the calls that jump over numbers.
THEOREM GapsAreReported == BufferSpec => GapReported
<1>1. BufferSpec => []BufferInv
  BY InitBuffer, StepKeepsBufferInv, PTL DEF BufferSpec
<1> QED  BY <1>1, GapReportedStep, PTL DEF BufferSpec, GapReported

-----------------------------------------------------------------------------
(***************************************************************************)
(* The sessions.                                                           *)
(***************************************************************************)

Answering(c) == pc[c] \in {"answer", "broken"}

LockInv ==
    /\ \A c \in Conns : pc[c] = "waiting" => frame[c] \in Chunks
    /\ \A c \in Conns : pc[c] = "waiting" \/ InTurn(c)
                          => \E i \in 1..Len(lockQueue) : lockQueue[i] = c
    /\ \A c \in Conns : InTurn(c) => lockQueue # <<>> /\ Head(lockQueue) = c

PassInv ==
    /\ PassesFollowBuffer
    /\ \A c \in Conns : InTurn(c) => todo[c] # <<>>

VersionInv ==
    /\ VersionChain
    /\ \A c \in Conns : Answering(c) => prior[c] = Len(versions)

TraceInv == \A c \in Conns : InTurn(c) => trace[c] = turn /\ turn # 0

TurnsAscend ==
    \A i, j \in DOMAIN eventLog :
        i < j /\ eventLog[i].turn # 0 /\ eventLog[j].turn # 0
            => eventLog[i].turn <= eventLog[j].turn

\* The trace_id of the event at place i: its turn's, or one that is that place's.
Filed(e, i) == IF StandsAlone(e) THEN e.trace = -i ELSE e.turn # 0 /\ e.trace = e.turn

EventInv ==
    /\ TurnsAscend
    /\ \A i \in 1..Len(eventLog) : eventLog[i].turn <= turn
    /\ \A i \in 1..Len(eventLog) : Filed(eventLog[i], i)

SessionInv == /\ TypeOK /\ BufferInv /\ LockInv /\ PassInv /\ VersionInv
              /\ TraceInv /\ EventInv

(***************************************************************************)
(* Types.                                                                  *)
(***************************************************************************)

LEMMA EventType ==
    ASSUME NEW kind \in Kinds, NEW c \in Conns, NEW t \in Nat, NEW no \in Nat
    PROVE  Event(kind, c, t, no) \in Events
BY DEF Event, Events, Stages

LEMMA OwnIdType ==
    ASSUME TypeOK, NEW c \in Conns, NEW t \in Nat, NEW stage \in {"stream", "controller"}
    PROVE  ErrorEvent(c, stage, t) \in Events /\ ResyncEvent(c) \in Events
<1>1. NewId \in Int /\ Len(versions) \in Nat
  BY DEF TypeOK, NewId
<1> QED  BY <1>1 DEF ErrorEvent, ResyncEvent, Events, Stages, Kinds

LEMMA EmitType ==
    ASSUME TypeOK, NEW c \in Conns, NEW e \in Seq(Events), Emit(c, e)
    PROVE  eventLog' \in Seq(Events) /\ queue' \in [Conns -> Seq(Events)]
<1>1. eventLog \in Seq(Events) /\ queue \in [Conns -> Seq(Events)]
  BY DEF TypeOK
<1>2. queue[c] \in Seq(Events)
  BY <1>1
<1>3. eventLog \o e \in Seq(Events) /\ queue[c] \o e \in Seq(Events)
  BY <1>1, <1>2
<1> QED  BY <1>1, <1>3 DEF Emit

\* An Ingest appends what it returns to the buffer.
LEMMA IngestAppends ==
    ASSUME BufferInv, NEW chunk \in Chunks, Ingest(chunk)
    PROVE  /\ BufferInv'
           /\ committed' \in Seq(Chunks)
           /\ buffer' = buffer \o committed'
<1>1. BufferInv'
  BY StepKeepsBufferInv DEF BufferNext
<1>2. committed' \in Seq(Chunks) /\ buffer \in Seq(Chunks)
  BY <1>1 DEF BufferInv, BufferTypeOK
<1>3. CASE CommitInOrder(chunk)
  <2> DEFINE S == {chunk} \cup RunAfter(chunk.seq)
  <2>1. /\ S \in SUBSET Chunks /\ IsFiniteSet(S) /\ S # {} /\ Commit(S)
        /\ \A x \in S : nextSeq # None => x.seq >= nextSeq
    BY <1>3, InOrderBatch
  <2> HIDE DEF S
  <2> QED  BY <1>1, <1>2, <2>1, CommitFacts
<1>4. CASE ForceCommit(chunk)
  <2>1. \A x \in Held(chunk) : nextSeq # None => x.seq >= nextSeq
    BY <1>4, ForcedBatch, ChunksAssumption
  <2> QED  BY <1>1, <1>2, <1>4, <2>1, ForcedBatch, CommitFacts
<1>5. CASE IgnoreStale(chunk) \/ HoldOutOfOrder(chunk)
  BY <1>1, <1>2, <1>5 DEF IgnoreStale, HoldOutOfOrder
<1> QED  BY <1>1, <1>2, <1>3, <1>4, <1>5 DEF Ingest

Places == {"new", "accepted", "receiving", "waiting",
           "controller", "retrieve", "answer", "broken", "gone"}

LEMMA GoToType ==
    ASSUME TypeOK, NEW c \in Conns, NEW place \in Places, GoTo(c, place)
    PROVE  /\ pc' \in [Conns -> Places]
           /\ pc'[c] = place
           /\ \A d \in Conns \ {c} : pc'[d] = pc[d]
BY DEF TypeOK, GoTo, Places

LEMMA PassDoneType ==
    ASSUME TypeOK, NEW c \in Conns, todo[c] # <<>>, lockQueue # <<>>, PassDone(c)
    PROVE  /\ pc' \in [Conns -> Places]
           /\ todo' \in [Conns -> Seq(Chunks)]
           /\ passed' \in Seq(Chunks)
           /\ lockQueue' \in Seq(Conns)
<1>1. /\ todo \in [Conns -> Seq(Chunks)] /\ passed \in Seq(Chunks)
      /\ lockQueue \in Seq(Conns)
  BY DEF TypeOK
<1>2. Head(todo[c]) \in Chunks /\ Tail(todo[c]) \in Seq(Chunks)
  <2>1. todo[c] \in Seq(Chunks)
    BY <1>1
  <2> QED  BY <2>1
<1>3. Tail(lockQueue) \in Seq(Conns)
  BY <1>1
<1>4. pc' \in [Conns -> Places] /\ lockQueue' \in Seq(Conns)
  BY <1>1, <1>3, GoToType DEF PassDone, Release, Places
<1> QED  BY <1>1, <1>2, <1>4 DEF PassDone

LEMMA TypeStep ==
    ASSUME SessionInv, [Next]_vars
    PROVE  TypeOK'
<1> USE DEF SessionInv
<1>1. ASSUME NEW c \in Conns, Connect(c) PROVE TypeOK'
  BY <1>1, GoToType DEF Connect, TypeOK, BufferTypeOK, bufferVars, turnVars, Places
<1>2. ASSUME NEW c \in Conns, MarkConnected(c) PROVE TypeOK'
  <2>1. ResyncEvent(c) \in Events
    BY OwnIdType
  <2>2. <<ResyncEvent(c)>> \in Seq(Events)
    BY <2>1
  <2>3. Resync(c) \in Seq(Events)
    <3>1. <<>> \in Seq(Events)
      OBVIOUS
    <3> QED  BY <2>2, <3>1 DEF Resync
  <2>4. eventLog' \in Seq(Events) /\ queue' \in [Conns -> Seq(Events)]
    BY <1>2, <2>3, EmitType DEF MarkConnected
  <2> QED
    BY <1>2, <2>4, GoToType
       DEF MarkConnected, TypeOK, BufferTypeOK, bufferVars, turnVars, Places
<1>3. ASSUME NEW c \in Conns, Disconnect(c) PROVE TypeOK'
  BY <1>3 DEF Disconnect, TypeOK, BufferTypeOK, bufferVars, turnVars
<1>4. ASSUME NEW c \in Conns, Leave(c)
      PROVE  pc' \in [Conns -> Places] /\ queue' \in [Conns -> Seq(Events)]
  BY <1>4, GoToType DEF Leave, Places, TypeOK
<1>5. ASSUME NEW c \in Conns, NoticeDisconnect(c) PROVE TypeOK'
  BY <1>4, <1>5 DEF NoticeDisconnect, TypeOK, BufferTypeOK, bufferVars, turnVars,
                    clientVars, Places
<1>6. ASSUME NEW c \in Conns, Deliver(c) PROVE TypeOK'
  <2>1. queue[c] \in Seq(Events) /\ queue[c] # <<>>
    BY <1>6 DEF Deliver, TypeOK
  <2>2. Head(queue[c]) \in Events /\ Tail(queue[c]) \in Seq(Events)
    BY <2>1
  <2>3. Head(queue[c]).no \in Nat
    BY <2>2 DEF Events
  <2> QED
    BY <1>6, <2>2, <2>3 DEF Deliver, TypeOK, BufferTypeOK, bufferVars, turnVars
<1>7. ASSUME NEW c \in Conns, Receive(c) PROVE sent' \in 0..MaxFrames
  BY <1>7, MaxFramesAssumption DEF Receive, TypeOK
<1>8. ASSUME NEW c \in Conns, NEW chunk \in Chunks, ReceiveChunk(c, chunk)
      PROVE  TypeOK'
  <2>1. Append(lockQueue, c) \in Seq(Conns)
    BY DEF TypeOK
  <2> QED
    BY <1>7, <1>8, <2>1, GoToType
       DEF ReceiveChunk, TypeOK, BufferTypeOK, bufferVars, Places
<1>9. ASSUME NEW c \in Conns, ReceiveInvalidFrame(c) PROVE TypeOK'
  <2>1. <<ErrorEvent(c, "stream", 0)>> \in Seq(Events)
    BY OwnIdType
  <2>2. eventLog' \in Seq(Events) /\ queue' \in [Conns -> Seq(Events)]
    BY <1>9, <2>1, EmitType DEF ReceiveInvalidFrame
  <2> QED
    BY <1>7, <1>9, <2>2
       DEF ReceiveInvalidFrame, TypeOK, BufferTypeOK, bufferVars, turnVars
<1>10. ASSUME NEW c \in Conns, ReceiveUndecodable(c) PROVE TypeOK'
  BY <1>4, <1>7, <1>10
     DEF ReceiveUndecodable, TypeOK, BufferTypeOK, bufferVars, turnVars, Places
<1>11. ASSUME NEW c \in Conns, BeginTurn(c) PROVE TypeOK'
  <2>1. frame[c] \in Chunks /\ Ingest(frame[c])
    BY <1>11 DEF BeginTurn, LockInv
  <2>2. BufferTypeOK' /\ committed' \in Seq(Chunks)
    BY <2>1, IngestAppends DEF BufferInv
  <2>3. turn' \in Nat /\ trace' \in [Conns -> Nat]
    BY <1>11 DEF BeginTurn, TypeOK
  <2>4. <<ErrorEvent(c, "stream", turn')>> \in Seq(Events) /\ <<>> \in Seq(Events)
    BY <2>3, OwnIdType
  <2>5. eventLog' \in Seq(Events) /\ queue' \in [Conns -> Seq(Events)]
    BY <1>11, <2>4, EmitType DEF BeginTurn
  <2>6. lockQueue # <<>> /\ lockQueue \in Seq(Conns)
    BY <1>11 DEF BeginTurn, LockInv, TypeOK
  <2>7. Tail(lockQueue) \in Seq(Conns)
    BY <2>6
  <2>8. pc' \in [Conns -> Places] /\ lockQueue' \in Seq(Conns)
    BY <1>11, <2>6, <2>7, GoToType DEF BeginTurn, Release, Places
  <2> QED
    BY <1>11, <2>2, <2>3, <2>5, <2>8 DEF BeginTurn, TypeOK, clientVars, Places
<1>12. ASSUME NEW c \in Conns, NEW kind \in Kinds, NEW no \in Nat,
              Emit(c, <<Event(kind, c, trace[c], no)>>)
       PROVE  eventLog' \in Seq(Events) /\ queue' \in [Conns -> Seq(Events)]
  <2>1. <<Event(kind, c, trace[c], no)>> \in Seq(Events)
    BY EventType DEF TypeOK
  <2> QED  BY <1>12, <2>1, EmitType
<1>13. ASSUME NEW c \in Conns, InTurn(c), PassDone(c)
       PROVE  /\ pc' \in [Conns -> Places]
              /\ todo' \in [Conns -> Seq(Chunks)]
              /\ passed' \in Seq(Chunks)
              /\ lockQueue' \in Seq(Conns)
  BY <1>13, PassDoneType DEF PassInv, LockInv
<1>14. ASSUME NEW c \in Conns, DecideNotToRetrieve(c) PROVE TypeOK'
  <2>1. eventLog' \in Seq(Events) /\ queue' \in [Conns -> Seq(Events)]
    BY <1>12, <1>14 DEF DecideNotToRetrieve, Kinds
  <2> QED
    BY <1>13, <1>14, <2>1 DEF DecideNotToRetrieve, InTurn, TypeOK, BufferTypeOK,
                             bufferVars, clientVars, Places
<1>15. ASSUME NEW c \in Conns, DecideToRetrieve(c) PROVE TypeOK'
  <2>1. eventLog' \in Seq(Events) /\ queue' \in [Conns -> Seq(Events)]
    BY <1>12, <1>15 DEF DecideToRetrieve, Kinds
  <2> QED
    BY <1>15, <2>1, GoToType DEF DecideToRetrieve, TypeOK, BufferTypeOK,
                                bufferVars, turnVars, clientVars, Places
<1>16. ASSUME NEW c \in Conns, BeginAnswer(c) PROVE TypeOK'
  <2>1. versions # <<>> => versions[Len(versions)].version_no \in Nat
    <3>1. ASSUME versions # <<>> PROVE versions[Len(versions)] \in Versions
      BY <3>1 DEF TypeOK
    <3> QED  BY <3>1 DEF Versions
  <2> QED
    BY <1>16, <2>1, GoToType DEF BeginAnswer, TypeOK, BufferTypeOK,
                                bufferVars, clientVars, Places
<1>17. ASSUME NEW c \in Conns, LackEvidence(c) PROVE TypeOK'
  <2>1. eventLog' \in Seq(Events) /\ queue' \in [Conns -> Seq(Events)]
    BY <1>12, <1>17 DEF LackEvidence, Kinds
  <2> QED
    BY <1>13, <1>17, <2>1 DEF LackEvidence, InTurn, TypeOK, BufferTypeOK,
                             bufferVars, clientVars, Places
<1>18. ASSUME NEW c \in Conns, GenerationBreaks(c) PROVE TypeOK'
  <2>1. eventLog' \in Seq(Events) /\ queue' \in [Conns -> Seq(Events)]
    BY <1>12, <1>18 DEF GenerationBreaks, Kinds
  <2> QED
    BY <1>18, <2>1, GoToType DEF GenerationBreaks, TypeOK, BufferTypeOK,
                                bufferVars, turnVars, clientVars, Places
<1>19. ASSUME NEW c \in Conns, CommitAnswer(c) PROVE TypeOK'
  <2>1. prior[c] \in Nat /\ prior[c] + 1 \in Nat
    BY DEF TypeOK
  <2>2. eventLog' \in Seq(Events) /\ queue' \in [Conns -> Seq(Events)]
    BY <1>12, <1>19, <2>1 DEF CommitAnswer, Kinds
  <2>3. VersionAfter(prior[c]) \in Versions
    BY <2>1 DEF VersionAfter, Versions
  <2>4. versions' \in Seq(Versions)
    BY <1>19, <2>3 DEF CommitAnswer, TypeOK
  <2> QED
    BY <1>13, <1>19, <2>2, <2>4 DEF CommitAnswer, InTurn, TypeOK, BufferTypeOK,
                                   bufferVars, clientVars, Places
<1>20. ASSUME NEW c \in Conns, AnswerEmpty(c) PROVE TypeOK'
  BY <1>13, <1>20 DEF AnswerEmpty, InTurn, TypeOK, BufferTypeOK, bufferVars,
                     clientVars, Places
<1>21. ASSUME NEW c \in Conns, StageFails(c) PROVE TypeOK'
  <2>1. <<ErrorEvent(c, "controller", trace[c])>> \in Seq(Events)
    BY OwnIdType DEF TypeOK
  <2>2. eventLog' \in Seq(Events) /\ queue' \in [Conns -> Seq(Events)]
    BY <1>21, <2>1, EmitType DEF StageFails
  <2> QED
    BY <1>13, <1>21, <2>2 DEF StageFails, TypeOK, BufferTypeOK,
                             bufferVars, clientVars, Places
<1>22. CASE UNCHANGED vars
  BY <1>22 DEF vars, TypeOK, BufferTypeOK, bufferVars, turnVars, clientVars
<1> QED
  BY <1>1, <1>2, <1>3, <1>5, <1>6, <1>8, <1>9, <1>10, <1>11, <1>14, <1>15,
     <1>16, <1>17, <1>18, <1>19, <1>20, <1>21, <1>22 DEF Next, TurnStep, PassStep

LEMMA BufferStep ==
    ASSUME SessionInv, [Next]_vars
    PROVE  BufferInv'
<1>1. ASSUME NEW c \in Conns, BeginTurn(c) PROVE BufferInv'
  <2>1. frame[c] \in Chunks /\ Ingest(frame[c])
    BY <1>1 DEF BeginTurn, SessionInv, LockInv
  <2> QED  BY <2>1, IngestAppends DEF SessionInv
<1>2. CASE UNCHANGED bufferVars
  BY <1>2, StepKeepsBufferInv DEF SessionInv
<1> QED
  BY <1>1, <1>2 DEF Next, TurnStep, PassStep, Connect, MarkConnected, Disconnect,
     NoticeDisconnect, Deliver, ReceiveChunk, ReceiveInvalidFrame,
     ReceiveUndecodable, DecideNotToRetrieve, DecideToRetrieve, BeginAnswer,
     LackEvidence, GenerationBreaks, CommitAnswer, AnswerEmpty, StageFails, vars

(***************************************************************************)
(* The lock: what each kind of step does to it and to the batch.           *)
(***************************************************************************)

\* The waiting and the connection in a turn, given that the queue's tail is
\* what remains of it.
LEMMA TailKeepsOthers ==
    ASSUME NEW c \in Conns, lockQueue \in Seq(Conns), lockQueue # <<>>,
           Head(lockQueue) = c, lockQueue' = Tail(lockQueue),
           NEW d \in Conns \ {c}, \E i \in 1..Len(lockQueue) : lockQueue[i] = d
    PROVE  \E i \in 1..Len(lockQueue') : lockQueue'[i] = d
<1>1. PICK i \in 1..Len(lockQueue) : lockQueue[i] = d
  OBVIOUS
<1>2. i # 1
  BY <1>1
<1>3. i - 1 \in 1..Len(Tail(lockQueue)) /\ Tail(lockQueue)[i - 1] = lockQueue[i]
  BY <1>1, <1>2
<1> QED  BY <1>1, <1>3

\* At most one connection is in a turn.
LEMMA OneTurn ==
    ASSUME SessionInv, NEW c \in Conns, NEW d \in Conns, InTurn(c), InTurn(d)
    PROVE  c = d
BY DEF SessionInv, LockInv

\* Steps that leave the turns alone.
LEMMA QuietStep ==
    ASSUME SessionInv, UNCHANGED turnVars, UNCHANGED bufferVars,
           \A c \in Conns : /\ pc'[c] = "waiting" => pc[c] = "waiting"
                            /\ InTurn(c)' <=> InTurn(c)
                            /\ Answering(c)' => Answering(c)
    PROVE  LockInv' /\ PassInv' /\ VersionInv'
BY DEF SessionInv, LockInv, PassInv, PassesFollowBuffer, VersionInv, VersionChain,
       turnVars, bufferVars, InTurn, Answering

\* The first of what is left moves to the end of what is done.
LEMMA MoveHead ==
    ASSUME NEW S, NEW done \in Seq(S), NEW left \in Seq(S), left # <<>>
    PROVE  done \o left = Append(done, Head(left)) \o Tail(left)
OBVIOUS

\* A pass that ends, with a decision, an answer or an exception.
LEMMA PassDoneStep ==
    ASSUME SessionInv, NEW c \in Conns, InTurn(c), PassDone(c),
           UNCHANGED <<bufferVars, frame, prior>>
    PROVE  /\ LockInv' /\ PassInv'
           /\ \A d \in Conns : ~Answering(d)'
<1> USE DEF SessionInv
<1>1. /\ pc \in [Conns -> Places] /\ todo \in [Conns -> Seq(Chunks)]
      /\ passed \in Seq(Chunks) /\ lockQueue \in Seq(Conns)
      /\ buffer \in Seq(Chunks) /\ buffer' = buffer /\ frame' = frame
  BY DEF TypeOK, BufferTypeOK, bufferVars, Places
<1>2. /\ todo[c] \in Seq(Chunks) /\ todo[c] # <<>>
      /\ lockQueue # <<>> /\ Head(lockQueue) = c
      /\ buffer = passed \o todo[c]
      /\ \A d \in Conns \ {c} : ~InTurn(d)
  BY <1>1, OneTurn DEF PassInv, PassesFollowBuffer, LockInv
<1>3. /\ passed' = Append(passed, Head(todo[c]))
      /\ todo' = [todo EXCEPT ![c] = Tail(@)]
  BY DEF PassDone
<1>4. passed \o todo[c] = passed' \o Tail(todo[c])
  <2>1. passed \in Seq(Chunks) /\ todo[c] \in Seq(Chunks) /\ todo[c] # <<>>
    BY <1>1, <1>2
  <2>2. passed \o todo[c] = Append(passed, Head(todo[c])) \o Tail(todo[c])
    BY <2>1, MoveHead
  <2> QED  BY <1>3, <2>2
<1>5. CASE Tail(todo[c]) = <<>>
  <2>1. lockQueue' = Tail(lockQueue) /\ GoTo(c, "receiving")
    BY <1>5 DEF PassDone, Release
  <2>2. /\ pc'[c] = "receiving"
        /\ \A d \in Conns \ {c} : pc'[d] = pc[d]
    BY <1>1, <2>1 DEF GoTo
  <2>3. \A d \in Conns : ~InTurn(d)' /\ ~Answering(d)'
    BY <1>2, <2>2 DEF InTurn, Answering
  <2>4. \A d \in Conns \ {c} : pc[d] = "waiting"
           => \E i \in 1..Len(lockQueue') : lockQueue'[i] = d
    BY <1>1, <1>2, <2>1, TailKeepsOthers DEF LockInv
  <2>5. LockInv'
    BY <1>1, <2>2, <2>3, <2>4 DEF LockInv
  <2>6. buffer' = passed'
    <3>1. passed' \in Seq(Chunks)
      BY <1>1, <1>2, <1>3
    <3>2. passed' \o <<>> = passed'
      BY <3>1
    <3> QED  BY <1>1, <1>2, <1>4, <1>5, <3>2
  <2> QED  BY <2>3, <2>5, <2>6 DEF PassInv, PassesFollowBuffer
<1>6. CASE Tail(todo[c]) # <<>>
  <2>1. lockQueue' = lockQueue /\ GoTo(c, "controller")
    BY <1>6 DEF PassDone
  <2>2. /\ pc'[c] = "controller"
        /\ \A d \in Conns \ {c} : pc'[d] = pc[d]
    BY <1>1, <2>1 DEF GoTo
  <2>3. /\ InTurn(c)' /\ \A d \in Conns \ {c} : ~InTurn(d)'
        /\ \A d \in Conns : ~Answering(d)'
    BY <1>2, <2>2 DEF InTurn, Answering
  <2>4. LockInv'
    BY <1>1, <1>2, <2>1, <2>2, <2>3 DEF LockInv
  <2>5. todo'[c] = Tail(todo[c]) /\ buffer' = passed' \o todo'[c]
    BY <1>1, <1>2, <1>3, <1>4
  <2>6. PassInv'
    BY <1>6, <2>3, <2>5 DEF PassInv, PassesFollowBuffer
  <2> QED  BY <2>3, <2>4, <2>6
<1> QED  BY <1>5, <1>6

\* A step inside a pass: the connection stays in its turn.
LEMMA AdvanceStep ==
    ASSUME SessionInv, NEW c \in Conns, InTurn(c),
           NEW place \in {"controller", "retrieve", "answer", "broken"},
           GoTo(c, place),
           UNCHANGED <<bufferVars, frame, todo, lockQueue, passed>>
    PROVE  /\ LockInv' /\ PassInv'
           /\ \A d \in Conns \ {c} : ~Answering(d)'
<1>1. /\ pc'[c] = place
      /\ \A d \in Conns \ {c} : pc'[d] = pc[d]
  BY GoToType DEF SessionInv, Places
<1>2. \A d \in Conns : InTurn(d)' <=> InTurn(d)
  BY <1>1 DEF InTurn
<1>3. \A d \in Conns \ {c} : ~Answering(d)'
  BY <1>1, OneTurn DEF InTurn, Answering
<1>4. \A d \in Conns : pc'[d] = "waiting" <=> pc[d] = "waiting"
  BY <1>1 DEF InTurn
<1>5. LockInv'
  BY <1>2, <1>4 DEF SessionInv, LockInv
<1>6. PassInv'
  BY <1>2 DEF SessionInv, PassInv, PassesFollowBuffer, bufferVars
<1> QED  BY <1>3, <1>5, <1>6

\* A frame that asks for the lock.
LEMMA AskStep ==
    ASSUME SessionInv, NEW c \in Conns, NEW chunk \in Chunks, ReceiveChunk(c, chunk)
    PROVE  LockInv' /\ PassInv' /\ VersionInv'
<1>1. /\ pc[c] = "receiving" /\ pc'[c] = "waiting"
      /\ \A d \in Conns \ {c} : pc'[d] = pc[d]
  BY GoToType DEF SessionInv, ReceiveChunk, Receive, Places
<1>2. /\ frame' = [frame EXCEPT ![c] = chunk] /\ frame \in [Conns -> Chunks \cup {None}]
      /\ lockQueue' = Append(lockQueue, c) /\ lockQueue \in Seq(Conns)
      /\ UNCHANGED <<buffer, todo, prior, passed, versions>>
  BY DEF SessionInv, ReceiveChunk, TypeOK, bufferVars
<1>3. \A d \in Conns : /\ InTurn(d)' <=> InTurn(d)
                       /\ Answering(d)' <=> Answering(d)
  BY <1>1 DEF InTurn, Answering
<1>4. \A d \in Conns : pc'[d] = "waiting" => frame'[d] \in Chunks
  BY <1>1, <1>2 DEF SessionInv, LockInv
<1>5. ASSUME NEW d \in Conns, pc'[d] = "waiting" \/ InTurn(d)'
      PROVE  \E i \in 1..Len(lockQueue') : lockQueue'[i] = d
  <2>1. CASE d = c
    BY <1>2, <2>1
  <2>2. CASE d # c
    <3>1. PICK i \in 1..Len(lockQueue) : lockQueue[i] = d
      BY <1>1, <1>3, <1>5, <2>2 DEF SessionInv, LockInv
    <3> QED  BY <1>2, <3>1
  <2> QED  BY <2>1, <2>2
<1>6. ASSUME NEW d \in Conns, InTurn(d)'
      PROVE  lockQueue' # <<>> /\ Head(lockQueue') = d
  <2>1. lockQueue # <<>> /\ Head(lockQueue) = d
    BY <1>3, <1>6 DEF SessionInv, LockInv
  <2> QED  BY <1>2, <2>1
<1>7. LockInv'
  BY <1>4, <1>5, <1>6 DEF LockInv
<1>8. PassInv' /\ VersionInv'
  BY <1>2, <1>3 DEF SessionInv, PassInv, PassesFollowBuffer, VersionInv, VersionChain
<1> QED  BY <1>7, <1>8

\* The lock is granted and the frame ingested: nobody else is in a turn, and
\* the new batch is exactly what the buffer has grown by.
LEMMA BeginStep ==
    ASSUME SessionInv, NEW c \in Conns, BeginTurn(c)
    PROVE  LockInv' /\ PassInv' /\ VersionInv'
<1> USE DEF SessionInv
<1>1. /\ pc[c] = "waiting" /\ Head(lockQueue) = c
      /\ lockQueue \in Seq(Conns) /\ lockQueue # <<>>
      /\ frame[c] \in Chunks /\ Ingest(frame[c])
      /\ frame' = [frame EXCEPT ![c] = None] /\ frame \in [Conns -> Chunks \cup {None}]
      /\ todo' = [todo EXCEPT ![c] = committed'] /\ todo \in [Conns -> Seq(Chunks)]
      /\ UNCHANGED <<prior, versions, passed>>
  <2>1. /\ pc[c] = "waiting" /\ Head(lockQueue) = c /\ Ingest(frame[c])
        /\ frame' = [frame EXCEPT ![c] = None]
        /\ todo' = [todo EXCEPT ![c] = committed']
        /\ UNCHANGED <<prior, versions, passed>>
    BY DEF BeginTurn, HoldsLock
  <2>2. /\ lockQueue \in Seq(Conns) /\ frame \in [Conns -> Chunks \cup {None}]
        /\ todo \in [Conns -> Seq(Chunks)]
    BY DEF TypeOK
  <2>3. lockQueue # <<>> /\ frame[c] \in Chunks
    BY <2>1, <2>2 DEF LockInv
  <2> QED  BY <2>1, <2>2, <2>3
<1>2. \A d \in Conns : ~InTurn(d)
  BY <1>1 DEF LockInv, InTurn
<1>3. /\ buffer = passed /\ buffer' = buffer \o committed'
      /\ committed' \in Seq(Chunks) /\ buffer \in Seq(Chunks)
  BY <1>1, <1>2, IngestAppends DEF PassInv, PassesFollowBuffer, BufferInv, BufferTypeOK
<1>4. CASE committed' = <<>>
  <2>1. lockQueue' = Tail(lockQueue) /\ GoTo(c, "receiving")
    BY <1>1, <1>4 DEF BeginTurn, Release
  <2>2. /\ pc'[c] = "receiving"
        /\ \A d \in Conns \ {c} : pc'[d] = pc[d]
    BY <2>1, GoToType DEF Places
  <2>3. \A d \in Conns : ~InTurn(d)' /\ ~Answering(d)'
    BY <1>2, <2>2 DEF InTurn, Answering
  <2>4. \A d \in Conns \ {c} : pc[d] = "waiting"
           => \E i \in 1..Len(lockQueue') : lockQueue'[i] = d
    BY <1>1, <2>1, TailKeepsOthers DEF LockInv
  <2>5. LockInv'
    BY <1>1, <2>2, <2>3, <2>4 DEF LockInv
  <2>6. buffer' = passed'
    BY <1>1, <1>3, <1>4
  <2> QED  BY <1>1, <2>3, <2>5, <2>6
              DEF PassInv, PassesFollowBuffer, VersionInv, VersionChain
<1>5. CASE committed' # <<>>
  <2>1. lockQueue' = lockQueue /\ GoTo(c, "controller")
    BY <1>1, <1>5 DEF BeginTurn
  <2>2. /\ pc'[c] = "controller"
        /\ \A d \in Conns \ {c} : pc'[d] = pc[d]
    BY <2>1, GoToType DEF Places
  <2>3. /\ InTurn(c)' /\ \A d \in Conns \ {c} : ~InTurn(d)'
        /\ \A d \in Conns : ~Answering(d)'
    BY <1>2, <2>2 DEF InTurn, Answering
  <2>4. LockInv'
    BY <1>1, <2>1, <2>2, <2>3 DEF LockInv
  <2>5. todo'[c] = committed' /\ buffer' = passed' \o todo'[c]
    BY <1>1, <1>3
  <2> QED  BY <1>1, <1>5, <2>3, <2>4, <2>5
              DEF PassInv, PassesFollowBuffer, VersionInv, VersionChain
<1> QED  BY <1>4, <1>5

(***************************************************************************)
(* Versions and events.                                                    *)
(***************************************************************************)

LEMMA CommitVersion ==
    ASSUME SessionInv, NEW c \in Conns, CommitAnswer(c)
    PROVE  VersionChain'
<1>1. versions \in Seq(Versions) /\ prior[c] = Len(versions)
  BY DEF SessionInv, TypeOK, VersionInv, CommitAnswer, Answering
<1>2. versions' = Append(versions, VersionAfter(Len(versions)))
  BY <1>1 DEF CommitAnswer
<1>3. Len(versions') = Len(versions) + 1 /\ DOMAIN versions' = 1..Len(versions')
  BY <1>1, <1>2
<1>4. ASSUME NEW i \in DOMAIN versions'
      PROVE  versions'[i] = [version_no |-> i, supersedes |-> IF i = 1 THEN None ELSE i - 1]
  <2>1. CASE i \in DOMAIN versions
    <3>1. versions'[i] = versions[i]
      BY <1>1, <1>2, <2>1
    <3> QED  BY <2>1, <3>1 DEF SessionInv, VersionInv, VersionChain
  <2>2. CASE i = Len(versions) + 1
    <3>1. versions'[i] = VersionAfter(Len(versions)) /\ Len(versions) \in Nat
      BY <1>1, <1>2, <2>2
    <3>2. Len(versions) = i - 1 /\ (i = 1 <=> Len(versions) = 0)
      BY <2>2, <3>1
    <3> QED  BY <2>2, <3>1, <3>2 DEF VersionAfter
  <2> QED  BY <1>1, <1>3, <2>1, <2>2
<1> QED  BY <1>4 DEF VersionChain

\* Appending events of the latest turn, or of none, under its trace_id or their own.
LEMMA EmitStep ==
    ASSUME SessionInv, turn' \in Nat, turn' >= turn,
           NEW e \in Seq(Events), eventLog' = eventLog \o e,
           \A i \in 1..Len(e) : e[i].turn = 0 \/ e[i].turn = turn',
           \A i \in 1..Len(e) : Filed(e[i], Len(eventLog) + i)
    PROVE  EventInv'
<1>1. eventLog \in Seq(Events) /\ turn \in Nat
  BY DEF SessionInv, TypeOK
<1>2. \A i \in 1..Len(eventLog) : eventLog[i].turn \in Nat /\ eventLog[i].turn <= turn
  <2>1. \A i \in 1..Len(eventLog) : eventLog[i] \in Events
    BY <1>1
  <2> QED  BY <2>1 DEF SessionInv, EventInv, Events
<1>3. /\ Len(eventLog') = Len(eventLog) + Len(e)
      /\ DOMAIN eventLog' = 1..Len(eventLog') /\ DOMAIN eventLog = 1..Len(eventLog)
      /\ Len(eventLog) \in Nat /\ Len(e) \in Nat
      /\ \A i \in 1..Len(eventLog') :
           eventLog'[i] = IF i <= Len(eventLog) THEN eventLog[i]
                                                ELSE e[i - Len(eventLog)]
  BY <1>1
<1>4. ASSUME NEW i \in 1..Len(eventLog'), i > Len(eventLog)
      PROVE  eventLog'[i].turn = 0 \/ eventLog'[i].turn = turn'
  <2>1. i - Len(eventLog) \in 1..Len(e)
    BY <1>3, <1>4
  <2> QED  BY <1>3, <1>4, <2>1
<1>5. ASSUME NEW i \in 1..Len(eventLog') PROVE eventLog'[i].turn <= turn'
  <2>1. CASE i <= Len(eventLog)
    <3>1. i \in 1..Len(eventLog)
      BY <1>3, <2>1
    <3>2. eventLog'[i].turn \in Nat /\ eventLog'[i].turn <= turn
      BY <1>2, <1>3, <2>1, <3>1
    <3> QED  BY <1>1, <3>2
  <2>2. CASE i > Len(eventLog)
    <3>1. eventLog'[i].turn = 0 \/ eventLog'[i].turn = turn'
      BY <1>4, <2>2
    <3>2. turn' \in Nat
      OBVIOUS
    <3> QED  BY <3>1, <3>2
  <2> QED  BY <1>3, <2>1, <2>2
<1>6. ASSUME NEW i \in DOMAIN eventLog', NEW j \in DOMAIN eventLog', i < j,
             eventLog'[i].turn # 0, eventLog'[j].turn # 0
      PROVE  eventLog'[i].turn <= eventLog'[j].turn
  <2>1. CASE j <= Len(eventLog)
    <3>1. i \in DOMAIN eventLog /\ j \in DOMAIN eventLog
      BY <1>3, <1>6, <2>1
    <3>2. eventLog'[i] = eventLog[i] /\ eventLog'[j] = eventLog[j]
      BY <1>3, <1>6, <2>1
    <3> QED  BY <1>6, <3>1, <3>2 DEF SessionInv, EventInv, TurnsAscend
  <2>2. CASE j > Len(eventLog)
    <3>1. eventLog'[j].turn = turn'
      BY <1>3, <1>4, <1>6, <2>2
    <3> QED  BY <1>3, <1>5, <3>1
  <2> QED  BY <1>3, <2>1, <2>2
<1>7. ASSUME NEW i \in 1..Len(eventLog') PROVE Filed(eventLog'[i], i)
  <2>1. CASE i <= Len(eventLog)
    <3>1. i \in 1..Len(eventLog) /\ eventLog'[i] = eventLog[i]
      BY <1>3, <2>1
    <3> QED  BY <3>1 DEF SessionInv, EventInv
  <2>2. CASE i > Len(eventLog)
    <3>1. /\ i - Len(eventLog) \in 1..Len(e) /\ Len(eventLog) + (i - Len(eventLog)) = i
          /\ eventLog'[i] = e[i - Len(eventLog)]
      BY <1>3, <2>2
    <3>2. Filed(e[i - Len(eventLog)], Len(eventLog) + (i - Len(eventLog)))
      BY <3>1
    <3> QED  BY <3>1, <3>2
  <2> QED  BY <1>3, <2>1, <2>2
<1>8. TurnsAscend'
  BY <1>6 DEF TurnsAscend
<1>9. \A i \in 1..Len(eventLog') : eventLog'[i].turn <= turn'
  BY <1>5
<1>10. (\A i \in 1..Len(eventLog) : Filed(eventLog[i], i))'
  BY <1>7 DEF Filed, StandsAlone
<1> QED  BY <1>8, <1>9, <1>10 DEF EventInv

\* What the invariant says of the log keeps turns and trace_ids apart.
LEMMA EventsApart == SessionInv => TurnsDoNotInterleave
<1> SUFFICES ASSUME SessionInv,
                    NEW i \in DOMAIN eventLog, NEW j \in DOMAIN eventLog, i < j
             PROVE  /\ eventLog[i].turn # 0 /\ eventLog[j].turn # 0
                         => eventLog[i].turn <= eventLog[j].turn
                    /\ eventLog[i].trace = eventLog[j].trace
                         <=> /\ eventLog[i].turn = eventLog[j].turn
                             /\ ~StandsAlone(eventLog[i]) /\ ~StandsAlone(eventLog[j])
  BY DEF TurnsDoNotInterleave
<1>1. /\ i \in 1..Len(eventLog) /\ j \in 1..Len(eventLog)
      /\ eventLog[i] \in Events /\ eventLog[j] \in Events
  BY DEF SessionInv, TypeOK
<1>2. /\ eventLog[i].turn \in Nat /\ eventLog[j].turn \in Nat
      /\ i \in Nat \ {0} /\ j \in Nat \ {0}
  BY <1>1 DEF Events
<1>3. Filed(eventLog[i], i) /\ Filed(eventLog[j], j)
  BY <1>1 DEF SessionInv, EventInv
<1>4. eventLog[i].turn # 0 /\ eventLog[j].turn # 0 => eventLog[i].turn <= eventLog[j].turn
  BY DEF SessionInv, EventInv, TurnsAscend
<1>5. eventLog[i].trace = eventLog[j].trace
         <=> /\ eventLog[i].turn = eventLog[j].turn
             /\ ~StandsAlone(eventLog[i]) /\ ~StandsAlone(eventLog[j])
  BY <1>2, <1>3 DEF Filed
<1> QED  BY <1>4, <1>5

\* Whoever is in a turn after a step was in it before, or has just begun it.
LEMMA TraceStep ==
    ASSUME SessionInv, [Next]_vars
    PROVE  TraceInv'
<1>1. ASSUME NEW c \in Conns, BeginTurn(c) PROVE TraceInv'
  <2>1. \A d \in Conns : ~InTurn(d)
    BY <1>1 DEF SessionInv, LockInv, BeginTurn, HoldsLock, InTurn
  <2>2. \A d \in Conns \ {c} : pc'[d] = pc[d]
    BY <1>1, GoToType DEF SessionInv, BeginTurn, Release, Places
  <2>3. \A d \in Conns \ {c} : ~InTurn(d)'
    BY <2>1, <2>2 DEF InTurn
  <2>4. trace'[c] = turn' /\ turn' # 0
    BY <1>1 DEF BeginTurn, SessionInv, TypeOK
  <2> QED  BY <2>3, <2>4 DEF TraceInv
<1>2. ASSUME UNCHANGED <<turn, trace>>, NEW c \in Conns,
             \/ UNCHANGED pc
             \/ \E place \in Places : GoTo(c, place) /\ (InTurn(c) \/ ~InTurn(c)')
      PROVE  TraceInv'
  <2>1. CASE UNCHANGED pc
    BY <1>2, <2>1 DEF SessionInv, TraceInv, InTurn
  <2>2. CASE \E place \in Places : GoTo(c, place) /\ (InTurn(c) \/ ~InTurn(c)')
    <3>1. \A d \in Conns \ {c} : pc'[d] = pc[d]
      BY <2>2, GoToType DEF SessionInv
    <3>2. \A d \in Conns : InTurn(d)' => InTurn(d)
      BY <2>2, <3>1 DEF InTurn
    <3> QED  BY <1>2, <3>2 DEF SessionInv, TraceInv
  <2> QED  BY <1>2, <2>1, <2>2
<1>3. ASSUME NEW c \in Conns, TurnStep(c), ~BeginTurn(c) PROVE TraceInv'
  <2>1. InTurn(c) /\ UNCHANGED <<turn, trace>>
    BY <1>3 DEF TurnStep, PassStep, DecideNotToRetrieve, DecideToRetrieve, BeginAnswer,
                LackEvidence, GenerationBreaks, CommitAnswer, AnswerEmpty,
                StageFails, InTurn, turnVars
  <2>2. \E place \in Places : GoTo(c, place)
    BY <1>3 DEF TurnStep, PassStep, DecideNotToRetrieve, DecideToRetrieve, BeginAnswer,
                LackEvidence, GenerationBreaks, CommitAnswer, AnswerEmpty,
                StageFails, PassDone, Release, Places
  <2> QED  BY <1>2, <2>1, <2>2
<1>4. ASSUME NEW c \in Conns,
             \/ Connect(c) \/ MarkConnected(c) \/ Disconnect(c)
             \/ NoticeDisconnect(c) \/ Deliver(c) \/ ReceiveInvalidFrame(c)
             \/ ReceiveUndecodable(c) \/ \E chunk \in Chunks : ReceiveChunk(c, chunk)
      PROVE  TraceInv'
  <2>1. UNCHANGED <<turn, trace>>
    BY <1>4 DEF Connect, MarkConnected, Disconnect, NoticeDisconnect, Deliver,
                ReceiveInvalidFrame, ReceiveUndecodable, ReceiveChunk, turnVars
  <2>2. \/ UNCHANGED pc
        \/ \E place \in {"accepted", "receiving", "waiting", "gone"} : GoTo(c, place)
    BY <1>4 DEF Connect, MarkConnected, Disconnect, NoticeDisconnect, Deliver, Leave,
                ReceiveInvalidFrame, ReceiveUndecodable, ReceiveChunk, Receive
  <2>3. CASE UNCHANGED pc
    BY <1>2, <2>1, <2>3
  <2>4. ASSUME NEW place \in {"accepted", "receiving", "waiting", "gone"}, GoTo(c, place)
        PROVE  TraceInv'
    <3>1. pc'[c] = place /\ place \in Places
      BY <2>4, GoToType DEF SessionInv, Places
    <3>2. ~InTurn(c)'
      BY <2>4, <3>1 DEF InTurn
    <3> QED  BY <1>2, <2>1, <2>4, <3>1, <3>2
  <2> QED  BY <2>2, <2>3, <2>4
<1>5. CASE UNCHANGED vars
  BY <1>5 DEF vars, turnVars, SessionInv, TraceInv, InTurn
<1> QED  BY <1>1, <1>3, <1>4, <1>5 DEF Next

LEMMA NoEvents == <<>> \in Seq(Events) /\ Len(<<>>) = 0
OBVIOUS

LEMMA EventFiled ==
    ASSUME NEW kind \in Kinds \ {"SESSION_RESYNC"}, NEW c, NEW t \in Nat \ {0}, NEW no, NEW i
    PROVE  Filed(Event(kind, c, t, no), i)
BY DEF Filed, StandsAlone, Event

LEMMA OwnIdFiled ==
    ASSUME NEW c, NEW t, NEW stage \in {"stream", "controller"}
    PROVE  /\ Filed(ErrorEvent(c, stage, t), Len(eventLog) + 1)
           /\ Filed(ResyncEvent(c), Len(eventLog) + 1)
BY DEF Filed, StandsAlone, ErrorEvent, ResyncEvent, NewId

LEMMA EventStep ==
    ASSUME SessionInv, [Next]_vars
    PROVE  EventInv'
<1>1. turn \in Nat
  BY DEF SessionInv, TypeOK
<1>2. ASSUME UNCHANGED <<eventLog, turn>> PROVE EventInv'
  BY <1>2 DEF SessionInv, EventInv, TurnsAscend, Filed, StandsAlone
<1>3. ASSUME NEW c \in Conns, NEW ev \in Events, ev.turn \in {0, turn'},
             Filed(ev, Len(eventLog) + 1), Emit(c, <<ev>>), turn' \in Nat, turn' >= turn
      PROVE  EventInv'
  <2> DEFINE e == <<ev>>
  <2>1. e \in Seq(Events) /\ Len(e) = 1 /\ e[1] = ev
    BY <1>3
  <2>2. eventLog' = eventLog \o e
    BY <1>3 DEF Emit
  <2> HIDE DEF e
  <2>3. \A i \in 1..Len(e) : e[i].turn = 0 \/ e[i].turn = turn'
    BY <1>3, <2>1
  <2>4. \A i \in 1..Len(e) : Filed(e[i], Len(eventLog) + i)
    BY <1>3, <2>1
  <2> QED  BY <1>3, <2>1, <2>2, <2>3, <2>4, EmitStep
<1>4. ASSUME NEW c \in Conns, Emit(c, <<>>), turn' \in Nat, turn' >= turn
      PROVE  EventInv'
  <2>1. eventLog' = eventLog \o <<>>
    BY <1>4 DEF Emit
  <2>2. \A i \in 1..Len(<<>>) : FALSE
    BY NoEvents
  <2> QED  BY <1>4, <2>1, <2>2, NoEvents, EmitStep
<1>5. ASSUME NEW c \in Conns, MarkConnected(c) PROVE EventInv'
  <2>1. turn' = turn /\ ResyncEvent(c) \in Events /\ ResyncEvent(c).turn = 0
    BY <1>5, OwnIdType DEF MarkConnected, turnVars, SessionInv, ResyncEvent
  <2>2. Filed(ResyncEvent(c), Len(eventLog) + 1)
    BY OwnIdFiled
  <2> QED  BY <1>1, <1>3, <1>4, <1>5, <2>1, <2>2 DEF MarkConnected, Resync
<1>6. ASSUME NEW c \in Conns, ReceiveInvalidFrame(c) \/ StageFails(c) PROVE EventInv'
  <2>1. turn' = turn
    BY <1>6 DEF ReceiveInvalidFrame, StageFails, turnVars
  <2>2. CASE ReceiveInvalidFrame(c)
    <3> DEFINE ev == ErrorEvent(c, "stream", 0)
    <3>1. ev \in Events /\ ev.turn = 0 /\ Filed(ev, Len(eventLog) + 1)
      BY OwnIdType, OwnIdFiled DEF SessionInv, ErrorEvent
    <3>2. Emit(c, <<ev>>)
      BY <2>2 DEF ReceiveInvalidFrame
    <3> HIDE DEF ev
    <3> QED  BY <1>1, <1>3, <2>1, <3>1, <3>2
  <2>3. CASE StageFails(c)
    <3> DEFINE ev == ErrorEvent(c, "controller", trace[c])
    <3>1. trace[c] = turn' /\ trace[c] \in Nat
      BY <1>1, <2>1, <2>3 DEF StageFails, SessionInv, TraceInv
    <3>2. ev \in Events /\ Filed(ev, Len(eventLog) + 1)
      BY <3>1, OwnIdType, OwnIdFiled DEF SessionInv
    <3>3. ev.turn = turn'
      BY <3>1 DEF ErrorEvent
    <3>4. Emit(c, <<ev>>)
      BY <2>3 DEF StageFails
    <3> HIDE DEF ev
    <3> QED  BY <1>1, <1>3, <2>1, <3>2, <3>3, <3>4
  <2> QED  BY <1>6, <2>2, <2>3
<1>7. ASSUME NEW c \in Conns, BeginTurn(c) PROVE EventInv'
  <2>1. turn' = turn + 1
    BY <1>7 DEF BeginTurn
  <2>2. turn' \in Nat /\ turn' >= turn
    BY <1>1, <2>1
  <2>3. CASE sequenceGap'
    <3> DEFINE ev == ErrorEvent(c, "stream", turn')
    <3>1. ev \in Events /\ Filed(ev, Len(eventLog) + 1)
      BY <2>2, OwnIdType, OwnIdFiled DEF SessionInv
    <3>2. ev.turn = turn'
      BY DEF ErrorEvent
    <3>3. Emit(c, <<ev>>)
      BY <1>7, <2>3 DEF BeginTurn
    <3> HIDE DEF ev
    <3> QED  BY <1>3, <2>2, <3>1, <3>2, <3>3
  <2>4. CASE ~sequenceGap'
    <3>1. Emit(c, <<>>)
      BY <1>7, <2>4 DEF BeginTurn
    <3> QED  BY <1>4, <2>2, <3>1
  <2> QED  BY <2>3, <2>4
<1>8. ASSUME NEW c \in Conns, NEW kind \in Kinds \ {"SESSION_RESYNC"}, NEW no \in Nat,
             Emit(c, <<Event(kind, c, trace[c], no)>>), UNCHANGED turn, InTurn(c)
      PROVE  EventInv'
  <2>1. trace[c] = turn' /\ turn' \in Nat \ {0} /\ turn' >= turn
    BY <1>1, <1>8 DEF SessionInv, TraceInv
  <2>2. Event(kind, c, trace[c], no) \in Events /\ Event(kind, c, trace[c], no).turn = turn'
    BY <1>8, <2>1, EventType DEF Event
  <2>3. Filed(Event(kind, c, trace[c], no), Len(eventLog) + 1)
    BY <1>8, <2>1, EventFiled
  <2> QED  BY <1>3, <1>8, <2>1, <2>2, <2>3
<1>9. ASSUME NEW c \in Conns,
              \/ DecideNotToRetrieve(c) \/ DecideToRetrieve(c) \/ LackEvidence(c)
              \/ GenerationBreaks(c)
       PROVE  EventInv'
  <2>1. turn' = turn /\ InTurn(c)
    BY <1>9 DEF DecideNotToRetrieve, DecideToRetrieve, LackEvidence,
                 GenerationBreaks, turnVars, InTurn
  <2>2. \E kind \in Kinds \ {"SESSION_RESYNC"} : Emit(c, <<Event(kind, c, trace[c], 0)>>)
    BY <1>9 DEF DecideNotToRetrieve, DecideToRetrieve, LackEvidence,
                 GenerationBreaks, Kinds
  <2> QED  BY <1>8, <2>1, <2>2
<1>10. ASSUME NEW c \in Conns, CommitAnswer(c) PROVE EventInv'
  <2>1. turn' = turn /\ prior[c] + 1 \in Nat /\ InTurn(c)
    BY <1>10 DEF CommitAnswer, SessionInv, TypeOK, InTurn
  <2> QED  BY <1>8, <1>10, <2>1 DEF CommitAnswer, Kinds
<1> QED
  BY <1>2, <1>5, <1>6, <1>7, <1>9, <1>10
     DEF Next, TurnStep, PassStep, Connect, Disconnect, NoticeDisconnect, Deliver,
         ReceiveChunk, ReceiveUndecodable, BeginAnswer, AnswerEmpty, vars, turnVars

(***************************************************************************)
(* Every step keeps the invariant.                                         *)
(***************************************************************************)

LEMMA TurnStepKeeps ==
    ASSUME SessionInv, NEW c \in Conns, TurnStep(c)
    PROVE  LockInv' /\ PassInv' /\ VersionInv'
<1>1. ASSUME InTurn(c), PassDone(c), UNCHANGED <<bufferVars, frame, prior>>,
             VersionChain'
      PROVE  LockInv' /\ PassInv' /\ VersionInv'
  BY <1>1, PassDoneStep DEF VersionInv
<1>2. ASSUME UNCHANGED versions PROVE VersionChain'
  BY <1>2 DEF SessionInv, VersionInv, VersionChain
<1>3. ASSUME \/ DecideNotToRetrieve(c) \/ LackEvidence(c)
             \/ AnswerEmpty(c) \/ StageFails(c)
      PROVE  LockInv' /\ PassInv' /\ VersionInv'
  <2>1. InTurn(c) /\ PassDone(c) /\ UNCHANGED <<bufferVars, frame, prior, versions>>
    BY <1>3 DEF DecideNotToRetrieve, LackEvidence, AnswerEmpty, StageFails, InTurn
  <2> QED  BY <1>1, <1>2, <2>1
<1>4. ASSUME CommitAnswer(c) PROVE LockInv' /\ PassInv' /\ VersionInv'
  <2>1. InTurn(c) /\ PassDone(c) /\ UNCHANGED <<bufferVars, frame, prior>>
    BY <1>4 DEF CommitAnswer, InTurn
  <2> QED  BY <1>1, <1>4, <2>1, CommitVersion
<1>5. ASSUME BeginAnswer(c) PROVE LockInv' /\ PassInv' /\ VersionInv'
  <2>1. /\ InTurn(c) /\ GoTo(c, "answer") /\ UNCHANGED versions
        /\ UNCHANGED <<bufferVars, frame, todo, lockQueue, passed>>
    BY <1>5 DEF BeginAnswer, InTurn
  <2>2. versions \in Seq(Versions) /\ VersionChain /\ prior \in [Conns -> Nat]
    BY DEF SessionInv, TypeOK, VersionInv
  <2>3. prior'[c] = Len(versions)
    <3>1. CASE versions = <<>>
      BY <1>5, <2>2, <3>1 DEF BeginAnswer
    <3>2. CASE versions # <<>>
      <4>1. Len(versions) \in DOMAIN versions
        BY <2>2, <3>2
      <4>2. versions[Len(versions)].version_no = Len(versions)
        BY <2>2, <4>1 DEF VersionChain
      <4> QED  BY <1>5, <2>2, <3>2, <4>2 DEF BeginAnswer
    <3> QED  BY <3>1, <3>2
  <2>4. LockInv' /\ PassInv' /\ \A d \in Conns \ {c} : ~Answering(d)'
    BY <2>1, AdvanceStep
  <2>5. \A d \in Conns : Answering(d)' => prior'[d] = Len(versions')
    BY <2>1, <2>3, <2>4
  <2> QED  BY <1>2, <2>1, <2>4, <2>5 DEF VersionInv
<1>6. ASSUME DecideToRetrieve(c) PROVE LockInv' /\ PassInv' /\ VersionInv'
  <2>1. /\ InTurn(c) /\ GoTo(c, "retrieve") /\ UNCHANGED versions
        /\ UNCHANGED <<bufferVars, frame, todo, lockQueue, passed>>
    BY <1>6 DEF DecideToRetrieve, InTurn, turnVars
  <2>2. LockInv' /\ PassInv' /\ \A d \in Conns \ {c} : ~Answering(d)'
    BY <2>1, AdvanceStep
  <2>3. ~Answering(c)'
    BY <2>1, GoToType DEF SessionInv, Places, Answering
  <2> QED  BY <1>2, <2>1, <2>2, <2>3 DEF VersionInv
<1>7. ASSUME GenerationBreaks(c) PROVE LockInv' /\ PassInv' /\ VersionInv'
  <2>1. /\ InTurn(c) /\ Answering(c) /\ GoTo(c, "broken")
        /\ UNCHANGED <<bufferVars, frame, todo, lockQueue, passed, prior, versions>>
    BY <1>7 DEF GenerationBreaks, InTurn, Answering, turnVars
  <2>2. LockInv' /\ PassInv' /\ \A d \in Conns \ {c} : ~Answering(d)'
    BY <2>1, AdvanceStep
  <2>3. prior'[c] = Len(versions')
    BY <2>1 DEF SessionInv, VersionInv
  <2> QED  BY <1>2, <2>1, <2>2, <2>3 DEF VersionInv
<1> QED
  BY <1>3, <1>4, <1>5, <1>6, <1>7, BeginStep DEF TurnStep, PassStep

LEMMA QuietStepKeeps ==
    ASSUME SessionInv, NEW c \in Conns,
           \/ Connect(c) \/ MarkConnected(c) \/ Disconnect(c) \/ NoticeDisconnect(c)
           \/ Deliver(c) \/ ReceiveInvalidFrame(c) \/ ReceiveUndecodable(c)
    PROVE  LockInv' /\ PassInv' /\ VersionInv'
<1>1. UNCHANGED turnVars /\ UNCHANGED bufferVars
  BY DEF Connect, MarkConnected, Disconnect, NoticeDisconnect, Deliver,
         ReceiveInvalidFrame, ReceiveUndecodable
<1>2. \/ UNCHANGED pc
      \/ /\ pc[c] \in {"new", "accepted", "receiving"}
         /\ \E place \in {"accepted", "receiving", "gone"} : GoTo(c, place)
  BY DEF Connect, MarkConnected, Disconnect, NoticeDisconnect, Deliver,
         ReceiveInvalidFrame, ReceiveUndecodable, Receive, Leave
<1>3. \A d \in Conns : /\ pc'[d] = "waiting" => pc[d] = "waiting"
                       /\ InTurn(d)' <=> InTurn(d)
                       /\ Answering(d)' => Answering(d)
  <2>1. CASE UNCHANGED pc
    BY <2>1 DEF InTurn, Answering
  <2>2. CASE /\ pc[c] \in {"new", "accepted", "receiving"}
             /\ \E place \in {"accepted", "receiving", "gone"} : GoTo(c, place)
    <3>1. /\ pc'[c] \in {"accepted", "receiving", "gone"}
          /\ \A d \in Conns \ {c} : pc'[d] = pc[d]
      BY <2>2, GoToType DEF SessionInv, Places
    <3> QED  BY <2>2, <3>1 DEF InTurn, Answering
  <2> QED  BY <1>2, <2>1, <2>2
<1> QED  BY <1>1, <1>3, QuietStep

LEMMA SessionInit == Init => SessionInv
<1> SUFFICES ASSUME Init PROVE SessionInv
  OBVIOUS
<1>1. BufferInv
  BY InitBuffer DEF Init
<1>2. TypeOK
  <2>1. <<>> \in Seq(Chunks) /\ <<>> \in Seq(Conns) /\ <<>> \in Seq(Events)
        /\ <<>> \in Seq(Versions)
    OBVIOUS
  <2>2. BufferTypeOK /\ sent \in 0..MaxFrames
    BY <1>1, MaxFramesAssumption DEF Init, BufferInv
  <2>3. /\ pc \in [Conns -> Places] /\ online \in [Conns -> BOOLEAN]
        /\ trace \in [Conns -> Nat]
        /\ frame \in [Conns -> Chunks \cup {None}]
        /\ prior \in [Conns -> Nat] /\ seen \in [Conns -> Nat]
    BY DEF Init, Places
  <2>4. todo \in [Conns -> Seq(Chunks)] /\ queue \in [Conns -> Seq(Events)]
    BY <2>1 DEF Init
  <2> QED  BY <2>1, <2>2, <2>3, <2>4 DEF Init, TypeOK, Places
<1>3. \A c \in Conns : pc[c] = "new"
  BY DEF Init
<1>4. LockInv /\ PassInv /\ VersionInv
  BY <1>3 DEF Init, BufferInit, LockInv, PassInv, PassesFollowBuffer, VersionInv,
              VersionChain, InTurn, Answering
<1>5. TraceInv /\ EventInv
  BY <1>3 DEF Init, TraceInv, InTurn, EventInv, TurnsAscend
<1> QED  BY <1>1, <1>2, <1>4, <1>5 DEF SessionInv

LEMMA SessionStep == SessionInv /\ [Next]_vars => SessionInv'
<1> SUFFICES ASSUME SessionInv, [Next]_vars PROVE SessionInv'
  OBVIOUS
<1>1. TypeOK' /\ BufferInv' /\ TraceInv' /\ EventInv'
  BY TypeStep, BufferStep, TraceStep, EventStep
<1>2. ASSUME UNCHANGED vars PROVE LockInv' /\ PassInv' /\ VersionInv'
  <2>1. UNCHANGED turnVars /\ UNCHANGED bufferVars /\ UNCHANGED pc
    BY <1>2 DEF vars
  <2> QED  BY <2>1, QuietStep DEF InTurn, Answering
<1>3. ASSUME Next PROVE LockInv' /\ PassInv' /\ VersionInv'
  BY <1>3, TurnStepKeeps, QuietStepKeeps, AskStep DEF Next
<1>4. LockInv' /\ PassInv' /\ VersionInv'
  BY <1>2, <1>3
<1> QED  BY <1>1, <1>4 DEF SessionInv

LEMMA SessionInvariant == Spec => []SessionInv
BY SessionInit, SessionStep, PTL DEF Spec

(***************************************************************************)
(* The theorems.                                                           *)
(***************************************************************************)

\* Every variable of the session keeps its type.
THEOREM SessionTypeCorrect == Spec => []TypeOK
<1>1. SessionInv => TypeOK
  BY DEF SessionInv
<1> QED  BY <1>1, SessionInvariant, PTL

\* stream_answer numbers its versions 1, 2, 3, ..., each superseding the last.
THEOREM VersionsFormAChain == Spec => []VersionChain
<1>1. SessionInv => VersionChain
  BY DEF SessionInv, VersionInv
<1> QED  BY <1>1, SessionInvariant, PTL

\* No step changes the answer versions but a commit on top of the latest one.
LEMMA AnswerStep ==
    ASSUME SessionInv, [Next]_vars
    PROVE  [Answers!Supersede]_versions
<1>1. ASSUME NEW c \in Conns, CommitAnswer(c) PROVE Answers!Supersede
  <2>1. prior[c] = Len(versions) /\ versions \in Seq(Versions)
    BY <1>1 DEF CommitAnswer, SessionInv, VersionInv, Answering, TypeOK
  <2>2. Len(versions) = 0 <=> versions = <<>>
    BY <2>1
  <2> QED  BY <1>1, <2>1, <2>2 DEF CommitAnswer, VersionAfter, Answers!Supersede
<1> QED
  BY <1>1 DEF Next, TurnStep, PassStep, Connect, MarkConnected, Disconnect, NoticeDisconnect,
     Deliver, ReceiveChunk, ReceiveInvalidFrame, ReceiveUndecodable, BeginTurn,
     DecideNotToRetrieve, DecideToRetrieve, BeginAnswer, LackEvidence,
     GenerationBreaks, AnswerEmpty, StageFails, vars, turnVars

\* The sessions implement the answer log: whatever connections run turns, a
\* version once committed stays and the next one supersedes it.
THEOREM SessionImplementsAnswerLog == Spec => ImplementsAnswerLog
<1>1. Init => Answers!Init
  BY DEF Init, Answers!Init
<1> QED
  BY <1>1, AnswerStep, SessionInvariant, PTL DEF Spec, ImplementsAnswerLog, Answers!Spec

\* Each committed chunk is passed to the controller once, in buffer order.
THEOREM EveryChunkPassesOnce == Spec => []PassesFollowBuffer
<1>1. SessionInv => PassesFollowBuffer
  BY DEF SessionInv, PassInv
<1> QED  BY <1>1, SessionInvariant, PTL

\* record.lock keeps the events of different turns apart in the log, and a
\* trace_id selects events of one turn, all but the ERRORs of stream_endpoint,
\* each of which has a trace_id of its own.
THEOREM TurnsAreSerial == Spec => []TurnsDoNotInterleave
BY EventsApart, SessionInvariant, PTL

\* The buffer keeps its invariant with sessions on top of it: ordered, with the
\* reorder clock running exactly while chunks are held.
THEOREM SessionBufferOrdered == Spec => [](BufferOrdered /\ GapClockRuns)
<1>1. SessionInv => BufferOrdered /\ GapClockRuns
  BY DEF SessionInv, BufferInv
<1> QED  BY <1>1, SessionInvariant, PTL

(***************************************************************************)
(* What connections are told.                                              *)
(***************************************************************************)

\* c came up: mark_connected has returned.
Up(c) == pc[c] \notin {"new", "accepted"}

\* Events from which a client learns of an answer version
Tells(e) == e.kind \in {"SESSION_RESYNC", "ANSWER_VERSION_CREATED"}

Unheard(c) == \A i \in DOMAIN eventLog : eventLog[i].conn # c

\* The log names nobody who has not come up, and mark_connected knows the first.
ResyncInv ==
    /\ \A c \in Conns : ~Up(c) => Unheard(c)
    /\ \A i \in DOMAIN eventLog :
          eventLog[i].kind = "SESSION_RESYNC" => Before(i, eventLog[i].conn) = {}
    /\ (\E c \in Conns : Up(c)) => everConnected
    /\ everConnected =>
          \E first \in Conns : Up(first) /\ \A c \in Conns : Up(c) => (Resynced(c) <=> c # first)

\* A step of c that says e: to the log and to c's own queue, and never of an answer
\* older than the latest.
Says(c, e) ==
    /\ e \in Seq(Events)
    /\ Len(e) <= 1
    /\ Emit(c, e)
    /\ \A i \in 1..Len(e) :
          /\ e[i].conn = c
          /\ Tells(e[i]) => Len(versions) <= e[i].no /\ e[i].no <= Len(versions')
    /\ UNCHANGED <<seen, online>>

\* A connection that is up says something, but does not resync.
Speaks(c, e) ==
    /\ Says(c, e) /\ Up(c) /\ UNCHANGED everConnected
    /\ \A d \in Conns : Up(d)' <=> Up(d)
    /\ \A i \in 1..Len(e) : e[i].kind # "SESSION_RESYNC"

\* One event or none
LEMMA OneEvent ==
    ASSUME NEW ev \in Events
    PROVE  LET e == <<ev>>
           IN  /\ e \in Seq(Events) /\ Len(e) <= 1
               /\ \A i \in 1..Len(e) : e[i] = ev
OBVIOUS

\* An ERROR of stream_endpoint
LEMMA ErrorFields ==
    ASSUME SessionInv, NEW c \in Conns, NEW t \in Nat, NEW stage \in {"stream", "controller"}
    PROVE  /\ ErrorEvent(c, stage, t) \in Events
           /\ ErrorEvent(c, stage, t).conn = c /\ ErrorEvent(c, stage, t).kind = "ERROR"
BY OwnIdType DEF SessionInv, ErrorEvent

LEMMA LogJoined ==
    ASSUME NEW S, NEW s \in Seq(S), NEW e \in Seq(S)
    PROVE  LET t == s \o e
           IN  /\ t \in Seq(S) /\ DOMAIN t = 1..Len(t) /\ DOMAIN s = 1..Len(s)
               /\ Len(s) \in Nat /\ Len(e) \in Nat /\ Len(t) = Len(s) + Len(e)
               /\ \A i \in DOMAIN s : i \in DOMAIN t /\ t[i] = s[i]
               /\ \A i \in DOMAIN t : i \in DOMAIN s \/ (/\ i - Len(s) \in 1..Len(e)
                                                         /\ i > Len(s) /\ t[i] = e[i - Len(s)])
<1> QED  OBVIOUS

\* The steps that end a pass leave their connection up.
LEMMA PassStaysUp ==
    ASSUME SessionInv, NEW c \in Conns, InTurn(c),
           PassDone(c) \/ \E place \in {"retrieve", "answer", "broken", "controller"} : GoTo(c, place)
    PROVE  Up(c) /\ \A d \in Conns : Up(d)' <=> Up(d)
<1>1. \E place \in {"receiving", "controller", "retrieve", "answer", "broken"} : GoTo(c, place)
  BY DEF PassDone, Release
<1>2. pc'[c] \in {"receiving", "controller", "retrieve", "answer", "broken"}
      /\ \A d \in Conns \ {c} : pc'[d] = pc[d]
  BY <1>1, GoToType DEF SessionInv, Places
<1> QED  BY <1>2 DEF Up, InTurn

\* What a turn says
LEMMA TurnSpeaks ==
    ASSUME SessionInv, NEW c \in Conns,
           \/ BeginTurn(c) \/ DecideNotToRetrieve(c) \/ DecideToRetrieve(c) \/ LackEvidence(c)
           \/ GenerationBreaks(c) \/ CommitAnswer(c) \/ StageFails(c)
    PROVE  \E e : Speaks(c, e)
<1>1. /\ turn \in Nat /\ trace[c] \in Nat /\ prior[c] \in Nat /\ versions \in Seq(Versions)
      /\ Len(versions) \in Nat
  BY DEF SessionInv, TypeOK
<1>2. CASE BeginTurn(c)
  <2>1. turn' \in Nat /\ UNCHANGED <<versions, clientVars>>
    BY <1>1, <1>2 DEF BeginTurn
  <2> DEFINE e == IF sequenceGap' THEN <<ErrorEvent(c, "stream", turn')>> ELSE <<>>
  <2>2. /\ e \in Seq(Events) /\ Len(e) <= 1
        /\ \A i \in 1..Len(e) : e[i].conn = c /\ e[i].kind = "ERROR"
    <3>1. CASE sequenceGap'
      <4> DEFINE ev == ErrorEvent(c, "stream", turn')
      <4>1. ev \in Events /\ ev.conn = c /\ ev.kind = "ERROR"
        BY <2>1, ErrorFields
      <4>2. e = <<ev>>
        BY <3>1
      <4> HIDE DEF ev, e
      <4> QED  BY <4>1, <4>2, OneEvent
    <3>2. CASE ~sequenceGap'
      BY <3>2, NoEvents
    <3> QED  BY <3>1, <3>2
  <2>3. Emit(c, e)
    BY <1>2 DEF BeginTurn
  <2>4. Up(c) /\ \A d \in Conns : Up(d)' <=> Up(d)
    <3>1. pc[c] = "waiting" /\ \E place \in {"receiving", "controller"} : GoTo(c, place)
      BY <1>2 DEF BeginTurn, Release
    <3>2. pc'[c] \in {"receiving", "controller"} /\ \A d \in Conns \ {c} : pc'[d] = pc[d]
      BY <3>1, GoToType DEF SessionInv, Places
    <3> QED  BY <3>1, <3>2 DEF Up
  <2> HIDE DEF e
  <2>5. Speaks(c, e)
    BY <2>1, <2>2, <2>3, <2>4 DEF Speaks, Says, Tells, clientVars
  <2> QED  BY <2>5
<1>3. ASSUME NEW ev \in Events, ev.conn = c,
             ev.kind \notin {"SESSION_RESYNC", "ANSWER_VERSION_CREATED"}, Emit(c, <<ev>>),
             InTurn(c), UNCHANGED clientVars,
             PassDone(c) \/ \E place \in {"retrieve", "answer", "broken", "controller"} : GoTo(c, place)
      PROVE  \E e : Speaks(c, e)
  <2> DEFINE e == <<ev>>
  <2>1. /\ e \in Seq(Events) /\ Len(e) <= 1
        /\ \A i \in 1..Len(e) : /\ e[i].conn = c
                                /\ e[i].kind \notin {"SESSION_RESYNC", "ANSWER_VERSION_CREATED"}
    BY <1>3, OneEvent
  <2>2. Up(c) /\ \A d \in Conns : Up(d)' <=> Up(d)
    BY <1>3, PassStaysUp
  <2>3. Emit(c, e)
    BY <1>3
  <2> HIDE DEF e
  <2>4. Speaks(c, e)
    BY <1>3, <2>1, <2>2, <2>3 DEF Speaks, Says, Tells, clientVars
  <2> QED  BY <2>4
<1>4. CASE DecideNotToRetrieve(c) \/ LackEvidence(c) \/ StageFails(c)
  <2>1. \E ev \in Events : /\ ev.conn = c /\ Emit(c, <<ev>>)
                           /\ ev.kind \notin {"SESSION_RESYNC", "ANSWER_VERSION_CREATED"}
    <3>1. /\ \A kind \in Kinds : Event(kind, c, trace[c], 0) \in Events
          /\ ErrorEvent(c, "controller", trace[c]) \in Events
      BY <1>1, EventType, OwnIdType DEF SessionInv
    <3> QED  BY <1>4, <3>1 DEF DecideNotToRetrieve, LackEvidence, StageFails, Event,
                              ErrorEvent, Kinds
  <2>2. InTurn(c) /\ PassDone(c) /\ UNCHANGED clientVars
    BY <1>4 DEF DecideNotToRetrieve, LackEvidence, StageFails, InTurn
  <2> QED  BY <1>3, <2>1, <2>2
<1>5. CASE DecideToRetrieve(c) \/ GenerationBreaks(c)
  <2>1. \E ev \in Events : /\ ev.conn = c /\ Emit(c, <<ev>>)
                           /\ ev.kind \notin {"SESSION_RESYNC", "ANSWER_VERSION_CREATED"}
    <3>1. \A kind \in Kinds : Event(kind, c, trace[c], 0) \in Events
      BY <1>1, EventType
    <3> QED  BY <1>5, <3>1 DEF DecideToRetrieve, GenerationBreaks, Event, Kinds
  <2>2. /\ InTurn(c) /\ UNCHANGED clientVars
        /\ \E place \in {"retrieve", "answer", "broken", "controller"} : GoTo(c, place)
    BY <1>5 DEF DecideToRetrieve, GenerationBreaks, InTurn
  <2> QED  BY <1>3, <2>1, <2>2
<1>6. CASE CommitAnswer(c)
  <2> DEFINE e == <<Event("ANSWER_VERSION_CREATED", c, trace[c], prior[c] + 1)>>
  <2>1. /\ e \in Seq(Events) /\ Len(e) <= 1
        /\ \A i \in 1..Len(e) : /\ e[i].conn = c /\ e[i].kind = "ANSWER_VERSION_CREATED"
                                /\ e[i].no = prior[c] + 1
    <3> DEFINE ev == Event("ANSWER_VERSION_CREATED", c, trace[c], prior[c] + 1)
    <3>1. ev \in Events
      BY <1>1, EventType DEF Kinds
    <3>2. ev.conn = c /\ ev.kind = "ANSWER_VERSION_CREATED" /\ ev.no = prior[c] + 1
      BY DEF Event
    <3>3. e = <<ev>>
      OBVIOUS
    <3> HIDE DEF ev, e
    <3> QED  BY <3>1, <3>2, <3>3, OneEvent
  <2>2. prior[c] = Len(versions)
    BY <1>6 DEF CommitAnswer, SessionInv, VersionInv, Answering
  <2>3. Len(versions') = Len(versions) + 1
    BY <1>1, <1>6 DEF CommitAnswer
  <2>4. Up(c) /\ \A d \in Conns : Up(d)' <=> Up(d)
    BY <1>6, PassStaysUp DEF CommitAnswer, InTurn
  <2>5. Emit(c, e) /\ UNCHANGED clientVars
    BY <1>6 DEF CommitAnswer
  <2> HIDE DEF e
  <2>6. Speaks(c, e)
    BY <1>1, <2>1, <2>2, <2>3, <2>4, <2>5 DEF Speaks, Says, Tells, clientVars
  <2> QED  BY <2>6
<1> QED  BY <1>2, <1>4, <1>5, <1>6

\* Every step is one of these, with what it says.
LEMMA WhatStepsSay ==
    ASSUME SessionInv, Next
    PROVE  \E c \in Conns :
              \/ \E e : Speaks(c, e)
              \/ MarkConnected(c)
              \/ Connect(c)
              \/ Disconnect(c)
              \/ Deliver(c)
              \/ NoticeDisconnect(c) \/ ReceiveUndecodable(c)
              \/ /\ UNCHANGED <<eventLog, queue, seen, online, everConnected>>
                 /\ \A d \in Conns : Up(d)' <=> Up(d)
<1>1. ASSUME NEW c \in Conns, ReceiveInvalidFrame(c) PROVE \E e : Speaks(c, e)
  <2> DEFINE e == <<ErrorEvent(c, "stream", 0)>>
  <2>1. /\ e \in Seq(Events) /\ Len(e) <= 1
        /\ \A i \in 1..Len(e) : e[i].conn = c /\ e[i].kind = "ERROR"
    <3> DEFINE ev == ErrorEvent(c, "stream", 0)
    <3>1. ev \in Events /\ ev.conn = c /\ ev.kind = "ERROR"
      BY ErrorFields
    <3>2. e = <<ev>>
      OBVIOUS
    <3> HIDE DEF ev, e
    <3> QED  BY <3>1, <3>2, OneEvent
  <2>2. /\ Emit(c, e) /\ UNCHANGED <<pc, seen, online, everConnected>> /\ pc[c] = "receiving"
    BY <1>1 DEF ReceiveInvalidFrame, Receive
  <2> HIDE DEF e
  <2>3. Speaks(c, e)
    BY <2>1, <2>2 DEF Speaks, Says, Tells, Up
  <2> QED  BY <2>3
<1>2. ASSUME NEW c \in Conns, NEW chunk \in Chunks, ReceiveChunk(c, chunk)
      PROVE  /\ UNCHANGED <<eventLog, queue, seen, online, everConnected>>
             /\ \A d \in Conns : Up(d)' <=> Up(d)
  <2>1. GoTo(c, "waiting") /\ pc[c] = "receiving"
    BY <1>2 DEF ReceiveChunk, Receive
  <2>2. pc'[c] = "waiting" /\ \A d \in Conns \ {c} : pc'[d] = pc[d]
    BY <2>1, GoToType DEF SessionInv, Places
  <2> QED  BY <1>2, <2>1, <2>2 DEF ReceiveChunk, Up
<1>3. ASSUME NEW c \in Conns, BeginAnswer(c) \/ AnswerEmpty(c)
      PROVE  /\ UNCHANGED <<eventLog, queue, seen, online, everConnected>>
             /\ \A d \in Conns : Up(d)' <=> Up(d)
  <2>1. InTurn(c) /\ (PassDone(c) \/ GoTo(c, "answer"))
    BY <1>3 DEF BeginAnswer, AnswerEmpty, InTurn
  <2>2. \A d \in Conns : Up(d)' <=> Up(d)
    BY <2>1, PassStaysUp
  <2> QED  BY <1>3, <2>2 DEF BeginAnswer, AnswerEmpty, clientVars
<1> QED  BY <1>1, <1>2, <1>3, TurnSpeaks DEF Next, TurnStep, PassStep

LEMMA ConnOf ==
    ASSUME SessionInv, NEW i \in DOMAIN eventLog
    PROVE  eventLog[i].conn \in Conns
<1>1. eventLog[i] \in Events
  BY DEF SessionInv, TypeOK
<1> QED  BY <1>1 DEF Events

\* What a step that says e adds to the log, and what it leaves
LEMMA LogGrows ==
    ASSUME SessionInv, NEW c \in Conns, NEW e, Says(c, e)
    PROVE  /\ \A i \in DOMAIN eventLog : /\ i \in DOMAIN eventLog' /\ eventLog'[i] = eventLog[i]
                                         /\ \A d \in Conns : Before(i, d)' = Before(i, d)
           /\ \A i \in DOMAIN eventLog' \ DOMAIN eventLog :
                 /\ eventLog'[i].conn = c /\ \E j \in 1..Len(e) : eventLog'[i] = e[j]
                 /\ Unheard(c) => Before(i, c)' = {}
           /\ \A d \in Conns : d # c \/ e = <<>> => (Unheard(d)' <=> Unheard(d))
           /\ \A d \in Conns : d # c => (Resynced(d)' <=> Resynced(d))
           /\ Resynced(c)' <=> Resynced(c) \/ \E j \in 1..Len(e) : e[j].kind = "SESSION_RESYNC"
<1>1. /\ eventLog \in Seq(Events) /\ e \in Seq(Events) /\ Len(e) <= 1 /\ eventLog' = eventLog \o e
      /\ \A i \in 1..Len(e) : e[i].conn = c
  BY DEF SessionInv, TypeOK, Says, Emit
<1>2. /\ DOMAIN eventLog' = 1..Len(eventLog') /\ DOMAIN eventLog = 1..Len(eventLog)
      /\ Len(eventLog) \in Nat /\ Len(e) \in Nat /\ Len(eventLog') = Len(eventLog) + Len(e)
      /\ \A i \in DOMAIN eventLog : i \in DOMAIN eventLog' /\ eventLog'[i] = eventLog[i]
      /\ \A i \in DOMAIN eventLog' :
            i \in DOMAIN eventLog \/ (/\ i - Len(eventLog) \in 1..Len(e)
                                      /\ i > Len(eventLog) /\ eventLog'[i] = e[i - Len(eventLog)])
  BY <1>1, LogJoined
<1>3. \A i \in DOMAIN eventLog' \ DOMAIN eventLog :
         i = Len(eventLog) + 1 /\ eventLog'[i].conn = c /\ \E j \in 1..Len(e) : eventLog'[i] = e[j]
  BY <1>1, <1>2
<1>4. \A i \in 1..Len(eventLog) + 1 : \A d \in Conns : Before(i, d)' = Before(i, d)
  <2> TAKE i \in 1..Len(eventLog) + 1
  <2> TAKE d \in Conns
  <2>1. \A j \in DOMAIN eventLog' : j < i => j \in DOMAIN eventLog
    BY <1>2
  <2> QED  BY <1>2, <2>1 DEF Before
<1>5. Unheard(c) => Before(Len(eventLog) + 1, c) = {}
  BY DEF Unheard, Before
<1>6. \A j \in 1..Len(e) : /\ Len(eventLog) + j \in DOMAIN eventLog'
                           /\ eventLog'[Len(eventLog) + j] = e[j]
  BY <1>1, <1>2
<1>7. \A d \in Conns : d # c \/ e = <<>> => (Unheard(d)' <=> Unheard(d))
  <2>1. e = <<>> => 1..Len(e) = {}
    BY <1>1
  <2> QED  BY <1>1, <1>2, <1>3, <2>1 DEF Unheard
<1>8. \A d \in Conns : d # c => (Resynced(d)' <=> Resynced(d))
  BY <1>2, <1>3 DEF Resynced
<1>9. Resynced(c)' <=> Resynced(c) \/ \E j \in 1..Len(e) : e[j].kind = "SESSION_RESYNC"
  <2>1. Resynced(c)' => Resynced(c) \/ \E j \in 1..Len(e) : e[j].kind = "SESSION_RESYNC"
    BY <1>2, <1>3 DEF Resynced
  <2>2. Resynced(c) => Resynced(c)'
    BY <1>2 DEF Resynced
  <2>3. (\E j \in 1..Len(e) : e[j].kind = "SESSION_RESYNC") => Resynced(c)'
    BY <1>1, <1>6 DEF Resynced
  <2> QED  BY <2>1, <2>2, <2>3
<1>10. \A i \in DOMAIN eventLog' \ DOMAIN eventLog : Unheard(c) => Before(i, c)' = {}
  <2> TAKE i \in DOMAIN eventLog' \ DOMAIN eventLog
  <2>1. i \in 1..Len(eventLog) + 1 /\ i = Len(eventLog) + 1
    BY <1>2, <1>3
  <2>2. Before(i, c)' = Before(i, c)
    BY <1>4, <2>1
  <2>3. Unheard(c) => Before(i, c) = {}
    BY DEF Unheard, Before
  <2> QED  BY <2>2, <2>3
<1>11. \A i \in DOMAIN eventLog : i \in 1..Len(eventLog) + 1
  BY <1>2
<1> QED  BY <1>2, <1>3, <1>4, <1>7, <1>8, <1>9, <1>10, <1>11

\* mark_connected says SESSION_RESYNC, but to the first connection nothing.
LEMMA MarkSays ==
    ASSUME SessionInv, NEW c \in Conns, MarkConnected(c)
    PROVE  LET e == Resync(c)
           IN  /\ Says(c, e) /\ \A i \in 1..Len(e) : e[i].kind = "SESSION_RESYNC" /\ everConnected
               /\ everConnected => 1 \in 1..Len(e)
<1> DEFINE e == Resync(c)
           resync == <<ResyncEvent(c)>>
<1>1. Len(versions) \in Nat
  BY DEF SessionInv, TypeOK
<1>2. /\ resync \in Seq(Events) /\ Len(resync) = 1
      /\ \A i \in 1..Len(resync) : /\ resync[i].conn = c /\ resync[i].kind = "SESSION_RESYNC"
                                   /\ resync[i].no = Len(versions)
  <2>1. Len(resync) = 1
    OBVIOUS
  <2>2. ResyncEvent(c) \in Events
    BY OwnIdType DEF SessionInv
  <2>3. /\ ResyncEvent(c).conn = c /\ ResyncEvent(c).kind = "SESSION_RESYNC"
        /\ ResyncEvent(c).no = Len(versions)
    BY DEF ResyncEvent
  <2> QED  BY <2>1, <2>2, <2>3, OneEvent
<1>3. /\ e \in Seq(Events) /\ Len(e) <= 1
      /\ \A i \in 1..Len(e) : /\ e[i].conn = c /\ e[i].kind = "SESSION_RESYNC"
                              /\ e[i].no = Len(versions) /\ everConnected
      /\ everConnected => 1 \in 1..Len(e)
  <2>1. CASE everConnected
    <3>1. e = resync
      BY <2>1 DEF Resync
    <3>2. /\ resync \in Seq(Events) /\ Len(resync) <= 1 /\ 1 \in 1..Len(resync)
          /\ \A i \in 1..Len(resync) : /\ resync[i].conn = c /\ resync[i].kind = "SESSION_RESYNC"
                                       /\ resync[i].no = Len(versions)
      BY <1>2
    <3> HIDE DEF e, resync
    <3>3. /\ e \in Seq(Events) /\ Len(e) <= 1 /\ 1 \in 1..Len(e)
          /\ \A i \in 1..Len(e) : /\ e[i].conn = c /\ e[i].kind = "SESSION_RESYNC"
                                  /\ e[i].no = Len(versions)
      BY <3>1, <3>2, Zenon
    <3> QED  BY <2>1, <3>3, Zenon
  <2>2. CASE ~everConnected
    <3>1. e = <<>>
      BY <2>2 DEF Resync
    <3> HIDE DEF e
    <3> QED  BY <2>2, <3>1, NoEvents
  <2> QED  BY <2>1, <2>2
<1>4. Emit(c, e) /\ UNCHANGED <<seen, online, versions>>
  BY DEF MarkConnected, turnVars
<1> HIDE DEF e
<1>5. Says(c, e)
  BY <1>1, <1>3, <1>4 DEF Says
<1> QED  BY <1>3, <1>5 DEF e

\* Whoever comes up after the first is resynced before it hears anything else.
LEMMA ResyncStep ==
    ASSUME SessionInv, ResyncInv, [Next]_vars
    PROVE  ResyncInv'
<1>1. ASSUME UNCHANGED <<eventLog, everConnected>>, \A d \in Conns : Up(d)' <=> Up(d)
      PROVE  ResyncInv'
  <2>1. \A d \in Conns : Unheard(d)' = Unheard(d) /\ Resynced(d)' = Resynced(d)
    BY <1>1 DEF Unheard, Resynced
  <2>2. \A i \in DOMAIN eventLog : Before(i, eventLog[i].conn)' = Before(i, eventLog[i].conn)
    BY <1>1 DEF Before
  <2> QED  BY <1>1, <2>1, <2>2 DEF ResyncInv
<1>2. ASSUME NEW c \in Conns, NEW e, Speaks(c, e) PROVE ResyncInv'
  <2>1. /\ Says(c, e) /\ Up(c) /\ UNCHANGED everConnected /\ \A d \in Conns : Up(d)' <=> Up(d)
        /\ \A i \in 1..Len(e) : e[i].kind # "SESSION_RESYNC"
    BY <1>2 DEF Speaks
  <2>2. \A d \in Conns : Resynced(d)' <=> Resynced(d)
    BY <2>1, LogGrows
  <2>3. \A d \in Conns : ~Up(d) => Unheard(d)'
    BY <2>1, LogGrows DEF ResyncInv
  <2>4. ASSUME NEW i \in DOMAIN eventLog', eventLog'[i].kind = "SESSION_RESYNC"
        PROVE  {j \in DOMAIN eventLog' : j < i /\ eventLog'[j].conn = eventLog'[i].conn} = {}
    <3>1. i \in DOMAIN eventLog /\ eventLog'[i] = eventLog[i]
      BY <2>1, <2>4, LogGrows
    <3>2. PICK d \in Conns : d = eventLog[i].conn
      BY <3>1, ConnOf
    <3>3. Before(i, d)' = {}
      BY <2>1, <2>4, <3>1, <3>2, LogGrows, SMTT(20), ZenonT(60) DEF ResyncInv
    <3> QED  BY <3>1, <3>2, <3>3 DEF Before
  <2> QED  BY <2>1, <2>2, <2>3, <2>4 DEF ResyncInv, Before
<1>3. ASSUME NEW c \in Conns, MarkConnected(c) PROVE ResyncInv'
  <2> DEFINE e == Resync(c)
  <2>1. GoTo(c, "receiving") /\ ~Up(c) /\ everConnected' = TRUE
    BY <1>3 DEF MarkConnected, Up
  <2>2. Up(c)' /\ \A d \in Conns : d # c => (Up(d)' <=> Up(d))
    <3>1. pc'[c] = "receiving" /\ \A d \in Conns \ {c} : pc'[d] = pc[d]
      BY <2>1, GoToType DEF SessionInv, Places
    <3> QED  BY <3>1 DEF Up
  <2>3. /\ Says(c, e) /\ \A i \in 1..Len(e) : e[i].kind = "SESSION_RESYNC" /\ everConnected
        /\ everConnected => 1 \in 1..Len(e)
    BY <1>3, MarkSays
  <2> HIDE DEF e
  <2>4. Unheard(c)
    BY <2>1 DEF ResyncInv
  <2>5. \A d \in Conns : ~Up(d)' => Unheard(d)'
    BY <2>2, <2>3, LogGrows DEF ResyncInv
  <2>6. ASSUME NEW i \in DOMAIN eventLog', eventLog'[i].kind = "SESSION_RESYNC"
        PROVE  {j \in DOMAIN eventLog' : j < i /\ eventLog'[j].conn = eventLog'[i].conn} = {}
    <3>1. CASE i \in DOMAIN eventLog
      <4>1. eventLog'[i] = eventLog[i]
        BY <2>3, <3>1, LogGrows
      <4>2. PICK d \in Conns : d = eventLog[i].conn
        BY <3>1, ConnOf
      <4>3. Before(i, d)' = {}
        BY <2>3, <2>6, <3>1, <4>1, <4>2, LogGrows, ZenonT(60) DEF ResyncInv
      <4> QED  BY <4>1, <4>2, <4>3 DEF Before
    <3>2. CASE i \notin DOMAIN eventLog
      <4>1. eventLog'[i].conn = c /\ Before(i, c)' = {}
        BY <2>3, <2>4, <3>2, LogGrows
      <4> QED  BY <4>1 DEF Before
    <3> QED  BY <3>1, <3>2
  <2>7. \A d \in Conns : d # c => (Resynced(d)' <=> Resynced(d))
    BY <2>3, LogGrows
  <2>8. Resynced(c)' <=> everConnected
    <3>1. ~Resynced(c)
      BY <2>4 DEF Unheard, Resynced
    <3>2. Resynced(c)' <=> \E j \in 1..Len(e) : e[j].kind = "SESSION_RESYNC"
      BY <2>3, <3>1, LogGrows
    <3> QED  BY <2>3, <3>2
  <2>9. \E first \in Conns :
           Up(first)' /\ \A d \in Conns : Up(d)' => (Resynced(d)' <=> d # first)
    <3>1. CASE everConnected
      <4>1. PICK first \in Conns :
               Up(first) /\ \A d \in Conns : Up(d) => (Resynced(d) <=> d # first)
        BY <3>1 DEF ResyncInv
      <4>2. first # c
        BY <2>1, <4>1
      <4> QED  BY <2>2, <2>7, <2>8, <3>1, <4>1, <4>2
    <3>2. CASE ~everConnected
      <4>1. \A d \in Conns : ~Up(d)
        BY <3>2 DEF ResyncInv
      <4> QED  BY <2>2, <2>8, <3>2, <4>1
    <3> QED  BY <3>1, <3>2
  <2> QED  BY <2>1, <2>5, <2>6, <2>9 DEF ResyncInv, Before
<1>4. ASSUME NEW c \in Conns, Connect(c) PROVE ResyncInv'
  <2>1. GoTo(c, "accepted") /\ pc[c] = "new" /\ UNCHANGED <<eventLog, everConnected>>
    BY <1>4 DEF Connect
  <2>2. pc'[c] = "accepted" /\ \A d \in Conns \ {c} : pc'[d] = pc[d]
    BY <2>1, GoToType DEF SessionInv, Places
  <2>3. \A d \in Conns : Up(d)' <=> Up(d)
    BY <2>1, <2>2 DEF Up
  <2> QED  BY <1>1, <2>1, <2>3
<1>5. ASSUME NEW c \in Conns, NoticeDisconnect(c) \/ ReceiveUndecodable(c) PROVE ResyncInv'
  <2>1. GoTo(c, "gone") /\ pc[c] = "receiving" /\ UNCHANGED <<eventLog, everConnected>>
    BY <1>5 DEF NoticeDisconnect, ReceiveUndecodable, Receive, Leave, clientVars
  <2>2. pc'[c] = "gone" /\ \A d \in Conns \ {c} : pc'[d] = pc[d]
    BY <2>1, GoToType DEF SessionInv, Places
  <2>3. \A d \in Conns : Up(d)' <=> Up(d)
    BY <2>1, <2>2 DEF Up
  <2> QED  BY <1>1, <2>1, <2>3
<1>6. ASSUME NEW c \in Conns, Disconnect(c) \/ Deliver(c) PROVE ResyncInv'
  <2>1. UNCHANGED <<eventLog, everConnected, pc>>
    BY <1>6 DEF Disconnect, Deliver
  <2> QED  BY <1>1, <2>1 DEF Up
<1>7. CASE UNCHANGED vars
  BY <1>1, <1>7 DEF vars, clientVars, Up
<1>8. CASE Next
  BY <1>1, <1>2, <1>3, <1>4, <1>5, <1>6, <1>8, WhatStepsSay
<1> QED  BY <1>7, <1>8

\* Of all connections of a session the first, and no other, gets no SESSION_RESYNC;
\* the others get it before any other event, once (REQ-STREAM-03).
THEOREM ReconnectsAreResynced == Spec => []ResyncOnEveryReconnect
<1>1. Init => ResyncInv
  <2> SUFFICES ASSUME Init PROVE ResyncInv
    OBVIOUS
  <2>1. eventLog = <<>> /\ everConnected = FALSE /\ \A c \in Conns : pc[c] = "new"
    BY DEF Init
  <2> QED  BY <2>1 DEF ResyncInv, Up, Unheard
<1>2. ResyncInv => ResyncOnEveryReconnect
  BY DEF ResyncInv, ResyncOnEveryReconnect, Up
<1>3. SessionInv /\ ResyncInv /\ [Next]_vars => ResyncInv'
  BY ResyncStep
<1> QED  BY <1>1, <1>2, <1>3, SessionInvariant, PTL DEF Spec

(***************************************************************************)
(* What clients know of the answers.                                       *)
(***************************************************************************)

\* What is queued for a client tells of ever later answers, up to the latest.
QueueInv ==
    /\ \A c \in Conns : seen[c] <= Len(versions)
    /\ \A c \in Conns : ~Up(c) => queue[c] = <<>>
    /\ \A c \in Conns : \A i \in DOMAIN queue[c] :
          Tells(queue[c][i]) => queue[c][i].no <= Len(versions)
    /\ \A c \in Conns : \A i, j \in DOMAIN queue[c] :
          i < j /\ Tells(queue[c][i]) /\ Tells(queue[c][j]) => queue[c][i].no <= queue[c][j].no

\* With one client at a time, and of nothing older than what a client before has seen.
ViewInv ==
    ~ConcurrentClients =>
        /\ \A c, d \in Conns : online[c] /\ online[d] => c = d
        /\ \A c, d \in Conns : online[c] /\ (c = d \/ ~online[d]) =>
              \A i \in DOMAIN queue[c] : Tells(queue[c][i]) => queue[c][i].no >= seen[d]

ClientViewInv == QueueInv /\ ViewInv

LEMMA VersionsGrow ==
    ASSUME SessionInv, [Next]_vars
    PROVE  Len(versions) \in Nat /\ Len(versions') \in Nat /\ Len(versions) <= Len(versions')
<1>1. versions \in Seq(Versions)
  BY DEF SessionInv, TypeOK
<1> QED  BY <1>1, AnswerStep DEF Answers!Supersede

LEMMA QueueTypes ==
    ASSUME SessionInv
    PROVE  /\ \A c \in Conns : queue[c] \in Seq(Events) /\ seen[c] \in Nat
           /\ \A c \in Conns : \A i \in DOMAIN queue[c] : queue[c][i].no \in Nat
<1>1. \A c \in Conns : queue[c] \in Seq(Events) /\ seen[c] \in Nat
  BY DEF SessionInv, TypeOK
<1>2. ASSUME NEW c \in Conns, NEW i \in DOMAIN queue[c] PROVE queue[c][i].no \in Nat
  <2>1. queue[c][i] \in Events
    BY <1>1
  <2> QED  BY <2>1 DEF Events
<1> QED  BY <1>1, <1>2

\* c is told something, and what its client and the others have seen stays.
LEMMA ToldStep ==
    ASSUME SessionInv, [Next]_vars, ClientViewInv, NEW c \in Conns, NEW e, Says(c, e),
           Up(c)', \A d \in Conns : d # c => (Up(d)' <=> Up(d))
    PROVE  ClientViewInv'
<1>1. Len(versions) \in Nat /\ Len(versions') \in Nat /\ Len(versions) <= Len(versions')
  BY VersionsGrow
<1>2. /\ \A d \in Conns : queue[d] \in Seq(Events) /\ seen[d] \in Nat
      /\ \A d \in Conns : \A i \in DOMAIN queue[d] : queue[d][i].no \in Nat
  BY QueueTypes
<1>3. /\ e \in Seq(Events) /\ Len(e) <= 1 /\ UNCHANGED <<seen, online>>
      /\ queue'[c] = queue[c] \o e /\ \A d \in Conns \ {c} : queue'[d] = queue[d]
      /\ \A i \in 1..Len(e) : Tells(e[i]) => Len(versions) <= e[i].no /\ e[i].no <= Len(versions')
  BY DEF Says, Emit, SessionInv, TypeOK
<1>4. \A i \in 1..Len(e) : e[i].no \in Nat
  <2>1. \A i \in 1..Len(e) : e[i] \in Events
    BY <1>3
  <2> QED  BY <2>1 DEF Events
<1>5. /\ DOMAIN queue'[c] = 1..Len(queue'[c]) /\ DOMAIN queue[c] = 1..Len(queue[c])
      /\ Len(queue[c]) \in Nat /\ Len(e) \in Nat /\ Len(queue'[c]) = Len(queue[c]) + Len(e)
      /\ \A i \in DOMAIN queue'[c] :
            \/ i \in DOMAIN queue[c] /\ queue'[c][i] = queue[c][i]
            \/ /\ i = Len(queue[c]) + 1 /\ 1 \in 1..Len(e) /\ queue'[c][i] = e[1]
  <2>1. queue[c] \in Seq(Events)
    BY <1>2
  <2> QED  BY <1>3, <2>1, LogJoined
<1>6. \A d \in Conns : seen'[d] = seen[d] /\ seen[d] <= Len(versions) /\ seen'[d] <= Len(versions')
  BY <1>1, <1>2, <1>3 DEF ClientViewInv, QueueInv
<1>7. \A d \in Conns : \A i \in DOMAIN queue'[d] :
         Tells(queue'[d][i]) =>
            /\ queue'[d][i].no <= Len(versions')
            /\ \/ d = c /\ i = Len(queue[c]) + 1 /\ queue'[d][i].no >= Len(versions)
               \/ i \in DOMAIN queue[d] /\ queue'[d][i] = queue[d][i] /\ queue'[d][i].no <= Len(versions)
  <2> TAKE d \in Conns
  <2> TAKE i \in DOMAIN queue'[d]
  <2> HAVE Tells(queue'[d][i])
  <2>1. CASE d = c /\ i \notin DOMAIN queue[c]
    BY <1>1, <1>3, <1>4, <1>5, <2>1
  <2>2. CASE d = c /\ i \in DOMAIN queue[c]
    <3>1. queue'[c][i] = queue[c][i]
      BY <1>5, <2>2
    <3> QED  BY <1>1, <1>2, <2>2, <3>1 DEF ClientViewInv, QueueInv
  <2>3. CASE d # c
    <3>1. queue'[d] = queue[d] /\ queue[d][i].no \in Nat /\ i \in DOMAIN queue[d]
      BY <1>2, <1>3, <2>3
    <3>2. queue[d][i].no <= Len(versions)
      BY <3>1 DEF ClientViewInv, QueueInv
    <3> QED  BY <1>1, <3>1, <3>2
  <2> QED  BY <2>1, <2>2, <2>3
<1>8. \A d \in Conns : \A i, j \in DOMAIN queue'[d] :
         i < j /\ Tells(queue'[d][i]) /\ Tells(queue'[d][j]) => queue'[d][i].no <= queue'[d][j].no
  <2> TAKE d \in Conns
  <2> TAKE i, j \in DOMAIN queue'[d]
  <2> HAVE i < j /\ Tells(queue'[d][i]) /\ Tells(queue'[d][j])
  <2>1. CASE j \in DOMAIN queue[d] /\ queue'[d][j] = queue[d][j]
    <3>1. i \in DOMAIN queue[d] /\ queue'[d][i] = queue[d][i]
      <4>1. CASE d = c
        BY <1>5, <2>1, <4>1, SMTT(20), ZenonT(60)
      <4>2. CASE d # c
        BY <1>3, <4>2
      <4> QED  BY <4>1, <4>2
    <3> QED  BY <2>1, <3>1 DEF ClientViewInv, QueueInv
  <2>2. CASE d = c /\ j = Len(queue[c]) + 1 /\ queue'[d][j].no >= Len(versions)
    <3>1. i \in DOMAIN queue[d] /\ queue'[d][i] = queue[d][i]
      BY <1>5, <2>2, SMTT(20), ZenonT(60)
    <3>2. queue'[d][i].no <= Len(versions) /\ queue'[d][i].no \in Nat
      BY <1>2, <3>1 DEF ClientViewInv, QueueInv
    <3>3. queue'[d][j].no \in Nat
      <4>1. j \in DOMAIN queue'[c] /\ j \notin DOMAIN queue[c]
        BY <1>5, <2>2
      <4>2. queue'[d][j] = e[1] /\ 1 \in 1..Len(e)
        BY <1>5, <2>2, <4>1
      <4> QED  BY <1>4, <4>2
    <3> QED  BY <1>1, <2>2, <3>2, <3>3
  <2> QED  BY <1>7, <2>1, <2>2
<1>9. \A d \in Conns : ~Up(d)' => queue'[d] = <<>>
  BY <1>3 DEF ClientViewInv, QueueInv
<1>10. QueueInv'
  BY <1>6, <1>7, <1>8, <1>9 DEF QueueInv
<1>11. ASSUME ~ConcurrentClients, NEW b \in Conns, NEW d \in Conns, online'[b],
              b = d \/ ~online'[d], NEW i \in DOMAIN queue'[b], Tells(queue'[b][i])
       PROVE  queue'[b][i].no >= seen'[d]
  <2>1. seen'[d] = seen[d] /\ seen[d] <= Len(versions) /\ seen[d] \in Nat
    BY <1>2, <1>6
  <2>2. CASE b = c /\ i = Len(queue[c]) + 1 /\ queue'[b][i].no >= Len(versions)
    <3>1. queue'[b][i].no \in Nat
      BY <1>4, <1>5, <2>2, SMTT(20), ZenonT(60)
    <3> QED  BY <1>1, <2>1, <2>2, <3>1
  <2>3. CASE i \in DOMAIN queue[b] /\ queue'[b][i] = queue[b][i]
    BY <1>3, <1>11, <2>1, <2>3 DEF ClientViewInv, ViewInv
  <2> QED  BY <1>7, <1>11, <2>2, <2>3
<1>12. ViewInv'
  BY <1>3, <1>11 DEF ClientViewInv, ViewInv
<1> QED  BY <1>10, <1>12 DEF ClientViewInv

LEMMA ViewStep ==
    ASSUME SessionInv, ClientViewInv, [Next]_vars
    PROVE  ClientViewInv'
<1>1. Len(versions) \in Nat /\ Len(versions') \in Nat /\ Len(versions) <= Len(versions')
  BY VersionsGrow
<1>2. /\ \A d \in Conns : queue[d] \in Seq(Events) /\ seen[d] \in Nat
      /\ \A d \in Conns : \A i \in DOMAIN queue[d] : queue[d][i].no \in Nat
  BY QueueTypes
<1>3. ASSUME UNCHANGED <<queue, seen>>, \A d \in Conns : Up(d)' <=> Up(d)
      PROVE  QueueInv'
  BY <1>1, <1>2, <1>3 DEF ClientViewInv, QueueInv
<1>4. ASSUME UNCHANGED <<queue, seen, online>> PROVE ViewInv'
  BY <1>4 DEF ClientViewInv, ViewInv
<1>5. ASSUME NEW c \in Conns, NEW e, Speaks(c, e) PROVE ClientViewInv'
  <2>1. Up(c)' /\ \A d \in Conns : d # c => (Up(d)' <=> Up(d))
    BY <1>5 DEF Speaks
  <2> QED  BY <1>5, <2>1, ToldStep DEF Speaks
<1>6. ASSUME NEW c \in Conns, MarkConnected(c) PROVE ClientViewInv'
  <2>1. GoTo(c, "receiving")
    BY <1>6 DEF MarkConnected
  <2>2. pc'[c] = "receiving" /\ \A d \in Conns \ {c} : pc'[d] = pc[d]
    BY <2>1, GoToType DEF SessionInv, Places
  <2>3. Up(c)' /\ \A d \in Conns : d # c => (Up(d)' <=> Up(d))
    BY <2>2 DEF Up
  <2>4. Says(c, Resync(c))
    BY <1>6, MarkSays
  <2> QED  BY <2>3, <2>4, ToldStep
<1>7. ASSUME NEW c \in Conns, Connect(c) PROVE ClientViewInv'
  <2>1. /\ GoTo(c, "accepted") /\ pc[c] = "new" /\ UNCHANGED <<queue, seen>>
        /\ ConcurrentClients \/ \A d \in Conns : ~online[d]
        /\ online' = [online EXCEPT ![c] = TRUE]
    BY <1>7 DEF Connect
  <2>2. pc'[c] = "accepted" /\ \A d \in Conns \ {c} : pc'[d] = pc[d]
    BY <2>1, GoToType DEF SessionInv, Places
  <2>3. \A d \in Conns : Up(d)' <=> Up(d)
    BY <2>1, <2>2 DEF Up
  <2>4. queue[c] = <<>>
    BY <2>1 DEF ClientViewInv, QueueInv, Up
  <2>5. \A d \in Conns : online'[d] => d = c \/ online[d]
    BY <2>1 DEF SessionInv, TypeOK
  <2>6. ViewInv'
    BY <2>1, <2>4, <2>5 DEF ViewInv
  <2> QED  BY <1>3, <2>1, <2>3, <2>6 DEF ClientViewInv
<1>8. ASSUME NEW c \in Conns, Disconnect(c) PROVE ClientViewInv'
  <2>1. UNCHANGED <<queue, seen, pc>> /\ online[c] /\ online' = [online EXCEPT ![c] = FALSE]
    BY <1>8 DEF Disconnect
  <2>2. \A d \in Conns : online'[d] => d # c /\ online[d]
    BY <2>1 DEF SessionInv, TypeOK
  <2>3. ViewInv'
    BY <2>1, <2>2 DEF ClientViewInv, ViewInv
  <2> QED  BY <1>3, <2>1, <2>3 DEF ClientViewInv, Up
<1>9. ASSUME NEW c \in Conns, NoticeDisconnect(c) \/ ReceiveUndecodable(c) PROVE ClientViewInv'
  <2>1. /\ GoTo(c, "gone") /\ pc[c] = "receiving" /\ UNCHANGED <<seen, versions>>
        /\ queue' = [queue EXCEPT ![c] = <<>>]
        /\ \/ UNCHANGED online
           \/ online' = [online EXCEPT ![c] = FALSE]
        /\ NoticeDisconnect(c) => ~online[c] /\ UNCHANGED online
        /\ ReceiveUndecodable(c) => online' = [online EXCEPT ![c] = FALSE]
    BY <1>9 DEF NoticeDisconnect, ReceiveUndecodable, Receive, Leave, clientVars, turnVars
  <2>2. pc'[c] = "gone" /\ \A d \in Conns \ {c} : pc'[d] = pc[d]
    BY <2>1, GoToType DEF SessionInv, Places
  <2>3. /\ queue'[c] = <<>> /\ \A d \in Conns \ {c} : queue'[d] = queue[d]
        /\ \A d \in Conns : d # c => (Up(d)' <=> Up(d))
    BY <2>1, <2>2 DEF Up, SessionInv, TypeOK
  <2>4. QueueInv'
    <3>1. Up(c)'
      BY <2>2 DEF Up
    <3>2. \A d \in Conns : \A i \in DOMAIN queue'[d] : d # c /\ queue'[d] = queue[d]
      BY <2>3
    <3> QED  BY <1>1, <1>2, <2>1, <2>3, <3>1, <3>2 DEF ClientViewInv, QueueInv
  <2>5. \A d \in Conns : online'[d] => d # c /\ online[d]
    BY <1>9, <2>1 DEF SessionInv, TypeOK
  <2>6. \A d \in Conns : online[d] /\ ~online'[d] => d = c
    BY <1>9, <2>1 DEF SessionInv, TypeOK
  <2>7. ViewInv'
    BY <2>1, <2>3, <2>5, <2>6 DEF ClientViewInv, ViewInv
  <2> QED  BY <2>4, <2>7 DEF ClientViewInv
<1>10. ASSUME NEW c \in Conns, Deliver(c) PROVE ClientViewInv'
  <2> DEFINE q == queue[c]
             told == Head(q)
  <2>1. /\ online[c] /\ q # <<>> /\ UNCHANGED <<pc, online, versions>>
        /\ queue' = [queue EXCEPT ![c] = Tail(q)]
        /\ seen' = [seen EXCEPT ![c] = IF Tells(told) THEN told.no ELSE seen[c]]
    BY <1>10 DEF Deliver, turnVars, Tells
  <2>2. q \in Seq(Events) /\ 1 \in DOMAIN q /\ told = q[1]
    <3>1. q \in Seq(Events)
      BY <1>2
    <3> HIDE DEF q
    <3> QED  BY <2>1, <3>1
  <2>3. /\ queue'[c] = Tail(q) /\ \A d \in Conns \ {c} : queue'[d] = queue[d] /\ seen'[d] = seen[d]
        /\ seen'[c] = IF Tells(told) THEN told.no ELSE seen[c]
    BY <2>1 DEF SessionInv, TypeOK
  <2>4. \A i \in DOMAIN queue'[c] :
           i \in Nat /\ i + 1 \in DOMAIN q /\ 1 < i + 1 /\ queue'[c][i] = q[i + 1]
    <3> HIDE DEF q
    <3> QED  BY <2>1, <2>2, <2>3
  <2>5. seen'[c] <= Len(versions)
    BY <2>2, <2>3 DEF ClientViewInv, QueueInv
  <2>6. QueueInv'
    <3>1. \A d \in Conns : ~Up(d)' => queue'[d] = <<>>
      <4>1. Up(c) /\ \A d \in Conns : Up(d)' <=> Up(d)
        BY <2>1 DEF ClientViewInv, QueueInv, Up
      <4> QED  BY <2>3, <4>1 DEF ClientViewInv, QueueInv
    <3>2. \A d \in Conns : \A i \in DOMAIN queue'[d] :
             Tells(queue'[d][i]) => queue'[d][i].no <= Len(versions')
      <4> TAKE d \in Conns
      <4>1. CASE d = c
        BY <2>1, <2>4, <4>1 DEF ClientViewInv, QueueInv
      <4>2. CASE d # c
        BY <2>1, <2>3, <4>2 DEF ClientViewInv, QueueInv
      <4> QED  BY <4>1, <4>2
    <3>3. \A d \in Conns : \A i, j \in DOMAIN queue'[d] :
             i < j /\ Tells(queue'[d][i]) /\ Tells(queue'[d][j]) =>
                queue'[d][i].no <= queue'[d][j].no
      <4> TAKE d \in Conns
      <4>1. CASE d = c
        <5> TAKE i, j \in DOMAIN queue'[d]
        <5> HAVE i < j /\ Tells(queue'[d][i]) /\ Tells(queue'[d][j])
        <5>1. /\ i + 1 \in DOMAIN q /\ j + 1 \in DOMAIN q /\ i + 1 < j + 1
              /\ queue'[d][i] = q[i + 1] /\ queue'[d][j] = q[j + 1]
          BY <2>4, <4>1
        <5> QED  BY <5>1 DEF ClientViewInv, QueueInv
      <4>2. CASE d # c
        BY <2>3, <4>2 DEF ClientViewInv, QueueInv
      <4> QED  BY <4>1, <4>2
    <3>4. \A d \in Conns : seen'[d] <= Len(versions')
      BY <2>1, <2>3, <2>5 DEF ClientViewInv, QueueInv
    <3> QED  BY <3>1, <3>2, <3>3, <3>4 DEF QueueInv
  <2>7. ASSUME ~ConcurrentClients PROVE \A d \in Conns : online'[d] => d = c
    BY <2>1, <2>7 DEF ClientViewInv, ViewInv
  <2>8. ASSUME ~ConcurrentClients, NEW d \in Conns, c = d \/ ~online'[d],
               NEW i \in DOMAIN queue'[c], Tells(queue'[c][i])
        PROVE  queue'[c][i].no >= seen'[d]
    <3>1. /\ i + 1 \in DOMAIN q /\ 1 < i + 1 /\ queue'[c][i] = q[i + 1] /\ q[i + 1].no \in Nat
      BY <1>2, <2>4
    <3>2. q[i + 1].no >= seen[d]
      BY <2>1, <2>8, <3>1 DEF ClientViewInv, ViewInv
    <3>3. CASE d # c
      BY <2>3, <3>1, <3>2, <3>3
    <3>4. CASE d = c /\ ~Tells(told)
      BY <2>3, <3>1, <3>2, <3>4
    <3>5. CASE d = c /\ Tells(told)
      <4>1. told.no <= q[i + 1].no /\ told.no \in Nat
        BY <1>2, <2>2, <2>8, <3>1, <3>5 DEF ClientViewInv, QueueInv
      <4> QED  BY <2>3, <3>1, <3>5, <4>1
    <3> QED  BY <3>3, <3>4, <3>5
  <2>9. ViewInv'
    BY <2>7, <2>8 DEF ViewInv
  <2> QED  BY <2>6, <2>9 DEF ClientViewInv
<1>11. CASE UNCHANGED vars
  BY <1>3, <1>4, <1>11 DEF vars, clientVars, Up, ClientViewInv
<1>12. CASE Next
  <2>1. PICK c \in Conns :
              \/ \E e : Speaks(c, e)
              \/ MarkConnected(c)
              \/ Connect(c)
              \/ Disconnect(c)
              \/ Deliver(c)
              \/ NoticeDisconnect(c) \/ ReceiveUndecodable(c)
              \/ /\ UNCHANGED <<eventLog, queue, seen, online, everConnected>>
                 /\ \A d \in Conns : Up(d)' <=> Up(d)
    BY <1>12, WhatStepsSay
  <2>2. CASE /\ UNCHANGED <<eventLog, queue, seen, online, everConnected>>
             /\ \A d \in Conns : Up(d)' <=> Up(d)
    BY <1>3, <1>4, <2>2 DEF ClientViewInv
  <2> QED  BY <1>5, <1>6, <1>7, <1>8, <1>9, <1>10, <2>1, <2>2
<1> QED  BY <1>11, <1>12

\* With one client at a time, what is known of the answers never goes back: neither
\* on a connection nor from a dead one to the one that replaces it.
THEOREM ViewsNeverRegress == Spec => ViewNeverRegresses
<1>1. Init => ClientViewInv
  <2> SUFFICES ASSUME Init PROVE ClientViewInv
    OBVIOUS
  <2>1. /\ versions = <<>> /\ \A c \in Conns : queue[c] = <<>> /\ seen[c] = 0 /\ ~online[c]
    BY DEF Init
  <2> QED  BY <2>1 DEF ClientViewInv, QueueInv, ViewInv
<1>2. SessionInv /\ ClientViewInv /\ [Next]_vars => ClientViewInv'
  BY ViewStep
<1>3. SessionInv /\ ClientViewInv /\ [Next]_vars =>
         [\A c, d \in Conns :
             seen'[c] # seen[c] /\ (c = d \/ ~online[d]) /\ ~ConcurrentClients
                => seen'[c] >= seen[d]]_vars
  <2> SUFFICES ASSUME SessionInv, ClientViewInv, Next, NEW c \in Conns, NEW d \in Conns,
                      seen'[c] # seen[c], c = d \/ ~online[d], ~ConcurrentClients
               PROVE  seen'[c] >= seen[d]
    BY DEF vars, clientVars
  <2>1. Deliver(c)
    <3>1. \E b \in Conns : Deliver(b) \/ UNCHANGED seen
      BY DEF Next, TurnStep, PassStep, Connect, MarkConnected, Disconnect, NoticeDisconnect, ReceiveChunk,
             ReceiveInvalidFrame, ReceiveUndecodable, BeginTurn, DecideNotToRetrieve,
             DecideToRetrieve, BeginAnswer, LackEvidence, GenerationBreaks, CommitAnswer,
             AnswerEmpty, StageFails, clientVars
    <3>2. PICK b \in Conns : Deliver(b)
      BY <3>1
    <3>3. b = c
      BY <3>2 DEF Deliver, SessionInv, TypeOK
    <3> QED  BY <3>2, <3>3
  <2>2. online[c] /\ 1 \in DOMAIN queue[c] /\ Head(queue[c]) = queue[c][1]
    <3>1. queue[c] \in Seq(Events)
      BY DEF SessionInv, TypeOK
    <3> QED  BY <2>1, <3>1 DEF Deliver
  <2>3. Tells(queue[c][1]) /\ seen'[c] = queue[c][1].no
    BY <2>1, <2>2 DEF Deliver, Tells, SessionInv, TypeOK
  <2> QED  BY <2>2, <2>3 DEF ClientViewInv, ViewInv
<1> QED  BY <1>1, <1>2, <1>3, SessionInvariant, PTL DEF Spec, ViewNeverRegresses

=============================================================================
