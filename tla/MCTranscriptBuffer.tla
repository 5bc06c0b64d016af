------------------------- MODULE MCTranscriptBuffer -------------------------
(* Instances of TranscriptBuffer small enough for TLC. *)
EXTENDS TranscriptBuffer

CONSTANTS MaxSeq, MaxOffset

\* Every number with every offset: offsets need not grow with the numbers.
AnyChunks == [seq : 0..MaxSeq, t_offset_ms : 0..MaxOffset]

=============================================================================
