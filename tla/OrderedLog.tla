----------------------------- MODULE OrderedLog -----------------------------
(***************************************************************************)
(* What the transcript buffer promises its readers (buffer_text, the       *)
(* Retrieval Controller, the SESSION_RESYNC payload): a log of chunks that *)
(* only ever grows at its end, in strictly increasing sequence order, by   *)
(* whole batches.                                                          *)
(***************************************************************************)
EXTENDS Integers, Sequences

CONSTANT Chunks

VARIABLE log

Ascending(s) == \A i, j \in DOMAIN s : i < j => s[i].seq < s[j].seq

Init == log = <<>>

AppendBatch ==
    /\ log' \in Seq(Chunks)
    /\ Len(log) < Len(log')
    /\ SubSeq(log', 1, Len(log)) = log
    /\ Ascending(log')

Next == AppendBatch

Spec == Init /\ [][Next]_log

=============================================================================
