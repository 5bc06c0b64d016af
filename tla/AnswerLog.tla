------------------------------ MODULE AnswerLog ------------------------------
(***************************************************************************)
(* What a session promises about its answers (record.answer_versions, the  *)
(* SESSION_RESYNC payload, the client's "latest version"): versions are    *)
(* never changed or removed, and each new one is numbered one above the    *)
(* latest and supersedes it.                                               *)
(***************************************************************************)
EXTENDS Naturals, Sequences

CONSTANT None

VARIABLE log

Init == log = <<>>

Supersede ==
    log' = Append(log, [version_no |-> Len(log) + 1,
                        supersedes |-> IF log = <<>> THEN None ELSE Len(log)])

Spec == Init /\ [][Supersede]_log

=============================================================================
