--------------------------- MODULE MCStreamClient ---------------------------
(* Instances of StreamClient small enough for TLC. *)
EXTENDS StreamClient, TLC

=============================================================================
