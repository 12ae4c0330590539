------------------------- MODULE MCSupervisionRound -------------------------
(* Bounded instances of SupervisionRound for TLC. *)
EXTENDS SupervisionRound

=============================================================================
