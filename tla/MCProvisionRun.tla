--------------------------- MODULE MCProvisionRun ---------------------------
(* Bounded instances of ProvisionRun for TLC. *)
EXTENDS ProvisionRun

CONSTANTS r1, r2, c1, c2
=============================================================================
