------------------------- MODULE MCHerdrReplacement -------------------------
(* The instances of HerdrReplacement that TLC checks are in the .cfg files: a *)
(* predecessor, its successor and a third session, one crash or failed write, *)
(* one restart of the herdr server and one reused pid.                        *)
EXTENDS HerdrReplacement
=============================================================================
