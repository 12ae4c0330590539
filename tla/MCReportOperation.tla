------------------------- MODULE MCReportOperation --------------------------
(* Bounded instances of ReportOperation for TLC. *)
EXTENDS ReportOperation, TLC

CONSTANTS r1, r2, a1, a2

\* The first failure happened at once, the second later.
Occurred == (a1 :> 0) @@ (a2 :> 1)
=============================================================================
