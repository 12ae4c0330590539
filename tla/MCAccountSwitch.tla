-------------------------- MODULE MCAccountSwitch ---------------------------
(* Bounded instances of AccountSwitch for TLC. *)
EXTENDS AccountSwitch

CONSTANTS p1, p2, a1, a2

\* The properties speak of behaviours that stay intact; the others are cut where
\* they cease to.
Intact == intact
=============================================================================
