-------------------------- MODULE RestartAuthority --------------------------
(***************************************************************************)
(* What the restart interlock promises the sessions of one pane, with      *)
(* nothing of how it is kept.  Sessions occupy the pane one after another  *)
(* and are numbered in that order.  A session offers itself for a restart  *)
(* by declaring ready; a round is open in the name of one session; and the *)
(* supervisor restarts, once, on an offer of that session or a later one,  *)
(* never on what an earlier one left behind.                               *)
(***************************************************************************)
EXTENDS Naturals

VARIABLES
    occupant,   \* the session in the pane
    round,      \* the session the open round is for, 0 when none is open
    offered,    \* sessions whose ready may still be acted on
    spent,      \* sessions whose ready was acted on
    restarted   \* occupants that were restarted for it

vars == <<occupant, round, offered, spent, restarted>>

Init == occupant = 1 /\ round = 0 /\ offered = {} /\ spent = {} /\ restarted = {}

\* Only the session in the pane offers itself; any offer may be withdrawn,
\* replaced or lost at any time.
Declare ==
    /\ offered' \in SUBSET (offered \cup {occupant})
    /\ UNCHANGED <<occupant, round, spent, restarted>>

Open ==
    /\ round = 0 /\ round' \in 1..occupant
    /\ UNCHANGED <<occupant, offered, spent, restarted>>

Close ==
    /\ round' = 0 /\ offered' \in SUBSET offered
    /\ UNCHANGED <<occupant, spent, restarted>>

\* The restart a round certifies: on an offer that nobody acted on, by the round's
\* session or, where the pane changed hands meanwhile, by a later one.
Restart ==
    /\ round # 0
    /\ \E s \in offered \ spent : s \in round..occupant /\ spent' = spent \cup {s}
    /\ restarted' = restarted \cup {occupant} /\ occupant' = occupant + 1
    /\ offered' \in SUBSET offered
    /\ UNCHANGED round

\* Whoever else puts a new session into the pane.
Replace ==
    /\ occupant' = occupant + 1 /\ offered' \in SUBSET offered
    /\ UNCHANGED <<round, spent, restarted>>

Next == Declare \/ Open \/ Close \/ Restart \/ Replace

Spec == Init /\ [][Next]_vars

=============================================================================
