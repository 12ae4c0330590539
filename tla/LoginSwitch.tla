----------------------------- MODULE LoginSwitch -----------------------------
(***************************************************************************)
(* What a host is promised about its login: it is a whole one, of one      *)
(* account, and changes at once.  The rotation puts the login of another   *)
(* account in its place and touches nothing that is the host's own; a      *)
(* switch that fails has not happened, and loses no refreshed token.  What *)
(* a person activates by hand is whole too, but brings the other content   *)
(* of its files along.  The promise lapses where nobody can keep it.       *)
(***************************************************************************)
EXTENDS Naturals

CONSTANTS
    Accounts,
    Nothing     \* the login that nothing is promised about

VARIABLES
    login,     \* account and number of the token, the account it is named for, and
               \* whether the rest of the profile and the settings are the host's own
    promised

vars == <<login, promised>>

Whole(a, gen, host, settings) ==
    [token |-> a, gen |-> gen, name |-> a, host |-> host, settings |-> settings]

Init ==
    /\ \E a \in Accounts : login = Whole(a, 0, TRUE, TRUE)
    /\ promised = TRUE

Keeps == promised /\ promised'

\* A session refreshes the token of the account that is logged in.
Refresh ==
    /\ Keeps /\ login'.gen > login.gen
    /\ login' = Whole(login.token, login'.gen, login.host, login.settings)

\* The rotation puts another login into place, and that only.
Switch(a) == Keeps /\ login' = Whole(a, login'.gen, login.host, login.settings)

\* An activation by hand.
Hand(a) == Keeps /\ login' = Whole(a, login'.gen, FALSE, FALSE)

Lapse == promised' = FALSE /\ login' = Nothing

Next == Refresh \/ Lapse \/ \E a \in Accounts : Switch(a) \/ Hand(a)

Spec == Init /\ [][Next]_vars

=============================================================================
