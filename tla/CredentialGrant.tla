--------------------------- MODULE CredentialGrant ---------------------------
(***************************************************************************)
(* What a provision promises, with nothing of operations, checkpoints,     *)
(* roles and evidence.  A run is granted an account for a while.  The      *)
(* credential of that account, and of no other, is placed with the run     *)
(* once, at an instant before the grant ends.  From then on the grant is   *)
(* not withdrawn: it is committed at that instant, and the account is      *)
(* counted as assigned before the run has its receipt.                     *)
(***************************************************************************)
EXTENDS Integers

CONSTANTS Runs, Accounts, Nothing

VARIABLES
    now,
    grant,   \* of each run, if any
    held,    \* the account whose credential a run holds
    latest   \* the latest counted assignment of each account

vars == <<now, grant, held, latest>>

Never == -1
None == [account |-> Nothing, until |-> 0, stage |-> "none", at |-> Never]

Init ==
    /\ now = 0
    /\ grant = [r \in Runs |-> None] /\ held = [r \in Runs |-> Nothing]
    /\ latest = [a \in Accounts |-> Never]

Tick == now' = now + 1 /\ UNCHANGED <<grant, held, latest>>

\* A grant goes from one stage to the next, and keeps its account and its end.
Goes(r, from, to, at) ==
    /\ grant[r].stage = from
    /\ grant' = [grant EXCEPT ![r] =
                    [account |-> grant[r].account, until |-> grant[r].until,
                     stage |-> to, at |-> at]]

Bind(r, a) ==
    /\ grant[r] = None /\ held[r] = Nothing
    /\ grant' = [grant EXCEPT ![r] =
                    [account |-> a, until |-> grant'[r].until, stage |-> "bound", at |-> Never]]
    /\ UNCHANGED <<now, held, latest>>

Withdraw(r) ==
    /\ grant[r].stage = "bound" /\ held[r] = Nothing
    /\ grant' = [grant EXCEPT ![r] = None]
    /\ UNCHANGED <<now, held, latest>>

\* The instant of the write is before the end of the grant, and not to come.
Place(r, at) ==
    /\ Goes(r, "bound", "placed", at)
    /\ 0 <= at /\ at <= now /\ at < grant[r].until
    /\ held[r] = Nothing /\ held' = [held EXCEPT ![r] = grant[r].account]
    /\ UNCHANGED <<now, latest>>

Commit(r) ==
    /\ Goes(r, "placed", "committed", grant[r].at)
    /\ UNCHANGED <<now, held, latest>>

Count(r) ==
    /\ grant[r].stage \notin {"none", "bound", "placed"}
    /\ latest' = [latest EXCEPT ![grant[r].account] = IF grant[r].at > @ THEN grant[r].at ELSE @]
    /\ UNCHANGED <<now, grant, held>>

Receipt(r) ==
    /\ Goes(r, "committed", "settled", grant[r].at)
    /\ latest[grant[r].account] >= grant[r].at
    /\ UNCHANGED <<now, held, latest>>

Close(r) ==
    /\ Goes(r, "settled", "closed", grant[r].at)
    /\ UNCHANGED <<now, held, latest>>

Next ==
    \/ Tick
    \/ \E r \in Runs :
           \/ Withdraw(r) \/ Commit(r) \/ Count(r) \/ Receipt(r) \/ Close(r)
           \/ \E a \in Accounts : Bind(r, a)
           \/ Place(r, grant'[r].at)

Spec == Init /\ [][Next]_vars

=============================================================================
