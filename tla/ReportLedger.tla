---------------------------- MODULE ReportLedger ----------------------------
(***************************************************************************)
(* What the report command promises, with nothing of operations, files,    *)
(* fences and adapter calls.  A report is taken up once and applied once.  *)
(* Before it is applied the credential it suspects is suspect, it is       *)
(* counted in the proof and its run is marked with it; then the run is     *)
(* ended, lets go of the account and is closed, in this order, and what a  *)
(* run was marked with stays with it.                                      *)
(***************************************************************************)
EXTENDS Integers

CONSTANTS Runs, First, Reports, Suspecting, LeaseTerm, Nothing

VARIABLES
    now,
    about,    \* the run of each report
    told,     \* how far each report is: unknown, pending or applied
    binding,  \* what binds each run to the credential record
    holder,   \* the run that holds the account
    suspect,  \* whether the credential is suspect
    counted   \* the reports the proof contains

vars == <<now, about, told, binding, holder, suspect, counted>>

NotEnded == -1
Unbound == [marks |-> {}, end |-> NotEnded, until |-> 0, state |-> "unbound"]
Open(until) == [marks |-> {}, end |-> NotEnded, until |-> until, state |-> "open"]

Init ==
    /\ now = 0
    /\ about \in [Reports -> Runs]
    /\ told = [a \in Reports |-> "unknown"]
    /\ binding = [r \in Runs |-> IF r = First THEN Open(LeaseTerm) ELSE Unbound]
    /\ holder = First /\ suspect = FALSE /\ counted = {}

Pending(a) == told[a] = "pending"
Marked(a) == a \in binding[about[a]].marks
Ended(r) == binding[r].end # NotEnded

\* What a run is bound by goes from one state to the next; until stands.
Becomes(r, marks, end, state) ==
    binding' = [binding EXCEPT ![r] =
                   [marks |-> marks, end |-> end, until |-> binding[r].until, state |-> state]]

Tick == now' = now + 1 /\ UNCHANGED <<about, told, binding, holder, suspect, counted>>

\* The account goes to one run at a time, until the time of that one is over.
Provide(r) ==
    /\ binding[r] = Unbound /\ (holder # Nothing => now >= binding[holder].until)
    /\ binding' = [binding EXCEPT ![r] = Open(now + LeaseTerm)]
    /\ holder' = r
    /\ UNCHANGED <<now, about, told, suspect, counted>>

Accept(a) ==
    /\ told[a] = "unknown" /\ binding[about[a]] # Unbound
    /\ told' = [told EXCEPT ![a] = "pending"]
    /\ UNCHANGED <<now, about, binding, holder, suspect, counted>>

Suspect(a) ==
    /\ Pending(a) /\ a \in Suspecting
    /\ suspect' = TRUE
    /\ UNCHANGED <<now, about, told, binding, holder, counted>>

Count(a) ==
    /\ Pending(a) /\ (a \in Suspecting => suspect)
    /\ counted' = counted \cup {a}
    /\ UNCHANGED <<now, about, told, binding, holder, suspect>>

Mark(a) ==
    LET r == about[a] IN
    /\ Pending(a) /\ a \in counted
    /\ Becomes(r, binding[r].marks \cup {a}, binding[r].end, binding[r].state)
    /\ UNCHANGED <<now, about, told, holder, suspect, counted>>

\* The end is neither after the lease nor to come.
End(a, t) ==
    LET r == about[a] IN
    /\ Pending(a) /\ Marked(a)
    /\ t <= binding[r].until /\ Becomes(r, binding[r].marks, t, binding[r].state)
    /\ UNCHANGED <<now, about, told, holder, suspect, counted>>

\* The account is let go of, whoever holds it by then.
Release(a) ==
    /\ Pending(a) /\ Marked(a) /\ Ended(about[a])
    /\ holder' = Nothing
    /\ UNCHANGED <<now, about, told, binding, suspect, counted>>

Close(a, t) ==
    LET r == about[a] IN
    /\ Pending(a) /\ Marked(a) /\ Ended(r) /\ holder # r /\ binding[r].state = "open"
    /\ t <= binding[r].until /\ Becomes(r, binding[r].marks, t, "closed")
    /\ UNCHANGED <<now, about, told, holder, suspect, counted>>

Apply(a) ==
    /\ Pending(a) /\ Marked(a) /\ binding[about[a]].state = "closed" /\ holder # about[a]
    /\ told' = [told EXCEPT ![a] = "applied"]
    /\ UNCHANGED <<now, about, binding, holder, suspect, counted>>

Next ==
    \/ Tick
    \/ \E r \in Runs : Provide(r)
    \/ \E a \in Reports : \/ Accept(a) \/ Suspect(a) \/ Count(a) \/ Mark(a) \/ Release(a)
                          \/ Apply(a)
                          \/ \E t \in 0..now : End(a, t) \/ Close(a, t)

Spec == Init /\ [][Next]_vars

=============================================================================
