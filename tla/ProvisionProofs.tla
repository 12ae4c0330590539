--------------------------- MODULE ProvisionProofs ---------------------------
(***************************************************************************)
(* What holds of a provision for any number of runs and accounts, however  *)
(* often its command is killed, whatever becomes of the role it launched   *)
(* and whenever its lease is taken from it.                                *)
(***************************************************************************)
EXTENDS ProvisionRun, TLAPS

-----------------------------------------------------------------------------
(* The inductive invariant                                                  *)

\* The write has landed and is acknowledged, within the lease of the assignment.
Landed(r) ==
    /\ evidence[r] # Nothing /\ evidence[r].status = "committed"
    /\ evidence[r].account = asg[r].account /\ target[r] = asg[r].account
    /\ evidence[r].at \in Clock /\ evidence[r].at < asg[r].until

Untouched(r) == evidence[r] = Nothing /\ target[r] = Nothing
Prepared(r) == asg[r] # Nothing /\ asg[r].status = "prepared"

\* The assignment is committed at the instant of its write.
Dated(r) == asg[r].status # "prepared" /\ asg[r].at = evidence[r].at

\* The credential is in the target, within the lease of the assignment.
Landing(r) ==
    /\ evidence[r] # Nothing /\ evidence[r].account = asg[r].account
    /\ target[r] = asg[r].account
    /\ evidence[r].at \in Clock /\ evidence[r].at < asg[r].until

\* An attempt no role is working on any more is told by its evidence.
Tried(r) ==
    /\ evidence[r] # Nothing /\ evidence[r].account = asg[r].account
    /\ evidence[r].status = "prepared" => target[r] = Nothing
    /\ evidence[r].status = "armed" =>
           /\ target[r] \in {Nothing, asg[r].account}
           /\ evidence[r].at \in Clock /\ evidence[r].at < asg[r].until
    /\ evidence[r].status = "committed" => Landed(r)

\* An attempt a role is working on is where the role is.
Working(r) ==
    /\ role[r].account = asg[r].account /\ role[r].until = asg[r].until
    /\ role[r].pc \in {"staging", "uncommitted"} => Untouched(r)
    /\ role[r].pc \in {"prepared", "armed"} => target[r] = Nothing
    /\ role[r].pc = "prepared" => Tried(r) /\ evidence[r].status = "prepared"
    /\ role[r].pc \in {"armed", "replaced"} => Tried(r) /\ evidence[r].status = "armed"
    /\ role[r].pc = "replaced" => target[r] = asg[r].account
    /\ role[r].pc = "committed" => Landed(r)

\* What the start phase has done, by its checkpoint.
Started(r) ==
    op[r] # Nothing /\ op[r].phase = "start" =>
        /\ op[r].step = -1 => asg[r] = Nothing
        /\ op[r].step <= 0 => Untouched(r) /\ (asg[r] = Nothing \/ Prepared(r))
        /\ op[r].step >= 1 => Prepared(r)
        /\ op[r].step = 1 /\ role[r] = Nothing => Untouched(r) \/ Tried(r)
        /\ op[r].step = 2 => Landed(r)

\* A role works for an operation that stands at the target write.
Roled(r) ==
    role[r] # Nothing =>
        /\ op[r] # Nothing /\ op[r].phase = "start" /\ op[r].step = 1 /\ Working(r)
        /\ cmd[r].pc \in {"idle", "next", "wait"} /\ (cmd[r].pc = "next" => cmd[r].recovering)

\* What the postcommit phase has done, by its checkpoint.
Committing(r) ==
    op[r] # Nothing /\ op[r].phase = "postcommit" =>
        /\ asg[r] # Nothing /\ Landed(r)
        /\ op[r].step = -1 => Prepared(r) \/ Dated(r)
        /\ op[r].step >= 0 => Dated(r)
        /\ op[r].step >= 1 => assigned[asg[r].account] >= asg[r].at

\* What the cleanup phase has done, by its checkpoint.
Cleaning(r) ==
    op[r] # Nothing /\ op[r].phase = "cleanup" =>
        /\ Untouched(r) /\ op[r].step <= 1
        /\ asg[r] = Nothing \/ Prepared(r)
        /\ op[r].step >= 0 => asg[r] = Nothing

\* What a run without an operation is left with.
Settled(r) ==
    op[r] = Nothing =>
        \/ asg[r] = Nothing /\ Untouched(r)
        \/ asg[r] # Nothing /\ Landed(r) /\ Dated(r) /\ assigned[asg[r].account] >= asg[r].at

\* What the effect just executed has established.
Done(r) ==
    /\ op[r].phase = "start" =>
           /\ op[r].step = 0 => Prepared(r)
           /\ op[r].step = 1 => Landed(r)
    /\ op[r].phase = "postcommit" =>
           /\ op[r].step = -1 => Dated(r)
           /\ op[r].step = 0 => assigned[asg[r].account] >= asg[r].at
    /\ op[r].phase = "cleanup" /\ op[r].step = -1 => asg[r] = Nothing

\* Where the command stands in its operation, and what it has just done.
Commanded(r) ==
    /\ cmd[r].pc \in {"next", "write", "wait", "checkpoint", "clean"} =>
           /\ op[r] # Nothing /\ cmd[r].account \in Accounts
           /\ asg[r] # Nothing => cmd[r].account = asg[r].account
    /\ cmd[r].pc = "close" => op[r] = Nothing
    /\ cmd[r].pc = "unlink" /\ op[r] # Nothing =>
           /\ op[r].phase = "cleanup" /\ op[r].step = 0 /\ cmd[r].account \in Accounts
    /\ cmd[r].pc \in {"close", "unlink"} /\ op[r] = Nothing => asg[r] # Nothing
    /\ cmd[r].pc = "write" => op[r].phase = "start" /\ op[r].step = -1
    /\ cmd[r].pc = "wait" => op[r].phase = "start" /\ op[r].step = 1 /\ role[r] # Nothing
    /\ cmd[r].pc = "clean" => op[r].phase = "start" /\ op[r].step = 1 /\ Untouched(r)
    /\ cmd[r].pc = "next" /\ ~cmd[r].recovering /\ op[r].phase = "start" /\ op[r].step = 1
       => Untouched(r)
    /\ cmd[r].pc = "checkpoint" => op[r].step < LastStep(op[r].phase) /\ Done(r)

Sound(r) == Started(r) /\ Roled(r) /\ Committing(r) /\ Cleaning(r) /\ Settled(r) /\ Commanded(r)
IInv == TypeOK /\ \A r \in Runs : Sound(r)

-----------------------------------------------------------------------------
(* Digests of a step                                                        *)

\* The command of one run moves on within its operation.
Went(r, pc) ==
    /\ cmd' \in [Runs -> Commands] /\ \A s \in Runs : s # r => cmd'[s] = cmd[s]
    /\ cmd'[r].pc = pc /\ cmd'[r].account = cmd[r].account
    /\ cmd'[r].recovering = cmd[r].recovering

\* The command of one run ends.
Left(r) ==
    /\ cmd' \in [Runs -> Commands] /\ \A s \in Runs : s # r => cmd'[s] = cmd[s]
    /\ cmd'[r].pc = "idle"

\* The role of one run moves on.
RoleWent(r, pc) ==
    /\ role' \in [Runs -> Roles \cup {Nothing}] /\ \A s \in Runs : s # r => role'[s] = role[s]
    /\ role'[r] # Nothing /\ role'[r].pc = pc
    /\ role'[r].account = role[r].account /\ role'[r].until = role[r].until

\* The operation of one run stands elsewhere.
OpWent(r, phase, step) ==
    /\ op' \in [Runs -> Operations \cup {Nothing}] /\ \A s \in Runs : s # r => op'[s] = op[s]
    /\ op'[r] # Nothing /\ op'[r].phase = phase /\ op'[r].step = step

\* The assignment of one run is another one.
AsgWent(r, status) ==
    /\ asg' \in [Runs -> Assignments \cup {Nothing}]
    /\ \A s \in Runs : s # r => asg'[s] = asg[s]
    /\ asg'[r] # Nothing /\ asg'[r].status = status

\* The evidence of one run is another one.
EvidenceWent(r, status, at) ==
    /\ evidence' \in [Runs -> Evidence \cup {Nothing}]
    /\ \A s \in Runs : s # r => evidence'[s] = evidence[s]
    /\ evidence'[r] # Nothing /\ evidence'[r].status = status /\ evidence'[r].at = at

\* The evidence of one run is removed.
EvidenceGone(r) ==
    /\ evidence' \in [Runs -> Evidence \cup {Nothing}]
    /\ \A s \in Runs : s # r => evidence'[s] = evidence[s]
    /\ evidence'[r] = Nothing

\* A step of one run leaves the files of the others alone.
Elsewhere(r) ==
    \A s \in Runs : s # r =>
        /\ op'[s] = op[s] /\ asg'[s] = asg[s] /\ evidence'[s] = evidence[s]
        /\ target'[s] = target[s] /\ role'[s] = role[s] /\ cmd'[s] = cmd[s]

\* The latest commit of an account never moves back.
Counted == \A a \in Accounts : assigned'[a] >= assigned[a]

\* The assumptions on the constants, one by one.
LEMMA Assumed ==
    /\ LeaseTerm \in Nat /\ MaxClock \in Nat /\ MaxCrash \in Nat /\ MaxFail \in Nat
    /\ Nothing \notin Accounts /\ Nothing \notin Leases /\ Nothing \notin Assignments
    /\ Nothing \notin Evidence /\ Nothing \notin Operations /\ Nothing \notin Roles
  BY ProvisionAssumption, NothingAssumption

\* What is not absent has the type of its file.
LEMMA Fields ==
    ASSUME TypeOK, NEW r \in Runs
    PROVE  /\ cmd[r] \in Commands /\ cmd[r].account \in Accounts \cup {Nothing}
           /\ op[r] # Nothing => /\ op[r] \in Operations /\ op[r].phase \in Phases
                                 /\ op[r].step \in -1..2 /\ op[r].accepted \in Clock
           /\ asg[r] # Nothing => /\ asg[r] \in Assignments /\ asg[r].account \in Accounts
                                  /\ asg[r].until \in 0..(MaxClock + LeaseTerm)
                                  /\ asg[r].at \in Instants
           /\ evidence[r] # Nothing => /\ evidence[r] \in Evidence
                                       /\ evidence[r].account \in Accounts
                                       /\ evidence[r].at \in Instants
                                       /\ evidence[r].status \in {"prepared", "armed", "committed"}
           /\ role[r] # Nothing => /\ role[r] \in Roles /\ role[r].account \in Accounts
                                   /\ role[r].pc \in {"staging", "prepared", "armed", "replaced",
                                                   "committed", "uncommitted"}
                                   /\ role[r].until \in 0..(MaxClock + LeaseTerm)
           /\ target[r] \in Accounts \cup {Nothing}
  BY DEF TypeOK, Commands, Operations, Assignments, Evidence, Roles

\* Moving the command of a run moves nothing else of it.
LEMMA GoingTo ==
    ASSUME TypeOK, NEW r \in Runs, NEW pc \in Pcs, GoTo(r, pc)
    PROVE  Went(r, pc)
  BY DEF TypeOK, GoTo, Went, Commands

\* A command that fails is gone.
LEMMA Failing ==
    ASSUME TypeOK, NEW r \in Runs, Fail(r)
    PROVE  Left(r)
  BY DEF TypeOK, Fail, Left, Idle, Commands, Pcs

\* Moving the role of a run moves nothing else of it.
LEMMA RoleGoing ==
    ASSUME TypeOK, NEW r \in Runs, role[r] # Nothing,
           NEW pc \in {"prepared", "armed", "replaced", "committed", "uncommitted"},
           RoleGoes(r, pc)
    PROVE  RoleWent(r, pc)
<1>1. role[r] \in Roles /\ role'[r] = [role[r] EXCEPT !.pc = pc]
  BY DEF TypeOK, RoleGoes
<1>2. role'[r] \in Roles
  BY <1>1 DEF Roles
<1> QED
  BY <1>1, <1>2, Assumed DEF TypeOK, RoleGoes, RoleWent, Roles

\* The evidence of a run changes its status and its instant only.
LEMMA EvidenceGoing ==
    ASSUME TypeOK, NEW r \in Runs, evidence[r] # Nothing, NEW at \in Instants,
           NEW status \in {"prepared", "armed", "committed"},
           \/ evidence' = [evidence EXCEPT ![r] = [@ EXCEPT !.status = status, !.at = at]]
           \/ evidence' = [evidence EXCEPT ![r] = [@ EXCEPT !.status = status]]
              /\ at = evidence[r].at
    PROVE  EvidenceWent(r, status, at) /\ evidence'[r].account = evidence[r].account
<1>1. evidence[r] \in Evidence
  BY DEF TypeOK
<1>2. \/ evidence'[r] = [evidence[r] EXCEPT !.status = status, !.at = at]
      \/ evidence'[r] = [evidence[r] EXCEPT !.status = status] /\ at = evidence[r].at
  BY DEF TypeOK
<1>3. /\ evidence'[r] \in Evidence /\ evidence'[r].status = status /\ evidence'[r].at = at
      /\ evidence'[r].account = evidence[r].account
  BY <1>1, <1>2 DEF Evidence
<1> QED
  BY <1>3, Assumed DEF TypeOK, EvidenceWent

\* The assignment of a run changes its status and its instant only.
LEMMA AsgGoing ==
    ASSUME TypeOK, NEW r \in Runs, asg[r] # Nothing, NEW at \in Instants,
           NEW status \in {"prepared", "committed", "closed"},
           \/ asg' = [asg EXCEPT ![r] = [@ EXCEPT !.at = at, !.status = status]]
           \/ asg' = [asg EXCEPT ![r] = [@ EXCEPT !.status = status]] /\ at = asg[r].at
    PROVE  /\ AsgWent(r, status) /\ asg'[r].at = at
           /\ asg'[r].account = asg[r].account /\ asg'[r].until = asg[r].until
<1>1. asg[r] \in Assignments
  BY DEF TypeOK
<1>2. \/ asg'[r] = [asg[r] EXCEPT !.at = at, !.status = status]
      \/ asg'[r] = [asg[r] EXCEPT !.status = status] /\ at = asg[r].at
  BY DEF TypeOK
<1>3. /\ asg'[r] \in Assignments /\ asg'[r].status = status /\ asg'[r].at = at
      /\ asg'[r].account = asg[r].account /\ asg'[r].until = asg[r].until
  BY <1>1, <1>2 DEF Assignments
<1> QED
  BY <1>3, Assumed DEF TypeOK, AsgWent

\* The soundness of a run depends on its own files and on the commits counted.
LEMMA Others ==
    ASSUME IInv, NEW r \in Runs, Elsewhere(r), Counted, TypeOK', NEW s \in Runs, s # r
    PROVE  Sound(s)'
<1>1. /\ op'[s] = op[s] /\ asg'[s] = asg[s] /\ evidence'[s] = evidence[s]
      /\ target'[s] = target[s] /\ role'[s] = role[s] /\ cmd'[s] = cmd[s]
  BY DEF Elsewhere
<1>2. asg[s] # Nothing /\ assigned[asg[s].account] >= asg[s].at
      => assigned'[asg[s].account] >= asg[s].at
  BY Fields DEF IInv, TypeOK, Counted, Instants, Clock, Never
<1>3. Started(s)'
  BY <1>1 DEF IInv, Sound, Started, Untouched, Prepared, Tried, Landed
<1>4. Roled(s)'
  BY <1>1 DEF IInv, Sound, Roled, Working, Untouched, Tried, Landed
<1>5. Committing(s)'
  BY <1>1, <1>2 DEF IInv, Sound, Committing, Prepared, Dated, Landed
<1>6. Cleaning(s)'
  BY <1>1 DEF IInv, Sound, Cleaning, Untouched, Prepared
<1>7. Settled(s)'
  BY <1>1, <1>2 DEF IInv, Sound, Settled, Untouched, Dated, Landed
<1>8. Commanded(s)'
  BY <1>1, <1>2 DEF IInv, Sound, Commanded, Done, Committing, Untouched, Prepared, Dated, Landed
<1> QED
  BY <1>3, <1>4, <1>5, <1>6, <1>7, <1>8 DEF Sound

-----------------------------------------------------------------------------
(* The steps                                                                *)

\* Deciding on a lease touches no file.
LEMMA PlanLeaseStep ==
    ASSUME IInv, NEW r \in Runs, PlanLease(r)
    PROVE  IInv'
<1>1. /\ op[r] # Nothing /\ op[r].phase = "start" /\ op[r].step = -1
      /\ cmd[r].account \in Accounts /\ (asg[r] # Nothing => cmd[r].account = asg[r].account)
      /\ asg[r] = Nothing /\ Untouched(r) /\ role[r] = Nothing
  BY Fields DEF IInv, PlanLease, At, Sound, Commanded, Started, Roled, Committing, Cleaning
<1>2. Went(r, "checkpoint") \/ Went(r, "write") \/ Left(r)
  BY <1>1, Assumed, Fields, GoingTo, Failing DEF IInv, TypeOK, PlanLease, Pcs
<1>3. /\ clock' = clock /\ lease' = lease /\ asg' = asg /\ evidence' = evidence
      /\ target' = target /\ assigned' = assigned /\ op' = op /\ role' = role
      /\ crashes' = crashes /\ fails' = fails
  BY DEF PlanLease, files
<1>4. TypeOK'
  BY <1>1, <1>2, <1>3, Assumed
     DEF IInv, TypeOK, Went, Left, RoleWent, OpWent, AsgWent, EvidenceWent, EvidenceGone
<1>5. Elsewhere(r) /\ Counted
  BY <1>2, <1>3
     DEF IInv, TypeOK, Went, Left, RoleWent, OpWent, AsgWent, EvidenceWent, EvidenceGone,
         Elsewhere, Counted, Instants, Clock, Never
<1>6. Sound(r)'
  <2>1. Started(r)'
    BY <1>1, <1>2, <1>3, Assumed
       DEF Started, Working, Untouched, Prepared, Tried, Landed, Landing, Went, Left, RoleWent,
           OpWent, AsgWent, EvidenceWent, EvidenceGone, Clock
  <2>2. Roled(r)'
    BY <1>1, <1>2, <1>3, Assumed
       DEF Roled, Working, Untouched, Tried, Landed, Went, Left, RoleWent, OpWent, AsgWent,
           EvidenceWent, EvidenceGone, Clock
  <2>3. Committing(r)'
    BY <1>1, <1>2, <1>3, Assumed
       DEF Committing, Prepared, Dated, Landed, Went, Left, RoleWent, OpWent, AsgWent,
           EvidenceWent, EvidenceGone, Clock
  <2>4. Cleaning(r)'
    BY <1>1, <1>2, <1>3, Assumed
       DEF Cleaning, Untouched, Prepared, Went, Left, RoleWent, OpWent, AsgWent, EvidenceWent,
           EvidenceGone, Clock
  <2>5. Settled(r)'
    BY <1>1, <1>2, <1>3, Assumed
       DEF Settled, Untouched, Dated, Landed, Went, Left, RoleWent, OpWent, AsgWent,
           EvidenceWent, EvidenceGone, Clock
  <2>6. Commanded(r)'
    BY <1>1, <1>2, <1>3, Assumed
       DEF Commanded, Done, Working, Untouched, Prepared, Dated, Landed, Landing, LastStep,
           Went, Left, RoleWent, OpWent, AsgWent, EvidenceWent, EvidenceGone, Clock
  <2> QED
    BY <2>1, <2>2, <2>3, <2>4, <2>5, <2>6 DEF Sound
<1> QED
  BY <1>4, <1>5, <1>6, Others DEF IInv

\* A lease is written for the account the command works on.
LEMMA WriteLeaseStep ==
    ASSUME IInv, NEW r \in Runs, WriteLease(r)
    PROVE  IInv'
<1>1. /\ op[r] # Nothing /\ op[r].phase = "start" /\ op[r].step = -1
      /\ cmd[r].account \in Accounts /\ (asg[r] # Nothing => cmd[r].account = asg[r].account)
      /\ asg[r] = Nothing /\ Untouched(r) /\ role[r] = Nothing
  BY Fields DEF IInv, WriteLease, At, Sound, Commanded, Started, Roled, Committing, Cleaning
<1>2. Went(r, "checkpoint")
  BY <1>1, Assumed, Fields, GoingTo, Failing DEF IInv, TypeOK, WriteLease, Pcs
<1>3. PlannedLease(r) \in Leases
  BY <1>1, Assumed, Fields DEF IInv, PlannedLease, Leases, Clock
<1>4. lease' \in [Accounts -> Leases \cup {Nothing}]
  BY <1>3 DEF IInv, TypeOK, WriteLease
<1>5. /\ clock' = clock /\ asg' = asg /\ evidence' = evidence /\ target' = target
      /\ assigned' = assigned /\ op' = op /\ role' = role /\ crashes' = crashes
      /\ fails' = fails
  BY DEF WriteLease, files
<1>6. TypeOK'
  BY <1>1, <1>2, <1>3, <1>4, <1>5, Assumed
     DEF IInv, TypeOK, Went, Left, RoleWent, OpWent, AsgWent, EvidenceWent, EvidenceGone
<1>7. Elsewhere(r) /\ Counted
  BY <1>2, <1>3, <1>4, <1>5
     DEF IInv, TypeOK, Went, Left, RoleWent, OpWent, AsgWent, EvidenceWent, EvidenceGone,
         Elsewhere, Counted, Instants, Clock, Never
<1>8. Sound(r)'
  <2>1. Started(r)'
    BY <1>1, <1>2, <1>3, <1>4, <1>5, Assumed
       DEF Started, Working, Untouched, Prepared, Tried, Landed, Landing, Went, Left, RoleWent,
           OpWent, AsgWent, EvidenceWent, EvidenceGone, Clock
  <2>2. Roled(r)'
    BY <1>1, <1>2, <1>3, <1>4, <1>5, Assumed
       DEF Roled, Working, Untouched, Tried, Landed, Went, Left, RoleWent, OpWent, AsgWent,
           EvidenceWent, EvidenceGone, Clock
  <2>3. Committing(r)'
    BY <1>1, <1>2, <1>3, <1>4, <1>5, Assumed
       DEF Committing, Prepared, Dated, Landed, Went, Left, RoleWent, OpWent, AsgWent,
           EvidenceWent, EvidenceGone, Clock
  <2>4. Cleaning(r)'
    BY <1>1, <1>2, <1>3, <1>4, <1>5, Assumed
       DEF Cleaning, Untouched, Prepared, Went, Left, RoleWent, OpWent, AsgWent, EvidenceWent,
           EvidenceGone, Clock
  <2>5. Settled(r)'
    BY <1>1, <1>2, <1>3, <1>4, <1>5, Assumed
       DEF Settled, Untouched, Dated, Landed, Went, Left, RoleWent, OpWent, AsgWent,
           EvidenceWent, EvidenceGone, Clock
  <2>6. Commanded(r)'
    BY <1>1, <1>2, <1>3, <1>4, <1>5, Assumed
       DEF Commanded, Done, Working, Untouched, Prepared, Dated, Landed, Landing, LastStep,
           Went, Left, RoleWent, OpWent, AsgWent, EvidenceWent, EvidenceGone, Clock
  <2> QED
    BY <2>1, <2>2, <2>3, <2>4, <2>5, <2>6 DEF Sound
<1> QED
  BY <1>6, <1>7, <1>8, Others DEF IInv

\* The assignment is of the account the command works on.
LEMMA BindAssignmentStep ==
    ASSUME IInv, NEW r \in Runs, BindAssignment(r)
    PROVE  IInv'
<1>1. /\ op[r] # Nothing /\ op[r].phase = "start" /\ op[r].step = 0
      /\ cmd[r].account \in Accounts /\ (asg[r] # Nothing => cmd[r].account = asg[r].account)
      /\ Untouched(r) /\ (asg[r] = Nothing \/ Prepared(r)) /\ role[r] = Nothing
  BY Fields DEF IInv, BindAssignment, At, Sound, Commanded, Started, Roled, Committing, Cleaning
<1>2. lease[cmd[r].account] # Nothing => lease[cmd[r].account].until \in 0..(MaxClock + LeaseTerm)
  BY <1>1 DEF IInv, TypeOK, Leases
<1>3. \/ Left(r) /\ asg' = asg
      \/ Went(r, "checkpoint") /\ asg' = asg /\ asg[r] # Nothing
      \/ /\ asg[r] = Nothing /\ AsgWent(r, "prepared") /\ asg'[r].account = cmd[r].account
         /\ Went(r, "checkpoint")
  BY <1>1, <1>2, Assumed, Fields, GoingTo, Failing
     DEF IInv, TypeOK, BindAssignment, Pcs, AsgWent, Assignments, Instants, Never
<1>4. /\ clock' = clock /\ lease' = lease /\ evidence' = evidence /\ target' = target
      /\ assigned' = assigned /\ op' = op /\ role' = role /\ crashes' = crashes
      /\ fails' = fails
  BY DEF BindAssignment, files
<1>5. TypeOK'
  BY <1>1, <1>2, <1>3, <1>4, Assumed
     DEF IInv, TypeOK, Went, Left, RoleWent, OpWent, AsgWent, EvidenceWent, EvidenceGone
<1>6. Elsewhere(r) /\ Counted
  BY <1>2, <1>3, <1>4
     DEF IInv, TypeOK, Went, Left, RoleWent, OpWent, AsgWent, EvidenceWent, EvidenceGone,
         Elsewhere, Counted, Instants, Clock, Never
<1>7. Sound(r)'
  <2>1. Started(r)'
    BY <1>1, <1>2, <1>3, <1>4, Assumed
       DEF Started, Working, Untouched, Prepared, Tried, Landed, Landing, Went, Left, RoleWent,
           OpWent, AsgWent, EvidenceWent, EvidenceGone, Clock
  <2>2. Roled(r)'
    BY <1>1, <1>2, <1>3, <1>4, Assumed
       DEF Roled, Working, Untouched, Tried, Landed, Went, Left, RoleWent, OpWent, AsgWent,
           EvidenceWent, EvidenceGone, Clock
  <2>3. Committing(r)'
    BY <1>1, <1>2, <1>3, <1>4, Assumed
       DEF Committing, Prepared, Dated, Landed, Went, Left, RoleWent, OpWent, AsgWent,
           EvidenceWent, EvidenceGone, Clock
  <2>4. Cleaning(r)'
    BY <1>1, <1>2, <1>3, <1>4, Assumed
       DEF Cleaning, Untouched, Prepared, Went, Left, RoleWent, OpWent, AsgWent, EvidenceWent,
           EvidenceGone, Clock
  <2>5. Settled(r)'
    BY <1>1, <1>2, <1>3, <1>4, Assumed
       DEF Settled, Untouched, Dated, Landed, Went, Left, RoleWent, OpWent, AsgWent,
           EvidenceWent, EvidenceGone, Clock
  <2>6. Commanded(r)'
    BY <1>1, <1>2, <1>3, <1>4, Assumed
       DEF Commanded, Done, Working, Untouched, Prepared, Dated, Landed, Landing, LastStep,
           Went, Left, RoleWent, OpWent, AsgWent, EvidenceWent, EvidenceGone, Clock
  <2> QED
    BY <2>1, <2>2, <2>3, <2>4, <2>5, <2>6 DEF Sound
<1> QED
  BY <1>5, <1>6, <1>7, Others DEF IInv

\* A role starts where no attempt was made.
LEMMA LaunchRoleStep ==
    ASSUME IInv, NEW r \in Runs, LaunchRole(r)
    PROVE  IInv'
<1>1. /\ op[r] # Nothing /\ op[r].phase = "start" /\ op[r].step = 1
      /\ cmd[r].account \in Accounts /\ (asg[r] # Nothing => cmd[r].account = asg[r].account)
      /\ Untouched(r) /\ Prepared(r) /\ role[r] = Nothing
  BY Fields DEF IInv, LaunchRole, At, Sound, Commanded, Started, Roled, Committing, Cleaning
<1>2. asg[r].account \in Accounts /\ asg[r].until \in 0..(MaxClock + LeaseTerm)
  BY <1>1, Fields DEF IInv, Prepared
<1>3. \/ role' = role /\ Went(r, "clean") /\ fails' \in 0..MaxFail
      \/ /\ role' \in [Runs -> Roles \cup {Nothing}]
         /\ \A s \in Runs : s # r => role'[s] = role[s]
         /\ role'[r] # Nothing /\ role'[r].pc = "staging" /\ role'[r].account = asg[r].account
         /\ role'[r].until = asg[r].until /\ Went(r, "wait") /\ fails' = fails
  BY <1>1, <1>2, Assumed, Fields, GoingTo, Failing DEF IInv, TypeOK, LaunchRole, Pcs, Roles
<1>4. /\ clock' = clock /\ lease' = lease /\ asg' = asg /\ evidence' = evidence
      /\ target' = target /\ assigned' = assigned /\ op' = op /\ crashes' = crashes
  BY DEF LaunchRole, files
<1>5. TypeOK'
  BY <1>1, <1>2, <1>3, <1>4, Assumed
     DEF IInv, TypeOK, Went, Left, RoleWent, OpWent, AsgWent, EvidenceWent, EvidenceGone
<1>6. Elsewhere(r) /\ Counted
  BY <1>2, <1>3, <1>4
     DEF IInv, TypeOK, Went, Left, RoleWent, OpWent, AsgWent, EvidenceWent, EvidenceGone,
         Elsewhere, Counted, Instants, Clock, Never
<1>7. Sound(r)'
  <2>1. Started(r)'
    BY <1>1, <1>2, <1>3, <1>4, Assumed
       DEF Started, Working, Untouched, Prepared, Tried, Landed, Landing, Went, Left, RoleWent,
           OpWent, AsgWent, EvidenceWent, EvidenceGone, Clock
  <2>2. Roled(r)'
    BY <1>1, <1>2, <1>3, <1>4, Assumed
       DEF Roled, Working, Untouched, Tried, Landed, Went, Left, RoleWent, OpWent, AsgWent,
           EvidenceWent, EvidenceGone, Clock
  <2>3. Committing(r)'
    BY <1>1, <1>2, <1>3, <1>4, Assumed
       DEF Committing, Prepared, Dated, Landed, Went, Left, RoleWent, OpWent, AsgWent,
           EvidenceWent, EvidenceGone, Clock
  <2>4. Cleaning(r)'
    BY <1>1, <1>2, <1>3, <1>4, Assumed
       DEF Cleaning, Untouched, Prepared, Went, Left, RoleWent, OpWent, AsgWent, EvidenceWent,
           EvidenceGone, Clock
  <2>5. Settled(r)'
    BY <1>1, <1>2, <1>3, <1>4, Assumed
       DEF Settled, Untouched, Dated, Landed, Went, Left, RoleWent, OpWent, AsgWent,
           EvidenceWent, EvidenceGone, Clock
  <2>6. Commanded(r)'
    BY <1>1, <1>2, <1>3, <1>4, Assumed
       DEF Commanded, Done, Working, Untouched, Prepared, Dated, Landed, Landing, LastStep,
           Went, Left, RoleWent, OpWent, AsgWent, EvidenceWent, EvidenceGone, Clock
  <2> QED
    BY <2>1, <2>2, <2>3, <2>4, <2>5, <2>6 DEF Sound
<1> QED
  BY <1>5, <1>6, <1>7, Others DEF IInv

\* The answer of a role says what its evidence says.
LEMMA RoleAnswersStep ==
    ASSUME IInv, NEW r \in Runs, RoleAnswers(r)
    PROVE  IInv'
<1>1. /\ op[r] # Nothing /\ op[r].phase = "start" /\ op[r].step = 1
      /\ cmd[r].account \in Accounts /\ (asg[r] # Nothing => cmd[r].account = asg[r].account)
      /\ Prepared(r) /\ Working(r)
  BY Fields DEF IInv, RoleAnswers, At, Sound, Commanded, Started, Roled, Committing, Cleaning
<1>2. \/ Went(r, "checkpoint") /\ role[r].pc = "committed"
      \/ Went(r, "clean") /\ role[r].pc = "uncommitted"
  BY <1>1, Assumed, Fields, GoingTo, Failing DEF IInv, TypeOK, RoleAnswers, Pcs
<1>3. /\ role' \in [Runs -> Roles \cup {Nothing}] /\ role'[r] = Nothing
      /\ \A s \in Runs : s # r => role'[s] = role[s]
  BY DEF IInv, TypeOK, RoleAnswers
<1>4. /\ clock' = clock /\ lease' = lease /\ asg' = asg /\ evidence' = evidence
      /\ target' = target /\ assigned' = assigned /\ op' = op /\ crashes' = crashes
      /\ fails' = fails
  BY DEF RoleAnswers, files
<1>5. TypeOK'
  BY <1>1, <1>2, <1>3, <1>4, Assumed
     DEF IInv, TypeOK, Went, Left, RoleWent, OpWent, AsgWent, EvidenceWent, EvidenceGone
<1>6. Elsewhere(r) /\ Counted
  BY <1>2, <1>3, <1>4
     DEF IInv, TypeOK, Went, Left, RoleWent, OpWent, AsgWent, EvidenceWent, EvidenceGone,
         Elsewhere, Counted, Instants, Clock, Never
<1>7. Sound(r)'
  <2>1. Started(r)'
    BY <1>1, <1>2, <1>3, <1>4, Assumed
       DEF Started, Working, Untouched, Prepared, Tried, Landed, Landing, Went, Left, RoleWent,
           OpWent, AsgWent, EvidenceWent, EvidenceGone, Clock
  <2>2. Roled(r)'
    BY <1>1, <1>2, <1>3, <1>4, Assumed
       DEF Roled, Working, Untouched, Tried, Landed, Went, Left, RoleWent, OpWent, AsgWent,
           EvidenceWent, EvidenceGone, Clock
  <2>3. Committing(r)'
    BY <1>1, <1>2, <1>3, <1>4, Assumed
       DEF Committing, Prepared, Dated, Landed, Went, Left, RoleWent, OpWent, AsgWent,
           EvidenceWent, EvidenceGone, Clock
  <2>4. Cleaning(r)'
    BY <1>1, <1>2, <1>3, <1>4, Assumed
       DEF Cleaning, Untouched, Prepared, Went, Left, RoleWent, OpWent, AsgWent, EvidenceWent,
           EvidenceGone, Clock
  <2>5. Settled(r)'
    BY <1>1, <1>2, <1>3, <1>4, Assumed
       DEF Settled, Untouched, Dated, Landed, Went, Left, RoleWent, OpWent, AsgWent,
           EvidenceWent, EvidenceGone, Clock
  <2>6. Commanded(r)'
    BY <1>1, <1>2, <1>3, <1>4, Assumed
       DEF Commanded, Done, Working, Untouched, Prepared, Dated, Landed, Landing, LastStep,
           Went, Left, RoleWent, OpWent, AsgWent, EvidenceWent, EvidenceGone, Clock
  <2> QED
    BY <2>1, <2>2, <2>3, <2>4, <2>5, <2>6 DEF Sound
<1> QED
  BY <1>5, <1>6, <1>7, Others DEF IInv

\* The evidence and the bytes decide for a command that did not see the answer.
LEMMA StatusStep ==
    ASSUME IInv, NEW r \in Runs, Status(r)
    PROVE  IInv'
<1>1. /\ op[r] # Nothing /\ op[r].phase = "start" /\ op[r].step = 1
      /\ cmd[r].account \in Accounts /\ (asg[r] # Nothing => cmd[r].account = asg[r].account)
      /\ Prepared(r) /\ (role[r] = Nothing => Untouched(r) \/ Tried(r)) /\ cmd[r].pc = "next"
      /\ cmd[r].recovering /\ (role[r] # Nothing => Working(r))
  BY Fields DEF IInv, Status, At, Sound, Commanded, Started, Roled, Committing, Cleaning
<1>2. \/ Left(r) /\ evidence' = evidence
      \/ /\ role[r] = Nothing /\ evidence[r] # Nothing /\ Landing(r) /\ Went(r, "checkpoint")
         /\ evidence' = [evidence EXCEPT ![r] = [@ EXCEPT !.status = "committed"]]
      \/ /\ role[r] = Nothing /\ target[r] = Nothing /\ Went(r, "clean")
         /\ evidence' = [evidence EXCEPT ![r] = Nothing]
  BY <1>1, Assumed, Fields, GoingTo, Failing
     DEF IInv, TypeOK, Status, Pcs, LockFree, Matches, Tried, Untouched, Landed, Landing
<1>3. \/ Left(r) /\ evidence' = evidence
      \/ /\ role[r] = Nothing /\ Landing(r) /\ Went(r, "checkpoint")
         /\ EvidenceWent(r, "committed", evidence[r].at)
         /\ evidence'[r].account = evidence[r].account
      \/ role[r] = Nothing /\ target[r] = Nothing /\ Went(r, "clean") /\ EvidenceGone(r)
  BY <1>2, Fields, EvidenceGoing DEF IInv, TypeOK, EvidenceGone
<1>4. /\ clock' = clock /\ lease' = lease /\ asg' = asg /\ target' = target
      /\ assigned' = assigned /\ op' = op /\ role' = role /\ crashes' = crashes
      /\ fails' = fails
  BY DEF Status, files
<1>5. TypeOK'
  BY <1>1, <1>2, <1>3, <1>4, Assumed
     DEF IInv, TypeOK, Went, Left, RoleWent, OpWent, AsgWent, EvidenceWent, EvidenceGone
<1>6. Elsewhere(r) /\ Counted
  BY <1>2, <1>3, <1>4
     DEF IInv, TypeOK, Went, Left, RoleWent, OpWent, AsgWent, EvidenceWent, EvidenceGone,
         Elsewhere, Counted, Instants, Clock, Never
<1>7. Sound(r)'
  <2>1. Started(r)'
    <3>1. CASE Left(r) /\ evidence' = evidence
      BY <3>1, <1>1, <1>2, <1>4, Assumed
         DEF Started, Working, Untouched, Prepared, Tried, Landed, Landing, Went, Left,
             RoleWent, OpWent, AsgWent, EvidenceWent, EvidenceGone, Clock
    <3>2. CASE /\ role[r] = Nothing /\ Landing(r) /\ Went(r, "checkpoint")
               /\ EvidenceWent(r, "committed", evidence[r].at)
               /\ evidence'[r].account = evidence[r].account
      BY <3>2, <1>1, <1>2, <1>4, Assumed
         DEF Started, Working, Untouched, Prepared, Tried, Landed, Landing, Went, Left,
             RoleWent, OpWent, AsgWent, EvidenceWent, EvidenceGone, Clock
    <3>3. CASE role[r] = Nothing /\ target[r] = Nothing /\ Went(r, "clean") /\ EvidenceGone(r)
      BY <3>3, <1>1, <1>2, <1>4, Assumed
         DEF Started, Working, Untouched, Prepared, Tried, Landed, Landing, Went, Left,
             RoleWent, OpWent, AsgWent, EvidenceWent, EvidenceGone, Clock
    <3> QED
      BY <1>3, <3>1, <3>2, <3>3
  <2>2. Roled(r)'
    BY <1>1, <1>2, <1>3, <1>4, Assumed
       DEF Roled, Working, Untouched, Tried, Landed, Went, Left, RoleWent, OpWent, AsgWent,
           EvidenceWent, EvidenceGone, Clock
  <2>3. Committing(r)'
    BY <1>1, <1>2, <1>3, <1>4, Assumed
       DEF Committing, Prepared, Dated, Landed, Went, Left, RoleWent, OpWent, AsgWent,
           EvidenceWent, EvidenceGone, Clock
  <2>4. Cleaning(r)'
    BY <1>1, <1>2, <1>3, <1>4, Assumed
       DEF Cleaning, Untouched, Prepared, Went, Left, RoleWent, OpWent, AsgWent, EvidenceWent,
           EvidenceGone, Clock
  <2>5. Settled(r)'
    BY <1>1, <1>2, <1>3, <1>4, Assumed
       DEF Settled, Untouched, Dated, Landed, Went, Left, RoleWent, OpWent, AsgWent,
           EvidenceWent, EvidenceGone, Clock
  <2>6. Commanded(r)'
    <3>1. CASE Left(r) /\ evidence' = evidence
      BY <3>1, <1>1, <1>2, <1>4, Assumed
         DEF Commanded, Done, Working, Untouched, Prepared, Dated, Landed, Landing, LastStep,
             Went, Left, RoleWent, OpWent, AsgWent, EvidenceWent, EvidenceGone, Clock
    <3>2. CASE /\ role[r] = Nothing /\ Landing(r) /\ Went(r, "checkpoint")
               /\ EvidenceWent(r, "committed", evidence[r].at)
               /\ evidence'[r].account = evidence[r].account
      BY <3>2, <1>1, <1>2, <1>4, Assumed
         DEF Commanded, Done, Working, Untouched, Prepared, Dated, Landed, Landing, LastStep,
             Went, Left, RoleWent, OpWent, AsgWent, EvidenceWent, EvidenceGone, Clock
    <3>3. CASE role[r] = Nothing /\ target[r] = Nothing /\ Went(r, "clean") /\ EvidenceGone(r)
      BY <3>3, <1>1, <1>2, <1>4, Assumed
         DEF Commanded, Done, Working, Untouched, Prepared, Dated, Landed, Landing, LastStep,
             Went, Left, RoleWent, OpWent, AsgWent, EvidenceWent, EvidenceGone, Clock
    <3> QED
      BY <1>3, <3>1, <3>2, <3>3
  <2> QED
    BY <2>1, <2>2, <2>3, <2>4, <2>5, <2>6 DEF Sound
<1> QED
  BY <1>5, <1>6, <1>7, Others DEF IInv

\* Cleanup begins where nothing was written.
LEMMA InstallCleanupStep ==
    ASSUME IInv, NEW r \in Runs, InstallCleanup(r)
    PROVE  IInv'
<1>1. /\ op[r] # Nothing /\ op[r].phase = "start" /\ op[r].step = 1
      /\ cmd[r].account \in Accounts /\ (asg[r] # Nothing => cmd[r].account = asg[r].account)
      /\ Untouched(r) /\ Prepared(r) /\ role[r] = Nothing
  BY Fields DEF IInv, InstallCleanup, At, Sound, Commanded, Started, Roled, Committing, Cleaning
<1>2. Went(r, "next")
  BY <1>1, Assumed, Fields, GoingTo, Failing DEF IInv, TypeOK, InstallCleanup, Pcs
<1>3. op[r] \in Operations /\ op'[r] = [op[r] EXCEPT !.phase = "cleanup", !.step = -1]
  BY <1>1 DEF IInv, TypeOK, InstallCleanup
<1>4. -1 \in -1..2 /\ "cleanup" \in Phases
  BY DEF Phases
<1>5. op'[r].phase = "cleanup" /\ op'[r].step = -1
  BY <1>3 DEF Operations
<1>6. op'[r] \in Operations
  BY <1>3, <1>4 DEF Operations
<1>7. OpWent(r, "cleanup", -1)
  BY <1>5, <1>6, Assumed DEF IInv, TypeOK, InstallCleanup, OpWent
<1>8. /\ clock' = clock /\ lease' = lease /\ asg' = asg /\ evidence' = evidence
      /\ target' = target /\ assigned' = assigned /\ role' = role /\ crashes' = crashes
      /\ fails' = fails
  BY DEF InstallCleanup, files
<1>9. TypeOK'
  BY <1>1, <1>2, <1>3, <1>4, <1>5, <1>6, <1>7, <1>8, Assumed
     DEF IInv, TypeOK, Went, Left, RoleWent, OpWent, AsgWent, EvidenceWent, EvidenceGone
<1>10. Elsewhere(r) /\ Counted
  BY <1>2, <1>3, <1>4, <1>5, <1>6, <1>7, <1>8
     DEF IInv, TypeOK, Went, Left, RoleWent, OpWent, AsgWent, EvidenceWent, EvidenceGone,
         Elsewhere, Counted, Instants, Clock, Never
<1>11. Sound(r)'
  <2>1. Started(r)'
    BY <1>1, <1>2, <1>3, <1>4, <1>5, <1>6, <1>7, <1>8, Assumed
       DEF Started, Working, Untouched, Prepared, Tried, Landed, Landing, Went, Left, RoleWent,
           OpWent, AsgWent, EvidenceWent, EvidenceGone, Clock
  <2>2. Roled(r)'
    BY <1>1, <1>2, <1>3, <1>4, <1>5, <1>6, <1>7, <1>8, Assumed
       DEF Roled, Working, Untouched, Tried, Landed, Went, Left, RoleWent, OpWent, AsgWent,
           EvidenceWent, EvidenceGone, Clock
  <2>3. Committing(r)'
    BY <1>1, <1>2, <1>3, <1>4, <1>5, <1>6, <1>7, <1>8, Assumed
       DEF Committing, Prepared, Dated, Landed, Went, Left, RoleWent, OpWent, AsgWent,
           EvidenceWent, EvidenceGone, Clock
  <2>4. Cleaning(r)'
    BY <1>1, <1>2, <1>3, <1>4, <1>5, <1>6, <1>7, <1>8, Assumed
       DEF Cleaning, Untouched, Prepared, Went, Left, RoleWent, OpWent, AsgWent, EvidenceWent,
           EvidenceGone, Clock
  <2>5. Settled(r)'
    BY <1>1, <1>2, <1>3, <1>4, <1>5, <1>6, <1>7, <1>8, Assumed
       DEF Settled, Untouched, Dated, Landed, Went, Left, RoleWent, OpWent, AsgWent,
           EvidenceWent, EvidenceGone, Clock
  <2>6. Commanded(r)'
    BY <1>1, <1>2, <1>3, <1>4, <1>5, <1>6, <1>7, <1>8, Assumed
       DEF Commanded, Done, Working, Untouched, Prepared, Dated, Landed, Landing, LastStep,
           Went, Left, RoleWent, OpWent, AsgWent, EvidenceWent, EvidenceGone, Clock
  <2> QED
    BY <2>1, <2>2, <2>3, <2>4, <2>5, <2>6 DEF Sound
<1> QED
  BY <1>9, <1>10, <1>11, Others DEF IInv

\* The assignment is committed at the instant of its evidence.
LEMMA CommitAssignmentStep ==
    ASSUME IInv, NEW r \in Runs, CommitAssignment(r)
    PROVE  IInv'
<1>1. /\ op[r] # Nothing /\ op[r].phase = "postcommit" /\ op[r].step = -1
      /\ cmd[r].account \in Accounts /\ (asg[r] # Nothing => cmd[r].account = asg[r].account)
      /\ Landed(r) /\ asg[r] # Nothing /\ (Prepared(r) \/ Dated(r)) /\ role[r] = Nothing
  BY Fields
     DEF IInv, CommitAssignment, At, Sound, Commanded, Started, Roled, Committing, Cleaning
<1>2. evidence[r].at \in Instants /\ asg[r] \in Assignments
  BY <1>1, Fields DEF IInv, Landed
<1>3. \/ Left(r) /\ asg' = asg
      \/ Went(r, "checkpoint") /\ asg' = asg /\ Dated(r)
      \/ /\ Went(r, "checkpoint")
         /\ asg' = [asg EXCEPT ![r] = [@ EXCEPT !.at = evidence[r].at, !.status = "committed"]]
  BY <1>1, <1>2, Assumed, Fields, GoingTo, Failing
     DEF IInv, TypeOK, CommitAssignment, Pcs, Dated
<1>4. \/ Left(r) /\ asg' = asg
      \/ Went(r, "checkpoint") /\ asg' = asg /\ Dated(r)
      \/ /\ Went(r, "checkpoint") /\ AsgWent(r, "committed") /\ asg'[r].at = evidence[r].at
         /\ asg'[r].account = asg[r].account /\ asg'[r].until = asg[r].until
  BY <1>1, <1>2, <1>3, AsgGoing DEF IInv
<1>5. /\ clock' = clock /\ lease' = lease /\ evidence' = evidence /\ target' = target
      /\ assigned' = assigned /\ op' = op /\ role' = role /\ crashes' = crashes
      /\ fails' = fails
  BY DEF CommitAssignment, files
<1>6. TypeOK'
  BY <1>1, <1>2, <1>3, <1>4, <1>5, Assumed
     DEF IInv, TypeOK, Went, Left, RoleWent, OpWent, AsgWent, EvidenceWent, EvidenceGone
<1>7. Elsewhere(r) /\ Counted
  BY <1>2, <1>3, <1>4, <1>5
     DEF IInv, TypeOK, Went, Left, RoleWent, OpWent, AsgWent, EvidenceWent, EvidenceGone,
         Elsewhere, Counted, Instants, Clock, Never
<1>8. Sound(r)'
  <2>1. Started(r)'
    BY <1>1, <1>2, <1>3, <1>4, <1>5, Assumed
       DEF Started, Working, Untouched, Prepared, Tried, Landed, Landing, Went, Left, RoleWent,
           OpWent, AsgWent, EvidenceWent, EvidenceGone, Clock
  <2>2. Roled(r)'
    BY <1>1, <1>2, <1>3, <1>4, <1>5, Assumed
       DEF Roled, Working, Untouched, Tried, Landed, Went, Left, RoleWent, OpWent, AsgWent,
           EvidenceWent, EvidenceGone, Clock
  <2>3. Committing(r)'
    BY <1>1, <1>2, <1>3, <1>4, <1>5, Assumed
       DEF Committing, Prepared, Dated, Landed, Went, Left, RoleWent, OpWent, AsgWent,
           EvidenceWent, EvidenceGone, Clock
  <2>4. Cleaning(r)'
    BY <1>1, <1>2, <1>3, <1>4, <1>5, Assumed
       DEF Cleaning, Untouched, Prepared, Went, Left, RoleWent, OpWent, AsgWent, EvidenceWent,
           EvidenceGone, Clock
  <2>5. Settled(r)'
    BY <1>1, <1>2, <1>3, <1>4, <1>5, Assumed
       DEF Settled, Untouched, Dated, Landed, Went, Left, RoleWent, OpWent, AsgWent,
           EvidenceWent, EvidenceGone, Clock
  <2>6. Commanded(r)'
    BY <1>1, <1>2, <1>3, <1>4, <1>5, Assumed
       DEF Commanded, Done, Working, Untouched, Prepared, Dated, Landed, Landing, LastStep,
           Went, Left, RoleWent, OpWent, AsgWent, EvidenceWent, EvidenceGone, Clock
  <2> QED
    BY <2>1, <2>2, <2>3, <2>4, <2>5, <2>6 DEF Sound
<1> QED
  BY <1>6, <1>7, <1>8, Others DEF IInv

\* The commit is counted under its account.
LEMMA UpdateSelectionStep ==
    ASSUME IInv, NEW r \in Runs, UpdateSelection(r)
    PROVE  IInv'
<1>1. /\ op[r] # Nothing /\ op[r].phase = "postcommit" /\ op[r].step = 0
      /\ cmd[r].account \in Accounts /\ (asg[r] # Nothing => cmd[r].account = asg[r].account)
      /\ Landed(r) /\ Dated(r) /\ asg[r] # Nothing /\ role[r] = Nothing
  BY Fields
     DEF IInv, UpdateSelection, At, Sound, Commanded, Started, Roled, Committing, Cleaning
<1>2. Went(r, "checkpoint")
  BY <1>1, Assumed, Fields, GoingTo, Failing DEF IInv, TypeOK, UpdateSelection, Pcs
<1>3. /\ assigned' \in [Accounts -> Instants] /\ assigned'[asg[r].account] >= asg[r].at
      /\ \A a \in Accounts : assigned'[a] >= assigned[a]
  BY <1>1, Fields, Assumed DEF IInv, TypeOK, UpdateSelection, Instants, Clock, Never
<1>4. /\ clock' = clock /\ lease' = lease /\ asg' = asg /\ evidence' = evidence
      /\ target' = target /\ op' = op /\ role' = role /\ crashes' = crashes /\ fails' = fails
  BY DEF UpdateSelection, files
<1>5. TypeOK'
  BY <1>1, <1>2, <1>3, <1>4, Assumed
     DEF IInv, TypeOK, Went, Left, RoleWent, OpWent, AsgWent, EvidenceWent, EvidenceGone
<1>6. Elsewhere(r) /\ Counted
  BY <1>2, <1>3, <1>4
     DEF IInv, TypeOK, Went, Left, RoleWent, OpWent, AsgWent, EvidenceWent, EvidenceGone,
         Elsewhere, Counted, Instants, Clock, Never
<1>7. Sound(r)'
  <2>1. Started(r)'
    BY <1>1, <1>2, <1>3, <1>4, Assumed
       DEF Started, Working, Untouched, Prepared, Tried, Landed, Landing, Went, Left, RoleWent,
           OpWent, AsgWent, EvidenceWent, EvidenceGone, Clock
  <2>2. Roled(r)'
    BY <1>1, <1>2, <1>3, <1>4, Assumed
       DEF Roled, Working, Untouched, Tried, Landed, Went, Left, RoleWent, OpWent, AsgWent,
           EvidenceWent, EvidenceGone, Clock
  <2>3. Committing(r)'
    BY <1>1, <1>2, <1>3, <1>4, Assumed
       DEF Committing, Prepared, Dated, Landed, Went, Left, RoleWent, OpWent, AsgWent,
           EvidenceWent, EvidenceGone, Clock
  <2>4. Cleaning(r)'
    BY <1>1, <1>2, <1>3, <1>4, Assumed
       DEF Cleaning, Untouched, Prepared, Went, Left, RoleWent, OpWent, AsgWent, EvidenceWent,
           EvidenceGone, Clock
  <2>5. Settled(r)'
    BY <1>1, <1>2, <1>3, <1>4, Assumed
       DEF Settled, Untouched, Dated, Landed, Went, Left, RoleWent, OpWent, AsgWent,
           EvidenceWent, EvidenceGone, Clock
  <2>6. Commanded(r)'
    BY <1>1, <1>2, <1>3, <1>4, Assumed
       DEF Commanded, Done, Working, Untouched, Prepared, Dated, Landed, Landing, LastStep,
           Went, Left, RoleWent, OpWent, AsgWent, EvidenceWent, EvidenceGone, Clock
  <2> QED
    BY <2>1, <2>2, <2>3, <2>4, <2>5, <2>6 DEF Sound
<1> QED
  BY <1>5, <1>6, <1>7, Others DEF IInv

\* A contribution to the proof record touches no file of the run.
LEMMA UpdateProofStep ==
    ASSUME IInv, NEW r \in Runs, UpdateProof(r)
    PROVE  IInv'
<1>1. /\ op[r] # Nothing /\ op[r].phase = "postcommit" /\ op[r].step = 1
      /\ cmd[r].account \in Accounts /\ (asg[r] # Nothing => cmd[r].account = asg[r].account)
      /\ Landed(r) /\ Dated(r) /\ asg[r] # Nothing /\ assigned[asg[r].account] >= asg[r].at
      /\ role[r] = Nothing
  BY Fields DEF IInv, UpdateProof, At, Sound, Commanded, Started, Roled, Committing, Cleaning
<1>2. Went(r, "checkpoint")
  BY <1>1, Assumed, Fields, GoingTo, Failing DEF IInv, TypeOK, UpdateProof, Pcs
<1>3. /\ clock' = clock /\ lease' = lease /\ asg' = asg /\ evidence' = evidence
      /\ target' = target /\ assigned' = assigned /\ op' = op /\ role' = role
      /\ crashes' = crashes /\ fails' = fails
  BY DEF UpdateProof, files
<1>4. TypeOK'
  BY <1>1, <1>2, <1>3, Assumed
     DEF IInv, TypeOK, Went, Left, RoleWent, OpWent, AsgWent, EvidenceWent, EvidenceGone
<1>5. Elsewhere(r) /\ Counted
  BY <1>2, <1>3
     DEF IInv, TypeOK, Went, Left, RoleWent, OpWent, AsgWent, EvidenceWent, EvidenceGone,
         Elsewhere, Counted, Instants, Clock, Never
<1>6. Sound(r)'
  <2>1. Started(r)'
    BY <1>1, <1>2, <1>3, Assumed
       DEF Started, Working, Untouched, Prepared, Tried, Landed, Landing, Went, Left, RoleWent,
           OpWent, AsgWent, EvidenceWent, EvidenceGone, Clock
  <2>2. Roled(r)'
    BY <1>1, <1>2, <1>3, Assumed
       DEF Roled, Working, Untouched, Tried, Landed, Went, Left, RoleWent, OpWent, AsgWent,
           EvidenceWent, EvidenceGone, Clock
  <2>3. Committing(r)'
    BY <1>1, <1>2, <1>3, Assumed
       DEF Committing, Prepared, Dated, Landed, Went, Left, RoleWent, OpWent, AsgWent,
           EvidenceWent, EvidenceGone, Clock
  <2>4. Cleaning(r)'
    BY <1>1, <1>2, <1>3, Assumed
       DEF Cleaning, Untouched, Prepared, Went, Left, RoleWent, OpWent, AsgWent, EvidenceWent,
           EvidenceGone, Clock
  <2>5. Settled(r)'
    BY <1>1, <1>2, <1>3, Assumed
       DEF Settled, Untouched, Dated, Landed, Went, Left, RoleWent, OpWent, AsgWent,
           EvidenceWent, EvidenceGone, Clock
  <2>6. Commanded(r)'
    BY <1>1, <1>2, <1>3, Assumed
       DEF Commanded, Done, Working, Untouched, Prepared, Dated, Landed, Landing, LastStep,
           Went, Left, RoleWent, OpWent, AsgWent, EvidenceWent, EvidenceGone, Clock
  <2> QED
    BY <2>1, <2>2, <2>3, <2>4, <2>5, <2>6 DEF Sound
<1> QED
  BY <1>4, <1>5, <1>6, Others DEF IInv

\* Only a prepared assignment is discarded.
LEMMA DiscardAssignmentStep ==
    ASSUME IInv, NEW r \in Runs, DiscardAssignment(r)
    PROVE  IInv'
<1>1. /\ op[r] # Nothing /\ op[r].phase = "cleanup" /\ op[r].step = -1
      /\ cmd[r].account \in Accounts /\ (asg[r] # Nothing => cmd[r].account = asg[r].account)
      /\ Untouched(r) /\ (asg[r] = Nothing \/ Prepared(r)) /\ role[r] = Nothing
  BY Fields
     DEF IInv, DiscardAssignment, At, Sound, Commanded, Started, Roled, Committing, Cleaning
<1>2. \/ Left(r) /\ asg' = asg
      \/ /\ Went(r, "checkpoint") /\ asg'[r] = Nothing
         /\ asg' \in [Runs -> Assignments \cup {Nothing}]
         /\ \A s \in Runs : s # r => asg'[s] = asg[s]
  BY <1>1, Assumed, Fields, GoingTo, Failing DEF IInv, TypeOK, DiscardAssignment, Pcs
<1>3. /\ clock' = clock /\ lease' = lease /\ evidence' = evidence /\ target' = target
      /\ assigned' = assigned /\ op' = op /\ role' = role /\ crashes' = crashes
      /\ fails' = fails
  BY DEF DiscardAssignment, files
<1>4. TypeOK'
  BY <1>1, <1>2, <1>3, Assumed
     DEF IInv, TypeOK, Went, Left, RoleWent, OpWent, AsgWent, EvidenceWent, EvidenceGone
<1>5. Elsewhere(r) /\ Counted
  BY <1>2, <1>3
     DEF IInv, TypeOK, Went, Left, RoleWent, OpWent, AsgWent, EvidenceWent, EvidenceGone,
         Elsewhere, Counted, Instants, Clock, Never
<1>6. Sound(r)'
  <2>1. Started(r)'
    BY <1>1, <1>2, <1>3, Assumed
       DEF Started, Working, Untouched, Prepared, Tried, Landed, Landing, Went, Left, RoleWent,
           OpWent, AsgWent, EvidenceWent, EvidenceGone, Clock
  <2>2. Roled(r)'
    BY <1>1, <1>2, <1>3, Assumed
       DEF Roled, Working, Untouched, Tried, Landed, Went, Left, RoleWent, OpWent, AsgWent,
           EvidenceWent, EvidenceGone, Clock
  <2>3. Committing(r)'
    BY <1>1, <1>2, <1>3, Assumed
       DEF Committing, Prepared, Dated, Landed, Went, Left, RoleWent, OpWent, AsgWent,
           EvidenceWent, EvidenceGone, Clock
  <2>4. Cleaning(r)'
    BY <1>1, <1>2, <1>3, Assumed
       DEF Cleaning, Untouched, Prepared, Went, Left, RoleWent, OpWent, AsgWent, EvidenceWent,
           EvidenceGone, Clock
  <2>5. Settled(r)'
    BY <1>1, <1>2, <1>3, Assumed
       DEF Settled, Untouched, Dated, Landed, Went, Left, RoleWent, OpWent, AsgWent,
           EvidenceWent, EvidenceGone, Clock
  <2>6. Commanded(r)'
    BY <1>1, <1>2, <1>3, Assumed
       DEF Commanded, Done, Working, Untouched, Prepared, Dated, Landed, Landing, LastStep,
           Went, Left, RoleWent, OpWent, AsgWent, EvidenceWent, EvidenceGone, Clock
  <2> QED
    BY <2>1, <2>2, <2>3, <2>4, <2>5, <2>6 DEF Sound
<1> QED
  BY <1>4, <1>5, <1>6, Others DEF IInv

\* A lease to release is looked for in cleanup, and when a run is closed.
LEMMA PlanReleaseStep ==
    ASSUME IInv, NEW r \in Runs, PlanRelease(r)
    PROVE  IInv'
<1>1. \/ /\ op[r] # Nothing /\ op[r].phase = "cleanup" /\ op[r].step = 0 /\ asg[r] = Nothing
         /\ Untouched(r) /\ cmd[r].account \in Accounts
      \/ /\ op[r] = Nothing /\ asg[r] # Nothing /\ Landed(r) /\ Dated(r)
         /\ assigned[asg[r].account] >= asg[r].at
  BY Fields DEF IInv, PlanRelease, At, Sound, Commanded, Cleaning, Settled
<1>2. role[r] = Nothing
  BY DEF IInv, PlanRelease, At, Sound, Commanded, Roled
<1>3. \/ Went(r, "unlink") /\ asg' = asg
      \/ op[r] # Nothing /\ Went(r, "checkpoint") /\ asg' = asg
      \/ op[r] = Nothing /\ Left(r) /\ asg' = [asg EXCEPT ![r] = [@ EXCEPT !.status = "closed"]]
  BY GoingTo, Failing DEF IInv, PlanRelease, Released, Pcs
<1>4. \/ Went(r, "unlink") /\ asg' = asg
      \/ op[r] # Nothing /\ Went(r, "checkpoint") /\ asg' = asg
      \/ /\ op[r] = Nothing /\ Left(r) /\ AsgWent(r, "closed") /\ asg'[r].at = asg[r].at
         /\ asg'[r].account = asg[r].account
         /\ asg'[r].until = asg[r].until
  BY <1>1, <1>3, Fields, AsgGoing DEF IInv
<1>5. /\ clock' = clock /\ lease' = lease /\ evidence' = evidence /\ target' = target
      /\ assigned' = assigned /\ op' = op /\ role' = role /\ crashes' = crashes
      /\ fails' = fails
  BY DEF PlanRelease, files
<1>6. TypeOK'
  BY <1>1, <1>2, <1>3, <1>4, <1>5, Assumed
     DEF IInv, TypeOK, Went, Left, RoleWent, OpWent, AsgWent, EvidenceWent, EvidenceGone
<1>7. Elsewhere(r) /\ Counted
  BY <1>2, <1>3, <1>4, <1>5
     DEF IInv, TypeOK, Went, Left, RoleWent, OpWent, AsgWent, EvidenceWent, EvidenceGone,
         Elsewhere, Counted, Instants, Clock, Never
<1>8. Sound(r)'
  <2>1. Started(r)'
    BY <1>1, <1>2, <1>3, <1>4, <1>5, Assumed
       DEF Started, Working, Untouched, Prepared, Tried, Landed, Landing, Went, Left, RoleWent,
           OpWent, AsgWent, EvidenceWent, EvidenceGone, Clock
  <2>2. Roled(r)'
    BY <1>1, <1>2, <1>3, <1>4, <1>5, Assumed
       DEF Roled, Working, Untouched, Tried, Landed, Went, Left, RoleWent, OpWent, AsgWent,
           EvidenceWent, EvidenceGone, Clock
  <2>3. Committing(r)'
    BY <1>1, <1>2, <1>3, <1>4, <1>5, Assumed
       DEF Committing, Prepared, Dated, Landed, Went, Left, RoleWent, OpWent, AsgWent,
           EvidenceWent, EvidenceGone, Clock
  <2>4. Cleaning(r)'
    BY <1>1, <1>2, <1>3, <1>4, <1>5, Assumed
       DEF Cleaning, Untouched, Prepared, Went, Left, RoleWent, OpWent, AsgWent, EvidenceWent,
           EvidenceGone, Clock
  <2>5. Settled(r)'
    BY <1>1, <1>2, <1>3, <1>4, <1>5, Assumed
       DEF Settled, Untouched, Dated, Landed, Went, Left, RoleWent, OpWent, AsgWent,
           EvidenceWent, EvidenceGone, Clock
  <2>6. Commanded(r)'
    BY <1>1, <1>2, <1>3, <1>4, <1>5, Assumed
       DEF Commanded, Done, Working, Untouched, Prepared, Dated, Landed, Landing, LastStep,
           Went, Left, RoleWent, OpWent, AsgWent, EvidenceWent, EvidenceGone, Clock
  <2> QED
    BY <2>1, <2>2, <2>3, <2>4, <2>5, <2>6 DEF Sound
<1> QED
  BY <1>6, <1>7, <1>8, Others DEF IInv

\* The lease that is unlinked is no file of the run.
LEMMA UnlinkLeaseStep ==
    ASSUME IInv, NEW r \in Runs, UnlinkLease(r)
    PROVE  IInv'
<1>1. \/ /\ op[r] # Nothing /\ op[r].phase = "cleanup" /\ op[r].step = 0 /\ asg[r] = Nothing
         /\ Untouched(r) /\ cmd[r].account \in Accounts
      \/ /\ op[r] = Nothing /\ asg[r] # Nothing /\ Landed(r) /\ Dated(r)
         /\ assigned[asg[r].account] >= asg[r].at
  BY Fields DEF IInv, UnlinkLease, Sound, Commanded, Cleaning, Settled
<1>2. role[r] = Nothing /\ BoundAccount(r) \in Accounts
  BY <1>1, Fields DEF IInv, UnlinkLease, Sound, Commanded, Roled, BoundAccount
<1>3. lease' \in [Accounts -> Leases \cup {Nothing}]
  BY <1>2 DEF IInv, TypeOK, UnlinkLease
<1>4. \/ op[r] # Nothing /\ Went(r, "checkpoint") /\ asg' = asg
      \/ op[r] = Nothing /\ Left(r) /\ asg' = [asg EXCEPT ![r] = [@ EXCEPT !.status = "closed"]]
  BY GoingTo, Failing DEF IInv, UnlinkLease, Released, Pcs
<1>5. \/ op[r] # Nothing /\ Went(r, "checkpoint") /\ asg' = asg
      \/ /\ op[r] = Nothing /\ Left(r) /\ AsgWent(r, "closed") /\ asg'[r].at = asg[r].at
         /\ asg'[r].account = asg[r].account
         /\ asg'[r].until = asg[r].until
  BY <1>1, <1>4, Fields, AsgGoing DEF IInv
<1>6. /\ clock' = clock /\ evidence' = evidence /\ target' = target /\ assigned' = assigned
      /\ op' = op /\ role' = role /\ crashes' = crashes /\ fails' = fails
  BY DEF UnlinkLease, files
<1>7. TypeOK'
  BY <1>1, <1>2, <1>3, <1>4, <1>5, <1>6, Assumed
     DEF IInv, TypeOK, Went, Left, RoleWent, OpWent, AsgWent, EvidenceWent, EvidenceGone
<1>8. Elsewhere(r) /\ Counted
  BY <1>2, <1>3, <1>4, <1>5, <1>6
     DEF IInv, TypeOK, Went, Left, RoleWent, OpWent, AsgWent, EvidenceWent, EvidenceGone,
         Elsewhere, Counted, Instants, Clock, Never
<1>9. Sound(r)'
  <2>1. Started(r)'
    BY <1>1, <1>2, <1>3, <1>4, <1>5, <1>6, Assumed
       DEF Started, Working, Untouched, Prepared, Tried, Landed, Landing, Went, Left, RoleWent,
           OpWent, AsgWent, EvidenceWent, EvidenceGone, Clock
  <2>2. Roled(r)'
    BY <1>1, <1>2, <1>3, <1>4, <1>5, <1>6, Assumed
       DEF Roled, Working, Untouched, Tried, Landed, Went, Left, RoleWent, OpWent, AsgWent,
           EvidenceWent, EvidenceGone, Clock
  <2>3. Committing(r)'
    BY <1>1, <1>2, <1>3, <1>4, <1>5, <1>6, Assumed
       DEF Committing, Prepared, Dated, Landed, Went, Left, RoleWent, OpWent, AsgWent,
           EvidenceWent, EvidenceGone, Clock
  <2>4. Cleaning(r)'
    BY <1>1, <1>2, <1>3, <1>4, <1>5, <1>6, Assumed
       DEF Cleaning, Untouched, Prepared, Went, Left, RoleWent, OpWent, AsgWent, EvidenceWent,
           EvidenceGone, Clock
  <2>5. Settled(r)'
    BY <1>1, <1>2, <1>3, <1>4, <1>5, <1>6, Assumed
       DEF Settled, Untouched, Dated, Landed, Went, Left, RoleWent, OpWent, AsgWent,
           EvidenceWent, EvidenceGone, Clock
  <2>6. Commanded(r)'
    BY <1>1, <1>2, <1>3, <1>4, <1>5, <1>6, Assumed
       DEF Commanded, Done, Working, Untouched, Prepared, Dated, Landed, Landing, LastStep,
           Went, Left, RoleWent, OpWent, AsgWent, EvidenceWent, EvidenceGone, Clock
  <2> QED
    BY <2>1, <2>2, <2>3, <2>4, <2>5, <2>6 DEF Sound
<1> QED
  BY <1>7, <1>8, <1>9, Others DEF IInv

\* Only a committed assignment is closed.
LEMMA CloseStep ==
    ASSUME IInv, NEW r \in Runs, Close(r)
    PROVE  IInv'
<1>1. /\ op[r] = Nothing /\ asg[r] # Nothing /\ Landed(r) /\ Dated(r)
      /\ assigned[asg[r].account] >= asg[r].at /\ role[r] = Nothing
  BY DEF IInv, Close, Sound, Settled, Roled
<1>2. Went(r, "close")
  BY GoingTo DEF IInv, Close, Pcs
<1>3. /\ clock' = clock /\ lease' = lease /\ asg' = asg /\ evidence' = evidence
      /\ target' = target /\ assigned' = assigned /\ op' = op /\ role' = role
      /\ crashes' = crashes /\ fails' = fails
  BY DEF Close, files
<1>4. TypeOK'
  BY <1>1, <1>2, <1>3, Assumed
     DEF IInv, TypeOK, Went, Left, RoleWent, OpWent, AsgWent, EvidenceWent, EvidenceGone
<1>5. Elsewhere(r) /\ Counted
  BY <1>2, <1>3
     DEF IInv, TypeOK, Went, Left, RoleWent, OpWent, AsgWent, EvidenceWent, EvidenceGone,
         Elsewhere, Counted, Instants, Clock, Never
<1>6. Sound(r)'
  <2>1. Started(r)'
    BY <1>1, <1>2, <1>3, Assumed
       DEF Started, Working, Untouched, Prepared, Tried, Landed, Landing, Went, Left, RoleWent,
           OpWent, AsgWent, EvidenceWent, EvidenceGone, Clock
  <2>2. Roled(r)'
    BY <1>1, <1>2, <1>3, Assumed
       DEF Roled, Working, Untouched, Tried, Landed, Went, Left, RoleWent, OpWent, AsgWent,
           EvidenceWent, EvidenceGone, Clock
  <2>3. Committing(r)'
    BY <1>1, <1>2, <1>3, Assumed
       DEF Committing, Prepared, Dated, Landed, Went, Left, RoleWent, OpWent, AsgWent,
           EvidenceWent, EvidenceGone, Clock
  <2>4. Cleaning(r)'
    BY <1>1, <1>2, <1>3, Assumed
       DEF Cleaning, Untouched, Prepared, Went, Left, RoleWent, OpWent, AsgWent, EvidenceWent,
           EvidenceGone, Clock
  <2>5. Settled(r)'
    BY <1>1, <1>2, <1>3, Assumed
       DEF Settled, Untouched, Dated, Landed, Went, Left, RoleWent, OpWent, AsgWent,
           EvidenceWent, EvidenceGone, Clock
  <2>6. Commanded(r)'
    BY <1>1, <1>2, <1>3, Assumed
       DEF Commanded, Done, Working, Untouched, Prepared, Dated, Landed, Landing, LastStep,
           Went, Left, RoleWent, OpWent, AsgWent, EvidenceWent, EvidenceGone, Clock
  <2> QED
    BY <2>1, <2>2, <2>3, <2>4, <2>5, <2>6 DEF Sound
<1> QED
  BY <1>4, <1>5, <1>6, Others DEF IInv

\* The checkpoint moves over what has been done.
LEMMA CheckpointStep ==
    ASSUME IInv, NEW r \in Runs, Checkpoint(r)
    PROVE  IInv'
<1>1. /\ op[r] # Nothing /\ op[r].phase \in Phases /\ op[r].step \in -1..2
      /\ op[r].step < LastStep(op[r].phase) /\ cmd[r].account \in Accounts
      /\ (asg[r] # Nothing => cmd[r].account = asg[r].account) /\ Started(r) /\ Committing(r)
      /\ Cleaning(r) /\ Done(r) /\ role[r] = Nothing
  BY Fields DEF IInv, Checkpoint, Sound, Commanded, Roled
<1>2. Went(r, "next")
  BY GoingTo DEF IInv, Checkpoint, Pcs
<1>3. op[r] \in Operations /\ op'[r] = [op[r] EXCEPT !.step = op[r].step + 1]
  BY <1>1 DEF IInv, TypeOK, Checkpoint
<1>4. op[r].step + 1 \in -1..2
  BY <1>1 DEF LastStep
<1>5. op'[r].phase = op[r].phase /\ op'[r].step = op[r].step + 1
  BY <1>3 DEF Operations
<1>6. op'[r] \in Operations
  BY <1>3, <1>4 DEF Operations
<1>7. OpWent(r, op[r].phase, op[r].step + 1)
  BY <1>5, <1>6, Assumed DEF IInv, TypeOK, Checkpoint, OpWent
<1>8. /\ clock' = clock /\ lease' = lease /\ asg' = asg /\ evidence' = evidence
      /\ target' = target /\ assigned' = assigned /\ role' = role /\ crashes' = crashes
      /\ fails' = fails
  BY DEF Checkpoint, files
<1>9. TypeOK'
  BY <1>1, <1>2, <1>3, <1>4, <1>5, <1>6, <1>7, <1>8, Assumed
     DEF IInv, TypeOK, Went, Left, RoleWent, OpWent, AsgWent, EvidenceWent, EvidenceGone
<1>10. Elsewhere(r) /\ Counted
  BY <1>2, <1>3, <1>4, <1>5, <1>6, <1>7, <1>8
     DEF IInv, TypeOK, Went, Left, RoleWent, OpWent, AsgWent, EvidenceWent, EvidenceGone,
         Elsewhere, Counted, Instants, Clock, Never
<1>11. Sound(r)'
  <2>1. Started(r)'
    BY <1>1, <1>2, <1>3, <1>4, <1>5, <1>6, <1>7, <1>8, Assumed
       DEF Started, Committing, Cleaning, Done, LastStep, Phases, Untouched, Prepared, Dated,
           Landed, Working, Untouched, Prepared, Tried, Landed, Landing, Went, Left, RoleWent,
           OpWent, AsgWent, EvidenceWent, EvidenceGone, Clock
  <2>2. Roled(r)'
    BY <1>1, <1>2, <1>3, <1>4, <1>5, <1>6, <1>7, <1>8, Assumed
       DEF Roled, Working, Untouched, Tried, Landed, Went, Left, RoleWent, OpWent, AsgWent,
           EvidenceWent, EvidenceGone, Clock
  <2>3. Committing(r)'
    BY <1>1, <1>2, <1>3, <1>4, <1>5, <1>6, <1>7, <1>8, Assumed
       DEF Committing, Started, Cleaning, Done, LastStep, Phases, Untouched, Prepared, Dated,
           Landed, Prepared, Dated, Landed, Went, Left, RoleWent, OpWent, AsgWent, EvidenceWent,
           EvidenceGone, Clock
  <2>4. Cleaning(r)'
    BY <1>1, <1>2, <1>3, <1>4, <1>5, <1>6, <1>7, <1>8, Assumed
       DEF Cleaning, Started, Committing, Done, LastStep, Phases, Untouched, Prepared, Dated,
           Landed, Untouched, Prepared, Went, Left, RoleWent, OpWent, AsgWent, EvidenceWent,
           EvidenceGone, Clock
  <2>5. Settled(r)'
    BY <1>1, <1>2, <1>3, <1>4, <1>5, <1>6, <1>7, <1>8, Assumed
       DEF Settled, Untouched, Dated, Landed, Went, Left, RoleWent, OpWent, AsgWent,
           EvidenceWent, EvidenceGone, Clock
  <2>6. Commanded(r)'
    BY <1>1, <1>2, <1>3, <1>4, <1>5, <1>6, <1>7, <1>8, Assumed
       DEF Commanded, Started, Committing, Cleaning, Done, LastStep, Phases, Untouched,
           Prepared, Dated, Landed, Done, Working, Untouched, Prepared, Dated, Landed, Landing,
           LastStep, Went, Left, RoleWent, OpWent, AsgWent, EvidenceWent, EvidenceGone, Clock
  <2> QED
    BY <2>1, <2>2, <2>3, <2>4, <2>5, <2>6 DEF Sound
<1> QED
  BY <1>9, <1>10, <1>11, Others DEF IInv

\* A phase ends when all it had to do is done.
LEMMA AdvanceStep ==
    ASSUME IInv, NEW r \in Runs, Advance(r)
    PROVE  IInv'
<1>1. /\ op[r] # Nothing /\ op[r].phase \in Phases /\ op[r].step \in -1..2
      /\ op[r].step = LastStep(op[r].phase) /\ cmd[r].account \in Accounts
      /\ (asg[r] # Nothing => cmd[r].account = asg[r].account) /\ Started(r) /\ Committing(r)
      /\ Cleaning(r) /\ role[r] = Nothing /\ cmd[r].pc = "next"
  BY Fields DEF IInv, Advance, Sound, Commanded, Roled, LastStep, Phases
<1>2. \/ /\ op[r].phase = "start" /\ cmd' = cmd
         /\ op' = [op EXCEPT ![r] = [@ EXCEPT !.phase = "postcommit", !.step = -1]]
      \/ op[r].phase # "start" /\ op' = [op EXCEPT ![r] = Nothing] /\ Left(r)
  BY Failing DEF IInv, Advance
<1>3. op[r].phase = "start" =>
          /\ op[r] \in Operations
          /\ op'[r] = [op[r] EXCEPT !.phase = "postcommit", !.step = -1]
  BY <1>1, <1>2 DEF IInv, TypeOK
<1>4. -1 \in -1..2 /\ "postcommit" \in Phases
  BY DEF Phases
<1>5. op[r].phase = "start" => op'[r].phase = "postcommit" /\ op'[r].step = -1
  BY <1>3 DEF Operations
<1>6. op[r].phase = "start" => op'[r] \in Operations
  BY <1>3, <1>4 DEF Operations
<1>7. \/ op[r].phase = "start" /\ OpWent(r, "postcommit", -1) /\ cmd' = cmd
      \/ /\ op[r].phase # "start" /\ Left(r) /\ op' \in [Runs -> Operations \cup {Nothing}]
         /\ op'[r] = Nothing /\ \A s \in Runs : s # r => op'[s] = op[s]
  BY <1>2, <1>5, <1>6, Assumed DEF IInv, TypeOK, OpWent
<1>8. /\ clock' = clock /\ lease' = lease /\ asg' = asg /\ evidence' = evidence
      /\ target' = target /\ assigned' = assigned /\ role' = role /\ crashes' = crashes
      /\ fails' = fails
  BY DEF Advance, files
<1>9. TypeOK'
  BY <1>1, <1>2, <1>3, <1>4, <1>5, <1>6, <1>7, <1>8, Assumed
     DEF IInv, TypeOK, Went, Left, RoleWent, OpWent, AsgWent, EvidenceWent, EvidenceGone
<1>10. Elsewhere(r) /\ Counted
  BY <1>2, <1>3, <1>4, <1>5, <1>6, <1>7, <1>8
     DEF IInv, TypeOK, Went, Left, RoleWent, OpWent, AsgWent, EvidenceWent, EvidenceGone,
         Elsewhere, Counted, Instants, Clock, Never
<1>11. Sound(r)'
  <2>1. Started(r)'
    BY <1>1, <1>2, <1>3, <1>4, <1>5, <1>6, <1>7, <1>8, Assumed
       DEF Started, Working, Untouched, Prepared, Tried, Landed, Landing, Went, Left, RoleWent,
           OpWent, AsgWent, EvidenceWent, EvidenceGone, Clock
  <2>2. Roled(r)'
    BY <1>1, <1>2, <1>3, <1>4, <1>5, <1>6, <1>7, <1>8, Assumed
       DEF Roled, Working, Untouched, Tried, Landed, Went, Left, RoleWent, OpWent, AsgWent,
           EvidenceWent, EvidenceGone, Clock
  <2>3. Committing(r)'
    BY <1>1, <1>2, <1>3, <1>4, <1>5, <1>6, <1>7, <1>8, Assumed
       DEF Committing, Started, Cleaning, LastStep, Phases, Prepared, Dated, Landed, Went, Left,
           RoleWent, OpWent, AsgWent, EvidenceWent, EvidenceGone, Clock
  <2>4. Cleaning(r)'
    BY <1>1, <1>2, <1>3, <1>4, <1>5, <1>6, <1>7, <1>8, Assumed
       DEF Cleaning, Untouched, Prepared, Went, Left, RoleWent, OpWent, AsgWent, EvidenceWent,
           EvidenceGone, Clock
  <2>5. Settled(r)'
    BY <1>1, <1>2, <1>3, <1>4, <1>5, <1>6, <1>7, <1>8, Assumed
       DEF Settled, Started, Committing, Cleaning, LastStep, Phases, Untouched, Dated, Landed,
           Went, Left, RoleWent, OpWent, AsgWent, EvidenceWent, EvidenceGone, Clock
  <2>6. Commanded(r)'
    BY <1>1, <1>2, <1>3, <1>4, <1>5, <1>6, <1>7, <1>8, Assumed
       DEF Commanded, Done, Working, Untouched, Prepared, Dated, Landed, Landing, LastStep,
           Went, Left, RoleWent, OpWent, AsgWent, EvidenceWent, EvidenceGone, Clock
  <2> QED
    BY <2>1, <2>2, <2>3, <2>4, <2>5, <2>6 DEF Sound
<1> QED
  BY <1>9, <1>10, <1>11, Others DEF IInv

\* An operation is accepted where nothing is bound.
LEMMA FreshStep ==
    ASSUME IInv, NEW r \in Runs, Fresh(r)
    PROVE  IInv'
<1>1. op[r] = Nothing /\ asg[r] = Nothing /\ Untouched(r) /\ role[r] = Nothing
  BY DEF IInv, Fresh, Sound, Settled, Roled
<1>2. -1 \in -1..2 /\ "start" \in Phases /\ clock \in Clock
  BY DEF IInv, TypeOK, Phases
<1>3. op'[r] = [phase |-> "start", step |-> -1, accepted |-> clock] /\ op'[r] \in Operations
  BY <1>2 DEF IInv, TypeOK, Fresh, Operations
<1>4. OpWent(r, "start", -1)
  BY <1>3, Assumed DEF IInv, TypeOK, Fresh, OpWent
<1>5. /\ cmd' \in [Runs -> Commands] /\ \A s \in Runs : s # r => cmd'[s] = cmd[s]
      /\ cmd'[r].pc = "next" /\ cmd'[r].account \in Accounts
  BY DEF IInv, TypeOK, Fresh, Eligible, Commands, Pcs
<1>6. /\ clock' = clock /\ lease' = lease /\ asg' = asg /\ evidence' = evidence
      /\ target' = target /\ assigned' = assigned /\ role' = role /\ crashes' = crashes
      /\ fails' = fails
  BY DEF Fresh, files
<1>7. TypeOK'
  BY <1>1, <1>2, <1>3, <1>4, <1>5, <1>6, Assumed
     DEF IInv, TypeOK, Went, Left, RoleWent, OpWent, AsgWent, EvidenceWent, EvidenceGone
<1>8. Elsewhere(r) /\ Counted
  BY <1>2, <1>3, <1>4, <1>5, <1>6
     DEF IInv, TypeOK, Went, Left, RoleWent, OpWent, AsgWent, EvidenceWent, EvidenceGone,
         Elsewhere, Counted, Instants, Clock, Never
<1>9. Sound(r)'
  <2>1. Started(r)'
    BY <1>1, <1>2, <1>3, <1>4, <1>5, <1>6, Assumed
       DEF Started, Working, Untouched, Prepared, Tried, Landed, Landing, Went, Left, RoleWent,
           OpWent, AsgWent, EvidenceWent, EvidenceGone, Clock
  <2>2. Roled(r)'
    BY <1>1, <1>2, <1>3, <1>4, <1>5, <1>6, Assumed
       DEF Roled, Working, Untouched, Tried, Landed, Went, Left, RoleWent, OpWent, AsgWent,
           EvidenceWent, EvidenceGone, Clock
  <2>3. Committing(r)'
    BY <1>1, <1>2, <1>3, <1>4, <1>5, <1>6, Assumed
       DEF Committing, Prepared, Dated, Landed, Went, Left, RoleWent, OpWent, AsgWent,
           EvidenceWent, EvidenceGone, Clock
  <2>4. Cleaning(r)'
    BY <1>1, <1>2, <1>3, <1>4, <1>5, <1>6, Assumed
       DEF Cleaning, Untouched, Prepared, Went, Left, RoleWent, OpWent, AsgWent, EvidenceWent,
           EvidenceGone, Clock
  <2>5. Settled(r)'
    BY <1>1, <1>2, <1>3, <1>4, <1>5, <1>6, Assumed
       DEF Settled, Untouched, Dated, Landed, Went, Left, RoleWent, OpWent, AsgWent,
           EvidenceWent, EvidenceGone, Clock
  <2>6. Commanded(r)'
    BY <1>1, <1>2, <1>3, <1>4, <1>5, <1>6, Assumed
       DEF Commanded, Done, Working, Untouched, Prepared, Dated, Landed, Landing, LastStep,
           Went, Left, RoleWent, OpWent, AsgWent, EvidenceWent, EvidenceGone, Clock
  <2> QED
    BY <2>1, <2>2, <2>3, <2>4, <2>5, <2>6 DEF Sound
<1> QED
  BY <1>7, <1>8, <1>9, Others DEF IInv

\* A resumed command goes on with the account that is bound.
LEMMA ResumeStep ==
    ASSUME IInv, NEW r \in Runs, Resume(r)
    PROVE  IInv'
<1>1. /\ op[r] # Nothing /\ Started(r) /\ Committing(r) /\ Cleaning(r) /\ Roled(r)
      /\ op[r].phase \in Phases
  BY Fields DEF IInv, Resume, Sound
<1>2. Recovered(r) \subseteq Accounts /\ (asg[r] # Nothing => Recovered(r) = {asg[r].account})
  BY Fields DEF IInv, Recovered, Eligible, Retained
<1>3. PICK a \in Recovered(r) :
         cmd' = [cmd EXCEPT ![r] = [pc |-> "next", account |-> a, recovering |-> asg[r] # Nothing]]
  BY DEF Resume
<1>4. cmd'[r] = [pc |-> "next", account |-> a, recovering |-> asg[r] # Nothing]
      /\ \A s \in Runs : s # r => cmd'[s] = cmd[s]
  BY <1>3 DEF IInv, TypeOK
<1>5. cmd'[r].pc = "next" /\ cmd'[r].account = a
  BY <1>4
<1>6. cmd'[r].recovering = (asg[r] # Nothing)
  BY <1>4
<1>7. asg[r] # Nothing => cmd'[r].recovering
  BY <1>6, Zenon
<1>8. cmd' \in [Runs -> Commands]
  BY <1>2, <1>3 DEF IInv, TypeOK, Commands, Pcs
<1>9. /\ clock' = clock /\ lease' = lease /\ asg' = asg /\ evidence' = evidence
      /\ target' = target /\ assigned' = assigned /\ op' = op /\ role' = role
      /\ crashes' = crashes /\ fails' = fails
  BY DEF Resume, files
<1>10. TypeOK'
  BY <1>1, <1>2, <1>3, <1>4, <1>5, <1>6, <1>7, <1>8, <1>9, Assumed
     DEF IInv, TypeOK, Went, Left, RoleWent, OpWent, AsgWent, EvidenceWent, EvidenceGone
<1>11. Elsewhere(r) /\ Counted
  BY <1>2, <1>3, <1>4, <1>5, <1>6, <1>7, <1>8, <1>9
     DEF IInv, TypeOK, Went, Left, RoleWent, OpWent, AsgWent, EvidenceWent, EvidenceGone,
         Elsewhere, Counted, Instants, Clock, Never
<1>12. Sound(r)'
  <2>1. Started(r)'
    BY <1>1, <1>2, <1>3, <1>4, <1>5, <1>6, <1>7, <1>8, <1>9, Assumed
       DEF Started, Working, Untouched, Prepared, Tried, Landed, Landing, Went, Left, RoleWent,
           OpWent, AsgWent, EvidenceWent, EvidenceGone, Clock
  <2>2. Roled(r)'
    BY <1>1, <1>2, <1>3, <1>4, <1>5, <1>6, <1>7, <1>8, <1>9, Assumed
       DEF Roled, Started, Prepared, Working, Untouched, Tried, Landed, Went, Left, RoleWent,
           OpWent, AsgWent, EvidenceWent, EvidenceGone, Clock
  <2>3. Committing(r)'
    BY <1>1, <1>2, <1>3, <1>4, <1>5, <1>6, <1>7, <1>8, <1>9, Assumed
       DEF Committing, Prepared, Dated, Landed, Went, Left, RoleWent, OpWent, AsgWent,
           EvidenceWent, EvidenceGone, Clock
  <2>4. Cleaning(r)'
    BY <1>1, <1>2, <1>3, <1>4, <1>5, <1>6, <1>7, <1>8, <1>9, Assumed
       DEF Cleaning, Untouched, Prepared, Went, Left, RoleWent, OpWent, AsgWent, EvidenceWent,
           EvidenceGone, Clock
  <2>5. Settled(r)'
    BY <1>1, <1>2, <1>3, <1>4, <1>5, <1>6, <1>7, <1>8, <1>9, Assumed
       DEF Settled, Untouched, Dated, Landed, Went, Left, RoleWent, OpWent, AsgWent,
           EvidenceWent, EvidenceGone, Clock
  <2>6. Commanded(r)'
    BY <1>1, <1>2, <1>3, <1>4, <1>5, <1>6, <1>7, <1>8, <1>9, Assumed
       DEF Commanded, Started, Roled, Done, Working, Untouched, Prepared, Dated, Landed,
           Landing, LastStep, Went, Left, RoleWent, OpWent, AsgWent, EvidenceWent, EvidenceGone,
           Clock
  <2> QED
    BY <2>1, <2>2, <2>3, <2>4, <2>5, <2>6 DEF Sound
<1> QED
  BY <1>10, <1>11, <1>12, Others DEF IInv

\* A command that dies leaves its files as they are.
LEMMA CrashStep ==
    ASSUME IInv, NEW r \in Runs, Crash(r)
    PROVE  IInv'
<1>1. Started(r) /\ Committing(r) /\ Cleaning(r) /\ Settled(r) /\ Roled(r)
  BY DEF IInv, Sound
<1>2. Left(r)
  BY Failing DEF IInv, Crash
<1>3. crashes' \in 0..MaxCrash
  BY Assumed DEF IInv, TypeOK, Crash
<1>4. /\ clock' = clock /\ lease' = lease /\ asg' = asg /\ evidence' = evidence
      /\ target' = target /\ assigned' = assigned /\ op' = op /\ role' = role /\ fails' = fails
  BY DEF Crash, files
<1>5. TypeOK'
  BY <1>1, <1>2, <1>3, <1>4, Assumed
     DEF IInv, TypeOK, Went, Left, RoleWent, OpWent, AsgWent, EvidenceWent, EvidenceGone
<1>6. Elsewhere(r) /\ Counted
  BY <1>2, <1>3, <1>4
     DEF IInv, TypeOK, Went, Left, RoleWent, OpWent, AsgWent, EvidenceWent, EvidenceGone,
         Elsewhere, Counted, Instants, Clock, Never
<1>7. Sound(r)'
  <2>1. Started(r)'
    BY <1>1, <1>2, <1>3, <1>4, Assumed
       DEF Started, Working, Untouched, Prepared, Tried, Landed, Landing, Went, Left, RoleWent,
           OpWent, AsgWent, EvidenceWent, EvidenceGone, Clock
  <2>2. Roled(r)'
    BY <1>1, <1>2, <1>3, <1>4, Assumed
       DEF Roled, Working, Untouched, Tried, Landed, Went, Left, RoleWent, OpWent, AsgWent,
           EvidenceWent, EvidenceGone, Clock
  <2>3. Committing(r)'
    BY <1>1, <1>2, <1>3, <1>4, Assumed
       DEF Committing, Prepared, Dated, Landed, Went, Left, RoleWent, OpWent, AsgWent,
           EvidenceWent, EvidenceGone, Clock
  <2>4. Cleaning(r)'
    BY <1>1, <1>2, <1>3, <1>4, Assumed
       DEF Cleaning, Untouched, Prepared, Went, Left, RoleWent, OpWent, AsgWent, EvidenceWent,
           EvidenceGone, Clock
  <2>5. Settled(r)'
    BY <1>1, <1>2, <1>3, <1>4, Assumed
       DEF Settled, Untouched, Dated, Landed, Went, Left, RoleWent, OpWent, AsgWent,
           EvidenceWent, EvidenceGone, Clock
  <2>6. Commanded(r)'
    BY <1>1, <1>2, <1>3, <1>4, Assumed
       DEF Commanded, Done, Working, Untouched, Prepared, Dated, Landed, Landing, LastStep,
           Went, Left, RoleWent, OpWent, AsgWent, EvidenceWent, EvidenceGone, Clock
  <2> QED
    BY <2>1, <2>2, <2>3, <2>4, <2>5, <2>6 DEF Sound
<1> QED
  BY <1>5, <1>6, <1>7, Others DEF IInv

\* A role that dies leaves its evidence.
LEMMA RoleDiesStep ==
    ASSUME IInv, NEW r \in Runs, RoleDies(r)
    PROVE  IInv'
<1>1. /\ op[r] # Nothing /\ op[r].phase = "start" /\ op[r].step = 1 /\ Prepared(r)
      /\ role[r] # Nothing /\ Working(r) /\ cmd[r].pc \in {"idle", "next", "wait"}
      /\ (cmd[r].pc = "next" => cmd[r].recovering)
      /\ (cmd[r].pc # "idle" => cmd[r].account \in Accounts
                                /\ (asg[r] # Nothing => cmd[r].account = asg[r].account))
      /\ role[r].pc \in {"staging", "prepared", "armed", "replaced", "committed", "uncommitted"}
  BY Fields DEF IInv, RoleDies, RoleAt, Sound, Roled, Started, Commanded
<1>2. /\ role'[r] = Nothing /\ role' \in [Runs -> Roles \cup {Nothing}]
      /\ \A s \in Runs : s # r => role'[s] = role[s]
  BY DEF IInv, TypeOK, RoleDies
<1>3. \/ Left(r)
      \/ cmd' = cmd /\ cmd[r].pc # "wait"
  BY Failing DEF IInv, RoleDies
<1>4. fails' \in 0..MaxFail
  BY Assumed DEF IInv, TypeOK, RoleDies
<1>5. /\ clock' = clock /\ lease' = lease /\ asg' = asg /\ evidence' = evidence
      /\ target' = target /\ assigned' = assigned /\ op' = op /\ crashes' = crashes
  BY DEF RoleDies, files
<1>6. TypeOK'
  BY <1>1, <1>2, <1>3, <1>4, <1>5, Assumed
     DEF IInv, TypeOK, Went, Left, RoleWent, OpWent, AsgWent, EvidenceWent, EvidenceGone
<1>7. Elsewhere(r) /\ Counted
  BY <1>2, <1>3, <1>4, <1>5
     DEF IInv, TypeOK, Went, Left, RoleWent, OpWent, AsgWent, EvidenceWent, EvidenceGone,
         Elsewhere, Counted, Instants, Clock, Never
<1>8. Sound(r)'
  <2>1. Started(r)'
    BY <1>1, <1>2, <1>3, <1>4, <1>5, Assumed
       DEF Started, Working, Untouched, Prepared, Tried, Landed, Landing, Went, Left, RoleWent,
           OpWent, AsgWent, EvidenceWent, EvidenceGone, Clock
  <2>2. Roled(r)'
    BY <1>1, <1>2, <1>3, <1>4, <1>5, Assumed
       DEF Roled, Working, Untouched, Tried, Landed, Went, Left, RoleWent, OpWent, AsgWent,
           EvidenceWent, EvidenceGone, Clock
  <2>3. Committing(r)'
    BY <1>1, <1>2, <1>3, <1>4, <1>5, Assumed
       DEF Committing, Prepared, Dated, Landed, Went, Left, RoleWent, OpWent, AsgWent,
           EvidenceWent, EvidenceGone, Clock
  <2>4. Cleaning(r)'
    BY <1>1, <1>2, <1>3, <1>4, <1>5, Assumed
       DEF Cleaning, Untouched, Prepared, Went, Left, RoleWent, OpWent, AsgWent, EvidenceWent,
           EvidenceGone, Clock
  <2>5. Settled(r)'
    BY <1>1, <1>2, <1>3, <1>4, <1>5, Assumed
       DEF Settled, Untouched, Dated, Landed, Went, Left, RoleWent, OpWent, AsgWent,
           EvidenceWent, EvidenceGone, Clock
  <2>6. Commanded(r)'
    BY <1>1, <1>2, <1>3, <1>4, <1>5, Assumed
       DEF Commanded, Done, Working, Untouched, Prepared, Dated, Landed, Landing, LastStep,
           Went, Left, RoleWent, OpWent, AsgWent, EvidenceWent, EvidenceGone, Clock
  <2> QED
    BY <2>1, <2>2, <2>3, <2>4, <2>5, <2>6 DEF Sound
<1> QED
  BY <1>6, <1>7, <1>8, Others DEF IInv

\* A role that is done leaves its evidence.
LEMMA RoleExitsStep ==
    ASSUME IInv, NEW r \in Runs, RoleExits(r)
    PROVE  IInv'
<1>1. /\ op[r] # Nothing /\ op[r].phase = "start" /\ op[r].step = 1 /\ Prepared(r)
      /\ role[r] # Nothing /\ Working(r) /\ cmd[r].pc \in {"idle", "next", "wait"}
      /\ (cmd[r].pc = "next" => cmd[r].recovering)
      /\ (cmd[r].pc # "idle" => cmd[r].account \in Accounts
                                /\ (asg[r] # Nothing => cmd[r].account = asg[r].account))
      /\ role[r].pc \in {"staging", "prepared", "armed", "replaced", "committed", "uncommitted"}
      /\ cmd[r].pc # "wait" /\ role[r].pc \in {"committed", "uncommitted"}
  BY Fields DEF IInv, RoleExits, RoleAt, Sound, Roled, Started, Commanded
<1>2. /\ role'[r] = Nothing /\ role' \in [Runs -> Roles \cup {Nothing}]
      /\ \A s \in Runs : s # r => role'[s] = role[s]
  BY DEF IInv, TypeOK, RoleExits
<1>3. /\ clock' = clock /\ lease' = lease /\ asg' = asg /\ evidence' = evidence
      /\ target' = target /\ assigned' = assigned /\ op' = op /\ cmd' = cmd
      /\ crashes' = crashes /\ fails' = fails
  BY DEF RoleExits, files
<1>4. TypeOK'
  BY <1>1, <1>2, <1>3, Assumed
     DEF IInv, TypeOK, Went, Left, RoleWent, OpWent, AsgWent, EvidenceWent, EvidenceGone
<1>5. Elsewhere(r) /\ Counted
  BY <1>2, <1>3
     DEF IInv, TypeOK, Went, Left, RoleWent, OpWent, AsgWent, EvidenceWent, EvidenceGone,
         Elsewhere, Counted, Instants, Clock, Never
<1>6. Sound(r)'
  <2>1. Started(r)'
    BY <1>1, <1>2, <1>3, Assumed
       DEF Started, Working, Untouched, Prepared, Tried, Landed, Landing, Went, Left, RoleWent,
           OpWent, AsgWent, EvidenceWent, EvidenceGone, Clock
  <2>2. Roled(r)'
    BY <1>1, <1>2, <1>3, Assumed
       DEF Roled, Working, Untouched, Tried, Landed, Went, Left, RoleWent, OpWent, AsgWent,
           EvidenceWent, EvidenceGone, Clock
  <2>3. Committing(r)'
    BY <1>1, <1>2, <1>3, Assumed
       DEF Committing, Prepared, Dated, Landed, Went, Left, RoleWent, OpWent, AsgWent,
           EvidenceWent, EvidenceGone, Clock
  <2>4. Cleaning(r)'
    BY <1>1, <1>2, <1>3, Assumed
       DEF Cleaning, Untouched, Prepared, Went, Left, RoleWent, OpWent, AsgWent, EvidenceWent,
           EvidenceGone, Clock
  <2>5. Settled(r)'
    BY <1>1, <1>2, <1>3, Assumed
       DEF Settled, Untouched, Dated, Landed, Went, Left, RoleWent, OpWent, AsgWent,
           EvidenceWent, EvidenceGone, Clock
  <2>6. Commanded(r)'
    BY <1>1, <1>2, <1>3, Assumed
       DEF Commanded, Done, Working, Untouched, Prepared, Dated, Landed, Landing, LastStep,
           Went, Left, RoleWent, OpWent, AsgWent, EvidenceWent, EvidenceGone, Clock
  <2> QED
    BY <2>1, <2>2, <2>3, <2>4, <2>5, <2>6 DEF Sound
<1> QED
  BY <1>4, <1>5, <1>6, Others DEF IInv

\* The attempt is recorded for the account of the assignment.
LEMMA RoleStagesStep ==
    ASSUME IInv, NEW r \in Runs, RoleStages(r)
    PROVE  IInv'
<1>1. /\ op[r] # Nothing /\ op[r].phase = "start" /\ op[r].step = 1 /\ Prepared(r)
      /\ role[r] # Nothing /\ Working(r) /\ cmd[r].pc \in {"idle", "next", "wait"}
      /\ (cmd[r].pc = "next" => cmd[r].recovering)
      /\ (cmd[r].pc # "idle" => cmd[r].account \in Accounts
                                /\ (asg[r] # Nothing => cmd[r].account = asg[r].account))
      /\ role[r].pc \in {"staging", "prepared", "armed", "replaced", "committed", "uncommitted"}
      /\ role[r].pc = "staging"
  BY Fields DEF IInv, RoleStages, RoleAt, Sound, Roled, Started, Commanded
<1>2. asg[r].account \in Accounts /\ -1 \in Instants
  BY <1>1, Fields DEF IInv, Prepared, Instants, Never
<1>3. \/ /\ RoleWent(r, "prepared") /\ fails' = fails
         /\ evidence' = [evidence EXCEPT ![r] =
                            [status |-> "prepared", account |-> asg[r].account, at |-> -1]]
      \/ RoleWent(r, "uncommitted") /\ evidence' = evidence /\ fails' \in 0..MaxFail
  BY <1>1, RoleGoing, Assumed DEF IInv, TypeOK, RoleStages, Working, Never
<1>4. [status |-> "prepared", account |-> asg[r].account, at |-> -1] \in Evidence
  BY <1>2 DEF Evidence
<1>5. \/ /\ RoleWent(r, "prepared") /\ EvidenceWent(r, "prepared", -1)
         /\ evidence'[r].account = asg[r].account /\ fails' = fails
      \/ RoleWent(r, "uncommitted") /\ evidence' = evidence /\ fails' \in 0..MaxFail
  BY <1>3, <1>4, Assumed DEF IInv, TypeOK, EvidenceWent
<1>6. /\ clock' = clock /\ lease' = lease /\ asg' = asg /\ target' = target
      /\ assigned' = assigned /\ op' = op /\ cmd' = cmd /\ crashes' = crashes
  BY DEF RoleStages, files
<1>7. TypeOK'
  BY <1>1, <1>2, <1>3, <1>4, <1>5, <1>6, Assumed
     DEF IInv, TypeOK, Went, Left, RoleWent, OpWent, AsgWent, EvidenceWent, EvidenceGone
<1>8. Elsewhere(r) /\ Counted
  BY <1>2, <1>3, <1>4, <1>5, <1>6
     DEF IInv, TypeOK, Went, Left, RoleWent, OpWent, AsgWent, EvidenceWent, EvidenceGone,
         Elsewhere, Counted, Instants, Clock, Never
<1>9. Sound(r)'
  <2>1. Started(r)'
    BY <1>1, <1>2, <1>3, <1>4, <1>5, <1>6, Assumed
       DEF Started, Working, Untouched, Prepared, Tried, Landed, Landing, Went, Left, RoleWent,
           OpWent, AsgWent, EvidenceWent, EvidenceGone, Clock
  <2>2. Roled(r)'
    BY <1>1, <1>2, <1>3, <1>4, <1>5, <1>6, Assumed
       DEF Roled, Working, Untouched, Tried, Landed, Went, Left, RoleWent, OpWent, AsgWent,
           EvidenceWent, EvidenceGone, Clock
  <2>3. Committing(r)'
    BY <1>1, <1>2, <1>3, <1>4, <1>5, <1>6, Assumed
       DEF Committing, Prepared, Dated, Landed, Went, Left, RoleWent, OpWent, AsgWent,
           EvidenceWent, EvidenceGone, Clock
  <2>4. Cleaning(r)'
    BY <1>1, <1>2, <1>3, <1>4, <1>5, <1>6, Assumed
       DEF Cleaning, Untouched, Prepared, Went, Left, RoleWent, OpWent, AsgWent, EvidenceWent,
           EvidenceGone, Clock
  <2>5. Settled(r)'
    BY <1>1, <1>2, <1>3, <1>4, <1>5, <1>6, Assumed
       DEF Settled, Untouched, Dated, Landed, Went, Left, RoleWent, OpWent, AsgWent,
           EvidenceWent, EvidenceGone, Clock
  <2>6. Commanded(r)'
    BY <1>1, <1>2, <1>3, <1>4, <1>5, <1>6, Assumed
       DEF Commanded, Done, Working, Untouched, Prepared, Dated, Landed, Landing, LastStep,
           Went, Left, RoleWent, OpWent, AsgWent, EvidenceWent, EvidenceGone, Clock
  <2> QED
    BY <2>1, <2>2, <2>3, <2>4, <2>5, <2>6 DEF Sound
<1> QED
  BY <1>7, <1>8, <1>9, Others DEF IInv

\* The write is armed within the lease of the assignment.
LEMMA RoleArmsStep ==
    ASSUME IInv, NEW r \in Runs, RoleArms(r)
    PROVE  IInv'
<1>1. /\ op[r] # Nothing /\ op[r].phase = "start" /\ op[r].step = 1 /\ Prepared(r)
      /\ role[r] # Nothing /\ Working(r) /\ cmd[r].pc \in {"idle", "next", "wait"}
      /\ (cmd[r].pc = "next" => cmd[r].recovering)
      /\ (cmd[r].pc # "idle" => cmd[r].account \in Accounts
                                /\ (asg[r] # Nothing => cmd[r].account = asg[r].account))
      /\ role[r].pc \in {"staging", "prepared", "armed", "replaced", "committed", "uncommitted"}
      /\ role[r].pc = "prepared"
  BY Fields DEF IInv, RoleArms, RoleAt, Sound, Roled, Started, Commanded
<1>2. clock \in Clock /\ clock \in Instants
  BY DEF IInv, TypeOK, Instants
<1>3. \/ /\ RoleWent(r, "armed") /\ clock < asg[r].until /\ fails' = fails
         /\ evidence' = [evidence EXCEPT ![r] = [@ EXCEPT !.status = "armed", !.at = clock]]
      \/ /\ RoleWent(r, "uncommitted") /\ fails' \in 0..MaxFail
         /\ evidence' = [evidence EXCEPT ![r] = Nothing]
  BY <1>1, RoleGoing, Assumed DEF IInv, TypeOK, RoleArms, Working, InLease
<1>4. \/ /\ RoleWent(r, "armed") /\ clock < asg[r].until /\ EvidenceWent(r, "armed", clock)
         /\ evidence'[r].account = evidence[r].account /\ fails' = fails
      \/ RoleWent(r, "uncommitted") /\ EvidenceGone(r) /\ fails' \in 0..MaxFail
  BY <1>1, <1>2, <1>3, EvidenceGoing DEF IInv, TypeOK, EvidenceGone, Working, Tried
<1>5. /\ clock' = clock /\ lease' = lease /\ asg' = asg /\ target' = target
      /\ assigned' = assigned /\ op' = op /\ cmd' = cmd /\ crashes' = crashes
  BY DEF RoleArms, files
<1>6. TypeOK'
  BY <1>1, <1>2, <1>3, <1>4, <1>5, Assumed
     DEF IInv, TypeOK, Went, Left, RoleWent, OpWent, AsgWent, EvidenceWent, EvidenceGone
<1>7. Elsewhere(r) /\ Counted
  BY <1>2, <1>3, <1>4, <1>5
     DEF IInv, TypeOK, Went, Left, RoleWent, OpWent, AsgWent, EvidenceWent, EvidenceGone,
         Elsewhere, Counted, Instants, Clock, Never
<1>8. Sound(r)'
  <2>1. Started(r)'
    BY <1>1, <1>2, <1>3, <1>4, <1>5, Assumed
       DEF Started, Working, Untouched, Prepared, Tried, Landed, Landing, Went, Left, RoleWent,
           OpWent, AsgWent, EvidenceWent, EvidenceGone, Clock
  <2>2. Roled(r)'
    BY <1>1, <1>2, <1>3, <1>4, <1>5, Assumed
       DEF Roled, Working, Untouched, Tried, Landed, Went, Left, RoleWent, OpWent, AsgWent,
           EvidenceWent, EvidenceGone, Clock
  <2>3. Committing(r)'
    BY <1>1, <1>2, <1>3, <1>4, <1>5, Assumed
       DEF Committing, Prepared, Dated, Landed, Went, Left, RoleWent, OpWent, AsgWent,
           EvidenceWent, EvidenceGone, Clock
  <2>4. Cleaning(r)'
    BY <1>1, <1>2, <1>3, <1>4, <1>5, Assumed
       DEF Cleaning, Untouched, Prepared, Went, Left, RoleWent, OpWent, AsgWent, EvidenceWent,
           EvidenceGone, Clock
  <2>5. Settled(r)'
    BY <1>1, <1>2, <1>3, <1>4, <1>5, Assumed
       DEF Settled, Untouched, Dated, Landed, Went, Left, RoleWent, OpWent, AsgWent,
           EvidenceWent, EvidenceGone, Clock
  <2>6. Commanded(r)'
    BY <1>1, <1>2, <1>3, <1>4, <1>5, Assumed
       DEF Commanded, Done, Working, Untouched, Prepared, Dated, Landed, Landing, LastStep,
           Went, Left, RoleWent, OpWent, AsgWent, EvidenceWent, EvidenceGone, Clock
  <2> QED
    BY <2>1, <2>2, <2>3, <2>4, <2>5, <2>6 DEF Sound
<1> QED
  BY <1>6, <1>7, <1>8, Others DEF IInv

\* The role writes the credential of the assignment.
LEMMA RoleReplacesStep ==
    ASSUME IInv, NEW r \in Runs, RoleReplaces(r)
    PROVE  IInv'
<1>1. /\ op[r] # Nothing /\ op[r].phase = "start" /\ op[r].step = 1 /\ Prepared(r)
      /\ role[r] # Nothing /\ Working(r) /\ cmd[r].pc \in {"idle", "next", "wait"}
      /\ (cmd[r].pc = "next" => cmd[r].recovering)
      /\ (cmd[r].pc # "idle" => cmd[r].account \in Accounts
                                /\ (asg[r] # Nothing => cmd[r].account = asg[r].account))
      /\ role[r].pc \in {"staging", "prepared", "armed", "replaced", "committed", "uncommitted"}
      /\ role[r].pc = "armed"
  BY Fields DEF IInv, RoleReplaces, RoleAt, Sound, Roled, Started, Commanded
<1>2. RoleWent(r, "replaced")
  BY <1>1, RoleGoing DEF IInv, RoleReplaces
<1>3. asg[r].account \in Accounts
  BY <1>1, Fields DEF IInv, Prepared
<1>4. /\ target' \in [Runs -> Accounts \cup {Nothing}] /\ target'[r] = asg[r].account
      /\ \A s \in Runs : s # r => target'[s] = target[s]
  BY <1>1, <1>3 DEF IInv, TypeOK, RoleReplaces, Working
<1>5. /\ clock' = clock /\ lease' = lease /\ asg' = asg /\ evidence' = evidence
      /\ assigned' = assigned /\ op' = op /\ cmd' = cmd /\ crashes' = crashes /\ fails' = fails
  BY DEF RoleReplaces, files
<1>6. TypeOK'
  BY <1>1, <1>2, <1>3, <1>4, <1>5, Assumed
     DEF IInv, TypeOK, Went, Left, RoleWent, OpWent, AsgWent, EvidenceWent, EvidenceGone
<1>7. Elsewhere(r) /\ Counted
  BY <1>2, <1>3, <1>4, <1>5
     DEF IInv, TypeOK, Went, Left, RoleWent, OpWent, AsgWent, EvidenceWent, EvidenceGone,
         Elsewhere, Counted, Instants, Clock, Never
<1>8. Sound(r)'
  <2>1. Started(r)'
    BY <1>1, <1>2, <1>3, <1>4, <1>5, Assumed
       DEF Started, Working, Untouched, Prepared, Tried, Landed, Landing, Went, Left, RoleWent,
           OpWent, AsgWent, EvidenceWent, EvidenceGone, Clock
  <2>2. Roled(r)'
    BY <1>1, <1>2, <1>3, <1>4, <1>5, Assumed
       DEF Roled, Working, Untouched, Tried, Landed, Went, Left, RoleWent, OpWent, AsgWent,
           EvidenceWent, EvidenceGone, Clock
  <2>3. Committing(r)'
    BY <1>1, <1>2, <1>3, <1>4, <1>5, Assumed
       DEF Committing, Prepared, Dated, Landed, Went, Left, RoleWent, OpWent, AsgWent,
           EvidenceWent, EvidenceGone, Clock
  <2>4. Cleaning(r)'
    BY <1>1, <1>2, <1>3, <1>4, <1>5, Assumed
       DEF Cleaning, Untouched, Prepared, Went, Left, RoleWent, OpWent, AsgWent, EvidenceWent,
           EvidenceGone, Clock
  <2>5. Settled(r)'
    BY <1>1, <1>2, <1>3, <1>4, <1>5, Assumed
       DEF Settled, Untouched, Dated, Landed, Went, Left, RoleWent, OpWent, AsgWent,
           EvidenceWent, EvidenceGone, Clock
  <2>6. Commanded(r)'
    BY <1>1, <1>2, <1>3, <1>4, <1>5, Assumed
       DEF Commanded, Done, Working, Untouched, Prepared, Dated, Landed, Landing, LastStep,
           Went, Left, RoleWent, OpWent, AsgWent, EvidenceWent, EvidenceGone, Clock
  <2> QED
    BY <2>1, <2>2, <2>3, <2>4, <2>5, <2>6 DEF Sound
<1> QED
  BY <1>6, <1>7, <1>8, Others DEF IInv

\* The role acknowledges what it wrote.
LEMMA RoleAcknowledgesStep ==
    ASSUME IInv, NEW r \in Runs, RoleAcknowledges(r)
    PROVE  IInv'
<1>1. /\ op[r] # Nothing /\ op[r].phase = "start" /\ op[r].step = 1 /\ Prepared(r)
      /\ role[r] # Nothing /\ Working(r) /\ cmd[r].pc \in {"idle", "next", "wait"}
      /\ (cmd[r].pc = "next" => cmd[r].recovering)
      /\ (cmd[r].pc # "idle" => cmd[r].account \in Accounts
                                /\ (asg[r] # Nothing => cmd[r].account = asg[r].account))
      /\ role[r].pc \in {"staging", "prepared", "armed", "replaced", "committed", "uncommitted"}
      /\ role[r].pc = "replaced"
  BY Fields DEF IInv, RoleAcknowledges, RoleAt, Sound, Roled, Started, Commanded
<1>2. RoleWent(r, "committed")
  BY <1>1, RoleGoing DEF IInv, RoleAcknowledges
<1>3. EvidenceWent(r, "committed", evidence[r].at) /\ evidence'[r].account = evidence[r].account
  BY <1>1, Fields, EvidenceGoing DEF IInv, RoleAcknowledges, Working, Tried
<1>4. /\ clock' = clock /\ lease' = lease /\ asg' = asg /\ target' = target
      /\ assigned' = assigned /\ op' = op /\ cmd' = cmd /\ crashes' = crashes /\ fails' = fails
  BY DEF RoleAcknowledges, files
<1>5. TypeOK'
  BY <1>1, <1>2, <1>3, <1>4, Assumed
     DEF IInv, TypeOK, Went, Left, RoleWent, OpWent, AsgWent, EvidenceWent, EvidenceGone
<1>6. Elsewhere(r) /\ Counted
  BY <1>2, <1>3, <1>4
     DEF IInv, TypeOK, Went, Left, RoleWent, OpWent, AsgWent, EvidenceWent, EvidenceGone,
         Elsewhere, Counted, Instants, Clock, Never
<1>7. Sound(r)'
  <2>1. Started(r)'
    BY <1>1, <1>2, <1>3, <1>4, Assumed
       DEF Started, Working, Untouched, Prepared, Tried, Landed, Landing, Went, Left, RoleWent,
           OpWent, AsgWent, EvidenceWent, EvidenceGone, Clock
  <2>2. Roled(r)'
    BY <1>1, <1>2, <1>3, <1>4, Assumed
       DEF Roled, Working, Untouched, Tried, Landed, Went, Left, RoleWent, OpWent, AsgWent,
           EvidenceWent, EvidenceGone, Clock
  <2>3. Committing(r)'
    BY <1>1, <1>2, <1>3, <1>4, Assumed
       DEF Committing, Prepared, Dated, Landed, Went, Left, RoleWent, OpWent, AsgWent,
           EvidenceWent, EvidenceGone, Clock
  <2>4. Cleaning(r)'
    BY <1>1, <1>2, <1>3, <1>4, Assumed
       DEF Cleaning, Untouched, Prepared, Went, Left, RoleWent, OpWent, AsgWent, EvidenceWent,
           EvidenceGone, Clock
  <2>5. Settled(r)'
    BY <1>1, <1>2, <1>3, <1>4, Assumed
       DEF Settled, Untouched, Dated, Landed, Went, Left, RoleWent, OpWent, AsgWent,
           EvidenceWent, EvidenceGone, Clock
  <2>6. Commanded(r)'
    BY <1>1, <1>2, <1>3, <1>4, Assumed
       DEF Commanded, Done, Working, Untouched, Prepared, Dated, Landed, Landing, LastStep,
           Went, Left, RoleWent, OpWent, AsgWent, EvidenceWent, EvidenceGone, Clock
  <2> QED
    BY <2>1, <2>2, <2>3, <2>4, <2>5, <2>6 DEF Sound
<1> QED
  BY <1>5, <1>6, <1>7, Others DEF IInv

\* The clock is no file.
LEMMA TickStep ==
    ASSUME IInv, Tick
    PROVE  IInv'
<1>1. /\ lease' = lease /\ asg' = asg /\ evidence' = evidence /\ target' = target /\ op' = op
      /\ cmd' = cmd /\ role' = role /\ assigned' = assigned /\ crashes' = crashes
      /\ fails' = fails
  BY DEF Tick, files
<1>2. TypeOK'
  BY <1>1, Assumed DEF IInv, TypeOK, Tick, Clock
<1>3. ASSUME NEW r \in Runs PROVE Sound(r)'
  BY <1>1 DEF IInv, Sound, Started, Roled, Committing, Cleaning, Settled, Commanded, Done,
     Working, Untouched, Prepared, Tried, Dated, Landed
<1> QED
  BY <1>2, <1>3 DEF IInv

-----------------------------------------------------------------------------
(* The theorems                                                             *)

\* Nothing is leased, bound or attempted at first.
LEMMA Starts == Init => IInv
<1> SUFFICES ASSUME Init PROVE IInv
  OBVIOUS
<1>1. TypeOK
  BY Assumed DEF Init, TypeOK, Clock, Instants, Never, Idle, Commands, Pcs
<1>2. ASSUME NEW r \in Runs PROVE Sound(r)
  BY DEF Init, Idle, Sound, Started, Roled, Committing, Cleaning, Settled, Commanded, Untouched
<1> QED
  BY <1>1, <1>2 DEF IInv

\* The invariant reads the variables of the specification only.
LEMMA Stutters == IInv /\ UNCHANGED vars => IInv'
<1> SUFFICES ASSUME IInv, UNCHANGED vars PROVE IInv'
  OBVIOUS
<1>1. TypeOK'
  BY DEF IInv, vars, files, TypeOK
<1>2. ASSUME NEW r \in Runs PROVE Sound(r)'
  BY DEF IInv, vars, files, Sound, Started, Roled, Committing, Cleaning, Settled, Commanded,
     Done, Working, Untouched, Prepared, Tried, Dated, Landed
<1> QED
  BY <1>1, <1>2 DEF IInv

\* Every step keeps the invariant.
LEMMA Steps == IInv /\ [Next]_vars => IInv'
<1> SUFFICES ASSUME IInv, [Next]_vars PROVE IInv'
  OBVIOUS
<1>1. ASSUME NEW r \in Runs, Step(r) PROVE IInv'
  BY <1>1, PlanLeaseStep, WriteLeaseStep, BindAssignmentStep, LaunchRoleStep, RoleAnswersStep,
     StatusStep, InstallCleanupStep, CommitAssignmentStep, UpdateSelectionStep,
     UpdateProofStep, DiscardAssignmentStep, PlanReleaseStep, UnlinkLeaseStep,
     CheckpointStep, AdvanceStep
     DEF Step
<1>2. ASSUME NEW r \in Runs, RoleStep(r) PROVE IInv'
  BY <1>2, RoleStagesStep, RoleArmsStep, RoleReplacesStep, RoleAcknowledgesStep, RoleExitsStep
     DEF RoleStep
<1>3. ASSUME NEW r \in Runs, Fresh(r) \/ Resume(r) \/ Close(r) \/ Crash(r) \/ RoleDies(r)
      PROVE IInv'
  BY <1>3, FreshStep, ResumeStep, CloseStep, CrashStep, RoleDiesStep
<1> QED
  BY <1>1, <1>2, <1>3, TickStep, Stutters DEF Next

\* The invariant holds in every reachable state.
LEMMA Invariant == Spec => []IInv
  BY Starts, Steps, PTL DEF Spec

\* Every reachable state is well typed: in particular a checkpoint never passes the
\* last effect of its phase.
THEOREM TypeCorrect == Spec => []TypeOK
<1>1. IInv => TypeOK
  BY DEF IInv
<1> QED
  BY <1>1, Invariant, PTL

\* While a role may still write, its operation stands at the target write with the
\* assignment prepared (_lpm_role_target_service._locked).
THEOREM OneWriterHolds == Spec => []OneWriter
<1>1. IInv => OneWriter
  BY Fields DEF IInv, Sound, OneWriter, Roled, Working, Started, Prepared
<1> QED
  BY <1>1, Invariant, PTL

\* A credential that reached a target is bound, whoever of the role and its command
\* died (_lpm_target_evidence._reconcile).
THEOREM WriteIsBound == Spec => []WrittenIsBound
<1>1. ASSUME IInv, NEW r \in Runs, target[r] # Nothing
      PROVE  asg[r] # Nothing /\ asg[r].account = target[r]
  <2>1. Sound(r) /\ (op[r] # Nothing => op[r].phase \in Phases /\ op[r].step \in -1..2)
    BY <1>1, Fields DEF IInv
  <2>2. CASE op[r] = Nothing
    BY <1>1, <2>1, <2>2 DEF Sound, Settled, Untouched, Landed
  <2>3. CASE op[r] # Nothing /\ op[r].phase = "start"
    <3>1. CASE role[r] = Nothing
      <4>1. evidence[r] # Nothing
            => evidence[r].status \in {"prepared", "armed", "committed"}
        BY <1>1, Fields DEF IInv
      <4> QED
        BY <1>1, <2>1, <2>3, <3>1, <4>1
           DEF Sound, Started, Untouched, Prepared, Tried, Landed
    <3>2. CASE role[r] # Nothing
      <4>1. Working(r) /\ Prepared(r)
        BY <2>1, <2>3, <3>2 DEF Sound, Roled, Started
      <4>2. role[r].pc \in {"staging", "prepared", "armed", "replaced", "committed",
                            "uncommitted"}
        BY <1>1, <3>2, Fields DEF IInv
      <4> QED
        BY <1>1, <4>1, <4>2 DEF Working, Prepared, Untouched, Landed
    <3> QED
      BY <3>1, <3>2
  <2>4. CASE op[r] # Nothing /\ op[r].phase = "postcommit"
    BY <2>1, <2>4 DEF Sound, Committing, Landed
  <2>5. CASE op[r] # Nothing /\ op[r].phase = "cleanup"
    BY <1>1, <2>1, <2>5 DEF Sound, Cleaning, Untouched
  <2> QED
    BY <2>1, <2>2, <2>3, <2>4, <2>5 DEF Phases
<1>2. IInv => WrittenIsBound
  BY <1>1 DEF WrittenIsBound
<1> QED
  BY <1>2, Invariant, PTL

\* An assignment is committed at the one instant its write was armed at, within the
\* lease it is bound to (_lpm_effect_assignment_commit._commit_decision).
THEOREM CommitInLease == Spec => []CommittedInLease
<1>1. ASSUME IInv, NEW r \in Runs, asg[r] # Nothing, asg[r].status # "prepared"
      PROVE  Landed(r) /\ asg[r].at = evidence[r].at
  <2>1. Sound(r) /\ (op[r] # Nothing => op[r].phase \in Phases /\ op[r].step \in -1..2)
    BY <1>1, Fields DEF IInv
  <2> QED
    BY <1>1, <2>1 DEF Sound, Started, Committing, Cleaning, Settled, Prepared, Dated, Phases
<1>2. IInv => CommittedInLease
  BY <1>1 DEF CommittedInLease, Landed
<1> QED
  BY <1>2, Invariant, PTL

\* A run without a pending operation holds a committed assignment, or none; it is
\* counted in the selection state (_lpm_effects_shared._merged_selection).
THEOREM ReceiptCommitted == Spec => []ReceiptIsCommitted
<1>1. IInv => ReceiptIsCommitted
  BY DEF IInv, Sound, Settled, ReceiptIsCommitted, Dated
<1> QED
  BY <1>1, Invariant, PTL

-----------------------------------------------------------------------------
(* A provision is one grant                                                 *)

\* One step of the abstract grant, or none.
Grants == [Granting!Next]_(Granting!vars)

\* A write is armed at an instant that is not to come.
ArmedBefore == \A r \in Runs : evidence[r] # Nothing => evidence[r].at <= clock
GInv == IInv /\ ArmedBefore

\* The steps that touch the evidence keep that.
LEMMA ArmedStep == IInv /\ ArmedBefore /\ [Next]_vars => ArmedBefore'
<1> SUFFICES ASSUME IInv, ArmedBefore, [Next]_vars, NEW s \in Runs, evidence'[s] # Nothing
             PROVE  evidence'[s].at <= clock'
  BY DEF ArmedBefore
<1>1. TypeOK /\ clock \in Int /\ (evidence[s] # Nothing => evidence[s].at <= clock)
  BY Assumed DEF IInv, TypeOK, Clock, ArmedBefore
<1>2. CASE evidence' = evidence /\ clock' \in {clock, clock + 1}
  BY <1>1, <1>2, Fields DEF Instants, Clock, Never
<1>3. ASSUME NEW r \in Runs, Status(r) PROVE evidence'[s].at <= clock'
  <2>1. clock' = clock /\ (s # r => evidence'[s] = evidence[s])
    BY <1>1, <1>3 DEF Status, TypeOK
  <2>2. CASE s = r
    <3>1. \/ evidence'[r] = evidence[r]
          \/ evidence[r] # Nothing /\ evidence'[r] = [evidence[r] EXCEPT !.status = "committed"]
      BY <1>1, <1>3, <2>2 DEF Status, TypeOK
    <3> QED
      BY <1>1, <2>1, <2>2, <3>1, Fields DEF Evidence
  <2> QED
    BY <1>1, <2>1, <2>2
<1>4. ASSUME NEW r \in Runs, RoleStages(r) PROVE evidence'[s].at <= clock'
  <2>1. clock' = clock /\ (s # r => evidence'[s] = evidence[s])
    BY <1>1, <1>4 DEF RoleStages, TypeOK
  <2>2. evidence'[r] = evidence[r] \/ evidence'[r].at = Never
    BY <1>1, <1>4 DEF RoleStages, TypeOK
  <2> QED
    BY <1>1, <2>1, <2>2 DEF Never, TypeOK, Clock
<1>5. ASSUME NEW r \in Runs, RoleArms(r) PROVE evidence'[s].at <= clock'
  <2>1. clock' = clock /\ (s # r => evidence'[s] = evidence[s])
    BY <1>1, <1>5 DEF RoleArms, TypeOK
  <2>2. Roled(r) /\ role[r] # Nothing /\ role[r].pc = "prepared"
    BY <1>5 DEF IInv, Sound, RoleArms, RoleAt
  <2>3. evidence[r] \in Evidence
    BY <1>1, <2>2, Fields DEF Roled, Working, Tried
  <2>4. \/ evidence'[r] = Nothing
        \/ evidence'[r] = [evidence[r] EXCEPT !.status = "armed", !.at = clock]
    BY <1>1, <1>5 DEF RoleArms, TypeOK
  <2>5. evidence'[r] = Nothing \/ evidence'[r].at = clock
    BY <2>3, <2>4 DEF Evidence
  <2> QED
    BY <1>1, <2>1, <2>5
<1>6. ASSUME NEW r \in Runs, RoleAcknowledges(r) PROVE evidence'[s].at <= clock'
  <2>1. clock' = clock /\ (s # r => evidence'[s] = evidence[s])
    BY <1>1, <1>6 DEF RoleAcknowledges, TypeOK
  <2>2. evidence[r] # Nothing
    BY <1>6 DEF IInv, Sound, Roled, Working, Tried, RoleAcknowledges, RoleAt
  <2>3. evidence'[r] = [evidence[r] EXCEPT !.status = "committed"]
    BY <1>1, <1>6 DEF RoleAcknowledges, TypeOK
  <2>4. evidence'[r].at = evidence[r].at
    BY <1>1, <2>2, <2>3, Fields DEF Evidence
  <2> QED
    BY <1>1, <2>1, <2>2, <2>4
<1>7. ASSUME NEW r \in Runs, Step(r), ~Status(r) PROVE evidence' = evidence /\ clock' = clock
  BY <1>7 DEF Step, PlanLease, WriteLease, BindAssignment, LaunchRole, RoleAnswers,
     InstallCleanup, CommitAssignment, UpdateSelection, UpdateProof, DiscardAssignment,
     PlanRelease, UnlinkLease, Checkpoint, Advance, files
<1>8. ASSUME NEW r \in Runs, RoleReplaces(r) \/ RoleExits(r)
      PROVE  evidence' = evidence /\ clock' = clock
  BY <1>8 DEF RoleReplaces, RoleExits, files
<1>9. ASSUME NEW r \in Runs, Fresh(r) \/ Resume(r) \/ Close(r) \/ Crash(r) \/ RoleDies(r)
      PROVE  evidence' = evidence /\ clock' = clock
  BY <1>9 DEF Fresh, Resume, Close, Crash, RoleDies, files
<1>10. CASE Tick \/ UNCHANGED vars
  BY <1>2, <1>10 DEF Tick, vars, files
<1> QED
  BY <1>2, <1>3, <1>4, <1>5, <1>6, <1>7, <1>8, <1>9, <1>10 DEF Next, RoleStep

LEMMA GInvariant == Spec => []GInv
<1>1. Init => ArmedBefore
  BY DEF Init, ArmedBefore
<1>2. GInv /\ [Next]_vars => GInv'
  BY ArmedStep, Steps DEF GInv
<1> QED
  BY <1>1, <1>2, Starts, PTL DEF Spec, GInv

\* No run is granted anything at the start.
LEMMA GrantStarts == Init => Granting!Init
<1> SUFFICES ASSUME Init PROVE Granting!Init
  OBVIOUS
<1>1. \A r \in Runs : Grant(r) = Granting!None
  BY DEF Init, Grant, Never, Granting!None, Granting!Never
<1>2. [r \in Runs |-> Grant(r)] = [r \in Runs |-> Granting!None]
  BY <1>1
<1>3. clock = 0 /\ target = [r \in Runs |-> Nothing] /\ assigned = [a \in Accounts |-> -1]
  BY DEF Init, Never
<1> QED
  BY <1>2, <1>3 DEF Granting!Init, Granting!Never

\* A step of one run changes no grant but its own.
LEMMA Regranted ==
    ASSUME NEW r \in Runs, Elsewhere(r)
    PROVE  [s \in Runs |-> Grant(s)]' = [[s \in Runs |-> Grant(s)] EXCEPT ![r] = Grant(r)']
<1>1. ASSUME NEW s \in Runs, s # r PROVE Grant(s)' = Grant(s)
  BY <1>1 DEF Elsewhere, Grant, Stage, Instant
<1> QED
  BY <1>1

\* The grant of a run is in its assignment, its target, its evidence once there is a
\* credential in the target, and in whether its operation has ended once it is committed.
LEMMA SameGrant ==
    ASSUME NEW r \in Runs, asg'[r] = asg[r], target'[r] = target[r],
           \/ op[r] = Nothing <=> op'[r] = Nothing
           \/ asg[r] = Nothing
           \/ asg[r].status = "prepared",
           \/ evidence'[r] = evidence[r]
           \/ target[r] = Nothing
           \/ /\ evidence[r] # Nothing /\ evidence'[r] # Nothing
              /\ evidence'[r].at = evidence[r].at
    PROVE  Grant(r)' = Grant(r)
<1>1. CASE asg[r] = Nothing
  BY <1>1 DEF Grant
<1>2. CASE asg[r] # Nothing
  <2>1. Stage(r)' = Stage(r)
    BY <1>2 DEF Stage
  <2>2. Stage(r) = "placed" => target[r] # Nothing
    BY DEF Stage
  <2>3. Instant(r)' = Instant(r)
    BY <2>1, <2>2 DEF Instant
  <2> QED
    BY <1>2, <2>1, <2>3 DEF Grant
<1> QED
  BY <1>1, <1>2

\* A step that keeps the grants, the targets and the counts is none of the grant.
LEMMA KeptGrant ==
    ASSUME NEW r \in Runs, Elsewhere(r), Grant(r)' = Grant(r), target' = target,
           UNCHANGED <<assigned, clock>>
    PROVE  Grants
<1>1. [s \in Runs |-> Grant(s)]' = [s \in Runs |-> Grant(s)]
  BY Regranted
<1> QED
  BY <1>1 DEF Grants, Granting!vars

\* The step of one run is elsewhere for the others.
LEMMA CommandAlone ==
    ASSUME TypeOK, NEW r \in Runs, Step(r)
    PROVE  Elsewhere(r)
<1> USE DEF TypeOK, Elsewhere, GoTo, Fail, files
<1>1. CASE PlanLease(r) \/ WriteLease(r) \/ BindAssignment(r) \/ LaunchRole(r) \/ RoleAnswers(r)
  BY <1>1 DEF PlanLease, WriteLease, BindAssignment, LaunchRole, RoleAnswers
<1>2. CASE Status(r) \/ InstallCleanup(r) \/ CommitAssignment(r) \/ UpdateSelection(r)
  BY <1>2 DEF Status, InstallCleanup, CommitAssignment, UpdateSelection
<1>3. CASE UpdateProof(r) \/ DiscardAssignment(r) \/ PlanRelease(r) \/ UnlinkLease(r)
  BY <1>3 DEF UpdateProof, DiscardAssignment, PlanRelease, UnlinkLease, Released
<1>4. CASE Checkpoint(r) \/ Advance(r)
  BY <1>4 DEF Checkpoint, Advance
<1> QED
  BY <1>1, <1>2, <1>3, <1>4 DEF Step

LEMMA RoleAlone ==
    ASSUME TypeOK, NEW r \in Runs, RoleStep(r)
    PROVE  Elsewhere(r)
  BY DEF TypeOK, Elsewhere, files, RoleStep, RoleGoes, RoleStages, RoleArms, RoleReplaces,
     RoleAcknowledges, RoleExits

LEMMA OthersAlone ==
    ASSUME TypeOK, NEW r \in Runs, Fresh(r) \/ Resume(r) \/ Close(r) \/ Crash(r) \/ RoleDies(r)
    PROVE  Elsewhere(r)
  BY DEF TypeOK, Elsewhere, GoTo, Fail, files, Fresh, Resume, Close, Crash, RoleDies

\* An operation that is written again has not ended.
LEMMA StillOpen ==
    ASSUME TypeOK, NEW r \in Runs, op[r] # Nothing, NEW phase \in Phases, NEW step \in -1..2,
           \/ op'[r] = [op[r] EXCEPT !.phase = phase, !.step = step]
           \/ op'[r] = [op[r] EXCEPT !.step = step]
    PROVE  op'[r] # Nothing
<1>1. op[r] \in Operations
  BY Fields
<1>2. op'[r] \in Operations
  BY <1>1 DEF Operations
<1> QED
  BY <1>2, Assumed

\* Leases, launches, answers, checkpoints: steps that write none of what a grant is.
LEMMA QuietGrants ==
    ASSUME IInv, NEW r \in Runs,
           \/ PlanLease(r) \/ WriteLease(r) \/ LaunchRole(r) \/ RoleAnswers(r)
           \/ InstallCleanup(r) \/ UpdateProof(r) \/ Checkpoint(r)
           \/ Resume(r) \/ Close(r) \/ Crash(r) \/ RoleDies(r) \/ RoleExits(r)
    PROVE  Grants
<1>1. TypeOK /\ Elsewhere(r)
  BY CommandAlone, RoleAlone, OthersAlone DEF IInv, Step, RoleStep
<1>2. UNCHANGED <<asg, target, evidence, assigned, clock>>
  BY DEF PlanLease, WriteLease, LaunchRole, RoleAnswers, InstallCleanup, UpdateProof,
     Checkpoint, Resume, Close, Crash, RoleDies, RoleExits, files
<1>3. op[r] = Nothing <=> op'[r] = Nothing
  <2>1. CASE op' = op
    BY <2>1
  <2>2. CASE InstallCleanup(r)
    <3>1. op[r] # Nothing /\ op'[r] = [op[r] EXCEPT !.phase = "cleanup", !.step = -1]
      BY <1>1, <2>2 DEF IInv, Sound, Commanded, InstallCleanup, TypeOK
    <3>2. -1 \in -1..2 /\ "cleanup" \in Phases
      BY DEF Phases
    <3> QED
      BY <1>1, <3>1, <3>2, StillOpen
  <2>3. CASE Checkpoint(r)
    <3>1. op[r] # Nothing /\ op[r].phase \in Phases /\ op[r].step \in -1..2
          /\ op[r].step < LastStep(op[r].phase)
      BY <1>1, <2>3, Fields DEF IInv, Sound, Commanded, Checkpoint
    <3>2. op'[r] = [op[r] EXCEPT !.step = op[r].step + 1]
      BY <1>1, <2>3 DEF Checkpoint, TypeOK
    <3>3. op[r].step + 1 \in -1..2
      BY <3>1 DEF LastStep
    <3> QED
      BY <1>1, <3>1, <3>2, <3>3, StillOpen
  <2> QED
    BY <2>1, <2>2, <2>3
       DEF PlanLease, WriteLease, LaunchRole, RoleAnswers, UpdateProof, Resume, Close, Crash,
           RoleDies, RoleExits
<1>4. Grant(r)' = Grant(r)
  BY <1>2, <1>3, SameGrant
<1> QED
  BY <1>1, <1>2, <1>4, KeptGrant

\* An assignment is bound where nothing was written.
LEMMA BindGrants ==
    ASSUME IInv, NEW r \in Runs, BindAssignment(r)
    PROVE  Grants
<1>1. TypeOK /\ Elsewhere(r)
  BY CommandAlone DEF IInv, Step
<1>2. op[r] # Nothing /\ op[r].phase = "start" /\ op[r].step = 0 /\ cmd[r].account \in Accounts
  BY <1>1, Fields DEF IInv, Sound, Commanded, BindAssignment, At
<1>3. target[r] = Nothing
  BY <1>2 DEF IInv, Sound, Started, Untouched
<1>4. UNCHANGED <<clock, evidence, target, assigned, op>>
  BY DEF BindAssignment
<1>5. CASE asg' = asg
  BY <1>1, <1>4, <1>5, SameGrant, KeptGrant
<1>6. CASE asg' # asg
  <2> DEFINE a == cmd[r].account
             made == [account |-> a, until |-> lease[a].until, at |-> Never,
                      status |-> "prepared"]
  <2>1. asg[r] = Nothing /\ asg'[r] = made /\ lease[a] # Nothing
    BY <1>1, <1>6 DEF BindAssignment, TypeOK
  <2>2. made \in Assignments
    BY <1>1, <1>2, <2>1 DEF TypeOK, Assignments, Leases, Instants
  <2>3. Grant(r) = Granting!None
    BY <2>1 DEF Grant, Never, Granting!None, Granting!Never
  <2>4. Grant(r)' = [account |-> a, until |-> lease[a].until, stage |-> "bound", at |-> Never]
    <3>1. asg'[r] # Nothing /\ asg'[r].status = "prepared" /\ target'[r] = Nothing
      BY <1>3, <1>4, <2>1, <2>2, Assumed
    <3>2. Stage(r)' = "bound" /\ Instant(r)' = Never
      BY <3>1 DEF Stage, Instant
    <3> QED
      BY <2>1, <3>1, <3>2 DEF Grant
  <2>5. Grant(r)'.until = lease[a].until
    BY <2>4
  <2>6. Granting!Bind(r, a)
    BY <1>1, <1>3, <1>4, <2>3, <2>4, <2>5, Regranted DEF Granting!Bind, Granting!Never, Never
  <2> QED
    BY <1>2, <2>6 DEF Grants, Granting!Next
<1> QED
  BY <1>5, <1>6

\* A grant goes on to its next stage.
LEMMA GoesOn ==
    ASSUME NEW r \in Runs, Elsewhere(r), asg[r] # Nothing, asg'[r] # Nothing,
           asg'[r].account = asg[r].account, asg'[r].until = asg[r].until,
           NEW at, Instant(r)' = at
    PROVE  Granting!Goes(r, Stage(r), Stage(r)', at)
<1>1. /\ Grant(r) = [account |-> asg[r].account, until |-> asg[r].until, stage |-> Stage(r),
                     at |-> Instant(r)]
      /\ Grant(r)' = [account |-> asg[r].account, until |-> asg[r].until, stage |-> Stage(r)',
                      at |-> at]
  BY DEF Grant
<1>2. Grant(r)' = [account |-> Grant(r).account, until |-> Grant(r).until,
                   stage |-> Stage(r)', at |-> at]
  BY <1>1
<1>3. [s \in Runs |-> Grant(s)][r] = Grant(r) /\ Grant(r).stage = Stage(r)
  BY <1>1
<1>4. [s \in Runs |-> Grant(s)]' = [[s \in Runs |-> Grant(s)] EXCEPT ![r] = Grant(r)']
  BY Regranted
<1> QED
  BY <1>2, <1>3, <1>4 DEF Granting!Goes

\* What a grant that was bound says.
LEMMA Granted ==
    ASSUME NEW r \in Runs, asg[r] # Nothing
    PROVE  /\ Grant(r).account = asg[r].account /\ Grant(r).until = asg[r].until
           /\ Grant(r).stage = Stage(r) /\ Grant(r).at = Instant(r)
  BY DEF Grant

\* An assignment that is committed has its write behind it.
LEMMA Written ==
    ASSUME IInv, NEW r \in Runs, asg[r] # Nothing, asg[r].status # "prepared"
    PROVE  /\ Landed(r) /\ asg[r].at = evidence[r].at
           /\ Stage(r) \in {"committed", "settled", "closed"} /\ Instant(r) = asg[r].at
<1>1. Sound(r) /\ (op[r] # Nothing => op[r].phase \in Phases /\ op[r].step \in -1..2)
  BY Fields DEF IInv
<1>2. Landed(r) /\ asg[r].at = evidence[r].at
  BY <1>1 DEF Sound, Started, Committing, Cleaning, Settled, Prepared, Dated, Phases
<1> QED
  BY <1>2 DEF Stage, Instant

\* A resumed command that asks what its predecessor's role did changes no grant.
LEMMA StatusGrants ==
    ASSUME IInv, NEW r \in Runs, Status(r)
    PROVE  Grants
<1>1. TypeOK /\ Elsewhere(r)
  BY CommandAlone DEF IInv, Step
<1>2. UNCHANGED <<asg, target, assigned, clock, op>>
  BY DEF Status
<1>3. CASE ~LockFree(r) \/ evidence' = evidence
  BY <1>1, <1>2, <1>3, SameGrant, KeptGrant DEF Status
<1>4. CASE LockFree(r) /\ evidence' # evidence
  <2>1. op[r] # Nothing /\ op[r].phase = "start" /\ op[r].step = 1
    BY <1>1, Fields DEF IInv, Sound, Commanded, Status, At
  <2>2. Untouched(r) \/ Tried(r)
    BY <1>4, <2>1 DEF IInv, Sound, Started, LockFree
  <2>3. evidence[r] # Nothing => evidence[r].status \in {"prepared", "armed", "committed"}
    BY <1>1, Fields
  <2>4. CASE evidence'[r] = Nothing
    <3>1. evidence[r] = Nothing \/ evidence[r].status = "prepared"
          \/ (evidence[r].status = "armed" /\ target[r] # evidence[r].account)
          \/ (evidence[r] # Nothing /\ evidence'[r] = [evidence[r] EXCEPT !.status = "committed"])
      BY <1>1, <1>4, <2>3 DEF Status, Matches, TypeOK
    <3>2. evidence[r] # Nothing => [evidence[r] EXCEPT !.status = "committed"] \in Evidence
      BY <1>1, Fields DEF Evidence
    <3>3. target[r] = Nothing \/ (evidence[r] = Nothing /\ evidence'[r] = evidence[r])
      BY <2>2, <2>4, <3>1, <3>2, Assumed DEF Untouched, Tried
    <3> QED
      BY <1>1, <1>2, <3>3, SameGrant, KeptGrant
  <2>5. CASE evidence'[r] # Nothing
    <3>1. evidence[r] # Nothing /\ evidence'[r] = [evidence[r] EXCEPT !.status = "committed"]
      BY <1>1, <1>4, <2>5 DEF Status, TypeOK
    <3>2. evidence'[r].at = evidence[r].at
      BY <1>1, <3>1, Fields DEF Evidence
    <3> QED
      BY <1>1, <1>2, <2>5, <3>1, <3>2, SameGrant, KeptGrant
  <2> QED
    BY <2>4, <2>5
<1> QED
  BY <1>3, <1>4

\* An assignment is committed at the instant of its write.
LEMMA CommitGrants ==
    ASSUME IInv, NEW r \in Runs, CommitAssignment(r)
    PROVE  Grants
<1>1. TypeOK /\ Elsewhere(r)
  BY CommandAlone DEF IInv, Step
<1>2. UNCHANGED <<evidence, target, assigned, clock, op>>
  BY DEF CommitAssignment
<1>3. CASE asg' = asg
  BY <1>1, <1>2, <1>3, SameGrant, KeptGrant
<1>4. CASE asg' # asg
  <2>1. evidence[r] # Nothing /\ Prepared(r)
        /\ asg'[r] = [asg[r] EXCEPT !.at = evidence[r].at, !.status = "committed"]
    BY <1>1, <1>4 DEF CommitAssignment, TypeOK, Prepared
  <2>2. op[r] # Nothing /\ op[r].phase = "postcommit"
    BY <1>1, Fields DEF IInv, Sound, Commanded, CommitAssignment, At
  <2>3. asg[r] # Nothing /\ asg[r].status = "prepared" /\ target[r] # Nothing
    BY <1>1, <2>1, <2>2, Fields, Assumed DEF IInv, Sound, Committing, Landed, Prepared
  <2>4. /\ asg'[r] # Nothing /\ asg'[r].status = "committed" /\ asg'[r].at = evidence[r].at
        /\ asg'[r].account = asg[r].account /\ asg'[r].until = asg[r].until
    <3>1. asg' = [asg EXCEPT ![r] = [@ EXCEPT !.at = evidence[r].at, !.status = "committed"]]
      BY <1>4 DEF CommitAssignment
    <3>2. evidence[r].at \in Instants
      BY <1>1, <2>1, Fields
    <3> QED
      BY <1>1, <2>3, <3>1, <3>2, AsgGoing DEF AsgWent
  <2>5. Stage(r) = "placed" /\ Instant(r) = evidence[r].at
    BY <2>1, <2>3 DEF Stage, Instant
  <2>6. Stage(r)' = "committed" /\ Instant(r)' = evidence[r].at
    BY <1>2, <2>2, <2>4 DEF Stage, Instant
  <2>7. Granting!Goes(r, "placed", "committed", Instant(r))
    BY <1>1, <2>3, <2>4, <2>5, <2>6, GoesOn
  <2>8. Granting!Commit(r)
    BY <1>2, <2>3, <2>7, Granted DEF Granting!Commit
  <2> QED
    BY <2>8 DEF Grants, Granting!Next
<1> QED
  BY <1>3, <1>4

\* A commit is counted at its own instant.
LEMMA CountGrants ==
    ASSUME IInv, NEW r \in Runs, UpdateSelection(r)
    PROVE  Grants
<1>1. TypeOK /\ Elsewhere(r)
  BY CommandAlone DEF IInv, Step
<1>2. UNCHANGED <<asg, evidence, target, clock, op>>
  BY DEF UpdateSelection
<1>3. op[r] # Nothing /\ op[r].phase = "postcommit" /\ op[r].step = 0
  BY <1>1, Fields DEF IInv, Sound, Commanded, UpdateSelection, At
<1>4. asg[r] # Nothing /\ asg[r].status # "prepared"
  BY <1>3 DEF IInv, Sound, Committing, Dated
<1>5. /\ Grant(r).stage \notin {"none", "bound", "placed"} /\ Grant(r).at = asg[r].at
      /\ Grant(r).account = asg[r].account
  BY <1>4, Written, Granted
<1>6. [s \in Runs |-> Grant(s)]' = [s \in Runs |-> Grant(s)]
  BY <1>1, <1>2, SameGrant, Regranted
<1>7. assigned' = [assigned EXCEPT ![Grant(r).account] = IF Grant(r).at > @ THEN Grant(r).at ELSE @]
  BY <1>5 DEF UpdateSelection
<1>8. Granting!Count(r)
  BY <1>2, <1>5, <1>6, <1>7 DEF Granting!Count
<1> QED
  BY <1>8 DEF Grants, Granting!Next

\* Only what was not placed is taken back.
LEMMA DiscardGrants ==
    ASSUME IInv, NEW r \in Runs, DiscardAssignment(r)
    PROVE  Grants
<1>1. TypeOK /\ Elsewhere(r)
  BY CommandAlone DEF IInv, Step
<1>2. UNCHANGED <<evidence, target, assigned, clock, op>>
  BY DEF DiscardAssignment
<1>3. CASE asg' = asg
  BY <1>1, <1>2, <1>3, SameGrant, KeptGrant
<1>4. CASE asg' # asg
  <2>1. asg[r] # Nothing /\ asg[r].status = "prepared" /\ asg'[r] = Nothing
    BY <1>1, <1>4 DEF DiscardAssignment, TypeOK
  <2>2. op[r] # Nothing /\ op[r].phase = "cleanup"
    BY <1>1, Fields DEF IInv, Sound, Commanded, DiscardAssignment, At
  <2>3. target[r] = Nothing
    BY <2>2 DEF IInv, Sound, Cleaning, Untouched
  <2>4. Grant(r).stage = "bound"
    BY <2>1, <2>3, Granted DEF Stage
  <2>5. Grant(r)' = Granting!None
    BY <2>1 DEF Grant, Never, Granting!None, Granting!Never
  <2>6. Granting!Withdraw(r)
    BY <1>1, <1>2, <2>3, <2>4, <2>5, Regranted DEF Granting!Withdraw
  <2> QED
    BY <2>6 DEF Grants, Granting!Next
<1> QED
  BY <1>3, <1>4

\* A run that is closed had its receipt.
LEMMA ReleaseGrants ==
    ASSUME IInv, NEW r \in Runs, PlanRelease(r) \/ UnlinkLease(r)
    PROVE  Grants
<1>1. TypeOK /\ Elsewhere(r)
  BY CommandAlone DEF IInv, Step
<1>2. UNCHANGED <<evidence, target, assigned, clock, op>>
  BY DEF PlanRelease, UnlinkLease
<1>3. CASE asg' = asg
  BY <1>1, <1>2, <1>3, SameGrant, KeptGrant
<1>4. CASE asg' # asg
  <2>1. op[r] = Nothing /\ asg' = [asg EXCEPT ![r] = [@ EXCEPT !.status = "closed"]]
    BY <1>4 DEF PlanRelease, UnlinkLease, Released
  <2>2. asg[r] # Nothing
    BY <1>1, <2>1, Fields DEF IInv, Sound, Commanded, PlanRelease, UnlinkLease, At
  <2>3. asg[r].status # "prepared"
    BY <2>1, <2>2 DEF IInv, Sound, Settled, Dated
  <2>4. /\ asg'[r] # Nothing /\ asg'[r].status = "closed" /\ asg'[r].at = asg[r].at
        /\ asg'[r].account = asg[r].account /\ asg'[r].until = asg[r].until
    BY <1>1, <2>1, <2>2, Fields, AsgGoing DEF AsgWent
  <2>5. Stage(r) \in {"settled", "closed"} /\ Instant(r) = asg[r].at
    BY <2>1, <2>2, <2>3, Written DEF Stage
  <2>6. Stage(r)' = "closed" /\ Instant(r)' = Instant(r)
    BY <2>4, <2>5 DEF Stage, Instant
  <2>7. CASE Stage(r) = "settled"
    <3>1. Granting!Goes(r, "settled", "closed", Grant(r).at)
      BY <1>1, <2>2, <2>4, <2>6, <2>7, GoesOn, Granted
    <3>2. Granting!Close(r)
      BY <1>2, <3>1 DEF Granting!Close
    <3> QED
      BY <3>2 DEF Grants, Granting!Next
  <2>8. CASE Stage(r) = "closed"
    <3>1. Grant(r)' = Grant(r)
      BY <2>2, <2>4, <2>6, <2>8 DEF Grant
    <3> QED
      BY <1>1, <1>2, <3>1, KeptGrant
  <2> QED
    BY <2>5, <2>7, <2>8
<1> QED
  BY <1>3, <1>4

\* An operation ends with a receipt for what was counted, or with nothing granted.
LEMMA AdvanceGrants ==
    ASSUME IInv, NEW r \in Runs, Advance(r)
    PROVE  Grants
<1>1. TypeOK /\ Elsewhere(r)
  BY CommandAlone DEF IInv, Step
<1>2. UNCHANGED <<asg, evidence, target, assigned, clock>>
  BY DEF Advance, files
<1>3. /\ op[r] # Nothing /\ op[r].phase \in Phases /\ op[r].step \in -1..2
      /\ op[r].step = LastStep(op[r].phase)
  BY <1>1, Fields DEF IInv, Sound, Commanded, Advance
<1>4. CASE op[r].phase = "start"
  <2>1. asg[r].status = "prepared"
    BY <1>3, <1>4 DEF IInv, Sound, Started, Prepared, LastStep
  <2> QED
    BY <1>1, <1>2, <2>1, SameGrant, KeptGrant
<1>5. CASE op[r].phase = "cleanup"
  <2>1. asg[r] = Nothing
    BY <1>3, <1>5 DEF IInv, Sound, Cleaning, LastStep
  <2> QED
    BY <1>1, <1>2, <2>1, SameGrant, KeptGrant
<1>6. CASE op[r].phase = "postcommit"
  <2>1. /\ asg[r] # Nothing /\ asg[r].status # "prepared"
        /\ assigned[asg[r].account] >= asg[r].at
    BY <1>3, <1>6 DEF IInv, Sound, Committing, Dated, LastStep
  <2>2. op'[r] = Nothing
    BY <1>1, <1>6 DEF Advance, TypeOK
  <2>3. Stage(r) \in {"committed", "closed"} /\ Instant(r) = asg[r].at
    BY <1>3, <2>1, Written DEF Stage
  <2>4. CASE Stage(r) = "committed"
    <3>1. asg[r].status # "closed"
      BY <2>1, <2>4 DEF Stage
    <3>2. Stage(r)' = "settled" /\ Instant(r)' = Instant(r)
      BY <1>2, <2>1, <2>2, <2>3, <3>1 DEF Stage, Instant
    <3>3. Granting!Goes(r, "committed", "settled", Grant(r).at)
      BY <1>1, <1>2, <2>1, <2>4, <3>2, GoesOn, Granted
    <3>4. Granting!Receipt(r)
      BY <1>2, <2>1, <2>3, <3>3, Granted DEF Granting!Receipt
    <3> QED
      BY <3>4 DEF Grants, Granting!Next
  <2>5. CASE Stage(r) = "closed"
    <3>1. asg[r].status = "closed"
      BY <2>1, <2>5 DEF Stage
    <3>2. Grant(r)' = Grant(r)
      BY <1>2, <2>1, <3>1 DEF Grant, Stage, Instant
    <3> QED
      BY <1>1, <1>2, <3>2, KeptGrant
  <2> QED
    BY <2>3, <2>4, <2>5
<1> QED
  BY <1>3, <1>4, <1>5, <1>6 DEF Phases

\* A new operation is asked for where nothing is granted.
LEMMA FreshGrants ==
    ASSUME IInv, NEW r \in Runs, Fresh(r)
    PROVE  Grants
<1>1. TypeOK /\ Elsewhere(r)
  BY OthersAlone DEF IInv
<1>2. UNCHANGED <<asg, evidence, target, assigned, clock>> /\ asg[r] = Nothing
  BY DEF Fresh, files
<1> QED
  BY <1>1, <1>2, SameGrant, KeptGrant

\* A role that stages or arms its write has not placed it.
LEMMA ArmingGrants ==
    ASSUME IInv, NEW r \in Runs, RoleStages(r) \/ RoleArms(r)
    PROVE  Grants
<1>1. TypeOK /\ Elsewhere(r)
  BY RoleAlone DEF IInv, RoleStep
<1>2. UNCHANGED <<asg, target, assigned, clock, op>>
  BY DEF RoleStages, RoleArms
<1>3. role[r] # Nothing /\ role[r].pc \in {"staging", "prepared"}
  BY DEF RoleStages, RoleArms, RoleAt
<1>4. target[r] = Nothing
  BY <1>3 DEF IInv, Sound, Roled, Working, Untouched
<1> QED
  BY <1>1, <1>2, <1>4, SameGrant, KeptGrant

\* The credential placed is that of the grant, at the instant it was armed.
LEMMA PlaceGrants ==
    ASSUME GInv, NEW r \in Runs, RoleReplaces(r)
    PROVE  Grants
<1>1. IInv /\ TypeOK /\ Elsewhere(r)
  BY RoleAlone DEF GInv, IInv, RoleStep
<1>2. UNCHANGED <<asg, evidence, assigned, clock, op>>
  BY DEF RoleReplaces
<1>3. role[r] # Nothing /\ role[r].pc = "armed"
  BY DEF RoleReplaces, RoleAt
<1>4. /\ op[r] # Nothing /\ op[r].phase = "start" /\ op[r].step = 1
      /\ role[r].account = asg[r].account /\ target[r] = Nothing
      /\ Tried(r) /\ evidence[r].status = "armed"
  BY <1>1, <1>3 DEF IInv, Sound, Roled, Working
<1>5. asg[r] # Nothing /\ asg[r].status = "prepared"
  BY <1>1, <1>4 DEF IInv, Sound, Started, Prepared
<1>6. /\ evidence[r] # Nothing /\ evidence[r].at \in Clock /\ evidence[r].at < asg[r].until
      /\ evidence[r].at <= clock
  BY <1>4 DEF Tried, GInv, ArmedBefore
<1>7. target' = [target EXCEPT ![r] = asg[r].account] /\ asg[r].account # Nothing
  BY <1>1, <1>4, <1>5, Fields, Assumed DEF RoleReplaces
<1>8. target'[r] # Nothing
  BY <1>1, <1>7 DEF TypeOK
<1>9. Stage(r) = "bound" /\ Stage(r)' = "placed"
  BY <1>2, <1>4, <1>5, <1>8 DEF Stage
<1>10. Instant(r)' = evidence[r].at
  BY <1>2, <1>6, <1>9 DEF Instant
<1>11. Granting!Goes(r, "bound", "placed", evidence[r].at)
  BY <1>1, <1>2, <1>5, <1>9, <1>10, GoesOn
<1>12. Grant(r)'.at = evidence[r].at
  BY <1>2, <1>5, <1>10 DEF Grant
<1>13. Granting!Place(r, evidence[r].at)
  <2>1. /\ [s \in Runs |-> Grant(s)][r].account = asg[r].account
        /\ [s \in Runs |-> Grant(s)][r].until = asg[r].until
    BY <1>5, Granted
  <2>2. 0 <= evidence[r].at /\ evidence[r].at <= clock
    BY <1>6, Assumed DEF Clock
  <2>3. evidence[r].at < [s \in Runs |-> Grant(s)][r].until
    BY <1>6, <2>1
  <2>4. target' = [target EXCEPT ![r] = [s \in Runs |-> Grant(s)][r].account]
    BY <1>7, <2>1
  <2> QED
    BY <1>2, <1>4, <1>11, <2>2, <2>3, <2>4 DEF Granting!Place
<1> QED
  BY <1>12, <1>13 DEF Grants, Granting!Next

\* A write is acknowledged at the instant it was armed at.
LEMMA AcknowledgeGrants ==
    ASSUME IInv, NEW r \in Runs, RoleAcknowledges(r)
    PROVE  Grants
<1>1. TypeOK /\ Elsewhere(r)
  BY RoleAlone DEF IInv, RoleStep
<1>2. UNCHANGED <<asg, target, assigned, clock, op>>
  BY DEF RoleAcknowledges
<1>3. evidence[r] # Nothing
  BY DEF IInv, Sound, Roled, Working, Tried, RoleAcknowledges, RoleAt
<1>4. evidence'[r] = [evidence[r] EXCEPT !.status = "committed"]
  BY <1>1 DEF RoleAcknowledges, TypeOK
<1>5. evidence'[r].at = evidence[r].at /\ evidence'[r] # Nothing
  <2>1. [evidence[r] EXCEPT !.status = "committed"] \in Evidence
    BY <1>1, <1>3, Fields DEF Evidence
  <2> QED
    BY <1>1, <1>3, <1>4, <2>1, Fields, Assumed DEF Evidence
<1> QED
  BY <1>1, <1>2, <1>3, <1>5, SameGrant, KeptGrant

\* Time goes on for all grants.
LEMMA TickGrants ==
    ASSUME IInv, Tick
    PROVE  Grants
<1>1. UNCHANGED <<asg, evidence, target, assigned, op>> /\ clock' = clock + 1
  BY DEF Tick, files
<1>2. [s \in Runs |-> Grant(s)]' = [s \in Runs |-> Grant(s)]
  BY <1>1 DEF Grant, Stage, Instant
<1> QED
  BY <1>1, <1>2 DEF Grants, Granting!Next, Granting!Tick

\* Every step is one of the grant, or none.
LEMMA GrantSteps == GInv /\ [Next]_vars => Grants
<1> SUFFICES ASSUME GInv, [Next]_vars PROVE Grants
  OBVIOUS
<1>1. IInv
  BY DEF GInv
<1>2. ASSUME NEW r \in Runs, Step(r) PROVE Grants
  BY <1>1, <1>2, QuietGrants, BindGrants, StatusGrants, CommitGrants, CountGrants,
     DiscardGrants, ReleaseGrants, AdvanceGrants DEF Step
<1>3. ASSUME NEW r \in Runs, RoleStep(r) PROVE Grants
  BY <1>1, <1>3, QuietGrants, ArmingGrants, PlaceGrants, AcknowledgeGrants DEF RoleStep
<1>4. ASSUME NEW r \in Runs, Fresh(r) \/ Resume(r) \/ Close(r) \/ Crash(r) \/ RoleDies(r)
      PROVE  Grants
  BY <1>1, <1>4, QuietGrants, FreshGrants
<1>5. CASE Tick
  BY <1>1, <1>5, TickGrants
<1>6. CASE UNCHANGED vars
  BY <1>6 DEF vars, files, Grants, Granting!vars, Grant, Stage, Instant
<1> QED
  BY <1>2, <1>3, <1>4, <1>5, <1>6 DEF Next

\* A provision is one grant for any number of runs and accounts, whoever is killed
\* and whenever (_lpm_runtime_provision.py, _lpm_effects_provision.py,
\* _lpm_target_evidence.py): CredentialGrant is what it implements.
THEOREM ImplementsGrant == Spec => KeepsGrant
<1>1. GInv /\ [Next]_vars => [Granting!Next]_(Granting!vars)
  BY GrantSteps DEF Grants
<1> QED
  BY <1>1, GInvariant, GrantStarts, PTL DEF Spec, KeepsGrant, Granting!Spec

=============================================================================
