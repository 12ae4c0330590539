---------------------------- MODULE ProvisionRun ----------------------------
(***************************************************************************)
(* The provision command of the LLM provider manager: it leases an account *)
(* to a consumer run, binds an assignment to that lease, has an isolated   *)
(* role place the credential in the run's target, and commits the          *)
(* assignment at the instant the role armed its write                      *)
(* (overseer/_lpm_runtime_provision*.py, the executors, and                *)
(* _lpm_target_evidence.py for the role).                                  *)
(*                                                                         *)
(* A command is a write-ahead operation with the phases start, postcommit  *)
(* and cleanup.  It may die between any two effects; the role it launched  *)
(* then goes on alone, holding the lock of the target.  Commands of one    *)
(* run exclude one another; commands of two runs share only the files.     *)
(***************************************************************************)
EXTENDS Integers

CONSTANTS
    Runs,        \* consumer runs that ask for a credential
    Accounts,    \* accounts that have an eligible credential record
    LeaseTerm,   \* how long a lease stands
    MaxClock,    \* last reading of the clock
    MaxCrash,    \* commands killed in one behaviour
    MaxFail,     \* roles that refuse, fail or are killed at their deadline
    Nothing      \* an absent file or process

ASSUME ProvisionAssumption ==
    /\ LeaseTerm \in Nat /\ MaxClock \in Nat /\ MaxCrash \in Nat /\ MaxFail \in Nat

VARIABLES
    clock,
    lease,     \* leases/<provider>/<account>
    asg,       \* assignments/<run>, or its tombstone once it is closed
    evidence,  \* target-commits/<target of the run>
    target,    \* the destination file: the account whose credential it holds
    assigned,  \* selection-state.json: the latest commit of each account
    op,        \* operations/provision/<run>: the write-ahead record
    cmd,       \* the command that holds the run's lock, and its local state
    role,      \* the final-provisioning child of the run, holding the target lock
    crashes, fails

files == <<lease, asg, evidence, target, assigned>>
vars == <<clock, files, op, cmd, role, crashes, fails>>

Never == -1
Clock == 0..MaxClock
Instants == Clock \cup {Never}

Leases == [run : Runs, from : Clock, until : 0..(MaxClock + LeaseTerm)]
Assignments ==
    [account : Accounts, until : 0..(MaxClock + LeaseTerm), at : Instants,
     status : {"prepared", "committed", "closed"}]
Evidence == [status : {"prepared", "armed", "committed"}, account : Accounts, at : Instants]
Phases == {"start", "postcommit", "cleanup"}
Operations == [phase : Phases, step : -1..2, accepted : Clock]
Pcs == {"idle", "next", "write", "wait", "checkpoint", "clean", "unlink", "close"}
Commands == [pc : Pcs, account : Accounts \cup {Nothing}, recovering : BOOLEAN]
Idle == [pc |-> "idle", account |-> Nothing, recovering |-> FALSE]
Roles == [pc : {"staging", "prepared", "armed", "replaced", "committed", "uncommitted"},
          account : Accounts, until : 0..(MaxClock + LeaseTerm)]
ASSUME NothingAssumption ==
    Nothing \notin Accounts \cup Leases \cup Assignments \cup Evidence \cup Operations \cup Roles

\* _PROVISION effects: start is lease-create, prepared-assignment-create and
\* target-write; postcommit is assignment-commit, selection-update and
\* proof-update; cleanup is prepared-assignment-discard and lease-release.
CommitOnly(phase) == CASE phase = "start" -> 2 [] phase = "postcommit" -> 0
                       [] phase = "cleanup" -> 1
LastStep(phase) == IF phase = "cleanup" THEN 1 ELSE 2

Init ==
    /\ clock = 0 /\ crashes = 0 /\ fails = 0
    /\ lease = [a \in Accounts |-> Nothing]
    /\ asg = [r \in Runs |-> Nothing]
    /\ evidence = [r \in Runs |-> Nothing]
    /\ target = [r \in Runs |-> Nothing]
    /\ assigned = [a \in Accounts |-> Never]
    /\ op = [r \in Runs |-> Nothing]
    /\ cmd = [r \in Runs |-> Idle]
    /\ role = [r \in Runs |-> Nothing]

-----------------------------------------------------------------------------
(* Leases and selection                                                     *)

\* lease_is_live: equality is expired.
Live(held, now) == held # Nothing /\ now < held.until

PlannedLease(r) ==
    [run |-> r, from |-> op[r].accepted, until |-> op[r].accepted + LeaseTerm]

\* _lease_observations: a live lease of another run excludes the account.
Eligible(r, now) == {a \in Accounts : ~(Live(lease[a], now) /\ lease[a].run # r)}

\* recoverable_selection: the lease the operation's own lease-create committed.
Retained(r) ==
    {a \in Accounts : /\ lease[a] # Nothing /\ lease[a].run = r
                      /\ lease[a].from = op[r].accepted}

\* recovered_selection, cleanup_selection: the accounts a resumed operation may
\* go on with; none is a refusal.
RecoveredByLease(r) ==
    IF op[r].step < 0 THEN Eligible(r, op[r].accepted) ELSE Retained(r)
Recovered(r) ==
    IF asg[r] # Nothing THEN {asg[r].account}
    ELSE IF op[r].phase = "cleanup" /\ Retained(r) = {} THEN Eligible(r, op[r].accepted)
    ELSE IF op[r].phase # "cleanup" /\ op[r].step < 0 THEN Eligible(r, op[r].accepted)
    ELSE Retained(r)

Fail(r) == cmd' = [cmd EXCEPT ![r] = Idle]
GoTo(r, pc) == cmd' = [cmd EXCEPT ![r].pc = pc]

\* The effect the command of run r executes next.
AtOrBefore(r, phase, step) ==
    /\ cmd[r].pc = "next" /\ op[r].phase = phase /\ op[r].step + 1 >= step
At(r, phase, step) ==
    /\ cmd[r].pc = "next" /\ op[r].phase = phase /\ op[r].step + 1 = step

-----------------------------------------------------------------------------
(* The command                                                              *)

\* fresh_provision: select at the instant the operation is accepted, and persist
\* the operation.
Fresh(r) ==
    /\ cmd[r] = Idle /\ op[r] = Nothing /\ asg[r] = Nothing
    /\ \E a \in Eligible(r, clock) :
           cmd' = [cmd EXCEPT ![r] = [pc |-> "next", account |-> a, recovering |-> FALSE]]
    /\ op' = [op EXCEPT ![r] = [phase |-> "start", step |-> -1, accepted |-> clock]]
    /\ UNCHANGED <<clock, files, role, crashes, fails>>

\* resume_provision: the stored operation is driven on from its checkpoint.
Resume(r) ==
    /\ cmd[r] = Idle /\ op[r] # Nothing
    /\ \E a \in Recovered(r) :
           cmd' = [cmd EXCEPT ![r] =
                      [pc |-> "next", account |-> a, recovering |-> asg[r] # Nothing]]
    /\ UNCHANGED <<clock, files, op, role, crashes, fails>>

\* lease_create, first half: decide on the lease that stands.
PlanLease(r) ==
    LET held == lease[cmd[r].account] IN
    /\ At(r, "start", 0)
    /\ \/ held = PlannedLease(r) /\ GoTo(r, "checkpoint")
       \/ held # PlannedLease(r) /\ Live(held, op[r].accepted) /\ Fail(r)
       \/ ~Live(held, op[r].accepted) /\ held # PlannedLease(r) /\ GoTo(r, "write")
    /\ UNCHANGED <<clock, files, op, role, crashes, fails>>

\* settle_record, second half: the file is replaced, whatever it holds by now.
WriteLease(r) ==
    /\ cmd[r].pc = "write"
    /\ lease' = [lease EXCEPT ![cmd[r].account] = PlannedLease(r)]
    /\ GoTo(r, "checkpoint")
    /\ UNCHANGED <<clock, asg, evidence, target, assigned, op, role, crashes, fails>>

\* prepared_assignment_create: bound to the window of the lease that stands.
BindAssignment(r) ==
    LET held == lease[cmd[r].account] IN
    /\ At(r, "start", 1)
    /\ \/ held = Nothing /\ Fail(r) /\ UNCHANGED asg
       \/ held # Nothing /\ asg[r] # Nothing /\ GoTo(r, "checkpoint") /\ UNCHANGED asg
       \/ /\ held # Nothing /\ asg[r] = Nothing
          /\ asg' = [asg EXCEPT ![r] =
                 [account |-> cmd[r].account, until |-> held.until, at |-> Never,
                  status |-> "prepared"]]
          /\ GoTo(r, "checkpoint")
    /\ UNCHANGED <<clock, lease, evidence, target, assigned, op, role, crashes, fails>>

\* target_write_state: evidence of another binding is refused.
OtherBinding(r) == evidence[r] # Nothing /\ evidence[r].account # asg[r].account

\* target_write, provision_target: the role inherits the lock of the target; the
\* prerequisites, the lock or the launch may refuse before it runs.
LaunchRole(r) ==
    /\ At(r, "start", 2) /\ ~cmd[r].recovering /\ asg[r] # Nothing /\ ~OtherBinding(r)
    /\ \/ /\ role[r] = Nothing
          /\ role' = [role EXCEPT ![r] =
                 [pc |-> "staging", account |-> cmd[r].account, until |-> asg[r].until]]
          /\ GoTo(r, "wait") /\ UNCHANGED fails
       \/ /\ fails < MaxFail /\ fails' = fails + 1
          /\ GoTo(r, "clean") /\ UNCHANGED role
    /\ UNCHANGED <<clock, files, op, crashes>>

\* classify_role_outcome: the role's answer; it exits and the lock is free.
RoleAnswers(r) ==
    /\ cmd[r].pc = "wait" /\ role[r] # Nothing
    /\ \/ role[r].pc = "committed" /\ GoTo(r, "checkpoint")
       \/ role[r].pc = "uncommitted" /\ GoTo(r, "clean")
    /\ role' = [role EXCEPT ![r] = Nothing]
    /\ UNCHANGED <<clock, files, op, crashes, fails>>

\* try_lock: a lock that is held is a role that may still be writing.
LockIgnored(r) == TRUE
LockFree(r) == role[r] = Nothing

\* _reconcile_armed: the bytes at the destination decide what an armed write did.
NeverMatches(r) == FALSE
Matches(r) == target[r] = evidence[r].account

\* target_status: a resumed command asks what its predecessor's role did.
Status(r) ==
    LET known == evidence[r]
        landed == known # Nothing /\ (known.status = "armed" => Matches(r))
                                  /\ known.status # "prepared"
    IN
    /\ At(r, "start", 2) /\ cmd[r].recovering /\ asg[r] # Nothing /\ ~OtherBinding(r)
    /\ \/ ~LockFree(r) /\ Fail(r) /\ UNCHANGED evidence
       \/ /\ LockFree(r) /\ landed
          /\ evidence' = [evidence EXCEPT ![r] = [@ EXCEPT !.status = "committed"]]
          /\ GoTo(r, "checkpoint")
       \/ /\ LockFree(r) /\ ~landed
          /\ evidence' = [evidence EXCEPT ![r] = Nothing]
          /\ GoTo(r, "clean")
    /\ UNCHANGED <<clock, lease, asg, target, assigned, op, role, crashes, fails>>

\* transition_operation on pre-commit-failure: cleanup replaces start.
InstallCleanup(r) ==
    /\ cmd[r].pc = "clean"
    /\ op' = [op EXCEPT ![r] = [@ EXCEPT !.phase = "cleanup", !.step = -1]]
    /\ GoTo(r, "next")
    /\ UNCHANGED <<clock, files, role, crashes, fails>>

\* assignment_commit: at the instant the evidence names.
CommitAssignment(r) ==
    LET known == evidence[r] IN
    /\ At(r, "postcommit", 0)
    /\ \/ /\ known # Nothing /\ asg[r] # Nothing /\ asg[r].status = "prepared"
          /\ asg' = [asg EXCEPT ![r] = [@ EXCEPT !.at = known.at, !.status = "committed"]]
          /\ GoTo(r, "checkpoint")
       \/ /\ known # Nothing /\ asg[r] # Nothing /\ asg[r].status # "prepared"
          /\ asg[r].at = known.at
          /\ GoTo(r, "checkpoint") /\ UNCHANGED asg
       \/ /\ known = Nothing \/ asg[r] = Nothing \/ asg[r].at \notin {Never, known.at}
          /\ Fail(r) /\ UNCHANGED asg
    /\ UNCHANGED <<clock, lease, evidence, target, assigned, op, role, crashes, fails>>

\* selection_update: the later of the two instants, under the selection lock.
UpdateSelection(r) ==
    LET a == asg[r].account IN
    /\ At(r, "postcommit", 1)
    /\ assigned' = [assigned EXCEPT ![a] = IF asg[r].at > @ THEN asg[r].at ELSE @]
    /\ GoTo(r, "checkpoint")
    /\ UNCHANGED <<clock, lease, asg, evidence, target, op, role, crashes, fails>>

\* proof_update: a monotone merge into a record nothing here reads.
UpdateProof(r) ==
    /\ At(r, "postcommit", 2)
    /\ GoTo(r, "checkpoint")
    /\ UNCHANGED <<clock, files, op, role, crashes, fails>>

\* prepared_assignment_discard: never a committed one.
DiscardAssignment(r) ==
    /\ At(r, "cleanup", 0)
    /\ \/ asg[r] = Nothing /\ GoTo(r, "checkpoint") /\ UNCHANGED asg
       \/ /\ asg[r] # Nothing /\ asg[r].status = "prepared"
          /\ asg' = [asg EXCEPT ![r] = Nothing] /\ GoTo(r, "checkpoint")
       \/ asg[r] # Nothing /\ asg[r].status # "prepared" /\ Fail(r) /\ UNCHANGED asg
    /\ UNCHANGED <<clock, lease, evidence, target, assigned, op, role, crashes, fails>>

-----------------------------------------------------------------------------
(* Release, and the closing of a run                                        *)

BoundAccount(r) == IF asg[r] # Nothing THEN asg[r].account ELSE cmd[r].account
OwnLease(r) == lease[BoundAccount(r)] # Nothing /\ lease[BoundAccount(r)].run = r

\* A consumer reports, completes or expires its run (ReportOperation): its lease is
\* released and its tombstone written.
Close(r) ==
    /\ cmd[r] = Idle /\ op[r] = Nothing /\ asg[r] # Nothing /\ asg[r].status = "committed"
    /\ GoTo(r, "close")
    /\ UNCHANGED <<clock, files, op, role, crashes, fails>>

Released(r) ==
    IF op[r] # Nothing
      THEN GoTo(r, "checkpoint") /\ UNCHANGED asg
      ELSE Fail(r) /\ asg' = [asg EXCEPT ![r] = [@ EXCEPT !.status = "closed"]]

\* release_lease, first half: only a lease of this run is to be unlinked.
PlanRelease(r) ==
    /\ At(r, "cleanup", 1) \/ cmd[r].pc = "close"
    /\ \/ OwnLease(r) /\ GoTo(r, "unlink") /\ UNCHANGED asg
       \/ ~OwnLease(r) /\ Released(r)
    /\ UNCHANGED <<clock, lease, evidence, target, assigned, op, role, crashes, fails>>

\* release_lease, second half: the path is unlinked, whatever it holds by now.
UnlinkLease(r) ==
    /\ cmd[r].pc = "unlink"
    /\ lease' = [lease EXCEPT ![BoundAccount(r)] = Nothing]
    /\ Released(r)
    /\ UNCHANGED <<clock, evidence, target, assigned, op, role, crashes, fails>>

\* checkpoint_step.
Checkpoint(r) ==
    /\ cmd[r].pc = "checkpoint"
    /\ op' = [op EXCEPT ![r].step = @ + 1]
    /\ GoTo(r, "next")
    /\ UNCHANGED <<clock, files, role, crashes, fails>>

\* transition_operation once every effect of the phase is committed.
Advance(r) ==
    /\ cmd[r].pc = "next" /\ op[r].step = LastStep(op[r].phase)
    /\ \/ /\ op[r].phase = "start"
          /\ op' = [op EXCEPT ![r] = [@ EXCEPT !.phase = "postcommit", !.step = -1]]
          /\ UNCHANGED cmd
       \/ /\ op[r].phase # "start"
          /\ op' = [op EXCEPT ![r] = Nothing]
          /\ Fail(r)
    /\ UNCHANGED <<clock, files, role, crashes, fails>>

Step(r) ==
    \/ PlanLease(r) \/ WriteLease(r) \/ BindAssignment(r) \/ LaunchRole(r) \/ RoleAnswers(r)
    \/ Status(r) \/ InstallCleanup(r) \/ CommitAssignment(r) \/ UpdateSelection(r)
    \/ UpdateProof(r) \/ DiscardAssignment(r) \/ PlanRelease(r) \/ UnlinkLease(r)
    \/ Checkpoint(r) \/ Advance(r)

-----------------------------------------------------------------------------
(* The final-provisioning role                                              *)

\* is_at_or_after: the role writes only before the lease ends.
ArmsAnyway(r) == TRUE
InLease(r) == clock < role[r].until

RoleAt(r, pc) == role[r] # Nothing /\ role[r].pc = pc
RoleGoes(r, pc) == role' = [role EXCEPT ![r].pc = pc]

\* commit_with_evidence: the bytes are staged and the attempt recorded; a refusal
\* of the store, or of staging, leaves nothing behind.
RoleStages(r) ==
    /\ RoleAt(r, "staging")
    /\ \/ /\ clock < role[r].until
          /\ evidence' = [evidence EXCEPT ![r] =
                 [status |-> "prepared", account |-> role[r].account, at |-> Never]]
          /\ RoleGoes(r, "prepared") /\ UNCHANGED fails
       \/ /\ clock >= role[r].until
          /\ RoleGoes(r, "uncommitted") /\ UNCHANGED <<evidence, fails>>
       \/ /\ fails < MaxFail /\ fails' = fails + 1
          /\ RoleGoes(r, "uncommitted") /\ UNCHANGED evidence
    /\ UNCHANGED <<clock, lease, asg, target, assigned, op, cmd, crashes>>

\* _finish_commit: the time is sampled again, and is the instant of the commit.
RoleArms(r) ==
    /\ RoleAt(r, "prepared")
    /\ \/ /\ InLease(r)
          /\ evidence' = [evidence EXCEPT ![r] = [@ EXCEPT !.status = "armed", !.at = clock]]
          /\ RoleGoes(r, "armed") /\ UNCHANGED fails
       \/ /\ ~InLease(r)
          /\ evidence' = [evidence EXCEPT ![r] = Nothing]
          /\ RoleGoes(r, "uncommitted") /\ UNCHANGED fails
       \/ /\ fails < MaxFail /\ fails' = fails + 1
          /\ evidence' = [evidence EXCEPT ![r] = Nothing]
          /\ RoleGoes(r, "uncommitted")
    /\ UNCHANGED <<clock, lease, asg, target, assigned, op, cmd, crashes>>

\* replace_staged_target
RoleReplaces(r) ==
    /\ RoleAt(r, "armed")
    /\ target' = [target EXCEPT ![r] = role[r].account]
    /\ RoleGoes(r, "replaced")
    /\ UNCHANGED <<clock, lease, asg, evidence, assigned, op, cmd, crashes, fails>>

RoleAcknowledges(r) ==
    /\ RoleAt(r, "replaced")
    /\ evidence' = [evidence EXCEPT ![r] = [@ EXCEPT !.status = "committed"]]
    /\ RoleGoes(r, "committed")
    /\ UNCHANGED <<clock, lease, asg, target, assigned, op, cmd, crashes, fails>>

\* The role of a command that died ends with no one to answer.
RoleExits(r) ==
    /\ cmd[r].pc # "wait" /\ (RoleAt(r, "committed") \/ RoleAt(r, "uncommitted"))
    /\ role' = [role EXCEPT ![r] = Nothing]
    /\ UNCHANGED <<clock, files, op, cmd, crashes, fails>>

\* The role fails, or is killed at its deadline, wherever it is: the command that
\* waits learns nothing and leaves its operation as it stands.
RoleDies(r) ==
    /\ role[r] # Nothing /\ fails < MaxFail
    /\ fails' = fails + 1
    /\ role' = [role EXCEPT ![r] = Nothing]
    /\ IF cmd[r].pc = "wait" THEN Fail(r) ELSE UNCHANGED cmd
    /\ UNCHANGED <<clock, files, op, crashes>>

RoleStep(r) ==
    RoleStages(r) \/ RoleArms(r) \/ RoleReplaces(r) \/ RoleAcknowledges(r) \/ RoleExits(r)

-----------------------------------------------------------------------------
(* The world                                                                *)

\* The command dies; its files, and a role it launched, remain.
Crash(r) ==
    /\ cmd[r] # Idle /\ crashes < MaxCrash
    /\ crashes' = crashes + 1
    /\ Fail(r)
    /\ UNCHANGED <<clock, files, op, role, fails>>

Tick ==
    /\ clock < MaxClock
    /\ clock' = clock + 1
    /\ UNCHANGED <<files, op, cmd, role, crashes, fails>>

Next ==
    \/ \E r \in Runs : \/ Fresh(r) \/ Resume(r) \/ Close(r) \/ Crash(r) \/ RoleDies(r)
                       \/ Step(r) \/ RoleStep(r)
    \/ Tick

Spec == Init /\ [][Next]_vars

\* A command and a role run on; a consumer repeats its provision until it has a
\* receipt.
FairSpec ==
    /\ Spec
    /\ \A r \in Runs : WF_vars(Step(r)) /\ WF_vars(RoleStep(r)) /\ SF_vars(Resume(r))

-----------------------------------------------------------------------------
(* What must hold                                                           *)

TypeOK ==
    /\ clock \in Clock /\ crashes \in 0..MaxCrash /\ fails \in 0..MaxFail
    /\ lease \in [Accounts -> Leases \cup {Nothing}]
    /\ asg \in [Runs -> Assignments \cup {Nothing}]
    /\ evidence \in [Runs -> Evidence \cup {Nothing}]
    /\ target \in [Runs -> Accounts \cup {Nothing}]
    /\ assigned \in [Accounts -> Instants]
    /\ op \in [Runs -> Operations \cup {Nothing}]
    /\ cmd \in [Runs -> Commands]
    /\ role \in [Runs -> Roles \cup {Nothing}]

\* A credential that reached a target is bound: cleanup never takes back the
\* assignment of a write that did happen, whoever of the role and its command died.
WrittenIsBound ==
    \A r \in Runs : target[r] # Nothing => asg[r] # Nothing /\ asg[r].account = target[r]

\* While a role may still write, its operation stands at the target write with the
\* assignment prepared: no cleanup, retry or second role overlaps it.
OneWriter ==
    \A r \in Runs : role[r] # Nothing =>
        /\ op[r] # Nothing /\ op[r].phase = "start" /\ op[r].step = 1
        /\ asg[r] # Nothing /\ asg[r].status = "prepared"
        /\ asg[r].account = role[r].account

\* An assignment is committed at the one instant its write was armed at, within
\* the lease it is bound to, however late the command learns of it.
CommittedInLease ==
    \A r \in Runs : asg[r] # Nothing /\ asg[r].status # "prepared" =>
        /\ target[r] = asg[r].account
        /\ evidence[r] # Nothing /\ evidence[r].status = "committed"
        /\ evidence[r].at = asg[r].at
        /\ asg[r].at < asg[r].until

\* A run without a pending operation is answered with the receipt of its assignment:
\* that assignment is then committed, and counted in the selection state.
ReceiptIsCommitted ==
    \A r \in Runs : op[r] = Nothing /\ asg[r] # Nothing =>
        asg[r].status # "prepared" /\ assigned[asg[r].account] >= asg[r].at

\* What the assignment of a run grants it (CredentialGrant), by the files and by
\* whether its operation has ended.
Stage(r) ==
    IF asg[r].status = "prepared" THEN IF target[r] = Nothing THEN "bound" ELSE "placed"
    ELSE IF asg[r].status = "closed" THEN "closed"
    ELSE IF op[r] = Nothing THEN "settled" ELSE "committed"
Instant(r) ==
    IF Stage(r) = "placed" /\ evidence[r] # Nothing THEN evidence[r].at
    ELSE IF asg[r].status = "prepared" THEN Never ELSE asg[r].at
Grant(r) ==
    IF asg[r] = Nothing
    THEN [account |-> Nothing, until |-> 0, stage |-> "none", at |-> Never]
    ELSE [account |-> asg[r].account, until |-> asg[r].until, stage |-> Stage(r),
          at |-> Instant(r)]
Granting == INSTANCE CredentialGrant WITH
    now <- clock, grant <- [r \in Runs |-> Grant(r)], held <- target, latest <- assigned

\* Whichever of a command, its role and its recovery is killed, a provision is one
\* grant: what it placed it bound before, within the lease, and commits, counts and
\* answers for at the instant of the write; it takes back only what it did not place.
KeepsGrant == Granting!Spec

\* A credential that reached its target ends in a committed assignment.
WriteIsCommitted ==
    \A r \in Runs :
        (target[r] # Nothing) ~> (asg[r] # Nothing /\ asg[r].status # "prepared")

-----------------------------------------------------------------------------
(* What the code says, and does not do                                      *)

\* _lpm_effects_provision.py:14: overwriting a live lease would hand two runs the
\* same account; _lpm_leases.py:259: release is never another run's.  No lock spans
\* the reading of a lease and its replacement or removal.
LeaseStands ==
    [][\A a \in Accounts : Live(lease[a], clock) /\ lease'[a] # lease[a] =>
           \E r \in Runs : r = lease[a].run /\ cmd[r].pc \in {"write", "unlink"}]_vars

\* _lpm_effects_provision.py:14: asking again later is the remedy for an account
\* that is leased.  The operation asks at the instant it was accepted at, for which
\* the lease of the other run never lapses.
Free == \E a \in Accounts : ~Live(lease[a], clock)
Unleased(r) == op[r] # Nothing /\ op[r].phase = "start" /\ op[r].step = -1
AskingAgainHelps == \A r \in Runs : (Unleased(r) /\ Free) ~> (~Unleased(r) \/ ~Free)

=============================================================================
