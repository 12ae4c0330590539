-------------------------- MODULE ReportOperation ---------------------------
(***************************************************************************)
(* The report command of the LLM provider manager: consumer runs tell the  *)
(* manager that the credential they were provisioned with failed.  A       *)
(* report is a write-ahead operation of up to eight ordered effects over   *)
(* the credential's append-only revision chain, the audit log, the proof   *)
(* record and the run's assignment, lease and tombstone; a command that    *)
(* dies is resumed from the operation's checkpoint                         *)
(* (overseer/_lpm_runtime_report.py, _lpm_engine.py and the executors).    *)
(*                                                                         *)
(* Every run here was provisioned with one and the same credential record, *)
(* valid at some revision.  The only move a report is admitted is from     *)
(* valid to suspect, so all planned revisions succeed that one revision,   *)
(* and a report never plans again once one of them has landed.             *)
(***************************************************************************)
EXTENDS Integers, FiniteSets

CONSTANTS
    Runs,        \* consumer runs provisioned with the record
    First,       \* the run provisioned with it first
    Reports,     \* distinct reports (time and classification) that are made
    OccurredAt,  \* when its failure happened
    Suspecting,  \* reports whose classification suspects the credential
    LeaseTerm,   \* how long a lease stands
    MaxClock,    \* last reading of the clock
    MaxCrash,    \* commands killed in one behaviour
    MaxLost,     \* adapter calls that end without an answer
    Nothing      \* an absent record, fence, lease or report

ASSUME ReportAssumption ==
    /\ First \in Runs /\ Suspecting \subseteq Reports
    /\ MaxClock \in Nat /\ LeaseTerm \in Nat
    /\ OccurredAt \in [Reports -> 0..MaxClock]
    /\ MaxCrash \in Nat /\ MaxLost \in Nat
    /\ Nothing \notin Runs \cup Reports

VARIABLES
    runOf,     \* the run each report names; chosen once, by the consumers
    clock,
    revised,   \* reports whose revision stands in the chain after the valid one
    inflight,  \* physical creates sent, unanswered, that may still land
    fence,     \* pending-metadata-effects/<record>: the report that claimed it
    audit,     \* audit.jsonl: reports whose attempt is recorded
    proof,     \* coexistence-proof.json: contributions it contains
    asg,       \* assignments/<run>
    tomb,      \* tombstones/<run>
    lease,     \* leases/<account>: the run that holds the account
    ops,       \* operations/<report>: the write-ahead record
    cmd,       \* the command that holds the run's lock, and its local state
    crashes, lost

vars == <<runOf, clock, revised, inflight, fence, audit, proof, asg, tomb, lease, ops, cmd,
          crashes, lost>>

Clock == 0..MaxClock
NotEnded == -1
Ends == 0..(MaxClock + LeaseTerm) \cup {NotEnded}

\* _REPORT_APPLY, by position; a report on a tombstone stops after the markers.
AuditStep == 0
CredentialStep == 1
ProofStep == 2
MarkerStep == 3
EndStep == 4
LeaseStep == 5
TombstoneStep == 6
CloseStep == 7
LastStepSwapped(op) == IF op.live THEN MarkerStep ELSE CloseStep
LastStep(op) == IF op.live THEN CloseStep ELSE MarkerStep

Assignments == [marks : SUBSET Reports, end : Ends, from : Clock, until : Ends]
Tombstones ==
    [marks : SUBSET Reports, end : Ends, from : Clock, until : Ends, closed : Clock]
Operations == [step : -1..CloseStep, live : BOOLEAN, accepted : Clock]
\* Nothing is no record.
ASSUME NothingAssumption == Nothing \notin Assignments \cup Tombstones \cup Operations

Idle == [rep |-> Nothing, pc |-> "idle", lines |-> {}, own |-> FALSE, answer |-> "none"]
Pcs == {"idle", "next", "append", "claim", "call", "create", "answered", "drop", "refuse",
        "unlink", "checkpoint"}
Answers == {"none", "committed", "condition-failed", "unknown"}
Commands == [rep : Reports \cup {Nothing}, pc : Pcs, lines : SUBSET Reports,
             own : BOOLEAN, answer : Answers]

\* What a committed provision at this time leaves for the run.
Provisioned(t) == [marks |-> {}, end |-> NotEnded, from |-> t, until |-> t + LeaseTerm]

Init ==
    /\ runOf \in [Reports -> Runs]
    /\ clock = 0 /\ revised = {} /\ inflight = {} /\ fence = Nothing
    /\ audit = {} /\ proof = {}
    /\ lease = First
    /\ asg = [r \in Runs |-> IF r = First THEN Provisioned(0) ELSE Nothing]
    /\ tomb = [r \in Runs |-> Nothing]
    /\ ops = [a \in Reports |-> Nothing]
    /\ cmd = [r \in Runs |-> Idle]
    /\ crashes = 0 /\ lost = 0

-----------------------------------------------------------------------------
(* What the executors read                                                  *)

\* resolve_chain: two distinct items at one revision make the chain invalid.
ChainValid == Cardinality(revised) <= 1

\* closing_record, report_binding: the tombstone first, else the assignment.
Bound(r) == IF tomb[r] # Nothing THEN tomb[r] ELSE asg[r]

\* close_times: the accepted time, within the lease of the record it closes.
EndFor(op, record) == IF op.accepted <= record.until THEN op.accepted ELSE record.until

\* report_transition: the report owes a revision while the record is valid.
Owes(a) == a \in Suspecting /\ a \notin Bound(runOf[a]).marks /\ revised = {}

\* occurred_within_interval, on the binding report_binding resolves.
InInterval(a) ==
    LET r == runOf[a]
        closes == IF tomb[r] # Nothing THEN tomb[r].end ELSE asg[r].until
    IN Bound(r).from <= OccurredAt[a] /\ OccurredAt[a] <= clock /\ OccurredAt[a] <= closes

\* The effect the command of run r executes next.
At(r, step) ==
    /\ cmd[r].pc = "next" /\ step <= LastStep(ops[cmd[r].rep])
    /\ ops[cmd[r].rep].step + 1 = step

\* The command returns its refusal, releasing the run lock; the operation stays.
Fail(r) == cmd' = [cmd EXCEPT ![r] = Idle]
Done(r) == cmd' = [cmd EXCEPT ![r].pc = "checkpoint"]
GoTo(r, pc) == cmd' = [cmd EXCEPT ![r].pc = pc]

-----------------------------------------------------------------------------
(* The command                                                              *)

\* _fresh_report: no operation is pending under this key, the marker is new.
Accept(a) ==
    LET r == runOf[a] IN
    /\ cmd[r] = Idle /\ ops[a] = Nothing
    /\ Bound(r) # Nothing /\ a \notin Bound(r).marks /\ InInterval(a)
    /\ ops' = [ops EXCEPT ![a] =
           [step |-> -1, live |-> tomb[r] = Nothing, accepted |-> clock]]
    /\ cmd' = [cmd EXCEPT ![r] = [Idle EXCEPT !.rep = a, !.pc = "next"]]
    /\ UNCHANGED <<runOf, clock, revised, inflight, fence, audit, proof, asg, tomb,
                   lease, crashes, lost>>

\* _resume_report: the stored operation is driven on from its checkpoint.
Resume(a) ==
    LET r == runOf[a] IN
    /\ cmd[r] = Idle /\ ops[a] # Nothing /\ Bound(r) # Nothing
    /\ cmd' = [cmd EXCEPT ![r] = [Idle EXCEPT !.rep = a, !.pc = "next"]]
    /\ UNCHANGED <<runOf, clock, revised, inflight, fence, audit, proof, asg, tomb,
                   lease, ops, crashes, lost>>

\* audit_append, first half: plan the line and read the whole file.
PlanAudit(r) ==
    LET a == cmd[r].rep IN
    /\ At(r, AuditStep)
    /\ \/ ~ChainValid /\ Fail(r)
       \/ ChainValid /\ (~Owes(a) \/ a \in audit) /\ Done(r)
       \/ /\ ChainValid /\ Owes(a) /\ a \notin audit
          /\ cmd' = [cmd EXCEPT ![r].pc = "append", ![r].lines = audit]
    /\ UNCHANGED <<runOf, clock, revised, inflight, fence, audit, proof, asg, tomb,
                   lease, ops, crashes, lost>>

\* append_audit_entry: the file is replaced by what was read and the new line.
AuditFileAnew(r) == {cmd[r].rep}
AuditFile(r) == cmd[r].lines \cup {cmd[r].rep}
AppendAudit(r) ==
    /\ cmd[r].pc = "append"
    /\ audit' = AuditFile(r)
    /\ Done(r)
    /\ UNCHANGED <<runOf, clock, revised, inflight, fence, proof, asg, tomb, lease,
                   ops, crashes, lost>>

\* claim_fence: the fence found is byte-identical to the one planned.
NeverInherited(a) == FALSE
Inherited(a) == fence = a

\* credential_conditional_set: a revision that is owed needs the fence.  The file
\* is read here and written a step later.
PlanSet(r) ==
    LET a == cmd[r].rep IN
    /\ At(r, CredentialStep) /\ ChainValid /\ Owes(a)
    /\ \/ fence = Nothing /\ GoTo(r, "claim")
       \/ Inherited(a) /\ GoTo(r, "call")
       \/ fence # Nothing /\ ~Inherited(a) /\ Fail(r)
    /\ UNCHANGED <<runOf, clock, revised, inflight, fence, audit, proof, asg, tomb,
                   lease, ops, crashes, lost>>

\* _settled: no revision is owed; a fence of one's own is dropped once the
\* revision it guards is the current one.
Settle(r) ==
    LET a == cmd[r].rep IN
    /\ At(r, CredentialStep) /\ (ChainValid => ~Owes(a))
    /\ \/ ChainValid /\ fence = Nothing /\ Done(r) /\ UNCHANGED fence
       \/ ChainValid /\ fence = a /\ revised = {a} /\ Done(r) /\ fence' = Nothing
       \/ ~ChainValid /\ Fail(r) /\ UNCHANGED fence
       \/ fence # Nothing /\ (fence = a => revised # {a}) /\ Fail(r) /\ UNCHANGED fence
    /\ UNCHANGED <<runOf, clock, revised, inflight, audit, proof, asg, tomb, lease,
                   ops, crashes, lost>>

\* claim_fence, second half: written because the reading found none.
Claim(r) ==
    /\ cmd[r].pc = "claim"
    /\ fence' = cmd[r].rep
    /\ cmd' = [cmd EXCEPT ![r].pc = "call", ![r].own = TRUE]
    /\ UNCHANGED <<runOf, clock, revised, inflight, audit, proof, asg, tomb, lease,
                   ops, crashes, lost>>

\* conditional_set_answer: the adapter reads the chain again before it creates;
\* the call may also end without reaching that far.
Call(r) ==
    LET a == cmd[r].rep
        Answer(answer) == cmd' = [cmd EXCEPT ![r].pc = "answered", ![r].answer = answer]
    IN
    /\ cmd[r].pc = "call"
    /\ \/ ~ChainValid /\ Answer("unknown") /\ UNCHANGED lost
       \/ lost < MaxLost /\ Answer("unknown") /\ lost' = lost + 1
       \/ revised = {a} /\ Answer("committed") /\ UNCHANGED lost
       \/ ChainValid /\ revised \notin {{}, {a}} /\ Answer("condition-failed") /\ UNCHANGED lost
       \/ revised = {} /\ GoTo(r, "create") /\ UNCHANGED lost
    /\ UNCHANGED <<runOf, clock, revised, inflight, fence, audit, proof, asg, tomb,
                   lease, ops, crashes>>

\* access.create: the item lands and is acknowledged, or the role's deadline ends
\* the call with the item landed or still on its way.
Create(r) ==
    LET a == cmd[r].rep
        Answer(answer) == cmd' = [cmd EXCEPT ![r].pc = "answered", ![r].answer = answer]
    IN
    /\ cmd[r].pc = "create"
    /\ \/ /\ Answer("committed") /\ revised' = revised \cup {a}
          /\ UNCHANGED <<inflight, lost>>
       \/ /\ lost < MaxLost /\ lost' = lost + 1
          /\ Answer("unknown")
          /\ \/ revised' = revised \cup {a} /\ UNCHANGED inflight
             \/ inflight' = inflight \cup {a} /\ UNCHANGED revised
    /\ UNCHANGED <<runOf, clock, fence, audit, proof, asg, tomb, lease, ops, crashes>>

DecidedByAnswer(a, answer, own) ==
    IF answer \in {"committed", "unknown"} THEN <<"advance", FALSE>>
    ELSE <<"unavailable", TRUE>>
DecidedForgetful(a, answer, own) ==
    IF revised = {a} THEN <<"advance", FALSE>>
    ELSE IF answer = "unknown" /\ own THEN <<"unavailable", FALSE>>
    ELSE <<"unavailable", TRUE>>
\* _decided: what the authoritative reread and the answer together permit.  TRUE
\* in the second place keeps the fence.
Decided(a, answer, own) ==
    IF revised = {a} THEN <<"advance", FALSE>>
    ELSE IF answer \in {"committed", "unknown"} \/ ~ChainValid THEN <<"unavailable", TRUE>>
    ELSE IF ~own THEN <<"unavailable", TRUE>>
    ELSE IF revised # {} THEN <<"condition-failed", FALSE>>
    ELSE <<"unavailable", TRUE>>

\* reconcile_conditional_set after authoritative_reread.
Reread(r) ==
    LET decision == Decided(cmd[r].rep, cmd[r].answer, cmd[r].own) IN
    /\ cmd[r].pc = "answered"
    /\ \/ decision[2] /\ Fail(r)
       \/ ~decision[2] /\ GoTo(r, IF decision[1] = "advance" THEN "drop" ELSE "refuse")
    /\ UNCHANGED <<runOf, clock, revised, inflight, fence, audit, proof, asg, tomb,
                   lease, ops, crashes, lost>>

\* resolve_fence: the file is unlinked, whoever wrote it last.
DropFence(r) ==
    /\ cmd[r].pc \in {"drop", "refuse"}
    /\ fence' = Nothing
    /\ IF cmd[r].pc = "drop" THEN Done(r) ELSE Fail(r)
    /\ UNCHANGED <<runOf, clock, revised, inflight, audit, proof, asg, tomb, lease,
                   ops, crashes, lost>>

-----------------------------------------------------------------------------
(* The run's own records, under the run lock                                *)

\* proof_update: a monotone merge under the proof record's lock.
ProofUpdate(r) ==
    /\ At(r, ProofStep)
    /\ proof' = proof \cup {cmd[r].rep}
    /\ Done(r)
    /\ UNCHANGED <<runOf, clock, revised, inflight, fence, audit, asg, tomb, lease,
                   ops, crashes, lost>>

\* settle_closing_update: write back to the family closing_record resolved.
Update(r, member, value) ==
    /\ IF tomb[r] # Nothing
         THEN /\ tomb' = [tomb EXCEPT ![r] = [@ EXCEPT ![member] = value]]
              /\ UNCHANGED asg
         ELSE /\ asg' = [asg EXCEPT ![r] = [@ EXCEPT ![member] = value]]
              /\ UNCHANGED tomb
    /\ Done(r)
    /\ UNCHANGED <<runOf, clock, revised, inflight, fence, audit, proof, lease, ops, crashes, lost>>

\* report_marker_update
MarkerUpdate(r) ==
    /\ At(r, MarkerStep)
    /\ Update(r, "marks", Bound(r).marks \cup {cmd[r].rep})

\* assignment_end_update
EndUpdate(r) ==
    /\ At(r, EndStep)
    /\ Update(r, "end", EndFor(ops[cmd[r].rep], Bound(r)))

\* release_lease, first half: only a lease of this run is to be unlinked.
PlanRelease(r) ==
    /\ At(r, LeaseStep)
    /\ \/ lease = r /\ GoTo(r, "unlink")
       \/ lease # r /\ Done(r)
    /\ UNCHANGED <<runOf, clock, revised, inflight, fence, audit, proof, asg, tomb, lease,
                   ops, crashes, lost>>

\* release_lease, second half: the path is unlinked, whatever it holds by now.
UnlinkLease(r) ==
    /\ cmd[r].pc = "unlink"
    /\ lease' = Nothing
    /\ Done(r)
    /\ UNCHANGED <<runOf, clock, revised, inflight, fence, audit, proof, asg, tomb,
                   ops, crashes, lost>>

\* _tombstone_decision: the tombstone that stands is the one planned.
AnyTombstone(r, planned) == TRUE
NoOtherTombstone(r, planned) == tomb[r] \in {Nothing, planned}

\* tombstone_create: from the live assignment, unless another one stands.
TombstoneCreate(r) ==
    LET op == ops[cmd[r].rep]
        planned == [marks |-> asg[r].marks, end |-> EndFor(op, asg[r]), from |-> asg[r].from,
                    until |-> asg[r].until, closed |-> op.accepted]
    IN
    /\ At(r, TombstoneStep)
    /\ \/ asg[r] = Nothing /\ Done(r) /\ UNCHANGED tomb
       \/ /\ asg[r] # Nothing /\ NoOtherTombstone(r, planned)
          /\ tomb' = [tomb EXCEPT ![r] = planned]
          /\ Done(r)
       \/ asg[r] # Nothing /\ ~NoOtherTombstone(r, planned) /\ Fail(r) /\ UNCHANGED tomb
    /\ UNCHANGED <<runOf, clock, revised, inflight, fence, audit, proof, asg, lease,
                   ops, crashes, lost>>

\* assignment_close: only once the tombstone is the authoritative record.
AssignmentClose(r) ==
    /\ At(r, CloseStep)
    /\ \/ /\ tomb[r] # Nothing
          /\ asg' = [asg EXCEPT ![r] = Nothing]
          /\ Done(r)
       \/ tomb[r] = Nothing /\ Fail(r) /\ UNCHANGED asg
    /\ UNCHANGED <<runOf, clock, revised, inflight, fence, audit, proof, tomb, lease,
                   ops, crashes, lost>>

\* checkpoint_step, and finish_operation after the last one.
AdvancedPastEnd(op) == LastStep(op) + 1
Advanced(op) == op.step + 1
Checkpoint(r) ==
    LET a == cmd[r].rep IN
    /\ cmd[r].pc = "checkpoint"
    /\ ops' = [ops EXCEPT ![a].step = Advanced(ops[a])]
    /\ cmd' = [cmd EXCEPT ![r] = [Idle EXCEPT !.rep = a, !.pc = "next"]]
    /\ UNCHANGED <<runOf, clock, revised, inflight, fence, audit, proof, asg, tomb,
                   lease, crashes, lost>>

Finish(r) ==
    LET a == cmd[r].rep IN
    /\ cmd[r].pc = "next" /\ ops[a].step = LastStep(ops[a])
    /\ ops' = [ops EXCEPT ![a] = Nothing]
    /\ Fail(r)
    /\ UNCHANGED <<runOf, clock, revised, inflight, fence, audit, proof, asg, tomb,
                   lease, crashes, lost>>

Step(r) ==
    \/ PlanAudit(r) \/ AppendAudit(r) \/ PlanSet(r) \/ Settle(r) \/ Claim(r) \/ Call(r)
    \/ Create(r) \/ Reread(r) \/ DropFence(r) \/ ProofUpdate(r) \/ MarkerUpdate(r)
    \/ EndUpdate(r) \/ PlanRelease(r) \/ UnlinkLease(r) \/ TombstoneCreate(r)
    \/ AssignmentClose(r) \/ Checkpoint(r) \/ Finish(r)

-----------------------------------------------------------------------------
(* The world                                                                *)

\* The command dies; its operation record and the fence stay on disk, and a
\* create it had sent may still be on its way.
Crash(r) ==
    /\ cmd[r] # Idle /\ crashes < MaxCrash
    /\ crashes' = crashes + 1
    /\ Fail(r)
    /\ \/ UNCHANGED inflight
       \/ cmd[r].pc = "create" /\ inflight' = inflight \cup {cmd[r].rep}
    /\ UNCHANGED <<runOf, clock, revised, fence, audit, proof, asg, tomb, lease, ops, lost>>

\* A create that was not answered lands; a byte-identical copy collapses.
Land(a) ==
    /\ a \in inflight
    /\ inflight' = inflight \ {a}
    /\ revised' = revised \cup {a}
    /\ UNCHANGED <<runOf, clock, fence, audit, proof, asg, tomb, lease, ops, cmd,
                   crashes, lost>>

\* A provision commits an assignment of this record to a run that had none: the
\* account is free, or its lease has expired (acquire_lease).
Provision(r) ==
    /\ \A holder \in Runs : lease = holder => clock >= asg[holder].until
    /\ asg[r] = Nothing /\ tomb[r] = Nothing
    /\ lease' = r
    /\ asg' = [asg EXCEPT ![r] = Provisioned(clock)]
    /\ UNCHANGED <<runOf, clock, revised, inflight, fence, audit, proof, tomb, ops,
                   cmd, crashes, lost>>

Tick ==
    /\ clock < MaxClock
    /\ clock' = clock + 1
    /\ UNCHANGED <<runOf, revised, inflight, fence, audit, proof, asg, tomb, lease,
                   ops, cmd, crashes, lost>>

Next ==
    \/ \E a \in Reports : Accept(a) \/ Resume(a) \/ Land(a)
    \/ \E r \in Runs : Step(r) \/ Crash(r) \/ Provision(r)
    \/ Tick

Spec == Init /\ [][Next]_vars

\* A consumer repeats its report until it is acknowledged, and a command runs on.
FairSpec ==
    /\ Spec
    /\ \A r \in Runs : WF_vars(Step(r))
    /\ \A a \in Reports : SF_vars(Resume(a))

-----------------------------------------------------------------------------
(* What must hold                                                           *)

TypeOK ==
    /\ runOf \in [Reports -> Runs]
    /\ clock \in Clock /\ crashes \in 0..MaxCrash /\ lost \in 0..MaxLost
    /\ revised \subseteq Reports /\ inflight \subseteq Reports
    /\ audit \subseteq Reports /\ proof \subseteq Reports
    /\ fence \in Reports \cup {Nothing} /\ lease \in Runs \cup {Nothing}
    /\ asg \in [Runs -> Assignments \cup {Nothing}]
    /\ tomb \in [Runs -> Tombstones \cup {Nothing}]
    /\ ops \in [Reports -> Operations \cup {Nothing}]
    /\ cmd \in [Runs -> Commands]

\* The durable fact each ordered effect establishes; others' reports may have
\* established it first.
Holds(a, step) ==
    LET r == runOf[a] IN
    CASE step = AuditStep      -> TRUE
      [] step = CredentialStep -> a \in Suspecting => revised # {}
      [] step = ProofStep      -> a \in proof
      [] step = MarkerStep     -> a \in Bound(r).marks
      [] step = EndStep        -> Bound(r).end # NotEnded
      [] step = LeaseStep      -> lease # r
      [] step = TombstoneStep  -> tomb[r] # Nothing
      [] step = CloseStep      -> asg[r] = Nothing

\* _lpm_operation_replay: a loss at any point leaves the record at the last
\* committed position or one behind it, never ahead of the world.
CheckpointNeverAhead ==
    \A a \in Reports : ops[a] # Nothing =>
        \A step \in AuditStep..CloseStep : step <= ops[a].step => Holds(a, step)

\* A report whose operation is gone was applied: its run is closed, and does not
\* hold the account.
AppliedReportHolds ==
    \A a \in Reports :
        Bound(runOf[a]) # Nothing /\ a \in Bound(runOf[a]).marks /\ ops[a] = Nothing =>
            /\ tomb[runOf[a]] # Nothing /\ lease # runOf[a]
            /\ a \in proof /\ (a \in Suspecting => revised # {})

\* The reports are about one run, whose lock serializes their commands.
Serial == \A a, b \in Reports : runOf[a] = runOf[b]

\* A create that may still land is guarded by its fence, or is a copy of the
\* revision the chain already has: no other report of the run appends in the
\* meantime, and the chain stays valid whatever is lost, late or repeated.
FenceGuards ==
    Serial => /\ ChainValid
              /\ \A a \in inflight : fence = a \/ revised = {a}

\* A credential mutation is attempted only when its attempt is on record.
AuditPrecedesCreate == Serial => revised \cup inflight \subseteq audit

\* A run that was bound stays bound, through the hand-over from the assignment to
\* the tombstone, and no report it was told of is forgotten.
BindingOnlyGrows ==
    [][\A r \in Runs : Bound(r) # Nothing =>
           Bound(r)' # Nothing /\ Bound(r).marks \subseteq Bound(r)'.marks]_vars

\* How far a report is, and what binds a run (ReportLedger), by the files.
Told(a) ==
    IF ops[a] # Nothing THEN "pending"
    ELSE IF Bound(runOf[a]) # Nothing /\ a \in Bound(runOf[a]).marks THEN "applied"
    ELSE "unknown"
Binding(r) ==
    IF Bound(r) = Nothing
    THEN [marks |-> {}, end |-> NotEnded, until |-> 0, state |-> "unbound"]
    ELSE [marks |-> Bound(r).marks, end |-> Bound(r).end, until |-> Bound(r).until,
          state |-> IF tomb[r] = Nothing THEN "open" ELSE "closed"]
Ledger == INSTANCE ReportLedger WITH
    now <- clock, about <- runOf, told <- [a \in Reports |-> Told(a)],
    binding <- [r \in Runs |-> Binding(r)], holder <- lease, suspect <- revised # {},
    counted <- proof

\* Wherever its commands are killed and whatever is lost, a report is taken up once
\* and applied once, its effects in their order: the run it names is marked, ended,
\* let go of and closed, and never loses a mark or its binding.
ReportsApply == Ledger!Spec

\* A report accepted for a live assignment closes the run, whatever was lost.
ReportClosesRun ==
    \A a \in Reports :
        (Serial /\ ops[a] # Nothing /\ ops[a].live) ~> (tomb[runOf[a]] # Nothing)

-----------------------------------------------------------------------------
(* What the contract says, and the code does otherwise                      *)

\* contracts.md 1536: report takes the credential's per-record serialization and
\* holds it through the audit and the conditional set; reports of two runs that
\* held the record overlap and give its chain two revisions at one place, after
\* which resolve_chain refuses every mutation of the record.
ChainStaysValid == ChainValid

\* contracts.md 1536: every command resumes the run's pending operation first; the
\* second report of a run passes it by, and the first is then refused for ever.
ReportEnds == \A a \in Reports : (Serial /\ ops[a] # Nothing) ~> (ops[a] = Nothing)

=============================================================================
