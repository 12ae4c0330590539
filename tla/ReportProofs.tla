---------------------------- MODULE ReportProofs ----------------------------
(***************************************************************************)
(* What holds of the report command for any number of runs and reports,    *)
(* wherever a command is killed and however late a create lands.           *)
(***************************************************************************)
EXTENDS ReportOperation, FiniteSetTheorems, TLAPS

-----------------------------------------------------------------------------
(* The inductive invariant                                                  *)

Setting == {"claim", "call", "create", "answered", "drop", "refuse"}

\* A report its run has been told of.
Marked(a) == Bound(runOf[a]) # Nothing /\ a \in Bound(runOf[a]).marks

\* Where a command stands, what it relies on.
Position(r) ==
    LET a == cmd[r].rep
        pc == cmd[r].pc
    IN
    /\ a \in Reports /\ runOf[a] = r /\ ops[a] # Nothing
    /\ pc = "append" => ops[a].step = -1
    /\ pc \in Setting => ops[a].step = 0
    /\ pc = "unlink" => ops[a].step = 4 /\ ops[a].live
    /\ pc = "drop" => revised # {}
    /\ pc = "checkpoint" => ops[a].step < LastStep(ops[a]) /\ Holds(a, ops[a].step + 1)

\* What the operation of a report has established, and what it still owes.
Operation(a) ==
    ops[a] # Nothing =>
        /\ Bound(runOf[a]) # Nothing /\ ops[a].step <= LastStep(ops[a])
        /\ ~ops[a].live => tomb[runOf[a]] # Nothing
        /\ Marked(a) => ops[a].step >= 2
        /\ \A step \in AuditStep..CloseStep : step <= ops[a].step => Holds(a, step)

\* A marked report without an operation left nothing undone.
Applied(a) ==
    Marked(a) /\ ops[a] = Nothing =>
        /\ tomb[runOf[a]] # Nothing /\ lease # runOf[a]
        /\ a \in proof /\ (a \in Suspecting => revised # {})

\* A binding ends at a time, and a closed run holds no account.
Ended(r) ==
    /\ asg[r] # Nothing => asg[r].until # NotEnded
    /\ tomb[r] # Nothing => tomb[r].until # NotEnded /\ lease # r

\* While the reports are about one run, its fence leaves at most one revision and
\* one create that may still land: the fence's own, or a copy of what has landed.
Fenced ==
    /\ \A b, c \in revised \cup inflight : b = c
    /\ fence # Nothing => revised \cup inflight \subseteq {fence}
    /\ fence = Nothing /\ inflight # {} => revised # {}

\* Then, too, no attempt is made, and none is owed any longer, that is not on record.
Audited ==
    /\ revised \cup inflight \subseteq audit
    /\ \A a \in Reports : ops[a] # Nothing /\ ops[a].step >= 0 /\ Owes(a) => a \in audit

\* And the one command that runs may rely on the files it has read.
Alone(r) ==
    LET a == cmd[r].rep
        pc == cmd[r].pc
    IN
    /\ pc = "append" => cmd[r].lines = audit
    /\ pc = "claim" => fence = Nothing /\ revised = {} /\ inflight = {}
    /\ pc \in {"call", "create", "answered", "drop"} => fence = a
    /\ pc \in {"claim", "call", "create"} => a \in audit
    /\ pc = "drop" => revised = {a}
    /\ pc # "refuse"
    /\ pc = "checkpoint" /\ ops[a].step = -1 /\ Owes(a) => a \in audit

IInv ==
    /\ TypeOK
    /\ \A r \in Runs : Ended(r) /\ (cmd[r] = Idle \/ Position(r))
    /\ \A a \in Reports : Operation(a) /\ Applied(a)
    /\ Serial => Fenced /\ Audited /\ \A r \in Runs : cmd[r] = Idle \/ Alone(r)

-----------------------------------------------------------------------------
(* Digests of a step                                                        *)

\* What reports rely on is not taken back.
Grown ==
    /\ runOf' = runOf /\ revised \subseteq revised' /\ proof \subseteq proof'
    /\ \A s \in Runs : Bound(s) # Nothing =>
        /\ Bound(s)' # Nothing /\ Bound(s).marks \subseteq Bound(s)'.marks
        /\ Bound(s).end # NotEnded => Bound(s)'.end # NotEnded
        /\ tomb[s] # Nothing => tomb'[s] # Nothing
        /\ lease # s => lease' # s
        /\ asg[s] = Nothing => asg'[s] = Nothing

\* The types of the files.
Typed ==
    /\ runOf \in [Reports -> Runs]
    /\ clock \in Clock /\ crashes \in 0..MaxCrash /\ lost \in 0..MaxLost
    /\ revised \subseteq Reports /\ inflight \subseteq Reports
    /\ audit \subseteq Reports /\ proof \subseteq Reports
    /\ fence \in Reports \cup {Nothing} /\ lease \in Runs \cup {Nothing}
    /\ asg \in [Runs -> Assignments \cup {Nothing}]
    /\ tomb \in [Runs -> Tombstones \cup {Nothing}]
    /\ ops \in [Reports -> Operations \cup {Nothing}]

LEMMA Assumed ==
    /\ MaxClock \in Nat /\ LeaseTerm \in Nat /\ MaxCrash \in Nat /\ MaxLost \in Nat
    /\ Nothing \notin Runs /\ Nothing \notin Reports /\ Suspecting \subseteq Reports
    /\ Nothing \notin Assignments /\ Nothing \notin Tombstones /\ Nothing \notin Operations
    /\ Idle \in Commands /\ Idle.pc = "idle" /\ Idle.rep = Nothing
<1>1. "idle" \in Pcs /\ "none" \in Answers
  BY DEF Pcs, Answers
<1>2. Idle \in Commands /\ Idle.pc = "idle" /\ Idle.rep = Nothing
  BY <1>1 DEF Idle, Commands
<1> QED
  BY <1>2, ReportAssumption, NothingAssumption

\* A step that leaves these files alone takes nothing back.
LEMMA Still ==
    ASSUME UNCHANGED <<runOf, revised, proof, asg, tomb, lease>>
    PROVE  /\ Grown /\ \A b \in Reports : Marked(b)' => Marked(b)
           /\ \A s \in Runs : Ended(s) => Ended(s)'
  BY DEF Grown, Bound, Marked, Ended

\* A run is told of a report, and what it owes is settled, for good.
LEMMA OwesLess ==
    ASSUME Typed, Grown, NEW a \in Reports, Bound(runOf[a]) # Nothing, Owes(a)'
    PROVE  Owes(a)
<1>1. runOf[a] \in Runs
  BY DEF Typed
<1> QED
  BY <1>1 DEF Grown, Owes

\* What an effect established stays.
LEMMA HoldsOn ==
    ASSUME Typed, Grown, NEW a \in Reports, Bound(runOf[a]) # Nothing,
           NEW step \in AuditStep..CloseStep, Holds(a, step)
    PROVE  Holds(a, step)'
<1> USE DEF AuditStep, CredentialStep, ProofStep, MarkerStep, EndStep, LeaseStep,
            TombstoneStep, CloseStep
<1>1. runOf[a] \in Runs /\ runOf'[a] = runOf[a]
  BY DEF Typed, Grown
<1>2. CASE step = 0
  BY <1>1, <1>2 DEF Grown, Holds
<1>3. CASE step = 1
  BY <1>1, <1>3 DEF Grown, Holds
<1>4. CASE step = 2
  BY <1>1, <1>4 DEF Grown, Holds
<1>5. CASE step = 3
  BY <1>1, <1>5 DEF Grown, Holds
<1>6. CASE step = 4
  BY <1>1, <1>6 DEF Grown, Holds
<1>7. CASE step = 5
  BY <1>1, <1>7 DEF Grown, Holds
<1>8. CASE step = 6
  BY <1>1, <1>8 DEF Grown, Holds
<1>9. CASE step = 7
  BY <1>1, <1>9 DEF Grown, Holds
<1> QED
  BY <1>2, <1>3, <1>4, <1>5, <1>6, <1>7, <1>8, <1>9

\* What each effect establishes.
LEMMA HoldsCases ==
    ASSUME NEW a \in Reports
    PROVE  /\ AuditStep..CloseStep = 0..7
           /\ Holds(a, 0)' /\ (Holds(a, 1)' <=> (a \in Suspecting => revised' # {}))
           /\ (Holds(a, 2)' <=> a \in proof') /\ (Holds(a, 3)' <=> a \in Bound(runOf[a])'.marks)
           /\ (Holds(a, 4)' <=> Bound(runOf[a])'.end # NotEnded)
           /\ (Holds(a, 5)' <=> lease' # runOf'[a])
           /\ (Holds(a, 6)' <=> tomb'[runOf'[a]] # Nothing)
           /\ (Holds(a, 7)' <=> asg'[runOf'[a]] = Nothing)
           /\ (Holds(a, 5) <=> lease # runOf[a]) /\ (Holds(a, 6) <=> tomb[runOf[a]] # Nothing)
  BY DEF Holds, AuditStep, CredentialStep, ProofStep, MarkerStep, EndStep, LeaseStep,
         TombstoneStep, CloseStep

\* The command that is running stands somewhere, and its fields have their types.
LEMMA Standing ==
    ASSUME IInv, NEW r \in Runs, cmd[r].pc # "idle"
    PROVE  /\ Typed /\ TypeOK /\ cmd[r] \in Commands /\ cmd[r] # Idle /\ Position(r)
           /\ cmd[r].rep \in Reports /\ runOf[cmd[r].rep] = r
           /\ ops[cmd[r].rep] \in Operations /\ ops[cmd[r].rep] # Nothing
           /\ ops[cmd[r].rep].step \in -1..7 /\ ops[cmd[r].rep].accepted \in Clock
           /\ Operation(cmd[r].rep) /\ Bound(r) # Nothing
           /\ LastStep(ops[cmd[r].rep]) \in {3, 7}
           /\ (ops[cmd[r].rep].live <=> LastStep(ops[cmd[r].rep]) = 7)
           /\ cmd[r].lines \subseteq Reports /\ cmd[r].own \in BOOLEAN
           /\ cmd[r].answer \in Answers
<1>1. TypeOK /\ Typed /\ cmd[r] # Idle /\ Position(r) /\ cmd[r] \in Commands
  BY Assumed DEF IInv, TypeOK, Typed
<1>2. /\ cmd[r].rep \in Reports /\ runOf[cmd[r].rep] = r
      /\ ops[cmd[r].rep] \in Operations /\ ops[cmd[r].rep] # Nothing
  BY <1>1 DEF Position, TypeOK
<1>3. Operation(cmd[r].rep)
  BY <1>2 DEF IInv
<1>4. ops[cmd[r].rep].step \in -1..7 /\ ops[cmd[r].rep].accepted \in Clock
      /\ ops[cmd[r].rep].live \in BOOLEAN
  BY <1>2 DEF Operations, CloseStep
<1>5. LastStep(ops[cmd[r].rep]) \in {3, 7}
      /\ (ops[cmd[r].rep].live <=> LastStep(ops[cmd[r].rep]) = 7)
  BY <1>4 DEF LastStep, CloseStep, MarkerStep
<1> QED
  BY <1>1, <1>2, <1>3, <1>4, <1>5 DEF Operation, Commands

\* Commands for the reports of one run are of that run.
LEMMA Solitary ==
    ASSUME IInv, Serial, NEW s \in Runs, cmd[s] # Idle, NEW a \in Reports
    PROVE  runOf[a] = s
  BY DEF IInv, Serial, Position

\* A command that does not move stands where it stood.
LEMMA PositionKept ==
    ASSUME IInv, Grown, NEW s \in Runs, cmd[s] # Idle, cmd'[s] = cmd[s],
           ops'[cmd[s].rep] = ops[cmd[s].rep]
    PROVE  Position(s)'
<1> DEFINE a == cmd[s].rep
<1>1. /\ Position(s) /\ Typed /\ a \in Reports /\ ops[a] \in Operations
      /\ Operation(a)
  BY DEF IInv, Position, TypeOK, Typed
<1>2. Bound(runOf[a]) # Nothing /\ ops[a].step \in -1..7
  BY <1>1 DEF Position, Operation, Operations, CloseStep
<1>3. ASSUME cmd[s].pc = "checkpoint"
      PROVE  ops[a].step < LastStep(ops[a]) /\ Holds(a, ops[a].step + 1)'
  <2>1. ops[a].step < LastStep(ops[a]) /\ Holds(a, ops[a].step + 1)
    BY <1>1, <1>3 DEF Position
  <2>2. ops[a].step + 1 \in AuditStep..CloseStep
    BY <1>2, <2>1 DEF LastStep, AuditStep, CloseStep, MarkerStep
  <2> DEFINE k == ops[a].step + 1
  <2>3. Holds(a, k)'
    BY <1>1, <1>2, <2>1, <2>2, HoldsOn
  <2> QED
    BY <2>1, <2>3
<1> QED
  BY <1>1, <1>3 DEF Position, Grown

\* An operation that does not move keeps what it established.
LEMMA OperationKept ==
    ASSUME IInv, Grown, NEW b \in Reports, ops'[b] = ops[b],
           Marked(b)' => Marked(b) \/ (ops[b] # Nothing /\ ops[b].step >= 2)
    PROVE  Operation(b)' /\ Applied(b)'
<1>1. Typed /\ Operation(b) /\ Applied(b) /\ runOf[b] \in Runs /\ runOf' = runOf
  BY DEF IInv, TypeOK, Typed, Grown
<1>2. CASE ops[b] = Nothing
  BY <1>1, <1>2 DEF Operation, Applied, Grown, Marked
<1>3. CASE ops[b] # Nothing
  <2>1. Bound(runOf[b]) # Nothing /\ Bound(runOf[b])' # Nothing
    BY <1>1, <1>3 DEF Operation, Grown
  <2>2. ASSUME NEW step \in AuditStep..CloseStep, step <= ops[b].step
        PROVE  Holds(b, step)'
    BY <1>1, <1>3, <2>1, <2>2, HoldsOn DEF Operation
  <2> QED
    BY <1>1, <1>3, <2>1, <2>2 DEF Operation, Applied, Grown
<1> QED
  BY <1>2, <1>3

\* What a step of a run's command has to establish.
LEMMA Moves ==
    ASSUME IInv, NEW r \in Runs, NEW c \in Commands, cmd' = [cmd EXCEPT ![r] = c],
           cmd[r] # Idle \/ (c.rep \in Reports /\ runOf[c.rep] = r),
           Grown, Typed', \A s \in Runs : Ended(s)',
           \A b \in Reports :
               \/ /\ ops'[b] = ops[b]
                  /\ Marked(b)' => Marked(b) \/ (ops[b] # Nothing /\ ops[b].step >= 2)
               \/ runOf[b] = r /\ Operation(b)' /\ Applied(b)',
           c = Idle \/ Position(r)',
           Serial => Fenced' /\ Audited' /\ (c = Idle \/ Alone(r)')
    PROVE  IInv'
<1>1. TypeOK /\ Typed /\ runOf' = runOf
  BY DEF IInv, TypeOK, Typed, Grown
<1>2. /\ cmd' \in [Runs -> Commands] /\ cmd'[r] = c
      /\ \A s \in Runs : s # r => cmd'[s] = cmd[s]
  BY <1>1 DEF TypeOK
<1>3. TypeOK'
  BY <1>2 DEF Typed, TypeOK
<1>4. ASSUME NEW s \in Runs
      PROVE  cmd'[s] = Idle \/ Position(s)'
  <2>1. CASE s = r
    BY <1>2, <2>1
  <2>2. CASE s # r /\ cmd[s] # Idle
    <3>1. cmd[s].rep \in Reports /\ runOf[cmd[s].rep] = s
      BY <2>2 DEF IInv, Position
    <3>2. ops'[cmd[s].rep] = ops[cmd[s].rep]
      BY <2>2, <3>1
    <3> QED
      BY <1>2, <2>2, <3>2, PositionKept
  <2> QED
    BY <1>2, <2>1, <2>2
<1>5. ASSUME NEW b \in Reports
      PROVE  Operation(b)' /\ Applied(b)'
  BY <1>5, OperationKept
<1>6. ASSUME Serial', NEW s \in Runs
      PROVE  cmd'[s] = Idle \/ Alone(s)'
  <2>1. Serial
    BY <1>1, <1>6 DEF Serial
  <2>2. CASE s = r
    BY <1>2, <2>1, <2>2
  <2>3. CASE s # r
    <3>1. CASE cmd[r] # Idle
      <4>1. cmd[r].rep \in Reports /\ runOf[cmd[r].rep] = r
        BY <3>1 DEF IInv, Position
      <4> QED
        BY <1>2, <2>1, <2>3, <4>1, Solitary
    <3> QED
      BY <1>2, <2>1, <2>3, <3>1, Solitary
  <2> QED
    BY <2>2, <2>3
<1>7. Serial' => Fenced' /\ Audited'
  BY <1>1 DEF Serial
<1> QED
  BY <1>3, <1>4, <1>5, <1>6, <1>7 DEF IInv

\* What a step of the world has to establish.
LEMMA World ==
    ASSUME IInv, cmd' = cmd, ops' = ops, Grown, Typed', \A s \in Runs : Ended(s)',
           \A b \in Reports : Marked(b)' => Marked(b),
           Serial => Fenced' /\ Audited' /\ \A s \in Runs : cmd[s] = Idle \/ Alone(s)'
    PROVE  IInv'
<1>1. TypeOK' /\ runOf' = runOf
  BY DEF IInv, TypeOK, Typed, Grown
<1>2. ASSUME NEW s \in Runs
      PROVE  cmd'[s] = Idle \/ Position(s)'
  BY <1>2, PositionKept
<1>3. ASSUME NEW b \in Reports
      PROVE  Operation(b)' /\ Applied(b)'
  BY <1>3, OperationKept
<1> QED
  BY <1>1, <1>2, <1>3 DEF IInv, Serial

\* While nothing is sent or lands the fence guards what it guarded.
LEMMA AuditedKept ==
    ASSUME IInv, Serial, Grown, ops' = ops, revised' \cup inflight' = revised \cup inflight,
           audit \subseteq audit'
    PROVE  Audited'
<1>1. Typed /\ Audited
  BY DEF IInv, TypeOK, Typed
<1>2. ASSUME NEW b \in Reports, ops[b] # Nothing, ops[b].step >= 0, Owes(b)'
      PROVE  b \in audit
  <2>1. Bound(runOf[b]) # Nothing
    BY <1>2 DEF IInv, Operation
  <2> QED
    BY <1>1, <1>2, <2>1, OwesLess DEF Audited
<1> QED
  BY <1>1, <1>2 DEF Audited

\* A step that only reads and decides.
LEMMA Quietly ==
    ASSUME IInv, NEW r \in Runs, NEW c \in Commands, cmd[r].pc # "idle",
           cmd' = [cmd EXCEPT ![r] = c], lost' \in 0..MaxLost,
           UNCHANGED <<runOf, clock, revised, inflight, fence, audit, proof, asg, tomb,
                       lease, ops, crashes>>,
           c = Idle \/ Position(r)', Serial => c = Idle \/ Alone(r)'
    PROVE  IInv'
<1>1. /\ Grown /\ \A b \in Reports : Marked(b)' => Marked(b)
      /\ \A s \in Runs : Ended(s)'
  BY Still DEF IInv
<1>2. Typed'
  BY DEF IInv, TypeOK, Typed
<1>3. Serial => Fenced' /\ Audited'
  BY <1>1, AuditedKept DEF IInv, Fenced
<1> QED
  BY <1>1, <1>2, <1>3, Standing, Moves

\* A command goes on, with what it has in memory.
LEMMA Goes ==
    ASSUME TypeOK, NEW r \in Runs, NEW pc \in Pcs, GoTo(r, pc)
    PROVE  \E c \in Commands :
               /\ cmd' = [cmd EXCEPT ![r] = c] /\ cmd'[r] = c /\ c.pc = pc
               /\ c.rep = cmd[r].rep /\ c.lines = cmd[r].lines
               /\ c.own = cmd[r].own /\ c.answer = cmd[r].answer
<1> DEFINE c == [cmd[r] EXCEPT !.pc = pc]
<1>1. cmd \in [Runs -> Commands] /\ cmd[r] \in Commands
  BY DEF TypeOK
<1>2. /\ c \in Commands /\ c.pc = pc /\ c.rep = cmd[r].rep /\ c.lines = cmd[r].lines
      /\ c.own = cmd[r].own /\ c.answer = cmd[r].answer
  BY <1>1 DEF Commands
<1>3. cmd' = [cmd EXCEPT ![r] = c] /\ cmd'[r] = c
  BY <1>1 DEF GoTo
<1> QED
  BY <1>2, <1>3

\* A command refuses.
LEMMA Refuses ==
    ASSUME IInv, NEW r \in Runs, cmd[r].pc # "idle", Fail(r),
           UNCHANGED <<runOf, clock, revised, inflight, fence, audit, proof, asg, tomb,
                       lease, ops, crashes, lost>>
    PROVE  IInv'
<1>1. lost' \in 0..MaxLost
  BY DEF IInv, TypeOK
<1> QED
  BY <1>1, Quietly, Assumed DEF Fail

\* An effect is done, and its checkpoint is due.
LEMMA Effect ==
    ASSUME IInv, NEW r \in Runs, NEW a, a = cmd[r].rep, cmd[r].pc # "idle", Done(r),
           Grown, Typed', ops' = ops, \A s \in Runs : Ended(s)',
           \A b \in Reports :
               Marked(b)' => Marked(b) \/ (ops[b] # Nothing /\ ops[b].step >= 2),
           NEW k \in AuditStep..CloseStep, ops[a].step + 1 = k, k <= LastStep(ops[a]),
           Holds(a, k)',
           Serial => Fenced' /\ Audited' /\ (k = AuditStep /\ Owes(a)' => a \in audit')
    PROVE  IInv'
<1>1. TypeOK /\ Position(r) /\ ops[a].step \in -1..7 /\ LastStep(ops[a]) \in {3, 7}
  BY Standing
<1>2. GoTo(r, "checkpoint") /\ "checkpoint" \in Pcs
  BY DEF Done, GoTo, Pcs
<1>3. PICK c \in Commands :
          /\ cmd' = [cmd EXCEPT ![r] = c] /\ cmd'[r] = c /\ c.pc = "checkpoint" /\ c.rep = a
  BY <1>1, <1>2, Goes
<1>4. ops[a].step < LastStep(ops[a])
  BY <1>1
<1>5. Holds(a, ops[a].step + 1)'
  BY <1>1
<1>6. Position(r)'
  BY <1>1, <1>3, <1>4, <1>5 DEF Position, Grown, Setting
<1>7. Serial => Alone(r)'
  BY <1>1, <1>3 DEF Alone, AuditStep
<1> QED
  BY <1>3, <1>6, <1>7, Standing, Moves

-----------------------------------------------------------------------------
(* The effects on what runs share                                           *)

\* The attempt is put on record, or need not be.
LEMMA PlanAuditStep ==
    ASSUME IInv, NEW r \in Runs, PlanAudit(r)
    PROVE  IInv'
<1>0. PICK a : a = cmd[r].rep
  OBVIOUS
<1>1. /\ cmd[r].pc = "next" /\ ops[a].step = -1 /\ TypeOK /\ Typed
      /\ cmd[r] \in Commands /\ a \in Reports /\ Position(r)
      /\ runOf[a] = r /\ Bound(r) # Nothing /\ cmd[r].pc # "idle"
  BY <1>0, Standing DEF PlanAudit, At, AuditStep
<1>2. CASE Fail(r)
  BY <1>0, <1>1, <1>2, Refuses DEF PlanAudit
<1>3. CASE (~Owes(a) \/ a \in audit) /\ Done(r)
  <2>1. /\ Grown /\ \A b \in Reports : Marked(b)' => Marked(b)
        /\ \A s \in Runs : Ended(s)'
    BY Still DEF PlanAudit, IInv
  <2>2. Typed'
    BY <1>0, <1>1 DEF PlanAudit, Typed
  <2>3. Serial => Fenced' /\ Audited'
    BY <2>1, AuditedKept DEF PlanAudit, IInv, Fenced
  <2>4. Owes(a)' => a \in audit'
    BY <1>0, <1>1, <1>3, <2>1, OwesLess DEF PlanAudit, Position
  <2>5. ops[a].step + 1 = 0 /\ ops' = ops /\ Holds(a, 0)' /\ 0 \in AuditStep..CloseStep
    BY <1>0, <1>1, HoldsCases DEF PlanAudit
  <2>6. 0 <= LastStep(ops[a])
    BY <1>0, <1>1, Standing
  <2> QED
    BY <1>0, <1>1, <1>3, <2>1, <2>2, <2>3, <2>4, <2>5, <2>6, Effect DEF PlanAudit
<1>4. CASE cmd' = [cmd EXCEPT ![r].pc = "append", ![r].lines = audit]
  <2> DEFINE c == [cmd[r] EXCEPT !.pc = "append", !.lines = audit]
  <2>1. "append" \in Pcs
    BY DEF Pcs
  <2>2. c \in Commands /\ c.pc = "append" /\ c.lines = audit /\ c.rep = a
    BY <1>0, <1>1, <2>1 DEF Commands, Typed
  <2>3. cmd' = [cmd EXCEPT ![r] = c] /\ cmd'[r] = c
    BY <1>0, <1>1, <1>4 DEF TypeOK
  <2>4. Position(r)' /\ Alone(r)'
    BY <1>0, <1>1, <2>2, <2>3 DEF PlanAudit, Position, Alone, Setting
  <2>5. lost' \in 0..MaxLost
    BY <1>0, <1>1 DEF PlanAudit, Typed
  <2> QED
    BY <1>0, <1>1, <2>2, <2>3, <2>4, <2>5, Quietly DEF PlanAudit
<1> QED
  BY <1>0, <1>2, <1>3, <1>4 DEF PlanAudit

\* The audit file is written anew with its line.
LEMMA AppendAuditStep ==
    ASSUME IInv, NEW r \in Runs, AppendAudit(r)
    PROVE  IInv'
<1>0. PICK a : a = cmd[r].rep
  OBVIOUS
<1>1. /\ cmd[r].pc = "append" /\ ops[a].step = -1 /\ Typed /\ a \in Reports
      /\ cmd[r].lines \subseteq Reports /\ cmd[r] # Idle /\ cmd[r].pc # "idle"
      /\ 0 <= LastStep(ops[a])
  BY <1>0, Standing DEF AppendAudit, Position
<1>2. /\ Grown /\ \A b \in Reports : Marked(b)' => Marked(b)
      /\ \A s \in Runs : Ended(s)'
  BY Still DEF AppendAudit, IInv
<1>3. audit' = cmd[r].lines \cup {a}
  BY <1>0 DEF AppendAudit, AuditFile
<1>4. Typed'
  BY <1>0, <1>1, <1>3 DEF AppendAudit, Typed
<1>5. ASSUME Serial
      PROVE  Fenced' /\ Audited'
  <2>1. cmd[r].lines = audit
    BY <1>0, <1>1, <1>5 DEF IInv, Alone
  <2> QED
    BY <1>2, <1>3, <1>5, <2>1, AuditedKept DEF AppendAudit, IInv, Fenced
<1>6. ops[a].step + 1 = 0 /\ ops' = ops /\ Holds(a, 0)' /\ 0 \in AuditStep..CloseStep
  BY <1>0, <1>1, HoldsCases DEF AppendAudit
<1> QED
  BY <1>0, <1>1, <1>2, <1>3, <1>4, <1>5, <1>6, Effect DEF AppendAudit

\* A revision is to be set under a fence that is free, or the report's own.
LEMMA PlanSetStep ==
    ASSUME IInv, NEW r \in Runs, PlanSet(r)
    PROVE  IInv'
<1>0. PICK a : a = cmd[r].rep
  OBVIOUS
<1>1. /\ cmd[r].pc = "next" /\ cmd[r].pc # "idle" /\ ops[a].step = 0 /\ TypeOK
      /\ cmd[r] # Idle /\ a \in Reports /\ Position(r) /\ Owes(a)
      /\ lost' \in 0..MaxLost
  BY <1>0, Standing DEF PlanSet, At, CredentialStep, Typed
<1>2. CASE Fail(r)
  BY <1>1, <1>2, Refuses DEF PlanSet
<1>3. CASE \/ fence = Nothing /\ GoTo(r, "claim")
           \/ fence = a /\ GoTo(r, "call")
  <2>1. PICK c \in Commands :
            /\ cmd' = [cmd EXCEPT ![r] = c] /\ cmd'[r] = c /\ c.rep = a
            /\ \/ fence = Nothing /\ c.pc = "claim"
               \/ fence = a /\ c.pc = "call"
    <3>1. "claim" \in Pcs /\ "call" \in Pcs
      BY DEF Pcs
    <3>2. CASE fence = Nothing /\ GoTo(r, "claim")
      BY <1>0, <1>1, <3>1, <3>2, Goes
    <3>3. CASE fence = a /\ GoTo(r, "call")
      BY <1>0, <1>1, <3>1, <3>3, Goes
    <3> QED
      BY <1>3, <3>2, <3>3
  <2>2. Position(r)'
    BY <1>0, <1>1, <2>1 DEF PlanSet, Position, Setting
  <2>3. ASSUME Serial
        PROVE  Alone(r)'
    <3>1. Fenced /\ Audited
      BY <2>3 DEF IInv
    <3>2. a \in audit /\ revised = {}
      BY <1>0, <1>1, <3>1 DEF Audited, Owes, Position
    <3>3. fence = Nothing => inflight = {}
      BY <3>1, <3>2 DEF Fenced
    <3> QED
      BY <2>1, <3>2, <3>3 DEF PlanSet, Alone
  <2> QED
    BY <1>1, <2>1, <2>2, <2>3, Quietly DEF PlanSet
<1> QED
  BY <1>0, <1>2, <1>3 DEF PlanSet, Inherited

\* No revision is owed, and a fence that has served is dropped.
LEMMA SettleStep ==
    ASSUME IInv, NEW r \in Runs, Settle(r)
    PROVE  IInv'
<1>0. PICK a : a = cmd[r].rep
  OBVIOUS
<1>1. /\ cmd[r].pc # "idle" /\ ops[a].step = 0 /\ 1 <= LastStep(ops[a]) /\ ops[a] # Nothing
      /\ cmd[r] # Idle /\ a \in Reports /\ runOf[a] = r /\ Typed /\ Operation(a)
      /\ Bound(r) # Nothing
  BY <1>0, Standing DEF Settle, At, CredentialStep
<1>2. CASE Fail(r) /\ fence' = fence
  BY <1>1, <1>2, Refuses DEF Settle
<1>3. CASE \/ ChainValid /\ Done(r) /\ fence' = fence
           \/ ChainValid /\ fence = a /\ revised = {a} /\ Done(r) /\ fence' = Nothing
  <2>1. /\ Grown /\ \A b \in Reports : Marked(b)' => Marked(b)
        /\ \A s \in Runs : Ended(s)'
    BY Still DEF Settle, IInv
  <2>2. Typed'
    BY <1>1, <1>3 DEF Settle, Typed
  <2>3. Serial => Fenced' /\ Audited'
    BY <1>3, <2>1, AuditedKept DEF Settle, IInv, Fenced
  <2>4. a \in Suspecting => revised # {}
    BY <1>0, <1>1, <1>3 DEF Settle, Owes, Operation, Marked
  <2>5. ops[a].step + 1 = 1 /\ ops' = ops /\ revised' = revised
    BY <1>1 DEF Settle
  <2>6. Holds(a, 1)' /\ 1 \in AuditStep..CloseStep
    BY <1>1, <2>4, <2>5, HoldsCases
  <2> QED
    BY <1>0, <1>1, <1>3, <2>1, <2>2, <2>3, <2>5, <2>6, Effect DEF Settle, AuditStep
<1> QED
  BY <1>0, <1>2, <1>3 DEF Settle

\* The fence is taken.
LEMMA ClaimStep ==
    ASSUME IInv, NEW r \in Runs, Claim(r)
    PROVE  IInv'
<1>0. PICK a : a = cmd[r].rep
  OBVIOUS
<1>1. /\ cmd[r].pc = "claim" /\ cmd[r] # Idle /\ TypeOK /\ Typed /\ cmd[r] \in Commands
      /\ a \in Reports /\ Position(r)
  BY <1>0, Standing DEF Claim
<1> DEFINE c == [cmd[r] EXCEPT !.pc = "call", !.own = TRUE]
<1>2. c \in Commands /\ c.pc = "call" /\ c.rep = a
  <2>1. "call" \in Pcs
    BY DEF Pcs
  <2> QED
    BY <1>0, <1>1, <2>1 DEF Commands
<1>3. cmd' = [cmd EXCEPT ![r] = c] /\ cmd'[r] = c
  BY <1>1 DEF Claim, TypeOK
<1>4. /\ Grown /\ \A b \in Reports : Marked(b)' => Marked(b)
      /\ \A s \in Runs : Ended(s)'
  BY Still DEF Claim, IInv
<1>5. Typed'
  BY <1>0, <1>1 DEF Claim, Typed
<1>6. Position(r)'
  BY <1>0, <1>1, <1>2, <1>3 DEF Claim, Position, Setting
<1>7. ASSUME Serial
      PROVE  Fenced' /\ Audited' /\ Alone(r)'
  <2>1. Alone(r)
    BY <1>1, <1>7 DEF IInv
  <2>2. Fenced'
    BY <1>1, <2>1 DEF Alone, Claim, Fenced
  <2>3. Audited'
    BY <1>4, <1>7, AuditedKept DEF Claim
  <2> QED
    BY <1>0, <1>1, <1>2, <1>3, <2>1, <2>2, <2>3 DEF Alone, Claim
<1> QED
  BY <1>1, <1>2, <1>3, <1>4, <1>5, <1>6, <1>7, Moves DEF Claim

\* The adapter is asked; it may answer at once, or not at all.
LEMMA CallStep ==
    ASSUME IInv, NEW r \in Runs, Call(r)
    PROVE  IInv'
<1>0. PICK a : a = cmd[r].rep
  OBVIOUS
<1>1. /\ cmd[r].pc = "call" /\ cmd[r] # Idle /\ TypeOK /\ cmd[r] \in Commands
      /\ a \in Reports /\ Position(r)
  BY <1>0, Standing DEF Call
<1>2. lost' \in 0..MaxLost
  BY <1>1, Assumed DEF Call, TypeOK
<1>3. PICK c \in Commands :
          /\ cmd' = [cmd EXCEPT ![r] = c] /\ cmd'[r] = c /\ c.rep = a
          /\ c.pc \in {"answered", "create"}
  <2>1. CASE GoTo(r, "create")
    <3>1. "create" \in Pcs
      BY DEF Pcs
    <3> QED
      BY <1>0, <1>1, <2>1, <3>1, Goes
  <2>2. CASE \E answer \in {"unknown", "committed", "condition-failed"} :
                 cmd' = [cmd EXCEPT ![r].pc = "answered", ![r].answer = answer]
    <3>1. PICK answer \in {"unknown", "committed", "condition-failed"} :
                 cmd' = [cmd EXCEPT ![r].pc = "answered", ![r].answer = answer]
      BY <2>2
    <3> DEFINE c == [cmd[r] EXCEPT !.pc = "answered", !.answer = answer]
    <3>2. "answered" \in Pcs /\ answer \in Answers
      BY DEF Pcs, Answers
    <3>3. c \in Commands /\ c.pc = "answered" /\ c.rep = a
      BY <1>0, <1>1, <3>2 DEF Commands
    <3>4. cmd' = [cmd EXCEPT ![r] = c] /\ cmd'[r] = c
      BY <1>1, <3>1 DEF TypeOK
    <3> QED
      BY <3>3, <3>4
  <2> QED
    BY <2>1, <2>2 DEF Call
<1>4. Position(r)'
  BY <1>0, <1>1, <1>3 DEF Call, Position, Setting
<1>5. ASSUME Serial
      PROVE  Alone(r)'
  <2>1. Alone(r)
    BY <1>1, <1>5 DEF IInv
  <2> QED
    BY <1>0, <1>1, <1>3, <2>1 DEF Alone, Call
<1> QED
  BY <1>1, <1>2, <1>3, <1>4, <1>5, Quietly DEF Call

\* A create lands, or is on its way.
LEMMA CreateStep ==
    ASSUME IInv, NEW r \in Runs, Create(r)
    PROVE  IInv'
<1>0. PICK a : a = cmd[r].rep
  OBVIOUS
<1>1. /\ cmd[r].pc = "create" /\ cmd[r] # Idle /\ TypeOK /\ Typed /\ cmd[r] \in Commands
      /\ a \in Reports /\ Position(r)
  BY <1>0, Standing DEF Create
<1>2. /\ lost' \in 0..MaxLost
      /\ \/ revised' = revised \cup {a} /\ inflight' = inflight
         \/ revised' = revised /\ inflight' = inflight \cup {a}
  BY <1>0, <1>1, Assumed DEF Create, TypeOK
<1>3. PICK c \in Commands :
          cmd' = [cmd EXCEPT ![r] = c] /\ cmd'[r] = c /\ c.rep = a /\ c.pc = "answered"
  <2>1. PICK answer \in {"unknown", "committed"} :
             cmd' = [cmd EXCEPT ![r].pc = "answered", ![r].answer = answer]
    BY DEF Create
  <2> DEFINE c == [cmd[r] EXCEPT !.pc = "answered", !.answer = answer]
  <2>2. "answered" \in Pcs /\ answer \in Answers
    BY DEF Pcs, Answers
  <2>3. c \in Commands /\ c.pc = "answered" /\ c.rep = a
    BY <1>0, <1>1, <2>2 DEF Commands
  <2>4. cmd' = [cmd EXCEPT ![r] = c] /\ cmd'[r] = c
    BY <1>1, <2>1 DEF TypeOK
  <2> QED
    BY <2>3, <2>4
<1>4. /\ Grown /\ \A b \in Reports : Marked(b)' => Marked(b)
      /\ \A s \in Runs : Ended(s)'
  BY <1>2 DEF Create, IInv, Grown, Bound, Marked, Ended
<1>5. Typed'
  BY <1>1, <1>2 DEF Create, Typed
<1>6. Position(r)'
  BY <1>0, <1>1, <1>3 DEF Create, Position, Setting
<1>7. ASSUME Serial
      PROVE  Fenced' /\ Audited' /\ Alone(r)'
  <2>1. fence = a /\ a \in audit /\ Fenced /\ Audited
    BY <1>0, <1>1, <1>7 DEF IInv, Alone
  <2>2. fence # Nothing
    BY <1>1, <2>1, Assumed
  <2>3. Fenced'
    BY <1>2, <2>1, <2>2 DEF Create, Fenced
  <2>4. \A b \in Reports : ops[b] # Nothing /\ Owes(b)' => Owes(b)
    BY <1>1, <1>4, OwesLess DEF IInv, Operation
  <2>5. Audited'
    BY <1>2, <2>1, <2>4 DEF Create, Audited
  <2> QED
    BY <1>3, <2>1, <2>3, <2>5 DEF Create, Alone
<1> QED
  BY <1>1, <1>3, <1>4, <1>5, <1>6, <1>7, Moves DEF Create

\* The chain is read again, and with the answer decides.
LEMMA RereadStep ==
    ASSUME IInv, NEW r \in Runs, Reread(r)
    PROVE  IInv'
<1>0. PICK a : a = cmd[r].rep
  OBVIOUS
<1>1. /\ cmd[r].pc = "answered" /\ cmd[r].pc # "idle" /\ cmd[r] # Idle /\ TypeOK
      /\ a \in Reports /\ Position(r) /\ lost' \in 0..MaxLost
  BY <1>0, Standing DEF Reread, Typed
<1>2. CASE Fail(r)
  BY <1>1, <1>2, Refuses DEF Reread
<1>3. CASE \/ revised = {a} /\ GoTo(r, "drop")
           \/ revised \notin {{}, {a}} /\ GoTo(r, "refuse")
  <2>1. PICK c \in Commands :
            /\ cmd' = [cmd EXCEPT ![r] = c] /\ cmd'[r] = c /\ c.rep = a
            /\ \/ revised = {a} /\ c.pc = "drop"
               \/ revised \notin {{}, {a}} /\ c.pc = "refuse"
    <3>1. "drop" \in Pcs /\ "refuse" \in Pcs
      BY DEF Pcs
    <3> QED
      BY <1>0, <1>1, <1>3, <3>1, Goes
  <2>2. Position(r)'
    BY <1>0, <1>1, <2>1 DEF Reread, Position, Setting
  <2>3. ASSUME Serial
        PROVE  Alone(r)'
    <3>1. fence = a /\ Fenced
      BY <1>0, <1>1, <2>3 DEF IInv, Alone
    <3>2. revised \in {{}, {a}}
      BY <1>1, <3>1, Assumed DEF Fenced
    <3> QED
      BY <2>1, <3>1, <3>2 DEF Reread, Alone
  <2> QED
    BY <1>1, <2>1, <2>2, <2>3, Quietly DEF Reread
<1>4. \/ Fail(r)
      \/ revised = {a} /\ GoTo(r, "drop")
      \/ revised \notin {{}, {a}} /\ GoTo(r, "refuse")
  BY <1>0 DEF Reread, Decided
<1> QED
  BY <1>2, <1>3, <1>4

\* The fence is unlinked.
LEMMA DropFenceStep ==
    ASSUME IInv, NEW r \in Runs, DropFence(r)
    PROVE  IInv'
<1>0. PICK a : a = cmd[r].rep
  OBVIOUS
<1>1. /\ cmd[r].pc \in {"drop", "refuse"} /\ cmd[r].pc # "idle" /\ cmd[r] # Idle
      /\ ops[a].step = 0 /\ 1 <= LastStep(ops[a]) /\ a \in Reports /\ Typed /\ Position(r)
  BY <1>0, Standing DEF DropFence, Position, Setting
<1>2. /\ Grown /\ \A b \in Reports : Marked(b)' => Marked(b)
      /\ \A s \in Runs : Ended(s)'
  BY Still DEF DropFence, IInv
<1>3. Typed'
  BY <1>1 DEF DropFence, Typed
<1>4. ASSUME Serial
      PROVE  Fenced' /\ Audited'
  <2>1. Alone(r) /\ Fenced
    BY <1>1, <1>4 DEF IInv
  <2>2. revised = {a} /\ cmd[r].pc = "drop"
    BY <1>0, <1>1, <2>1 DEF Alone
  <2>3. Fenced'
    BY <2>1, <2>2 DEF DropFence, Fenced
  <2> QED
    BY <1>2, <1>4, <2>3, AuditedKept DEF DropFence
<1>5. CASE cmd[r].pc = "drop"
  <2>1. Done(r) /\ revised # {}
    BY <1>1, <1>5 DEF DropFence, Position
  <2>2. ops[a].step + 1 = 1 /\ ops' = ops /\ revised' = revised
    BY <1>1 DEF DropFence
  <2>3. Holds(a, 1)' /\ 1 \in AuditStep..CloseStep
    BY <1>1, <2>1, <2>2, HoldsCases
  <2> QED
    BY <1>0, <1>1, <1>2, <1>3, <1>4, <2>1, <2>2, <2>3, Effect DEF AuditStep
<1>6. CASE cmd[r].pc = "refuse"
  <2>1. cmd' = [cmd EXCEPT ![r] = Idle]
    BY <1>6 DEF DropFence, Fail
  <2> QED
    BY <1>1, <1>2, <1>3, <1>4, <2>1, Moves, Assumed DEF DropFence
<1> QED
  BY <1>1, <1>5, <1>6

-----------------------------------------------------------------------------
(* The effects on the run's own records                                     *)

\* The proof record takes the contribution.
LEMMA ProofUpdateStep ==
    ASSUME IInv, NEW r \in Runs, ProofUpdate(r)
    PROVE  IInv'
<1>0. PICK a : a = cmd[r].rep
  OBVIOUS
<1>1. /\ cmd[r].pc # "idle" /\ ops[a].step = 1 /\ 2 <= LastStep(ops[a])
      /\ a \in Reports /\ Typed
  BY <1>0, Standing DEF ProofUpdate, At, ProofStep
<1>2. proof' = proof \cup {a} /\ ops' = ops /\ Done(r)
  BY <1>0 DEF ProofUpdate
<1>3. Grown /\ (\A b \in Reports : Marked(b)' => Marked(b)) /\ \A s \in Runs : Ended(s)'
  BY <1>2 DEF ProofUpdate, IInv, Grown, Bound, Marked, Ended
<1>4. Typed'
  BY <1>1, <1>2 DEF ProofUpdate, Typed
<1>5. Serial => Fenced' /\ Audited'
  BY <1>2, <1>3, AuditedKept DEF ProofUpdate, IInv, Fenced
<1>6. ops[a].step + 1 = 2 /\ Holds(a, 2)' /\ 2 \in AuditStep..CloseStep
  BY <1>1, <1>2, HoldsCases
<1> QED
  BY <1>0, <1>1, <1>2, <1>3, <1>4, <1>5, <1>6, Effect DEF AuditStep

\* The lease is planned to be released, or is another's already.
LEMMA PlanReleaseStep ==
    ASSUME IInv, NEW r \in Runs, PlanRelease(r)
    PROVE  IInv'
<1>0. PICK a : a = cmd[r].rep
  OBVIOUS
<1>1. /\ cmd[r].pc # "idle" /\ ops[a].step = 4 /\ 5 <= LastStep(ops[a]) /\ ops[a].live
      /\ a \in Reports /\ Typed /\ TypeOK /\ runOf[a] = r /\ ops[a] # Nothing
      /\ lost' \in 0..MaxLost
  BY <1>0, Standing DEF PlanRelease, At, LeaseStep, Typed
<1>2. /\ Grown /\ \A b \in Reports : Marked(b)' => Marked(b)
      /\ \A s \in Runs : Ended(s)'
  BY Still DEF PlanRelease, IInv
<1>3. CASE GoTo(r, "unlink")
  <2>1. "unlink" \in Pcs
    BY DEF Pcs
  <2>2. PICK c \in Commands :
            cmd' = [cmd EXCEPT ![r] = c] /\ cmd'[r] = c /\ c.pc = "unlink" /\ c.rep = a
    BY <1>0, <1>1, <1>3, <2>1, Goes
  <2>3. Position(r)' /\ Alone(r)'
    BY <1>1, <2>2 DEF PlanRelease, Position, Alone, Setting
  <2> QED
    BY <1>1, <2>2, <2>3, Quietly DEF PlanRelease
<1>4. CASE lease # r /\ Done(r)
  <2>1. Typed'
    BY <1>1 DEF PlanRelease, Typed
  <2>2. Serial => Fenced' /\ Audited'
    BY <1>2, AuditedKept DEF PlanRelease, IInv, Fenced
  <2>3. ops[a].step + 1 = 5 /\ ops' = ops /\ lease' # runOf'[a]
    BY <1>1, <1>4 DEF PlanRelease
  <2>4. Holds(a, 5)' /\ 5 \in AuditStep..CloseStep
    BY <1>1, <2>3, HoldsCases
  <2> QED
    BY <1>0, <1>1, <1>2, <1>4, <2>1, <2>2, <2>3, <2>4, Effect DEF AuditStep
<1> QED
  BY <1>3, <1>4 DEF PlanRelease

\* The lease is unlinked, whoever holds it.
LEMMA UnlinkLeaseStep ==
    ASSUME IInv, NEW r \in Runs, UnlinkLease(r)
    PROVE  IInv'
<1>0. PICK a : a = cmd[r].rep
  OBVIOUS
<1>1. /\ cmd[r].pc # "idle" /\ ops[a].step = 4 /\ 5 <= LastStep(ops[a])
      /\ a \in Reports /\ Typed /\ runOf[a] = r
  BY <1>0, Standing DEF UnlinkLease, Position
<1>2. lease' = Nothing /\ ops' = ops /\ Done(r) /\ Nothing \notin Runs
  BY Assumed DEF UnlinkLease
<1>3. Grown /\ (\A b \in Reports : Marked(b)' => Marked(b)) /\ \A s \in Runs : Ended(s)'
  BY <1>2 DEF UnlinkLease, IInv, Grown, Bound, Marked, Ended
<1>4. Typed'
  BY <1>1, <1>2 DEF UnlinkLease, Typed
<1>5. Serial => Fenced' /\ Audited'
  BY <1>2, <1>3, AuditedKept DEF UnlinkLease, IInv, Fenced
<1>6. lease' # runOf'[a]
  BY <1>1, <1>2 DEF UnlinkLease
<1>7. ops[a].step + 1 = 5 /\ Holds(a, 5)' /\ 5 \in AuditStep..CloseStep
  BY <1>1, <1>2, <1>6, HoldsCases
<1> QED
  BY <1>0, <1>1, <1>2, <1>3, <1>4, <1>5, <1>7, Effect DEF AuditStep

\* The assignment goes, its tombstone being there.
LEMMA AssignmentCloseStep ==
    ASSUME IInv, NEW r \in Runs, AssignmentClose(r)
    PROVE  IInv' /\ Grown
<1>0. PICK a : a = cmd[r].rep
  OBVIOUS
<1>1. /\ cmd[r].pc # "idle" /\ ops[a].step = 6 /\ 7 <= LastStep(ops[a])
      /\ a \in Reports /\ Typed /\ runOf[a] = r
  BY <1>0, Standing DEF AssignmentClose, At, CloseStep
<1>2. CASE Fail(r) /\ asg' = asg
  BY <1>1, <1>2, Refuses, Still DEF AssignmentClose
<1>3. CASE tomb[r] # Nothing /\ asg' = [asg EXCEPT ![r] = Nothing] /\ Done(r)
  <2>1. /\ Grown /\ (\A b \in Reports : Marked(b)' => Marked(b))
        /\ \A s \in Runs : Ended(s)'
    BY <1>1, <1>3 DEF AssignmentClose, IInv, Grown, Bound, Marked, Ended, Typed
  <2>2. Typed'
    BY <1>1, <1>3 DEF AssignmentClose, Typed
  <2>3. Serial => Fenced' /\ Audited'
    BY <2>1, AuditedKept DEF AssignmentClose, IInv, Fenced
  <2>4. ops[a].step + 1 = 7 /\ ops' = ops /\ asg'[runOf'[a]] = Nothing
    BY <1>1, <1>3 DEF AssignmentClose, Typed
  <2>5. Holds(a, 7)' /\ 7 \in AuditStep..CloseStep
    BY <1>1, <2>4, HoldsCases
  <2> QED
    BY <1>0, <1>1, <1>3, <2>1, <2>2, <2>3, <2>4, <2>5, Effect DEF AuditStep
<1> QED
  BY <1>2, <1>3 DEF AssignmentClose

\* A member of the run's record is written back.
LEMMA Updated ==
    ASSUME IInv, NEW r \in Runs, Bound(r) # Nothing, NEW member, NEW value,
           Update(r, member, value),
           \/ member = "marks" /\ value \subseteq Reports /\ Bound(r).marks \subseteq value
           \/ member = "end" /\ value \in Ends /\ value # NotEnded
    PROVE  /\ Grown /\ Typed' /\ (\A s \in Runs : Ended(s)') /\ ops' = ops /\ Done(r)
           /\ Bound(r)' = [Bound(r) EXCEPT ![member] = value]
           /\ \A s \in Runs : s # r => Bound(s)' = Bound(s)
           /\ Serial => Fenced' /\ Audited'
<1>1. /\ Typed /\ Nothing \notin Assignments /\ Nothing \notin Tombstones
      /\ \A s \in Runs : Ended(s)
  BY Assumed DEF IInv, TypeOK, Typed
<1>2. /\ ops' = ops /\ Done(r)
      /\ UNCHANGED <<runOf, revised, inflight, fence, audit, proof, lease>>
      /\ UNCHANGED <<clock, crashes, lost>>
  BY DEF Update
<1> DEFINE updated == [Bound(r) EXCEPT ![member] = value]
<1>3. CASE tomb[r] # Nothing
  <2>1. tomb' = [tomb EXCEPT ![r] = updated] /\ asg' = asg /\ Bound(r) = tomb[r]
    BY <1>3 DEF Update, Bound
  <2>2. tomb[r] \in Tombstones /\ tomb[r].until # NotEnded /\ lease # r
    BY <1>1, <1>3 DEF Typed, Ended
  <2>3. /\ updated \in Tombstones /\ updated.until = tomb[r].until
        /\ tomb[r].marks \subseteq updated.marks
        /\ tomb[r].end # NotEnded => updated.end # NotEnded
    BY <2>1, <2>2 DEF Tombstones
  <2>4. /\ tomb'[r] = updated /\ updated # Nothing
        /\ \A s \in Runs : s # r => tomb'[s] = tomb[s]
    BY <1>1, <2>1, <2>3 DEF Typed
  <2>5. Bound(r)' = updated /\ \A s \in Runs : s # r => Bound(s)' = Bound(s)
    BY <2>1, <2>4 DEF Bound
  <2> HIDE DEF updated
  <2>6. Grown
    BY <1>2, <1>3, <2>1, <2>3, <2>4, <2>5 DEF Grown
  <2>7. Typed'
    BY <1>1, <1>2, <2>1, <2>3 DEF Typed
  <2>8. ASSUME NEW s \in Runs
        PROVE  Ended(s)'
    BY <1>1, <1>2, <2>1, <2>2, <2>3, <2>4 DEF Ended
  <2>9. Serial => Fenced' /\ Audited'
    BY <1>2, <2>6, AuditedKept DEF IInv, Fenced
  <2> QED
    BY <1>2, <2>5, <2>6, <2>7, <2>8, <2>9 DEF updated
<1>4. CASE tomb[r] = Nothing
  <2>1. asg' = [asg EXCEPT ![r] = updated] /\ tomb' = tomb /\ Bound(r) = asg[r]
    BY <1>4 DEF Update, Bound
  <2>2. asg[r] \in Assignments /\ asg[r].until # NotEnded /\ asg[r] # Nothing
    BY <1>1, <2>1 DEF Typed, Ended
  <2>3. /\ updated \in Assignments /\ updated.until = asg[r].until
        /\ asg[r].marks \subseteq updated.marks
        /\ asg[r].end # NotEnded => updated.end # NotEnded
    BY <2>1, <2>2 DEF Assignments
  <2>4. /\ asg'[r] = updated /\ updated # Nothing
        /\ \A s \in Runs : s # r => asg'[s] = asg[s]
    BY <1>1, <2>1, <2>3 DEF Typed
  <2>5. Bound(r)' = updated /\ \A s \in Runs : s # r => Bound(s)' = Bound(s)
    BY <1>4, <2>1, <2>4 DEF Bound
  <2> HIDE DEF updated
  <2>6. Grown
    BY <1>2, <2>1, <2>2, <2>3, <2>4, <2>5 DEF Grown
  <2>7. Typed'
    BY <1>1, <1>2, <2>1, <2>3 DEF Typed
  <2>8. ASSUME NEW s \in Runs
        PROVE  Ended(s)'
    BY <1>1, <1>2, <2>1, <2>2, <2>3, <2>4 DEF Ended
  <2>9. Serial => Fenced' /\ Audited'
    BY <1>2, <2>6, AuditedKept DEF IInv, Fenced
  <2> QED
    BY <1>2, <2>5, <2>6, <2>7, <2>8, <2>9 DEF updated
<1> QED
  BY <1>3, <1>4

\* The run is told of the report.
LEMMA MarkerUpdateStep ==
    ASSUME IInv, NEW r \in Runs, MarkerUpdate(r)
    PROVE  IInv' /\ Grown
<1>0. PICK a : a = cmd[r].rep
  OBVIOUS
<1>1. /\ cmd[r].pc # "idle" /\ ops[a].step = 2 /\ 3 <= LastStep(ops[a])
      /\ ops[a] # Nothing /\ a \in Reports /\ Typed /\ runOf[a] = r /\ Bound(r) # Nothing
  BY <1>0, Standing DEF MarkerUpdate, At, MarkerStep
<1> DEFINE marks == Bound(r).marks \cup {a}
<1>2. Update(r, "marks", marks)
  BY <1>0 DEF MarkerUpdate
<1>3. asg[r] \in Assignments \cup {Nothing} /\ tomb[r] \in Tombstones \cup {Nothing}
  BY <1>1 DEF Typed
<1>4. /\ Bound(r).marks \subseteq Reports
      /\ [Bound(r) EXCEPT !["marks"] = marks].marks = marks
  BY <1>1, <1>3 DEF Bound, Assignments, Tombstones
<1>5. /\ Grown /\ Typed' /\ (\A s \in Runs : Ended(s)') /\ ops' = ops /\ Done(r)
      /\ Bound(r)'.marks = marks /\ \A s \in Runs : s # r => Bound(s)' = Bound(s)
      /\ Serial => Fenced' /\ Audited'
  <2>1. marks \subseteq Reports /\ Bound(r).marks \subseteq marks
    BY <1>1, <1>4
  <2> HIDE DEF marks
  <2>2. Bound(r)' = [Bound(r) EXCEPT !["marks"] = marks]
    BY <1>1, <1>2, <2>1, Updated
  <2> QED
    BY <1>1, <1>2, <1>4, <2>1, <2>2, Updated
<1>6. ASSUME NEW b \in Reports, Marked(b)'
      PROVE  Marked(b) \/ (ops[b] # Nothing /\ ops[b].step >= 2)
  <2>1. runOf'[b] = runOf[b] /\ runOf[b] \in Runs
    BY <1>1, <1>5 DEF Grown, Typed
  <2> QED
    BY <1>1, <1>5, <1>6, <2>1 DEF Marked
<1>7. a \in Bound(runOf[a])'.marks
  BY <1>1, <1>5 DEF Grown
<1>8. ops[a].step + 1 = 3 /\ Holds(a, 3)' /\ 3 \in AuditStep..CloseStep
  BY <1>1, <1>7, HoldsCases
<1> QED
  BY <1>0, <1>1, <1>5, <1>6, <1>8, Effect DEF AuditStep

\* The run's use of the account gets its end.
LEMMA EndUpdateStep ==
    ASSUME IInv, NEW r \in Runs, EndUpdate(r)
    PROVE  IInv' /\ Grown
<1>0. PICK a : a = cmd[r].rep
  OBVIOUS
<1>1. /\ cmd[r].pc # "idle" /\ ops[a].step = 3 /\ 4 <= LastStep(ops[a])
      /\ ops[a] # Nothing /\ a \in Reports /\ Typed /\ runOf[a] = r /\ Bound(r) # Nothing
      /\ ops[a].accepted \in Clock /\ Ended(r)
  BY <1>0, Standing DEF EndUpdate, At, EndStep, IInv
<1> DEFINE end == EndFor(ops[a], Bound(r))
<1>2. Update(r, "end", end)
  BY <1>0 DEF EndUpdate
<1>3. asg[r] \in Assignments \cup {Nothing} /\ tomb[r] \in Tombstones \cup {Nothing}
  BY <1>1 DEF Typed
<1>4. Bound(r).until \in Ends /\ Bound(r).until # NotEnded
  BY <1>1, <1>3 DEF Bound, Assignments, Tombstones, Ended
<1>5. /\ [Bound(r) EXCEPT !["end"] = end].end = end
      /\ [Bound(r) EXCEPT !["end"] = end].marks = Bound(r).marks
  BY <1>1, <1>3 DEF Bound, Assignments, Tombstones
<1>6. end \in Ends /\ end # NotEnded
  BY <1>1, <1>4, Assumed DEF EndFor, Ends, NotEnded, Clock
<1>7. /\ Grown /\ Typed' /\ (\A s \in Runs : Ended(s)') /\ ops' = ops /\ Done(r)
      /\ Bound(r)'.end = end /\ Bound(r)'.marks = Bound(r).marks /\ Bound(r)' # Nothing
      /\ \A s \in Runs : s # r => Bound(s)' = Bound(s)
      /\ Serial => Fenced' /\ Audited'
  <2> HIDE DEF end
  <2>1. /\ Bound(r)' = [Bound(r) EXCEPT !["end"] = end] /\ Grown
    BY <1>1, <1>2, <1>6, Updated
  <2>2. Bound(r)' # Nothing
    BY <1>1, <2>1 DEF Grown
  <2> QED
    BY <1>1, <1>2, <1>5, <1>6, <2>1, <2>2, Updated
<1>8. ASSUME NEW b \in Reports, Marked(b)'
      PROVE  Marked(b)
  <2>1. runOf'[b] = runOf[b] /\ runOf[b] \in Runs
    BY <1>1, <1>7 DEF Grown, Typed
  <2> QED
    BY <1>1, <1>7, <1>8, <2>1 DEF Marked
<1>9. Bound(runOf[a])'.end # NotEnded
  BY <1>1, <1>6, <1>7 DEF Grown
<1>10. ops[a].step + 1 = 4 /\ Holds(a, 4)' /\ 4 \in AuditStep..CloseStep
  BY <1>1, <1>9, HoldsCases
<1> QED
  BY <1>0, <1>1, <1>7, <1>8, <1>10, Effect DEF AuditStep

\* The tombstone takes over from the assignment.
LEMMA TombstoneCreateStep ==
    ASSUME IInv, NEW r \in Runs, TombstoneCreate(r)
    PROVE  IInv' /\ Grown
<1>0. PICK a : a = cmd[r].rep
  OBVIOUS
<1>1. /\ cmd[r].pc # "idle" /\ ops[a].step = 5 /\ 6 <= LastStep(ops[a])
      /\ ops[a] # Nothing /\ a \in Reports /\ Typed /\ runOf[a] = r /\ Bound(r) # Nothing
      /\ ops[a].accepted \in Clock /\ Ended(r) /\ Operation(a)
  BY <1>0, Standing DEF TombstoneCreate, At, TombstoneStep, IInv
<1>2. CASE Fail(r) /\ tomb' = tomb
  BY <1>1, <1>2, Refuses, Still DEF TombstoneCreate
<1>3. CASE asg[r] = Nothing /\ Done(r) /\ tomb' = tomb
  <2>1. /\ Grown /\ (\A b \in Reports : Marked(b)' => Marked(b))
        /\ \A s \in Runs : Ended(s)'
    BY <1>3, Still DEF TombstoneCreate, IInv
  <2>2. Typed'
    BY <1>1, <1>3 DEF TombstoneCreate, Typed
  <2>3. Serial => Fenced' /\ Audited'
    BY <2>1, AuditedKept DEF TombstoneCreate, IInv, Fenced
  <2>4. ops[a].step + 1 = 6 /\ ops' = ops /\ tomb'[runOf'[a]] # Nothing
    BY <1>1, <1>3 DEF TombstoneCreate, Bound
  <2>5. Holds(a, 6)' /\ 6 \in AuditStep..CloseStep
    BY <1>1, <2>4, HoldsCases
  <2> QED
    BY <1>0, <1>1, <1>3, <2>1, <2>2, <2>3, <2>4, <2>5, Effect DEF AuditStep
<1> DEFINE planned == [marks |-> asg[r].marks, end |-> EndFor(ops[a], asg[r]),
                       from |-> asg[r].from, until |-> asg[r].until,
                       closed |-> ops[a].accepted]
<1>4. CASE /\ asg[r] # Nothing /\ tomb[r] \in {Nothing, planned}
           /\ tomb' = [tomb EXCEPT ![r] = planned] /\ Done(r)
  <2>1. asg[r] \in Assignments /\ asg[r].until # NotEnded
    BY <1>1, <1>4 DEF Typed, Ended
  <2>2. EndFor(ops[a], asg[r]) \in Ends /\ EndFor(ops[a], asg[r]) # NotEnded
    BY <1>1, <2>1, Assumed DEF EndFor, Ends, NotEnded, Clock, Assignments
  <2>3. /\ planned \in Tombstones /\ planned.marks = asg[r].marks
        /\ planned.until # NotEnded /\ planned.end # NotEnded
    BY <1>1, <2>1, <2>2 DEF Tombstones, Assignments
  <2>4. planned # Nothing
    BY <2>3, Assumed
  <2> HIDE DEF planned
  <2>5. /\ tomb'[r] = planned /\ asg' = asg /\ ops' = ops /\ lease' = lease
        /\ runOf' = runOf /\ revised' = revised /\ proof' = proof
        /\ \A s \in Runs : s # r => tomb'[s] = tomb[s]
    BY <1>1, <1>4 DEF TombstoneCreate, Typed
  <2>6. /\ Bound(r)' = planned /\ Bound(r).marks = planned.marks
        /\ \A s \in Runs : s # r => Bound(s)' = Bound(s)
    BY <1>4, <2>3, <2>4, <2>5 DEF Bound
  <2>7. Grown
    BY <2>3, <2>4, <2>5, <2>6 DEF Grown
  <2>8. ASSUME NEW b \in Reports, Marked(b)'
        PROVE  Marked(b)
    <3>1. runOf'[b] = runOf[b] /\ runOf[b] \in Runs
      BY <1>1, <2>5 DEF Typed
    <3> QED
      BY <1>1, <2>6, <2>8, <3>1 DEF Marked
  <2>9. Typed'
    BY <1>1, <1>4, <2>3 DEF TombstoneCreate, Typed
  <2>10. lease # r
    <3>1. 5 \in AuditStep..CloseStep /\ 5 <= ops[a].step
      BY <1>1, HoldsCases
    <3>2. Holds(a, 5)
      BY <1>1, <3>1 DEF Operation
    <3> QED
      BY <1>1, <3>2, HoldsCases
  <2>11. ASSUME NEW s \in Runs
         PROVE  Ended(s)'
    BY <2>3, <2>5, <2>10 DEF IInv, Ended
  <2>12. Serial => Fenced' /\ Audited'
    BY <2>7, AuditedKept DEF TombstoneCreate, IInv, Fenced
  <2>13. ops[a].step + 1 = 6 /\ tomb'[runOf'[a]] # Nothing
    BY <1>1, <2>4, <2>5
  <2>14. Holds(a, 6)' /\ 6 \in AuditStep..CloseStep
    BY <1>1, <2>13, HoldsCases
  <2> QED
    BY <1>0, <1>1, <1>4, <2>5, <2>7, <2>8, <2>9, <2>11, <2>12, <2>13, <2>14, Effect
       DEF AuditStep
<1> QED
  BY <1>0, <1>2, <1>3, <1>4 DEF TombstoneCreate, NoOtherTombstone

\* The checkpoint follows the effect it records.
LEMMA CheckpointStep ==
    ASSUME IInv, NEW r \in Runs, Checkpoint(r)
    PROVE  IInv'
<1>0. PICK a : a = cmd[r].rep
  OBVIOUS
<1>1. /\ cmd[r].pc = "checkpoint" /\ cmd[r] # Idle /\ ops[a].step < LastStep(ops[a])
      /\ Holds(a, ops[a].step + 1) /\ ops[a] \in Operations /\ ops[a] # Nothing
      /\ a \in Reports /\ Typed /\ runOf[a] = r /\ Bound(r) # Nothing /\ Operation(a)
      /\ ops[a].step \in -1..7 /\ LastStep(ops[a]) \in {3, 7}
  BY <1>0, Standing DEF Checkpoint, Position
<1> DEFINE c == [Idle EXCEPT !.rep = a, !.pc = "next"]
           op == [ops[a] EXCEPT !.step = ops[a].step + 1]
<1>2. c \in Commands /\ c.rep = a /\ c.pc = "next" /\ c # Idle
  <2>1. "next" \in Pcs
    BY DEF Pcs
  <2> QED
    BY <1>1, <2>1, Assumed DEF Commands, Idle
<1>3. /\ op \in Operations /\ op.step = ops[a].step + 1 /\ op.live = ops[a].live
      /\ LastStep(op) = LastStep(ops[a])
  BY <1>1 DEF Operations, LastStep, CloseStep, MarkerStep
<1>4. op # Nothing
  BY <1>3, Assumed
<1> HIDE DEF op
<1>5. /\ ops' = [ops EXCEPT ![a] = op] /\ cmd' = [cmd EXCEPT ![r] = c]
      /\ ops'[a] = op /\ \A b \in Reports : b # a => ops'[b] = ops[b]
  BY <1>0, <1>1 DEF Checkpoint, Advanced, Typed, op
<1>6. /\ Grown /\ (\A b \in Reports : Marked(b)' => Marked(b))
      /\ \A s \in Runs : Ended(s)'
  BY Still DEF Checkpoint, IInv
<1>7. Typed'
  BY <1>1, <1>3, <1>5 DEF Checkpoint, Typed
<1>8. ASSUME NEW step \in AuditStep..CloseStep, step <= op.step
      PROVE  Holds(a, step)'
  <2>1. Holds(a, step)
    <3>1. CASE step <= ops[a].step
      BY <1>1, <1>8, <3>1 DEF Operation
    <3>2. CASE step > ops[a].step
      <4>1. step = ops[a].step + 1
        BY <1>1, <1>3, <1>8, <3>2, HoldsCases
      <4> QED
        BY <1>1, <4>1
    <3> QED
      BY <1>1, <3>1, <3>2, HoldsCases
  <2> QED
    BY <1>1, <1>6, <1>8, <2>1, HoldsOn
<1>9. Operation(a)' /\ Applied(a)'
  <2>1. Marked(a)' => op.step >= 2
    BY <1>1, <1>3, <1>6 DEF Operation
  <2> QED
    BY <1>1, <1>3, <1>4, <1>5, <1>6, <1>8, <2>1 DEF Operation, Applied, Grown
<1>10. Position(r)'
  BY <1>1, <1>2, <1>4, <1>5, <1>6 DEF Position, Grown, Setting, Typed, IInv, TypeOK
<1>11. ASSUME Serial
       PROVE  Fenced' /\ Audited' /\ Alone(r)'
  <2>1. Fenced /\ Audited /\ Alone(r)
    BY <1>1, <1>11 DEF IInv
  <2>2. ASSUME NEW b \in Reports, ops'[b] # Nothing, ops'[b].step >= 0, Owes(b)'
        PROVE  b \in audit
    <3>1. runOf[b] = r /\ Owes(b)
      BY <1>1, <1>6, <1>11, <2>2, Solitary, OwesLess
    <3>2. CASE b = a /\ ops[a].step = -1
      BY <1>0, <1>1, <2>1, <3>1, <3>2 DEF Alone
    <3>3. CASE b = a /\ ops[a].step # -1
      <4>1. ops[a].step >= 0
        BY <1>1, <3>3
      <4> QED
        BY <1>1, <2>1, <3>1, <3>3, <4>1 DEF Audited
    <3>4. CASE b # a
      BY <1>5, <2>1, <2>2, <3>1, <3>4 DEF Audited
    <3> QED
      BY <3>2, <3>3, <3>4
  <2>3. Fenced'
    BY <2>1 DEF Checkpoint, Fenced
  <2>4. Audited'
    BY <2>1, <2>2 DEF Checkpoint, Audited
  <2>5. cmd'[r] = c
    BY <1>5 DEF IInv, TypeOK
  <2> QED
    BY <1>2, <2>3, <2>4, <2>5 DEF Alone
<1> HIDE DEF c
<1>12. \A b \in Reports :
           \/ /\ ops'[b] = ops[b]
              /\ Marked(b)' => Marked(b) \/ (ops[b] # Nothing /\ ops[b].step >= 2)
           \/ runOf[b] = r /\ Operation(b)' /\ Applied(b)'
  BY <1>1, <1>5, <1>6, <1>9
<1> QED
  BY <1>1, <1>2, <1>5, <1>6, <1>7, <1>10, <1>11, <1>12, Moves

\* The operation of a report that is applied is forgotten.
LEMMA FinishStep ==
    ASSUME IInv, NEW r \in Runs, Finish(r)
    PROVE  IInv'
<1>0. PICK a : a = cmd[r].rep
  OBVIOUS
<1>1. /\ cmd[r].pc = "next" /\ cmd[r] # Idle /\ ops[a].step = LastStep(ops[a])
      /\ ops[a] \in Operations /\ ops[a] # Nothing /\ ops[a].live \in BOOLEAN
      /\ a \in Reports /\ Typed /\ runOf[a] = r /\ Bound(r) # Nothing /\ Operation(a)
      /\ (ops[a].live <=> LastStep(ops[a]) = 7) /\ LastStep(ops[a]) \in {3, 7} /\ Ended(r)
  BY <1>0, Standing DEF Finish, IInv, Operations
<1>2. /\ ops' = [ops EXCEPT ![a] = Nothing] /\ cmd' = [cmd EXCEPT ![r] = Idle]
      /\ ops'[a] = Nothing /\ \A b \in Reports : b # a => ops'[b] = ops[b]
  BY <1>0, <1>1 DEF Finish, Fail, Typed
<1>3. /\ Grown /\ (\A b \in Reports : Marked(b)' => Marked(b))
      /\ \A s \in Runs : Ended(s)'
  BY Still DEF Finish, IInv
<1>4. Typed'
  BY <1>1, <1>2 DEF Finish, Typed
<1>5. ASSUME NEW step \in 1..7, step <= ops[a].step
      PROVE  Holds(a, step)'
  <2>1. step \in AuditStep..CloseStep
    BY <1>1, <1>5, HoldsCases
  <2>2. Holds(a, step)
    BY <1>1, <1>5, <2>1 DEF Operation
  <2> QED
    BY <1>1, <1>3, <2>1, <2>2, HoldsOn
<1>6. a \in proof' /\ (a \in Suspecting => revised' # {})
  <2>1. Holds(a, 1)' /\ Holds(a, 2)'
    BY <1>1, <1>5
  <2> QED
    BY <1>1, <2>1, HoldsCases
<1>7. tomb'[runOf'[a]] # Nothing /\ lease' # runOf'[a]
  <2>1. CASE ops[a].live
    <3>1. Holds(a, 5)' /\ Holds(a, 6)'
      BY <1>1, <1>5, <2>1
    <3> QED
      BY <1>1, <3>1, HoldsCases
  <2>2. CASE ~ops[a].live
    BY <1>1, <2>2 DEF Operation, Finish, Ended
  <2> QED
    BY <2>1, <2>2
<1>8. Operation(a)' /\ Applied(a)'
  BY <1>2, <1>6, <1>7 DEF Operation, Applied
<1>9. ASSUME Serial
      PROVE  Fenced' /\ Audited'
  <2>1. Fenced /\ Audited
    BY <1>9 DEF IInv
  <2>2. ASSUME NEW b \in Reports, ops'[b] # Nothing, Owes(b)'
        PROVE  ops[b] # Nothing /\ ops'[b] = ops[b] /\ Owes(b)
    BY <1>1, <1>2, <1>3, <1>9, <2>2, Solitary, OwesLess
  <2> QED
    BY <2>1, <2>2 DEF Finish, Fenced, Audited
<1>10. \A b \in Reports :
           \/ /\ ops'[b] = ops[b]
              /\ Marked(b)' => Marked(b) \/ (ops[b] # Nothing /\ ops[b].step >= 2)
           \/ runOf[b] = r /\ Operation(b)' /\ Applied(b)'
  BY <1>1, <1>2, <1>3, <1>8
<1> QED
  BY <1>1, <1>2, <1>3, <1>4, <1>9, <1>10, Moves, Assumed

\* A report is admitted, with its write-ahead record.
LEMMA AcceptStep ==
    ASSUME IInv, NEW a \in Reports, Accept(a)
    PROVE  IInv'
<1>0. PICK r : r = runOf[a]
  OBVIOUS
<1>1. /\ r \in Runs /\ cmd[r] = Idle /\ ops[a] = Nothing /\ Bound(r) # Nothing
      /\ a \notin Bound(r).marks /\ Typed /\ TypeOK
  BY <1>0 DEF Accept, IInv, TypeOK, Typed
<1> DEFINE c == [Idle EXCEPT !.rep = a, !.pc = "next"]
           op == [step |-> -1, live |-> tomb[r] = Nothing, accepted |-> clock]
<1>2. c \in Commands /\ c.rep = a /\ c.pc = "next"
  <2>1. "next" \in Pcs
    BY DEF Pcs
  <2> QED
    BY <2>1, Assumed DEF Commands, Idle
<1>3. op.step = -1 /\ (op.live <=> tomb[r] = Nothing) /\ op.accepted = clock
  OBVIOUS
<1>4. op \in Operations /\ op # Nothing
  <2>1. op \in Operations
    BY <1>1 DEF Operations, CloseStep, Typed
  <2> QED
    BY <2>1, Assumed
<1>5. -1 <= LastStep(op)
  BY DEF LastStep, CloseStep, MarkerStep
<1> HIDE DEF op
<1>6. /\ ops' = [ops EXCEPT ![a] = op] /\ cmd' = [cmd EXCEPT ![r] = c]
      /\ ops'[a] = op /\ \A b \in Reports : b # a => ops'[b] = ops[b]
  BY <1>0, <1>1 DEF Accept, Typed, op
<1>7. /\ Grown /\ (\A b \in Reports : Marked(b)' => Marked(b))
      /\ \A s \in Runs : Ended(s)'
  BY Still DEF Accept, IInv
<1>8. Typed'
  BY <1>1, <1>4, <1>6 DEF Accept, Typed
<1>9. Operation(a)' /\ Applied(a)'
  <2>1. ~Marked(a)'
    BY <1>0, <1>1, <1>7 DEF Marked
  <2>2. Bound(runOf[a])' # Nothing /\ (~op.live => tomb'[runOf'[a]] # Nothing)
    BY <1>0, <1>1, <1>3, <1>7 DEF Grown, Accept
  <2>3. \A step \in AuditStep..CloseStep : ~(step <= op.step)
    BY <1>3, HoldsCases
  <2> QED
    BY <1>3, <1>4, <1>5, <1>6, <2>1, <2>2, <2>3 DEF Operation, Applied
<1>10. Position(r)' /\ Alone(r)'
  <2>1. cmd'[r] = c
    BY <1>1, <1>6 DEF TypeOK
  <2> QED
    BY <1>0, <1>2, <1>4, <1>6, <1>7, <2>1 DEF Position, Alone, Grown, Setting
<1>11. ASSUME Serial
       PROVE  Fenced' /\ Audited'
  <2>1. Fenced /\ Audited
    BY <1>11 DEF IInv
  <2>2. ASSUME NEW b \in Reports, ops'[b] # Nothing, ops'[b].step >= 0, Owes(b)'
        PROVE  ops[b] # Nothing /\ ops'[b] = ops[b] /\ Owes(b)
    <3>1. b # a
      BY <1>3, <1>6, <2>2
    <3>2. ops[b] # Nothing /\ ops'[b] = ops[b]
      BY <1>6, <2>2, <3>1
    <3> QED
      BY <1>1, <1>7, <2>2, <3>2, OwesLess DEF IInv, Operation
  <2> QED
    BY <2>1, <2>2 DEF Accept, Fenced, Audited
<1> HIDE DEF c
<1>12. \A b \in Reports :
           \/ /\ ops'[b] = ops[b]
              /\ Marked(b)' => Marked(b) \/ (ops[b] # Nothing /\ ops[b].step >= 2)
           \/ runOf[b] = r /\ Operation(b)' /\ Applied(b)'
  BY <1>0, <1>6, <1>7, <1>9
<1> QED
  BY <1>0, <1>1, <1>2, <1>6, <1>7, <1>8, <1>10, <1>11, <1>12, Moves

\* The operation of a report is driven on.
LEMMA ResumeStep ==
    ASSUME IInv, NEW a \in Reports, Resume(a)
    PROVE  IInv'
<1>0. PICK r : r = runOf[a]
  OBVIOUS
<1>1. r \in Runs /\ cmd[r] = Idle /\ ops[a] # Nothing /\ Typed /\ TypeOK
  BY <1>0 DEF Resume, IInv, TypeOK, Typed
<1> DEFINE c == [Idle EXCEPT !.rep = a, !.pc = "next"]
<1>2. c \in Commands /\ c.rep = a /\ c.pc = "next"
  <2>1. "next" \in Pcs
    BY DEF Pcs
  <2> QED
    BY <2>1, Assumed DEF Commands, Idle
<1>3. cmd' = [cmd EXCEPT ![r] = c] /\ ops' = ops /\ cmd'[r] = c
  BY <1>0, <1>1 DEF Resume, TypeOK
<1>4. /\ Grown /\ (\A b \in Reports : Marked(b)' => Marked(b))
      /\ \A s \in Runs : Ended(s)'
  BY Still DEF Resume, IInv
<1>5. Typed'
  BY <1>1 DEF Resume, Typed
<1>6. Position(r)' /\ Alone(r)'
  BY <1>0, <1>1, <1>2, <1>3, <1>4 DEF Position, Alone, Grown, Setting
<1>7. Serial => Fenced' /\ Audited'
  BY <1>4, AuditedKept DEF Resume, IInv, Fenced
<1> QED
  BY <1>0, <1>1, <1>2, <1>3, <1>4, <1>5, <1>6, <1>7, Moves

-----------------------------------------------------------------------------
(* The world                                                                *)

\* A command is killed, and the create it had sent is on its way.
LEMMA CrashStep ==
    ASSUME IInv, NEW r \in Runs, Crash(r)
    PROVE  IInv'
<1>0. PICK a : a = cmd[r].rep
  OBVIOUS
<1>1. /\ cmd[r] # Idle /\ Typed /\ a \in Reports /\ runOf[a] = r
  BY <1>0 DEF Crash, IInv, Position, TypeOK, Typed
<1>2. /\ crashes' \in 0..MaxCrash /\ cmd' = [cmd EXCEPT ![r] = Idle]
      /\ \/ inflight' = inflight
         \/ cmd[r].pc = "create" /\ inflight' = inflight \cup {a}
  BY <1>0, <1>1, Assumed DEF Crash, Fail, Typed
<1>3. /\ Grown /\ (\A b \in Reports : Marked(b)' => Marked(b))
      /\ \A s \in Runs : Ended(s)'
  BY Still DEF Crash, IInv
<1>4. Typed'
  BY <1>1, <1>2 DEF Crash, Typed
<1>5. ASSUME Serial
      PROVE  Fenced' /\ Audited'
  <2>1. CASE inflight' = inflight
    BY <1>3, <1>5, <2>1, AuditedKept DEF Crash, IInv, Fenced
  <2>2. CASE cmd[r].pc = "create" /\ inflight' = inflight \cup {a}
    <3>1. fence = a /\ a \in audit /\ Fenced /\ Audited
      BY <1>0, <1>1, <1>5, <2>2 DEF IInv, Alone
    <3>2. fence # Nothing
      BY <1>1, <3>1, Assumed
    <3>3. \A b \in Reports : ops[b] # Nothing /\ Owes(b)' => Owes(b)
      BY <1>1, <1>3, OwesLess DEF IInv, Operation
    <3> QED
      BY <2>2, <3>1, <3>2, <3>3 DEF Crash, Fenced, Audited
  <2> QED
    BY <1>2, <2>1, <2>2
<1> QED
  BY <1>1, <1>2, <1>3, <1>4, <1>5, Moves, Assumed DEF Crash

\* A command that waits relies on what the world leaves alone.
LEMMA AloneKept ==
    ASSUME IInv, Serial, Grown, NEW s \in Runs, cmd[s] # Idle,
           UNCHANGED <<cmd, ops, fence, revised, inflight, audit>>
    PROVE  Alone(s)'
<1>1. Alone(s) /\ Typed /\ cmd[s].rep \in Reports /\ ops[cmd[s].rep] # Nothing
  BY DEF IInv, TypeOK, Typed, Position
<1>2. Bound(runOf[cmd[s].rep]) # Nothing
  BY <1>1 DEF IInv, Operation
<1>3. Owes(cmd[s].rep)' => Owes(cmd[s].rep)
  BY <1>1, <1>2, OwesLess
<1> QED
  BY <1>1, <1>3 DEF Alone

\* A late create lands.
LEMMA LandStep ==
    ASSUME IInv, NEW a \in Reports, Land(a)
    PROVE  IInv'
<1>1. /\ a \in inflight /\ revised' = revised \cup {a} /\ inflight' = inflight \ {a}
      /\ Typed
  BY DEF Land, IInv, TypeOK, Typed
<1>2. Grown /\ (\A b \in Reports : Marked(b)' => Marked(b)) /\ \A s \in Runs : Ended(s)'
  BY <1>1 DEF Land, IInv, Grown, Bound, Marked, Ended
<1>3. Typed'
  BY <1>1 DEF Land, Typed
<1>4. ASSUME Serial
      PROVE  Fenced' /\ Audited'
  <2>1. revised' \cup inflight' = revised \cup inflight
    BY <1>1
  <2>2. Audited'
    BY <1>2, <1>4, <2>1, AuditedKept DEF Land
  <2>3. Fenced'
    BY <1>1, <1>4, <2>1 DEF Land, IInv, Fenced
  <2> QED
    BY <2>2, <2>3
<1>5. ASSUME Serial, NEW s \in Runs, cmd[s] # Idle
      PROVE  Alone(s)'
  <2>1. Alone(s) /\ Fenced /\ cmd[s].rep \in Reports /\ ops[cmd[s].rep] # Nothing
    BY <1>5 DEF IInv, Position
  <2>2. Owes(cmd[s].rep)' => Owes(cmd[s].rep)
    <3>1. Bound(runOf[cmd[s].rep]) # Nothing
      BY <2>1 DEF IInv, Operation
    <3>2. PICK b \in Reports : b = cmd[s].rep
      BY <2>1
    <3>3. Owes(b)' => Owes(b)
      BY <1>1, <1>2, <3>1, <3>2, OwesLess
    <3> QED
      BY <3>2, <3>3 DEF Land
  <2>3. cmd[s].pc # "claim"
    BY <1>1, <2>1 DEF Alone
  <2>4. cmd[s].pc = "drop" => revised' = {cmd[s].rep}
    <3>1. CASE cmd[s].pc = "drop"
      <4>1. revised = {cmd[s].rep} /\ a = cmd[s].rep
        BY <1>1, <2>1, <3>1 DEF Alone, Fenced
      <4> QED
        BY <1>1, <4>1
    <3> QED
      BY <3>1
  <2> QED
    BY <2>1, <2>2, <2>3, <2>4 DEF Land, Alone
<1> QED
  BY <1>2, <1>3, <1>4, <1>5, World DEF Land

\* A run is provisioned with the record.
LEMMA ProvisionStep ==
    ASSUME IInv, NEW r \in Runs, Provision(r)
    PROVE  IInv' /\ Grown
<1>1. /\ asg[r] = Nothing /\ tomb[r] = Nothing /\ Bound(r) = Nothing /\ Typed
  BY DEF Provision, Bound, IInv, TypeOK, Typed
<1> DEFINE new == Provisioned(clock)
<1>2. new \in Assignments /\ new.until # NotEnded /\ new.marks = {}
  BY <1>1, Assumed DEF Provisioned, Assignments, Ends, NotEnded, Clock, Typed
<1> HIDE DEF new
<1>3. /\ asg' = [asg EXCEPT ![r] = new] /\ asg'[r] = new /\ lease' = r
      /\ tomb' = tomb /\ runOf' = runOf /\ revised' = revised /\ proof' = proof
      /\ \A s \in Runs : s # r => asg'[s] = asg[s]
  BY <1>1 DEF Provision, Typed, new
<1>4. Bound(r)' = new /\ \A s \in Runs : s # r => Bound(s)' = Bound(s)
  BY <1>1, <1>3 DEF Bound
<1>5. Grown
  BY <1>1, <1>3, <1>4 DEF Grown
<1>6. Typed'
  BY <1>1, <1>2, <1>3 DEF Provision, Typed
<1>7. ASSUME NEW b \in Reports, Marked(b)'
      PROVE  Marked(b)
  <2>1. runOf'[b] = runOf[b] /\ runOf[b] \in Runs
    BY <1>1, <1>3 DEF Typed
  <2> QED
    BY <1>2, <1>4, <1>7, <2>1 DEF Marked
<1>8. ASSUME NEW s \in Runs
      PROVE  Ended(s)'
  BY <1>1, <1>2, <1>3 DEF IInv, Ended
<1>9. Serial => Fenced' /\ Audited'
  BY <1>5, AuditedKept DEF Provision, IInv, Fenced
<1>10. ASSUME Serial, NEW s \in Runs, cmd[s] # Idle
       PROVE  Alone(s)'
  BY <1>5, <1>10, AloneKept DEF Provision
<1> QED
  BY <1>5, <1>6, <1>7, <1>8, <1>9, <1>10, World DEF Provision

\* Time passes.
LEMMA TickStep ==
    ASSUME IInv, Tick
    PROVE  IInv'
<1>1. /\ Grown /\ (\A b \in Reports : Marked(b)' => Marked(b))
      /\ \A s \in Runs : Ended(s)'
  BY Still DEF Tick, IInv
<1>2. Typed'
  BY Assumed DEF Tick, IInv, TypeOK, Typed, Clock
<1>3. Serial => Fenced' /\ Audited'
  BY <1>1, AuditedKept DEF Tick, IInv, Fenced
<1>4. ASSUME Serial, NEW s \in Runs, cmd[s] # Idle
      PROVE  Alone(s)'
  BY <1>1, <1>4, AloneKept DEF Tick
<1> QED
  BY <1>1, <1>2, <1>3, <1>4, World DEF Tick

-----------------------------------------------------------------------------
(* The theorems                                                             *)

LEMMA Starts == Init => IInv
<1> SUFFICES ASSUME Init PROVE IInv
  OBVIOUS
<1>1. Provisioned(0) \in Assignments /\ Provisioned(0).until # NotEnded
      /\ Provisioned(0).marks = {} /\ Provisioned(0) # Nothing
  <2>1. Provisioned(0) \in Assignments /\ Provisioned(0).until # NotEnded
        /\ Provisioned(0).marks = {}
    BY Assumed DEF Provisioned, Assignments, Ends, NotEnded, Clock
  <2> QED
    BY <2>1, Assumed
<1> DEFINE new == Provisioned(0)
<1> HIDE DEF new
<1>2. First \in Runs /\ new \in Assignments /\ new.until # NotEnded /\ new.marks = {}
  BY <1>1, ReportAssumption DEF new
<1>3. asg = [r \in Runs |-> IF r = First THEN new ELSE Nothing]
  BY DEF Init, new
<1>4. TypeOK
  BY <1>2, <1>3, Assumed DEF Init, TypeOK, Clock
<1>5. ASSUME NEW r \in Runs
      PROVE  Ended(r) /\ cmd[r] = Idle
  BY <1>2, <1>3 DEF Init, Ended
<1>6. ASSUME NEW a \in Reports
      PROVE  Operation(a) /\ Applied(a)
  <2>1. runOf[a] \in Runs /\ tomb[runOf[a]] = Nothing /\ ops[a] = Nothing
    BY DEF Init
  <2>2. ~Marked(a)
    BY <1>2, <1>3, <2>1 DEF Marked, Bound
  <2> QED
    BY <2>1, <2>2 DEF Operation, Applied
<1>7. Fenced /\ Audited
  BY DEF Init, Fenced, Audited
<1> QED
  BY <1>4, <1>5, <1>6, <1>7 DEF IInv

\* Every step keeps the invariant, and no binding is taken back.
LEMMA Steps == IInv /\ Next => IInv' /\ (Grown \/ UNCHANGED <<asg, tomb>>)
<1> SUFFICES ASSUME IInv, Next PROVE IInv' /\ (Grown \/ UNCHANGED <<asg, tomb>>)
  OBVIOUS
<1>1. CASE \E a \in Reports : Accept(a) \/ Resume(a) \/ Land(a)
  BY <1>1, AcceptStep, ResumeStep, LandStep DEF Accept, Resume, Land
<1>2. CASE \E r \in Runs : Step(r)
  <2>1. PICK r \in Runs : Step(r)
    BY <1>2
  <2>2. CASE PlanAudit(r) \/ AppendAudit(r) \/ PlanSet(r) \/ Settle(r) \/ Claim(r)
    BY <2>2, PlanAuditStep, AppendAuditStep, PlanSetStep, SettleStep, ClaimStep
       DEF PlanAudit, AppendAudit, PlanSet, Settle, Claim
  <2>3. CASE Call(r) \/ Create(r) \/ Reread(r) \/ DropFence(r) \/ ProofUpdate(r)
    BY <2>3, CallStep, CreateStep, RereadStep, DropFenceStep, ProofUpdateStep
       DEF Call, Create, Reread, DropFence, ProofUpdate
  <2>4. CASE MarkerUpdate(r) \/ EndUpdate(r) \/ TombstoneCreate(r) \/ AssignmentClose(r)
    BY <2>4, MarkerUpdateStep, EndUpdateStep, TombstoneCreateStep, AssignmentCloseStep
  <2>5. CASE PlanRelease(r) \/ UnlinkLease(r) \/ Checkpoint(r) \/ Finish(r)
    BY <2>5, PlanReleaseStep, UnlinkLeaseStep, CheckpointStep, FinishStep
       DEF PlanRelease, UnlinkLease, Checkpoint, Finish
  <2> QED
    BY <2>1, <2>2, <2>3, <2>4, <2>5 DEF Step
<1>3. CASE \E r \in Runs : Crash(r) \/ Provision(r)
  BY <1>3, CrashStep, ProvisionStep DEF Crash
<1>4. CASE Tick
  BY <1>4, TickStep DEF Tick
<1> QED
  BY <1>1, <1>2, <1>3, <1>4 DEF Next

LEMMA Stutters == IInv /\ UNCHANGED vars => IInv'
<1> SUFFICES ASSUME IInv, UNCHANGED vars PROVE IInv'
  OBVIOUS
<1>1. Grown /\ (\A b \in Reports : Marked(b)' => Marked(b)) /\ \A s \in Runs : Ended(s)'
  BY Still DEF vars, IInv
<1>2. Typed'
  BY DEF vars, IInv, TypeOK, Typed
<1>3. Serial => Fenced' /\ Audited'
  BY <1>1, AuditedKept DEF vars, IInv, Fenced
<1>4. ASSUME Serial, NEW s \in Runs, cmd[s] # Idle
      PROVE  Alone(s)'
  BY <1>1, <1>4, AloneKept DEF vars
<1> QED
  BY <1>1, <1>2, <1>3, <1>4, World DEF vars

LEMMA Invariant == Spec => []IInv
<1>1. IInv /\ [Next]_vars => IInv'
  BY Steps, Stutters
<1> QED
  BY Starts, <1>1, PTL DEF Spec

\* Every file and every command has its type, in every state.
THEOREM TypeCorrect == Spec => []TypeOK
<1>1. IInv => TypeOK
  BY DEF IInv
<1> QED
  BY Invariant, <1>1, PTL

\* The checkpoint of an operation records only what stands: whatever command is
\* killed, at whatever point, its resumption finds every effect it skips done.
THEOREM CheckpointBehind == Spec => []CheckpointNeverAhead
<1>1. IInv => CheckpointNeverAhead
  BY DEF IInv, Operation, CheckpointNeverAhead
<1> QED
  BY Invariant, <1>1, PTL

\* A report that is forgotten was applied in full: its run is closed and holds no
\* account, its contribution is in the proof record, the credential is revised.
THEOREM AppliedHolds == Spec => []AppliedReportHolds
<1>1. IInv => AppliedReportHolds
  BY DEF IInv, Applied, Marked, AppliedReportHolds
<1> QED
  BY Invariant, <1>1, PTL

\* While the reports are about one run its fence keeps the chain to one revision,
\* however many creates are lost, late or repeated.
THEOREM FenceHolds == Spec => []FenceGuards
<1>1. IInv => FenceGuards
  <2> SUFFICES ASSUME IInv, Serial
               PROVE  ChainValid /\ \A a \in inflight : fence = a \/ revised = {a}
    BY DEF FenceGuards
  <2>1. Fenced /\ revised \subseteq Reports /\ inflight \subseteq Reports
    BY DEF IInv, TypeOK
  <2>2. revised = {} \/ \E a \in Reports : revised = {a}
    BY <2>1 DEF Fenced
  <2>3. Cardinality(revised) \in {0, 1}
    BY <2>2, FS_EmptySet, FS_Singleton
  <2>4. ChainValid
    BY <2>3 DEF ChainValid
  <2>5. ASSUME NEW a \in inflight
        PROVE  fence = a \/ revised = {a}
    BY <2>1, <2>2 DEF Fenced
  <2> QED
    BY <2>4, <2>5
<1> QED
  BY Invariant, <1>1, PTL

\* No create is sent, and no revision stands, whose attempt is not on record.
THEOREM AuditFirst == Spec => []AuditPrecedesCreate
<1>1. IInv => AuditPrecedesCreate
  BY DEF IInv, Audited, AuditPrecedesCreate
<1> QED
  BY Invariant, <1>1, PTL

\* A run that was bound stays bound, and is told of a report for good.
THEOREM BindingGrows == Spec => BindingOnlyGrows
<1> DEFINE Kept == \A r \in Runs : Bound(r) # Nothing =>
                       Bound(r)' # Nothing /\ Bound(r).marks \subseteq Bound(r)'.marks
<1>1. IInv /\ [Next]_vars => [Kept]_vars
  BY Steps DEF Grown, Bound, vars
<1> QED
  BY Invariant, <1>1, PTL DEF Spec, BindingOnlyGrows

-----------------------------------------------------------------------------
(* A report is taken up once and applied once                               *)

\* One step of the abstract ledger, or none.
Ledgers == [Ledger!Next]_(Ledger!vars)

\* A create is of a report that suspects the credential, and that has its operation
\* until some revision has landed.
Sending(r) == cmd[r].pc \in {"claim", "call", "create"} => cmd[r].rep \in Suspecting
Sent(a) == a \in inflight => a \in Suspecting /\ (revised = {} => ops[a] # Nothing)
\* A report was accepted before now, and a run that holds the account is bound.
Taken(a) == ops[a] # Nothing => ops[a].accepted <= clock
Leased == lease # Nothing => Bound(lease) # Nothing
LInv ==
    /\ IInv /\ Leased
    /\ \A r \in Runs : Sending(r)
    /\ \A a \in Reports : Sent(a) /\ Taken(a)

\* Commands come to a create by way of a revision they owe.
LEMMA SendingStep ==
    ASSUME IInv, \A r \in Runs : Sending(r), [Next]_vars, NEW s \in Runs
    PROVE  Sending(s)'
<1>1. TypeOK /\ cmd \in [Runs -> Commands] /\ Sending(s)
  BY DEF IInv, TypeOK
<1>2. CASE cmd' = cmd
  BY <1>1, <1>2 DEF Sending
<1>3. ASSUME NEW a \in Reports, Accept(a) \/ Resume(a) PROVE Sending(s)'
  <2>1. cmd'[s] = cmd[s] \/ cmd'[s] = [Idle EXCEPT !.rep = a, !.pc = "next"]
    BY <1>1, <1>3 DEF Accept, Resume
  <2>2. [Idle EXCEPT !.rep = a, !.pc = "next"].pc = "next"
    BY DEF Idle
  <2> QED
    BY <1>1, <2>1, <2>2 DEF Sending
<1>4. ASSUME NEW r \in Runs, Step(r) PROVE Sending(s)'
  <2>1. CASE s # r
    <3>1. cmd'[s] = cmd[s]
      <4>1. CASE PlanAudit(r) \/ AppendAudit(r) \/ PlanSet(r) \/ Settle(r) \/ Claim(r)
                 \/ Call(r) \/ Create(r) \/ Reread(r) \/ DropFence(r)
        BY <1>1, <2>1, <4>1 DEF PlanAudit, AppendAudit, PlanSet, Settle, Claim, Call, Create,
           Reread, DropFence, Fail, Done, GoTo
      <4>2. CASE ProofUpdate(r) \/ MarkerUpdate(r) \/ EndUpdate(r) \/ PlanRelease(r)
                 \/ UnlinkLease(r) \/ TombstoneCreate(r) \/ AssignmentClose(r) \/ Checkpoint(r)
                 \/ Finish(r)
        BY <1>1, <2>1, <4>2 DEF ProofUpdate, MarkerUpdate, EndUpdate, Update, PlanRelease,
           UnlinkLease, TombstoneCreate, AssignmentClose, Checkpoint, Finish, Fail, Done, GoTo
      <4> QED
        BY <1>4, <4>1, <4>2 DEF Step
    <3> QED
      BY <1>1, <3>1 DEF Sending
  <2>2. CASE s = r
    <3>1. cmd[r] \in Commands
      BY <1>1
    <3>2. CASE PlanSet(r)
      <4>1. cmd[r].rep \in Suspecting
        BY <3>2 DEF PlanSet, Owes
      <4>2. cmd'[r] = Idle \/ \E pc \in Pcs : cmd'[r] = [cmd[r] EXCEPT !.pc = pc]
        BY <1>1, <3>2 DEF PlanSet, Fail, GoTo, Pcs
      <4>3. cmd'[r].pc = "idle" \/ cmd'[r].rep = cmd[r].rep
        BY <3>1, <4>2, Assumed DEF Commands
      <4> QED
        BY <2>2, <4>1, <4>3 DEF Sending
    <3>3. CASE Claim(r) \/ Call(r)
      <4>1. cmd[r].rep \in Suspecting
        BY <1>1, <2>2, <3>3 DEF Claim, Call, Sending
      <4>2. \/ cmd'[r] = [cmd[r] EXCEPT !.pc = "call", !.own = TRUE]
            \/ cmd'[r] = [cmd[r] EXCEPT !.pc = "create"]
            \/ \E answer \in Answers :
                   cmd'[r] = [cmd[r] EXCEPT !.pc = "answered", !.answer = answer]
        BY <1>1, <3>3 DEF Claim, Call, GoTo, Answers
      <4>3. cmd'[r].rep = cmd[r].rep
        BY <3>1, <4>2 DEF Commands
      <4> QED
        BY <2>2, <4>1, <4>3 DEF Sending
    <3>4. CASE Create(r)
      <4>1. \E answer \in Answers : cmd'[r] = [cmd[r] EXCEPT !.pc = "answered", !.answer = answer]
        BY <1>1, <3>4 DEF Create, Answers
      <4>2. cmd'[r].pc = "answered"
        BY <3>1, <4>1 DEF Commands
      <4> QED
        BY <2>2, <4>2 DEF Sending
    <3>5. CASE PlanAudit(r)
      <4>1. \/ cmd'[r] = Idle \/ cmd'[r] = [cmd[r] EXCEPT !.pc = "checkpoint"]
            \/ cmd'[r] = [cmd[r] EXCEPT !.pc = "append", !.lines = audit]
        BY <1>1, <3>5 DEF PlanAudit, Fail, Done
      <4>2. cmd'[r].pc \in {"idle", "checkpoint", "append"}
        BY <3>1, <4>1, Assumed DEF Commands
      <4> QED
        BY <2>2, <4>2 DEF Sending
    <3>6. CASE AppendAudit(r) \/ Settle(r) \/ Reread(r) \/ DropFence(r)
      <4>1. \/ cmd'[r] = Idle
            \/ \E pc \in {"checkpoint", "drop", "refuse"} : cmd'[r] = [cmd[r] EXCEPT !.pc = pc]
        BY <1>1, <3>6 DEF AppendAudit, Settle, Reread, DropFence, Fail, Done, GoTo
      <4>2. cmd'[r].pc \in {"idle", "checkpoint", "drop", "refuse"}
        BY <3>1, <4>1, Assumed DEF Commands
      <4> QED
        BY <2>2, <4>2 DEF Sending
    <3>7. CASE ProofUpdate(r) \/ MarkerUpdate(r) \/ EndUpdate(r) \/ PlanRelease(r)
               \/ UnlinkLease(r) \/ TombstoneCreate(r) \/ AssignmentClose(r)
      <4>1. \/ cmd'[r] = Idle
            \/ \E pc \in {"checkpoint", "unlink"} : cmd'[r] = [cmd[r] EXCEPT !.pc = pc]
        BY <1>1, <3>7 DEF ProofUpdate, MarkerUpdate, EndUpdate, Update, PlanRelease,
           UnlinkLease, TombstoneCreate, AssignmentClose, Fail, Done, GoTo
      <4>2. cmd'[r].pc \in {"idle", "checkpoint", "unlink"}
        BY <3>1, <4>1, Assumed DEF Commands
      <4> QED
        BY <2>2, <4>2 DEF Sending
    <3>8. CASE Checkpoint(r) \/ Finish(r)
      <4>1. cmd'[r] = Idle \/ cmd'[r] = [Idle EXCEPT !.rep = cmd[r].rep, !.pc = "next"]
        BY <1>1, <3>8 DEF Checkpoint, Finish, Fail
      <4>2. [Idle EXCEPT !.rep = cmd[r].rep, !.pc = "next"].pc = "next"
        BY DEF Idle
      <4>3. cmd'[r].pc \in {"idle", "next"}
        BY <4>1, <4>2, Assumed
      <4> QED
        BY <2>2, <4>3 DEF Sending
    <3> QED
      BY <1>4, <3>2, <3>3, <3>4, <3>5, <3>6, <3>7, <3>8 DEF Step
  <2> QED
    BY <2>1, <2>2
<1>5. ASSUME NEW r \in Runs, Crash(r) PROVE Sending(s)'
  <2>1. cmd'[s] = cmd[s] \/ cmd'[s] = Idle
    BY <1>1, <1>5 DEF Crash, Fail
  <2> QED
    BY <1>1, <2>1, Assumed DEF Sending
<1>6. ASSUME NEW a \in Reports, Land(a) PROVE cmd' = cmd
  BY <1>6 DEF Land
<1>7. ASSUME NEW r \in Runs, Provision(r) PROVE cmd' = cmd
  BY <1>7 DEF Provision
<1>8. CASE Tick \/ UNCHANGED vars
  BY <1>2, <1>8 DEF Tick, vars
<1> QED
  BY <1>2, <1>3, <1>4, <1>5, <1>6, <1>7, <1>8 DEF Next

\* The steps of commands that leave the operations, the creates and the clock alone.
Idles(r) ==
    \/ PlanAudit(r) \/ AppendAudit(r) \/ PlanSet(r) \/ Settle(r) \/ Claim(r) \/ Call(r)
    \/ Reread(r) \/ DropFence(r) \/ ProofUpdate(r) \/ MarkerUpdate(r) \/ EndUpdate(r)
    \/ PlanRelease(r) \/ UnlinkLease(r) \/ TombstoneCreate(r) \/ AssignmentClose(r)

LEMMA Idling ==
    ASSUME NEW r \in Runs, Idles(r)
    PROVE  UNCHANGED <<ops, inflight, revised, clock, runOf>>
<1>1. CASE PlanAudit(r) \/ AppendAudit(r) \/ PlanSet(r) \/ Settle(r) \/ Claim(r) \/ Call(r)
           \/ Reread(r) \/ DropFence(r)
  BY <1>1 DEF PlanAudit, AppendAudit, PlanSet, Settle, Claim, Call, Reread, DropFence
<1>2. CASE ProofUpdate(r) \/ MarkerUpdate(r) \/ EndUpdate(r) \/ PlanRelease(r)
           \/ UnlinkLease(r) \/ TombstoneCreate(r) \/ AssignmentClose(r)
  BY <1>2 DEF ProofUpdate, MarkerUpdate, EndUpdate, Update, PlanRelease, UnlinkLease,
     TombstoneCreate, AssignmentClose
<1> QED
  BY <1>1, <1>2 DEF Idles

\* A checkpoint moves the step of one operation and nothing else.
LEMMA Checkpointed ==
    ASSUME IInv, NEW r \in Runs, Checkpoint(r)
    PROVE  /\ cmd[r].rep \in Reports /\ ops[cmd[r].rep] # Nothing
           /\ ops'[cmd[r].rep] # Nothing
           /\ ops'[cmd[r].rep].accepted = ops[cmd[r].rep].accepted
           /\ \A b \in Reports : b # cmd[r].rep => ops'[b] = ops[b]
<1>0. PICK a : a = cmd[r].rep
  OBVIOUS
<1>1. /\ cmd[r].pc = "checkpoint" /\ a \in Reports /\ Typed
      /\ ops[a] \in Operations /\ ops[a] # Nothing /\ ops[a].step \in -1..7
  BY <1>0, Standing DEF Checkpoint
<1>2. ops[a].step < 7
  BY <1>0, <1>1, Standing DEF Position
<1>3. /\ ops'[a] = [ops[a] EXCEPT !.step = ops[a].step + 1]
      /\ \A b \in Reports : b # a => ops'[b] = ops[b]
  BY <1>0, <1>1 DEF Checkpoint, Advanced, Typed
<1>4. ops[a].step + 1 \in -1..CloseStep
  BY <1>1, <1>2 DEF CloseStep
<1>5. PICK k \in -1..CloseStep : k = ops[a].step + 1
  BY <1>4
<1>6. [ops[a] EXCEPT !.step = k] \in Operations
      /\ [ops[a] EXCEPT !.step = k].accepted = ops[a].accepted
  BY <1>1 DEF Operations
<1> QED
  BY <1>0, <1>1, <1>3, <1>5, <1>6, Assumed

\* What the first effects have established.
LEMMA HoldsNow ==
    ASSUME NEW a \in Reports
    PROVE  /\ Holds(a, 1) <=> (a \in Suspecting => revised # {})
           /\ Holds(a, 2) <=> a \in proof
           /\ Holds(a, 3) <=> a \in Bound(runOf[a]).marks
           /\ Holds(a, 4) <=> Bound(runOf[a]).end # NotEnded
           /\ Holds(a, 5) <=> lease # runOf[a]
  BY DEF Holds, AuditStep, CredentialStep, ProofStep, MarkerStep, EndStep, LeaseStep,
         TombstoneStep, CloseStep

\* A report that is finished has nothing to be done about it.
LEMMA Finished ==
    ASSUME IInv, NEW r \in Runs, Finish(r)
    PROVE  LET a == cmd[r].rep IN
           /\ a \in Reports /\ runOf[a] = r /\ ops[a] # Nothing /\ ops'[a] = Nothing
           /\ \A b \in Reports : b # a => ops'[b] = ops[b]
           /\ (a \in Suspecting => revised # {}) /\ Bound(r) # Nothing /\ a \in Bound(r).marks
           /\ tomb[r] # Nothing /\ lease # r
<1>0. PICK a : a = cmd[r].rep
  OBVIOUS
<1>1. /\ cmd[r].pc = "next" /\ ops[a].step = LastStep(ops[a]) /\ ops[a] # Nothing
      /\ a \in Reports /\ Typed /\ runOf[a] = r /\ Bound(r) # Nothing /\ Operation(a)
      /\ (ops[a].live <=> LastStep(ops[a]) = 7) /\ LastStep(ops[a]) \in {3, 7} /\ Ended(r)
  BY <1>0, Standing DEF Finish, IInv
<1>2. ops'[a] = Nothing /\ \A b \in Reports : b # a => ops'[b] = ops[b]
  BY <1>0, <1>1 DEF Finish, Typed
<1>3. ASSUME NEW step \in 0..7, step <= ops[a].step
      PROVE  Holds(a, step)
  BY <1>1, <1>3, HoldsCases DEF Operation
<1>4. Holds(a, 1) /\ Holds(a, 3)
  BY <1>1, <1>3
<1>5. (a \in Suspecting => revised # {}) /\ a \in Bound(r).marks
  BY <1>1, <1>4, HoldsNow
<1>6. tomb[r] # Nothing
  <2>1. CASE ops[a].live
    <3>1. Holds(a, 6)
      BY <1>1, <1>3, <2>1
    <3> QED
      BY <1>1, <3>1, HoldsCases
  <2>2. CASE ~ops[a].live
    BY <1>1, <2>2 DEF Operation
  <2> QED
    BY <2>1, <2>2
<1> QED
  BY <1>0, <1>1, <1>2, <1>5, <1>6 DEF Ended

\* A create that may still land belongs to a report that is not done.
LEMMA SentStep ==
    ASSUME IInv, \A r \in Runs : Sending(r), \A a \in Reports : Sent(a), [Next]_vars,
           NEW a \in Reports
    PROVE  Sent(a)'
<1>1. Sent(a) /\ Typed
  BY DEF IInv, TypeOK, Typed
<1>2. CASE UNCHANGED <<ops, inflight, revised>>
  BY <1>1, <1>2 DEF Sent
<1>3. ASSUME NEW b \in Reports, Accept(b) PROVE Sent(a)'
  <2>1. ops[b] = Nothing /\ (a # b => ops'[a] = ops[a]) /\ UNCHANGED <<inflight, revised>>
    BY <1>1, <1>3 DEF Accept, Typed
  <2>2. a = b => ~(a \in inflight /\ revised = {})
    BY <1>1, <2>1 DEF Sent
  <2> QED
    BY <1>1, <2>1, <2>2 DEF Sent
<1>4. ASSUME NEW r \in Runs, Checkpoint(r) PROVE Sent(a)'
  <2>1. ops[a] # Nothing => ops'[a] # Nothing
    BY <1>4, Checkpointed
  <2> QED
    BY <1>1, <1>4, <2>1 DEF Checkpoint, Sent
<1>5. ASSUME NEW r \in Runs, Finish(r) PROVE Sent(a)'
  <2>1. a # cmd[r].rep => ops'[a] = ops[a]
    BY <1>5, Finished
  <2>2. a = cmd[r].rep => (a \in Suspecting => revised # {})
    BY <1>5, Finished
  <2> QED
    BY <1>1, <1>5, <2>1, <2>2 DEF Finish, Sent
<1>6. ASSUME NEW r \in Runs, Create(r) \/ Crash(r) PROVE Sent(a)'
  <2>1. cmd[r].pc = "create" => cmd[r].rep \in Suspecting /\ ops[cmd[r].rep] # Nothing
    BY Standing DEF Sending
  <2>2. /\ ops' = ops /\ revised \subseteq revised'
        /\ a \in inflight' => a \in inflight \/ (cmd[r].pc = "create" /\ a = cmd[r].rep)
    BY <1>6 DEF Create, Crash
  <2> QED
    BY <1>1, <2>1, <2>2 DEF Sent
<1>7. ASSUME NEW b \in Reports, Land(b) PROVE Sent(a)'
  BY <1>1, <1>7 DEF Land, Sent
<1>8. ASSUME NEW r \in Runs, Idles(r) PROVE UNCHANGED <<ops, inflight, revised>>
  BY <1>8, Idling
<1>9. ASSUME NEW b \in Reports, Resume(b) PROVE UNCHANGED <<ops, inflight, revised>>
  BY <1>9 DEF Resume
<1>10. ASSUME NEW r \in Runs, Provision(r) PROVE UNCHANGED <<ops, inflight, revised>>
  BY <1>10 DEF Provision
<1>11. CASE Tick \/ UNCHANGED vars
  BY <1>2, <1>11 DEF Tick, vars
<1> QED
  BY <1>2, <1>3, <1>4, <1>5, <1>6, <1>7, <1>8, <1>9, <1>10, <1>11 DEF Next, Step, Idles

\* Operations are accepted when they are written.
LEMMA TakenStep ==
    ASSUME IInv, \A a \in Reports : Taken(a), [Next]_vars, NEW a \in Reports
    PROVE  Taken(a)'
<1>1. Taken(a) /\ Typed /\ clock \in Int /\ (ops[a] # Nothing => ops[a].accepted \in Int)
  BY Assumed DEF IInv, TypeOK, Typed, Clock, Operations
<1>2. CASE ops' = ops /\ clock' \in {clock, clock + 1}
  BY <1>1, <1>2 DEF Taken
<1>3. ASSUME NEW b \in Reports, Accept(b) PROVE Taken(a)'
  <2>1. clock' = clock /\ (ops'[a] = ops[a] \/ ops'[a].accepted = clock)
    BY <1>1, <1>3 DEF Accept, Typed
  <2> QED
    BY <1>1, <2>1 DEF Taken
<1>4. ASSUME NEW r \in Runs, Checkpoint(r) PROVE Taken(a)'
  <2>1. \/ ops'[a] = ops[a]
        \/ ops[a] # Nothing /\ ops'[a].accepted = ops[a].accepted
    BY <1>4, Checkpointed
  <2> QED
    BY <1>1, <1>4, <2>1 DEF Checkpoint, Taken
<1>5. ASSUME NEW r \in Runs, Finish(r) PROVE Taken(a)'
  <2>1. ops'[a] = ops[a] \/ ops'[a] = Nothing
    BY <1>5, Finished
  <2> QED
    BY <1>1, <1>5, <2>1 DEF Finish, Taken
<1>6. ASSUME NEW r \in Runs, Create(r) \/ Crash(r) \/ Provision(r) PROVE Taken(a)'
  BY <1>2, <1>6 DEF Create, Crash, Provision
<1>7. ASSUME NEW b \in Reports, Land(b) \/ Resume(b) PROVE Taken(a)'
  BY <1>2, <1>7 DEF Land, Resume
<1>8. ASSUME NEW r \in Runs, Idles(r) PROVE Taken(a)'
  BY <1>2, <1>8, Idling
<1>9. CASE Tick \/ UNCHANGED vars
  BY <1>2, <1>9 DEF Tick, vars
<1> QED
  BY <1>3, <1>4, <1>5, <1>6, <1>7, <1>8, <1>9 DEF Next, Step, Idles

\* The account is given to a run that is bound, and bindings stay.
LEMMA LeasedStep == IInv /\ Leased /\ [Next]_vars => Leased'
<1> SUFFICES ASSUME IInv, Leased, [Next]_vars PROVE Leased'
  OBVIOUS
<1>1. Typed /\ lease \in Runs \cup {Nothing}
  BY DEF IInv, TypeOK, Typed
<1>2. Next => Grown \/ UNCHANGED <<asg, tomb>>
  BY Steps
<1>3. CASE lease' = lease
  <2>1. CASE Grown
    BY <1>1, <1>3, <2>1 DEF Leased, Grown
  <2>2. CASE UNCHANGED <<asg, tomb>>
    BY <1>3, <2>2 DEF Leased, Bound
  <2> QED
    BY <1>2, <2>1, <2>2 DEF vars
<1>4. ASSUME NEW r \in Runs, UnlinkLease(r) PROVE Leased'
  BY <1>4 DEF UnlinkLease, Leased
<1>5. ASSUME NEW r \in Runs, Provision(r) PROVE Leased'
  <2>1. Provisioned(clock) \in Assignments
    BY <1>1, Assumed DEF Provisioned, Assignments, Ends, Clock, NotEnded, Typed
  <2>2. asg'[r] # Nothing /\ lease' = r
    BY <1>1, <1>5, <2>1, Assumed DEF Provision, Typed
  <2> QED
    BY <1>5, <2>2 DEF Provision, Leased, Bound
<1>6. ASSUME NEW r \in Runs, Idles(r), ~UnlinkLease(r) PROVE lease' = lease
  <2>1. CASE PlanAudit(r) \/ AppendAudit(r) \/ PlanSet(r) \/ Settle(r) \/ Claim(r) \/ Call(r)
             \/ Reread(r) \/ DropFence(r)
    BY <2>1 DEF PlanAudit, AppendAudit, PlanSet, Settle, Claim, Call, Reread, DropFence
  <2>2. CASE ProofUpdate(r) \/ MarkerUpdate(r) \/ EndUpdate(r) \/ PlanRelease(r)
             \/ TombstoneCreate(r) \/ AssignmentClose(r)
    BY <2>2 DEF ProofUpdate, MarkerUpdate, EndUpdate, Update, PlanRelease, TombstoneCreate,
       AssignmentClose
  <2> QED
    BY <1>6, <2>1, <2>2 DEF Idles
<1>7. ASSUME NEW r \in Runs, Create(r) \/ Checkpoint(r) \/ Finish(r) \/ Crash(r)
      PROVE  lease' = lease
  BY <1>7 DEF Create, Checkpoint, Finish, Crash
<1>8. ASSUME NEW a \in Reports, Accept(a) \/ Resume(a) \/ Land(a) PROVE lease' = lease
  BY <1>8 DEF Accept, Resume, Land
<1>9. CASE Tick \/ UNCHANGED vars
  BY <1>3, <1>9 DEF Tick, vars
<1> QED
  BY <1>3, <1>4, <1>5, <1>6, <1>7, <1>8, <1>9 DEF Next, Step, Idles

LEMMA LInvariant == Spec => []LInv
<1>1. Init => LInv
  <2> SUFFICES ASSUME Init PROVE LInv
    OBVIOUS
  <2>1. Provisioned(0) \in Assignments
    BY Assumed DEF Provisioned, Assignments, Ends, Clock, NotEnded
  <2>2. asg[First] # Nothing /\ lease = First
    BY <2>1, Assumed, ReportAssumption DEF Init
  <2>3. Leased
    BY <2>2, ReportAssumption DEF Init, Leased, Bound
  <2>4. IInv
    BY Starts
  <2> QED
    BY <2>3, <2>4, Assumed DEF Init, LInv, Sending, Sent, Taken
<1>2. LInv /\ [Next]_vars => LInv'
  <2> SUFFICES ASSUME LInv, [Next]_vars PROVE LInv'
    OBVIOUS
  <2>1. IInv'
    BY Steps, Stutters DEF LInv
  <2>2. Leased'
    BY LeasedStep DEF LInv
  <2>3. \A r \in Runs : Sending(r)'
    BY SendingStep DEF LInv
  <2>4. \A a \in Reports : Sent(a)' /\ Taken(a)'
    BY SentStep, TakenStep DEF LInv
  <2> QED
    BY <2>1, <2>2, <2>3, <2>4 DEF LInv
<1> QED
  BY <1>1, <1>2, PTL DEF Spec

\* A step that leaves bindings, marks and pending operations as they are changes what
\* neither a report nor a run is to the ledger.
LEMMA ToldKept ==
    ASSUME runOf' = runOf,
           \A a \in Reports : /\ ops'[a] = Nothing <=> ops[a] = Nothing
                              /\ \/ Marked(a)' <=> Marked(a)
                                 \/ ops[a] # Nothing
    PROVE  [a \in Reports |-> Told(a)]' = [a \in Reports |-> Told(a)]
<1>1. ASSUME NEW a \in Reports PROVE Told(a)' = Told(a)
  BY <1>1 DEF Told, Marked
<1> QED
  BY <1>1

LEMMA MarkedKept ==
    ASSUME UNCHANGED <<runOf, asg, tomb>>
    PROVE  \A a \in Reports : Marked(a)' <=> Marked(a)
  BY DEF Marked, Bound

LEMMA BindingKept ==
    ASSUME \A r \in Runs : Bound(r)' = Bound(r) /\ (tomb'[r] = Nothing <=> tomb[r] = Nothing)
    PROVE  [r \in Runs |-> Binding(r)]' = [r \in Runs |-> Binding(r)]
<1>1. ASSUME NEW r \in Runs PROVE Binding(r)' = Binding(r)
  BY <1>1 DEF Binding
<1> QED
  BY <1>1

\* What a run that is bound is to the ledger.
LEMMA BindingOf ==
    ASSUME NEW r \in Runs, Bound(r) # Nothing
    PROVE  LET b == [s \in Runs |-> Binding(s)][r] IN
           /\ b.marks = Bound(r).marks /\ b.end = Bound(r).end /\ b.until = Bound(r).until
           /\ b.state = IF tomb[r] = Nothing THEN "open" ELSE "closed"
  BY DEF Binding

\* The binding of one run moves on.
LEMMA BindingMoves ==
    ASSUME NEW r \in Runs, Bound(r) # Nothing, Bound(r)' # Nothing,
           Bound(r)'.until = Bound(r).until,
           \A s \in Runs : s # r => Bound(s)' = Bound(s) /\ tomb'[s] = tomb[s],
           NEW marks, Bound(r)'.marks = marks, NEW end, Bound(r)'.end = end,
           NEW state, state = IF tomb'[r] = Nothing THEN "open" ELSE "closed"
    PROVE  Ledger!Becomes(r, marks, end, state)
<1>1. ASSUME NEW s \in Runs, s # r PROVE Binding(s)' = Binding(s)
  BY <1>1 DEF Binding
<1>2. Binding(r)' = [marks |-> marks, end |-> end, until |-> Bound(r).until, state |-> state]
  BY DEF Binding
<1>3. [s \in Runs |-> Binding(s)][r].until = Bound(r).until
  BY BindingOf
<1>4. [s \in Runs |-> Binding(s)]' = [[s \in Runs |-> Binding(s)] EXCEPT ![r] = Binding(r)']
  BY <1>1
<1> QED
  BY <1>2, <1>3, <1>4 DEF Ledger!Becomes

\* A report of a command is pending, and what the ledger says of it and of its run.
LEMMA PendingOf ==
    ASSUME IInv, NEW r \in Runs, cmd[r].pc # "idle"
    PROVE  LET a == cmd[r].rep IN
           /\ a \in Reports /\ runOf[a] = r /\ Ledger!Pending(a) /\ Bound(r) # Nothing
           /\ Ledger!Marked(a) <=> a \in Bound(r).marks
           /\ Ledger!Ended(r) <=> Bound(r).end # NotEnded
<1>0. PICK a : a = cmd[r].rep
  OBVIOUS
<1>1. a \in Reports /\ runOf[a] = r /\ ops[a] # Nothing /\ Bound(r) # Nothing
  BY <1>0, Standing
<1>2. Ledger!Pending(a)
  BY <1>1 DEF Ledger!Pending, Told
<1>3. Ledger!Marked(a) <=> a \in Bound(r).marks
  BY <1>1, BindingOf DEF Ledger!Marked
<1>4. Ledger!Ended(r) <=> Bound(r).end # NotEnded
  BY <1>1, BindingOf DEF Ledger!Ended, Ledger!NotEnded, NotEnded
<1> QED
  BY <1>0, <1>1, <1>2, <1>3, <1>4

\* What the effects before this one established.
LEMMA Behind ==
    ASSUME IInv, NEW r \in Runs, cmd[r].pc # "idle",
           NEW k \in 0..7, k <= ops[cmd[r].rep].step
    PROVE  LET a == cmd[r].rep IN
           /\ k = 1 => (a \in Suspecting => revised # {})
           /\ k = 2 => a \in proof
           /\ k = 3 => a \in Bound(r).marks
           /\ k = 4 => Bound(r).end # NotEnded
           /\ k = 5 => lease # r
<1>0. PICK a : a = cmd[r].rep
  OBVIOUS
<1>1. a \in Reports /\ runOf[a] = r /\ Operation(a) /\ ops[a] # Nothing
  BY <1>0, Standing
<1>2. Holds(a, k)
  BY <1>0, <1>1, HoldsCases DEF Operation
<1> QED
  BY <1>0, <1>1, <1>2, HoldsNow

\* A step that touches none of it is none of the ledger.
LEMMA QuietLedger ==
    ASSUME UNCHANGED <<runOf, clock, proof, asg, tomb, lease>>,
           (revised' = {}) <=> (revised = {}),
           \A a \in Reports : ops'[a] = Nothing <=> ops[a] = Nothing
    PROVE  Ledgers
<1>1. [a \in Reports |-> Told(a)]' = [a \in Reports |-> Told(a)]
  BY ToldKept, MarkedKept
<1>2. [r \in Runs |-> Binding(r)]' = [r \in Runs |-> Binding(r)]
  BY BindingKept DEF Bound
<1> QED
  BY <1>1, <1>2 DEF Ledgers, Ledger!vars

LEMMA IdleLedger ==
    ASSUME NEW r \in Runs,
           \/ PlanAudit(r) \/ AppendAudit(r) \/ PlanSet(r) \/ Settle(r) \/ Claim(r)
           \/ Call(r) \/ Reread(r) \/ DropFence(r) \/ PlanRelease(r) \/ Crash(r)
    PROVE  Ledgers
<1>1. UNCHANGED <<runOf, clock, proof, asg, tomb, lease, revised, ops>>
  BY DEF PlanAudit, AppendAudit, PlanSet, Settle, Claim, Call, Reread, DropFence,
     PlanRelease, Crash
<1> QED
  BY <1>1, QuietLedger

LEMMA ResumeLedger ==
    ASSUME NEW a \in Reports, Resume(a)
    PROVE  Ledgers
  BY QuietLedger DEF Resume

LEMMA CheckpointLedger ==
    ASSUME IInv, NEW r \in Runs, Checkpoint(r)
    PROVE  Ledgers
<1>1. \A b \in Reports : ops'[b] = Nothing <=> ops[b] = Nothing
  BY Checkpointed
<1> QED
  BY <1>1, QuietLedger DEF Checkpoint

\* A revision lands for a pending report that suspects the credential, or after another.
LEMMA SuspectLedger ==
    ASSUME LInv, NEW a \in Reports, a \in Suspecting, revised = {} => ops[a] # Nothing,
           revised' = revised \cup {a},
           UNCHANGED <<runOf, clock, proof, asg, tomb, lease, ops>>
    PROVE  Ledgers
<1>1. CASE revised # {}
  BY <1>1, QuietLedger
<1>2. CASE revised = {}
  <2>1. [b \in Reports |-> Told(b)]' = [b \in Reports |-> Told(b)]
    BY ToldKept, MarkedKept
  <2>2. [r \in Runs |-> Binding(r)]' = [r \in Runs |-> Binding(r)]
    BY BindingKept DEF Bound
  <2>3. Ledger!Pending(a)
    BY <1>2 DEF Ledger!Pending, Told
  <2>4. (revised # {})' = TRUE
    OBVIOUS
  <2>5. Ledger!Suspect(a)
    BY <2>1, <2>2, <2>3, <2>4 DEF Ledger!Suspect
  <2> QED
    BY <2>5 DEF Ledgers, Ledger!Next
<1> QED
  BY <1>1, <1>2

LEMMA CreateLedger ==
    ASSUME LInv, NEW r \in Runs, Create(r)
    PROVE  Ledgers
<1>1. cmd[r].rep \in Suspecting /\ cmd[r].rep \in Reports /\ ops[cmd[r].rep] # Nothing
  BY Standing DEF LInv, Sending, Create
<1>2. CASE revised' = revised
  BY <1>2, QuietLedger DEF Create
<1>3. CASE revised' = revised \cup {cmd[r].rep}
  BY <1>1, <1>3, SuspectLedger DEF Create
<1> QED
  BY <1>2, <1>3 DEF Create

LEMMA LandLedger ==
    ASSUME LInv, NEW a \in Reports, Land(a)
    PROVE  Ledgers
<1>1. a \in Suspecting /\ (revised = {} => ops[a] # Nothing)
  BY DEF LInv, Sent, Land
<1> QED
  BY <1>1, SuspectLedger DEF Land

\* The report is counted in the proof.
LEMMA CountLedger ==
    ASSUME IInv, NEW r \in Runs, ProofUpdate(r)
    PROVE  Ledgers
<1>0. PICK a : a = cmd[r].rep
  OBVIOUS
<1>1. /\ cmd[r].pc # "idle" /\ 1 <= ops[a].step /\ proof' = proof \cup {a}
      /\ UNCHANGED <<runOf, clock, asg, tomb, lease, ops, revised>>
  BY <1>0, Standing DEF ProofUpdate, At, ProofStep
<1>2. a \in Reports /\ Ledger!Pending(a) /\ (a \in Suspecting => revised # {})
  BY <1>0, <1>1, PendingOf, Behind
<1>3. [b \in Reports |-> Told(b)]' = [b \in Reports |-> Told(b)]
  BY <1>1, ToldKept, MarkedKept
<1>4. [s \in Runs |-> Binding(s)]' = [s \in Runs |-> Binding(s)]
  BY <1>1, BindingKept DEF Bound
<1>5. Ledger!Count(a)
  BY <1>1, <1>2, <1>3, <1>4 DEF Ledger!Count
<1> QED
  BY <1>2, <1>5 DEF Ledgers, Ledger!Next

\* The end of a binding by the command's operation is of its lease, and not to come.
LEMMA EndingOf ==
    ASSUME LInv, NEW a \in Reports, ops[a] # Nothing, NEW record, record.until \in Ends,
           record.until # NotEnded
    PROVE  EndFor(ops[a], record) \in 0..clock /\ EndFor(ops[a], record) <= record.until
<1>1. ops[a].accepted \in Clock /\ ops[a].accepted <= clock /\ clock \in Clock
  BY DEF LInv, IInv, TypeOK, Operations, Taken
<1>2. record.until \in Nat /\ ops[a].accepted \in Nat /\ clock \in Nat
  BY <1>1, Assumed DEF Ends, NotEnded, Clock
<1> QED
  BY <1>1, <1>2 DEF EndFor

\* The run is marked with the report.
LEMMA MarkLedger ==
    ASSUME IInv, NEW r \in Runs, MarkerUpdate(r)
    PROVE  Ledgers
<1>0. PICK a : a = cmd[r].rep
  OBVIOUS
<1>1. /\ cmd[r].pc # "idle" /\ 2 <= ops[a].step /\ ops[a] # Nothing /\ a \in Reports
      /\ Typed /\ runOf[a] = r /\ Bound(r) # Nothing
  BY <1>0, Standing DEF MarkerUpdate, At, MarkerStep
<1>2. Ledger!Pending(a) /\ a \in proof
  BY <1>0, <1>1, PendingOf, Behind
<1>3. Bound(r) \in Assignments \cup Tombstones
  BY <1>1 DEF Typed, Bound
<1> DEFINE marks == Bound(r).marks \cup {a}
<1>4. Update(r, "marks", marks) /\ marks \subseteq Reports /\ Bound(r).marks \subseteq marks
  BY <1>0, <1>1, <1>3 DEF MarkerUpdate, Assignments, Tombstones
<1>5. LET new == [Bound(r) EXCEPT !["marks"] = marks] IN
      new.marks = marks /\ new.end = Bound(r).end /\ new.until = Bound(r).until
  BY <1>3 DEF Assignments, Tombstones
<1> HIDE DEF marks
<1>6. /\ Grown /\ ops' = ops /\ Bound(r)' = [Bound(r) EXCEPT !["marks"] = marks]
      /\ \A s \in Runs : s # r => Bound(s)' = Bound(s)
  BY <1>1, <1>4, Updated
<1>7. UNCHANGED <<runOf, clock, revised, proof, lease>>
  BY <1>4 DEF Update
<1>8. /\ \A s \in Runs : s # r => tomb'[s] = tomb[s]
      /\ tomb'[r] = Nothing <=> tomb[r] = Nothing
  BY <1>1, <1>4, <1>6 DEF Update, Typed, Grown
<1>9. /\ Bound(r)' # Nothing /\ Bound(r)'.marks = marks /\ Bound(r)'.end = Bound(r).end
      /\ Bound(r)'.until = Bound(r).until
  BY <1>1, <1>5, <1>6 DEF Grown
<1>10. [b \in Reports |-> Told(b)]' = [b \in Reports |-> Told(b)]
  <2>1. ASSUME NEW b \in Reports, b # a PROVE Marked(b)' <=> Marked(b)
    <3>1. runOf'[b] = runOf[b] /\ runOf[b] \in Runs
      BY <1>1, <1>7 DEF Typed
    <3>2. CASE runOf[b] = r
      BY <1>1, <1>9, <2>1, <3>1, <3>2 DEF Marked, marks
    <3>3. CASE runOf[b] # r
      BY <1>6, <3>1, <3>3 DEF Marked
    <3> QED
      BY <3>2, <3>3
  <2> QED
    BY <1>1, <1>6, <1>7, <2>1, ToldKept
<1>11. LET b == [s \in Runs |-> Binding(s)][r] IN
       /\ b.marks \cup {a} = marks /\ b.end = Bound(r).end
       /\ b.state = IF tomb'[r] = Nothing THEN "open" ELSE "closed"
  BY <1>1, <1>8, BindingOf DEF marks
<1>12. LET b == [s \in Runs |-> Binding(s)][r] IN
       Ledger!Becomes(r, b.marks \cup {a}, b.end, b.state)
  BY <1>1, <1>6, <1>8, <1>9, <1>11, BindingMoves
<1>13. Ledger!Mark(a)
  BY <1>1, <1>2, <1>7, <1>10, <1>12 DEF Ledger!Mark
<1> QED
  BY <1>1, <1>13 DEF Ledgers, Ledger!Next

\* The binding of the run ends.
LEMMA EndLedger ==
    ASSUME LInv, NEW r \in Runs, EndUpdate(r)
    PROVE  Ledgers
<1>0. PICK a : a = cmd[r].rep
  OBVIOUS
<1>1. /\ cmd[r].pc # "idle" /\ 3 <= ops[a].step /\ ops[a] # Nothing /\ a \in Reports
      /\ Typed /\ runOf[a] = r /\ Bound(r) # Nothing /\ Ended(r) /\ IInv
  BY <1>0, Standing DEF EndUpdate, At, EndStep, LInv, IInv
<1>2. Ledger!Pending(a) /\ Ledger!Marked(a)
  BY <1>0, <1>1, PendingOf, Behind
<1>3. Bound(r) \in Assignments \cup Tombstones
  BY <1>1 DEF Typed, Bound
<1>4. Bound(r).until \in Ends /\ Bound(r).until # NotEnded
  BY <1>1, <1>3 DEF Bound, Assignments, Tombstones, Ended
<1> DEFINE end == EndFor(ops[a], Bound(r))
<1>5. end \in 0..clock /\ end <= Bound(r).until
  BY <1>1, <1>4, EndingOf
<1>6. Update(r, "end", end)
  BY <1>0 DEF EndUpdate
<1> HIDE DEF end
<1>7. end \in Ends /\ end # NotEnded
  BY <1>1, <1>5, Assumed DEF Typed, Ends, NotEnded, Clock
<1>8. LET new == [Bound(r) EXCEPT !["end"] = end] IN
      new.marks = Bound(r).marks /\ new.end = end /\ new.until = Bound(r).until
  BY <1>3 DEF Assignments, Tombstones
<1>9. /\ Grown /\ ops' = ops /\ Bound(r)' = [Bound(r) EXCEPT !["end"] = end]
      /\ \A s \in Runs : s # r => Bound(s)' = Bound(s)
  BY <1>1, <1>6, <1>7, Updated
<1>10. UNCHANGED <<runOf, clock, revised, proof, lease>>
  BY <1>6 DEF Update
<1>11. /\ \A s \in Runs : s # r => tomb'[s] = tomb[s]
       /\ tomb'[r] = Nothing <=> tomb[r] = Nothing
  BY <1>1, <1>6, <1>9 DEF Update, Typed, Grown
<1>12. /\ Bound(r)' # Nothing /\ Bound(r)'.marks = Bound(r).marks /\ Bound(r)'.end = end
       /\ Bound(r)'.until = Bound(r).until
  BY <1>1, <1>8, <1>9 DEF Grown
<1>13. [b \in Reports |-> Told(b)]' = [b \in Reports |-> Told(b)]
  <2>1. ASSUME NEW b \in Reports PROVE Marked(b)' <=> Marked(b)
    <3>1. runOf'[b] = runOf[b] /\ runOf[b] \in Runs
      BY <1>1, <1>10 DEF Typed
    <3> QED
      BY <1>1, <1>9, <1>12, <3>1 DEF Marked
  <2> QED
    BY <1>9, <1>10, <2>1, ToldKept
<1>14. LET b == [s \in Runs |-> Binding(s)][r] IN
       /\ b.marks = Bound(r).marks /\ end <= b.until
       /\ b.state = IF tomb'[r] = Nothing THEN "open" ELSE "closed"
  BY <1>1, <1>5, <1>11, BindingOf
<1>15. LET b == [s \in Runs |-> Binding(s)][r] IN Ledger!Becomes(r, b.marks, end, b.state)
  BY <1>1, <1>9, <1>11, <1>12, <1>14, BindingMoves
<1>16. Ledger!End(a, end)
  BY <1>1, <1>2, <1>10, <1>13, <1>14, <1>15 DEF Ledger!End
<1> QED
  BY <1>1, <1>5, <1>16 DEF Ledgers, Ledger!Next

\* The account is let go of.
LEMMA ReleaseLedger ==
    ASSUME IInv, NEW r \in Runs, UnlinkLease(r)
    PROVE  Ledgers
<1>0. PICK a : a = cmd[r].rep
  OBVIOUS
<1>1. /\ cmd[r].pc # "idle" /\ ops[a].step = 4 /\ a \in Reports /\ runOf[a] = r
      /\ lease' = Nothing /\ UNCHANGED <<runOf, clock, revised, proof, asg, tomb, ops>>
  BY <1>0, Standing DEF UnlinkLease, Position
<1>2. Ledger!Pending(a) /\ Ledger!Marked(a) /\ Ledger!Ended(r)
  BY <1>0, <1>1, PendingOf, Behind
<1>3. [b \in Reports |-> Told(b)]' = [b \in Reports |-> Told(b)]
  BY <1>1, ToldKept, MarkedKept
<1>4. [s \in Runs |-> Binding(s)]' = [s \in Runs |-> Binding(s)]
  BY <1>1, BindingKept DEF Bound
<1>5. Ledger!Release(a)
  BY <1>1, <1>2, <1>3, <1>4 DEF Ledger!Release
<1> QED
  BY <1>1, <1>5 DEF Ledgers, Ledger!Next

\* The run is closed.
LEMMA CloseLedger ==
    ASSUME LInv, NEW r \in Runs, TombstoneCreate(r)
    PROVE  Ledgers
<1>0. PICK a : a = cmd[r].rep
  OBVIOUS
<1>1. /\ cmd[r].pc # "idle" /\ ops[a].step = 5 /\ ops[a] # Nothing /\ a \in Reports
      /\ Typed /\ runOf[a] = r /\ Bound(r) # Nothing /\ Ended(r) /\ IInv
  BY <1>0, Standing DEF TombstoneCreate, At, TombstoneStep, LInv, IInv
<1>2. UNCHANGED <<runOf, clock, revised, proof, asg, lease, ops>>
  BY DEF TombstoneCreate
<1>3. CASE tomb' = tomb
  BY <1>2, <1>3, QuietLedger
<1>4. CASE tomb' # tomb
  <2> DEFINE end == EndFor(ops[a], asg[r])
             planned == [marks |-> asg[r].marks, end |-> end, from |-> asg[r].from,
                         until |-> asg[r].until, closed |-> ops[a].accepted]
  <2>1. /\ asg[r] # Nothing /\ tomb[r] \in {Nothing, planned}
        /\ tomb' = [tomb EXCEPT ![r] = planned]
    BY <1>0, <1>4 DEF TombstoneCreate, NoOtherTombstone
  <2>2. asg[r] \in Assignments /\ asg[r].until \in Ends /\ asg[r].until # NotEnded
    BY <1>1, <2>1 DEF Typed, Ended, Assignments
  <2>3. end \in 0..clock /\ end <= asg[r].until
    BY <1>1, <2>2, EndingOf
  <2>4. planned \in Tombstones
    BY <1>1, <2>2, <2>3, Assumed
       DEF Tombstones, Assignments, Typed, Clock, Ends, Operations
  <2>5. planned # Nothing /\ planned.marks = asg[r].marks /\ planned.end = end
        /\ planned.until = asg[r].until
    BY <2>4, Assumed
  <2> HIDE DEF planned, end
  <2>6. tomb[r] = Nothing
    BY <1>1, <1>4, <2>1 DEF Typed
  <2>7. /\ tomb'[r] = planned /\ \A s \in Runs : s # r => tomb'[s] = tomb[s]
    BY <1>1, <2>1 DEF Typed
  <2>8. /\ Bound(r) = asg[r] /\ Bound(r)' = planned
        /\ \A s \in Runs : s # r => Bound(s)' = Bound(s)
    BY <1>2, <2>5, <2>6, <2>7 DEF Bound
  <2>9. [b \in Reports |-> Told(b)]' = [b \in Reports |-> Told(b)]
    <3>1. ASSUME NEW b \in Reports PROVE Marked(b)' <=> Marked(b)
      <4>1. runOf'[b] = runOf[b] /\ runOf[b] \in Runs
        BY <1>1, <1>2 DEF Typed
      <4> QED
        BY <1>1, <2>5, <2>8, <4>1 DEF Marked
    <3> QED
      BY <1>2, <3>1, ToldKept
  <2>10. Ledger!Pending(a) /\ Ledger!Marked(a) /\ Ledger!Ended(r) /\ lease # r
    BY <1>0, <1>1, PendingOf, Behind
  <2>11. LET b == [s \in Runs |-> Binding(s)][r] IN
         b.marks = Bound(r).marks /\ end <= b.until /\ b.state = "open"
    BY <1>1, <2>3, <2>6, <2>8, BindingOf
  <2>12. LET b == [s \in Runs |-> Binding(s)][r] IN Ledger!Becomes(r, b.marks, end, "closed")
    BY <1>1, <2>5, <2>7, <2>8, <2>11, BindingMoves
  <2>13. Ledger!Close(a, end)
    BY <1>1, <1>2, <2>9, <2>10, <2>11, <2>12 DEF Ledger!Close
  <2> QED
    BY <1>1, <2>3, <2>13 DEF Ledgers, Ledger!Next
<1> QED
  BY <1>3, <1>4

\* The assignment goes once the tombstone binds.
LEMMA ClosedLedger ==
    ASSUME IInv, NEW r \in Runs, AssignmentClose(r)
    PROVE  Ledgers
<1>1. UNCHANGED <<runOf, clock, revised, proof, tomb, lease, ops>> /\ Typed
  BY DEF AssignmentClose, IInv, TypeOK, Typed
<1>2. \A s \in Runs : Bound(s)' = Bound(s)
  BY <1>1 DEF AssignmentClose, Bound, Typed
<1>3. \A b \in Reports : Marked(b)' <=> Marked(b)
  BY <1>1, <1>2 DEF Marked, Typed
<1>4. [b \in Reports |-> Told(b)]' = [b \in Reports |-> Told(b)]
  BY <1>1, <1>3, ToldKept
<1>5. [s \in Runs |-> Binding(s)]' = [s \in Runs |-> Binding(s)]
  BY <1>1, <1>2, BindingKept
<1> QED
  BY <1>1, <1>4, <1>5 DEF Ledgers, Ledger!vars

\* The report is applied, once everything is.
LEMMA ApplyLedger ==
    ASSUME IInv, NEW r \in Runs, Finish(r)
    PROVE  Ledgers
<1>0. PICK a : a = cmd[r].rep
  OBVIOUS
<1>1. /\ a \in Reports /\ runOf[a] = r /\ ops[a] # Nothing /\ ops'[a] = Nothing
      /\ \A b \in Reports : b # a => ops'[b] = ops[b]
      /\ Bound(r) # Nothing /\ a \in Bound(r).marks /\ tomb[r] # Nothing /\ lease # r
  BY <1>0, Finished
<1>2. UNCHANGED <<runOf, clock, revised, proof, asg, tomb, lease>>
  BY DEF Finish
<1>3. Ledger!Pending(a) /\ Ledger!Marked(a)
  BY <1>0, <1>1, PendingOf DEF Finish
<1>4. [s \in Runs |-> Binding(s)][r].state = "closed"
  BY <1>1, BindingOf
<1>5. [s \in Runs |-> Binding(s)]' = [s \in Runs |-> Binding(s)]
  BY <1>2, BindingKept DEF Bound
<1>6. [b \in Reports |-> Told(b)]' = [[b \in Reports |-> Told(b)] EXCEPT ![a] = "applied"]
  <2>1. Told(a)' = "applied"
    BY <1>1, <1>2 DEF Told, Bound
  <2>2. ASSUME NEW b \in Reports, b # a PROVE Told(b)' = Told(b)
    BY <1>1, <1>2, <2>2 DEF Told, Bound
  <2> QED
    BY <2>1, <2>2
<1>7. Ledger!Apply(a)
  BY <1>1, <1>2, <1>3, <1>4, <1>5, <1>6 DEF Ledger!Apply
<1> QED
  BY <1>1, <1>7 DEF Ledgers, Ledger!Next

\* A report is taken up where it was not known.
LEMMA AcceptLedger ==
    ASSUME IInv, NEW a \in Reports, Accept(a)
    PROVE  Ledgers
<1>0. PICK r : r = runOf[a]
  OBVIOUS
<1>1. /\ r \in Runs /\ ops[a] = Nothing /\ Bound(r) # Nothing /\ a \notin Bound(r).marks
      /\ Typed /\ UNCHANGED <<runOf, clock, revised, proof, asg, tomb, lease>>
  BY <1>0 DEF Accept, IInv, TypeOK, Typed
<1>2. ops'[a] # Nothing /\ \A b \in Reports : b # a => ops'[b] = ops[b]
  <2> DEFINE new == [step |-> -1, live |-> tomb[r] = Nothing, accepted |-> clock]
  <2>1. new \in Operations
    BY <1>1 DEF Operations, CloseStep, Typed
  <2>2. ops' = [ops EXCEPT ![a] = new]
    BY <1>0 DEF Accept
  <2> HIDE DEF new
  <2> QED
    BY <1>1, <2>1, <2>2, Assumed DEF Typed
<1>3. Told(a) = "unknown" /\ Told(a)' = "pending"
  BY <1>0, <1>1, <1>2 DEF Told
<1>4. [b \in Reports |-> Told(b)]' = [[b \in Reports |-> Told(b)] EXCEPT ![a] = "pending"]
  <2>1. ASSUME NEW b \in Reports, b # a PROVE Told(b)' = Told(b)
    BY <1>1, <1>2, <2>1 DEF Told, Bound
  <2> QED
    BY <1>3, <2>1
<1>5. [s \in Runs |-> Binding(s)]' = [s \in Runs |-> Binding(s)]
  BY <1>1, BindingKept DEF Bound
<1>6. [s \in Runs |-> Binding(s)][r] # Ledger!Unbound
  <2>1. [s \in Runs |-> Binding(s)][r].state \in {"open", "closed"}
    BY <1>1, BindingOf
  <2> QED
    BY <2>1 DEF Ledger!Unbound
<1>7. Ledger!Accept(a)
  BY <1>0, <1>1, <1>3, <1>4, <1>5, <1>6 DEF Ledger!Accept
<1> QED
  BY <1>7 DEF Ledgers, Ledger!Next

\* The account goes to a run that was not bound.
LEMMA ProvideLedger ==
    ASSUME LInv, NEW r \in Runs, Provision(r)
    PROVE  Ledgers
<1>1. /\ asg[r] = Nothing /\ tomb[r] = Nothing /\ Bound(r) = Nothing /\ Typed
  BY DEF Provision, Bound, LInv, IInv, TypeOK, Typed
<1> DEFINE new == Provisioned(clock)
<1>2. /\ new \in Assignments /\ new.until = clock + LeaseTerm /\ new.marks = {}
      /\ new.end = NotEnded
  BY <1>1, Assumed DEF Provisioned, Assignments, Ends, NotEnded, Clock, Typed
<1> HIDE DEF new
<1>3. /\ asg' = [asg EXCEPT ![r] = new] /\ asg'[r] = new /\ lease' = r
      /\ \A s \in Runs : s # r => asg'[s] = asg[s]
      /\ UNCHANGED <<tomb, runOf, revised, proof, clock, ops>>
  BY <1>1 DEF Provision, Typed, new
<1>4. Bound(r)' = new /\ new # Nothing /\ \A s \in Runs : s # r => Bound(s)' = Bound(s)
  BY <1>1, <1>2, <1>3, Assumed DEF Bound
<1>5. ASSUME lease # Nothing
      PROVE  clock >= [s \in Runs |-> Binding(s)][lease].until
  <2>1. lease \in Runs /\ Bound(lease) # Nothing /\ tomb[lease] = Nothing
    BY <1>1, <1>5 DEF Typed, LInv, IInv, Leased, Ended
  <2>2. Bound(lease) = asg[lease] /\ clock >= asg[lease].until
    BY <2>1 DEF Bound, Provision
  <2> QED
    BY <2>1, <2>2, BindingOf
<1>6. [s \in Runs |-> Binding(s)][r] = Ledger!Unbound
  BY <1>1 DEF Binding, Ledger!Unbound, Ledger!NotEnded, NotEnded
<1>7. [s \in Runs |-> Binding(s)]'
      = [[s \in Runs |-> Binding(s)] EXCEPT ![r] = Ledger!Open(clock + LeaseTerm)]
  <2>1. Binding(r)' = Ledger!Open(clock + LeaseTerm)
    BY <1>1, <1>2, <1>3, <1>4 DEF Binding, Ledger!Open, Ledger!NotEnded, NotEnded
  <2>2. ASSUME NEW s \in Runs, s # r PROVE Binding(s)' = Binding(s)
    BY <1>3, <1>4, <2>2 DEF Binding
  <2> QED
    BY <2>1, <2>2
<1>8. [b \in Reports |-> Told(b)]' = [b \in Reports |-> Told(b)]
  <2>1. ASSUME NEW b \in Reports PROVE Marked(b)' <=> Marked(b)
    <3>1. runOf'[b] = runOf[b] /\ runOf[b] \in Runs
      BY <1>1, <1>3 DEF Typed
    <3> QED
      BY <1>1, <1>2, <1>4, <3>1 DEF Marked
  <2> QED
    BY <1>3, <2>1, ToldKept
<1>9. Ledger!Provide(r)
  BY <1>3, <1>5, <1>6, <1>7, <1>8 DEF Ledger!Provide
<1> QED
  BY <1>9 DEF Ledgers, Ledger!Next

\* Time goes on.
LEMMA TickLedger ==
    ASSUME Tick
    PROVE  Ledgers
<1>1. UNCHANGED <<runOf, revised, proof, asg, tomb, lease, ops>> /\ clock' = clock + 1
  BY DEF Tick
<1>2. [b \in Reports |-> Told(b)]' = [b \in Reports |-> Told(b)]
  BY <1>1, ToldKept, MarkedKept
<1>3. [s \in Runs |-> Binding(s)]' = [s \in Runs |-> Binding(s)]
  BY <1>1, BindingKept DEF Bound
<1> QED
  BY <1>1, <1>2, <1>3 DEF Ledgers, Ledger!Next, Ledger!Tick

\* The ledger starts with one run that holds the account.
LEMMA LedgerStarts == Init => Ledger!Init
<1> SUFFICES ASSUME Init PROVE Ledger!Init
  OBVIOUS
<1>1. Provisioned(0) \in Assignments /\ Provisioned(0).until = LeaseTerm
      /\ Provisioned(0).marks = {} /\ Provisioned(0).end = NotEnded
  BY Assumed DEF Provisioned, Assignments, Ends, Clock, NotEnded
<1>2. ASSUME NEW r \in Runs
      PROVE  Binding(r) = IF r = First THEN Ledger!Open(LeaseTerm) ELSE Ledger!Unbound
  <2>1. tomb[r] = Nothing /\ asg[r] = IF r = First THEN Provisioned(0) ELSE Nothing
    BY DEF Init
  <2>2. CASE r = First
    <3>1. Bound(r) = Provisioned(0) /\ Bound(r) # Nothing
      BY <1>1, <2>1, <2>2, Assumed DEF Bound
    <3> QED
      BY <1>1, <2>1, <2>2, <3>1 DEF Binding, Ledger!Open, Ledger!NotEnded, NotEnded
  <2>3. CASE r # First
    BY <2>1, <2>3 DEF Bound, Binding, Ledger!Unbound, Ledger!NotEnded, NotEnded
  <2> QED
    BY <2>2, <2>3
<1>3. ASSUME NEW a \in Reports PROVE Told(a) = "unknown"
  <2>1. runOf[a] \in Runs /\ ops[a] = Nothing /\ tomb[runOf[a]] = Nothing
        /\ asg[runOf[a]] \in {Provisioned(0), Nothing}
    BY DEF Init
  <2> QED
    BY <1>1, <2>1 DEF Told, Bound
<1>4. /\ clock = 0 /\ runOf \in [Reports -> Runs] /\ lease = First /\ revised = {} /\ proof = {}
  BY DEF Init
<1> QED
  BY <1>2, <1>3, <1>4 DEF Ledger!Init

\* Every step is one of the ledger, or none.
LEMMA LedgerSteps == LInv /\ [Next]_vars => Ledgers
<1> SUFFICES ASSUME LInv, [Next]_vars PROVE Ledgers
  OBVIOUS
<1>1. IInv
  BY DEF LInv
<1>2. ASSUME NEW r \in Runs, Step(r) PROVE Ledgers
  BY <1>1, <1>2, IdleLedger, CheckpointLedger, CreateLedger, CountLedger, MarkLedger,
     EndLedger, ReleaseLedger, CloseLedger, ClosedLedger, ApplyLedger DEF Step
<1>3. ASSUME NEW r \in Runs, Crash(r) \/ Provision(r) PROVE Ledgers
  BY <1>1, <1>3, IdleLedger, ProvideLedger
<1>4. ASSUME NEW a \in Reports, Accept(a) \/ Resume(a) \/ Land(a) PROVE Ledgers
  BY <1>1, <1>4, AcceptLedger, ResumeLedger, LandLedger
<1>5. CASE UNCHANGED vars
  BY <1>5, QuietLedger DEF vars
<1> QED
  BY <1>2, <1>3, <1>4, <1>5, TickLedger DEF Next

\* A report is taken up once and applied once, its effects in their order, for any
\* number of runs and reports and wherever commands are killed
\* (_lpm_runtime_report.py, _lpm_engine.py): ReportLedger is what it implements.
THEOREM ImplementsLedger == Spec => ReportsApply
<1>1. LInv /\ [Next]_vars => [Ledger!Next]_(Ledger!vars)
  BY LedgerSteps DEF Ledgers
<1> QED
  BY <1>1, LInvariant, LedgerStarts, PTL DEF Spec, ReportsApply, Ledger!Spec

=============================================================================
