-------------------------- MODULE HerdrReplacement --------------------------
(***************************************************************************)
(* The guarded replacement of a Claude session in a herdr pane             *)
(* (overseer/_supervisor_herdr_replacement.py and the reconciliation       *)
(* modules).  herdr has no atomic respawn, so the daemon stops the session *)
(* with one signal and types one launch line into the shell it leaves      *)
(* behind, each written to a durable record first.  A later tick, or a     *)
(* later daemon, goes on from the record alone.                            *)
(*                                                                         *)
(* One track and its pane.  Sessions are process generations, numbered as  *)
(* they are born; a session, a person and the kernel move between any two  *)
(* steps of the daemon.                                                    *)
(***************************************************************************)
EXTENDS Integers

CONSTANTS
    MaxGen,     \* generations born in the pane after the first
    MaxClock,   \* declarations written and rounds opened
    MaxEnter,   \* SUBMIT_MAX_ENTERS: retries of the Enter of a pending resume
    MaxServer,  \* restarts of the herdr server
    MaxFault,   \* the daemon killed, or a durable write that fails
    MaxReuse,   \* pids of dead sessions given to other processes
    Nothing     \* no round, no record, no session

ASSUME ReplacementAssumption ==
    /\ MaxGen \in Nat /\ MaxClock \in Nat /\ MaxEnter \in Nat
    /\ MaxServer \in Nat /\ MaxFault \in Nat /\ MaxReuse \in Nat

Gens == 0..MaxGen
Serials == 1..MaxClock
\* What holds the foreground of the pane when no session does.
Shell == -1
Foreign == -2

VARIABLES
    server,  \* generation of the herdr server
    born,    \* the latest generation of the session
    live,    \* the generations that still run
    fg,      \* the foreground of the pane: a generation, its idle shell, another process
    taken,   \* generations whose pid another process has now
    inbox,   \* what became of the resume line in each generation
    decl,    \* the track's state file
    round,   \* the round record: when and for whom it was opened
    clock,   \* time of the latest declaration or round
    record,  \* .herdr-replacement.json
    pc,      \* where the daemon stands inside a tick
    idle,    \* the daemon's last reading of the shell
    alerted, \* the present state of the record was surfaced
    faults,
    author,  \* history: who wrote the declaration of each time
    sent,    \* history: signals, launches and resume lines sent under each declaration
    hits     \* history: the generations signalled under each declaration

vars == <<server, born, live, fg, taken, inbox, decl, round, clock, record, pc, idle,
          alerted, faults, author, sent, hits>>
pane == <<server, born, live, fg, taken, inbox>>
files == <<decl, round, clock>>
history == <<author, sent, hits>>

Phases == {"before-stop", "signal-attempted", "stopped-awaiting-shell", "launch-attempted",
           "successor-observed", "resume-attempted", "completed"}
Launched == {"launch-attempted", "successor-observed", "resume-attempted", "completed"}
Rounds == [at : Serials, by : Gens]
Records ==
    [phase : Phases, server : 0..MaxServer, pred : Gens, ready : Serials, round : Serials,
     succ : Gens \cup {Nothing}, tries : 0..MaxEnter]
ASSUME NothingAssumption == Nothing \notin Int \cup Rounds \cup Records
\* "word" is what a session says of itself other than ready, "diag" what the daemon
\* leaves in place of a declaration it consumed.
Tokens == {"none", "ready", "word", "diag"}
Pcs == {"idle", "bound", "fenced", "aimed", "waiting", "stopped", "relaunch", "launching",
        "observed", "pasting", "entering", "consuming", "closing", "retiring"}

Init ==
    /\ server = 0 /\ born = 0 /\ live = {0} /\ fg = 0 /\ taken = {}
    /\ inbox = [g \in Gens |-> "none"]
    /\ decl = [token |-> "none", at |-> 0] /\ round = Nothing /\ clock = 0
    /\ record = Nothing /\ pc = "idle" /\ idle = FALSE /\ alerted = FALSE /\ faults = 0
    /\ author = [s \in Serials |-> Nothing]
    /\ sent = [s \in Serials |-> [signal |-> 0, launch |-> 0, resume |-> 0]]
    /\ hits = {}

-----------------------------------------------------------------------------
(* The record                                                               *)

Open == record # Nothing /\ record.phase # "completed"
OfThisServer == record # Nothing /\ record.server = server
\* A coordinate names one server generation; against another nothing is read or typed.
InPane(holder) == OfThisServer /\ fg = holder
In(phases) == OfThisServer /\ record.phase \in phases
OwnReady ==
    record # Nothing /\ decl.token = "ready" /\ decl.at = record.ready
\* evaluate goes past the reconciliation only with no record of this pane left to
\* finish.  A finished one of another pane owns nothing.
Unconsumed == OfThisServer /\ record.phase = "completed" /\ OwnReady
Passes == pc = "idle" /\ ~Open /\ ~Unconsumed
Gone(g) == g \notin live
\* The pid may be held by an unrelated process, which proves nothing.
ExitAssumed(g) == g \notin taken
PidFree(g) == g \notin live /\ g \notin taken

Advance(phase) == record' = [record EXCEPT !.phase = phase]
GoTo(step) == pc' = step /\ alerted' = FALSE
Refuse == pc' = "idle" /\ alerted' = TRUE

-----------------------------------------------------------------------------
(* begin_herdr_replacement                                                  *)

\* The interlock of the ready leg, and bind_authorization: the open round was
\* answered by a later ready, and its session is the one in the pane.
AuthorizedByAnyReady == decl.token = "ready" /\ round # Nothing /\ fg = round.by
Authorized ==
    /\ decl.token = "ready" /\ round # Nothing
    /\ decl.at > round.at
    /\ fg = round.by
Begin ==
    /\ Passes /\ Authorized
    /\ record' = [phase |-> "before-stop", server |-> server, pred |-> round.by,
                  ready |-> decl.at, round |-> round.at, succ |-> Nothing, tries |-> 0]
    /\ GoTo("bound")
    /\ UNCHANGED <<pane, files, idle, faults, history>>

\* _stop_predecessor: replacement_still_owned and round_still_authorizes, then the
\* phase that says a signal may have been sent.
StillAuthorized ==
    /\ InPane(record.pred) /\ OwnReady
    /\ round # Nothing /\ round.at = record.round /\ round.by = record.pred
Fence ==
    /\ pc = "bound"
    /\ \/ StillAuthorized /\ Advance("signal-attempted") /\ GoTo("fenced")
       \/ ~StillAuthorized /\ Refuse /\ UNCHANGED record
    /\ UNCHANGED <<pane, files, idle, faults, history>>

\* terminate verifies the group once more; killpg is a call of its own.
Aim ==
    /\ pc = "fenced"
    /\ \/ InPane(record.pred) /\ GoTo("aimed")
       \/ ~InPane(record.pred) /\ Refuse
    /\ UNCHANGED <<pane, files, record, idle, faults, history>>

Signal ==
    /\ pc = "aimed"
    /\ \/ ~PidFree(record.pred) /\ GoTo("waiting")
       \/ PidFree(record.pred) /\ Refuse
    /\ sent' = [sent EXCEPT ![record.ready].signal = @ + 1]
    /\ hits' = IF record.pred \in live THEN hits \cup {<<record.ready, record.pred>>} ELSE hits
    /\ UNCHANGED <<pane, files, record, idle, faults, author>>

\* The bounded wait may end before the predecessor does.  The shell is read here,
\* and judged after the phase is written.
Wait ==
    /\ pc = "waiting"
    /\ LET gone == PidFree(record.pred) /\ OfThisServer IN
       \/ gone /\ Advance("stopped-awaiting-shell") /\ GoTo("stopped") /\ idle' = (fg = Shell)
       \/ ~gone /\ Refuse /\ UNCHANGED <<record, idle>>
    /\ UNCHANGED <<pane, files, faults, history>>

FenceLaunch ==
    /\ pc = "stopped"
    /\ \/ idle /\ Advance("launch-attempted") /\ GoTo("launching")
       \/ ~idle /\ Refuse /\ UNCHANGED record
    /\ idle' = FALSE
    /\ UNCHANGED <<pane, files, faults, history>>

\* One line typed into the pane; what becomes of it is not asked.
Launch ==
    /\ pc = "launching" /\ GoTo("idle")
    /\ sent' = [sent EXCEPT ![record.ready].launch = @ + 1]
    /\ \/ /\ InPane(Shell) /\ born < MaxGen
          /\ born' = born + 1 /\ live' = live \cup {born + 1} /\ fg' = born + 1
       \/ UNCHANGED <<born, live, fg>>
    /\ UNCHANGED <<server, taken, inbox, files, record, idle, faults, author, hits>>

-----------------------------------------------------------------------------
(* reconcile_bare_shell: one tick goes on from the record                   *)

\* recover_signal_attempt
RecoverSignal ==
    /\ pc = "idle" /\ In({"signal-attempted"})
    /\ \/ PidFree(record.pred) /\ Advance("stopped-awaiting-shell") /\ GoTo("relaunch")
       \/ ~PidFree(record.pred) /\ Refuse /\ UNCHANGED record
    /\ UNCHANGED <<pane, files, idle, faults, history>>

\* launch_recorded_successor
RelaunchUnseen ==
    /\ pc = "relaunch" \/ (pc = "idle" /\ In({"stopped-awaiting-shell", "launch-attempted"}))
    /\ InPane(Shell) /\ PidFree(record.pred)
    /\ Advance("launch-attempted") /\ GoTo("launching")
    /\ UNCHANGED <<pane, files, idle, faults, history>>
RelaunchInTheTick ==
    /\ pc = "relaunch"
    /\ \/ InPane(Shell) /\ Advance("launch-attempted") /\ GoTo("launching")
       \/ ~InPane(Shell) /\ Refuse /\ UNCHANGED record
    /\ UNCHANGED <<pane, files, idle, faults, history>>
Relaunch ==
    /\ pc = "relaunch" \/ (pc = "idle" /\ In({"stopped-awaiting-shell"}))
    /\ LET may == InPane(Shell) /\ PidFree(record.pred) IN
       \/ may /\ Advance("launch-attempted") /\ GoTo("launching")
       \/ ~may /\ Refuse /\ UNCHANGED record
    /\ UNCHANGED <<pane, files, idle, faults, history>>

\* resume_proven_successor: a generation other than the predecessor, which is gone,
\* holds the pane.
Proven == fg \in Gens /\ fg # record.pred /\ Gone(record.pred)
Observe ==
    /\ pc = "idle" /\ In({"launch-attempted", "successor-observed"})
    /\ \/ /\ Proven
          /\ record' = [record EXCEPT !.phase = "successor-observed", !.succ = fg]
          /\ GoTo("observed")
       \/ ~Proven /\ Refuse /\ UNCHANGED record
    /\ UNCHANGED <<pane, files, idle, faults, history>>

\* _ready_resume_text: the composer may not be ready, or show a gate.
FenceResume ==
    /\ pc = "observed"
    /\ \/ Advance("resume-attempted") /\ GoTo("pasting")
       \/ Refuse /\ UNCHANGED record
    /\ UNCHANGED <<pane, files, idle, faults, history>>

\* submit_prompt types into whatever holds the pane: a confirmed delivery, one that
\* was not seen to start a turn, one left in the composer, one that never landed.
Reached == OfThisServer /\ fg \in Gens
DeliverTrusting(confirmed, became) ==
    /\ inbox' = IF Reached THEN [inbox EXCEPT ![fg] = became] ELSE inbox
    /\ Advance("completed") /\ GoTo("consuming")
Deliver(confirmed, became) ==
    /\ inbox' = IF Reached THEN [inbox EXCEPT ![fg] = became] ELSE inbox
    /\ \/ confirmed /\ Advance("completed") /\ GoTo("consuming")
       \/ ~confirmed /\ Refuse /\ UNCHANGED record
Submit ==
    /\ pc = "pasting"
    /\ sent' = [sent EXCEPT ![record.ready].resume = @ + 1]
    /\ \/ Reached /\ Deliver(TRUE, "consumed")
       \/ \E became \in {"none", "pending", "consumed"} : Deliver(FALSE, became)
    /\ UNCHANGED <<server, born, live, fg, taken, files, idle, faults, author, hits>>

\* retry_recorded_resume: a turn since the paste, of any prompt, ends the wait; a
\* resume line still in the composer gets another Enter.
Worked(g) == inbox[g] \in {"consumed", "other"}
Third == fg \in Gens \ {record.pred, record.succ}
MayAlwaysEnter == TRUE
MayEnter == record.tries < MaxEnter
Retry ==
    /\ pc = "idle" /\ In({"resume-attempted"}) /\ ~Third
    /\ LET same == Proven /\ fg = record.succ
           again == same /\ inbox[fg] = "pending" /\ MayEnter
       IN \/ same /\ Worked(fg) /\ Advance("completed") /\ GoTo("consuming")
          \/ again /\ record' = [record EXCEPT !.tries = @ + 1] /\ GoTo("entering")
          \/ ~(same /\ Worked(fg)) /\ ~again /\ Refuse /\ UNCHANGED record
    /\ UNCHANGED <<pane, files, idle, faults, history>>

Enter ==
    /\ pc = "entering"
    /\ LET waits == Reached /\ inbox[fg] = "pending" IN
       \/ waits /\ Deliver(TRUE, "consumed")
       \/ \E became \in {"pending", "consumed"} : waits /\ Deliver(FALSE, became)
       \/ ~waits /\ Refuse /\ UNCHANGED <<inbox, record>>
    /\ UNCHANGED <<server, born, live, fg, taken, files, idle, faults, history>>

\* complete_replacement_round: clear_state leaves its diagnostic in the state file,
\* whatever the file says by then, and closes the round.
Reconsume ==
    /\ pc = "idle" /\ Unconsumed /\ GoTo("consuming")
    /\ UNCHANGED <<pane, files, record, idle, faults, history>>
Consume ==
    /\ pc = "consuming" /\ GoTo("closing")
    /\ decl' = [token |-> "diag", at |-> 0]
    /\ UNCHANGED <<pane, round, clock, record, idle, faults, history>>
Close ==
    /\ pc = "closing" /\ GoTo("idle")
    /\ round' = Nothing
    /\ UNCHANGED <<pane, decl, clock, record, idle, faults, history>>

\* retire_dead_generation: the server the record names is gone.  Its ready is voided,
\* then the record put away.
RetireDeadWithItsReady ==
    /\ pc = "idle" /\ Open /\ ~OfThisServer /\ OwnReady
    /\ decl' = [token |-> "diag", at |-> 0] /\ round' = Nothing
    /\ GoTo("retiring")
    /\ UNCHANGED <<pane, clock, record, idle, faults, history>>
RetireDead ==
    /\ pc = "idle" /\ Open /\ ~OfThisServer
    /\ IF OwnReady THEN decl' = [token |-> "diag", at |-> 0] /\ round' = Nothing
                   ELSE UNCHANGED <<decl, round>>
    /\ GoTo("retiring")
    /\ UNCHANGED <<pane, clock, record, idle, faults, history>>

\* _retire_out_of_band_resume: a third generation holds the pane.  The declaration and
\* the round go only while they are the recorded ones.
RetireThird ==
    /\ pc = "idle" /\ In({"resume-attempted"})
    /\ Third
    /\ IF /\ OwnReady \/ decl.token = "none"
          /\ round # Nothing /\ round.at = record.round /\ round.by = record.pred
         THEN decl' = [token |-> "none", at |-> 0] /\ round' = Nothing
         ELSE UNCHANGED <<decl, round>>
    /\ GoTo("retiring")
    /\ UNCHANGED <<pane, clock, record, idle, faults, history>>
PutAway ==
    /\ pc = "retiring" /\ GoTo("idle") /\ record' = Nothing
    /\ UNCHANGED <<pane, files, idle, faults, history>>

-----------------------------------------------------------------------------
(* The rest of the daemon                                                   *)

\* A wrap-up opens a round for the session in the pane.
OpenRound ==
    /\ Passes /\ fg \in Gens /\ round = Nothing /\ clock < MaxClock
    /\ clock' = clock + 1 /\ round' = [at |-> clock + 1, by |-> fg]
    /\ UNCHANGED <<pane, decl, record, pc, idle, alerted, faults, history>>

\* close_recovered_round: the session the round was opened for is not here any more.
CloseRecovered ==
    /\ Passes /\ fg \in Gens /\ round # Nothing /\ decl.token \in {"none", "diag"}
    /\ round.by # fg /\ round' = Nothing
    /\ UNCHANGED <<pane, decl, clock, record, pc, idle, alerted, faults, history>>

\* The daemon is killed, losing its alerts, or a durable write fails and the tick
\* ends in a refusal.  The kernel drops the lock.
Fail ==
    /\ pc # "idle" /\ pc' = "idle" /\ faults < MaxFault /\ faults' = faults + 1
    /\ alerted' \in BOOLEAN /\ idle' = FALSE
    /\ UNCHANGED <<pane, files, record, history>>

-----------------------------------------------------------------------------
(* The pane and the people around it                                        *)

\* The session in the pane writes its state file, again if it likes.
Declare ==
    /\ fg \in Gens /\ clock < MaxClock
    /\ clock' = clock + 1
    /\ \E token \in {"ready", "word"} : decl' = [token |-> token, at |-> clock + 1]
    /\ author' = [author EXCEPT ![clock + 1] = fg]
    /\ UNCHANGED <<pane, round, record, pc, idle, alerted, faults, sent, hits>>

\* A session ends by itself, or because it was signalled.
Exit(g) ==
    /\ g \in live /\ live' = live \ {g}
    /\ fg' = IF fg = g THEN Shell ELSE fg
    /\ UNCHANGED <<server, born, taken, inbox, files, record, pc, idle, alerted, faults, history>>

\* A person stops the session that is being replaced (Ctrl-Z) and has the shell, or
\* brings it back.
Suspend ==
    /\ Open /\ fg = record.pred /\ fg' = Shell
    /\ UNCHANGED <<server, born, live, taken, inbox, files, record, pc, idle, alerted, faults,
                   history>>
Continue ==
    /\ fg = Shell /\ \E g \in live : fg' = g
    /\ UNCHANGED <<server, born, live, taken, inbox, files, record, pc, idle, alerted, faults,
                   history>>

\* A person starts a session by hand in the idle shell, or herdr resumes one.
HandLaunch ==
    /\ fg = Shell /\ born < MaxGen
    /\ born' = born + 1 /\ live' = live \cup {born + 1} /\ fg' = born + 1
    /\ UNCHANGED <<server, taken, inbox, files, record, pc, idle, alerted, faults, history>>

\* A person prompts the session; what waited in its composer goes with it.  Only a
\* turn since the resume line was written is looked at.
HandPrompt ==
    /\ fg \in Gens /\ inbox[fg] \in {"none", "pending"}
    /\ inbox[fg] = "none" => In({"resume-attempted"})
    /\ inbox' = [inbox EXCEPT ![fg] = IF @ = "pending" THEN "consumed" ELSE "other"]
    /\ UNCHANGED <<server, born, live, fg, taken, files, record, pc, idle, alerted, faults,
                   history>>

\* Another program in the shell, and its end.
OtherProgram ==
    /\ \/ fg = Shell /\ fg' = Foreign
       \/ fg = Foreign /\ fg' = Shell
    /\ UNCHANGED <<server, born, live, taken, inbox, files, record, pc, idle, alerted, faults,
                   history>>

\* The kernel gives the pid of the dead predecessor to another process, and that
\* process ends.
Reuse ==
    /\ \/ /\ Open /\ PidFree(record.pred) /\ MaxReuse > 0
          /\ taken' = taken \cup {record.pred}
       \/ \E g \in taken : taken' = taken \ {g}
    /\ UNCHANGED <<server, born, live, fg, inbox, files, record, pc, idle, alerted, faults,
                   history>>

\* The host or the herdr server goes down, with everything it ran.
ServerRestart ==
    /\ server < MaxServer /\ server' = server + 1
    /\ live' = {} /\ fg' = Shell
    /\ UNCHANGED <<born, taken, inbox, files, record, pc, idle, alerted, faults, history>>

-----------------------------------------------------------------------------
(* Specification                                                            *)

Replace == Begin \/ Fence \/ Aim \/ Signal \/ Wait \/ FenceLaunch \/ Launch
Reconcile ==
    \/ RecoverSignal \/ Relaunch
    \/ Observe \/ FenceResume \/ Submit \/ Retry \/ Enter
    \/ Reconsume \/ Consume \/ Close
    \/ RetireDead \/ RetireThird \/ PutAway
Daemon == Replace \/ Reconcile \/ OpenRound \/ CloseRecovered
World ==
    \/ Declare \/ Suspend \/ Continue \/ HandLaunch \/ HandPrompt \/ OtherProgram \/ Reuse \/ ServerRestart
    \/ \E g \in Gens : Exit(g)
Next == Daemon \/ Fail \/ World

Spec == Init /\ [][Next]_vars

\* The daemon ticks for ever and finishes the step it is in.
FairSpec == Spec /\ WF_vars(Replace \/ Reconcile)

-----------------------------------------------------------------------------
(* Properties                                                               *)

\* Every variable keeps its type, and the history stays within its bounds.
TypeOK ==
    /\ server \in 0..MaxServer /\ born \in Gens /\ live \subseteq Gens
    /\ fg \in Gens \cup {Shell, Foreign} /\ taken \subseteq Gens
    /\ inbox \in [Gens -> {"none", "pending", "consumed", "other"}]
    /\ decl \in [token : Tokens, at : 0..MaxClock]
    /\ round \in Rounds \cup {Nothing} /\ clock \in 0..MaxClock
    /\ record \in Records \cup {Nothing} /\ pc \in Pcs
    /\ idle \in BOOLEAN /\ alerted \in BOOLEAN /\ faults \in 0..MaxFault
    /\ author \in [Serials -> Gens \cup {Nothing}]
    /\ sent \in [Serials -> [signal : Nat, launch : Nat, resume : Nat]]
    /\ hits \subseteq Serials \X Gens

\* However often the daemon is killed and starts again, one declaration buys one
\* signal, one launch and one resume line.
AtMostOnce ==
    \A s \in Serials : sent[s].signal <= 1 /\ sent[s].launch <= 1 /\ sent[s].resume <= 1

\* A session is signalled only on its own word.
SignalsItsAuthor == \A hit \in hits : author[hit[1]] = hit[2]

\* From the launch on, the session that was to be replaced runs no more: two
\* sessions never work on one track.
PredecessorGone == record # Nothing /\ record.phase \in Launched => Gone(record.pred)

\* Success is claimed only once a session born after the predecessor has taken a turn.
SuccessIsReal ==
    record # Nothing /\ record.phase = "completed"
    => \E g \in Gens : g # record.pred /\ Worked(g)

\* What the transaction promises (SessionHandover): the offer that stands, and the one
\* that is being acted on.
Standing == IF decl.token = "ready" THEN decl.at ELSE 0
Deal == IF Open THEN record.ready ELSE 0
Handover == INSTANCE SessionHandover WITH
    Sessions <- Gens, latest <- clock, standing <- Standing, running <- live,
    deal <- Deal, struck <- hits

\* Through crashes, failed writes, reused pids and restarts of herdr, a replacement
\* is one handover: it rests on the word of the session it replaces, given in answer
\* to the round, buys every step once and in order, and never starts a successor
\* beside its predecessor.
HandsOver == Handover!Spec

\* A stopped track is not forgotten: its launch cannot stay unattempted while the
\* predecessor is provably gone and its shell idle.
LaunchNotForgotten ==
    []<>~(/\ In({"signal-attempted", "stopped-awaiting-shell"})
          /\ fg = Shell /\ PidFree(record.pred))

\* What a finished or dead replacement leaves behind is cleared away: the ready it
\* consumed, and a record whose server is gone.
LeftOversCleared ==
    /\ Unconsumed ~> ~Unconsumed
    /\ (Open /\ ~OfThisServer) ~> record = Nothing

\* A replacement that does not advance is surfaced
\* (_supervisor_herdr_stall.py: "Why the replacement did not advance, or None when it
\* did").
StallIsSurfaced == Open ~> (~Open \/ alerted)

\* The daemon leaves a declaration of the successor alone.
SuccessorHeard ==
    [][decl.token \in {"ready", "word"} /\ decl'.token = "diag" /\ record # Nothing
       => author[decl.at] # record.succ]_vars

=============================================================================
