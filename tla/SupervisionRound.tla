-------------------------- MODULE SupervisionRound --------------------------
(***************************************************************************)
(* One tracked Claude session on the tmux backend and the daemon that      *)
(* supervises it: the state file the session declares itself in, the       *)
(* injection-stamp sidecar that holds the open round, the identity and     *)
(* compaction records of the mapping store, and the decision cascade of    *)
(* overseer/_supervisor_evaluate.py.                                       *)
(*                                                                         *)
(* A step of the daemon is the code between two pane operations, durable   *)
(* writes or sleeps; the session, the operator and a crash may act between *)
(* any two of them.  One unit of context is one escalation band (10%).     *)
(***************************************************************************)
EXTENDS Integers, FiniteSets

CONSTANTS
    MaxSession,       \* sessions that may ever occupy the pane
    MaxClock,         \* last reading of the clock
    MaxCtx,           \* remaining context of a session that consumed nothing
    Threshold,        \* the track's wind-down threshold
    ReadyArmMaxAge,   \* how long a ready declaration stays certifiable
    MarkerVoidGrace,  \* how long a declaration's own turn may still stream
    AckStaleAfter,    \* how long winding-down buys patience
    SubmitMaxEnters,  \* Enter keystrokes one resume-pending episode may spend
    MaxCrash,         \* daemon crashes in one behaviour
    Tokens,           \* the states sessions declare
    Resolves,         \* may the registry know, or not know, the live identity?
    Outcomes,         \* how a submitted prompt may end
    Events            \* what operators, sessions and the terminal may do besides

SessionTokens == {"ready", "blocked", "winding-down", "done"}
PasteOutcomes == {"taken", "lost", "unseen"}
OutsideEvents == {"replace", "compact", "gate", "draft", "clash", "slow", "refuse"}

ASSUME BoundsAssumption ==
    /\ MaxSession \in Nat \ {0} /\ MaxClock \in Nat \ {0} /\ MaxCrash \in Nat
    /\ MaxCtx \in Nat \ {0} /\ Threshold \in 1..MaxCtx
    /\ ReadyArmMaxAge \in Nat /\ MarkerVoidGrace \in Nat /\ AckStaleAfter \in Nat
    /\ SubmitMaxEnters \in Nat

ASSUME ChoicesAssumption ==
    /\ Tokens \subseteq SessionTokens /\ Resolves \subseteq BOOLEAN
    /\ Outcomes \subseteq PasteOutcomes /\ Events \subseteq OutsideEvents

\* Identities: session n is n; the synthesized claude:<tmux>:<topic> is 0.
NoId == -1
Fallback == 0
Sessions == 1..MaxSession
Identities == NoId..MaxSession
Clock == 0..MaxClock          \* 0 stands for "never"
Bands == 1..Threshold
DaemonTokens == {"nudged", "note"}  \* idle-with-context-left; any diagnostic

VARIABLES
    clock,
    pane,      \* what runs in the pane and what it shows
    file,      \* .overseer-state: token, mtime and (ghost) the writing session
    entry,     \* the track's entry of the injection-stamp sidecar
    store,     \* the mapping row: observed identity and compaction record
    pc,        \* where the daemon is in this tick
    obs,       \* the observation the tick decides on
    due,       \* the bands the wrap-up being delivered answers
    holding,   \* in memory: a statusline veto has held this ready declaration
    kills,     \* ghost: every respawn and the declaration that authorized it
    heard,     \* ghost: the bands that reached a session in the open round
    enters,    \* ghost: Enter keystrokes spent on the standing resume line
    crashes

env == <<clock, pane>>
round == <<entry, store>>
ghosts == <<kills, heard, enters>>
vars == <<clock, pane, file, entry, store, pc, obs, due, holding, kills, heard,
          enters, crashes>>

-----------------------------------------------------------------------------
(* Types                                                                   *)

Files == [tok : {"none"} \cup DaemonTokens \cup SessionTokens, at : Clock,
          by : 0..MaxSession]
NoFile == [tok |-> "none", at |-> 0, by |-> 0]

\* at = 0: no round stands.  A sidecar entry without a round may still carry
\* a pending resume.
Entries == [at : Clock, ident : Identities, bands : SUBSET Bands, exp : Nat,
            noticed : BOOLEAN, rearmed : Clock, pending : BOOLEAN,
            pendIdent : Identities, tries : 0..SubmitMaxEnters]
NoEntry == [at |-> 0, ident |-> NoId, bands |-> {}, exp |-> 0, noticed |-> FALSE,
            rearmed |-> 0, pending |-> FALSE, pendIdent |-> NoId, tries |-> 0]

Generations == [owner : Identities, low : 0..MaxCtx, latch : Clock]
NoGeneration == [owner |-> NoId, low |-> 0, latch |-> 0]

Boxes == {"empty", "resume", "draft", "gate"}
Panes == [live : Sessions, up : BOOLEAN, ctx : 1..MaxCtx, busy : BOOLEAN,
          box : Boxes, clash : BOOLEAN]

Observations == [decl : Files, real : Identities, busy : BOOLEAN, box : Boxes,
                 ctx : 1..MaxCtx, clash : BOOLEAN, held : Generations,
                 gen : Generations, acked : BOOLEAN, ready : BOOLEAN,
                 rounded : BOOLEAN]
NoObs == [decl |-> NoFile, real |-> NoId, busy |-> FALSE, box |-> "empty",
          ctx |-> MaxCtx, clash |-> FALSE, held |-> NoGeneration,
          gen |-> NoGeneration, acked |-> FALSE, ready |-> FALSE,
          rounded |-> FALSE]

Phases == {"rest", "identified", "judge", "entered", "dropped", "expiring", "act", "owed",
           "inject", "opened", "rewarn", "mark", "rollback", "noticed", "nudged",
           "erasing", "spawned", "unsent", "closing", "closed"}

TypeOK ==
    /\ clock \in Clock \ {0}
    /\ pane \in Panes
    /\ file \in Files
    /\ entry \in Entries
    /\ store \in [observed : Identities, gen : Generations]
    /\ pc \in Phases
    /\ obs \in Observations
    /\ due \subseteq Bands
    /\ holding \in BOOLEAN
    /\ kills \subseteq [by : 0..MaxSession, at : Clock, victim : Sessions,
                      rounded : BOOLEAN]
    /\ heard \subseteq (Bands \X Clock \X BOOLEAN)
    /\ enters \in 0..(SubmitMaxEnters + 1)
    /\ crashes \in 0..MaxCrash

-----------------------------------------------------------------------------
(* Reading                                                                 *)

\* session_identity: the resolved identity, or the fallback that is constant
\* across every session of one tmux session and topic.
Identity(real) == IF real = NoId THEN Fallback ELSE real

\* certification_floor: the later of the opening and the last expiry.
Floor(e) == IF e.exp > e.at THEN e.exp ELSE e.at

YoungReady == file.tok = "ready" /\ clock - file.at <= ReadyArmMaxAge

RoundReadyOfAnyone(id) == entry.at # 0 /\ file.at > Floor(entry) /\ YoungReady
RoundReadyWholeUnits(id) ==
    entry.at # 0 /\ entry.ident = id /\ file.at > Floor(entry) + 1 /\ YoungReady

\* ready_valid: a ready of this round, newer than the floor, for this identity.
RoundReady(id) ==
    entry.at # 0 /\ entry.ident = id /\ file.at > Floor(entry) /\ YoungReady

\* fresh_ready_without_round_valid: no round stands and the identity is the
\* one already on record, or none is.
FreshReady(id) ==
    entry.at = 0 /\ store.observed \in {NoId, id} /\ YoungReady

\* A fold that takes the synthesized identity for an owner.
FoldByFallback(held, real, ctx) ==
    IF held.owner # Identity(real) THEN [owner |-> Identity(real), low |-> ctx, latch |-> 0]
    ELSE [held EXCEPT !.low = ctx,
                      !.latch = IF ctx > held.low /\ held.latch = 0 THEN clock ELSE @]

\* observe_compaction: fold one reading into the context-generation record.
Fold(held, real, ctx) ==
    IF real = NoId THEN held
    ELSE IF held.owner # real THEN [owner |-> real, low |-> ctx, latch |-> 0]
    ELSE [held EXCEPT !.low = ctx,
                      !.latch = IF ctx > held.low /\ held.latch = 0 THEN clock ELSE @]

\* observe: every fact the cascade decides on, read in one pass.
Sees(real, held) ==
    [decl |-> file, real |-> real, busy |-> pane.busy, box |-> pane.box,
     ctx |-> pane.ctx, clash |-> pane.clash, held |-> held, gen |-> Fold(held, real, pane.ctx),
     acked |-> file.tok = "winding-down" /\ clock - file.at <= AckStaleAfter,
     ready |-> RoundReady(Identity(real)) \/ FreshReady(Identity(real)),
     rounded |-> entry.at # 0]

Latched(o) == o.gen.latch # 0
OwedBelow(o) == Latched(o) \/ o.ctx < Threshold
Owed(o) == Latched(o) \/ o.ctx <= Threshold
Idle(o) == o.box = "empty" /\ ~o.busy
Silent(o) == o.decl.tok \notin SessionTokens

ExpiryNoticeDue == entry.at # 0 /\ entry.exp # 0 /\ ~entry.noticed /\ ~entry.pending

\* A resume set pending on an entry that is written anew.
PendResumeAfresh(e, id) ==
    [NoEntry EXCEPT !.at = e.at, !.ident = e.ident, !.pending = TRUE, !.pendIdent = id]

\* set_resume_pending: a fresh retry budget; an unknown identity leaves the
\* recorded one alone.
PendResume(e, id) ==
    [e EXCEPT !.pending = TRUE, !.tries = 0, !.pendIdent = IF id = NoId THEN @ ELSE id]

\* deliverable_while_busy: a busy pane with an empty input still gets what it
\* is owed.
DeliverableBusy(o) ==
    /\ o.busy /\ o.box = "empty"
    /\ Owed(o) \/ (entry.at # 0 /\ entry.exp # 0 /\ ~entry.noticed)
    /\ o.decl.tok \notin {"ready", "blocked", "done"}

-----------------------------------------------------------------------------
(* Initial state: a live session, no declaration, no round.                *)

Init ==
    /\ clock = 1
    /\ pane = [live |-> 1, up |-> TRUE, ctx |-> MaxCtx, busy |-> TRUE,
               box |-> "empty", clash |-> FALSE]
    /\ file = NoFile /\ entry = NoEntry
    /\ store = [observed |-> NoId, gen |-> NoGeneration]
    /\ pc = "rest" /\ obs = NoObs /\ due = {} /\ holding = FALSE
    /\ kills = {} /\ heard = {} /\ enters = 0 /\ crashes = 0

daemon == <<pc, obs, due, holding>>
Finish == pc' = "rest" /\ obs' = NoObs /\ due' = {}
Note == [tok |-> "note", at |-> clock, by |-> 0]

-----------------------------------------------------------------------------
(* The session, its operator and the clock                                 *)

World == UNCHANGED <<entry, store, daemon, ghosts, crashes>>

StartTurn ==
    /\ pane.up /\ ~pane.busy /\ pane.box = "empty"
    /\ pane' = [pane EXCEPT !.busy = TRUE]
    /\ UNCHANGED <<clock, file>> /\ World

EndTurn ==
    /\ pane.busy
    /\ pane' = [pane EXCEPT !.busy = FALSE]
    /\ UNCHANGED <<clock, file>> /\ World

ConsumeContext ==
    /\ pane.busy /\ pane.ctx > 1
    /\ pane' = [pane EXCEPT !.ctx = @ - 1]
    /\ UNCHANGED <<clock, file>> /\ World

\* The runtime summarizes the context in place: the reading rises by more than
\* COMPACTION_CTX_RISE under an unchanged session.
Compact ==
    /\ "compact" \in Events /\ pane.busy /\ pane.ctx < MaxCtx
    /\ pane' = [pane EXCEPT !.ctx = MaxCtx]
    /\ UNCHANGED <<clock, file>> /\ World

\* overseer-declare, run by a tool call of the session's own turn.
Declare(tok) ==
    /\ pane.busy
    /\ file' = [tok |-> tok, at |-> clock, by |-> pane.live]
    /\ UNCHANGED env /\ World

Withdraw ==
    /\ pane.busy /\ file.tok \in SessionTokens
    /\ file' = NoFile
    /\ UNCHANGED env /\ World

\* A picker opens over an idle prompt, or somebody types into it.
BoxFills(box) ==
    /\ box \in Events /\ pane.up /\ pane.box = "empty" /\ ~pane.busy
    /\ pane' = [pane EXCEPT !.box = box]
    /\ UNCHANGED <<clock, file>> /\ World

\* The operator answers the picker or sends what stands in the box.
BoxSent ==
    /\ pane.up /\ pane.box # "empty"
    /\ pane' = [pane EXCEPT !.box = "empty", !.busy = TRUE]
    /\ UNCHANGED <<clock, file>> /\ World

NewSession(up, box) ==
    [live |-> pane.live + 1, up |-> up, ctx |-> MaxCtx, busy |-> FALSE,
     box |-> box, clash |-> pane.clash]

\* An operator restarts the session by hand: the pane keeps its name.
Replace ==
    /\ "replace" \in Events /\ pane.live < MaxSession
    /\ pane' = NewSession(TRUE, "empty")
    /\ UNCHANGED <<clock, file>> /\ World

SlowBootEnds ==
    /\ ~pane.up
    /\ pane' = [pane EXCEPT !.up = TRUE]
    /\ UNCHANGED <<clock, file>> /\ World

\* The statusline starts or stops contradicting the recorded model profile.
StatuslineChanges ==
    /\ "clash" \in Events
    /\ pane' = [pane EXCEPT !.clash = ~@]
    /\ UNCHANGED <<clock, file>> /\ World

Advance ==
    /\ clock < MaxClock
    /\ clock' = clock + 1
    /\ UNCHANGED <<pane, file>> /\ World

Crash ==
    /\ crashes < MaxCrash
    /\ crashes' = crashes + 1
    /\ Finish /\ holding' = FALSE
    /\ UNCHANGED <<env, file, round, ghosts>>

Environment ==
    \/ StartTurn \/ EndTurn \/ ConsumeContext \/ Compact
    \/ \E tok \in Tokens : Declare(tok)
    \/ Withdraw
    \/ \E box \in {"gate", "draft"} : BoxFills(box)
    \/ BoxSent \/ Replace \/ SlowBootEnds \/ StatuslineChanges \/ Advance \/ Crash

-----------------------------------------------------------------------------
(* The tick: observe, then judge the pending resume and a standing ready    *)

DaemonOnly == UNCHANGED <<clock, crashes>>

\* refresh_claude_status: the registry is read once, for all tracks, before any
\* pane or state file is.
Identify ==
    /\ pc = "rest"
    /\ \E known \in Resolves :
         obs' = [NoObs EXCEPT !.real = IF known /\ pane.up THEN pane.live ELSE NoId]
    /\ pc' = "identified"
    /\ UNCHANGED <<pane, file, round, due, holding, ghosts>> /\ DaemonOnly

\* A pane that shows no Claude yet is not managed.
Unmanaged ==
    /\ pc = "identified" /\ ~pane.up /\ Finish
    /\ UNCHANGED <<pane, file, round, holding, ghosts>> /\ DaemonOnly

\* reconcile_and_observe on a managed pane, whoever occupies it by now; a declared
\* done freezes the compaction record.
Tick ==
    /\ pc = "identified" /\ pane.up
    /\ LET o == Sees(obs.real, store.gen)
       IN  /\ obs' = o
           /\ store' = [observed |-> Identity(o.real),
                        gen |-> IF o.decl.tok = "done" THEN store.gen ELSE o.gen]
    /\ pc' = "judge"
    /\ UNCHANGED <<pane, file, entry, due, holding, ghosts>> /\ DaemonOnly

\* post_respawn_decision: a fresh pane that still shows the resume line it was
\* sent is recorded as pending again, before the retry reads the record.
Stranded(o) == o.box = "resume" /\ ~o.busy /\ o.ctx = MaxCtx
RetryLegOwn == pc = "judge" /\ (Stranded(obs) \/ entry.pendIdent = Identity(obs.real))
RetryLeg == pc = "judge" /\ (Stranded(obs) \/ entry.pending)
PendingEntry == IF Stranded(obs) THEN PendResume(entry, Identity(obs.real)) ELSE entry
MayRetry == RetryLeg /\ PendingEntry.pendIdent = Identity(obs.real) /\ obs.box # "gate"
BudgetSpentLate == PendingEntry.tries > SubmitMaxEnters
BudgetSpent == PendingEntry.tries >= SubmitMaxEnters
Progressing == obs.busy \/ obs.box = "empty"

\* The pending resume belongs to another identity, to none, or meets a gate.
RetryHeld ==
    /\ RetryLeg /\ ~MayRetry
    /\ entry' = PendingEntry /\ Finish
    /\ UNCHANGED <<pane, file, store, holding, ghosts>> /\ DaemonOnly

RetryResolved ==
    /\ MayRetry /\ Progressing
    /\ entry' = PendingEntry /\ pc' = "closing"
    /\ UNCHANGED <<pane, file, store, obs, due, holding, ghosts>> /\ DaemonOnly

RetryExhausted ==
    /\ MayRetry /\ ~Progressing /\ BudgetSpent
    /\ entry' = PendingEntry /\ Finish
    /\ UNCHANGED <<pane, file, store, holding, ghosts>> /\ DaemonOnly

\* One more Enter, aimed at whatever the box holds by now: it is taken, or the
\* box is empty already, or it is dropped ...
RetryEnter ==
    /\ MayRetry /\ ~Progressing /\ ~BudgetSpent
    /\ entry' = PendingEntry
    /\ enters' = IF enters > SubmitMaxEnters THEN enters ELSE enters + 1
    /\ \/ /\ pane.box # "empty" /\ pc' = "entered"
          /\ pane' = [pane EXCEPT !.box = "empty", !.busy = TRUE]
       \/ pane.box = "empty" /\ pc' = "entered" /\ UNCHANGED pane
       \/ "lost" \in Outcomes /\ pane.box # "empty" /\ pc' = "dropped" /\ UNCHANGED pane
    /\ UNCHANGED <<file, store, obs, due, holding, kills, heard>> /\ DaemonOnly

\* ... and is counted against the episode's budget only then.
CountEnter ==
    /\ pc \in {"entered", "dropped"}
    /\ entry' = [entry EXCEPT !.tries = @ + 1]
    /\ IF pc = "entered" THEN pc' = "closing" /\ UNCHANGED <<obs, due>> ELSE Finish
    /\ UNCHANGED <<pane, file, store, holding, ghosts>> /\ DaemonOnly


\* retire_unrounded_ready: delete an old ready nothing delivered asked for,
\* unless the file changed since it was observed.
RetireUnrounded ==
    /\ obs.decl.tok = "ready" /\ ~obs.ready /\ ~obs.rounded /\ Owed(obs)
    /\ clock - obs.decl.at > MarkerVoidGrace
    /\ file.tok = obs.decl.tok /\ file.at = obs.decl.at

\* While a statusline veto holds a ready, its age does not expire it.
Holds == file.tok = "ready" /\ (holding \/ obs.clash)
ReadyAged ==
    file.tok = "ready" /\ clock - file.at > ReadyArmMaxAge /\ entry.at # 0 /\ ~Holds

Retire ==
    /\ pc = "judge" /\ ~RetryLeg /\ RetireUnrounded
    /\ file' = NoFile /\ holding' = FALSE /\ pc' = "act"
    /\ UNCHANGED <<pane, round, obs, due, ghosts>> /\ DaemonOnly

\* expire_aged_ready raises the floor first ...
ExpireFloor ==
    /\ pc = "judge" /\ ~RetryLeg /\ ~RetireUnrounded /\ ReadyAged
    /\ entry' = IF Identity(obs.real) = entry.ident /\ file.at + ReadyArmMaxAge > entry.exp
                THEN [entry EXCEPT !.exp = file.at + ReadyArmMaxAge] ELSE entry
    /\ pc' = "expiring" /\ holding' = FALSE
    /\ UNCHANGED <<pane, file, store, obs, due, ghosts>> /\ DaemonOnly

\* ... and then replaces the declaration, whatever the file holds by now.
ExpireNote ==
    /\ pc = "expiring"
    /\ file' = Note /\ pc' = "act"
    /\ UNCHANGED <<pane, round, obs, due, holding, ghosts>> /\ DaemonOnly

JudgeOn ==
    /\ pc = "judge" /\ ~RetryLeg /\ ~RetireUnrounded /\ ~ReadyAged
    /\ holding' = Holds /\ pc' = "act"
    /\ UNCHANGED <<pane, file, round, obs, due, ghosts>> /\ DaemonOnly

-----------------------------------------------------------------------------
(* Acting: the cascade below the retry leg, top to bottom                   *)

Terminal == obs.decl.tok = "done" /\ obs.box # "gate"
BusyLeg == ~Terminal /\ obs.busy /\ (obs.ready \/ ~DeliverableBusy(obs))
HumanLeg == ~Terminal /\ ~BusyLeg /\ (obs.box = "gate" \/ obs.decl.tok = "blocked")
IdleLeg == ~Terminal /\ ~BusyLeg /\ ~HumanLeg /\ (Idle(obs) \/ DeliverableBusy(obs))
\* A pane whose turn began changes between two captures; into a busy pane only
\* the input has to stand still.
Settled == pane.up /\ (IF obs.busy THEN pane.box = "empty" ELSE ~pane.busy)

ClearNudge == IF file.tok = "nudged" THEN Note ELSE file
VoidDue ==
    /\ obs.decl.tok = "blocked" /\ file.tok = "blocked"
    /\ clock - file.at > MarkerVoidGrace

\* done, a transient capture, or a pane that changed while settling: wait.
Wait ==
    /\ pc = "act"
    /\ Terminal \/ ~(BusyLeg \/ HumanLeg \/ IdleLeg) \/ (IdleLeg /\ ~Settled)
    /\ Finish
    /\ UNCHANGED <<pane, file, round, holding, ghosts>> /\ DaemonOnly

\* A generating session has outlived its old blocked: and its nudge marker.
\* Input a peer injected excuses the blocked:.
Busy ==
    /\ pc = "act" /\ BusyLeg
    /\ file' \in IF VoidDue THEN {Note, file} ELSE {ClearNudge}
    /\ Finish
    /\ UNCHANGED <<pane, round, holding, ghosts>> /\ DaemonOnly

BlockedHuman ==
    /\ pc = "act" /\ HumanLeg
    /\ file' = ClearNudge /\ Finish
    /\ UNCHANGED <<pane, round, holding, ghosts>> /\ DaemonOnly

\* A ready that cannot certify is only surfaced.
Uncertifiable ==
    /\ pc = "act" /\ IdleLeg /\ Settled /\ obs.decl.tok = "ready" /\ ~obs.ready
    /\ Finish
    /\ UNCHANGED <<pane, file, round, holding, ghosts>> /\ DaemonOnly

Certified == pc = "act" /\ IdleLeg /\ Settled /\ obs.ready

\* The epic is missing, the statusline vetoes, or respawn-pane fails.
RestartRefused ==
    /\ Certified /\ (pane.clash \/ pane.live = MaxSession \/ "refuse" \in Events)
    /\ Finish
    /\ UNCHANGED <<pane, file, round, holding, ghosts>> /\ DaemonOnly

\* respawn-pane -k: the occupant dies and a fresh session takes the pane.
Respawn ==
    /\ Certified /\ ~pane.clash /\ pane.live < MaxSession
    /\ kills' = kills \cup {[by |-> obs.decl.by, at |-> obs.decl.at, victim |-> pane.live,
                            rounded |-> obs.rounded]}
    /\ \/ \E box \in {"empty"} \cup ({"gate"} \cap Events) : pane' = NewSession(TRUE, box)
       \/ "slow" \in Events /\ pane' = NewSession(FALSE, "empty")
    /\ enters' = 0 /\ obs' = NoObs /\ pc' = "spawned"
    /\ UNCHANGED <<file, round, due, holding, heard>> /\ DaemonOnly

\* The pane never became Claude, or the registry never named its session.
SpawnUnproven ==
    /\ pc = "spawned" /\ (~pane.up \/ FALSE \in Resolves)
    /\ entry' = PendResume(entry, NoId) /\ Finish
    /\ UNCHANGED <<pane, file, store, holding, ghosts>> /\ DaemonOnly

SpawnGated ==
    /\ pc = "spawned" /\ pane.up /\ pane.box = "gate"
    /\ entry' = PendResume(entry, pane.live) /\ Finish
    /\ UNCHANGED <<pane, file, store, holding, ghosts>> /\ DaemonOnly

\* submit_prompt: the text starts a turn that is confirmed (taken) or not
\* (unseen), or it does not start one and may be left in the box (lost).
Submit(out, left) ==
    \/ out # "lost" /\ pane' = [pane EXCEPT !.busy = TRUE, !.box = "empty"]
    \/ out = "lost" /\ pane' \in {pane, [pane EXCEPT !.box = left]}

SpawnResume ==
    /\ pc = "spawned" /\ pane.up /\ pane.box # "gate"
    /\ \E out \in Outcomes :
         /\ Submit(out, "resume")
         /\ pc' = IF out = "taken" THEN "closing" ELSE "unsent"
    /\ obs' = [NoObs EXCEPT !.real = pane.live]
    /\ UNCHANGED <<file, round, due, holding, ghosts>> /\ DaemonOnly

Unsent ==
    /\ pc = "unsent"
    /\ entry' = PendResume(entry, obs.real) /\ Finish
    /\ UNCHANGED <<pane, file, store, holding, ghosts>> /\ DaemonOnly

\* clear_state: replace the declaration, then delete the sidecar entry and the
\* in-memory state.
ConsumeReady ==
    /\ pc = "closing"
    /\ file' = Note /\ pc' = "closed"
    /\ UNCHANGED <<pane, round, obs, due, holding, ghosts>> /\ DaemonOnly

CloseRestarted ==
    /\ pc = "closed"
    /\ entry' = NoEntry /\ holding' = FALSE /\ enters' = 0 /\ heard' = {} /\ Finish
    /\ UNCHANGED <<pane, file, store, kills>> /\ DaemonOnly

-----------------------------------------------------------------------------
(* Winding down: closing a round, the expiry notice, the wrap-up, the nudge *)

\* The guarded re-reads before a paste keep the identity and the mapping row of
\* this tick's start; everything else is read anew.
Fresh == Sees(obs.real, obs.held)

Proceed == pc = "act" /\ IdleLeg /\ Settled /\ obs.decl.tok # "ready" /\ ~obs.ready

ClosableRecovered(o) ==
    /\ entry.at # 0 /\ ~entry.pending
    /\ o.decl.tok \notin SessionTokens /\ file.tok \notin SessionTokens
    /\ ~Latched(o) /\ o.ctx > Threshold

\* _closure_reason: the round is another identity's, or its context recovered
\* without a latch.
Closable(o) ==
    /\ entry.at # 0 /\ ~entry.pending
    /\ o.decl.tok \notin SessionTokens /\ file.tok \notin SessionTokens
    /\ entry.ident # Identity(o.real) \/ (~Latched(o) /\ o.ctx > Threshold)
Closes == pane.up /\ Closable(obs) /\ Closable(Fresh)

\* close_recovered_round: after the last fresh reading nothing looks again ...
CloseRound ==
    /\ Proceed \/ (pc = "owed" /\ Owed(obs))
    /\ Closes
    /\ pc' = "erasing"
    /\ UNCHANGED <<pane, file, round, obs, due, holding, ghosts>> /\ DaemonOnly

\* ... before the entry is deleted, whatever was declared meanwhile.  Idle with room
\* ends there, an owed wind-down goes on.
EraseRound ==
    /\ pc = "erasing"
    /\ entry' = NoEntry /\ holding' = FALSE /\ heard' = {}
    /\ IF Owed(obs) THEN pc' = "owed" /\ UNCHANGED <<obs, due>> ELSE Finish
    /\ UNCHANGED <<pane, file, store, kills, enters>> /\ DaemonOnly

\* fresh_guarded_paste_observation: nothing the paste was authorized on moved.
\* A busy pane's screen may move; its input may not.  The registry read that
\* names the identity also gives the status no paste may do without.
SameInput ==
    /\ Fresh.decl.tok = obs.decl.tok /\ Fresh.decl.at = obs.decl.at
    /\ Fresh.box = obs.box /\ Fresh.ready = obs.ready /\ Fresh.acked = obs.acked
SameScreen ==
    pane.ctx = obs.ctx /\ pane.busy = obs.busy /\ pane.clash = obs.clash
GuardedPasteUnresolved ==
    /\ pane.up /\ SameInput /\ (obs.busy \/ SameScreen)
    /\ Fresh.box = "empty" /\ Fresh.decl.tok \notin {"blocked", "ready"} /\ ~Fresh.acked
GuardedPaste ==
    /\ pane.up /\ obs.real # NoId /\ SameInput /\ (obs.busy \/ SameScreen)
    /\ Fresh.box = "empty" /\ Fresh.decl.tok \notin {"blocked", "ready"} /\ ~Fresh.acked

NoticeNow == obs.rounded /\ ExpiryNoticeDue /\ GuardedPaste

\* maybe_send_expiry_notice.
Notice ==
    /\ Proceed /\ ~Closes /\ NoticeNow
    /\ \E out \in Outcomes :
         /\ Submit(out, "draft")
         /\ pc' = IF out = "taken" THEN "noticed" ELSE "owed"
    /\ UNCHANGED <<file, round, obs, due, holding, ghosts>> /\ DaemonOnly

\* A notice that landed is this tick's message, except above the threshold,
\* where the idle-with-room branch still runs.
MarkNoticed ==
    /\ pc = "noticed"
    /\ entry' = [entry EXCEPT !.noticed = TRUE]
    /\ IF Owed(obs) THEN Finish ELSE pc' = "owed" /\ UNCHANGED <<obs, due>>
    /\ UNCHANGED <<pane, file, store, holding, ghosts>> /\ DaemonOnly

NoNotice ==
    /\ Proceed /\ ~Closes /\ ~NoticeNow
    /\ pc' = "owed"
    /\ UNCHANGED <<pane, file, round, obs, due, holding, ghosts>> /\ DaemonOnly

\* threshold(): a fresh winding-down buys patience; otherwise the wrap-up goes
\* out on a guarded re-read.  A latched track needs no low reading.
MayInject ==
    /\ Owed(obs) /\ ~obs.acked /\ GuardedPaste
    /\ Latched(obs) \/ Fresh.ctx <= Threshold

Authorize ==
    /\ pc = "owed" /\ MayInject /\ ~Closes
    /\ obs' = Fresh /\ pc' = "inject"
    /\ UNCHANGED <<pane, file, round, due, holding, ghosts>> /\ DaemonOnly

NudgeDue ==
    ~Owed(obs) /\ ~obs.busy /\ Silent(obs) /\ obs.decl.tok # "nudged"

\* Nothing is owed, or the re-read refused; an idle episode may be young yet.
Decline ==
    /\ pc = "owed" /\ ~MayInject /\ ~(Owed(obs) /\ Closes)
    /\ Finish
    /\ UNCHANGED <<pane, file, round, holding, ghosts>> /\ DaemonOnly

\* nudge_idle_with_context, on the tick's first observation.
Nudge ==
    /\ pc = "owed" /\ NudgeDue
    /\ \E out \in Outcomes :
         /\ Submit(out, "draft")
         /\ IF out = "taken" THEN pc' = "nudged" /\ UNCHANGED <<obs, due>> ELSE Finish
    /\ UNCHANGED <<file, round, holding, ghosts>> /\ DaemonOnly

MarkNudged ==
    /\ pc = "nudged"
    /\ file' = [tok |-> "nudged", at |-> clock, by |-> 0] /\ Finish
    /\ UNCHANGED <<pane, round, holding, ghosts>> /\ DaemonOnly

ArmedForGood == entry.bands

\* armed_bands: a latch this round has not answered re-arms every band.
Armed ==
    IF Latched(obs) /\ entry.rearmed # obs.gen.latch THEN {} ELSE entry.bands
InjectionCtx == IF Latched(obs) /\ obs.ctx > Threshold THEN Threshold ELSE obs.ctx
Due == {band \in Bands : InjectionCtx <= band /\ band \notin Armed}

OpensNow == entry.at = 0

NothingDue ==
    /\ pc = "inject" /\ Due = {}
    /\ Finish
    /\ UNCHANGED <<pane, file, round, holding, ghosts>> /\ DaemonOnly

\* open_round stamps before the paste and replaces the whole sidecar entry.
OpenRound ==
    /\ pc = "inject" /\ Due # {} /\ OpensNow
    /\ entry' = [NoEntry EXCEPT !.at = clock, !.ident = Identity(obs.real)]
    /\ due' = IF file.tok \in DaemonTokens THEN {Threshold} ELSE Due
    /\ heard' = {} /\ pc' = "opened"
    /\ UNCHANGED <<pane, file, store, obs, holding, kills, enters>> /\ DaemonOnly

Rewarn ==
    /\ pc = "inject" /\ Due # {} /\ ~OpensNow
    /\ due' = Due /\ pc' = "rewarn"
    /\ UNCHANGED <<pane, file, round, obs, holding, ghosts>> /\ DaemonOnly

Hear(confirmed) == heard \cup (due \X {obs.gen.latch} \X {confirmed})

\* deliver: only a confirmed submission is recorded; an unconfirmed one of an
\* opening wrap-up un-opens the round.
Deliver ==
    /\ pc \in {"opened", "rewarn"}
    /\ \E out \in Outcomes :
         /\ Submit(out, "draft")
         /\ heard' = IF out = "lost" THEN heard ELSE Hear(out = "taken")
         /\ CASE out = "taken" -> pc' = "mark" /\ UNCHANGED <<obs, due>>
              [] out # "taken" /\ pc = "opened" -> pc' = "rollback" /\ UNCHANGED <<obs, due>>
              [] OTHER -> Finish
    /\ UNCHANGED <<file, round, holding, kills, enters>> /\ DaemonOnly

MarkDeliveredLast ==
    /\ pc = "mark"
    /\ entry' = [entry EXCEPT !.bands = due,
                             !.rearmed = IF Latched(obs) THEN obs.gen.latch ELSE @]
    /\ Finish
    /\ UNCHANGED <<pane, file, store, holding, ghosts>> /\ DaemonOnly

\* mark_delivered: the bands answered so far, and the latch they answered.
MarkDelivered ==
    /\ pc = "mark"
    /\ entry' = [entry EXCEPT !.bands = @ \cup due,
                             !.rearmed = IF Latched(obs) THEN obs.gen.latch ELSE @]
    /\ Finish
    /\ UNCHANGED <<pane, file, store, holding, ghosts>> /\ DaemonOnly

UnopenNothing ==
    /\ pc = "rollback" /\ Finish
    /\ UNCHANGED <<pane, file, round, holding, ghosts>> /\ DaemonOnly
Unopen ==
    /\ pc = "rollback"
    /\ entry' = NoEntry /\ heard' = {} /\ Finish
    /\ UNCHANGED <<pane, file, store, holding, kills, enters>> /\ DaemonOnly

Daemon ==
    \/ Identify \/ Unmanaged \/ Tick
    \/ RetryHeld \/ RetryResolved \/ RetryExhausted \/ RetryEnter \/ CountEnter
    \/ Retire \/ ExpireFloor \/ ExpireNote \/ JudgeOn
    \/ Wait \/ Busy \/ BlockedHuman \/ Uncertifiable
    \/ RestartRefused \/ Respawn \/ SpawnUnproven \/ SpawnGated \/ SpawnResume
    \/ Unsent \/ ConsumeReady \/ CloseRestarted
    \/ CloseRound \/ EraseRound \/ Notice \/ MarkNoticed \/ NoNotice
    \/ Authorize \/ Decline \/ Nudge \/ MarkNudged
    \/ NothingDue \/ OpenRound \/ Rewarn \/ Deliver \/ MarkDelivered \/ Unopen

Next == Environment \/ Daemon

Spec == Init /\ [][Next]_vars
\* overseerd keeps ticking and a booting session finishes its boot; nothing is
\* assumed of sessions or operators.
FairSpec == Spec /\ WF_vars(Daemon) /\ WF_vars(SlowBootEnds)

-----------------------------------------------------------------------------
(* What the interlock promises                                             *)

\* Killing consumes the authority of its author: two respawns certified by a
\* round never rest on declarations of one session, whatever crashes or fails
\* between respawn-pane and clear_state, whoever replaces the session by hand, and
\* whether or not the registry knew it.
OneKillPerDeclaration ==
    \A k, l \in kills : k.rounded /\ l.rounded /\ k.by = l.by => k = l

\* No respawn while an earlier one still owes its resume line: the retry sends
\* Enter and never escalates to a kill (resume_retry ahead of the cascade).
NoKillWhileResumePending == [][kills' # kills => ~entry.pending]_vars

\* Behind every ready that a standing round certifies there is a wrap-up that
\* reached a session in that round: a failed opening paste leaves no round for
\* an unprompted ready to certify against (report_undelivered).
CertifiedRoundWasHeard == obs.ready /\ obs.rounded => heard # {}

\* Within one round, over re-ticks and lost and unconfirmed pastes, no band is pasted
\* again once its delivery was confirmed under the same latch; a crash before
\* mark_delivered, and a latch dated twice, repeat one (armed_bands).
NoBandTwice ==
    pc \in {"opened", "rewarn"} =>
        \A band \in due : <<band, obs.gen.latch, TRUE>> \notin heard

\* While a round stands its stamp does not move, its certification floor does
\* not fall and no notified band is forgotten (write_injection_stamp only when
\* opening, record_ready_expiry only raising, set_resume_pending preserving).
RoundOnlyGrows ==
    [][entry.at # 0 /\ entry'.at # 0 =>
         /\ entry'.at = entry.at /\ Floor(entry') >= Floor(entry)
         /\ entry.bands \subseteq entry'.bands]_vars

\* A recorded compaction outlives everything but its session: ticks that resolve no
\* identity, falling readings and closed rounds leave the latch where it was
\* (observe_compaction, record_context_compaction).
LatchStands ==
    [][store.gen.latch # 0 /\ store'.gen.latch # store.gen.latch =>
         store.gen.owner # pane.live]_vars

\* A live session's own answer to its round does not wait for ever: left idle,
\* it is restarted or its declaration expires (idle_decision, expire_aged_ready).
\* The last session of the bound has no successor to restart into.
AnsweredBy(n) ==
    /\ pane.live = n /\ pane.up /\ ~pane.busy /\ pane.box = "empty"
    /\ entry.at # 0 /\ entry.ident = n /\ ~entry.pending
    /\ file.tok = "ready" /\ file.by = n /\ file.at > Floor(entry)
AnsweredRoundEnds == \A n \in Sessions \ {MaxSession} : AnsweredBy(n) ~> ~AnsweredBy(n)

\* A silent session below its threshold is told so: left idle, a round opens
\* for it (threshold, maybe_inject).
Unwarned ==
    /\ pane.up /\ ~pane.busy /\ pane.box = "empty" /\ pane.ctx <= Threshold
    /\ file.tok \notin SessionTokens /\ entry.at = 0
WindDownArrives == Unwarned ~> ~Unwarned

\* A ready whose round is gone, deleted over it or never opened, does not strand its
\* session: left idle, it is restarted or the declaration is retired
\* (close_recovered_round, fresh_ready_without_round_valid, retire_unrounded_ready).
Unrounded ==
    /\ pane.up /\ ~pane.busy /\ pane.box = "empty" /\ pane.ctx <= Threshold
    /\ entry.at = 0 /\ ~entry.pending /\ file.tok = "ready"
    /\ clock - file.at > MarkerVoidGrace
    /\ pane.live < MaxSession \/ clock - file.at > ReadyArmMaxAge

\* A round that outlived its session does not stand for ever over the silent
\* idle successor: it is closed (the identity-reset arm of _closure_reason).
Orphaned ==
    /\ entry.at # 0 /\ entry.ident # pane.live /\ ~entry.pending
    /\ pane.up /\ ~pane.busy /\ pane.box = "empty" /\ file.tok \notin SessionTokens
OrphanedRoundEnds == Orphaned ~> ~Orphaned

\* A compaction recorded for the live session is answered: left idle and silent,
\* the session gets a wrap-up under that very latch, whatever its percentage says
\* now (threshold_due, armed_bands).
Starved ==
    /\ store.gen.latch # 0 /\ store.gen.owner = pane.live /\ entry.rearmed # store.gen.latch
    /\ pane.up /\ ~pane.busy /\ pane.box = "empty" /\ file.tok \notin SessionTokens
CompactionAnswered == Starved ~> ~Starved

-----------------------------------------------------------------------------
(* Why the interlock holds: the inductive invariant of the proofs          *)

\* Nothing bears the mark of a session or an instant that is still to come.
NothingAhead ==
    /\ file.by <= pane.live /\ file.at <= clock
    /\ entry.ident <= pane.live /\ obs.decl.by <= pane.live
    /\ obs.real <= pane.live /\ obs.real # Fallback

\* Whoever spent its authority was gone before the tick that is on resolved anybody.
SpentBefore ==
    \A k \in kills :
        k.rounded => k.by < pane.live /\ (obs.real # NoId => k.by < obs.real)

\* A round is opened, and stays, in the name of a resolved session.
RoundHasOwner ==
    /\ entry.at # 0 => entry.ident # Fallback
    /\ pc = "inject" => obs.real # NoId

\* What its predecessors declared stands at or below the floor of a session's round.
FloorSeparates ==
    entry.at # 0 /\ file.tok = "ready" /\ file.by < entry.ident => file.at <= entry.at

\* What a round certifies was declared by the session the tick resolved, or by one
\* that took its place between that reading and the reading of the file.
NotInherited ==
    obs.ready /\ obs.rounded => obs.real # NoId /\ obs.real <= obs.decl.by

\* The cascade is reached only with no resume outstanding.
ActsUnencumbered == pc \in {"expiring", "act"} => ~entry.pending

\* An Enter still to be counted was within the budget.
EnterInBudget == pc \in {"entered", "dropped"} => entry.tries < SubmitMaxEnters

\* A certified ready stays certified until the tick acts on it: its round stands,
\* in the name of a session that was resolved.
CertificationStands ==
    /\ entry.at # 0 => entry.ident > Fallback
    /\ pc \in {"judge", "expiring", "act"} /\ obs.ready /\ obs.rounded =>
           entry.at # 0 /\ entry.ident = obs.real

\* Together: every fact the restart interlock rests on, kept by every step of
\* the daemon, the sessions, the operators and a crash.
RoundInterlock ==
    /\ NothingAhead /\ SpentBefore /\ RoundHasOwner /\ FloorSeparates /\ NotInherited
    /\ ActsUnencumbered /\ OneKillPerDeclaration

-----------------------------------------------------------------------------
(* What the interlock is for: the abstract specification it implements      *)

Offered ==
    {n \in Sessions : \/ file.tok = "ready" /\ file.by = n
                      \/ obs.ready /\ obs.decl.by = n}
Spent == {n \in Sessions : \E k \in kills : k.rounded /\ k.by = n}
Victims == {n \in Sessions : \E k \in kills : k.rounded /\ k.victim = n}
RoundOwner == IF entry.at = 0 THEN 0 ELSE entry.ident

Authority == INSTANCE RestartAuthority WITH
    occupant <- pane.live, round <- RoundOwner, offered <- Offered, spent <- Spent,
    restarted <- Victims

\* The supervision of a pane keeps the restart authority: offers come from the
\* session in the pane, rounds open one at a time for sessions that were there,
\* and every certified restart spends an unspent offer of the round's session or of
\* one that took its place.  A restart on a ready without a round promises no more than a replacement.
KeepsAuthority == Authority!Spec

-----------------------------------------------------------------------------
(* What the documents and comments say, and the code does otherwise         *)

\* contracts.md 301: one declaration must never authorize two kills; a crash
\* between the respawn and clear_state leaves the declaration to a later tick.
OneKillEver == \A k, l \in kills : k.by = l.by /\ k.at = l.at => k = l

\* spec.md 249: a declaration between observation and deletion holds the round open;
\* nothing looks at the file between the last reading and the deletion.
DeclarationHoldsRound ==
    [][pc = "erasing" /\ entry' # entry => file.tok \notin SessionTokens]_vars

\* do_restart: a declaration restarts the session that wrote it.  The pane may change
\* hands between the observation and respawn-pane.
KillsItsWriter == \A k \in kills : k.rounded => k.victim = k.by

\* spec.md 905: bands are re-armed once per latch; the guarded re-read dates the
\* latch anew and the next tick finds the answered instant unequal.
OneRearmPerLatch ==
    pc \in {"opened", "rewarn"} /\ Latched(obs) =>
        \A band \in due, latch \in Clock \ {0} : <<band, latch, TRUE>> \notin heard

\* _supervisor_nudge_marker.py 44: the marker can never overwrite a ready,
\* blocked or winding-down; it is written after the paste, on an older reading.
NudgeOverwritesNothing ==
    [][pc = "nudged" /\ file' # file => pc' = pc \/ file.tok \notin SessionTokens]_vars

\* do_restart: after a timed-out recognition the next tick can recover without a
\* second respawn; the retry refuses a pending resume with no identity for ever.
PendingResumeResolves == entry.pending ~> ~entry.pending

\* _registry_stamp_resume.py 73, SUBMIT_MAX_ENTERS: one pending episode spends a
\* bounded number of Enters; a stranded resume line refills the budget each tick.
EnterBudgetHolds == enters <= SubmitMaxEnters

=============================================================================
