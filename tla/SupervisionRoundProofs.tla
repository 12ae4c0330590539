----------------------- MODULE SupervisionRoundProofs -----------------------
(***************************************************************************)
(* What holds of SupervisionRound for every number of sessions, every      *)
(* clock, every threshold, age and budget, and every choice of what the    *)
(* sessions, the operators and the terminal may do.                        *)
(***************************************************************************)
EXTENDS SupervisionRound, TLAPS

\* The bounds are what they are declared to be.
LEMMA Bounds ==
    /\ MaxSession \in Nat /\ MaxSession >= 1 /\ MaxClock \in Nat /\ MaxClock >= 1
    /\ MaxCrash \in Nat /\ MaxCtx \in Nat /\ MaxCtx >= 1
    /\ Threshold \in Nat /\ Threshold >= 1 /\ Threshold <= MaxCtx
    /\ ReadyArmMaxAge \in Nat /\ SubmitMaxEnters \in Nat
  BY BoundsAssumption

\* A floor is an instant, at or after the opening of its round.
LEMMA FloorType ==
    ASSUME NEW e \in Entries
    PROVE  Floor(e) \in Nat /\ Floor(e) >= e.at
  BY Bounds DEF Floor, Entries, Clock

\* Every entry of the sidecar is well formed after a resume is set pending.
LEMMA PendResumeType ==
    ASSUME NEW e \in Entries, NEW id \in Identities
    PROVE  /\ PendResume(e, id) \in Entries
           /\ PendResume(e, id).at = e.at /\ PendResume(e, id).ident = e.ident
           /\ PendResume(e, id).exp = e.exp /\ PendResume(e, id).bands = e.bands
           /\ PendResume(e, id).tries = 0
<1> DEFINE owner == IF id = NoId THEN e.pendIdent ELSE id
<1>1. owner \in Identities /\ 0 \in 0..SubmitMaxEnters /\ TRUE \in BOOLEAN
  BY Bounds DEF Entries
<1>2. PendResume(e, id) = [e EXCEPT !.pending = TRUE, !.tries = 0, !.pendIdent = owner]
  BY DEF PendResume
<1> HIDE DEF owner
<1>3. PendResume(e, id) \in Entries
  BY <1>1, <1>2, Zenon DEF Entries
<1>4. /\ PendResume(e, id).at = e.at /\ PendResume(e, id).ident = e.ident
      /\ PendResume(e, id).exp = e.exp /\ PendResume(e, id).bands = e.bands
      /\ PendResume(e, id).tries = 0
  BY <1>2 DEF Entries
<1> QED
  BY <1>3, <1>4

\* Folding a reading of an identity in the pane gives a generation record.
LEMMA FoldType ==
    ASSUME NEW held \in Generations, NEW real \in Identities, NEW ctx \in 1..MaxCtx,
           clock \in Clock
    PROVE  Fold(held, real, ctx) \in Generations
<1> DEFINE latch == IF ctx > held.low /\ held.latch = 0 THEN clock ELSE held.latch
<1>1. latch \in Clock /\ 0 \in Clock /\ ctx \in 0..MaxCtx
  BY Bounds DEF Generations, Clock
<1>2. Fold(held, real, ctx) \in
        {held, [owner |-> real, low |-> ctx, latch |-> 0],
         [held EXCEPT !.low = ctx, !.latch = latch]}
  BY Zenon DEF Fold
<1> HIDE DEF latch
<1>3. [owner |-> real, low |-> ctx, latch |-> 0] \in Generations
  BY <1>1 DEF Generations
<1>4. [held EXCEPT !.low = ctx, !.latch = latch] \in Generations
  BY <1>1 DEF Generations
<1> QED
  BY <1>2, <1>3, <1>4

\* The initial records are well formed.
LEMMA InitialTypes ==
    /\ NoFile \in Files /\ NoEntry \in Entries /\ NoGeneration \in Generations
    /\ NoObs \in Observations
<1>1. NoFile \in Files
  BY Bounds DEF NoFile, Files, Clock
<1>2. NoId \in Identities
  BY Bounds DEF NoId, Identities
<1>3. NoEntry \in Entries
  BY Bounds, <1>2 DEF NoEntry, Entries, Clock, Bands
<1>4. NoGeneration \in Generations
  BY Bounds, <1>2 DEF NoGeneration, Generations, Clock
<1>5. NoObs \in Observations
  BY Bounds, <1>1, <1>2, <1>4 DEF NoObs, Observations, Boxes
<1> QED
  BY <1>1, <1>3, <1>4, <1>5

\* Whatever a tick sees is an observation.
LEMMA SeesType ==
    ASSUME TypeOK, NEW held \in Generations, NEW real \in Identities
    PROVE  Sees(real, held) \in Observations
<1>1. Fold(held, real, pane.ctx) \in Generations
  BY FoldType DEF TypeOK, Panes, Clock
<1>2. /\ file \in Files /\ pane.busy \in BOOLEAN /\ pane.box \in Boxes
      /\ pane.ctx \in 1..MaxCtx /\ pane.clash \in BOOLEAN
  BY DEF TypeOK, Panes
<1> DEFINE acked == file.tok = "winding-down" /\ clock - file.at <= AckStaleAfter
           ready == RoundReady(Identity(real)) \/ FreshReady(Identity(real))
           rounded == entry.at # 0
<1>3. acked \in BOOLEAN /\ ready \in BOOLEAN /\ rounded \in BOOLEAN
  BY Zenon DEF RoundReady, FreshReady
<1>4. Sees(real, held) =
        [decl |-> file, real |-> real, busy |-> pane.busy, box |-> pane.box,
         ctx |-> pane.ctx, clash |-> pane.clash, held |-> held,
         gen |-> Fold(held, real, pane.ctx), acked |-> acked, ready |-> ready,
         rounded |-> rounded]
  BY Zenon DEF Sees
<1> HIDE DEF acked, ready, rounded
<1> QED
  BY <1>1, <1>2, <1>3, <1>4 DEF Observations

-----------------------------------------------------------------------------
(* Types                                                                   *)

\* Finishing a tick leaves the daemon at rest with nothing observed.
LEMMA FinishType ==
    ASSUME Finish
    PROVE  pc' \in Phases /\ obs' \in Observations /\ due' \subseteq Bands
  BY InitialTypes DEF Finish, Phases

\* A diagnostic is a state file nobody in the pane wrote.
LEMMA NoteType ==
    ASSUME TypeOK
    PROVE  Note \in Files /\ NoFile \in Files /\ ClearNudge \in Files
  BY Bounds, InitialTypes DEF TypeOK, Note, ClearNudge, Files, DaemonTokens, Clock

\* A submitted prompt changes what the pane shows and nothing else about it.
LEMMA SubmitType ==
    ASSUME TypeOK, NEW out, NEW left \in Boxes, Submit(out, left)
    PROVE  pane' \in Panes /\ pane'.live = pane.live
<1>1. pane \in Panes /\ "empty" \in Boxes
  BY DEF TypeOK, Boxes
<1>2. CASE pane' = [pane EXCEPT !.busy = TRUE, !.box = "empty"]
  BY <1>1, <1>2 DEF Panes
<1>3. CASE pane' = pane
  BY <1>1, <1>3
<1>4. CASE pane' = [pane EXCEPT !.box = left]
  BY <1>1, <1>4 DEF Panes
<1> QED
  BY <1>2, <1>3, <1>4 DEF Submit

\* A successor is the next session, in a pane of its own.
LEMMA NewSessionType ==
    ASSUME TypeOK, pane.live < MaxSession, NEW up \in BOOLEAN, NEW box \in Boxes
    PROVE  NewSession(up, box) \in Panes /\ NewSession(up, box).live = pane.live + 1
<1>1. pane.live + 1 \in Sessions /\ MaxCtx \in 1..MaxCtx /\ pane.clash \in BOOLEAN
  BY Bounds DEF TypeOK, Panes, Sessions
<1> QED
  BY <1>1 DEF NewSession, Panes

\* A resume recorded as pending before the retry reads it is well formed.
LEMMA PendingEntryType ==
    ASSUME TypeOK
    PROVE  /\ PendingEntry \in Entries
           /\ PendingEntry.at = entry.at /\ PendingEntry.ident = entry.ident
           /\ PendingEntry.exp = entry.exp /\ PendingEntry.bands = entry.bands
<1>1. Identity(obs.real) \in Identities /\ entry \in Entries
  BY Bounds DEF TypeOK, Observations, Identity, Identities, Fallback, NoId
<1> QED
  BY <1>1, PendResumeType DEF PendingEntry

\* What is known of a well-typed observation.
LEMMA ObsType ==
    ASSUME TypeOK
    PROVE  /\ obs.real \in Identities /\ obs.held \in Generations
           /\ obs.gen \in Generations /\ obs.gen.latch \in Clock
           /\ obs.ctx \in 1..MaxCtx /\ Identity(obs.real) \in Identities
           /\ pane.live \in Identities /\ entry.ident \in Identities
           /\ obs.decl.by \in 0..MaxSession /\ obs.decl.at \in Clock
           /\ obs.rounded \in BOOLEAN
<1>1. obs.gen \in Generations /\ obs.real \in Identities /\ obs.decl \in Files
  BY DEF TypeOK, Observations
<1> QED
  BY <1>1, Bounds DEF TypeOK, Observations, Identity, Identities, Fallback, NoId,
     Generations, Panes, Sessions, Entries, Files

\* The initial state is well typed.
LEMMA TypeInit == Init => TypeOK
<1> SUFFICES ASSUME Init PROVE TypeOK
  OBVIOUS
<1>1. pane \in Panes
  BY Bounds DEF Init, Panes, Sessions, Boxes
<1>2. NoId \in Identities
  BY Bounds DEF Identities, NoId
<1>3. 1 \in Clock \ {0} /\ 0 \in 0..(SubmitMaxEnters + 1) /\ 0 \in 0..MaxCrash
  BY Bounds DEF Clock
<1>4. /\ clock = 1 /\ file = NoFile /\ entry = NoEntry /\ pc = "rest" /\ obs = NoObs
      /\ due = {} /\ holding = FALSE /\ kills = {} /\ heard = {} /\ enters = 0
      /\ crashes = 0 /\ store = [observed |-> NoId, gen |-> NoGeneration]
  BY DEF Init
<1>5. store \in [observed : Identities, gen : Generations]
  BY <1>2, <1>4, InitialTypes
<1>6. pc \in Phases
  BY <1>4 DEF Phases
<1> QED
  BY <1>1, <1>3, <1>4, <1>5, <1>6, InitialTypes, Zenon DEF TypeOK

\* No step of a session, an operator, the terminal or the clock breaks a type.
LEMMA TypeEnvironment ==
    ASSUME TypeOK, Environment
    PROVE  TypeOK'
<1> USE DEF World, daemon, ghosts
<1>1. pane \in Panes /\ clock \in Clock
  BY DEF TypeOK
<1>2. CASE StartTurn
  <2>1. pane' \in Panes
    BY <1>1, <1>2 DEF StartTurn, Panes
  <2> QED
    BY <1>2, <2>1 DEF StartTurn, TypeOK
<1>3. CASE EndTurn
  <2>1. pane' \in Panes
    BY <1>1, <1>3 DEF EndTurn, Panes
  <2> QED
    BY <1>3, <2>1 DEF EndTurn, TypeOK
<1>4. CASE ConsumeContext
  <2>1. pane.ctx - 1 \in 1..MaxCtx
    BY <1>1, <1>4, Bounds DEF ConsumeContext, Panes
  <2>2. pane' \in Panes
    BY <1>1, <1>4, <2>1 DEF ConsumeContext, Panes
  <2> QED
    BY <1>4, <2>2 DEF ConsumeContext, TypeOK
<1>5. CASE Compact
  <2>1. pane' \in Panes
    BY <1>1, <1>5, Bounds DEF Compact, Panes
  <2> QED
    BY <1>5, <2>1 DEF Compact, TypeOK
<1>6. ASSUME NEW tok \in Tokens, Declare(tok) PROVE TypeOK'
  <2>1. file' \in Files
    BY <1>1, <1>6, ChoicesAssumption, Bounds DEF Declare, Files, Panes, Sessions
  <2> QED
    BY <1>6, <2>1 DEF Declare, TypeOK, env
<1>7. CASE Withdraw
  BY <1>7, InitialTypes DEF Withdraw, TypeOK, env
<1>8. ASSUME NEW box \in {"gate", "draft"}, BoxFills(box) PROVE TypeOK'
  <2>1. pane' \in Panes
    BY <1>1, <1>8 DEF BoxFills, Panes, Boxes
  <2> QED
    BY <1>8, <2>1 DEF BoxFills, TypeOK
<1>9. CASE BoxSent
  <2>1. pane' \in Panes
    BY <1>1, <1>9 DEF BoxSent, Panes, Boxes
  <2> QED
    BY <1>9, <2>1 DEF BoxSent, TypeOK
<1>10. CASE Replace
  <2>1. pane' \in Panes
    BY <1>10, NewSessionType DEF Replace, Boxes
  <2> QED
    BY <1>10, <2>1 DEF Replace, TypeOK
<1>11. CASE SlowBootEnds
  <2>1. pane' \in Panes
    BY <1>1, <1>11 DEF SlowBootEnds, Panes
  <2> QED
    BY <1>11, <2>1 DEF SlowBootEnds, TypeOK
<1>12. CASE StatuslineChanges
  <2>1. pane' \in Panes
    BY <1>1, <1>12 DEF StatuslineChanges, Panes
  <2> QED
    BY <1>12, <2>1 DEF StatuslineChanges, TypeOK
<1>13. CASE Advance
  <2>1. clock' \in Clock \ {0}
    BY <1>1, <1>13, Bounds DEF Advance, Clock
  <2> QED
    BY <1>13, <2>1 DEF Advance, TypeOK
<1>14. CASE Crash
  <2>1. crashes' \in 0..MaxCrash
    BY <1>14, Bounds DEF Crash, TypeOK
  <2>2. UNCHANGED <<clock, pane, file, entry, store, kills, heard, enters>> /\ holding' = FALSE
    BY <1>14 DEF Crash, env, round
  <2>3. Finish
    BY <1>14 DEF Crash
  <2> QED
    BY <2>1, <2>2, <2>3, FinishType DEF TypeOK
<1> QED
  BY <1>2, <1>3, <1>4, <1>5, <1>6, <1>7, <1>8, <1>9, <1>10, <1>11, <1>12, <1>13, <1>14
     DEF Environment

\* No step of the daemon breaks a type.
LEMMA TypeDaemon ==
    ASSUME TypeOK, EnterInBudget, Daemon
    PROVE  TypeOK'
<1> USE DEF DaemonOnly, ghosts, round
<1>1. /\ pane \in Panes /\ clock \in Clock /\ clock \in Clock \ {0} /\ entry \in Entries
      /\ file \in Files /\ obs \in Observations
  BY DEF TypeOK
<1>2. Note \in Files /\ NoFile \in Files /\ ClearNudge \in Files /\ NoEntry \in Entries
  BY NoteType, InitialTypes
<1>3. CASE Tick
  <2>1. obs.real \in Identities /\ store.gen \in Generations
    BY ObsType DEF TypeOK
  <2>2. obs' \in Observations
    BY <1>3, <2>1, SeesType DEF Tick
  <2>3. obs'.decl \in Files /\ obs'.real \in Identities /\ obs'.gen \in Generations
    BY <2>2 DEF Observations
  <2>4. Identity(obs'.real) \in Identities
    BY <2>3, Bounds DEF Identity, Identities, Fallback, NoId
  <2>5. store' = [observed |-> Identity(obs'.real),
                  gen |-> IF obs'.decl.tok = "done" THEN store.gen ELSE obs'.gen]
    BY <1>3 DEF Tick
  <2>6. store' \in [observed : Identities, gen : Generations]
    BY <2>1, <2>3, <2>4, <2>5
  <2>7. pc' \in Phases
    BY <1>3 DEF Tick, Phases
  <2>8. UNCHANGED <<clock, pane, file, entry, due, holding, kills, heard, enters, crashes>>
    BY <1>3 DEF Tick
  <2> QED
    BY <2>2, <2>6, <2>7, <2>8 DEF TypeOK
<1>3a. CASE Identify
  <2>1. PICK known \in Resolves :
          obs' = [NoObs EXCEPT !.real = IF known /\ pane.up THEN pane.live ELSE NoId]
    BY <1>3a DEF Identify
  <2>2. (IF known /\ pane.up THEN pane.live ELSE NoId) \in Identities
    BY ObsType, Bounds DEF Identities, NoId
  <2>3. obs' \in Observations
    BY <2>1, <2>2, InitialTypes DEF Observations
  <2> QED
    BY <1>3a, <2>3 DEF Identify, TypeOK, Phases
<1>3b. CASE Unmanaged
  <2>1. Finish
    BY <1>3b DEF Unmanaged
  <2> QED
    BY <1>3b, <2>1, FinishType DEF Unmanaged, TypeOK
<1>4. CASE RetryHeld
  <2>1. entry' \in Entries /\ Finish
    BY <1>4, PendingEntryType DEF RetryHeld
  <2> QED
    BY <1>4, <2>1, FinishType DEF RetryHeld, TypeOK
<1>5. CASE RetryExhausted
  <2>1. entry' \in Entries /\ Finish
    BY <1>5, PendingEntryType DEF RetryExhausted
  <2> QED
    BY <1>5, <2>1, FinishType DEF RetryExhausted, TypeOK
<1>6. CASE RetryResolved
  <2>1. entry' \in Entries
    BY <1>6, PendingEntryType DEF RetryResolved
  <2> QED
    BY <1>6, <2>1 DEF RetryResolved, TypeOK, Phases
<1>7. CASE RetryEnter
  <2>1. entry' \in Entries
    BY <1>7, PendingEntryType DEF RetryEnter
  <2>3. enters' \in 0..(SubmitMaxEnters + 1)
    BY <1>7, Bounds DEF RetryEnter, TypeOK
  <2>4. pane' \in Panes
    BY <1>7, <1>1 DEF RetryEnter, Panes, Boxes
  <2>5. pc' \in Phases
    BY <1>7 DEF RetryEnter, Phases
  <2> QED
    BY <1>7, <2>1, <2>3, <2>4, <2>5 DEF RetryEnter, TypeOK
<1>7a. CASE CountEnter
  <2>1. entry.tries + 1 \in 0..SubmitMaxEnters
    BY <1>1, <1>7a, Bounds DEF CountEnter, EnterInBudget, Entries
  <2>2. entry' \in Entries
    BY <1>1, <1>7a, <2>1 DEF CountEnter, Entries
  <2>3. pc' \in {"closing", "rest"} /\ obs' \in Observations /\ due' \subseteq Bands
    BY <1>7a, FinishType DEF CountEnter, TypeOK, Finish
  <2> QED
    BY <1>7a, <2>2, <2>3 DEF CountEnter, TypeOK, Phases
<1>8. CASE Retire
  BY <1>8, <1>2 DEF Retire, TypeOK, Phases
<1>9. CASE ExpireFloor
  <2>1. file.at + ReadyArmMaxAge \in Nat
    BY <1>1, Bounds DEF Files, Clock
  <2>2. entry' \in Entries
    BY <1>9, <1>1, <2>1 DEF ExpireFloor, Entries
  <2> QED
    BY <1>9, <2>2 DEF ExpireFloor, TypeOK, Phases
<1>10. CASE ExpireNote
  BY <1>10, <1>2 DEF ExpireNote, TypeOK, Phases
<1>11. CASE JudgeOn
  <2>1. holding' \in BOOLEAN
    BY <1>11, <1>1 DEF JudgeOn, Holds, TypeOK, Observations
  <2> QED
    BY <1>11, <2>1 DEF JudgeOn, TypeOK, Phases
<1>12. CASE Wait
  <2>1. Finish
    BY <1>12 DEF Wait
  <2> QED
    BY <1>12, <2>1, FinishType DEF Wait, TypeOK
<1>13. CASE Uncertifiable
  <2>1. Finish
    BY <1>13 DEF Uncertifiable
  <2> QED
    BY <1>13, <2>1, FinishType DEF Uncertifiable, TypeOK
<1>14. CASE RestartRefused
  <2>1. Finish
    BY <1>14 DEF RestartRefused
  <2> QED
    BY <1>14, <2>1, FinishType DEF RestartRefused, TypeOK
<1>15. CASE Decline
  <2>1. Finish
    BY <1>15 DEF Decline
  <2> QED
    BY <1>15, <2>1, FinishType DEF Decline, TypeOK
<1>16. CASE NothingDue
  <2>1. Finish
    BY <1>16 DEF NothingDue
  <2> QED
    BY <1>16, <2>1, FinishType DEF NothingDue, TypeOK
<1>17. CASE Busy
  <2>1. file' \in Files /\ Finish
    BY <1>17, <1>1, <1>2, Bounds DEF Busy
  <2> QED
    BY <1>17, <2>1, FinishType DEF Busy, TypeOK
<1>18. CASE BlockedHuman
  <2>1. file' \in Files /\ Finish
    BY <1>18, <1>1, <1>2, Bounds DEF BlockedHuman
  <2> QED
    BY <1>18, <2>1, FinishType DEF BlockedHuman, TypeOK
<1>19. CASE MarkNudged
  <2>1. file' \in Files /\ Finish
    BY <1>19, <1>1, <1>2, Bounds DEF MarkNudged, Files, DaemonTokens
  <2> QED
    BY <1>19, <2>1, FinishType DEF MarkNudged, TypeOK
<1>20. CASE Respawn
  <2>1. pane.live < MaxSession
    BY <1>20 DEF Respawn
  <2>2. pane' \in Panes
    BY <1>20, <2>1, NewSessionType DEF Respawn, Boxes
  <2> DEFINE kill == [by |-> obs.decl.by, at |-> obs.decl.at, victim |-> pane.live,
                      rounded |-> obs.rounded]
  <2>3. kill \in [by : 0..MaxSession, at : Clock, victim : Sessions, rounded : BOOLEAN]
    BY <1>1, ObsType DEF Panes
  <2>4. kills' = kills \cup {kill} /\ obs' \in Observations /\ pc' \in Phases
    BY <1>20, InitialTypes DEF Respawn, Phases
  <2>5. enters' \in 0..(SubmitMaxEnters + 1)
    BY <1>20, Bounds DEF Respawn
  <2> HIDE DEF kill
  <2>6. UNCHANGED <<clock, file, entry, store, due, holding, heard, crashes>>
    BY <1>20 DEF Respawn
  <2> QED
    BY <2>2, <2>3, <2>4, <2>5, <2>6 DEF TypeOK
<1>21. CASE SpawnUnproven
  <2>1. NoId \in Identities
    BY ObsType, Bounds DEF NoId, Identities
  <2>2. entry' \in Entries /\ Finish
    BY <1>21, <1>1, <2>1, PendResumeType DEF SpawnUnproven
  <2> QED
    BY <1>21, <2>2, FinishType DEF SpawnUnproven, TypeOK
<1>22. CASE SpawnGated
  <2>1. pane.live \in Identities
    BY ObsType, Bounds DEF NoId, Identities
  <2>2. entry' \in Entries /\ Finish
    BY <1>22, <1>1, <2>1, PendResumeType DEF SpawnGated
  <2> QED
    BY <1>22, <2>2, FinishType DEF SpawnGated, TypeOK
<1>23. CASE Unsent
  <2>1. obs.real \in Identities
    BY ObsType, Bounds DEF NoId, Identities
  <2>2. entry' \in Entries /\ Finish
    BY <1>23, <1>1, <2>1, PendResumeType DEF Unsent
  <2> QED
    BY <1>23, <2>2, FinishType DEF Unsent, TypeOK
<1>24. CASE SpawnResume
  <2>1. PICK out \in Outcomes :
          Submit(out, "resume") /\ pc' = IF out = "taken" THEN "closing" ELSE "unsent"
    BY <1>24 DEF SpawnResume
  <2>2. pane' \in Panes
    BY <2>1, SubmitType DEF Boxes
  <2>3. obs' \in Observations
    BY <1>24, InitialTypes, ObsType DEF SpawnResume, Observations
  <2>4. pc' \in Phases
    BY <2>1 DEF Phases
  <2> QED
    BY <1>24, <2>2, <2>3, <2>4 DEF SpawnResume, TypeOK
<1>25. CASE ConsumeReady
  BY <1>25, <1>2 DEF ConsumeReady, TypeOK, Phases
<1>26. CASE CloseRestarted
  <2>1. /\ entry' \in Entries /\ Finish /\ holding' = FALSE /\ heard' = {}
        /\ enters' \in 0..(SubmitMaxEnters + 1)
    BY <1>26, <1>2, Bounds DEF CloseRestarted
  <2> QED
    BY <1>26, <2>1, FinishType DEF CloseRestarted, TypeOK
<1>27. CASE CloseRound
  BY <1>27 DEF CloseRound, TypeOK, Phases
<1>27a. CASE EraseRound
  <2>1. entry' \in Entries /\ holding' = FALSE /\ heard' = {}
    BY <1>27a, <1>2 DEF EraseRound
  <2>2. pc' \in Phases /\ obs' \in Observations /\ due' \subseteq Bands
    BY <1>27a, FinishType DEF EraseRound, TypeOK, Phases
  <2> QED
    BY <1>27a, <2>1, <2>2 DEF EraseRound, TypeOK
<1>28. CASE Notice
  <2>1. PICK out \in Outcomes :
          Submit(out, "draft") /\ pc' = IF out = "taken" THEN "noticed" ELSE "owed"
    BY <1>28 DEF Notice
  <2>2. pane' \in Panes
    BY <2>1, SubmitType DEF Boxes
  <2>3. pc' \in Phases
    BY <2>1 DEF Phases
  <2> QED
    BY <1>28, <2>2, <2>3 DEF Notice, TypeOK
<1>29. CASE MarkNoticed
  <2>1. entry' \in Entries
    BY <1>29, <1>1 DEF MarkNoticed, Entries
  <2>2. pc' \in Phases /\ obs' \in Observations /\ due' \subseteq Bands
    BY <1>29, FinishType DEF MarkNoticed, TypeOK, Phases
  <2> QED
    BY <1>29, <2>1, <2>2 DEF MarkNoticed, TypeOK
<1>30. CASE NoNotice
  BY <1>30 DEF NoNotice, TypeOK, Phases
<1>31. CASE Authorize
  <2>1. obs' \in Observations
    BY <1>31, ObsType, SeesType DEF Authorize, Fresh
  <2> QED
    BY <1>31, <2>1 DEF Authorize, TypeOK, Phases
<1>32. CASE Nudge
  <2>1. PICK out \in Outcomes :
          /\ Submit(out, "draft")
          /\ IF out = "taken" THEN pc' = "nudged" /\ UNCHANGED <<obs, due>> ELSE Finish
    BY <1>32 DEF Nudge
  <2>2. pane' \in Panes
    BY <2>1, SubmitType DEF Boxes
  <2>3. pc' \in Phases /\ obs' \in Observations /\ due' \subseteq Bands
    BY <2>1, FinishType DEF TypeOK, Phases
  <2> QED
    BY <1>32, <2>2, <2>3 DEF Nudge, TypeOK
<1>33. CASE OpenRound
  <2>1. /\ FALSE \in BOOLEAN /\ Threshold \in Bands /\ Due \subseteq Bands
    BY Bounds DEF Bands, Due
  <2>2. entry' \in Entries
    BY <1>33, <1>1, <1>2, ObsType DEF OpenRound, Entries
  <2>3. due' \subseteq Bands /\ heard' \subseteq (Bands \X Clock \X BOOLEAN) /\ pc' \in Phases
    BY <1>33, <2>1 DEF OpenRound, Phases
  <2> QED
    BY <1>33, <2>2, <2>3 DEF OpenRound, TypeOK
<1>34. CASE Rewarn
  <2>1. due' \subseteq Bands
    BY <1>34 DEF Rewarn, Due
  <2> QED
    BY <1>34, <2>1 DEF Rewarn, TypeOK, Phases
<1>35. CASE Deliver
  <2>1. PICK out \in Outcomes :
          /\ Submit(out, "draft")
          /\ heard' = IF out = "lost" THEN heard ELSE Hear(out = "taken")
          /\ \/ pc' \in {"mark", "rollback"} /\ UNCHANGED <<obs, due>>
             \/ Finish
    BY <1>35 DEF Deliver
  <2>2. pane' \in Panes
    BY <2>1, SubmitType DEF Boxes
  <2>3. pc' \in Phases /\ obs' \in Observations /\ due' \subseteq Bands
    BY <2>1, FinishType DEF TypeOK, Phases
  <2>4. (out = "taken") \in BOOLEAN /\ obs.gen.latch \in Clock /\ due \subseteq Bands
    BY ObsType DEF TypeOK
  <2>5. Hear(out = "taken") \subseteq (Bands \X Clock \X BOOLEAN)
    BY <2>4 DEF TypeOK, Hear
  <2>6. heard' \subseteq (Bands \X Clock \X BOOLEAN)
    BY <2>1, <2>5 DEF TypeOK
  <2> QED
    BY <1>35, <2>2, <2>3, <2>6 DEF Deliver, TypeOK
<1>36. CASE MarkDelivered
  <2>1. obs.gen.latch \in Clock /\ due \subseteq Bands
    BY ObsType DEF TypeOK
  <2>2. entry' \in Entries /\ Finish
    BY <1>36, <1>1, <2>1 DEF MarkDelivered, Entries
  <2> QED
    BY <1>36, <2>2, FinishType DEF MarkDelivered, TypeOK
<1>37. CASE Unopen
  <2>1. entry' \in Entries /\ heard' = {} /\ Finish
    BY <1>37, <1>2 DEF Unopen
  <2> QED
    BY <1>37, <2>1, FinishType DEF Unopen, TypeOK
<1> QED
  BY <1>3, <1>4, <1>5, <1>6, <1>7, <1>8, <1>9, <1>10, <1>11, <1>12, <1>13, <1>14, <1>15,
     <1>16, <1>17, <1>18, <1>19, <1>20, <1>21, <1>22, <1>23, <1>24, <1>25, <1>26, <1>27,
     <1>28, <1>29, <1>30, <1>31, <1>32, <1>33, <1>34, <1>35, <1>36, <1>37, <1>3a, <1>3b,
     <1>7a, <1>27a DEF Daemon

\* No session, operator or crash leaves an Enter uncounted beyond the budget.
LEMMA BudgetEnvironment ==
    ASSUME EnterInBudget, Environment
    PROVE  EnterInBudget'
  BY DEF EnterInBudget, Environment, World, daemon, StartTurn, EndTurn, ConsumeContext,
     Compact, Declare, Withdraw, BoxFills, BoxSent, Replace, SlowBootEnds,
     StatuslineChanges, Advance, Crash, Finish

\* The retry presses Enter only while budget remains.
LEMMA BudgetDaemon ==
    ASSUME TypeOK, Daemon
    PROVE  EnterInBudget'
<1>1. CASE RetryEnter
  <2>1. PendingEntry.tries \in Nat /\ ~(PendingEntry.tries >= SubmitMaxEnters)
    BY <1>1, PendingEntryType, Bounds DEF RetryEnter, BudgetSpent, Entries
  <2>2. entry'.tries < SubmitMaxEnters
    BY <1>1, <2>1, Bounds DEF RetryEnter
  <2> QED
    BY <2>2 DEF EnterInBudget
<1>2. CASE ~RetryEnter
  <2>1. pc' \notin {"entered", "dropped"}
    BY <1>2 DEF Daemon, Finish, Identify, Unmanaged, Tick, RetryHeld, RetryResolved, RetryExhausted, CountEnter,
       Retire, ExpireFloor, ExpireNote, JudgeOn, Wait, Busy, BlockedHuman, Uncertifiable,
       RestartRefused, Respawn, SpawnUnproven, SpawnGated, SpawnResume, Unsent,
       ConsumeReady, CloseRestarted, CloseRound, EraseRound, Notice, MarkNoticed, NoNotice,
       Authorize, Decline, Nudge, MarkNudged, NothingDue, OpenRound, Rewarn, Deliver,
       MarkDelivered, Unopen
  <2> QED
    BY <2>1 DEF EnterInBudget
<1> QED
  BY <1>1, <1>2

\* Spec => []TypeOK: every state of the supervision is well typed.
THEOREM TypeCorrect == Spec => []TypeOK
<1>1. TypeOK /\ EnterInBudget /\ UNCHANGED vars => TypeOK' /\ EnterInBudget'
  BY DEF TypeOK, EnterInBudget, vars
<1>2. TypeOK /\ EnterInBudget /\ [Next]_vars => TypeOK' /\ EnterInBudget'
  BY <1>1, TypeEnvironment, TypeDaemon, BudgetEnvironment, BudgetDaemon DEF Next
<1>3. Init => EnterInBudget
  BY DEF Init, EnterInBudget
<1> QED
  BY TypeInit, <1>2, <1>3, PTL DEF Spec

-----------------------------------------------------------------------------
(* The interlock                                                           *)

\* What the types give of the numbers the interlock compares.
LEMMA Ordered ==
    ASSUME TypeOK
    PROVE  /\ pane.live \in Nat /\ pane.live >= 1 /\ clock \in Nat
           /\ file.by \in Nat /\ file.at \in Nat
           /\ entry.at \in Nat /\ entry.ident \in Int /\ entry.ident >= NoId
           /\ obs.real \in Int /\ obs.real >= NoId /\ obs.decl.by \in Nat
           /\ \A k \in kills : k.by \in Nat
  BY Bounds DEF TypeOK, Panes, Sessions, Files, Clock, Entries, Identities, NoId, Observations

\* Nothing is observed at rest.
LEMMA NothingObserved ==
    ~NoObs.ready /\ ~NoObs.rounded /\ NoObs.real = NoId /\ NoObs.decl.by = 0
  BY DEF NoObs, NoFile

\* A tick that has resolved an identity and read nothing else has observed nothing.
LEMMA OnlyResolved ==
    ASSUME NEW id, obs' = [NoObs EXCEPT !.real = id]
    PROVE  ~obs'.ready /\ ~obs'.rounded /\ obs'.real = id /\ obs'.decl.by = 0
  BY DEF NoObs, NoFile

\* The initial state satisfies the interlock.
LEMMA InterlockInit == Init => RoundInterlock
  BY Bounds DEF Init, RoundInterlock, NothingAhead, RoundHasOwner, FloorSeparates,
     SpentBefore, NotInherited, ActsUnencumbered, OneKillPerDeclaration, NoFile, NoEntry, NoObs,
     NoId, Fallback

\* A step that kills nobody, opens no round and observes nothing new keeps the
\* interlock: it may close the round, replace the declaration by a diagnostic or
\* forget what it observed.
LEMMA QuietStep ==
    ASSUME TypeOK, TypeOK', RoundInterlock,
           clock' = clock, kills' = kills, pane'.live = pane.live,
           \/ file' = file
           \/ file'.tok # "ready" /\ file'.by = 0 /\ file'.at <= clock,
           \/ entry'.at = entry.at /\ entry'.ident = entry.ident
           \/ entry'.at = 0 /\ entry'.ident <= pane.live,
           \/ obs' = obs
           \/ ~obs'.ready /\ obs'.real \in {NoId, pane.live} /\ obs'.decl.by = 0,
           pc' # "inject",
           pc' \in {"expiring", "act"} => ~entry'.pending
    PROVE  RoundInterlock'
<1>1. NothingAhead'
  BY Ordered DEF RoundInterlock, NothingAhead, NoId, Fallback
<1>2. RoundHasOwner'
  BY DEF RoundInterlock, RoundHasOwner
<1>3. FloorSeparates'
  BY DEF RoundInterlock, FloorSeparates
<1>4. NotInherited' /\ SpentBefore'
  BY Ordered DEF RoundInterlock, NotInherited, SpentBefore, NothingAhead, NoId
<1>5. ActsUnencumbered' /\ OneKillPerDeclaration'
  BY DEF RoundInterlock, ActsUnencumbered, OneKillPerDeclaration
<1> QED
  BY <1>1, <1>2, <1>3, <1>4, <1>5 DEF RoundInterlock

\* A new session makes every standing mark an older one's.
LEMMA NewSessionStep ==
    ASSUME TypeOK, NothingAhead, FloorSeparates,
           pane'.live = pane.live + 1, UNCHANGED <<clock, file, entry>>
    PROVE  FloorSeparates' /\ file'.by < pane'.live /\ entry'.ident < pane'.live
  BY Ordered DEF NothingAhead, FloorSeparates

\* Sessions, operators, the terminal, the clock and a crash keep the interlock.
LEMMA InterlockEnvironment ==
    ASSUME TypeOK, TypeOK', RoundInterlock, Environment
    PROVE  RoundInterlock'
<1> USE DEF World, daemon, ghosts
<1>1. pane \in Panes
  BY DEF TypeOK
<1>2. ASSUME pane'.live = pane.live, UNCHANGED <<clock, file>>, World PROVE RoundInterlock'
  BY <1>2 DEF RoundInterlock, NothingAhead, RoundHasOwner, FloorSeparates, SpentBefore,
     NotInherited, ActsUnencumbered, OneKillPerDeclaration
<1>3. CASE StartTurn \/ EndTurn \/ ConsumeContext \/ Compact \/ BoxSent \/ SlowBootEnds
           \/ StatuslineChanges \/ \E box \in {"gate", "draft"} : BoxFills(box)
  <2>1. pane'.live = pane.live /\ UNCHANGED <<clock, file>> /\ World
    BY <1>1, <1>3 DEF StartTurn, EndTurn, ConsumeContext, Compact, BoxSent, SlowBootEnds,
       StatuslineChanges, BoxFills, Panes
  <2> QED
    BY <1>2, <2>1
<1>4. ASSUME NEW tok \in Tokens, Declare(tok) PROVE RoundInterlock'
  <2>1. file'.by = pane.live /\ file'.at = clock /\ UNCHANGED <<clock, pane>> /\ World
    BY <1>4 DEF Declare, env
  <2> QED
    BY <2>1, Ordered DEF RoundInterlock, NothingAhead, RoundHasOwner, FloorSeparates,
       SpentBefore, NotInherited, ActsUnencumbered, OneKillPerDeclaration
<1>5. CASE Withdraw
  <2>1. file'.tok = "none" /\ file'.by = 0 /\ file'.at = 0 /\ UNCHANGED <<clock, pane>> /\ World
    BY <1>5 DEF Withdraw, env, NoFile
  <2> QED
    BY <2>1, Ordered DEF RoundInterlock, NothingAhead, RoundHasOwner, FloorSeparates,
       SpentBefore, NotInherited, ActsUnencumbered, OneKillPerDeclaration
<1>6. CASE Replace
  <2>1. pane'.live = pane.live + 1 /\ UNCHANGED <<clock, file>> /\ World
    BY <1>6, NewSessionType DEF Replace, Boxes
  <2>2. NothingAhead'
    BY <2>1, NewSessionStep, Ordered DEF RoundInterlock, NothingAhead
  <2>3. FloorSeparates'
    BY <2>1, NewSessionStep DEF RoundInterlock
  <2>4. SpentBefore'
    BY <2>1, Ordered DEF RoundInterlock, SpentBefore
  <2> QED
    BY <2>1, <2>2, <2>3, <2>4 DEF RoundInterlock, RoundHasOwner, NotInherited,
       ActsUnencumbered, OneKillPerDeclaration
<1>7. CASE Advance
  <2>1. clock' = clock + 1 /\ UNCHANGED <<pane, file>> /\ World
    BY <1>7 DEF Advance
  <2> QED
    BY <2>1, Ordered DEF RoundInterlock, NothingAhead, RoundHasOwner, FloorSeparates,
       SpentBefore, NotInherited, ActsUnencumbered, OneKillPerDeclaration
<1>8. CASE Crash
  <2>1. /\ UNCHANGED <<clock, pane, file, entry, kills>> /\ pc' = "rest" /\ obs' = NoObs
    BY <1>8 DEF Crash, Finish, env, round
  <2> QED
    BY <2>1, QuietStep, NothingObserved
<1> QED
  BY <1>3, <1>4, <1>5, <1>6, <1>7, <1>8 DEF Environment

\* A ready that a round certifies in the name of an identity is not of a session
\* before it.
LEMMA CertifiedIsNotInherited ==
    ASSUME TypeOK, RoundInterlock, NEW real \in Identities,
           RoundReady(Identity(real)) \/ FreshReady(Identity(real)), entry.at # 0
    PROVE  real # NoId /\ real <= file.by
<1>1. RoundReady(Identity(real))
  BY DEF FreshReady
<1>2. real # NoId
  BY <1>1 DEF RoundInterlock, RoundHasOwner, RoundReady, Identity
<1>3. entry.ident = real
  BY <1>1, <1>2 DEF RoundReady, Identity
<1>4. file.tok = "ready" /\ file.at > Floor(entry) /\ Floor(entry) >= entry.at
  BY <1>1, FloorType DEF RoundReady, YoungReady, TypeOK
<1>5. ~(file.at <= entry.at)
  BY <1>4, Ordered, FloorType DEF TypeOK
<1>6. ~(file.by < real)
  BY <1>3, <1>4, <1>5 DEF RoundInterlock, FloorSeparates
<1> QED
  BY <1>2, <1>3, <1>6, Ordered

\* Every step of the daemon keeps the interlock.
LEMMA InterlockDaemon ==
    ASSUME TypeOK, TypeOK', RoundInterlock, Daemon
    PROVE  RoundInterlock'
<1> USE DEF DaemonOnly, ghosts, round
<1>1. /\ Note.tok # "ready" /\ Note.by = 0 /\ Note.at = clock
      /\ NoFile.tok # "ready" /\ NoFile.by = 0 /\ NoFile.at = 0
      /\ ClearNudge \in {file, Note}
  BY DEF Note, NoFile, ClearNudge
<1>2. NoEntry.at = 0 /\ NoEntry.ident = NoId /\ NoId <= pane.live
  BY Ordered DEF NoEntry, NoId
<1>3. ASSUME Finish
      PROVE  /\ pc' = "rest" /\ obs' = NoObs /\ ~obs'.ready /\ obs'.real = NoId
             /\ obs'.decl.by = 0
  BY <1>3, NothingObserved DEF Finish
<1>4. clock \in Nat /\ entry \in Entries
  BY Ordered DEF TypeOK
<1>5. /\ PendingEntry.at = entry.at /\ PendingEntry.ident = entry.ident
      /\ \A id \in Identities : PendResume(entry, id).at = entry.at
                               /\ PendResume(entry, id).ident = entry.ident
  BY <1>4, PendingEntryType, PendResumeType
<1>6. CASE Tick
  <2>1. obs' = Sees(obs.real, store.gen)
    BY <1>6 DEF Tick
  <2>2. pc' = "judge" /\ UNCHANGED <<clock, pane, file, entry, kills>>
    BY <1>6 DEF Tick
  <2>3. /\ obs'.real = obs.real /\ obs'.decl = file /\ obs'.rounded = (entry.at # 0)
        /\ obs'.ready = (RoundReady(Identity(obs.real)) \/ FreshReady(Identity(obs.real)))
    BY <2>1 DEF Sees
  <2>4. NotInherited'
    BY <2>2, <2>3, ObsType, CertifiedIsNotInherited DEF NotInherited
  <2>5. NothingAhead' /\ SpentBefore'
    BY <2>2, <2>3, Ordered DEF RoundInterlock, NothingAhead, SpentBefore
  <2> QED
    BY <2>2, <2>4, <2>5 DEF RoundInterlock, RoundHasOwner, FloorSeparates,
       ActsUnencumbered, OneKillPerDeclaration
<1>6a. CASE Identify
  <2>1. PICK id \in {NoId, pane.live} : obs' = [NoObs EXCEPT !.real = id]
    BY <1>6a DEF Identify
  <2>2. ~obs'.ready /\ obs'.real \in {NoId, pane.live} /\ obs'.decl.by = 0
    BY <2>1, OnlyResolved
  <2>3. pc' = "identified" /\ UNCHANGED <<clock, pane, file, entry, kills>>
    BY <1>6a DEF Identify
  <2> QED
    BY <2>2, <2>3, QuietStep
<1>7. CASE Respawn
  <2>1. /\ Certified /\ pane.live < MaxSession /\ obs' = NoObs /\ pc' = "spawned"
        /\ UNCHANGED <<clock, file, entry>>
    BY <1>7 DEF Respawn
  <2>2. pane'.live = pane.live + 1
    BY <1>7, <2>1, NewSessionType DEF Respawn, Boxes
  <2> DEFINE kill == [by |-> obs.decl.by, at |-> obs.decl.at, victim |-> pane.live,
                      rounded |-> obs.rounded]
  <2>3. kills' = kills \cup {kill} /\ kill.by = obs.decl.by /\ kill.rounded = obs.rounded
    BY <1>7 DEF Respawn
  <2> HIDE DEF kill
  <2>4. obs.ready
    BY <2>1 DEF Certified
  <2>5. kill.by <= pane.live
    BY <2>3 DEF RoundInterlock, NothingAhead
  <2>6. ASSUME kill.rounded, NEW k \in kills, k.rounded PROVE k.by < kill.by
    <3>1. obs.real # NoId /\ obs.real <= kill.by
      BY <2>3, <2>4, <2>6 DEF RoundInterlock, NotInherited
    <3>2. k.by < obs.real
      BY <2>6, <3>1 DEF RoundInterlock, SpentBefore
    <3> QED
      BY <2>3, <3>1, <3>2, Ordered
  <2>7. FloorSeparates' /\ file'.by < pane'.live /\ entry'.ident < pane'.live
    BY <2>1, <2>2, NewSessionStep DEF RoundInterlock
  <2>8. SpentBefore'
    <3>1. \A k \in kills' : k.rounded => k.by < pane.live + 1
      BY <2>3, <2>5, Ordered DEF RoundInterlock, SpentBefore
    <3> QED
      BY <2>1, <2>2, <3>1, NothingObserved DEF SpentBefore
  <2>9. OneKillPerDeclaration'
    BY <2>3, <2>6, Ordered DEF RoundInterlock, OneKillPerDeclaration
  <2>10. NothingAhead'
    BY <2>1, <2>2, <2>7, Ordered, NothingObserved
       DEF RoundInterlock, NothingAhead, NoId, Fallback
  <2> QED
    BY <2>1, <2>7, <2>8, <2>9, <2>10, NothingObserved
       DEF RoundInterlock, RoundHasOwner, NotInherited, ActsUnencumbered
<1>8. CASE Authorize
  <2>1. /\ MayInject /\ obs' = Sees(obs.real, obs.held) /\ pc' = "inject"
        /\ UNCHANGED <<clock, pane, file, entry, kills>>
    BY <1>8 DEF Authorize, Fresh
  <2>2. /\ obs'.real = obs.real /\ obs'.decl = file
        /\ obs'.ready = (RoundReady(Identity(obs.real)) \/ FreshReady(Identity(obs.real)))
    BY <2>1 DEF Sees
  <2>3. obs.real # NoId /\ file.tok # "ready"
    BY <2>1 DEF MayInject, GuardedPaste, Fresh, Sees
  <2>4. ~obs'.ready
    BY <2>2, <2>3 DEF RoundReady, FreshReady, YoungReady
  <2> QED
    BY <2>1, <2>2, <2>3, <2>4 DEF RoundInterlock, NothingAhead, RoundHasOwner,
       FloorSeparates, SpentBefore, NotInherited, ActsUnencumbered, OneKillPerDeclaration
<1>9. CASE OpenRound
  <2>1. /\ pc = "inject" /\ pc' = "opened" /\ entry'.at = clock
        /\ entry'.ident = Identity(obs.real) /\ UNCHANGED <<clock, pane, file, obs, kills>>
    BY <1>9 DEF OpenRound, NoEntry
  <2>2. obs.real # NoId /\ entry'.ident = obs.real
    BY <2>1 DEF RoundInterlock, RoundHasOwner, Identity
  <2>3. NothingAhead' /\ RoundHasOwner' /\ FloorSeparates'
    BY <2>1, <2>2, Ordered DEF RoundInterlock, NothingAhead, RoundHasOwner, FloorSeparates
  <2> QED
    BY <2>1, <2>3 DEF RoundInterlock, SpentBefore, NotInherited, ActsUnencumbered,
       OneKillPerDeclaration
<1>10. CASE RetryHeld \/ RetryExhausted \/ RetryResolved
  <2>1. /\ entry' = PendingEntry /\ pc' \in {"rest", "closing"} /\ obs' \in {obs, NoObs}
        /\ UNCHANGED <<clock, pane, file, kills>>
    BY <1>10, <1>3 DEF RetryHeld, RetryExhausted, RetryResolved
  <2> QED
    BY <1>5, <2>1, QuietStep, NothingObserved
<1>11. CASE RetryEnter
  <2>1. entry'.at = entry.at /\ entry'.ident = entry.ident
    BY <1>11, <1>5, PendingEntryType DEF RetryEnter, Entries
  <2>2. pane'.live = pane.live
    BY <1>11 DEF RetryEnter, TypeOK, Panes
  <2>3. pc' \in {"entered", "dropped"} /\ UNCHANGED <<clock, file, obs, kills>>
    BY <1>11 DEF RetryEnter
  <2> QED
    BY <2>1, <2>2, <2>3, QuietStep, NothingObserved
<1>11a. CASE CountEnter
  <2>1. entry'.at = entry.at /\ entry'.ident = entry.ident
    BY <1>4, <1>11a DEF CountEnter, Entries
  <2>2. /\ pc' \in {"closing", "rest"} /\ obs' \in {obs, NoObs}
        /\ UNCHANGED <<clock, pane, file, kills>>
    BY <1>3, <1>11a DEF CountEnter
  <2> QED
    BY <2>1, <2>2, QuietStep, NothingObserved
<1>12. CASE Retire \/ JudgeOn
  <2>1. /\ ~entry'.pending /\ pc' = "act" /\ file' \in {file, NoFile}
        /\ UNCHANGED <<clock, pane, entry, obs, kills>>
    BY <1>12 DEF Retire, JudgeOn, RetryLeg
  <2> QED
    BY <1>1, <1>4, <2>1, QuietStep
<1>13. CASE ExpireFloor
  <2>1. entry'.at = entry.at /\ entry'.ident = entry.ident /\ ~entry'.pending
    BY <1>13, <1>4 DEF ExpireFloor, RetryLeg, Entries
  <2>2. pc' = "expiring" /\ UNCHANGED <<clock, pane, file, obs, kills>>
    BY <1>13 DEF ExpireFloor
  <2> QED
    BY <2>1, <2>2, QuietStep
<1>14. CASE ExpireNote
  <2>1. /\ pc = "expiring" /\ pc' = "act" /\ file' = Note
        /\ UNCHANGED <<clock, pane, entry, obs, kills>>
    BY <1>14 DEF ExpireNote
  <2>2. ~entry'.pending
    BY <2>1 DEF RoundInterlock, ActsUnencumbered
  <2> QED
    BY <1>1, <1>4, <2>1, <2>2, QuietStep
<1>15. CASE Unmanaged \/ Wait \/ Busy \/ BlockedHuman \/ Uncertifiable \/ RestartRefused
            \/ Decline \/ NothingDue
  <2>1. Finish /\ file' \in {file, Note} /\ UNCHANGED <<clock, pane, entry, kills>>
    BY <1>15, <1>1 DEF Unmanaged, Wait, Busy, BlockedHuman, Uncertifiable, RestartRefused,
       Decline, NothingDue
  <2> QED
    BY <1>1, <1>3, <1>4, <2>1, QuietStep
<1>16. CASE SpawnUnproven \/ SpawnGated \/ Unsent
  <2>1. NoId \in Identities /\ pane.live \in Identities /\ obs.real \in Identities
    BY ObsType, Bounds DEF NoId, Identities
  <2>2. Finish /\ UNCHANGED <<clock, pane, file, kills>>
    BY <1>16 DEF SpawnUnproven, SpawnGated, Unsent
  <2>3. entry'.at = entry.at /\ entry'.ident = entry.ident
    BY <1>16, <1>5, <2>1 DEF SpawnUnproven, SpawnGated, Unsent
  <2> QED
    BY <1>3, <2>2, <2>3, QuietStep
<1>17. CASE SpawnResume
  <2>1. PICK out \in Outcomes : Submit(out, "resume")
    BY <1>17 DEF SpawnResume
  <2>2. pane'.live = pane.live
    BY <2>1, SubmitType DEF Boxes
  <2>3. obs' = [NoObs EXCEPT !.real = pane.live]
    BY <1>17 DEF SpawnResume
  <2>4. ~obs'.ready /\ obs'.real = pane.live /\ obs'.decl.by = 0
    BY <2>3, OnlyResolved
  <2>5. pc' \in {"closing", "unsent"} /\ UNCHANGED <<clock, file, entry, kills>>
    BY <1>17 DEF SpawnResume
  <2> QED
    BY <2>2, <2>4, <2>5, QuietStep
<1>18. CASE ConsumeReady
  <2>1. file' = Note /\ pc' = "closed" /\ UNCHANGED <<clock, pane, entry, obs, kills>>
    BY <1>18 DEF ConsumeReady
  <2> QED
    BY <1>1, <1>4, <2>1, QuietStep
<1>19. CASE CloseRestarted \/ Unopen
  <2>1. Finish /\ entry' = NoEntry /\ UNCHANGED <<clock, pane, file, kills>>
    BY <1>19 DEF CloseRestarted, Unopen
  <2> QED
    BY <1>2, <1>3, <2>1, QuietStep
<1>20. CASE EraseRound
  <2>1. /\ entry' = NoEntry /\ pc' \in {"owed", "rest"} /\ obs' \in {obs, NoObs}
        /\ UNCHANGED <<clock, pane, file, kills>>
    BY <1>20, <1>3 DEF EraseRound
  <2> QED
    BY <1>2, <2>1, QuietStep, NothingObserved
<1>21. CASE Notice \/ Nudge \/ Deliver
  <2>1. PICK out \in Outcomes : Submit(out, "draft")
    BY <1>21 DEF Notice, Nudge, Deliver
  <2>2. pane'.live = pane.live
    BY <2>1, SubmitType DEF Boxes
  <2>3. /\ pc' \in {"noticed", "owed", "nudged", "rest", "mark", "rollback"}
        /\ obs' \in {obs, NoObs} /\ UNCHANGED <<clock, file, entry, kills>>
    BY <1>21, <1>3 DEF Notice, Nudge, Deliver
  <2> QED
    BY <2>2, <2>3, QuietStep, NothingObserved
<1>22. CASE MarkNoticed \/ MarkDelivered
  <2>1. entry'.at = entry.at /\ entry'.ident = entry.ident
    BY <1>22, <1>4 DEF MarkNoticed, MarkDelivered, Entries
  <2>2. /\ pc' \in {"owed", "rest"} /\ obs' \in {obs, NoObs}
        /\ UNCHANGED <<clock, pane, file, kills>>
    BY <1>22, <1>3 DEF MarkNoticed, MarkDelivered
  <2> QED
    BY <2>1, <2>2, QuietStep, NothingObserved
<1>23. CASE CloseRound \/ NoNotice \/ Rewarn
  <2>1. /\ pc' \in {"erasing", "owed", "rewarn"}
        /\ UNCHANGED <<clock, pane, file, entry, obs, kills>>
    BY <1>23 DEF CloseRound, NoNotice, Rewarn
  <2> QED
    BY <2>1, QuietStep
<1>24. CASE MarkNudged
  <2>1. /\ Finish /\ file'.tok = "nudged" /\ file'.by = 0 /\ file'.at = clock
        /\ UNCHANGED <<clock, pane, entry, kills>>
    BY <1>24 DEF MarkNudged
  <2> QED
    BY <1>3, <1>4, <2>1, QuietStep
<1> QED
  BY <1>6, <1>7, <1>8, <1>9, <1>10, <1>11, <1>12, <1>13, <1>14, <1>15, <1>16, <1>17,
     <1>18, <1>19, <1>20, <1>21, <1>22, <1>23, <1>24, <1>6a,
     <1>11a DEF Daemon

\* Spec => []RoundInterlock: the inductive invariant, for every instance.
THEOREM InterlockHolds == Spec => []RoundInterlock
<1>1. TypeOK /\ TypeOK' /\ RoundInterlock /\ [Next]_vars => RoundInterlock'
  <2>1. TypeOK /\ RoundInterlock /\ UNCHANGED vars => RoundInterlock'
    BY DEF vars, RoundInterlock, NothingAhead, RoundHasOwner, FloorSeparates,
       SpentBefore, NotInherited, ActsUnencumbered, OneKillPerDeclaration
  <2> QED
    BY <2>1, InterlockEnvironment, InterlockDaemon DEF Next
<1> QED
  BY InterlockInit, TypeCorrect, <1>1, PTL DEF Spec

\* One session's declarations authorize at most one respawn through a round.
THEOREM OneKill == Spec => []OneKillPerDeclaration
<1>1. RoundInterlock => OneKillPerDeclaration
  BY DEF RoundInterlock
<1> QED
  BY InterlockHolds, <1>1, PTL

\* No respawn while an earlier one still owes its resume line.
THEOREM NoKillWhilePending == Spec => NoKillWhileResumePending
<1>1. RoundInterlock /\ [Next]_vars => [kills' # kills => ~entry.pending]_vars
  <2> SUFFICES ASSUME RoundInterlock, Next, kills' # kills PROVE ~entry.pending
    BY DEF vars
  <2>1. ~Environment
    BY DEF Environment, World, ghosts, StartTurn, EndTurn, ConsumeContext, Compact, Declare,
       Withdraw, BoxFills, BoxSent, Replace, SlowBootEnds, StatuslineChanges, Advance, Crash
  <2>2. Respawn
    BY <2>1 DEF Next, Daemon, ghosts, Identify, Unmanaged, Tick, RetryHeld, RetryResolved, RetryExhausted,
       RetryEnter, CountEnter, Retire, ExpireFloor, ExpireNote, JudgeOn, Wait, Busy,
       BlockedHuman, Uncertifiable, RestartRefused, SpawnUnproven, SpawnGated, SpawnResume, Unsent,
       ConsumeReady, CloseRestarted, CloseRound, EraseRound, Notice, MarkNoticed, NoNotice,
       Authorize, Decline, Nudge, MarkNudged, NothingDue, OpenRound, Rewarn, Deliver,
       MarkDelivered, Unopen
  <2> QED
    BY <2>2 DEF Respawn, Certified, RoundInterlock, ActsUnencumbered
<1> QED
  BY InterlockHolds, <1>1, PTL DEF Spec, NoKillWhileResumePending

=============================================================================
