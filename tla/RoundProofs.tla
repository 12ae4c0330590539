----------------------------- MODULE RoundProofs -----------------------------
(***************************************************************************)
(* What holds of the round and of the compaction record, for every         *)
(* instance: how a round may change while it stands, that a session heard  *)
(* of it, and that a compaction is not forgotten.                          *)
(***************************************************************************)
EXTENDS SupervisionRoundProofs

\* A step that leaves the round as it stands, or only adds to what it records.
Grows ==
    /\ entry'.at = entry.at /\ Floor(entry') >= Floor(entry)
    /\ entry.bands \subseteq entry'.bands

\* An unchanged opening, expiry and set of bands is growth.
LEMMA SameGrows ==
    ASSUME TypeOK, entry'.at = entry.at, entry'.exp = entry.exp,
           entry.bands \subseteq entry'.bands
    PROVE  Grows
  BY FloorType DEF TypeOK, Grows, Floor

\* The sessions, the operators and a crash touch neither sidecar, mapping row nor ghosts.
LEMMA EnvironmentApart ==
    ASSUME Environment
    PROVE  /\ UNCHANGED <<entry, store, heard>>
           /\ \/ UNCHANGED <<pc, obs, due>>
              \/ Crash /\ pc' = "rest" /\ obs' = NoObs /\ due' = {}
  BY DEF Environment, World, daemon, ghosts, round, StartTurn, EndTurn, ConsumeContext,
     Compact, Declare, Withdraw, BoxFills, BoxSent, Replace, SlowBootEnds,
     StatuslineChanges, Advance, Crash, Finish

\* A round ends with its whole entry.
LEMMA RoundEnds ==
    ASSUME CloseRestarted \/ EraseRound \/ Unopen
    PROVE  entry'.at = 0 /\ entry' = NoEntry
<1>1. entry' = NoEntry
  BY DEF CloseRestarted, EraseRound, Unopen
<1> QED
  BY <1>1 DEF NoEntry

-----------------------------------------------------------------------------
(* A standing round                                                         *)

\* Every step of the daemon lets a standing round grow, opens one where none
\* stands, or takes it away.
LEMMA RoundStep ==
    ASSUME TypeOK, Daemon
    PROVE  Grows \/ OpenRound \/ CloseRestarted \/ EraseRound \/ Unopen
<1> USE DEF round
<1>1. entry \in Entries /\ entry.bands \subseteq entry.bands
  BY DEF TypeOK
<1>2. CASE entry' = entry
  BY <1>1, <1>2, SameGrows
<1>3. CASE RetryHeld \/ RetryResolved \/ RetryExhausted \/ RetryEnter
  <2>1. entry' = PendingEntry
    BY <1>3 DEF RetryHeld, RetryResolved, RetryExhausted, RetryEnter
  <2> QED
    BY <1>1, <2>1, PendingEntryType, SameGrows
<1>4. CASE CountEnter \/ MarkNoticed \/ MarkDelivered
  <2>1. /\ entry'.at = entry.at /\ entry'.exp = entry.exp
        /\ entry.bands \subseteq entry'.bands
    BY <1>1, <1>4 DEF CountEnter, MarkNoticed, MarkDelivered, Entries
  <2> QED
    BY <2>1, SameGrows
<1>5. CASE ExpireFloor
  <2>1. CASE entry' = entry
    BY <2>1, <1>2
  <2>2. CASE /\ file.at + ReadyArmMaxAge > entry.exp
             /\ entry' = [entry EXCEPT !.exp = file.at + ReadyArmMaxAge]
    <3>1. /\ entry'.at = entry.at /\ entry'.bands = entry.bands
          /\ entry'.exp = file.at + ReadyArmMaxAge
      BY <1>1, <2>2 DEF Entries
    <3>2. entry.exp \in Nat /\ entry.at \in Nat /\ file.at \in Nat
      BY <1>1, Ordered DEF Entries
    <3>3. Floor(entry') >= Floor(entry)
      BY <2>2, <3>1, <3>2, Bounds DEF Floor
    <3> QED
      BY <3>1, <3>3 DEF Grows
  <2> QED
    BY <1>5, <2>1, <2>2 DEF ExpireFloor
<1>6. CASE SpawnUnproven \/ SpawnGated \/ Unsent
  <2>1. NoId \in Identities /\ pane.live \in Identities /\ obs.real \in Identities
    BY ObsType, Bounds DEF NoId, Identities
  <2>2. \E id \in Identities : entry' = PendResume(entry, id)
    BY <1>6, <2>1 DEF SpawnUnproven, SpawnGated, Unsent
  <2> QED
    BY <1>1, <2>2, PendResumeType, SameGrows
<1> QED
  BY <1>2, <1>3, <1>4, <1>5, <1>6 DEF Daemon, Identify, Unmanaged, Tick, Retire, ExpireNote,
     JudgeOn, Wait, Busy, BlockedHuman, Uncertifiable, RestartRefused, Respawn, SpawnResume,
     ConsumeReady, CloseRound, Notice, NoNotice, Authorize, Decline, Nudge, MarkNudged, NothingDue,
     Rewarn, Deliver

\* While a round stands its stamp does not move, its floor does not fall and no
\* notified band is forgotten.
THEOREM RoundGrows == Spec => RoundOnlyGrows
<1>1. ASSUME TypeOK, [Next]_vars
      PROVE  [entry.at # 0 /\ entry'.at # 0 => Grows]_vars
  <2>1. CASE Environment
    BY <1>1, <2>1, EnvironmentApart, SameGrows
  <2>2. CASE Daemon
    BY <1>1, <2>2, RoundStep, RoundEnds DEF OpenRound, OpensNow
  <2> QED
    BY <1>1, <2>1, <2>2 DEF Next
<1> QED
  BY TypeCorrect, <1>1, PTL DEF Spec, RoundOnlyGrows, Grows

-----------------------------------------------------------------------------
(* The compaction record                                                    *)

\* The sessions and the operators put at most one new session into the pane.
LEMMA Occupies ==
    ASSUME TypeOK, Environment
    PROVE  pane'.live \in {pane.live, pane.live + 1}
<1>1. pane \in Panes
  BY DEF TypeOK
<1>2. CASE Replace
  BY <1>2 DEF Replace, NewSession
<1>3. CASE ~Replace
  BY <1>1, <1>3 DEF Panes, Environment, env, StartTurn, EndTurn, ConsumeContext, Compact,
     Declare, Withdraw, BoxFills, BoxSent, SlowBootEnds, StatuslineChanges, Advance, Crash
<1> QED
  BY <1>2, <1>3

\* An observation of nothing but an identity, the occupant's or none.
Resolved == \E id \in {NoId, pane.live} : obs' = [NoObs EXCEPT !.real = id]

\* What the steps of the daemon do to the pane and to what it observed.
LEMMA Sights ==
    ASSUME TypeOK, Daemon
    PROVE  \/ Tick \/ Authorize
           \/ Respawn /\ obs' = NoObs /\ store' = store /\ pane'.live = pane.live + 1
           \/ /\ (obs' \in {obs, NoObs} \/ Resolved) /\ store' = store
              /\ pane'.live = pane.live /\ pane'.ctx = pane.ctx
<1> DEFINE Still == /\ (obs' \in {obs, NoObs} \/ Resolved) /\ store' = store
                    /\ pane'.live = pane.live /\ pane'.ctx = pane.ctx
<1> USE DEF round
<1>1. pane \in Panes
  BY DEF TypeOK
<1>2. ASSUME NEW out, NEW left, Submit(out, left)
      PROVE  pane'.live = pane.live /\ pane'.ctx = pane.ctx
  BY <1>1, <1>2 DEF Submit, Panes
<1>3. CASE RetryHeld \/ RetryResolved \/ RetryExhausted \/ CountEnter
           \/ Retire \/ ExpireFloor \/ ExpireNote \/ JudgeOn
  BY <1>3 DEF RetryHeld, RetryResolved, RetryExhausted, CountEnter, Retire, ExpireFloor,
     ExpireNote, JudgeOn, Finish
<1>4. CASE RetryEnter
  BY <1>1, <1>4 DEF RetryEnter, Panes
<1>5a. CASE Identify
  BY <1>5a DEF Identify, Resolved
<1>5. CASE Unmanaged \/ Wait \/ Busy \/ BlockedHuman \/ Uncertifiable \/ RestartRefused
           \/ SpawnUnproven \/ SpawnGated \/ Unsent \/ ConsumeReady \/ CloseRestarted
  BY <1>5 DEF Unmanaged, Wait, Busy, BlockedHuman, Uncertifiable, RestartRefused, SpawnUnproven,
     SpawnGated, Unsent, ConsumeReady, CloseRestarted, Finish
<1>6. CASE Respawn
  BY <1>1, <1>6 DEF Respawn, NewSession
<1>7. CASE SpawnResume
  BY <1>2, <1>7 DEF SpawnResume, Resolved
<1>8. CASE CloseRound \/ EraseRound \/ MarkNoticed \/ NoNotice \/ Decline \/ MarkNudged \/ NothingDue
           \/ OpenRound \/ Rewarn \/ MarkDelivered \/ Unopen
  BY <1>8 DEF CloseRound, EraseRound, MarkNoticed, NoNotice, Decline, MarkNudged, NothingDue, OpenRound,
     Rewarn, MarkDelivered, Unopen, Finish
<1>9. CASE Notice
  BY <1>2, <1>9 DEF Notice
<1>10. CASE Nudge
  BY <1>2, <1>10 DEF Nudge, Finish
<1>11. CASE Deliver
  BY <1>2, <1>11 DEF Deliver, Finish
<1> QED
  BY <1>3, <1>4, <1>5, <1>6, <1>7, <1>8, <1>9, <1>10, <1>11,
     <1>5a DEF Daemon

\* The compaction record is of a session that was there, and the tick that is on
\* resolved nobody before it.
OwnerSeen ==
    /\ store.gen.owner <= pane.live
    /\ obs.real # NoId => store.gen.owner <= obs.real

\* The steps of the daemon but the observation leave the mapping row alone, and the
\* occupant, and read no identity but the occupant's.
LEMMA StoreStep ==
    ASSUME TypeOK, Daemon, ~Tick
    PROVE  /\ store' = store
           /\ obs'.real \in {NoId, obs.real, pane.live}
           /\ pane'.live \in {pane.live, pane.live + 1}
<1>1. CASE Authorize
  BY <1>1 DEF Authorize, Fresh, Sees, round
<1>2. CASE ~Authorize
  <2>1. /\ store' = store /\ pane'.live \in {pane.live, pane.live + 1}
        /\ obs' \in {obs, NoObs} \/ Resolved
    BY <1>2, Sights
  <2>2. CASE obs' \in {obs, NoObs}
    BY <2>1, <2>2, NothingObserved
  <2>3. CASE Resolved
    <3>1. PICK id \in {NoId, pane.live} : obs' = [NoObs EXCEPT !.real = id]
      BY <2>3 DEF Resolved
    <3> QED
      BY <2>1, <3>1, OnlyResolved
  <2> QED
    BY <2>1, <2>2, <2>3
<1> QED
  BY <1>1, <1>2

\* No session is resolved before the owner of the compaction record.
LEMMA OwnerStep ==
    ASSUME TypeOK, TypeOK', OwnerSeen, RoundInterlock, [Next]_vars
    PROVE  OwnerSeen'
<1>1. /\ pane.live \in Int /\ obs.real \in Int /\ store.gen.owner \in Int
      /\ obs.real <= pane.live /\ pane.live >= 1 /\ NoId \in Int
  BY Ordered, Bounds DEF TypeOK, Generations, Identities, NoId, RoundInterlock, NothingAhead
<1>2. CASE UNCHANGED vars
  BY <1>2 DEF vars, OwnerSeen
<1>3. CASE Environment
  <2>1. store' = store /\ obs' \in {obs, NoObs}
    BY <1>3, EnvironmentApart
  <2>2. pane'.live \in {pane.live, pane.live + 1}
    BY <1>3, Occupies
  <2> QED
    BY <1>1, <2>1, <2>2, NothingObserved DEF OwnerSeen
<1>4. CASE Tick
  <2>1. /\ obs'.real = obs.real /\ pane' = pane
        /\ store'.gen \in {store.gen, Fold(store.gen, obs.real, pane.ctx)}
    BY <1>4 DEF Tick, Sees
  <2>2. \/ Fold(store.gen, obs.real, pane.ctx).owner = store.gen.owner
        \/ Fold(store.gen, obs.real, pane.ctx).owner = obs.real
    BY DEF Fold, TypeOK, Generations
  <2> QED
    BY <1>1, <2>1, <2>2 DEF OwnerSeen
<1>5. CASE Daemon /\ ~Tick
  BY <1>1, <1>5, StoreStep DEF OwnerSeen
<1> QED
  BY <1>2, <1>3, <1>4, <1>5 DEF Next

\* Only an observation writes the compaction record, and only of another owner
\* does it drop a latch.
THEOREM LatchKept == Spec => LatchStands
<1>1. ASSUME TypeOK, OwnerSeen, RoundInterlock, [Next]_vars
      PROVE  [store.gen.latch # 0 /\ store'.gen.latch # store.gen.latch
                => store.gen.owner # pane.live]_vars
  <2>1. CASE store' = store
    BY <2>1
  <2>2. CASE Tick
    <3>1. store'.gen \in {store.gen, Fold(store.gen, obs.real, pane.ctx)}
      BY <2>2 DEF Tick, Sees
    <3>2. store.gen \in Generations
      BY <1>1 DEF TypeOK
    <3>3. ASSUME store.gen.latch # 0, store.gen.owner = pane.live
          PROVE  Fold(store.gen, obs.real, pane.ctx).latch = store.gen.latch
      <4>1. CASE obs.real = NoId
        BY <4>1 DEF Fold
      <4>2. CASE obs.real # NoId
        <5>1. obs.real = store.gen.owner
          BY <1>1, <3>3, <4>2, Ordered DEF OwnerSeen, RoundInterlock, NothingAhead
        <5>2. Fold(store.gen, obs.real, pane.ctx)
                = [store.gen EXCEPT !.low = pane.ctx, !.latch = store.gen.latch]
          BY <3>3, <4>2, <5>1 DEF Fold
        <5> QED
          BY <3>2, <5>2 DEF Generations
      <4> QED
        BY <4>1, <4>2
    <3> QED
      BY <3>1, <3>3
  <2> QED
    BY <1>1, <2>1, <2>2, EnvironmentApart, StoreStep DEF Next, vars
<1>2. Init => OwnerSeen
  BY DEF Init, OwnerSeen, NoGeneration, NoObs, NoId
<1>3. TypeOK /\ TypeOK' /\ OwnerSeen /\ RoundInterlock /\ [Next]_vars => OwnerSeen'
  BY OwnerStep
<1> QED
  BY TypeCorrect, InterlockHolds, <1>1, <1>2, <1>3, PTL DEF Spec, LatchStands

-----------------------------------------------------------------------------
(* What the session heard of its round                                      *)

\* The opening wrap-up of a round was not confirmed before it ended.
OpeningUnheard == pc \in {"opened", "rollback"} => \A h \in heard : ~h[3]

\* Past the judgement of a ready, the tick is on its way to a wrap-up.
WindingDown == pc \in {"noticed", "owed", "erasing", "inject", "opened", "rewarn", "rollback"}

\* No round is closed and nothing pasted on a certified ready, and no empty wrap-up is.
PastesDue ==
    /\ WindingDown => ~obs.ready
    /\ pc \in {"opened", "rewarn"} => due # {}

\* A round past its opening was heard of, and so was the round of a ready that is
\* being acted on.
RoundWasHeard ==
    /\ entry.at # 0 /\ pc \notin {"opened", "rollback"} => heard # {}
    /\ obs.ready /\ obs.rounded => heard # {}

\* A step of the daemon off the path of a wrap-up.
Aside ==
    /\ \/ heard' = heard
       \/ heard' = {} /\ entry'.at = 0 /\ ~obs'.ready
    /\ obs' = obs \/ ~obs'.ready
    /\ pc' \notin {"inject", "opened", "rewarn", "rollback"}
    /\ WindingDown' => ~obs'.ready \/ WindingDown
    /\ entry'.at = 0 \/ (entry'.at = entry.at /\ pc \notin {"opened", "rollback"})

\* Every step of the daemon is one, but for six.
LEMMA StepsAside ==
    ASSUME TypeOK, Daemon
    PROVE  Aside \/ Tick \/ EraseRound \/ Authorize \/ Rewarn \/ OpenRound \/ Deliver
<1> USE DEF ghosts
<1>1. ASSUME Finish PROVE pc' = "rest" /\ ~obs'.ready
  BY <1>1, NothingObserved DEF Finish
<1>2. CASE Unopen \/ CloseRestarted
  <2>1. Finish /\ heard' = {}
    BY <1>2 DEF Unopen, CloseRestarted
  <2> QED
    BY <1>1, <1>2, <2>1, RoundEnds DEF Aside, WindingDown
<1>3. ASSUME ~Unopen, ~CloseRestarted, ~Tick, ~EraseRound, ~Authorize, ~Rewarn, ~OpenRound,
             ~Deliver
      PROVE  Aside
  <2>1. entry'.at = entry.at
    BY <1>3, RoundStep DEF Grows
  <2>2. /\ heard' = heard /\ pc \notin {"opened", "rollback"}
        /\ pc' \notin {"inject", "opened", "rewarn", "rollback"}
        /\ obs' = obs \/ ~obs'.ready
        /\ WindingDown' => ~obs'.ready \/ WindingDown
    <3>1. CASE RetryHeld \/ RetryResolved \/ RetryExhausted \/ RetryEnter \/ CountEnter
               \/ Retire \/ ExpireFloor \/ ExpireNote \/ JudgeOn
      BY <1>1, <3>1 DEF RetryHeld, RetryResolved, RetryExhausted, RetryEnter, CountEnter,
         Retire, ExpireFloor, ExpireNote, JudgeOn, RetryLeg, MayRetry, WindingDown
    <3>2. CASE Unmanaged \/ Wait \/ Busy \/ BlockedHuman \/ Uncertifiable \/ RestartRefused
               \/ SpawnUnproven \/ SpawnGated \/ Unsent \/ ConsumeReady
      BY <1>1, <3>2 DEF Unmanaged, Wait, Busy, BlockedHuman, Uncertifiable, RestartRefused,
         Certified, SpawnUnproven, SpawnGated, Unsent, ConsumeReady, WindingDown
    <3>3. CASE Identify \/ Respawn \/ SpawnResume
      <4>1. (obs' = NoObs \/ \E id : obs' = [NoObs EXCEPT !.real = id]) /\ heard' = heard
        BY <3>3 DEF Identify, Respawn, SpawnResume
      <4>2. /\ pc \in {"rest", "act", "spawned"}
            /\ pc' \in {"identified", "spawned", "closing", "unsent"}
        BY <3>3 DEF Identify, Respawn, SpawnResume, Certified
      <4>3. ~obs'.ready
        BY <4>1, NothingObserved, OnlyResolved
      <4> QED
        BY <4>1, <4>2, <4>3
    <3>4. CASE CloseRound \/ Notice \/ MarkNoticed \/ NoNotice \/ Decline \/ Nudge
               \/ MarkNudged \/ NothingDue \/ MarkDelivered
      BY <1>1, <3>4 DEF CloseRound, Notice, MarkNoticed, NoNotice, Proceed, Decline, Nudge,
         MarkNudged, NothingDue, MarkDelivered, WindingDown
    <3> QED
      BY <1>3, <3>1, <3>2, <3>3, <3>4 DEF Daemon
  <2> QED
    BY <2>1, <2>2 DEF Aside
<1> QED
  BY <1>2, <1>3

\* What a submission adds to what was heard.
LEMMA Hears ==
    ASSUME NEW confirmed \in BOOLEAN
    PROVE  /\ heard \subseteq Hear(confirmed)
           /\ due # {} => Hear(confirmed) # {}
           /\ \A h \in Hear(confirmed) : h \in heard \/ h[3] = confirmed
<1>1. heard \subseteq Hear(confirmed)
  BY DEF Hear
<1>2. ASSUME NEW band \in due PROVE <<band, obs.gen.latch, confirmed>> \in Hear(confirmed)
  BY <1>2 DEF Hear
<1>3. \A h \in due \X {obs.gen.latch} \X {confirmed} : h[3] = confirmed
  OBVIOUS
<1> QED
  BY <1>1, <1>2, <1>3 DEF Hear

\* Outcomes of a paste.
LEMMA DeliverStep ==
    ASSUME Deliver
    PROVE  /\ entry' = entry /\ (obs' = obs \/ ~obs'.ready)
           /\ \/ pc' = "mark" /\ heard' = Hear(TRUE)
              \/ pc = "opened" /\ pc' = "rollback" /\ heard' \in {heard, Hear(FALSE)}
              \/ pc = "rewarn" /\ pc' = "rest" /\ heard' \in {heard, Hear(FALSE)}
<1>1. PICK out \in Outcomes :
         /\ heard' = IF out = "lost" THEN heard ELSE Hear(out = "taken")
         /\ CASE out = "taken" -> pc' = "mark" /\ UNCHANGED <<obs, due>>
              [] out # "taken" /\ pc = "opened" -> pc' = "rollback" /\ UNCHANGED <<obs, due>>
              [] OTHER -> Finish
  BY DEF Deliver
<1>2. entry' = entry /\ pc \in {"opened", "rewarn"}
  BY DEF Deliver, round
<1>3. CASE out = "taken"
  BY <1>1, <1>2, <1>3
<1>4. CASE out # "taken" /\ pc = "opened"
  <2>1. Hear(out = "taken") = Hear(FALSE)
    BY <1>4
  <2> QED
    BY <1>1, <1>2, <1>4, <2>1
<1>5. CASE out # "taken" /\ pc = "rewarn"
  <2>1. Hear(out = "taken") = Hear(FALSE)
    BY <1>5
  <2> QED
    BY <1>1, <1>2, <1>5, <2>1, NothingObserved DEF Finish
<1> QED
  BY <1>2, <1>3, <1>4, <1>5

\* No step confirms an opening wrap-up and still leaves the round opening.
LEMMA OpeningStep ==
    ASSUME TypeOK, OpeningUnheard, [Next]_vars
    PROVE  OpeningUnheard'
<1>1. CASE UNCHANGED vars
  BY <1>1 DEF vars, OpeningUnheard
<1>2. CASE Environment
  BY <1>2, EnvironmentApart DEF OpeningUnheard
<1>3. CASE Aside
  BY <1>3 DEF Aside, OpeningUnheard
<1>4. CASE Tick \/ EraseRound \/ Authorize \/ Rewarn \/ OpenRound
  BY <1>4 DEF Tick, EraseRound, Finish, Authorize, Rewarn, OpenRound, OpeningUnheard
<1>5. CASE Deliver
  BY <1>5, DeliverStep, Hears DEF OpeningUnheard
<1> QED
  BY <1>1, <1>2, <1>3, <1>4, <1>5, StepsAside DEF Next

-----------------------------------------------------------------------------
(* No ready certifies against a round nobody heard of                       *)

\* Wrap-ups are pasted for some band, and never on a ready.
LEMMA PastesStep ==
    ASSUME TypeOK, PastesDue, [Next]_vars
    PROVE  PastesDue'
<1>1. CASE UNCHANGED vars
  BY <1>1 DEF vars, PastesDue, WindingDown
<1>2. CASE Environment
  BY <1>2, EnvironmentApart, NothingObserved DEF PastesDue, WindingDown
<1>3. CASE Aside
  BY <1>3 DEF Aside, PastesDue, WindingDown
<1>4. CASE Tick
  BY <1>4 DEF Tick, PastesDue, WindingDown
<1>4a. CASE EraseRound
  BY <1>4a, NothingObserved DEF EraseRound, Finish, PastesDue, WindingDown
<1>5. CASE Authorize
  <2>1. MayInject /\ obs' = Sees(obs.real, obs.held) /\ pc' = "inject"
    BY <1>5 DEF Authorize, Fresh
  <2>2. /\ file.tok # "ready"
        /\ obs'.ready = (RoundReady(Identity(obs.real)) \/ FreshReady(Identity(obs.real)))
    BY <2>1 DEF MayInject, GuardedPaste, Fresh, Sees
  <2>3. ~obs'.ready
    BY <2>2 DEF RoundReady, FreshReady, YoungReady
  <2> QED
    BY <2>1, <2>3 DEF PastesDue, WindingDown
<1>6. CASE Rewarn
  BY <1>6 DEF Rewarn, PastesDue, WindingDown
<1>7. CASE OpenRound
  <2>1. /\ pc = "inject" /\ obs' = obs /\ Due # {}
        /\ due' = (IF file.tok \in DaemonTokens THEN {Threshold} ELSE Due)
    BY <1>7 DEF OpenRound
  <2>2. due' # {} /\ ~obs'.ready
    BY <2>1 DEF PastesDue, WindingDown
  <2> QED
    BY <2>2 DEF PastesDue
<1>8. CASE Deliver
  BY <1>8, DeliverStep DEF PastesDue, WindingDown, Deliver
<1> QED
  BY <1>1, <1>2, <1>3, <1>4, <1>5, <1>6, <1>7, <1>8, <1>4a, StepsAside DEF Next

\* Without a crash, no step leaves a round standing unheard past its opening.
LEMMA HeardStep ==
    ASSUME MaxCrash = 0, TypeOK, PastesDue, RoundWasHeard, [Next]_vars
    PROVE  RoundWasHeard'
<1>1. CASE UNCHANGED vars
  BY <1>1 DEF vars, RoundWasHeard
<1>2. CASE Environment
  <2>1. ~Crash
    BY DEF Crash, TypeOK
  <2> QED
    BY <1>2, <2>1, EnvironmentApart DEF RoundWasHeard
<1>3. CASE Aside
  BY <1>3 DEF Aside, RoundWasHeard
<1>4. CASE Tick
  <2>1. obs' = Sees(obs.real, store.gen)
    BY <1>4 DEF Tick
  <2>2. obs'.rounded = (entry.at # 0)
    BY <2>1 DEF Sees
  <2>3. pc = "identified" /\ pc' = "judge" /\ UNCHANGED <<entry, heard>>
    BY <1>4 DEF Tick, ghosts
  <2> QED
    BY <2>2, <2>3 DEF RoundWasHeard
<1>4a. CASE EraseRound
  <2>1. entry'.at = 0 /\ (obs' = obs \/ obs' = NoObs) /\ pc = "erasing"
    BY <1>4a, RoundEnds DEF EraseRound, Finish
  <2>2. ~obs'.ready
    BY <2>1, NothingObserved DEF PastesDue, WindingDown
  <2> QED
    BY <2>1, <2>2 DEF RoundWasHeard
<1>5. CASE Authorize
  <2>1. pc = "owed" /\ pc' = "inject" /\ UNCHANGED <<entry, heard>>
    BY <1>5 DEF Authorize, round, ghosts
  <2>2. ~obs'.ready
    BY <2>1, PastesStep DEF PastesDue, WindingDown
  <2> QED
    BY <2>1, <2>2 DEF RoundWasHeard
<1>6. CASE Rewarn
  BY <1>6 DEF Rewarn, round, ghosts, RoundWasHeard
<1>7. CASE OpenRound
  BY <1>7 DEF OpenRound, RoundWasHeard, PastesDue, WindingDown
<1>8. CASE Deliver
  <2>1. heard \subseteq heard'
    BY <1>8, DeliverStep, Hears
  <2>2. pc' = "mark" => heard' # {}
    BY <1>8, DeliverStep, Hears DEF PastesDue, Deliver
  <2> QED
    BY <1>8, <2>1, <2>2, DeliverStep DEF RoundWasHeard
<1> QED
  BY <1>1, <1>2, <1>3, <1>4, <1>5, <1>6, <1>7, <1>8, <1>4a, StepsAside DEF Next

\* Short of a crash between the stamp and the paste, a wrap-up reached a session
\* in every round that certifies a ready.
THEOREM CertifiedWasHeard ==
    ASSUME MaxCrash = 0
    PROVE  Spec => []CertifiedRoundWasHeard
<1>1. Init => PastesDue /\ RoundWasHeard
  BY DEF Init, PastesDue, WindingDown, RoundWasHeard, NoEntry, NoObs
<1>2. RoundWasHeard => CertifiedRoundWasHeard
  BY DEF RoundWasHeard, CertifiedRoundWasHeard
<1>3. TypeOK /\ PastesDue /\ RoundWasHeard /\ [Next]_vars => PastesDue' /\ RoundWasHeard'
  BY PastesStep, HeardStep
<1> QED
  BY <1>1, <1>2, <1>3, TypeCorrect, PTL DEF Spec

-----------------------------------------------------------------------------
(* No band is pasted twice                                                  *)

\* A generation that has seen no rise: it is of a session that was there, and the
\* context of the session in the pane lies no higher than what was last read of it.
Unrisen(gen) ==
    /\ gen.latch = 0 /\ gen.owner <= pane.live
    /\ gen.owner = pane.live => pane.ctx <= gen.low

\* Without compactions no reading rises, of the session in the pane or of another.
Unlatched ==
    /\ Unrisen(store.gen) /\ Unrisen(obs.held) /\ obs.gen.latch = 0
    /\ obs.real \in {NoId, pane.live}

\* A band whose delivery was confirmed is on record, or about to be.
BandsRecorded ==
    entry.at # 0 =>
        \A h \in heard : h[3] => h[1] \in entry.bands \/ (pc = "mark" /\ h[1] \in due)

\* A re-warning is about bands that are not.
RewarnsNew == pc = "rewarn" => entry.at # 0 /\ due \cap entry.bands = {}

\* Folding a reading into such a generation leaves it so.
LEMMA FoldUnrisen ==
    ASSUME TypeOK, NEW gen \in Generations, Unrisen(gen), NEW real \in {NoId, pane.live}
    PROVE  Unrisen(Fold(gen, real, pane.ctx))
<1>1. pane.live \in Nat /\ pane.live >= 1 /\ pane.ctx \in Nat /\ gen.low \in Nat
  BY Ordered, Bounds DEF TypeOK, Panes, Generations
<1>2. CASE real = NoId
  BY <1>2 DEF Fold
<1>3. CASE real = pane.live /\ gen.owner # real
  <2>1. Fold(gen, real, pane.ctx) = [owner |-> real, low |-> pane.ctx, latch |-> 0]
    BY <1>1, <1>3 DEF Fold, NoId
  <2> QED
    BY <1>1, <1>3, <2>1 DEF Unrisen
<1>4. CASE real = pane.live /\ gen.owner = real
  <2>1. /\ Fold(gen, real, pane.ctx).low = pane.ctx /\ Fold(gen, real, pane.ctx).latch = 0
        /\ Fold(gen, real, pane.ctx).owner = real
    BY <1>1, <1>4 DEF Fold, NoId, Unrisen, Generations
  <2> QED
    BY <1>1, <1>4, <2>1 DEF Unrisen
<1> QED
  BY <1>2, <1>3, <1>4

\* The context of a session only falls, and its place is only given to a new one.
LEMMA UnlatchedStep ==
    ASSUME "compact" \notin Events, "replace" \notin Events,
           TypeOK, Unlatched, [Next]_vars
    PROVE  Unlatched'
<1>1. /\ pane.live \in Nat /\ pane.live >= 1 /\ pane.ctx \in Nat /\ pane \in Panes
      /\ store.gen \in Generations /\ obs.held \in Generations
      /\ store.gen.owner \in Int /\ obs.held.owner \in Int
      /\ store.gen.low \in Nat /\ obs.held.low \in Nat
  BY Ordered, Bounds DEF TypeOK, Panes, Observations, Generations, Identities, NoId
<1>2. /\ NoObs.held.latch = 0 /\ NoObs.held.owner = NoId /\ NoObs.gen.latch = 0
      /\ NoObs.real = NoId
      /\ \A id : /\ [NoObs EXCEPT !.real = id].held = NoObs.held
                  /\ [NoObs EXCEPT !.real = id].gen = NoObs.gen
                  /\ [NoObs EXCEPT !.real = id].real = id
  BY DEF NoObs, NoGeneration
<1>3. ASSUME pane'.live = pane.live, pane'.ctx \in Nat, pane'.ctx <= pane.ctx, store' = store,
             obs' \in {obs, NoObs} \/ Resolved
      PROVE  Unlatched'
  <2>1. Unrisen(store.gen)'
    BY <1>1, <1>3 DEF Unlatched, Unrisen
  <2>2. CASE obs' = obs
    <3>1. Unrisen(obs.held)'
      BY <1>1, <1>3, <2>2 DEF Unlatched, Unrisen
    <3> QED
      BY <1>3, <2>1, <2>2, <3>1 DEF Unlatched
  <2>3. CASE obs' # obs
    <3>1. obs'.held = NoObs.held /\ obs'.gen = NoObs.gen /\ obs'.real \in {NoId, pane.live}
      BY <1>2, <1>3, <2>3 DEF Resolved
    <3>2. Unrisen(obs.held)'
      BY <1>1, <1>2, <1>3, <3>1 DEF Unrisen, NoId
    <3> QED
      BY <1>2, <1>3, <2>1, <3>1, <3>2 DEF Unlatched
  <2> QED
    BY <2>2, <2>3
<1>4. ASSUME UNCHANGED <<store, obs>>, pane' = pane
      PROVE  Unlatched'
  BY <1>4 DEF Unlatched, Unrisen
<1>5. CASE UNCHANGED vars
  BY <1>4, <1>5 DEF vars
<1>6. CASE Environment
  <2>1. ~Compact /\ ~Replace
    BY DEF Compact, Replace
  <2>2. pane'.live = pane.live /\ pane'.ctx \in Nat /\ pane'.ctx <= pane.ctx
    <3>1. CASE StartTurn \/ EndTurn \/ (\E box \in {"gate", "draft"} : BoxFills(box)) \/ BoxSent
               \/ SlowBootEnds \/ StatuslineChanges
      <4>1. pane'.live = pane.live /\ pane'.ctx = pane.ctx
        BY <1>1, <3>1 DEF StartTurn, EndTurn, BoxFills, BoxSent, SlowBootEnds,
           StatuslineChanges, Panes
      <4> QED
        BY <1>1, <4>1
    <3>2. CASE ConsumeContext
      <4>1. pane'.live = pane.live /\ pane'.ctx = pane.ctx - 1 /\ pane.ctx > 1
        BY <1>1, <3>2 DEF ConsumeContext, Panes
      <4> QED
        BY <1>1, <4>1
    <3>3. CASE (\E tok \in Tokens : Declare(tok)) \/ Withdraw \/ Advance \/ Crash
      BY <1>1, <3>3 DEF Declare, Withdraw, Advance, Crash, env
    <3> QED
      BY <1>6, <2>1, <3>1, <3>2, <3>3 DEF Environment
  <2> QED
    BY <1>3, <1>6, <2>2, EnvironmentApart
<1>7. CASE Tick
  <2>1. /\ obs' = Sees(obs.real, store.gen) /\ pane' = pane
        /\ store'.gen \in {store.gen, Fold(store.gen, obs.real, pane.ctx)}
    BY <1>7 DEF Tick, Sees
  <2>2. /\ obs'.real = obs.real /\ obs'.held = store.gen
        /\ obs'.gen = Fold(store.gen, obs.real, pane.ctx)
    BY <2>1 DEF Sees
  <2>3. Unrisen(store.gen) /\ Unrisen(Fold(store.gen, obs.real, pane.ctx))
    BY <1>1, FoldUnrisen DEF Unlatched
  <2> QED
    BY <2>1, <2>2, <2>3 DEF Unlatched, Unrisen
<1>8. CASE Authorize
  <2>1. /\ obs'.real = obs.real /\ obs'.held = obs.held /\ pane' = pane /\ store' = store
        /\ obs'.gen = Fold(obs.held, obs.real, pane.ctx)
    BY <1>8 DEF Authorize, Fresh, Sees, round
  <2>2. Unrisen(Fold(obs.held, obs.real, pane.ctx))
    BY <1>1, FoldUnrisen DEF Unlatched
  <2> QED
    BY <2>1, <2>2 DEF Unlatched, Unrisen
<1>9. CASE obs' = NoObs /\ store' = store /\ pane'.live = pane.live + 1
  <2>1. Unrisen(store.gen)' /\ Unrisen(obs.held)'
    BY <1>1, <1>2, <1>9 DEF Unlatched, Unrisen, NoId
  <2> QED
    BY <1>2, <1>9, <2>1 DEF Unlatched
<1> QED
  BY <1>1, <1>3, <1>5, <1>6, <1>7, <1>8, <1>9, Sights DEF Next

\* Where every wrap-up that was confirmed is recorded before the next tick, what is
\* pasted again was not confirmed.
LEMMA RecordedStep ==
    ASSUME MaxCrash = 0, TypeOK, Unlatched, BandsRecorded, RewarnsNew, [Next]_vars
    PROVE  BandsRecorded' /\ RewarnsNew'
<1>1. CASE UNCHANGED vars
  BY <1>1 DEF vars, BandsRecorded, RewarnsNew
<1>2. CASE Environment
  <2>1. ~Crash
    BY DEF Crash, TypeOK
  <2> QED
    BY <1>2, <2>1, EnvironmentApart DEF BandsRecorded, RewarnsNew
<1>3. CASE Daemon
  <2>1. entry'.at # 0 => (entry.at # 0 /\ entry.bands \subseteq entry'.bands) \/ OpenRound
    BY <1>3, RoundStep, RoundEnds DEF Grows
  <2>2. CASE OpenRound
    BY <2>2 DEF OpenRound, BandsRecorded, RewarnsNew
  <2>3. CASE Deliver
    <3>1. UNCHANGED entry /\ pc \in {"opened", "rewarn"}
      BY <2>3 DEF Deliver, round
    <3>2. CASE pc' = "mark" /\ heard' = Hear(TRUE)
      <4>1. due' = due
        BY <2>3, <3>2 DEF Deliver, Finish
      <4>2. \A h \in heard' : h \in heard \/ h[1] \in due
        BY <3>2 DEF Hear
      <4> QED
        BY <3>1, <3>2, <4>1, <4>2 DEF BandsRecorded, RewarnsNew
    <3>3. CASE pc' \in {"rollback", "rest"} /\ heard' \in {heard, Hear(FALSE)}
      <4>1. \A h \in heard' : h[3] => h \in heard
        BY <3>3, Hears
      <4> QED
        BY <3>1, <3>3, <4>1 DEF BandsRecorded, RewarnsNew
    <3> QED
      BY <2>3, <3>2, <3>3, DeliverStep
  <2>4. CASE Rewarn
    <3>1. /\ pc = "inject" /\ due' = Due /\ pc' = "rewarn" /\ entry' = entry /\ heard' = heard
          /\ entry.at # 0
      BY <2>4 DEF Rewarn, OpensNow, round, ghosts
    <3>2. Armed = entry.bands
      BY DEF Armed, Latched, Unlatched
    <3>3. due' \cap entry'.bands = {}
      BY <3>1, <3>2 DEF Due
    <3> QED
      BY <3>1, <3>3 DEF BandsRecorded, RewarnsNew
  <2>5. CASE MarkDelivered
    <3>1. /\ pc = "mark" /\ pc' = "rest" /\ heard' = heard /\ entry'.bands = entry.bands \cup due
          /\ entry'.at = entry.at
      BY <2>5 DEF MarkDelivered, Finish, ghosts, TypeOK, Entries
    <3> QED
      BY <3>1 DEF BandsRecorded, RewarnsNew
  <2>6. ASSUME ~OpenRound, ~Deliver, ~Rewarn, ~MarkDelivered
        PROVE  BandsRecorded' /\ RewarnsNew'
    <3>1. heard' \in {heard, {}} /\ pc' # "rewarn"
      BY <1>3, <2>6, StepsAside DEF Aside, Tick, EraseRound, Finish, Authorize, ghosts
    <3>2. pc # "mark"
      BY <1>3, <2>6 DEF Daemon, Identify, Unmanaged, Tick, RetryHeld, RetryResolved,
         RetryExhausted, RetryEnter, CountEnter, Retire, ExpireFloor, ExpireNote, JudgeOn, RetryLeg, MayRetry, Wait, Busy,
         BlockedHuman, Uncertifiable, RestartRefused, Respawn, Certified, SpawnUnproven,
         SpawnGated, SpawnResume, Unsent, ConsumeReady, CloseRestarted, CloseRound, EraseRound,
         Notice,
         MarkNoticed, NoNotice, Proceed, Authorize, Decline, Nudge, MarkNudged, NothingDue,
         Unopen
    <3> QED
      BY <2>1, <2>6, <3>1, <3>2 DEF BandsRecorded, RewarnsNew
  <2> QED
    BY <2>2, <2>3, <2>4, <2>5, <2>6
<1> QED
  BY <1>1, <1>2, <1>3 DEF Next

\* Short of a crash between a paste and its record, of a compaction, which re-arms
\* the bands, and of a session restarted by hand inside a tick, no band is pasted
\* again once its delivery was confirmed, for any number of sessions and bands.
THEOREM BandsOnce ==
    ASSUME MaxCrash = 0, "compact" \notin Events, "replace" \notin Events
    PROVE  Spec => []NoBandTwice
<1> DEFINE Inv == OpeningUnheard /\ Unlatched /\ BandsRecorded /\ RewarnsNew
<1>1. Init => Inv
  <2>1. ASSUME Init PROVE Unlatched
    BY <2>1 DEF Init, Unlatched, Unrisen, NoObs, NoGeneration, NoId
  <2> QED
    BY <2>1 DEF Init, OpeningUnheard, BandsRecorded, RewarnsNew
<1>2. TypeOK /\ Inv /\ [Next]_vars => Inv'
  BY OpeningStep, UnlatchedStep, RecordedStep
<1>3. Inv => NoBandTwice
  <2> SUFFICES ASSUME Inv, pc \in {"opened", "rewarn"}, NEW band \in due,
                      <<band, obs.gen.latch, TRUE>> \in heard
               PROVE  FALSE
    BY DEF NoBandTwice
  <2> DEFINE h == <<band, obs.gen.latch, TRUE>>
  <2>1. h \in heard /\ h[3] /\ h[1] = band
    OBVIOUS
  <2> HIDE DEF h
  <2>2. CASE pc = "opened"
    BY <2>1, <2>2 DEF OpeningUnheard
  <2>3. CASE pc = "rewarn"
    BY <2>1, <2>3 DEF BandsRecorded, RewarnsNew
  <2> QED
    BY <2>2, <2>3
<1> QED
  BY <1>1, <1>2, <1>3, TypeCorrect, PTL DEF Spec

=============================================================================
