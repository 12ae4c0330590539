-------------------------- MODULE AuthorityProofs --------------------------
(***************************************************************************)
(* SupervisionRound implements RestartAuthority, for every instance: each  *)
(* step of the supervision is a step, or a stutter, of the authority.      *)
(***************************************************************************)
EXTENDS SupervisionRoundProofs

\* A step that kills nobody, puts no offer in, opens no round and certifies
\* nothing; every step is one but the four that do.
Quiet ==
    /\ kills' = kills /\ pane'.live = pane.live
    /\ file' = file \/ file'.tok # "ready"
    /\ obs' = obs \/ ~obs'.ready
    /\ entry'.at = 0 \/ (entry'.at = entry.at /\ entry'.ident = entry.ident)
    /\ pc' # "judge"
    /\ pc' \in {"expiring", "act"} =>
           /\ pc \in {"judge", "expiring"} /\ obs' = obs
           /\ entry'.at = entry.at /\ entry'.ident = entry.ident

\* Every step of the daemon is quiet, but for the observation, the respawn, the
\* re-read that authorizes a wrap-up, and the opening of a round.
LEMMA QuietDaemon ==
    ASSUME TypeOK, Daemon
    PROVE  Quiet \/ Tick \/ Respawn \/ Authorize \/ OpenRound
<1> USE DEF DaemonOnly, ghosts, round
<1>1. Note.tok # "ready" /\ NoFile.tok # "ready" /\ ClearNudge \in {file, Note}
  BY DEF Note, NoFile, ClearNudge
<1>2. NoEntry.at = 0
  BY DEF NoEntry
<1>3. ASSUME Finish PROVE pc' = "rest" /\ obs' = NoObs /\ ~obs'.ready
  BY <1>3, NothingObserved DEF Finish
<1>4. entry \in Entries
  BY DEF TypeOK
<1>5. /\ PendingEntry.at = entry.at /\ PendingEntry.ident = entry.ident
      /\ \A id \in Identities : PendResume(entry, id).at = entry.at
                               /\ PendResume(entry, id).ident = entry.ident
  BY <1>4, PendingEntryType, PendResumeType
<1>6. CASE RetryHeld \/ RetryExhausted \/ RetryResolved
  <2>1. /\ entry' = PendingEntry /\ pc' \in {"rest", "closing"} /\ obs' \in {obs, NoObs}
        /\ UNCHANGED <<pane, file, kills>>
    BY <1>3, <1>6 DEF RetryHeld, RetryExhausted, RetryResolved
  <2> QED
    BY <1>5, <2>1, NothingObserved DEF Quiet
<1>7. CASE RetryEnter
  <2>1. /\ entry' = PendingEntry /\ pc' \in {"entered", "dropped"}
        /\ UNCHANGED <<file, obs, kills>>
    BY <1>7 DEF RetryEnter
  <2>2. pane'.live = pane.live
    BY <1>7 DEF RetryEnter, TypeOK, Panes
  <2> QED
    BY <1>5, <2>1, <2>2 DEF Quiet
<1>8. CASE CountEnter \/ MarkNoticed \/ MarkDelivered
  <2>1. entry'.at = entry.at /\ entry'.ident = entry.ident
    BY <1>4, <1>8 DEF CountEnter, MarkNoticed, MarkDelivered, Entries
  <2>2. /\ pc' \in {"closing", "owed", "rest"} /\ obs' \in {obs, NoObs}
        /\ UNCHANGED <<pane, file, kills>>
    BY <1>3, <1>8 DEF CountEnter, MarkNoticed, MarkDelivered
  <2> QED
    BY <2>1, <2>2, NothingObserved DEF Quiet
<1>9. CASE Retire \/ JudgeOn \/ ExpireNote
  <2>1. /\ pc \in {"judge", "expiring"} /\ pc' = "act" /\ file' \in {file, NoFile, Note}
        /\ UNCHANGED <<pane, entry, obs, kills>>
    BY <1>9 DEF Retire, JudgeOn, ExpireNote
  <2> QED
    BY <1>1, <2>1 DEF Quiet
<1>10. CASE ExpireFloor
  <2>1. entry'.at = entry.at /\ entry'.ident = entry.ident
    BY <1>4, <1>10 DEF ExpireFloor, Entries
  <2>2. pc = "judge" /\ pc' = "expiring" /\ UNCHANGED <<pane, file, obs, kills>>
    BY <1>10 DEF ExpireFloor
  <2> QED
    BY <2>1, <2>2 DEF Quiet
<1>5a. CASE Identify
  <2>1. PICK id : obs' = [NoObs EXCEPT !.real = id]
    BY <1>5a DEF Identify
  <2>2. pc' = "identified" /\ UNCHANGED <<pane, file, entry, kills>>
    BY <1>5a DEF Identify
  <2> QED
    BY <2>1, <2>2, OnlyResolved DEF Quiet
<1>11. CASE Unmanaged \/ Wait \/ Busy \/ BlockedHuman \/ Uncertifiable \/ RestartRefused
            \/ Decline \/ NothingDue
  <2>1. Finish /\ file' \in {file, Note} /\ UNCHANGED <<pane, entry, kills>>
    BY <1>1, <1>11 DEF Unmanaged, Wait, Busy, BlockedHuman, Uncertifiable, RestartRefused,
       Decline, NothingDue
  <2> QED
    BY <1>1, <1>3, <2>1 DEF Quiet
<1>12. CASE SpawnUnproven \/ SpawnGated \/ Unsent
  <2>1. NoId \in Identities /\ pane.live \in Identities /\ obs.real \in Identities
    BY ObsType, Bounds DEF NoId, Identities
  <2>2. Finish /\ UNCHANGED <<pane, file, kills>>
    BY <1>12 DEF SpawnUnproven, SpawnGated, Unsent
  <2>3. entry'.at = entry.at /\ entry'.ident = entry.ident
    BY <1>5, <1>12, <2>1 DEF SpawnUnproven, SpawnGated, Unsent
  <2> QED
    BY <1>3, <2>2, <2>3 DEF Quiet
<1>13. CASE SpawnResume
  <2>1. PICK out \in Outcomes : Submit(out, "resume")
    BY <1>13 DEF SpawnResume
  <2>2. pane'.live = pane.live
    BY <2>1, SubmitType DEF Boxes
  <2>3. ~obs'.ready /\ pc' \in {"closing", "unsent"} /\ UNCHANGED <<file, entry, kills>>
    BY <1>13 DEF SpawnResume, NoObs
  <2> QED
    BY <2>2, <2>3 DEF Quiet
<1>14. CASE ConsumeReady
  <2>1. file' = Note /\ pc' = "closed" /\ UNCHANGED <<pane, entry, obs, kills>>
    BY <1>14 DEF ConsumeReady
  <2> QED
    BY <1>1, <2>1 DEF Quiet
<1>15. CASE CloseRestarted \/ Unopen \/ EraseRound
  <2>1. /\ entry' = NoEntry /\ pc' \in {"owed", "rest"} /\ obs' \in {obs, NoObs}
        /\ UNCHANGED <<pane, file, kills>>
    BY <1>3, <1>15 DEF CloseRestarted, Unopen, EraseRound
  <2> QED
    BY <1>2, <2>1, NothingObserved DEF Quiet
<1>16. CASE Notice \/ Nudge \/ Deliver
  <2>1. PICK out \in Outcomes : Submit(out, "draft")
    BY <1>16 DEF Notice, Nudge, Deliver
  <2>2. pane'.live = pane.live
    BY <2>1, SubmitType DEF Boxes
  <2>3. /\ pc' \in {"noticed", "owed", "nudged", "rest", "mark", "rollback"}
        /\ obs' \in {obs, NoObs} /\ UNCHANGED <<file, entry, kills>>
    BY <1>3, <1>16 DEF Notice, Nudge, Deliver
  <2> QED
    BY <2>2, <2>3, NothingObserved DEF Quiet
<1>17. CASE CloseRound \/ NoNotice \/ Rewarn
  <2>1. /\ pc' \in {"erasing", "owed", "rewarn"}
        /\ UNCHANGED <<pane, file, entry, obs, kills>>
    BY <1>17 DEF CloseRound, NoNotice, Rewarn
  <2> QED
    BY <2>1 DEF Quiet
<1>18. CASE MarkNudged
  <2>1. Finish /\ file'.tok = "nudged" /\ UNCHANGED <<pane, entry, kills>>
    BY <1>18 DEF MarkNudged
  <2> QED
    BY <1>3, <2>1 DEF Quiet
<1> QED
  BY <1>6, <1>7, <1>8, <1>9, <1>10, <1>11, <1>12, <1>13, <1>14, <1>15, <1>16, <1>17,
     <1>18, <1>5a DEF Daemon

-----------------------------------------------------------------------------
(* What a certified ready rests on when the tick acts on it                 *)

\* Nothing is certified at first.
LEMMA CertificationInit == Init => CertificationStands
  BY DEF Init, CertificationStands, NoEntry, NoObs

\* No step takes the round from under a certified ready before the tick has acted.
LEMMA CertificationStep ==
    ASSUME TypeOK, RoundInterlock, CertificationStands, [Next]_vars
    PROVE  CertificationStands'
<1>1. CASE UNCHANGED vars
  BY <1>1 DEF vars, CertificationStands
<1>2. CASE Environment
  <2>1. \/ UNCHANGED <<entry, pc, obs>>
        \/ entry' = entry /\ pc' = "rest" /\ obs' = NoObs
    BY <1>2 DEF Environment, World, daemon, StartTurn, EndTurn, ConsumeContext, Compact,
       Declare, Withdraw, BoxFills, BoxSent, Replace, SlowBootEnds, StatuslineChanges,
       Advance, Crash, Finish, round
  <2> QED
    BY <2>1 DEF CertificationStands
<1>3. CASE Quiet
  BY <1>3 DEF Quiet, CertificationStands
<1>4. CASE Tick
  <2>1. obs' = Sees(obs.real, store.gen) /\ entry' = entry /\ pc' = "judge"
    BY <1>4 DEF Tick
  <2>2. /\ obs'.real = obs.real /\ obs'.rounded = (entry.at # 0)
        /\ obs'.ready = (RoundReady(Identity(obs.real)) \/ FreshReady(Identity(obs.real)))
    BY <2>1 DEF Sees
  <2>3. ASSUME obs'.ready, obs'.rounded PROVE entry.at # 0 /\ entry.ident = obs.real
    BY <2>2, <2>3 DEF RoundReady, FreshReady, Identity, RoundInterlock, RoundHasOwner
  <2> QED
    BY <2>1, <2>2, <2>3 DEF CertificationStands
<1>5. CASE Respawn
  BY <1>5 DEF Respawn, round, CertificationStands
<1>6. CASE Authorize
  BY <1>6 DEF Authorize, round, CertificationStands
<1>7. CASE OpenRound
  <2>1. /\ pc = "inject" /\ pc' = "opened" /\ entry'.ident = Identity(obs.real)
    BY <1>7 DEF OpenRound, NoEntry
  <2>2. obs.real # NoId /\ obs.real # Fallback /\ obs.real >= NoId /\ obs.real \in Int
    BY <2>1, Ordered DEF RoundInterlock, RoundHasOwner, NothingAhead
  <2>3. entry'.ident > Fallback
    BY <2>1, <2>2 DEF Identity, NoId, Fallback
  <2> QED
    BY <2>1, <2>3 DEF CertificationStands
<1> QED
  BY <1>1, <1>2, <1>3, <1>4, <1>5, <1>6, <1>7, QuietDaemon DEF Next

\* Spec => []CertificationStands.
THEOREM CertificationHolds == Spec => []CertificationStands
  BY CertificationInit, CertificationStep, TypeCorrect, InterlockHolds, PTL DEF Spec

-----------------------------------------------------------------------------
(* The refinement                                                           *)

\* The supervision starts where the authority does.
LEMMA AuthorityInit == Init => Authority!Init
  BY DEF Init, Authority!Init, RoundOwner, Offered, Spent, Victims, NoFile, NoEntry, NoObs

\* What the abstract variables depend on.
LEMMA AbstractlySame ==
    ASSUME TRUE
    PROVE  /\ kills' = kills => Spent' = Spent /\ Victims' = Victims
           /\ entry' = entry => RoundOwner' = RoundOwner
           /\ entry'.at = entry.at /\ entry'.ident = entry.ident => RoundOwner' = RoundOwner
           /\ entry'.at = 0 => RoundOwner' = 0
           /\ (file' = file \/ file'.tok # "ready") /\ (obs' = obs \/ ~obs'.ready)
                => Offered' \in SUBSET Offered
  BY DEF Spent, Victims, RoundOwner, Offered

\* The sessions, the operators and a crash offer, withdraw and replace.
LEMMA AuthorityEnvironment ==
    ASSUME TypeOK, Environment
    PROVE  Authority!Declare \/ Authority!Replace
<1> USE DEF World, daemon, ghosts
<1>1. pane \in Panes
  BY DEF TypeOK
<1>2. CASE StartTurn \/ EndTurn \/ ConsumeContext \/ Compact \/ BoxSent \/ SlowBootEnds
           \/ StatuslineChanges \/ Advance \/ \E box \in {"gate", "draft"} : BoxFills(box)
  <2>1. pane'.live = pane.live /\ UNCHANGED <<file, entry, obs, kills>>
    BY <1>1, <1>2 DEF StartTurn, EndTurn, ConsumeContext, Compact, BoxSent, SlowBootEnds,
       StatuslineChanges, Advance, BoxFills, Panes
  <2> QED
    BY <2>1, AbstractlySame DEF Authority!Declare
<1>3. ASSUME NEW tok \in Tokens, Declare(tok) PROVE Authority!Declare
  <2>1. file'.by = pane.live /\ UNCHANGED <<pane, entry, obs, kills>>
    BY <1>3 DEF Declare, env
  <2>2. Offered' \in SUBSET (Offered \cup {pane.live})
    BY <2>1 DEF Offered
  <2> QED
    BY <2>1, <2>2, AbstractlySame DEF Authority!Declare
<1>4. CASE Withdraw
  <2>1. file'.tok # "ready" /\ UNCHANGED <<pane, entry, obs, kills>>
    BY <1>4 DEF Withdraw, env, NoFile
  <2> QED
    BY <2>1, AbstractlySame DEF Authority!Declare
<1>5. CASE Replace
  <2>1. pane'.live = pane.live + 1 /\ UNCHANGED <<file, entry, obs, kills>>
    BY <1>5, NewSessionType DEF Replace, Boxes
  <2> QED
    BY <2>1, AbstractlySame DEF Authority!Replace
<1>6. CASE Crash
  <2>1. obs' = NoObs /\ UNCHANGED <<pane, file, entry, kills>>
    BY <1>6 DEF Crash, Finish, env, round
  <2> QED
    BY <2>1, NothingObserved, AbstractlySame DEF Authority!Declare
<1> QED
  BY <1>2, <1>3, <1>4, <1>5, <1>6 DEF Environment

\* The daemon observes offers, opens and closes rounds, and restarts on an unspent
\* offer that is not of a session before the round's.
LEMMA AuthorityDaemon ==
    ASSUME TypeOK, RoundInterlock, CertificationStands, Daemon
    PROVE  Authority!Next
<1> USE DEF Authority!Next
<1>1. CASE Quiet
  <2>1. CASE entry'.at = 0
    BY <1>1, <2>1, AbstractlySame DEF Quiet, Authority!Close
  <2>2. CASE entry'.at = entry.at /\ entry'.ident = entry.ident
    BY <1>1, <2>2, AbstractlySame DEF Quiet, Authority!Declare
  <2> QED
    BY <1>1, <2>1, <2>2 DEF Quiet
<1>2. CASE Tick \/ Authorize
  <2>1. UNCHANGED <<pane, file, entry, kills>>
    BY <1>2 DEF Tick, Authorize, round, ghosts
  <2>2. PICK held : obs' = Sees(obs.real, held)
    BY <1>2 DEF Tick, Authorize, Fresh
  <2>3. obs'.decl = file /\ (obs'.ready => file.tok = "ready")
    BY <2>2 DEF Sees, RoundReady, FreshReady, YoungReady
  <2>4. Offered' \in SUBSET Offered
    BY <2>1, <2>3 DEF Offered
  <2> QED
    BY <2>1, <2>4, AbstractlySame DEF Authority!Declare
<1>3. CASE OpenRound
  <2>1. /\ pc = "inject" /\ entry.at = 0 /\ entry'.at = clock
        /\ entry'.ident = Identity(obs.real) /\ UNCHANGED <<pane, file, obs, kills>>
    BY <1>3 DEF OpenRound, OpensNow, NoEntry
  <2>2. obs.real \in 1..pane.live
    BY <2>1, Ordered DEF RoundInterlock, RoundHasOwner, NothingAhead, NoId, Fallback
  <2>3. clock # 0
    BY DEF TypeOK
  <2>4. RoundOwner = 0 /\ RoundOwner' = obs.real
    BY <2>1, <2>2, <2>3 DEF RoundOwner, Identity, NoId
  <2>5. Offered' = Offered
    BY <2>1 DEF Offered
  <2> QED
    BY <2>1, <2>2, <2>4, <2>5, AbstractlySame DEF Authority!Open
<1>4. CASE Respawn
  <2>1. /\ pc = "act" /\ obs.ready /\ pane.live < MaxSession
        /\ obs' = NoObs /\ UNCHANGED <<file, entry>>
    BY <1>4 DEF Respawn, Certified, round
  <2>2. pane'.live = pane.live + 1
    BY <1>4, <2>1, NewSessionType DEF Respawn, Boxes
  <2>3. RoundOwner' = RoundOwner /\ Offered' \in SUBSET Offered
    BY <2>1, NothingObserved, AbstractlySame
  <2> DEFINE kill == [by |-> obs.decl.by, at |-> obs.decl.at, victim |-> pane.live,
                      rounded |-> obs.rounded]
  <2>4. /\ kills' = kills \cup {kill} /\ kill.by = obs.decl.by
        /\ kill.victim = pane.live /\ kill.rounded = obs.rounded
    BY <1>4 DEF Respawn
  <2> HIDE DEF kill
  <2>5. CASE ~obs.rounded
    <3>1. Spent' = Spent /\ Victims' = Victims
      BY <2>4, <2>5 DEF Spent, Victims
    <3> QED
      BY <2>2, <2>3, <3>1 DEF Authority!Replace
  <2>6. CASE obs.rounded
    <3> DEFINE author == obs.decl.by
    <3>1. /\ entry.at # 0 /\ entry.ident = obs.real /\ obs.real > Fallback
          /\ obs.real <= author /\ author <= pane.live
          /\ \A k \in kills : k.rounded => k.by < obs.real
      BY <2>1, <2>6 DEF CertificationStands, RoundInterlock, NotInherited, NothingAhead,
         SpentBefore
    <3>2. /\ obs.real \in Nat /\ author \in 0..MaxSession /\ pane.live \in Sessions
          /\ \A k \in kills : k.by \in Nat
      BY <3>1, ObsType, Ordered, Bounds DEF TypeOK, Panes, Fallback
    <3>3. author \in Sessions /\ RoundOwner = obs.real
      BY <3>1, <3>2, Bounds DEF RoundOwner, Sessions, Fallback
    <3>4. author \in RoundOwner..pane.live /\ RoundOwner # 0
      BY <3>1, <3>2, <3>3 DEF Sessions, Fallback
    <3>5. author \in Offered
      BY <2>1, <3>3 DEF Offered
    <3>6. author \notin Spent
      <4>1. \A k \in kills : k.rounded => k.by # author
        BY <3>1, <3>2
      <4> QED
        BY <4>1 DEF Spent
    <3>7. Spent' = Spent \cup {author} /\ Victims' = Victims \cup {pane.live}
      BY <2>4, <2>6, <3>2, <3>3 DEF Spent, Victims
    <3> HIDE DEF author
    <3> QED
      BY <2>2, <2>3, <3>4, <3>5, <3>6, <3>7 DEF Authority!Restart
  <2> QED
    BY <2>5, <2>6, ObsType
<1> QED
  BY <1>1, <1>2, <1>3, <1>4, QuietDaemon

\* The supervision implements the restart authority.
THEOREM ImplementsAuthority == Spec => KeepsAuthority
<1>1. ASSUME TypeOK, RoundInterlock, CertificationStands, [Next]_vars
      PROVE  [Authority!Next]_(Authority!vars)
  <2>1. CASE UNCHANGED vars
    BY <2>1 DEF vars, Authority!vars, RoundOwner, Offered, Spent, Victims
  <2> QED
    BY <1>1, <2>1, AuthorityEnvironment, AuthorityDaemon DEF Next, Authority!Next
<1> QED
  BY AuthorityInit, TypeCorrect, InterlockHolds, CertificationHolds, <1>1, PTL
     DEF Spec, KeepsAuthority, Authority!Spec

=============================================================================
