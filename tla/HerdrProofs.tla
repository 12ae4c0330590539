---------------------------- MODULE HerdrProofs ----------------------------
(***************************************************************************)
(* What holds of the guarded replacement for every instance, whatever the  *)
(* daemon is killed in, whoever else uses the pane and however often the   *)
(* kernel reuses a pid.                                                    *)
(***************************************************************************)
EXTENDS HerdrReplacement, TLAPS

-----------------------------------------------------------------------------
(* The inductive invariant                                                  *)

Zero == [signal |-> 0, launch |-> 0, resume |-> 0]

\* Between two writes of a tick the record is where the step left it.
StepPhase ==
    /\ pc = "bound" => record # Nothing /\ record.phase = "before-stop"
    /\ pc \in {"fenced", "aimed", "waiting"}
       => record # Nothing /\ record.phase = "signal-attempted"
    /\ pc \in {"stopped", "relaunch"}
       => record # Nothing /\ record.phase = "stopped-awaiting-shell"
    /\ pc = "launching" => record # Nothing /\ record.phase = "launch-attempted"
    /\ pc = "observed" => record # Nothing /\ record.phase = "successor-observed"
    /\ pc \in {"pasting", "entering"} => record # Nothing /\ record.phase = "resume-attempted"
    /\ pc \in {"consuming", "closing"} => record # Nothing /\ record.phase = "completed"
    /\ pc = "closing" => ~OwnReady
    /\ pc = "retiring" => record # Nothing /\ ~OwnReady /\ Gone(record.pred)

\* Nothing refers to a time or a session yet to come.
Past ==
    /\ decl.at <= clock
    /\ round # Nothing => round.at <= clock /\ round.by <= born
    /\ record # Nothing => record.ready <= clock /\ record.pred <= born
    /\ \A g \in live : g <= born
    /\ fg \in Gens => fg \in live
    /\ \A s \in Serials : s > clock => sent[s] = Zero
    /\ \A hit \in hits : hit[1] <= clock

\* While the ready a record was opened on stands, so does the round that asked for it.
RoundBound ==
    OwnReady => round # Nothing /\ round.at = record.round /\ round.by = record.pred

\* The predecessor does not come back from its proven exit, nor from a lost server.
Stopped ==
    /\ record # Nothing
    /\ \/ record.phase \in Launched \cup {"stopped-awaiting-shell"}
       \/ record.server # server
    => Gone(record.pred)

\* Besides the session in the pane only the one being replaced may still run.
OneSession == \A g \in live : g = fg \/ (Open /\ g = record.pred)

\* An answer to the open round was written by the session it was opened for, unless
\* that session is gone or being replaced.
Answered ==
    round # Nothing /\ decl.token = "ready" /\ decl.at > round.at
    => \/ author[decl.at] = round.by \/ Gone(round.by)
       \/ Open /\ record.pred = round.by

Asked == record # Nothing => author[record.ready] = record.pred

\* A ready that bought anything is the record's own or no longer stands.
Spent ==
    \A s \in Serials :
        sent[s] # Zero
        => (record # Nothing /\ record.ready = s) \/ ~(decl.token = "ready" /\ decl.at = s)

\* What the record does not say was attempted was not done.
Phased ==
    record # Nothing =>
        /\ record.phase = "before-stop" \/ pc \in {"fenced", "aimed"}
           => sent[record.ready].signal = 0
        /\ \/ record.phase \in {"before-stop", "signal-attempted", "stopped-awaiting-shell"}
           \/ pc = "launching"
           => sent[record.ready].launch = 0
        /\ \/ record.phase \in {"before-stop", "signal-attempted", "stopped-awaiting-shell",
                               "launch-attempted", "successor-observed"}
           \/ pc = "pasting"
           => sent[record.ready].resume = 0

IInv ==
    /\ TypeOK /\ StepPhase /\ Past /\ RoundBound /\ Stopped /\ OneSession
    /\ Answered /\ Asked /\ Spent /\ Phased
    /\ AtMostOnce /\ SignalsItsAuthor /\ SuccessIsReal

-----------------------------------------------------------------------------
(* Digests of a step                                                        *)

\* The record moves to a phase and names what it named.
Moved(phase) ==
    /\ record # Nothing /\ record' # Nothing /\ record' \in Records
    /\ record'.phase = phase /\ record'.server = record.server /\ record'.pred = record.pred
    /\ record'.ready = record.ready /\ record'.round = record.round

\* A record is opened for the round and the ready that stand.
Opened ==
    /\ round # Nothing /\ round.at \in Serials /\ round.by \in Gens
    /\ record' # Nothing /\ record' \in Records
    /\ record'.phase = "before-stop" /\ record'.server = server /\ record'.pred = round.by
    /\ record'.ready = decl.at /\ record'.round = round.at

Counts == [signal : Nat, launch : Nat, resume : Nat]

\* What the record's ready bought grows by these, and nothing else does.
Grew(signal, launch, resume) ==
    /\ sent' \in [Serials -> Counts]
    /\ \A s \in Serials : s # record.ready => sent'[s] = sent[s]
    /\ sent'[record.ready].signal = sent[record.ready].signal + signal
    /\ sent'[record.ready].launch = sent[record.ready].launch + launch
    /\ sent'[record.ready].resume = sent[record.ready].resume + resume

\* The assumptions on the constants, one by one.
LEMMA Assumed ==
    /\ MaxGen \in Nat /\ MaxClock \in Nat /\ MaxEnter \in Nat
    /\ MaxServer \in Nat /\ MaxFault \in Nat /\ MaxReuse \in Nat
    /\ Nothing \notin Int /\ Nothing \notin Rounds /\ Nothing \notin Records
  BY ReplacementAssumption, NothingAssumption

\* The fields of a record have their types.
LEMMA Fields ==
    TypeOK /\ record # Nothing
    => /\ record \in Records /\ record.phase \in Phases /\ record.server \in 0..MaxServer
       /\ record.pred \in Gens /\ record.ready \in Serials /\ record.round \in Serials
       /\ record.succ \in Gens \cup {Nothing} /\ record.tries \in 0..MaxEnter
  BY DEF TypeOK, Records

\* Writing a phase moves the record there.
LEMMA Advanced ==
    ASSUME TypeOK, record # Nothing, NEW phase \in Phases, Advance(phase)
    PROVE  Moved(phase)
<1>1. record' \in Records
  BY Fields DEF Advance, Records
<1> QED
  BY <1>1, Assumed, Fields DEF Advance, Moved, Records

\* The counts of one declaration have their types.
LEMMA Counted ==
    ASSUME TypeOK, NEW s \in Serials
    PROVE  /\ sent[s] \in Counts
           /\ sent[s].signal \in Nat /\ sent[s].launch \in Nat /\ sent[s].resume \in Nat
  BY DEF TypeOK, Counts

\* One more signal is one more, and no other count moves.
LEMMA Signalled ==
    ASSUME TypeOK, record # Nothing, sent' = [sent EXCEPT ![record.ready].signal = @ + 1]
    PROVE  Grew(1, 0, 0)
<1>1. record.ready \in Serials
  BY Fields
<1>2. sent \in [Serials -> Counts]
  BY DEF TypeOK, Counts
<1>3. sent'[record.ready] = [sent[record.ready] EXCEPT !.signal = @ + 1]
  BY <1>1, <1>2
<1>4. sent'[record.ready] \in Counts
  BY <1>1, <1>3, Counted DEF Counts
<1> QED
  BY <1>1, <1>2, <1>3, <1>4, Counted DEF Grew, Counts

\* One more launch line is one more, and no other count moves.
LEMMA LaunchedOnce ==
    ASSUME TypeOK, record # Nothing, sent' = [sent EXCEPT ![record.ready].launch = @ + 1]
    PROVE  Grew(0, 1, 0)
<1>1. record.ready \in Serials
  BY Fields
<1>2. sent \in [Serials -> Counts]
  BY DEF TypeOK, Counts
<1>3. sent'[record.ready] = [sent[record.ready] EXCEPT !.launch = @ + 1]
  BY <1>1, <1>2
<1>4. sent'[record.ready] \in Counts
  BY <1>1, <1>3, Counted DEF Counts
<1> QED
  BY <1>1, <1>2, <1>3, <1>4, Counted DEF Grew, Counts

\* One more resume line is one more, and no other count moves.
LEMMA Resumed ==
    ASSUME TypeOK, record # Nothing, sent' = [sent EXCEPT ![record.ready].resume = @ + 1]
    PROVE  Grew(0, 0, 1)
<1>1. record.ready \in Serials
  BY Fields
<1>2. sent \in [Serials -> Counts]
  BY DEF TypeOK, Counts
<1>3. sent'[record.ready] = [sent[record.ready] EXCEPT !.resume = @ + 1]
  BY <1>1, <1>2
<1>4. sent'[record.ready] \in Counts
  BY <1>1, <1>3, Counted DEF Counts
<1> QED
  BY <1>1, <1>2, <1>3, <1>4, Counted DEF Grew, Counts

-----------------------------------------------------------------------------
(* The steps                                                                *)

\* The record is opened on a ready nothing was bought with, written by the session it is to stop.
LEMMA BeginStep ==
    ASSUME IInv, Begin
    PROVE  IInv'
<1>a. /\ round # Nothing /\ round \in Rounds /\ round.at \in Serials /\ round.by \in Gens
      /\ decl.at \in Serials /\ decl.token = "ready" /\ decl.at > round.at /\ fg = round.by
  BY DEF IInv, TypeOK, Begin, Authorized, Rounds, Serials
<1>b. record' \in Records
  BY <1>a, Assumed DEF IInv, TypeOK, Begin, Records, Phases
<1>m. Opened
  BY <1>a, <1>b, Assumed DEF Opened, Begin
<1>e. sent[decl.at] = Zero
  BY <1>a, Fields
     DEF IInv, TypeOK, Begin, Passes, Spent, Stopped, RoundBound, Past, OwnReady, Open,
         Unconsumed, OfThisServer, Gone
<1>1. TypeOK'
  BY <1>m, <1>e
     DEF IInv, TypeOK, Begin, pane, files, history, OwnReady, GoTo, Tokens, Pcs, Opened
<1>2. StepPhase'
  BY <1>m, <1>e DEF IInv, StepPhase, Begin, pane, GoTo, Authorized, Rounds, Opened
<1>3. Past'
  <2>1. decl'.at <= clock'
    BY DEF IInv, Past, Begin, pane, files
  <2>2. round' # Nothing => round'.at <= clock' /\ round'.by <= born'
    BY DEF IInv, Past, Begin, pane, files
  <2>3. record' # Nothing => record'.ready <= clock' /\ record'.pred <= born'
    BY DEF IInv, Past, Begin, pane, files, Authorized, Passes
  <2>4. \A g \in live' : g <= born'
    BY DEF IInv, Past, Begin, pane, files
  <2>5. fg' \in Gens => fg' \in live'
    BY DEF IInv, Past, Begin, pane, files
  <2>6. \A s \in Serials : s > clock' => sent'[s] = Zero
    BY DEF IInv, Past, Begin, pane, files, history, Opened
  <2>7. \A hit \in hits' : hit[1] <= clock'
    BY DEF IInv, Past, Begin, pane, files, history, Opened
  <2> QED
    BY <2>1, <2>2, <2>3, <2>4, <2>5, <2>6, <2>7 DEF Past
<1>4. RoundBound'
  BY DEF IInv, RoundBound, Begin, files, Authorized
<1>5. Stopped'
  BY DEF IInv, Stopped, Begin, pane, Launched
<1>6. OneSession'
  BY DEF IInv, OneSession, Begin, pane, Passes
<1>7. Answered'
  BY DEF IInv, Answered, Begin, pane, files, history, Passes, Gone
<1>8. Asked'
  BY DEF IInv, TypeOK, Asked, Past, Answered, Begin, pane, files, history, Passes, Open,
         OfThisServer, Unconsumed, OwnReady, Gone, GoTo, Authorized, Gens, Serials, Rounds,
         Tokens
<1>9. Spent'
  BY <1>m, <1>e DEF IInv, Spent, Zero, Begin, pane, files, Opened
<1>10. Phased'
  <2>1. record' # Nothing /\ sent'[record'.ready] = Zero
    BY <1>e, <1>m DEF Opened, Begin, history
  <2> QED
    BY <2>1 DEF Phased, Zero
<1>11. AtMostOnce'
  BY DEF IInv, AtMostOnce, Begin, history
<1>12. SignalsItsAuthor'
  BY DEF IInv, SignalsItsAuthor, Begin, history
<1>13. SuccessIsReal'
  BY DEF IInv, SuccessIsReal, Begin
<1> QED
  BY <1>1, <1>2, <1>3, <1>4, <1>5, <1>6, <1>7, <1>8, <1>9, <1>10, <1>11, <1>12, <1>13 DEF IInv

\* The signal is fenced by its phase before it is sent.
LEMMA FenceStep ==
    ASSUME IInv, Fence
    PROVE  IInv'
<1>a. TypeOK /\ record # Nothing
  BY DEF IInv, StepPhase, Fence
<1>m. Advance("signal-attempted") => Moved("signal-attempted")
  BY <1>a, Advanced DEF Phases
<1>1. TypeOK'
  BY <1>a, <1>m
     DEF IInv, TypeOK, Fence, pane, files, history, InPane, GoTo, Refuse, StillAuthorized, Pcs,
         Shell, Foreign, Moved
<1>2. StepPhase'
  BY <1>m DEF IInv, StepPhase, Fence, GoTo, Refuse, Moved
<1>3. Past'
  BY <1>a, <1>m DEF IInv, Past, Zero, Fence, pane, files, history, OfThisServer, Serials, Moved
<1>4. RoundBound'
  BY <1>m DEF IInv, RoundBound, Fence, files, OwnReady, Moved
<1>5. Stopped'
  BY <1>a, <1>m DEF IInv, Stopped, Fence, pane, Gone, GoTo, Launched, Moved
<1>6. OneSession'
  BY DEF IInv, OneSession, Fence, pane, Open, InPane, StillAuthorized
<1>7. Answered'
  BY <1>a, <1>m
     DEF IInv, Answered, Fence, pane, files, history, Open, OfThisServer, Gone, GoTo, Moved
<1>8. Asked'
  BY <1>a, <1>m DEF IInv, Asked, Fence, pane, files, history, Moved
<1>9. Spent'
  <2>1. record' # Nothing /\ record'.ready = record.ready /\ decl' = decl
    BY <1>a, <1>m DEF Moved, Fence, files
  <2>2. sent' = sent
    BY DEF Fence, history
  <2> QED
    BY <2>1, <2>2 DEF IInv, Spent
<1>10. Phased'
  BY <1>m
     DEF IInv, TypeOK, Phased, StepPhase, Spent, Past, Zero, Fence, pane, files, history,
         Foreign, Phases, Moved
<1>11. AtMostOnce'
  BY DEF IInv, AtMostOnce, Fence, history
<1>12. SignalsItsAuthor'
  BY DEF IInv, SignalsItsAuthor, Fence, history
<1>13. SuccessIsReal'
  BY <1>a, <1>m DEF IInv, SuccessIsReal, Fence, pane, StillAuthorized, Worked, Gens, Moved
<1> QED
  BY <1>1, <1>2, <1>3, <1>4, <1>5, <1>6, <1>7, <1>8, <1>9, <1>10, <1>11, <1>12, <1>13 DEF IInv

\* Looking at the pane once more writes nothing.
LEMMA AimStep ==
    ASSUME IInv, Aim
    PROVE  IInv'
<1>1. TypeOK'
  BY DEF IInv, TypeOK, Aim, pane, files, history, GoTo, Refuse, Pcs, Shell
<1>2. StepPhase'
  BY DEF IInv, StepPhase, Aim, GoTo, Refuse
<1>3. Past'
  BY DEF IInv, Past, Aim, pane, files, history
<1>4. RoundBound'
  BY DEF IInv, RoundBound, Aim, files, OwnReady
<1>5. Stopped'
  BY DEF IInv, Stopped, Aim, pane, Gone
<1>6. OneSession'
  BY DEF IInv, OneSession, Aim, pane, Open
<1>7. Answered'
  BY DEF IInv, Answered, Aim, pane, files, history, Open, Gone
<1>8. Asked'
  BY DEF IInv, Asked, Aim, history
<1>9. Spent'
  BY DEF IInv, Spent, Aim, files, history
<1>10. Phased'
  BY DEF IInv, Phased, Aim, history, GoTo, Refuse
<1>11. AtMostOnce'
  BY DEF IInv, AtMostOnce, Aim, history
<1>12. SignalsItsAuthor'
  BY DEF IInv, SignalsItsAuthor, Aim, history
<1>13. SuccessIsReal'
  BY DEF IInv, SuccessIsReal, Aim, pane, Worked
<1> QED
  BY <1>1, <1>2, <1>3, <1>4, <1>5, <1>6, <1>7, <1>8, <1>9, <1>10, <1>11, <1>12, <1>13 DEF IInv

\* The one signal goes out from the phase that fences it.
LEMMA SignalStep ==
    ASSUME IInv, Signal
    PROVE  IInv'
<1>a. TypeOK /\ record # Nothing
  BY DEF IInv, StepPhase, Signal
<1>g. Grew(1, 0, 0)
  BY <1>a, Signalled DEF Signal
<1>h. /\ record.ready \in Serials /\ record.pred \in Gens
      /\ <<record.ready, record.pred>> \in Serials \X Gens
  BY <1>a, Fields
<1>i. hits' = hits \/ hits' = hits \cup {<<record.ready, record.pred>>}
  BY DEF Signal
<1>j. record.ready <= clock
  BY <1>a DEF IInv, Past
<1>1. TypeOK'
  <2>1. pc' \in Pcs
    BY DEF IInv, TypeOK, Signal, GoTo, Refuse, Pcs, Gens
  <2>2. sent' \in [Serials -> [signal : Nat, launch : Nat, resume : Nat]]
    BY <1>a, <1>g DEF IInv, Foreign, Grew, Counts
  <2>3. hits' \subseteq Serials \X Gens
    BY <1>h, <1>i DEF IInv, TypeOK, Signal
  <2>4. alerted' \in BOOLEAN
    BY DEF IInv, TypeOK, Signal, GoTo, Refuse
  <2> QED
    BY <2>1, <2>2, <2>4 DEF IInv, TypeOK, Signal, pane, files
<1>2. StepPhase'
  BY DEF IInv, StepPhase, Signal, GoTo, Refuse
<1>3. Past'
  <2>1. decl'.at <= clock'
    BY DEF IInv, TypeOK, Past, Signal, pane, files, Gens
  <2>2. round' # Nothing => round'.at <= clock' /\ round'.by <= born'
    BY DEF IInv, TypeOK, Past, Signal, pane, files, Gens
  <2>3. record' # Nothing => record'.ready <= clock' /\ record'.pred <= born'
    BY DEF IInv, TypeOK, Past, Signal, pane, files, Gens
  <2>4. \A g \in live' : g <= born'
    BY DEF IInv, TypeOK, Past, Signal, pane
  <2>5. fg' \in Gens => fg' \in live'
    BY DEF IInv, TypeOK, Past, Signal, pane
  <2>6. \A s \in Serials : s > clock' => sent'[s] = Zero
    BY <1>j DEF IInv, TypeOK, Past, Signal, files, Serials
  <2>7. \A hit \in hits' : hit[1] <= clock'
    BY Assumed, Fields, <1>a, <1>g, <1>h, <1>i, <1>j
       DEF IInv, TypeOK, Past, Signal, pane, files, Gens, Serials, Shell, Grew, Rounds, GoTo,
           Refuse
  <2> QED
    BY <2>1, <2>2, <2>3, <2>4, <2>5, <2>6, <2>7 DEF Past
<1>4. RoundBound'
  BY DEF IInv, RoundBound, Signal, files, OwnReady
<1>5. Stopped'
  BY DEF IInv, Stopped, Signal, pane, Gone
<1>6. OneSession'
  BY DEF IInv, OneSession, Signal, pane, Open
<1>7. Answered'
  BY DEF IInv, Answered, Signal, pane, files, Open, Gone
<1>8. Asked'
  BY DEF IInv, Asked, Signal
<1>9. Spent'
  BY <1>a, <1>g DEF IInv, Spent, Zero, Signal, pane, files, PidFree
<1>10. Phased'
  <2>1. record' = record /\ record.phase = "signal-attempted" /\ pc' \in {"waiting", "idle"}
    BY DEF IInv, StepPhase, Signal, GoTo, Refuse
  <2>2. /\ sent'[record.ready].launch = sent[record.ready].launch
        /\ sent'[record.ready].resume = sent[record.ready].resume
    BY <1>a, <1>g, Fields, Counted DEF Grew
  <2> QED
    BY <2>1 DEF IInv, Phased, Signal
<1>11. AtMostOnce'
  <2>1. sent[record.ready].signal = 0
    BY <1>a DEF IInv, Phased, Signal
  <2> QED
    BY <1>g, <2>1, Counted DEF IInv, AtMostOnce, Grew
<1>12. SignalsItsAuthor'
  <2>1. author' = author /\ author[record.ready] = record.pred
    BY <1>a DEF IInv, Asked, Signal
  <2> QED
    BY <2>1, <1>i DEF IInv, SignalsItsAuthor
<1>13. SuccessIsReal'
  BY DEF IInv, SuccessIsReal, Signal, pane, Worked
<1> QED
  BY <1>1, <1>2, <1>3, <1>4, <1>5, <1>6, <1>7, <1>8, <1>9, <1>10, <1>11, <1>12, <1>13 DEF IInv

\* The exit of the predecessor is written down once it is proven.
LEMMA WaitStep ==
    ASSUME IInv, Wait
    PROVE  IInv'
<1>a. TypeOK /\ record # Nothing
  BY DEF IInv, StepPhase, Wait
<1>m. Advance("stopped-awaiting-shell") => Moved("stopped-awaiting-shell")
  BY <1>a, Advanced DEF Phases
<1>1. TypeOK'
  BY <1>a, <1>m
     DEF IInv, TypeOK, Wait, pane, files, history, GoTo, Refuse, Pcs, Shell, Foreign, Moved
<1>2. StepPhase'
  BY <1>m DEF IInv, StepPhase, Wait, GoTo, Refuse, Moved
<1>3. Past'
  BY <1>a, <1>m DEF IInv, Past, Zero, Wait, pane, files, history, OfThisServer, Moved
<1>4. RoundBound'
  BY <1>m DEF IInv, RoundBound, Wait, files, OwnReady, Moved
<1>5. Stopped'
  BY <1>a, <1>m DEF IInv, Stopped, Wait, pane, Gone, PidFree, Moved
<1>6. OneSession'
  BY DEF IInv, OneSession, Wait, pane, Open, PidFree
<1>7. Answered'
  BY DEF IInv, Answered, Wait, pane, files, history, Open, Gone, PidFree
<1>8. Asked'
  BY <1>m DEF IInv, Asked, Wait, history, Moved
<1>9. Spent'
  BY <1>a, <1>m DEF IInv, Spent, Zero, Wait, pane, files, history, OfThisServer, Shell, Moved
<1>10. Phased'
  BY <1>m
     DEF IInv, TypeOK, Phased, StepPhase, Spent, Past, Zero, Wait, pane, files, history, GoTo,
         Refuse, Gens, Phases, Moved
<1>11. AtMostOnce'
  BY DEF IInv, AtMostOnce, Wait, history
<1>12. SignalsItsAuthor'
  BY DEF IInv, SignalsItsAuthor, Wait, history
<1>13. SuccessIsReal'
  BY <1>a, <1>m DEF IInv, SuccessIsReal, Wait, pane, Refuse, Worked, Moved
<1> QED
  BY <1>1, <1>2, <1>3, <1>4, <1>5, <1>6, <1>7, <1>8, <1>9, <1>10, <1>11, <1>12, <1>13 DEF IInv

\* The launch is fenced by its phase before it is typed.
LEMMA FenceLaunchStep ==
    ASSUME IInv, FenceLaunch
    PROVE  IInv'
<1>a. TypeOK /\ record # Nothing
  BY DEF IInv, StepPhase, FenceLaunch
<1>m. Advance("launch-attempted") => Moved("launch-attempted")
  BY <1>a, Advanced DEF Phases
<1>1. TypeOK'
  BY <1>a, <1>m
     DEF IInv, TypeOK, FenceLaunch, pane, files, history, GoTo, Refuse, Pcs, Shell, Foreign,
         Moved
<1>2. StepPhase'
  BY <1>m DEF IInv, StepPhase, FenceLaunch, GoTo, Refuse, Moved
<1>3. Past'
  BY <1>m DEF IInv, Past, FenceLaunch, pane, files, history, Moved
<1>4. RoundBound'
  BY <1>m DEF IInv, RoundBound, FenceLaunch, files, OwnReady, Moved
<1>5. Stopped'
  BY <1>a, <1>m
     DEF IInv, Stopped, StepPhase, Past, FenceLaunch, pane, files, OwnReady, Gone, Phases, Moved
<1>6. OneSession'
  BY <1>m DEF IInv, OneSession, FenceLaunch, pane, Open, Moved
<1>7. Answered'
  BY <1>m DEF IInv, Answered, FenceLaunch, pane, files, history, Open, Gone, Moved
<1>8. Asked'
  BY <1>m DEF IInv, Asked, FenceLaunch, history, Moved
<1>9. Spent'
  BY <1>m DEF IInv, Spent, FenceLaunch, files, history, Moved
<1>10. Phased'
  BY <1>a, <1>m
     DEF IInv, Phased, StepPhase, Zero, FenceLaunch, history, OwnReady, GoTo, Refuse, Moved
<1>11. AtMostOnce'
  BY DEF IInv, AtMostOnce, FenceLaunch, history
<1>12. SignalsItsAuthor'
  BY DEF IInv, SignalsItsAuthor, FenceLaunch, history
<1>13. SuccessIsReal'
  BY <1>m DEF IInv, SuccessIsReal, FenceLaunch, pane, Worked, Moved
<1> QED
  BY <1>1, <1>2, <1>3, <1>4, <1>5, <1>6, <1>7, <1>8, <1>9, <1>10, <1>11, <1>12, <1>13 DEF IInv

\* The one launch line goes out; it starts a new session or none.
LEMMA LaunchStep ==
    ASSUME IInv, Launch
    PROVE  IInv'
<1>a. TypeOK /\ record # Nothing
  BY DEF IInv, StepPhase, Launch
<1>g. Grew(0, 1, 0)
  BY <1>a, LaunchedOnce DEF Launch
<1>r. \/ /\ born' = born + 1 /\ live' = live \cup {born + 1} /\ fg' = born + 1
         /\ born + 1 \in Gens /\ born \in Gens /\ \A g \in live : g # born + 1
      \/ born' = born /\ live' = live /\ fg' = fg
  BY Assumed DEF IInv, Launch, TypeOK, Past, Gens
<1>p. record.pred # born + 1 /\ record.pred <= born /\ record.pred \in Gens
  BY <1>a, Fields DEF IInv, Past, TypeOK, Gens
<1>1. TypeOK'
  <2>1. born' \in Gens
    BY <1>r, <1>p DEF IInv, TypeOK
  <2>2. live' \subseteq Gens
    BY <1>r DEF IInv, TypeOK
  <2>3. fg' \in Gens \cup {Shell, Foreign}
    BY <1>r, <1>p DEF IInv, TypeOK
  <2>4. pc' \in Pcs
    BY DEF IInv, Launch, GoTo, Pcs, Gens
  <2>5. alerted' \in BOOLEAN
    BY DEF IInv, Launch, GoTo
  <2>6. sent' \in [Serials -> [signal : Nat, launch : Nat, resume : Nat]]
    BY <1>a, <1>g DEF IInv, Foreign, Grew, Counts
  <2> QED
    BY <2>2, <2>4, <2>5, <2>6 DEF IInv, TypeOK, Launch, files
<1>2. StepPhase'
  BY DEF IInv, StepPhase, Launch, GoTo
<1>3. Past'
  <2>1. decl'.at <= clock'
    BY DEF IInv, Past, Launch, files, Gens
  <2>2. round' # Nothing => round'.at <= clock' /\ round'.by <= born'
    BY Assumed, Fields, <1>a, <1>g, <1>r, <1>p
       DEF IInv, TypeOK, Past, Launch, files, Gens, Serials, Shell, Grew, Rounds, GoTo
  <2>3. record' # Nothing => record'.ready <= clock' /\ record'.pred <= born'
    BY <1>r, <1>p DEF IInv, Past, Launch, files, Gens
  <2>4. \A g \in live' : g <= born'
    <3>1. born \in Int /\ \A g \in live : g \in Int /\ g <= born
      BY Assumed DEF IInv, TypeOK, Past, Gens
    <3>2. \A g \in live : g <= born + 1
      BY <3>1
    <3> QED
      BY <1>r, <3>1
  <2>5. fg' \in Gens => fg' \in live'
    BY DEF IInv, Past, Launch
  <2>6. \A s \in Serials : s > clock' => sent'[s] = Zero
    BY Assumed, Fields, <1>a, <1>g, <1>r, <1>p
       DEF IInv, TypeOK, Past, Launch, files, Gens, Serials, Shell, Grew, Rounds, GoTo
  <2>7. \A hit \in hits' : hit[1] <= clock'
    BY DEF IInv, Past, Launch, files, Gens
  <2> QED
    BY <2>1, <2>2, <2>3, <2>4, <2>5, <2>6, <2>7 DEF Past
<1>4. RoundBound'
  BY DEF IInv, RoundBound, Launch, files, OwnReady
<1>5. Stopped'
  BY <1>r, <1>p DEF IInv, Stopped, Launch, files, Gone, GoTo
<1>6. OneSession'
  BY Assumed, Fields, <1>a, <1>g, <1>r, <1>p
     DEF IInv, TypeOK, OneSession, Stopped, StepPhase, Past, Grew, Counts, Launch, files, Open,
         OfThisServer, OwnReady, InPane, GoTo, Gens, Serials, Rounds, Tokens, Pcs, Launched,
         Shell, Foreign, Phases
<1>7. Answered'
  <2>1. round # Nothing => round.by # born + 1
    BY DEF IInv, TypeOK, Past, Gens
  <2>2. decl' = decl /\ round' = round /\ record' = record /\ author' = author
    BY DEF Launch, files
  <2>3. round # Nothing /\ Gone(round.by) => Gone(round.by)'
    BY <2>1, <2>2, <1>r DEF Gone
  <2> QED
    BY <2>2, <2>3 DEF IInv, Answered, Open
<1>8. Asked'
  BY DEF IInv, Asked, Launch
<1>9. Spent'
  BY <1>a, <1>g DEF IInv, Spent, Counts, Launch, files, OfThisServer
<1>10. Phased'
  <2>1. record' = record /\ record.phase = "launch-attempted" /\ pc' \in {"idle"}
    BY DEF IInv, StepPhase, Launch, GoTo
  <2>2. sent'[record.ready].resume = sent[record.ready].resume
    BY <1>a, <1>g, Fields, Counted DEF Grew
  <2> QED
    BY <2>1 DEF IInv, Phased, Launch
<1>11. AtMostOnce'
  <2>1. sent[record.ready].launch = 0
    BY <1>a DEF IInv, Phased, Launch
  <2> QED
    BY <1>g, <2>1, Counted DEF IInv, AtMostOnce, Grew
<1>12. SignalsItsAuthor'
  BY DEF IInv, SignalsItsAuthor, Launch
<1>13. SuccessIsReal'
  BY DEF IInv, SuccessIsReal, Launch, Worked
<1> QED
  BY <1>1, <1>2, <1>3, <1>4, <1>5, <1>6, <1>7, <1>8, <1>9, <1>10, <1>11, <1>12, <1>13 DEF IInv

\* A signal found attempted is never sent again.
LEMMA RecoverSignalStep ==
    ASSUME IInv, RecoverSignal
    PROVE  IInv'
<1>a. TypeOK /\ record # Nothing
  BY DEF IInv, RecoverSignal, In, OfThisServer
<1>m. Advance("stopped-awaiting-shell") => Moved("stopped-awaiting-shell")
  BY <1>a, Advanced DEF Phases
<1>1. TypeOK'
  BY <1>a, <1>m
     DEF IInv, TypeOK, RecoverSignal, pane, files, history, PidFree, GoTo, Refuse, Gens, Tokens,
         Pcs, Moved
<1>2. StepPhase'
  BY <1>m DEF IInv, StepPhase, RecoverSignal, GoTo, Refuse, Moved
<1>3. Past'
  BY <1>a, <1>m DEF IInv, Past, Zero, RecoverSignal, pane, files, history, OfThisServer, Moved
<1>4. RoundBound'
  BY <1>m DEF IInv, RoundBound, RecoverSignal, files, OwnReady, Moved
<1>5. Stopped'
  BY <1>a, <1>m DEF IInv, Stopped, RecoverSignal, pane, In, Gone, PidFree, GoTo, Moved
<1>6. OneSession'
  BY DEF IInv, OneSession, RecoverSignal, pane, Open, PidFree
<1>7. Answered'
  BY DEF IInv, Answered, RecoverSignal, pane, files, history, Open, Gone, PidFree
<1>8. Asked'
  BY <1>m DEF IInv, Asked, RecoverSignal, history, Moved
<1>9. Spent'
  BY <1>a, <1>m
     DEF IInv, Spent, Zero, RecoverSignal, pane, files, history, OfThisServer, Serials, Moved
<1>10. Phased'
  BY <1>m DEF IInv, Phased, RecoverSignal, history, In, GoTo, Refuse, Moved
<1>11. AtMostOnce'
  BY DEF IInv, AtMostOnce, RecoverSignal, history
<1>12. SignalsItsAuthor'
  BY DEF IInv, SignalsItsAuthor, RecoverSignal, history
<1>13. SuccessIsReal'
  BY <1>a, <1>m DEF IInv, SuccessIsReal, RecoverSignal, pane, Worked, Gens, Moved
<1> QED
  BY <1>1, <1>2, <1>3, <1>4, <1>5, <1>6, <1>7, <1>8, <1>9, <1>10, <1>11, <1>12, <1>13 DEF IInv

\* A launch is attempted only from the phase that says none was.
LEMMA RelaunchStep ==
    ASSUME IInv, Relaunch
    PROVE  IInv'
<1>a. TypeOK /\ record # Nothing
  BY DEF IInv, StepPhase, Relaunch, In, OfThisServer
<1>m. Advance("launch-attempted") => Moved("launch-attempted")
  BY <1>a, Advanced DEF Phases
<1>1. TypeOK'
  BY <1>a, <1>m
     DEF IInv, TypeOK, Relaunch, pane, files, history, GoTo, Refuse, Pcs, Shell, Foreign, Moved
<1>2. StepPhase'
  BY <1>a, <1>m DEF IInv, StepPhase, Relaunch, pane, GoTo, Refuse, Shell, Moved
<1>3. Past'
  BY <1>a, <1>m DEF IInv, Past, Zero, Relaunch, pane, files, history, OfThisServer, Moved
<1>4. RoundBound'
  BY <1>a, <1>m
     DEF IInv, RoundBound, Relaunch, pane, files, OfThisServer, OwnReady, InPane, Shell, Moved
<1>5. Stopped'
  BY <1>a, <1>m DEF IInv, Stopped, Relaunch, pane, Gone, PidFree, Moved
<1>6. OneSession'
  BY DEF IInv, OneSession, Relaunch, pane, Open, PidFree
<1>7. Answered'
  BY DEF IInv, Answered, Relaunch, pane, files, history, Open, Gone, PidFree
<1>8. Asked'
  BY <1>a, <1>m DEF IInv, Asked, Relaunch, pane, files, history, Shell, Moved
<1>9. Spent'
  BY <1>a, <1>m
     DEF IInv, Spent, Zero, Relaunch, pane, files, history, OfThisServer, Shell, Moved
<1>10. Phased'
  BY <1>m
     DEF IInv, TypeOK, Phased, StepPhase, Spent, Past, Zero, Relaunch, pane, files, history, In,
         PidFree, GoTo, Refuse, Gens, Serials, Moved
<1>11. AtMostOnce'
  BY DEF IInv, AtMostOnce, Relaunch, history
<1>12. SignalsItsAuthor'
  BY DEF IInv, SignalsItsAuthor, Relaunch, history
<1>13. SuccessIsReal'
  BY <1>a, <1>m DEF IInv, SuccessIsReal, Relaunch, pane, Refuse, Worked, Moved
<1> QED
  BY <1>1, <1>2, <1>3, <1>4, <1>5, <1>6, <1>7, <1>8, <1>9, <1>10, <1>11, <1>12, <1>13 DEF IInv

\* A successor is written down.
LEMMA ObserveStep ==
    ASSUME IInv, Observe
    PROVE  IInv'
<1>a. TypeOK /\ record # Nothing
  BY DEF IInv, Observe, In, OfThisServer
<1>b. record' # record =>
          /\ record' = [record EXCEPT !.phase = "successor-observed", !.succ = fg]
          /\ fg \in Gens
  BY DEF Observe, Proven
<1>c. record' # record => record' \in Records
  BY <1>a, <1>b, Fields DEF Records, Phases
<1>m2. pc' = "observed" => Moved("successor-observed")
  BY <1>a, <1>c, Fields, Assumed DEF Moved, Records, Observe, Refuse
<1>1. TypeOK'
  BY <1>c, <1>m2 DEF IInv, TypeOK, Observe, pane, files, history, GoTo, Refuse, Tokens, Pcs
<1>2. StepPhase'
  BY <1>c, <1>m2 DEF IInv, StepPhase, Observe, pane, GoTo, Refuse, Moved
<1>3. Past'
  BY <1>c, <1>m2
     DEF IInv, Past, Zero, Observe, pane, files, history, OfThisServer, In, GoTo, Moved
<1>4. RoundBound'
  BY <1>c, <1>m2
     DEF IInv, RoundBound, Observe, pane, files, OfThisServer, OwnReady, In, GoTo, Refuse, Moved
<1>5. Stopped'
  BY <1>c, <1>m2 DEF IInv, Stopped, Observe, pane, In, Gone, GoTo, Refuse, Launched, Moved
<1>6. OneSession'
  BY DEF IInv, OneSession, Observe, pane, Open, Gone, Proven
<1>7. Answered'
  BY DEF IInv, Answered, Observe, pane, files, history, Open, Gone, Proven
<1>8. Asked'
  BY <1>c, <1>m2 DEF IInv, Asked, Observe, pane, files, history, GoTo, Refuse, Moved
<1>9. Spent'
  BY <1>c, <1>m2
     DEF IInv, Spent, Zero, Observe, pane, files, history, OfThisServer, In, GoTo, Moved
<1>10. Phased'
  BY <1>c, <1>m2
     DEF IInv, Phased, Observe, pane, files, history, OfThisServer, In, GoTo, Refuse, Moved
<1>11. AtMostOnce'
  BY DEF IInv, AtMostOnce, Observe, history
<1>12. SignalsItsAuthor'
  BY DEF IInv, SignalsItsAuthor, Observe, history
<1>13. SuccessIsReal'
  BY <1>c, <1>m2 DEF IInv, SuccessIsReal, Observe, pane, In, GoTo, Moved
<1> QED
  BY <1>1, <1>2, <1>3, <1>4, <1>5, <1>6, <1>7, <1>8, <1>9, <1>10, <1>11, <1>12, <1>13 DEF IInv

\* The resume line is fenced by its phase before it is pasted.
LEMMA FenceResumeStep ==
    ASSUME IInv, FenceResume
    PROVE  IInv'
<1>a. TypeOK /\ record # Nothing
  BY DEF IInv, StepPhase, FenceResume
<1>m. Advance("resume-attempted") => Moved("resume-attempted")
  BY <1>a, Advanced DEF Phases
<1>1. TypeOK'
  BY <1>a, <1>m
     DEF IInv, TypeOK, FenceResume, pane, files, history, GoTo, Refuse, Pcs, Shell, Foreign,
         Moved
<1>2. StepPhase'
  BY <1>m DEF IInv, StepPhase, FenceResume, GoTo, Refuse, Moved
<1>3. Past'
  BY <1>m DEF IInv, Past, FenceResume, pane, files, history, Moved
<1>4. RoundBound'
  BY <1>m DEF IInv, RoundBound, FenceResume, files, OwnReady, Moved
<1>5. Stopped'
  BY <1>a, <1>m
     DEF IInv, Stopped, StepPhase, Past, FenceResume, pane, files, OwnReady, Gone, Pcs,
         Launched, Phases, Moved
<1>6. OneSession'
  BY <1>m DEF IInv, OneSession, FenceResume, pane, Open, Moved
<1>7. Answered'
  BY <1>m DEF IInv, Answered, FenceResume, pane, files, history, Open, Gone, Moved
<1>8. Asked'
  BY <1>m DEF IInv, Asked, FenceResume, history, Moved
<1>9. Spent'
  BY <1>m DEF IInv, Spent, FenceResume, files, history, Moved
<1>10. Phased'
  BY <1>a, <1>m
     DEF IInv, Phased, StepPhase, Zero, FenceResume, history, OwnReady, GoTo, Refuse, Moved
<1>11. AtMostOnce'
  BY DEF IInv, AtMostOnce, FenceResume, history
<1>12. SignalsItsAuthor'
  BY DEF IInv, SignalsItsAuthor, FenceResume, history
<1>13. SuccessIsReal'
  BY <1>m DEF IInv, SuccessIsReal, FenceResume, pane, Worked, Moved
<1> QED
  BY <1>1, <1>2, <1>3, <1>4, <1>5, <1>6, <1>7, <1>8, <1>9, <1>10, <1>11, <1>12, <1>13 DEF IInv

\* The one resume line goes out; a confirmed delivery is a turn of a session that
\* is not the predecessor.
LEMMA SubmitStep ==
    ASSUME IInv, Submit
    PROVE  IInv'
<1>a. TypeOK /\ record # Nothing
  BY DEF IInv, StepPhase, Submit
<1>m. Advance("completed") => Moved("completed")
  BY <1>a, Advanced DEF Phases
<1>g. Grew(0, 0, 1)
  BY <1>a, Resumed DEF Submit
<1>1. TypeOK'
  <2>1. inbox' \in [Gens -> {"none", "pending", "consumed", "other"}]
    BY Assumed, Fields, <1>a, <1>m, <1>g
       DEF IInv, TypeOK, Submit, GoTo, Refuse, Deliver, Reached, Pcs, Gens, Serials, Shell,
           Foreign, Moved, Grew, Counts
  <2>2. record' \in Records \cup {Nothing}
    BY <1>a, <1>m DEF IInv, TypeOK, Submit, Deliver, Reached, Foreign, Moved
  <2>3. pc' \in Pcs
    BY DEF IInv, TypeOK, Submit, GoTo, Refuse, Deliver, Reached, Pcs, Gens
  <2>4. alerted' \in BOOLEAN
    BY DEF IInv, TypeOK, Submit, GoTo, Refuse, Deliver, Reached
  <2>5. sent' \in [Serials -> [signal : Nat, launch : Nat, resume : Nat]]
    BY <1>g DEF IInv, Grew, Counts
  <2> QED
    BY <2>1, <2>2, <2>3, <2>4, <2>5 DEF IInv, TypeOK, Submit, files
<1>2. StepPhase'
  BY <1>a, <1>m
     DEF IInv, StepPhase, Grew, Counts, Submit, OwnReady, GoTo, Refuse, Reached, Deliver, Gens,
         Serials, Moved
<1>3. Past'
  <2>1. decl'.at <= clock'
    BY DEF IInv, TypeOK, Past, Submit, files
  <2>2. round' # Nothing => round'.at <= clock' /\ round'.by <= born'
    BY DEF IInv, TypeOK, Past, Submit, files
  <2>3. record' # Nothing => record'.ready <= clock' /\ record'.pred <= born'
    BY <1>a, <1>m DEF IInv, TypeOK, Past, Submit, files, Moved, Gens, GoTo, Deliver
  <2>4. \A g \in live' : g <= born'
    BY DEF IInv, TypeOK, Past, Submit, files
  <2>5. fg' \in Gens => fg' \in live'
    BY DEF IInv, TypeOK, Past, Submit, files
  <2>6. \A s \in Serials : s > clock' => sent'[s] = Zero
    BY <1>a, <1>m DEF IInv, TypeOK, Past, Submit, files, Serials, Shell
  <2>7. \A hit \in hits' : hit[1] <= clock'
    BY DEF IInv, TypeOK, Past, Submit, files
  <2> QED
    BY <2>1, <2>2, <2>3, <2>4, <2>5, <2>6, <2>7 DEF Past
<1>4. RoundBound'
  BY <1>a, <1>m
     DEF IInv, RoundBound, Grew, Counts, Submit, files, OfThisServer, OwnReady, GoTo, Deliver,
         Gens, Serials, Moved
<1>5. Stopped'
  BY <1>m, <1>g
     DEF IInv, TypeOK, Stopped, StepPhase, Submit, files, OfThisServer, OwnReady, Gone, GoTo,
         Refuse, Reached, Deliver, Tokens, Pcs, Launched, Moved
<1>6. OneSession'
  BY DEF IInv, TypeOK, OneSession, Stopped, StepPhase, Past, Grew, Counts, Submit, files, Gone,
         GoTo, Refuse, Pcs, Launched, Shell
<1>7. Answered'
  BY DEF IInv, TypeOK, Answered, Past, Stopped, StepPhase, OneSession, Counts, Submit, files,
         Gone, GoTo, Refuse, Pcs, Launched, Shell
<1>8. Asked'
  BY <1>a, <1>m DEF IInv, Asked, Grew, Counts, Submit, Reached, Deliver, Moved
<1>9. Spent'
  <2>1. record' # Nothing /\ record'.ready = record.ready /\ decl' = decl
    BY <1>a, <1>m DEF Moved, Submit, Deliver, files
  <2>2. \A s \in Serials : s # record.ready => sent'[s] = sent[s]
    BY <1>g DEF Grew
  <2> QED
    BY <2>1, <2>2 DEF IInv, Spent
<1>10. Phased'
  BY <1>m, <1>g
     DEF IInv, TypeOK, Phased, StepPhase, Grew, Counts, Submit, GoTo, Refuse, Reached, Deliver,
         Gens, Serials, Moved
<1>11. AtMostOnce'
  BY Assumed, Fields, <1>a, <1>m, <1>g
     DEF IInv, TypeOK, AtMostOnce, Phased, StepPhase, Grew, Counts, Submit, files, OfThisServer,
         OwnReady, GoTo, Refuse, Reached, Deliver, Gens, Serials, Rounds, Tokens, Pcs, Shell,
         Foreign, Phases, Moved
<1>12. SignalsItsAuthor'
  BY DEF IInv, SignalsItsAuthor, Submit
<1>13. SuccessIsReal'
  <2>1. record.phase = "resume-attempted" /\ Gone(record.pred)
    BY DEF IInv, StepPhase, Stopped, Launched, Submit
  <2>2. \/ record' = record
        \/ Moved("completed") /\ Reached /\ inbox' = [inbox EXCEPT ![fg] = "consumed"]
    BY <1>m DEF Submit, Deliver
  <2>3. CASE record' = record
    BY <2>1, <2>3 DEF SuccessIsReal
  <2>4. CASE Moved("completed") /\ Reached /\ inbox' = [inbox EXCEPT ![fg] = "consumed"]
    <3>1. fg \in Gens /\ fg # record.pred
      BY <2>1, <2>4 DEF Reached, IInv, Past, Gone
    <3>2. inbox'[fg] = "consumed" /\ record'.pred = record.pred
      BY <2>4, <3>1 DEF IInv, TypeOK, Moved
    <3> QED
      BY <3>1, <3>2 DEF SuccessIsReal, Worked
  <2> QED
    BY <2>2, <2>3, <2>4
<1> QED
  BY <1>1, <1>2, <1>3, <1>4, <1>5, <1>6, <1>7, <1>8, <1>9, <1>10, <1>11, <1>12, <1>13 DEF IInv

\* A retry types no second line.
LEMMA RetryStep ==
    ASSUME IInv, Retry
    PROVE  IInv'
<1>a. TypeOK /\ record # Nothing
  BY DEF IInv, Retry, In, OfThisServer
<1>m. Advance("completed") => Moved("completed")
  BY <1>a, Advanced DEF Phases
<1>n. pc' = "entering" => Moved("resume-attempted")
  BY Assumed DEF IInv, Moved, Records, Retry, MayEnter, GoTo, In, OfThisServer, TypeOK
<1>1. TypeOK'
  BY <1>a, <1>m, <1>n
     DEF IInv, TypeOK, Retry, pane, files, history, OfThisServer, In, GoTo, Refuse, Proven,
         Tokens, Pcs, Moved
<1>2. StepPhase'
  BY <1>a, <1>m, <1>n DEF IInv, StepPhase, Retry, In, GoTo, Refuse, Proven, Moved
<1>3. Past'
  BY <1>a, <1>m, <1>n DEF IInv, Past, Zero, Retry, pane, files, history, GoTo, Refuse, Moved
<1>4. RoundBound'
  BY <1>a, <1>m, <1>n
     DEF IInv, RoundBound, Retry, pane, files, OfThisServer, OwnReady, In, GoTo, Moved
<1>5. Stopped'
  BY <1>a, <1>m, <1>n
     DEF IInv, Stopped, Retry, pane, files, Gone, GoTo, Refuse, Proven, Launched, Moved
<1>6. OneSession'
  BY DEF IInv, OneSession, Retry, pane, files, Open, Gone, GoTo, Refuse, Proven
<1>7. Answered'
  BY DEF IInv, Answered, Retry, pane, files, history, Open, OfThisServer, In, Gone, Proven,
         Worked
<1>8. Asked'
  BY <1>a, <1>m, <1>n DEF IInv, Asked, Retry, history, OfThisServer, In, GoTo, Moved
<1>9. Spent'
  <2>1. record' # Nothing /\ record'.ready = record.ready /\ decl' = decl
    BY <1>a, <1>m, <1>n DEF Moved, Retry, files, GoTo
  <2>2. sent' = sent
    BY DEF Retry, history
  <2> QED
    BY <2>1, <2>2 DEF IInv, Spent
<1>10. Phased'
  BY <1>a, <1>m, <1>n DEF IInv, Phased, Retry, OfThisServer, In, GoTo, Refuse, Gens, Moved
<1>11. AtMostOnce'
  BY DEF IInv, AtMostOnce, Retry, history
<1>12. SignalsItsAuthor'
  BY DEF IInv, SignalsItsAuthor, Retry, history
<1>13. SuccessIsReal'
  BY <1>a, <1>m, <1>n
     DEF IInv, SuccessIsReal, Retry, pane, files, GoTo, Refuse, Proven, Worked, Gens, Moved
<1> QED
  BY <1>1, <1>2, <1>3, <1>4, <1>5, <1>6, <1>7, <1>8, <1>9, <1>10, <1>11, <1>12, <1>13 DEF IInv

\* Another Enter may confirm the delivery.
LEMMA EnterStep ==
    ASSUME IInv, Enter
    PROVE  IInv'
<1>a. TypeOK /\ record # Nothing
  BY DEF IInv, StepPhase, Enter
<1>m. Advance("completed") => Moved("completed")
  BY <1>a, Advanced DEF Phases
<1>1. TypeOK'
  <2>1. inbox' \in [Gens -> {"none", "pending", "consumed", "other"}]
    BY DEF IInv, TypeOK, Enter, GoTo, Refuse, Deliver
  <2>2. record' \in Records \cup {Nothing}
    BY <1>a, <1>m DEF IInv, TypeOK, Enter, GoTo, Refuse, Deliver, Moved
  <2>3. pc' \in Pcs
    BY DEF IInv, Enter, GoTo, Refuse, Deliver, Reached, Pcs
  <2>4. alerted' \in BOOLEAN
    BY DEF IInv, Enter, GoTo, Refuse, Deliver
  <2> QED
    BY <2>1, <2>2, <2>3, <2>4 DEF IInv, TypeOK, Enter, files, history
<1>2. StepPhase'
  BY <1>m DEF IInv, StepPhase, Enter, GoTo, Refuse, Deliver, Moved
<1>3. Past'
  BY <1>a, <1>m DEF IInv, Past, Zero, Enter, files, history, Deliver, Gens, Serials, Moved
<1>4. RoundBound'
  BY <1>m DEF IInv, RoundBound, Enter, files, OwnReady, Deliver, Moved
<1>5. Stopped'
  BY <1>a, <1>m
     DEF IInv, Stopped, StepPhase, Past, Enter, OwnReady, Gone, Reached, Deliver, Pcs, Launched,
         Phases, Moved
<1>6. OneSession'
  BY DEF IInv, OneSession, Stopped, StepPhase, Past, Enter, files, Gone, GoTo, Refuse, Pcs,
         Launched, Shell
<1>7. Answered'
  BY DEF IInv, Answered, Past, Stopped, StepPhase, OneSession, RoundBound, Asked, Enter, files,
         history, Open, OfThisServer, OwnReady, Gone, GoTo, Tokens, Pcs, Launched
<1>8. Asked'
  BY <1>m DEF IInv, Asked, Enter, history, Deliver, Moved
<1>9. Spent'
  <2>1. record' # Nothing /\ record'.ready = record.ready /\ decl' = decl
    BY <1>a, <1>m DEF Moved, Enter, Deliver, files
  <2>2. sent' = sent
    BY DEF Enter, history
  <2> QED
    BY <2>1, <2>2 DEF IInv, Spent
<1>10. Phased'
  BY <1>m DEF IInv, Phased, Enter, history, GoTo, Refuse, Deliver, Moved
<1>11. AtMostOnce'
  BY DEF IInv, AtMostOnce, Enter, history
<1>12. SignalsItsAuthor'
  BY DEF IInv, SignalsItsAuthor, Enter, history
<1>13. SuccessIsReal'
  <2>1. record.phase = "resume-attempted" /\ Gone(record.pred)
    BY DEF IInv, StepPhase, Stopped, Launched, Enter
  <2>2. \/ record' = record
        \/ Moved("completed") /\ Reached /\ inbox' = [inbox EXCEPT ![fg] = "consumed"]
    BY <1>m DEF Enter, Deliver
  <2>3. CASE record' = record
    BY <2>1, <2>3 DEF SuccessIsReal
  <2>4. CASE Moved("completed") /\ Reached /\ inbox' = [inbox EXCEPT ![fg] = "consumed"]
    <3>1. fg \in Gens /\ fg # record.pred
      BY <2>1, <2>4 DEF Reached, IInv, Past, Gone
    <3>2. inbox'[fg] = "consumed" /\ record'.pred = record.pred
      BY <2>4, <3>1 DEF IInv, TypeOK, Moved
    <3> QED
      BY <3>1, <3>2 DEF SuccessIsReal, Worked
  <2> QED
    BY <2>2, <2>3, <2>4
<1> QED
  BY <1>1, <1>2, <1>3, <1>4, <1>5, <1>6, <1>7, <1>8, <1>9, <1>10, <1>11, <1>12, <1>13 DEF IInv

\* A finished replacement whose ready still stands is consumed.
LEMMA ReconsumeStep ==
    ASSUME IInv, Reconsume
    PROVE  IInv'
<1>1. TypeOK'
  BY DEF IInv, TypeOK, Reconsume, pane, files, history, OwnReady, GoTo, Pcs, Shell
<1>2. StepPhase'
  BY DEF IInv, StepPhase, Reconsume, Unconsumed, OwnReady, GoTo
<1>3. Past'
  BY DEF IInv, Past, Reconsume, pane, files, history
<1>4. RoundBound'
  BY DEF IInv, RoundBound, Reconsume, files, OwnReady
<1>5. Stopped'
  BY DEF IInv, Stopped, Reconsume, pane, Gone
<1>6. OneSession'
  BY DEF IInv, OneSession, Reconsume, pane, Open
<1>7. Answered'
  BY DEF IInv, Answered, Reconsume, pane, files, history, Open, Gone
<1>8. Asked'
  BY DEF IInv, Asked, Reconsume, history
<1>9. Spent'
  BY DEF IInv, Spent, Reconsume, files, Unconsumed, OwnReady
<1>10. Phased'
  BY DEF IInv, Phased, Reconsume, Unconsumed, GoTo
<1>11. AtMostOnce'
  BY DEF IInv, AtMostOnce, Reconsume, history
<1>12. SignalsItsAuthor'
  BY DEF IInv, SignalsItsAuthor, Reconsume, history
<1>13. SuccessIsReal'
  BY DEF IInv, SuccessIsReal, Reconsume, pane, Worked
<1> QED
  BY <1>1, <1>2, <1>3, <1>4, <1>5, <1>6, <1>7, <1>8, <1>9, <1>10, <1>11, <1>12, <1>13 DEF IInv

\* The ready goes first.
LEMMA ConsumeStep ==
    ASSUME IInv, Consume
    PROVE  IInv'
<1>d. decl' \in [token : Tokens, at : 0..MaxClock] /\ decl'.token = "diag" /\ decl'.at = 0
  BY Assumed DEF Consume, Tokens
<1>1. TypeOK'
  <2>1. pc' \in Pcs
    BY DEF IInv, Consume, GoTo, Pcs
  <2>2. alerted' \in BOOLEAN
    BY DEF IInv, Consume, GoTo
  <2>3. decl' \in [token : Tokens, at : 0..MaxClock]
    BY <1>d DEF IInv
  <2> QED
    BY <2>1, <2>2, <2>3 DEF IInv, TypeOK, Consume, pane, history
<1>2. StepPhase'
  BY DEF IInv, StepPhase, Consume, OwnReady, GoTo
<1>3. Past'
  BY DEF IInv, TypeOK, Past, Consume, pane, history, OwnReady
<1>4. RoundBound'
  BY DEF IInv, RoundBound, Consume, OwnReady
<1>5. Stopped'
  BY DEF IInv, Stopped, Consume, pane, Gone
<1>6. OneSession'
  BY DEF IInv, OneSession, Consume, pane, Open
<1>7. Answered'
  BY DEF IInv, Answered, Consume
<1>8. Asked'
  BY DEF IInv, Asked, Consume, history
<1>9. Spent'
  BY DEF IInv, Spent, Consume
<1>10. Phased'
  BY DEF IInv, Phased, Consume, history, GoTo
<1>11. AtMostOnce'
  BY DEF IInv, AtMostOnce, Consume, history
<1>12. SignalsItsAuthor'
  BY DEF IInv, SignalsItsAuthor, Consume, history
<1>13. SuccessIsReal'
  BY DEF IInv, SuccessIsReal, Consume, pane, Worked
<1> QED
  BY <1>1, <1>2, <1>3, <1>4, <1>5, <1>6, <1>7, <1>8, <1>9, <1>10, <1>11, <1>12, <1>13 DEF IInv

\* The round goes after the ready.
LEMMA CloseStep ==
    ASSUME IInv, Close
    PROVE  IInv'
<1>1. TypeOK'
  BY DEF IInv, TypeOK, Close, pane, history, GoTo, Pcs
<1>2. StepPhase'
  BY DEF IInv, StepPhase, Close, GoTo
<1>3. Past'
  BY DEF IInv, Past, Close, pane, history
<1>4. RoundBound'
  BY DEF IInv, RoundBound, Past, StepPhase, Close, pane, OwnReady
<1>5. Stopped'
  BY DEF IInv, Stopped, Close, pane, Gone
<1>6. OneSession'
  BY DEF IInv, OneSession, Close, pane, Open
<1>7. Answered'
  BY DEF IInv, Answered, Close
<1>8. Asked'
  BY DEF IInv, Asked, Close, history
<1>9. Spent'
  BY DEF IInv, Spent, Close, history
<1>10. Phased'
  BY DEF IInv, Phased, Close, history, GoTo
<1>11. AtMostOnce'
  BY DEF IInv, AtMostOnce, Close, history
<1>12. SignalsItsAuthor'
  BY DEF IInv, SignalsItsAuthor, Close, history
<1>13. SuccessIsReal'
  BY DEF IInv, SuccessIsReal, Close, pane, Worked
<1> QED
  BY <1>1, <1>2, <1>3, <1>4, <1>5, <1>6, <1>7, <1>8, <1>9, <1>10, <1>11, <1>12, <1>13 DEF IInv

\* The record of a dead server loses its ready before it is put away.
LEMMA RetireDeadStep ==
    ASSUME IInv, RetireDead
    PROVE  IInv'
<1>d. \/ decl' = decl /\ round' = round
      \/ /\ decl' \in [token : Tokens, at : 0..MaxClock] /\ decl'.token = "diag" /\ decl'.at = 0
         /\ round' = Nothing
  BY Assumed DEF RetireDead, Tokens
<1>o. decl' = decl => ~OwnReady
  BY DEF RetireDead, OwnReady
<1>q. record # Nothing /\ Gone(record.pred)
  BY DEF IInv, RetireDead, Open, OfThisServer, Stopped
<1>1. TypeOK'
  <2>1. decl' \in [token : Tokens, at : 0..MaxClock]
    BY <1>d DEF IInv, TypeOK
  <2>2. round' \in Rounds \cup {Nothing}
    BY DEF IInv, TypeOK, RetireDead
  <2>3. pc' \in Pcs
    BY DEF IInv, RetireDead, GoTo, Pcs
  <2>4. alerted' \in BOOLEAN
    BY DEF IInv, RetireDead, GoTo
  <2> QED
    BY <2>1, <2>3, <2>4 DEF IInv, TypeOK, RetireDead, pane, history
<1>2. StepPhase'
  BY <1>q DEF IInv, StepPhase, RetireDead, pane, OwnReady, Gone, GoTo
<1>3. Past'
  <2>1. decl'.at <= clock'
    BY DEF IInv, TypeOK, Past, RetireDead, pane
  <2>2. round' # Nothing => round'.at <= clock' /\ round'.by <= born'
    BY DEF IInv, TypeOK, Past, RetireDead, pane
  <2>3. record' # Nothing => record'.ready <= clock' /\ record'.pred <= born'
    BY DEF IInv, TypeOK, Past, RetireDead, pane
  <2>4. \A g \in live' : g <= born'
    BY DEF IInv, TypeOK, Past, RetireDead, pane
  <2>5. fg' \in Gens => fg' \in live'
    BY DEF IInv, TypeOK, Past, RetireDead, pane
  <2>6. \A s \in Serials : s > clock' => sent'[s] = Zero
    BY DEF IInv, TypeOK, Past, RetireDead, pane, history, Gens
  <2>7. \A hit \in hits' : hit[1] <= clock'
    BY DEF IInv, TypeOK, Past, RetireDead, pane, history, Gens
  <2> QED
    BY <2>1, <2>2, <2>3, <2>4, <2>5, <2>6, <2>7 DEF Past
<1>4. RoundBound'
  BY DEF IInv, RoundBound, RetireDead, OwnReady
<1>5. Stopped'
  BY DEF IInv, Stopped, RetireDead, pane, Gone
<1>6. OneSession'
  BY DEF IInv, OneSession, RetireDead, pane, Open
<1>7. Answered'
  BY DEF IInv, Answered, RetireDead, pane, history, Open, Gone
<1>8. Asked'
  BY DEF IInv, Asked, RetireDead, history
<1>9. Spent'
  BY DEF IInv, Spent, RetireDead, history
<1>10. Phased'
  BY DEF IInv, Phased, RetireDead, history, GoTo
<1>11. AtMostOnce'
  BY DEF IInv, AtMostOnce, RetireDead, history
<1>12. SignalsItsAuthor'
  BY DEF IInv, SignalsItsAuthor, RetireDead, history
<1>13. SuccessIsReal'
  BY DEF IInv, SuccessIsReal, RetireDead, Open
<1> QED
  BY <1>1, <1>2, <1>3, <1>4, <1>5, <1>6, <1>7, <1>8, <1>9, <1>10, <1>11, <1>12, <1>13 DEF IInv

\* A record overtaken by a third session loses its ready, or never had it.
LEMMA RetireThirdStep ==
    ASSUME IInv, RetireThird
    PROVE  IInv'
<1>d. \/ decl' = decl /\ round' = round
      \/ /\ decl' \in [token : Tokens, at : 0..MaxClock] /\ decl'.token = "none" /\ decl'.at = 0
         /\ round' = Nothing
  BY Assumed DEF RetireThird, Tokens
<1>o. decl' = decl => ~OwnReady
  BY DEF IInv, RetireThird, OwnReady, RoundBound
<1>q. record # Nothing /\ Gone(record.pred)
  BY DEF IInv, RetireThird, In, OfThisServer, Stopped, Launched
<1>1. TypeOK'
  <2>1. decl' \in [token : Tokens, at : 0..MaxClock]
    BY <1>d DEF IInv, TypeOK
  <2>2. round' \in Rounds \cup {Nothing}
    BY DEF IInv, TypeOK, RetireThird
  <2>3. pc' \in Pcs
    BY DEF IInv, RetireThird, GoTo, Pcs
  <2>4. alerted' \in BOOLEAN
    BY DEF IInv, RetireThird, GoTo
  <2> QED
    BY <2>1, <2>3, <2>4 DEF IInv, TypeOK, RetireThird, pane, history
<1>2. StepPhase'
  BY <1>d, <1>o, <1>q
     DEF IInv, StepPhase, RetireThird, pane, OfThisServer, OwnReady, In, Gone, GoTo
<1>3. Past'
  <2>1. decl'.at <= clock'
    BY DEF IInv, TypeOK, Past, RetireThird, pane
  <2>2. round' # Nothing => round'.at <= clock' /\ round'.by <= born'
    BY DEF IInv, TypeOK, Past, RetireThird, pane
  <2>3. record' # Nothing => record'.ready <= clock' /\ record'.pred <= born'
    BY DEF IInv, TypeOK, Past, RetireThird, pane
  <2>4. \A g \in live' : g <= born'
    BY DEF IInv, TypeOK, Past, RetireThird, pane
  <2>5. fg' \in Gens => fg' \in live'
    BY DEF IInv, TypeOK, Past, RetireThird, pane
  <2>6. \A s \in Serials : s > clock' => sent'[s] = Zero
    BY DEF IInv, TypeOK, Past, RetireThird, pane, history, Gens
  <2>7. \A hit \in hits' : hit[1] <= clock'
    BY DEF IInv, TypeOK, Past, RetireThird, pane, history, Gens
  <2> QED
    BY <2>1, <2>2, <2>3, <2>4, <2>5, <2>6, <2>7 DEF Past
<1>4. RoundBound'
  BY DEF IInv, RoundBound, RetireThird, OwnReady
<1>5. Stopped'
  BY DEF IInv, Stopped, RetireThird, pane, Gone
<1>6. OneSession'
  BY DEF IInv, OneSession, RetireThird, pane, Open
<1>7. Answered'
  BY DEF IInv, Answered, RetireThird, pane, history, Open, Gone
<1>8. Asked'
  BY DEF IInv, Asked, RetireThird, history
<1>9. Spent'
  BY DEF IInv, Spent, RetireThird, history
<1>10. Phased'
  BY DEF IInv, Phased, RetireThird, In, GoTo
<1>11. AtMostOnce'
  BY DEF IInv, AtMostOnce, RetireThird, history
<1>12. SignalsItsAuthor'
  BY DEF IInv, SignalsItsAuthor, RetireThird, history
<1>13. SuccessIsReal'
  BY DEF IInv, SuccessIsReal, RetireThird, In
<1> QED
  BY <1>1, <1>2, <1>3, <1>4, <1>5, <1>6, <1>7, <1>8, <1>9, <1>10, <1>11, <1>12, <1>13 DEF IInv

\* A record is put away with no ready of its own left.
LEMMA PutAwayStep ==
    ASSUME IInv, PutAway
    PROVE  IInv'
<1>1. TypeOK'
  BY DEF IInv, TypeOK, PutAway, pane, files, history, GoTo, Pcs
<1>2. StepPhase'
  BY DEF IInv, StepPhase, PutAway, GoTo
<1>3. Past'
  BY DEF IInv, Past, PutAway, pane, files, history
<1>4. RoundBound'
  BY DEF IInv, RoundBound, PutAway, OwnReady
<1>5. Stopped'
  BY DEF IInv, Stopped, PutAway
<1>6. OneSession'
  BY DEF IInv, OneSession, Stopped, StepPhase, Past, PutAway, pane, OwnReady, Gone
<1>7. Answered'
  BY DEF IInv, Answered, Past, Stopped, StepPhase, Asked, PutAway, pane, files, history, Open,
         OwnReady, Gone
<1>8. Asked'
  BY DEF IInv, Asked, PutAway
<1>9. Spent'
  BY DEF IInv, Spent, Zero, StepPhase, Past, RoundBound, PutAway, pane, files, history, OwnReady
<1>10. Phased'
  BY DEF IInv, Phased, PutAway
<1>11. AtMostOnce'
  BY DEF IInv, AtMostOnce, PutAway, history
<1>12. SignalsItsAuthor'
  BY DEF IInv, SignalsItsAuthor, PutAway, history
<1>13. SuccessIsReal'
  BY DEF IInv, SuccessIsReal, PutAway
<1> QED
  BY <1>1, <1>2, <1>3, <1>4, <1>5, <1>6, <1>7, <1>8, <1>9, <1>10, <1>11, <1>12, <1>13 DEF IInv

\* A round opens at a time of its own.
LEMMA OpenRoundStep ==
    ASSUME IInv, OpenRound
    PROVE  IInv'
<1>c. clock \in Nat /\ clock + 1 \in Serials /\ clock' = clock + 1 /\ clock' \in 0..MaxClock
  BY Assumed DEF IInv, TypeOK, OpenRound, Serials
<1>d. round' \in Rounds /\ round'.at = clock + 1 /\ round'.by = fg
  BY <1>c DEF OpenRound, Rounds
<1>1. TypeOK'
  <2>1. clock' \in 0..MaxClock
    BY <1>c DEF IInv
  <2>2. round' \in Rounds \cup {Nothing}
    BY <1>d DEF IInv
  <2> QED
    BY <2>1, <2>2 DEF IInv, TypeOK, OpenRound, pane, history
<1>2. StepPhase'
  BY DEF IInv, StepPhase, OpenRound, Passes
<1>3. Past'
  <2>1. decl'.at <= clock'
    BY DEF IInv, TypeOK, Past, OpenRound
  <2>2. round' # Nothing => round'.at <= clock' /\ round'.by <= born'
    BY DEF IInv, Past, OpenRound, pane, Gens, Serials
  <2>3. record' # Nothing => record'.ready <= clock' /\ record'.pred <= born'
    BY Fields, <1>c DEF IInv, Past, OpenRound, Serials, pane
  <2>4. \A g \in live' : g <= born'
    BY DEF IInv, Past, OpenRound, pane
  <2>5. fg' \in Gens => fg' \in live'
    BY DEF IInv, Past, OpenRound, pane
  <2>6. \A s \in Serials : s > clock' => sent'[s] = Zero
    BY DEF IInv, TypeOK, Past, OpenRound, pane, history, Gens, Serials
  <2>7. \A hit \in hits' : hit[1] <= clock'
    BY DEF IInv, TypeOK, Past, OpenRound, pane, history, Gens, Serials
  <2> QED
    BY <2>1, <2>2, <2>3, <2>4, <2>5, <2>6, <2>7 DEF Past
<1>4. RoundBound'
  BY DEF IInv, RoundBound, OpenRound, OwnReady
<1>5. Stopped'
  BY DEF IInv, Stopped, OpenRound, pane, Gone
<1>6. OneSession'
  BY DEF IInv, OneSession, OpenRound, pane, Open
<1>7. Answered'
  BY <1>d DEF IInv, TypeOK, Answered, Past, Stopped, Asked, OpenRound, pane
<1>8. Asked'
  BY DEF IInv, Asked, OpenRound, history
<1>9. Spent'
  BY DEF IInv, Spent, OpenRound, history
<1>10. Phased'
  BY DEF IInv, Phased, OpenRound, Passes, Open
<1>11. AtMostOnce'
  BY DEF IInv, AtMostOnce, OpenRound, history
<1>12. SignalsItsAuthor'
  BY DEF IInv, SignalsItsAuthor, OpenRound, history
<1>13. SuccessIsReal'
  BY DEF IInv, SuccessIsReal, OpenRound, pane, Worked
<1> QED
  BY <1>1, <1>2, <1>3, <1>4, <1>5, <1>6, <1>7, <1>8, <1>9, <1>10, <1>11, <1>12, <1>13 DEF IInv

\* A round closes.
LEMMA CloseRecoveredStep ==
    ASSUME IInv, CloseRecovered
    PROVE  IInv'
<1>1. TypeOK'
  BY DEF IInv, TypeOK, CloseRecovered, pane, history
<1>2. StepPhase'
  BY DEF IInv, StepPhase, CloseRecovered, Passes
<1>3. Past'
  BY DEF IInv, Past, CloseRecovered, pane, history
<1>4. RoundBound'
  BY DEF IInv, RoundBound, CloseRecovered, OwnReady
<1>5. Stopped'
  BY DEF IInv, Stopped, CloseRecovered, pane, Gone
<1>6. OneSession'
  BY DEF IInv, OneSession, CloseRecovered, pane, Open
<1>7. Answered'
  BY DEF IInv, Answered, CloseRecovered
<1>8. Asked'
  BY DEF IInv, Asked, CloseRecovered, history
<1>9. Spent'
  BY DEF IInv, Spent, CloseRecovered
<1>10. Phased'
  BY DEF IInv, Phased, CloseRecovered, Passes, Open
<1>11. AtMostOnce'
  BY DEF IInv, AtMostOnce, CloseRecovered, history
<1>12. SignalsItsAuthor'
  BY DEF IInv, SignalsItsAuthor, CloseRecovered, history
<1>13. SuccessIsReal'
  BY DEF IInv, SuccessIsReal, CloseRecovered, pane, Worked
<1> QED
  BY <1>1, <1>2, <1>3, <1>4, <1>5, <1>6, <1>7, <1>8, <1>9, <1>10, <1>11, <1>12, <1>13 DEF IInv

\* A kill leaves the files as they are.
LEMMA FailStep ==
    ASSUME IInv, Fail
    PROVE  IInv'
<1>1. TypeOK'
  <2>1. pc' \in Pcs
    BY DEF IInv, Fail, Pcs
  <2>2. faults' \in 0..MaxFault
    BY Assumed DEF IInv, TypeOK, Fail
  <2>3. alerted' \in BOOLEAN
    BY DEF IInv, Fail
  <2>4. idle' \in BOOLEAN
    BY DEF IInv, Fail
  <2> QED
    BY <2>1, <2>2 DEF IInv, TypeOK, Fail, pane, files, history
<1>2. StepPhase'
  BY DEF IInv, StepPhase, Fail
<1>3. Past'
  BY DEF IInv, Past, Fail, pane, files, history
<1>4. RoundBound'
  BY DEF IInv, RoundBound, Fail, files, OwnReady
<1>5. Stopped'
  BY DEF IInv, Stopped, Fail, pane, Gone
<1>6. OneSession'
  BY DEF IInv, OneSession, Fail, pane, Open
<1>7. Answered'
  BY DEF IInv, Answered, Fail, pane, files, history, Open, Gone
<1>8. Asked'
  BY DEF IInv, Asked, Fail, history
<1>9. Spent'
  BY DEF IInv, Spent, Fail, files, history
<1>10. Phased'
  BY DEF IInv, Phased, Fail, history
<1>11. AtMostOnce'
  BY DEF IInv, AtMostOnce, Fail, history
<1>12. SignalsItsAuthor'
  BY DEF IInv, SignalsItsAuthor, Fail, history
<1>13. SuccessIsReal'
  BY DEF IInv, SuccessIsReal, Fail, pane, Worked
<1> QED
  BY <1>1, <1>2, <1>3, <1>4, <1>5, <1>6, <1>7, <1>8, <1>9, <1>10, <1>11, <1>12, <1>13 DEF IInv

\* A declaration has a time of its own, and its author.
LEMMA DeclareStep ==
    ASSUME IInv, Declare
    PROVE  IInv'
<1>c. clock \in Nat /\ clock + 1 \in Serials /\ clock' = clock + 1 /\ clock' \in 0..MaxClock
  BY Assumed DEF IInv, TypeOK, Declare, Serials
<1>d. /\ decl' \in [token : Tokens, at : 0..MaxClock] /\ decl'.token \in {"ready", "word"}
      /\ decl'.at = clock + 1
  BY <1>c DEF Declare, Tokens
<1>e. /\ author' \in [Serials -> Gens \cup {Nothing}] /\ author'[clock + 1] = fg /\ fg \in Gens
      /\ \A s \in Serials : s <= clock => author'[s] = author[s]
  BY Assumed DEF IInv, TypeOK, Declare, Serials
<1>1. TypeOK'
  <2>1. clock' \in 0..MaxClock
    BY <1>e DEF IInv, Declare, Serials
  <2>2. decl' \in [token : Tokens, at : 0..MaxClock]
    BY <1>d DEF IInv
  <2>3. author' \in [Serials -> Gens \cup {Nothing}]
    BY DEF IInv, TypeOK, Declare
  <2> QED
    BY <2>2, <2>3 DEF IInv, TypeOK, Declare, pane
<1>2. StepPhase'
  <2>1. ~OwnReady'
    BY <1>c DEF IInv, Past, OwnReady, Declare
  <2> QED
    BY <2>1 DEF IInv, StepPhase, Declare, Gone, pane
<1>3. Past'
  <2>1. decl'.at <= clock'
    BY DEF IInv, Declare
  <2>2. round' # Nothing => round'.at <= clock' /\ round'.by <= born'
    BY DEF IInv, TypeOK, Past, Declare, pane, Serials, Rounds
  <2>3. record' # Nothing => record'.ready <= clock' /\ record'.pred <= born'
    BY Fields, <1>c DEF IInv, Past, Declare, Serials, pane
  <2>4. \A g \in live' : g <= born'
    BY DEF IInv, Past, Declare, pane
  <2>5. fg' \in Gens => fg' \in live'
    BY DEF IInv, Past, Declare, pane
  <2>6. \A s \in Serials : s > clock' => sent'[s] = Zero
    BY DEF IInv, TypeOK, Past, Declare, Serials
  <2>7. \A hit \in hits' : hit[1] <= clock'
    BY DEF IInv, TypeOK, Past, Declare, Serials
  <2> QED
    BY <2>1, <2>2, <2>3, <2>4, <2>5, <2>6, <2>7 DEF Past
<1>4. RoundBound'
  BY DEF IInv, TypeOK, RoundBound, Past, StepPhase, Declare, pane, OwnReady, Gone
<1>5. Stopped'
  BY DEF IInv, Stopped, Declare, pane, Gone
<1>6. OneSession'
  BY DEF IInv, OneSession, Declare, pane, Open
<1>7. Answered'
  BY <1>e
     DEF IInv, TypeOK, Answered, Past, Stopped, StepPhase, OneSession, Declare, pane, Open,
         OwnReady, Gone, Gens, Serials, Rounds, Tokens, Pcs
<1>8. Asked'
  BY DEF IInv, TypeOK, Asked, Past, Answered, Declare, pane
<1>9. Spent'
  BY DEF IInv, TypeOK, Spent, Past, RoundBound, Declare, pane
<1>10. Phased'
  BY DEF IInv, Phased, Declare
<1>11. AtMostOnce'
  BY DEF IInv, AtMostOnce, Declare
<1>12. SignalsItsAuthor'
  BY DEF IInv, TypeOK, SignalsItsAuthor, Asked, Past, StepPhase, Declare
<1>13. SuccessIsReal'
  BY DEF IInv, SuccessIsReal, Declare, pane, Worked
<1> QED
  BY <1>1, <1>2, <1>3, <1>4, <1>5, <1>6, <1>7, <1>8, <1>9, <1>10, <1>11, <1>12, <1>13 DEF IInv

\* A suspended predecessor still runs.
LEMMA SuspendStep ==
    ASSUME IInv, Suspend
    PROVE  IInv'
<1>1. TypeOK'
  BY DEF IInv, TypeOK, Suspend, files, history
<1>2. StepPhase'
  BY DEF IInv, StepPhase, Suspend, files, OwnReady, Gone
<1>3. Past'
  BY DEF IInv, Past, Suspend, files, history, Gens, Shell
<1>4. RoundBound'
  BY DEF IInv, RoundBound, Suspend, files, OwnReady
<1>5. Stopped'
  BY DEF IInv, Stopped, Suspend, Gone
<1>6. OneSession'
  BY DEF IInv, OneSession, Suspend, Open
<1>7. Answered'
  BY DEF IInv, Answered, Suspend, files, history, Open, Gone
<1>8. Asked'
  BY DEF IInv, Asked, Suspend, history
<1>9. Spent'
  BY DEF IInv, Spent, Suspend, files, history
<1>10. Phased'
  BY DEF IInv, Phased, Suspend, history
<1>11. AtMostOnce'
  BY DEF IInv, AtMostOnce, Suspend, history
<1>12. SignalsItsAuthor'
  BY DEF IInv, SignalsItsAuthor, Suspend, history
<1>13. SuccessIsReal'
  BY DEF IInv, SuccessIsReal, Suspend, Worked
<1> QED
  BY <1>1, <1>2, <1>3, <1>4, <1>5, <1>6, <1>7, <1>8, <1>9, <1>10, <1>11, <1>12, <1>13 DEF IInv

\* The only session to come back is the predecessor.
LEMMA ContinueStep ==
    ASSUME IInv, Continue
    PROVE  IInv'
<1>r. fg = Shell /\ fg' \in live /\ live \subseteq Gens /\ live' = live
  BY DEF IInv, TypeOK, Continue
<1>1. TypeOK'
  BY DEF IInv, TypeOK, Continue, files, history
<1>2. StepPhase'
  BY DEF IInv, StepPhase, Continue, files, OwnReady, Gone
<1>3. Past'
  BY DEF IInv, Past, Continue, files, history
<1>4. RoundBound'
  BY DEF IInv, RoundBound, Continue, files, OwnReady
<1>5. Stopped'
  BY DEF IInv, Stopped, Continue, Gone
<1>6. OneSession'
  <2>1. \A g \in live : Open /\ g = record.pred
    BY <1>r DEF IInv, OneSession, Gens, Shell
  <2> QED
    BY <2>1 DEF OneSession, Continue
<1>7. Answered'
  BY DEF IInv, Answered, Continue, files, history, Open, Gone
<1>8. Asked'
  BY DEF IInv, Asked, Continue, history
<1>9. Spent'
  BY DEF IInv, Spent, Continue, files, history
<1>10. Phased'
  BY DEF IInv, Phased, Continue, history
<1>11. AtMostOnce'
  BY DEF IInv, AtMostOnce, Continue, history
<1>12. SignalsItsAuthor'
  BY DEF IInv, SignalsItsAuthor, Continue, history
<1>13. SuccessIsReal'
  BY DEF IInv, SuccessIsReal, Continue, Worked
<1> QED
  BY <1>1, <1>2, <1>3, <1>4, <1>5, <1>6, <1>7, <1>8, <1>9, <1>10, <1>11, <1>12, <1>13 DEF IInv

\* A session started by hand is a new generation.
LEMMA HandLaunchStep ==
    ASSUME IInv, HandLaunch
    PROVE  IInv'
<1>r. /\ born' = born + 1 /\ live' = live \cup {born + 1} /\ fg' = born + 1
      /\ born + 1 \in Gens /\ born \in Gens /\ \A g \in live : g # born + 1
  BY Assumed DEF IInv, HandLaunch, TypeOK, Past, Gens
<1>p. record # Nothing => record.pred # born + 1
  BY DEF IInv, Past, TypeOK, Gens
<1>1. TypeOK'
  <2>1. born' \in Gens
    BY <1>r DEF IInv
  <2>2. live' \subseteq Gens
    BY <1>r DEF IInv, TypeOK
  <2>3. fg' \in Gens \cup {Shell, Foreign}
    BY <1>r DEF IInv
  <2> QED
    BY <2>2 DEF IInv, TypeOK, HandLaunch, files, history
<1>2. StepPhase'
  BY <1>p DEF IInv, StepPhase, HandLaunch, files, OwnReady, Gone
<1>3. Past'
  <2>1. decl'.at <= clock'
    BY DEF IInv, Past, HandLaunch, files
  <2>2. round' # Nothing => round'.at <= clock' /\ round'.by <= born'
    BY DEF IInv, TypeOK, Past, HandLaunch, files, Gens, Rounds
  <2>3. record' # Nothing => record'.ready <= clock' /\ record'.pred <= born'
    BY Fields, <1>r DEF IInv, Past, HandLaunch, Gens, files
  <2>4. \A g \in live' : g <= born'
    BY Assumed, Fields, <1>r, <1>p
       DEF IInv, TypeOK, Past, HandLaunch, files, Gens, Serials, Shell, Rounds
  <2>5. fg' \in Gens => fg' \in live'
    BY DEF IInv, HandLaunch
  <2>6. \A s \in Serials : s > clock' => sent'[s] = Zero
    BY DEF IInv, Past, HandLaunch, files, history
  <2>7. \A hit \in hits' : hit[1] <= clock'
    BY DEF IInv, Past, HandLaunch, files, history
  <2> QED
    BY <2>1, <2>2, <2>3, <2>4, <2>5, <2>6, <2>7 DEF Past
<1>4. RoundBound'
  BY DEF IInv, RoundBound, HandLaunch, files, OwnReady
<1>5. Stopped'
  BY <1>p DEF IInv, Stopped, HandLaunch, Gone
<1>6. OneSession'
  BY DEF IInv, TypeOK, OneSession, Stopped, HandLaunch, files, Open, OwnReady, Gens, Serials,
         Shell, Foreign
<1>7. Answered'
  <2>1. round # Nothing => round.by # born + 1
    BY DEF IInv, TypeOK, Past, Gens
  <2>2. decl' = decl /\ round' = round /\ record' = record /\ author' = author
    BY DEF HandLaunch, files, history
  <2>3. round # Nothing /\ Gone(round.by) => Gone(round.by)'
    BY <2>1, <2>2, <1>r DEF Gone
  <2> QED
    BY <2>2, <2>3 DEF IInv, Answered, Open
<1>8. Asked'
  BY DEF IInv, Asked, HandLaunch, history
<1>9. Spent'
  BY DEF IInv, Spent, HandLaunch, files, history
<1>10. Phased'
  BY DEF IInv, Phased, HandLaunch, history
<1>11. AtMostOnce'
  BY DEF IInv, AtMostOnce, HandLaunch, history
<1>12. SignalsItsAuthor'
  BY DEF IInv, SignalsItsAuthor, HandLaunch, history
<1>13. SuccessIsReal'
  BY DEF IInv, SuccessIsReal, HandLaunch, Worked
<1> QED
  BY <1>1, <1>2, <1>3, <1>4, <1>5, <1>6, <1>7, <1>8, <1>9, <1>10, <1>11, <1>12, <1>13 DEF IInv

\* A prompt takes no turn away.
LEMMA HandPromptStep ==
    ASSUME IInv, HandPrompt
    PROVE  IInv'
<1>1. TypeOK'
  BY DEF IInv, TypeOK, HandPrompt, files, history
<1>2. StepPhase'
  BY DEF IInv, StepPhase, HandPrompt, files, OwnReady, Gone
<1>3. Past'
  BY DEF IInv, Past, HandPrompt, files, history
<1>4. RoundBound'
  BY DEF IInv, RoundBound, HandPrompt, files, OwnReady
<1>5. Stopped'
  BY DEF IInv, Stopped, HandPrompt, Gone
<1>6. OneSession'
  BY DEF IInv, OneSession, HandPrompt, Open
<1>7. Answered'
  BY DEF IInv, Answered, HandPrompt, files, history, Open, Gone
<1>8. Asked'
  BY DEF IInv, Asked, HandPrompt, history
<1>9. Spent'
  BY DEF IInv, Spent, HandPrompt, files, history
<1>10. Phased'
  BY DEF IInv, Phased, HandPrompt, history
<1>11. AtMostOnce'
  BY DEF IInv, AtMostOnce, HandPrompt, history
<1>12. SignalsItsAuthor'
  BY DEF IInv, SignalsItsAuthor, HandPrompt, history
<1>13. SuccessIsReal'
  BY DEF IInv, SuccessIsReal, HandPrompt, Worked
<1> QED
  BY <1>1, <1>2, <1>3, <1>4, <1>5, <1>6, <1>7, <1>8, <1>9, <1>10, <1>11, <1>12, <1>13 DEF IInv

\* Another program is no session.
LEMMA OtherProgramStep ==
    ASSUME IInv, OtherProgram
    PROVE  IInv'
<1>1. TypeOK'
  BY DEF IInv, TypeOK, OtherProgram, files, history
<1>2. StepPhase'
  BY DEF IInv, StepPhase, OtherProgram, files, OwnReady, Gone
<1>3. Past'
  BY DEF IInv, Past, OtherProgram, files, history, Gens, Shell, Foreign
<1>4. RoundBound'
  BY DEF IInv, RoundBound, OtherProgram, files, OwnReady
<1>5. Stopped'
  BY DEF IInv, Stopped, OtherProgram, Gone
<1>6. OneSession'
  BY Assumed, Fields
     DEF IInv, TypeOK, OneSession, Stopped, StepPhase, Past, OtherProgram, files, Open,
         OwnReady, Gens, Serials, Rounds, Tokens, Pcs, Launched, Shell, Foreign, Phases
<1>7. Answered'
  BY DEF IInv, Answered, OtherProgram, files, history, Open, Gone
<1>8. Asked'
  BY DEF IInv, Asked, OtherProgram, history
<1>9. Spent'
  BY DEF IInv, Spent, OtherProgram, files, history
<1>10. Phased'
  BY DEF IInv, Phased, OtherProgram, history
<1>11. AtMostOnce'
  BY DEF IInv, AtMostOnce, OtherProgram, history
<1>12. SignalsItsAuthor'
  BY DEF IInv, SignalsItsAuthor, OtherProgram, history
<1>13. SuccessIsReal'
  BY DEF IInv, SuccessIsReal, OtherProgram, Worked
<1> QED
  BY <1>1, <1>2, <1>3, <1>4, <1>5, <1>6, <1>7, <1>8, <1>9, <1>10, <1>11, <1>12, <1>13 DEF IInv

\* A reused pid revives nobody.
LEMMA ReuseStep ==
    ASSUME IInv, Reuse
    PROVE  IInv'
<1>r. /\ taken' \subseteq taken \cup {record.pred}
      /\ (record.pred \in Gens \/ taken' \subseteq taken)
  BY Fields DEF IInv, Reuse, Open
<1>1. TypeOK'
  <2>1. taken' \subseteq Gens
    BY <1>r DEF IInv, TypeOK
  <2> QED
    BY <2>1 DEF IInv, TypeOK, Reuse, files, history
<1>2. StepPhase'
  BY DEF IInv, StepPhase, Reuse, files, OwnReady, Gone
<1>3. Past'
  BY DEF IInv, Past, Reuse, files, history
<1>4. RoundBound'
  BY DEF IInv, RoundBound, Reuse, files, OwnReady
<1>5. Stopped'
  BY DEF IInv, Stopped, Reuse, Gone
<1>6. OneSession'
  BY DEF IInv, OneSession, Reuse, Open
<1>7. Answered'
  BY DEF IInv, Answered, Reuse, files, history, Open, Gone
<1>8. Asked'
  BY DEF IInv, Asked, Reuse, history
<1>9. Spent'
  BY DEF IInv, Spent, Reuse, files, history
<1>10. Phased'
  BY DEF IInv, Phased, Reuse, history
<1>11. AtMostOnce'
  BY DEF IInv, AtMostOnce, Reuse, history
<1>12. SignalsItsAuthor'
  BY DEF IInv, SignalsItsAuthor, Reuse, history
<1>13. SuccessIsReal'
  BY DEF IInv, SuccessIsReal, Reuse, Worked
<1> QED
  BY <1>1, <1>2, <1>3, <1>4, <1>5, <1>6, <1>7, <1>8, <1>9, <1>10, <1>11, <1>12, <1>13 DEF IInv

\* No session survives its server.
LEMMA ServerRestartStep ==
    ASSUME IInv, ServerRestart
    PROVE  IInv'
<1>1. TypeOK'
  <2>1. server' \in 0..MaxServer
    BY Assumed DEF IInv, TypeOK, ServerRestart
  <2>2. live' \subseteq Gens
    BY DEF IInv, ServerRestart
  <2>3. fg' \in Gens \cup {Shell, Foreign}
    BY DEF IInv, ServerRestart
  <2> QED
    BY <2>1 DEF IInv, TypeOK, ServerRestart, files, history
<1>2. StepPhase'
  BY DEF IInv, StepPhase, ServerRestart, files, OwnReady, Gone
<1>3. Past'
  <2>1. decl'.at <= clock'
    BY DEF IInv, Past, ServerRestart, files
  <2>2. round' # Nothing => round'.at <= clock' /\ round'.by <= born'
    BY DEF IInv, Past, ServerRestart, files
  <2>3. record' # Nothing => record'.ready <= clock' /\ record'.pred <= born'
    BY DEF IInv, Past, ServerRestart, files
  <2>4. \A g \in live' : g <= born'
    BY DEF IInv, ServerRestart
  <2>5. fg' \in Gens => fg' \in live'
    BY DEF IInv, ServerRestart, Gens, Shell
  <2>6. \A s \in Serials : s > clock' => sent'[s] = Zero
    BY DEF IInv, Past, ServerRestart, files, history
  <2>7. \A hit \in hits' : hit[1] <= clock'
    BY DEF IInv, Past, ServerRestart, files, history
  <2> QED
    BY <2>1, <2>2, <2>3, <2>4, <2>5, <2>6, <2>7 DEF Past
<1>4. RoundBound'
  BY DEF IInv, RoundBound, ServerRestart, files, OwnReady
<1>5. Stopped'
  BY DEF IInv, Stopped, ServerRestart, Gone
<1>6. OneSession'
  BY DEF IInv, OneSession, ServerRestart
<1>7. Answered'
  BY DEF IInv, Answered, ServerRestart, Gone
<1>8. Asked'
  BY DEF IInv, Asked, ServerRestart, history
<1>9. Spent'
  BY DEF IInv, Spent, ServerRestart, files, history
<1>10. Phased'
  BY DEF IInv, Phased, ServerRestart, history
<1>11. AtMostOnce'
  BY DEF IInv, AtMostOnce, ServerRestart, history
<1>12. SignalsItsAuthor'
  BY DEF IInv, SignalsItsAuthor, ServerRestart, history
<1>13. SuccessIsReal'
  BY DEF IInv, SuccessIsReal, ServerRestart, Worked
<1> QED
  BY <1>1, <1>2, <1>3, <1>4, <1>5, <1>6, <1>7, <1>8, <1>9, <1>10, <1>11, <1>12, <1>13 DEF IInv

\* A session that ends does not come back.
LEMMA ExitStep ==
    ASSUME IInv, NEW g \in Gens, Exit(g)
    PROVE  IInv'
<1>1. TypeOK'
  BY DEF IInv, TypeOK, Exit, files, history
<1>2. StepPhase'
  BY DEF IInv, StepPhase, Exit, files, OwnReady, Gone
<1>3. Past'
  BY DEF IInv, Past, Exit, files, history, Gens, Shell
<1>4. RoundBound'
  BY DEF IInv, RoundBound, Exit, files, OwnReady
<1>5. Stopped'
  BY DEF IInv, Stopped, Exit, Gone
<1>6. OneSession'
  BY DEF IInv, OneSession, Exit, Open
<1>7. Answered'
  BY DEF IInv, Answered, Exit, files, history, Open, Gone
<1>8. Asked'
  BY DEF IInv, Asked, Exit, history
<1>9. Spent'
  BY DEF IInv, Spent, Exit, files, history
<1>10. Phased'
  BY DEF IInv, Phased, Exit, history
<1>11. AtMostOnce'
  BY DEF IInv, AtMostOnce, Exit, history
<1>12. SignalsItsAuthor'
  BY DEF IInv, SignalsItsAuthor, Exit, history
<1>13. SuccessIsReal'
  BY DEF IInv, SuccessIsReal, Exit, Worked
<1> QED
  BY <1>1, <1>2, <1>3, <1>4, <1>5, <1>6, <1>7, <1>8, <1>9, <1>10, <1>11, <1>12, <1>13 DEF IInv

-----------------------------------------------------------------------------
(* The theorems                                                             *)

\* A session starts in its pane with nothing asked of it.
LEMMA Starts == Init => IInv
<1> SUFFICES ASSUME Init PROVE IInv
  OBVIOUS
<1>1. TypeOK
  <2>1. decl \in [token : Tokens, at : 0..MaxClock]
    BY Assumed DEF Init, Tokens
  <2>2. inbox \in [Gens -> {"none", "pending", "consumed", "other"}]
    BY DEF Init
  <2>3. author \in [Serials -> Gens \cup {Nothing}]
    BY DEF Init
  <2>4. sent \in [Serials -> [signal : Nat, launch : Nat, resume : Nat]]
    BY DEF Init
  <2>5. /\ server \in 0..MaxServer /\ born \in Gens /\ live \subseteq Gens
        /\ fg \in Gens /\ taken \subseteq Gens
        /\ clock \in 0..MaxClock /\ faults \in 0..MaxFault
    BY Assumed DEF Init, Gens
  <2> QED
    BY <2>1, <2>2, <2>3, <2>4, <2>5 DEF Init, TypeOK, Pcs
<1>2. StepPhase /\ RoundBound /\ Stopped /\ Answered /\ Asked /\ SuccessIsReal
  BY DEF Init, StepPhase, RoundBound, Stopped, Answered, Asked, SuccessIsReal, OwnReady
<1>3. Past /\ OneSession /\ Spent /\ Phased /\ AtMostOnce /\ SignalsItsAuthor
  BY Assumed DEF Init, Past, OneSession, Spent, Phased, AtMostOnce, SignalsItsAuthor, Zero,
     Serials, Gens
<1> QED
  BY <1>1, <1>2, <1>3 DEF IInv

\* The invariant reads the variables of the specification only.
LEMMA Stutters == IInv /\ UNCHANGED vars => IInv'
<1> SUFFICES ASSUME IInv, UNCHANGED vars PROVE IInv'
  OBVIOUS
<1>1. TypeOK' /\ StepPhase' /\ Past'
  BY DEF IInv, vars, TypeOK, StepPhase, Past, OwnReady, Gone
<1>2. RoundBound' /\ Stopped' /\ OneSession' /\ Answered' /\ Asked'
  BY DEF IInv, vars, RoundBound, Stopped, OneSession, Answered, Asked, OwnReady, Gone, Open
<1>3. Spent' /\ Phased' /\ AtMostOnce' /\ SignalsItsAuthor' /\ SuccessIsReal'
  BY DEF IInv, vars, Spent, Phased, AtMostOnce, SignalsItsAuthor, SuccessIsReal, Worked
<1> QED
  BY <1>1, <1>2, <1>3 DEF IInv

\* Every step keeps the invariant.
LEMMA Steps == IInv /\ [Next]_vars => IInv'
<1> SUFFICES ASSUME IInv, [Next]_vars PROVE IInv'
  OBVIOUS
<1>1. CASE Replace
  BY <1>1, BeginStep, FenceStep, AimStep, SignalStep, WaitStep, FenceLaunchStep, LaunchStep
     DEF Replace
<1>2. CASE Reconcile
  BY <1>2, RecoverSignalStep, RelaunchStep, ObserveStep, FenceResumeStep, SubmitStep,
     RetryStep, EnterStep, ReconsumeStep, ConsumeStep, CloseStep, RetireDeadStep,
     RetireThirdStep, PutAwayStep
     DEF Reconcile
<1>3. CASE OpenRound \/ CloseRecovered \/ Fail
  BY <1>3, OpenRoundStep, CloseRecoveredStep, FailStep
<1>4. CASE World
  BY <1>4, DeclareStep, SuspendStep, ContinueStep, HandLaunchStep, HandPromptStep,
     OtherProgramStep, ReuseStep, ServerRestartStep, ExitStep
     DEF World
<1>5. CASE UNCHANGED vars
  BY <1>5, Stutters
<1> QED
  BY <1>1, <1>2, <1>3, <1>4, <1>5 DEF Next, Daemon

\* The invariant holds in every reachable state.
LEMMA Invariant == Spec => []IInv
  BY Starts, Steps, PTL DEF Spec

\* Every variable of the replacement keeps its type.
THEOREM TypeCorrect == Spec => []TypeOK
<1>1. IInv => TypeOK
  BY DEF IInv
<1> QED
  BY Invariant, <1>1, PTL

\* One ready buys one signal, one launch line and one resume line at most, however
\* often the daemon dies and starts again between any two of its writes.
THEOREM OncePerReady == Spec => []AtMostOnce
<1>1. IInv => AtMostOnce
  BY DEF IInv
<1> QED
  BY Invariant, <1>1, PTL

\* A session that is signalled wrote the ready it is signalled for.
THEOREM SignalledOnItsWord == Spec => []SignalsItsAuthor
<1>1. IInv => SignalsItsAuthor
  BY DEF IInv
<1> QED
  BY Invariant, <1>1, PTL

\* No successor is launched while its predecessor runs.
THEOREM NoTwoWriters == Spec => []PredecessorGone
<1>1. IInv => PredecessorGone
  BY DEF IInv, Stopped, PredecessorGone
<1> QED
  BY Invariant, <1>1, PTL

\* A replacement recorded as completed started a turn of another session.
THEOREM SuccessClaimed == Spec => []SuccessIsReal
<1>1. IInv => SuccessIsReal
  BY DEF IInv
<1> QED
  BY Invariant, <1>1, PTL

-----------------------------------------------------------------------------
(* The handover                                                             *)

\* One step of the abstract handover, or none.
Hands == [Handover!Next]_(Handover!vars)

\* The replacement starts where the handover does.
LEMMA HandoverStarts == Init => Handover!Init
  BY DEF Init, Handover!Init, Standing, Deal, Open

\* An open record holds the deal, whose author it names.
LEMMA Dealt ==
    ASSUME IInv, Open
    PROVE  /\ Deal = record.ready /\ Deal \in Serials /\ Deal # 0
           /\ author[Deal] = record.pred /\ sent[Deal] \in Counts
  BY Assumed, Fields, Counted DEF IInv, Open, Deal, Asked, Serials

\* A phase other than the last one does not end the deal, and the last one does.
LEMMA PhaseKeepsDeal ==
    ASSUME TypeOK, record # Nothing, record.phase # "completed",
           NEW phase \in Phases \ {"completed"}, Advance(phase)
    PROVE  Deal' = Deal
  BY Advanced DEF Moved, Deal, Open

LEMMA CompletionEndsDeal ==
    ASSUME TypeOK, record # Nothing, Advance("completed")
    PROVE  Deal' = 0
<1>1. Moved("completed")
  BY Advanced DEF Phases
<1> QED
  BY <1>1 DEF Moved, Deal, Open

\* A step that writes no file but the record and ends no session is no step of the
\* handover while the deal stands.
LEMMA Silent ==
    ASSUME Deal' = Deal, UNCHANGED <<files, history, born, live>>
    PROVE  Hands
  BY DEF Hands, Handover!vars, files, history, Standing

\* A step that drops the round, the offer or the deal, and does nothing else.
LEMMA Closes ==
    ASSUME round' \in {round, Nothing}, decl'.token # "ready" \/ UNCHANGED decl,
           Deal' \in {Deal, 0}, UNCHANGED <<pane, clock, history>>
    PROVE  Hands
<1>1. Standing' \in {Standing, 0}
  BY DEF Standing
<1> QED
  BY <1>1 DEF Hands, Handover!Next, Handover!Close, pane, history

\* The record is opened on an offer that answers the round, by the session the round
\* is for, and that bought nothing yet.
LEMMA BeginHands ==
    ASSUME IInv, Begin
    PROVE  Hands
<1>1. /\ round # Nothing /\ round \in Rounds /\ round.at \in Serials /\ round.by \in Gens
      /\ decl.at \in Serials /\ decl.token = "ready" /\ decl.at > round.at
  BY DEF IInv, TypeOK, Begin, Authorized, Rounds, Serials
<1>2. /\ record' # Nothing /\ record'.phase = "before-stop" /\ record'.ready = decl.at
      /\ record'.pred = round.by
  <2>1. record' \in Records
    BY <1>1, Assumed DEF IInv, TypeOK, Begin, Records, Phases
  <2> QED
    BY <2>1, Assumed DEF Begin
<1>3. Asked' /\ Phased'
  BY BeginStep DEF IInv
<1>4. author[decl.at] = round.by
  BY <1>2, <1>3 DEF Asked, Begin, history
<1>5. sent[decl.at] = Zero
  <2>1. sent'[record'.ready].signal = 0 /\ sent'[record'.ready].launch = 0
        /\ sent'[record'.ready].resume = 0
    BY <1>2, <1>3 DEF Phased
  <2>2. sent[decl.at].signal = 0 /\ sent[decl.at].launch = 0 /\ sent[decl.at].resume = 0
    BY <1>2, <2>1 DEF Begin, history
  <2> QED
    BY <1>1, <2>2, Counted DEF IInv, Counts, Zero
<1>6. Deal = 0 /\ Deal' = decl.at /\ Standing = decl.at /\ decl.at # 0
  BY <1>1, <1>2, Assumed DEF Begin, Passes, Deal, Open, Standing, Serials
<1>7. UNCHANGED <<pane, files, history>>
  BY DEF Begin
<1>8. Standing' = Standing
  BY <1>7 DEF Standing, files
<1>9. Handover!Take
  BY <1>1, <1>4, <1>5, <1>6, <1>7, <1>8, Assumed
     DEF Handover!Take, Handover!people, Zero, pane, files, history, Serials
<1> QED
  BY <1>9 DEF Hands, Handover!Next

\* The one signal of a deal reaches its author, or nobody once it is gone.
LEMMA SignalHands ==
    ASSUME IInv, Signal
    PROVE  Hands
<1>1. TypeOK /\ Open /\ record.phase = "signal-attempted" /\ record' = record
  BY DEF IInv, StepPhase, Signal, Open, GoTo, Refuse
<1>2. /\ Deal = record.ready /\ Deal \in Serials /\ Deal # 0 /\ author[Deal] = record.pred
      /\ sent[Deal] \in Counts
  BY <1>1, Dealt
<1>3. sent[Deal].signal = 0 /\ sent[Deal].launch = 0 /\ sent[Deal].resume = 0
  BY <1>1, <1>2 DEF IInv, Phased, Signal, Open
<1>4. sent[Deal] = Zero
  BY <1>2, <1>3 DEF Counts, Zero
<1>5. sent' = [sent EXCEPT ![Deal].signal = 1]
  BY <1>2, <1>3 DEF Signal
<1>6. hits' = IF author[Deal] \in live THEN hits \cup {<<Deal, author[Deal]>>} ELSE hits
  BY <1>2 DEF Signal
<1>7. Deal' = Deal /\ UNCHANGED <<pane, files, author>>
  BY <1>1 DEF Signal, Deal, Open
<1>8. Handover!Signal
  BY <1>2, <1>4, <1>5, <1>6, <1>7
     DEF Handover!Signal, Handover!people, Zero, pane, files, Standing
<1> QED
  BY <1>8 DEF Hands, Handover!Next

\* The one launch of a deal comes when its author runs no more.
LEMMA LaunchHands ==
    ASSUME IInv, Launch
    PROVE  Hands
<1>1. TypeOK /\ Open /\ record.phase = "launch-attempted" /\ record' = record
  BY DEF IInv, StepPhase, Launch, Open
<1>2. /\ Deal = record.ready /\ Deal \in Serials /\ Deal # 0 /\ author[Deal] = record.pred
      /\ sent[Deal] \in Counts
  BY <1>1, Dealt
<1>3. sent[Deal].launch = 0 /\ sent[Deal].resume = 0
  BY <1>1, <1>2 DEF IInv, Phased, Launch, Open
<1>4. author[Deal] \notin live
  BY <1>1, <1>2 DEF IInv, Stopped, Gone, Launched, Open
<1>5. sent' = [sent EXCEPT ![Deal].launch = 1]
  BY <1>2, <1>3 DEF Launch
<1>6. Handover!Begins(born + 1) \/ UNCHANGED <<born, live>>
  BY <1>1, Assumed DEF Launch, Handover!Begins, TypeOK, Gens
<1>7. Deal' = Deal /\ UNCHANGED <<files, author, hits>>
  BY <1>1 DEF Launch, Deal, Open
<1>8. Handover!Launch
  BY <1>2, <1>3, <1>4, <1>5, <1>6, <1>7 DEF Handover!Launch, files, Standing
<1> QED
  BY <1>8 DEF Hands, Handover!Next

\* So does its one resume line.
LEMMA SubmitHands ==
    ASSUME IInv, Submit
    PROVE  Hands
<1>1. TypeOK /\ Open /\ record.phase = "resume-attempted"
  BY DEF IInv, StepPhase, Submit, Open
<1>2. /\ Deal = record.ready /\ Deal \in Serials /\ Deal # 0 /\ author[Deal] = record.pred
      /\ sent[Deal] \in Counts
  BY <1>1, Dealt
<1>3. sent[Deal].resume = 0
  BY <1>1, <1>2 DEF IInv, Phased, Submit, Open
<1>4. author[Deal] \notin live
  BY <1>1, <1>2 DEF IInv, Stopped, Gone, Launched, Open
<1>5. sent' = [sent EXCEPT ![Deal].resume = 1]
  BY <1>2, <1>3 DEF Submit
<1>6. Deal' \in {Deal, 0}
  <2>1. Advance("completed") \/ UNCHANGED record
    BY DEF Submit, Deliver
  <2>2. CASE Advance("completed")
    BY <1>1, <2>2, CompletionEndsDeal DEF Open
  <2>3. CASE UNCHANGED record
    BY <2>3 DEF Deal, Open
  <2> QED
    BY <2>1, <2>2, <2>3
<1>7. UNCHANGED <<born, live, files, author, hits>>
  BY DEF Submit
<1>8. Handover!Resume
  BY <1>2, <1>3, <1>4, <1>5, <1>6, <1>7
     DEF Handover!Resume, Handover!people, files, Standing
<1> QED
  BY <1>8 DEF Hands, Handover!Next

\* The steps of the transaction between its effects.
LEMMA ReplaceHands ==
    ASSUME IInv, Replace
    PROVE  Hands
<1> USE DEF IInv, pane
<1>1. CASE Fence
  <2>1. TypeOK /\ Open
    BY <1>1 DEF StepPhase, Fence, Open
  <2>2. Advance("signal-attempted") \/ UNCHANGED record
    BY <1>1 DEF Fence
  <2>3. Deal' = Deal
    BY <2>1, <2>2, PhaseKeepsDeal DEF Open, Phases, Deal
  <2> QED
    BY <1>1, <2>3, Silent DEF Fence
<1>2. CASE Aim
  BY <1>2, Silent DEF Aim, Deal, Open
<1>3. CASE Wait
  <2>1. TypeOK /\ Open
    BY <1>3 DEF StepPhase, Wait, Open
  <2>2. Advance("stopped-awaiting-shell") \/ UNCHANGED record
    BY <1>3 DEF Wait
  <2>3. Deal' = Deal
    BY <2>1, <2>2, PhaseKeepsDeal DEF Open, Phases, Deal
  <2> QED
    BY <1>3, <2>3, Silent DEF Wait
<1>4. CASE FenceLaunch
  <2>1. TypeOK /\ Open
    BY <1>4 DEF StepPhase, FenceLaunch, Open
  <2>2. Advance("launch-attempted") \/ UNCHANGED record
    BY <1>4 DEF FenceLaunch
  <2>3. Deal' = Deal
    BY <2>1, <2>2, PhaseKeepsDeal DEF Open, Phases, Deal
  <2> QED
    BY <1>4, <2>3, Silent DEF FenceLaunch
<1> QED
  BY <1>1, <1>2, <1>3, <1>4, BeginHands, SignalHands, LaunchHands DEF Replace

\* The steps of a later tick.
LEMMA ReconcileHands ==
    ASSUME IInv, Reconcile
    PROVE  Hands
<1> USE DEF IInv, pane
<1>1. CASE RecoverSignal
  <2>1. TypeOK /\ Open
    BY <1>1 DEF RecoverSignal, In, OfThisServer, Open
  <2>2. Advance("stopped-awaiting-shell") \/ UNCHANGED record
    BY <1>1 DEF RecoverSignal
  <2>3. Deal' = Deal
    BY <2>1, <2>2, PhaseKeepsDeal DEF Open, Phases, Deal
  <2> QED
    BY <1>1, <2>3, Silent DEF RecoverSignal
<1>2. CASE Relaunch
  <2>1. TypeOK /\ Open
    BY <1>2 DEF StepPhase, Relaunch, In, OfThisServer, Open
  <2>2. Advance("launch-attempted") \/ UNCHANGED record
    BY <1>2 DEF Relaunch
  <2>3. Deal' = Deal
    BY <2>1, <2>2, PhaseKeepsDeal DEF Open, Phases, Deal
  <2> QED
    BY <1>2, <2>3, Silent DEF Relaunch
<1>3. CASE Observe
  <2>1. TypeOK /\ Open
    BY <1>3 DEF Observe, In, OfThisServer, Open
  <2>2. CASE record' = [record EXCEPT !.phase = "successor-observed", !.succ = fg] /\ fg \in Gens
    <3>1. /\ record' \in Records /\ record' # Nothing /\ record'.phase = "successor-observed"
          /\ record'.ready = record.ready
      BY <2>1, <2>2, Fields, Assumed DEF Open, Records, Phases
    <3> QED
      BY <1>3, <2>1, <3>1, Silent DEF Observe, Deal, Open
  <2>3. CASE UNCHANGED record
    BY <1>3, <2>3, Silent DEF Observe, Deal, Open
  <2> QED
    BY <1>3, <2>2, <2>3 DEF Observe, Proven
<1>4. CASE FenceResume
  <2>1. TypeOK /\ Open
    BY <1>4 DEF StepPhase, FenceResume, Open
  <2>2. Advance("resume-attempted") \/ UNCHANGED record
    BY <1>4 DEF FenceResume
  <2>3. Deal' = Deal
    BY <2>1, <2>2, PhaseKeepsDeal DEF Open, Phases, Deal
  <2> QED
    BY <1>4, <2>3, Silent DEF FenceResume
<1>5. CASE Retry
  <2>1. TypeOK /\ Open
    BY <1>5 DEF Retry, In, OfThisServer, Open
  <2>2. CASE Advance("completed")
    BY <1>5, <2>1, <2>2, CompletionEndsDeal, Closes DEF Retry, Open, files
  <2>3. CASE record' = [record EXCEPT !.tries = @ + 1] /\ record.tries < MaxEnter
    <3>1. /\ record' \in Records /\ record' # Nothing /\ record'.phase = record.phase
          /\ record'.ready = record.ready
      BY <2>1, <2>3, Fields, Assumed DEF Open, Records
    <3> QED
      BY <1>5, <2>1, <3>1, Silent DEF Retry, Deal, Open
  <2>4. CASE UNCHANGED record
    BY <1>5, <2>4, Silent DEF Retry, Deal, Open
  <2> QED
    BY <1>5, <2>2, <2>3, <2>4 DEF Retry, MayEnter
<1>6. CASE Enter
  <2>1. TypeOK /\ Open
    BY <1>6 DEF StepPhase, Enter, Open
  <2>2. Advance("completed") \/ UNCHANGED record
    BY <1>6 DEF Enter, Deliver
  <2>3. Deal' \in {Deal, 0}
    BY <2>1, <2>2, CompletionEndsDeal DEF Open, Deal
  <2>4. Handover!Close
    BY <1>6, <2>3 DEF Enter, Handover!Close, files, history, Standing
  <2> QED
    BY <2>4 DEF Hands, Handover!Next
<1>7. CASE Reconsume
  BY <1>7, Silent DEF Reconsume, Deal, Open
<1>8. CASE Consume
  BY <1>8, Closes DEF Consume, Deal, Open
<1>9. CASE Close
  BY <1>9, Closes DEF Close, Deal, Open
<1>10. CASE RetireDead
  <2>1. decl'.token # "ready" \/ UNCHANGED decl
    BY <1>10 DEF RetireDead
  <2>2. round' \in {round, Nothing} /\ Deal' = Deal
    BY <1>10 DEF RetireDead, Deal, Open
  <2> QED
    BY <1>10, <2>1, <2>2, Closes DEF RetireDead
<1>11. CASE RetireThird
  <2>1. decl'.token # "ready" \/ UNCHANGED decl
    BY <1>11 DEF RetireThird
  <2>2. round' \in {round, Nothing} /\ Deal' = Deal
    BY <1>11 DEF RetireThird, Deal, Open
  <2> QED
    BY <1>11, <2>1, <2>2, Closes DEF RetireThird
<1>12. CASE PutAway
  BY <1>12, Closes DEF PutAway, Deal, Open, files
<1> QED
  BY <1>1, <1>2, <1>3, <1>4, <1>5, <1>6, <1>7, <1>8, <1>9, <1>10, <1>11, <1>12, SubmitHands
     DEF Reconcile

\* The rest of the daemon, and the world.
LEMMA OthersHand ==
    ASSUME IInv, OpenRound \/ CloseRecovered \/ Fail \/ World
    PROVE  Hands
<1>1. CASE OpenRound
  <2>1. fg \in live /\ clock + 1 \in Serials
    BY <1>1, Assumed DEF IInv, TypeOK, Past, OpenRound, Serials
  <2>2. Deal' = Deal /\ Standing' = Standing
    BY <1>1 DEF OpenRound, Deal, Open, Standing
  <2>3. Handover!Open
    BY <1>1, <2>1, <2>2 DEF OpenRound, Handover!Open, pane, history
  <2> QED
    BY <2>3 DEF Hands, Handover!Next
<1>2. CASE CloseRecovered
  BY <1>2, Closes DEF CloseRecovered, Deal, Open
<1>3. CASE Fail
  BY <1>3, Silent DEF Fail, Deal, Open, pane
<1>4. CASE Declare
  <2>1. fg \in live /\ clock + 1 \in Serials
    BY <1>4, Assumed DEF IInv, TypeOK, Past, Declare, Serials
  <2>2. Deal' = Deal /\ Standing' \in {0, clock + 1}
    BY <1>4 DEF Declare, Deal, Open, Standing
  <2>3. Handover!Declare
    BY <1>4, <2>1, <2>2 DEF Declare, Handover!Declare, pane
  <2> QED
    BY <2>3 DEF Hands, Handover!Next
<1>5. CASE HandLaunch
  <2>1. Handover!Begins(born + 1)
    BY <1>5, Assumed DEF IInv, TypeOK, HandLaunch, Handover!Begins, Gens
  <2>2. Handover!HandLaunch
    BY <1>5, <2>1 DEF HandLaunch, Handover!HandLaunch, files, history, Deal, Open, Standing
  <2> QED
    BY <2>2 DEF Hands, Handover!Next
<1>6. CASE ServerRestart \/ \E g \in Gens : Exit(g)
  <2>1. live' \in SUBSET live /\ UNCHANGED <<born, files, record, history>>
    BY <1>6 DEF ServerRestart, Exit
  <2>2. Handover!End
    BY <2>1 DEF Handover!End, files, history, Deal, Open, Standing
  <2> QED
    BY <2>2 DEF Hands, Handover!Next
<1>7. CASE Suspend \/ Continue \/ HandPrompt \/ OtherProgram \/ Reuse
  BY <1>7, Silent DEF Suspend, Continue, HandPrompt, OtherProgram, Reuse, Deal, Open
<1> QED
  BY <1>1, <1>2, <1>3, <1>4, <1>5, <1>6, <1>7 DEF World

\* Every behaviour of the guarded replacement, wherever the daemon dies in it, is a
\* behaviour of the handover: what its records, fences and recoveries add is nothing
\* that a session or a person could tell from it.
THEOREM ImplementsHandover == Spec => HandsOver
<1>1. IInv /\ [Next]_vars => Hands
  <2>1. ASSUME IInv, UNCHANGED vars PROVE Hands
    BY <2>1 DEF vars, Hands, Handover!vars, Deal, Open, Standing
  <2> QED
    BY <2>1, ReplaceHands, ReconcileHands, OthersHand DEF Next, Daemon
<1>2. IInv /\ [Next]_vars => [Handover!Next]_(Handover!vars)
  BY <1>1 DEF Hands
<1> QED
  BY <1>2, HandoverStarts, Invariant, PTL DEF Spec, HandsOver, Handover!Spec

=============================================================================
