---------------------------- MODULE SwitchProofs ----------------------------
(***************************************************************************)
(* What holds of the account switch for any number of passes and accounts, *)
(* token refreshes and faults, wherever a pass is killed.                  *)
(***************************************************************************)
EXTENDS AccountSwitch, TLAPS

-----------------------------------------------------------------------------
(* The inductive invariant                                                  *)

\* The live token and the live identity are of one account.
Whole == live.cred.acct = live.acct

Vaulted == intact => \A a \in Accounts : vault[a].cred.acct = a /\ vault[a].acct = a

\* No token is newer than the latest one issued.
Issued == live.cred.gen <= gen /\ \A a \in Accounts : vault[a].cred.gen <= gen

\* What a pass carries with it, by its position.
Carried(p) ==
    /\ pass[p].pc # "idle" => pass[p].uuid \in Accounts
    /\ pass[p].pc \notin {"idle", "status"} => pass[p].active \in Accounts
    /\ pass[p].pc \in Section => pass[p].target \in Accounts /\ pass[p].id \in Accounts
    /\ pass[p].pc \in {"rest"} \cup Writing => pass[p].got # Nothing
    /\ pass[p].got # Nothing =>
           pass[p].pc \in {"rest", "release"} \cup Writing /\ pass[p].got.cred.gen <= gen
    /\ pass[p].switched => pass[p].pc = "release" /\ pass[p].got # Nothing

\* What a switch knows of the login it captured, and leaves behind.
Known(p) ==
    /\ pass[p].pc \in {"premise", "capture", "rest", "activate"} => Whole
    /\ pass[p].pc = "premise" => pass[p].id = live.acct
    /\ pass[p].pc = "capture" => live.acct = pass[p].active
    /\ pass[p].pc \in {"rest", "activate"} => pass[p].got = live
    /\ pass[p].got # Nothing =>
           pass[p].got.acct = pass[p].active /\ pass[p].got.cred.acct = pass[p].active
    /\ pass[p].pc \in {"activate", "install", "verify"} => pass[p].id = pass[p].target
    /\ pass[p].pc = "verify" =>
           live.host = pass[p].got.host /\ live.settings = pass[p].got.settings
    /\ pass[p].pc = "undoRest" => live.cred = pass[p].got.cred

Left(p) ==
    pass[p].pc = "release" =>
        /\ Whole
        /\ pass[p].got # Nothing =>
            /\ live.host = pass[p].got.host /\ live.settings = pass[p].got.settings
            /\ ~pass[p].switched =>
                   live.acct = pass[p].got.acct /\ live.cred.gen >= pass[p].got.cred.gen

Sound(p) == Carried(p) /\ (intact => Known(p) /\ Left(p))

IInv == TypeOK /\ Vaulted /\ Issued /\ LoginIsWhole /\ \A p \in Passes : Sound(p)

-----------------------------------------------------------------------------
(* Digests of a step                                                        *)

\* Pass p is left in a state, the others where they are.
Became(p, s) ==
    /\ pass' = [pass EXCEPT ![p] = s] /\ s \in PassStates

\* The lock goes with the critical section.
Handed(p, s) ==
    \/ lock' = lock /\ (s.pc \in Section <=> pass[p].pc \in Section)
    \/ lock = Nothing /\ lock' = p /\ s.pc \in Section
    \/ lock = p /\ lock' = Nothing /\ s.pc \notin Section

\* The types of the files.
Typed ==
    /\ live \in LiveStates /\ vault \in [Accounts -> Snapshots] /\ gen \in 0..MaxRefresh
    /\ record \in Records \cup {Nothing} /\ intact \in BOOLEAN /\ faults \in 0..MaxFault

LEMMA Assumed ==
    /\ MaxRefresh \in Nat /\ MaxFault \in Nat /\ Nothing \notin Passes
    /\ Nothing \notin Accounts /\ Nothing \notin LiveStates
  BY SwitchAssumption, NothingAssumption

\* The fields of a pass have their types.
LEMMA Fields ==
    ASSUME TypeOK, NEW p \in Passes
    PROVE  /\ pass[p] \in PassStates /\ pass[p].pc \in Pcs
           /\ pass[p].active \in Accounts \cup {Nothing}
           /\ pass[p].uuid \in Accounts \cup {Nothing}
           /\ pass[p].target \in Accounts \cup {Nothing}
           /\ pass[p].got \in LiveStates \cup {Nothing}
           /\ pass[p].id \in Accounts \cup {Nothing}
           /\ pass[p].switched \in BOOLEAN
  BY DEF TypeOK, PassStates

\* The fields of the live login have their types.
LEMMA LiveFields ==
    ASSUME TypeOK
    PROVE  /\ live.cred \in Tokens /\ live.cred.acct \in Accounts /\ live.cred.gen \in Int
           /\ live.acct \in Accounts
  BY DEF TypeOK, LiveStates, Tokens

\* So have those of what a pass captured.
LEMMA GotFields ==
    ASSUME TypeOK, NEW p \in Passes, pass[p].got \in LiveStates
    PROVE  /\ pass[p].got.cred \in Tokens /\ pass[p].got.cred.acct \in Accounts
           /\ pass[p].got.cred.gen \in Int /\ pass[p].got.acct \in Accounts
  BY DEF LiveStates, Tokens

\* A pass that does not move stays sound while the login does not change, or while
\* another pass holds the lock.
LEMMA Others ==
    ASSUME IInv, NEW p \in Passes, pass'[p] = pass[p], intact' => intact, gen' = gen,
           live' = live \/ pass[p].pc \notin Section
    PROVE  Sound(p)'
<1>1. Sound(p)
  BY DEF IInv
<1>2. Carried(p)'
  BY <1>1 DEF Sound, Carried
<1>3. CASE live' = live
  BY <1>1, <1>2, <1>3 DEF Sound, Known, Left, Whole
<1>4. CASE pass[p].pc \notin Section
  <2>1. pass[p].got = Nothing
    BY <1>1, <1>4 DEF Sound, Carried, Section, Writing, Undo
  <2> QED
    BY <1>2, <1>4, <2>1 DEF Sound, Known, Left, Section, Writing, Undo
<1> QED
  BY <1>3, <1>4

\* What a step of a pass has to establish.
LEMMA Moves ==
    ASSUME IInv, NEW p \in Passes, NEW s, Became(p, s), Handed(p, s), Typed',
           gen' = gen, intact' => intact, live' = live \/ lock = p,
           Vaulted', Issued', LoginIsWhole', Sound(p)'
    PROVE  IInv'
<1>1. TypeOK
  BY DEF IInv
<1>2. /\ pass' \in [Passes -> PassStates] /\ pass'[p] = s
      /\ \A q \in Passes : q # p => pass'[q] = pass[q]
  BY <1>1 DEF TypeOK, Became
<1>3. lock' \in Passes \cup {Nothing}
  BY <1>1 DEF Handed, TypeOK
<1>4. ASSUME NEW q \in Passes
      PROVE  lock' = q <=> pass'[q].pc \in Section
  BY <1>1, <1>2, <1>4, Assumed DEF Handed, TypeOK
<1>5. TypeOK'
  BY <1>2, <1>3, <1>4 DEF Typed, TypeOK
<1>6. ASSUME NEW q \in Passes, q # p
      PROVE  Sound(q)'
  <2>1. live' = live \/ pass[q].pc \notin Section
    BY <1>1, <1>6 DEF TypeOK
  <2> QED
    BY <1>2, <1>6, <2>1, Others
<1> QED
  BY <1>5, <1>6 DEF IInv

-----------------------------------------------------------------------------
(* The steps of a pass                                                      *)

\* The identity of the live account is read.
LEMMA StartStep ==
    ASSUME IInv, NEW p \in Passes, Start(p)
    PROVE  IInv'
<1>1. TypeOK /\ Typed /\ Sound(p) /\ Vaulted /\ Issued /\ LoginIsWhole
  BY DEF IInv, TypeOK, Typed
<1> DEFINE s == [Idle EXCEPT !.pc = "status", !.uuid = live.acct]
<1>2. s \in PassStates
  <2>1. "status" \in Pcs
    BY DEF Pcs, Writing
  <2>2. pass[p] \in PassStates
    BY <1>1, Fields
  <2> QED
    BY <1>1, <2>1, LiveFields DEF PassStates, Idle
<1>3. Became(p, s)
  BY <1>2, Fields DEF Start, GoTo, End, Became, TypeOK, PassStates, Idle
<1>4. /\ pass'[p].pc = "status" /\ s.pc = "status"
      /\ pass'[p].active = Nothing
      /\ pass'[p].uuid = live.acct
      /\ pass'[p].target = Nothing
      /\ pass'[p].got = Nothing
      /\ pass'[p].id = Nothing
      /\ ~pass'[p].switched
  <2>1. pass'[p] = s
    BY <1>1, <1>3 DEF Became, TypeOK
  <2>2. pass[p] \in PassStates
    BY <1>1, Fields
  <2> QED
    BY <2>1 DEF PassStates, Idle
<1>5. Handed(p, s)
  BY <1>4, Fields DEF Start, At, Handed, Section, Writing, Undo, Idle, TypeOK
<1>6. Typed'
  BY <1>1, <1>4, LiveFields, Assumed DEF Start, Typed, At, MayFail
<1>7. Vaulted' /\ Issued'
  BY <1>1, <1>4, LiveFields DEF Start, At, Vaulted, Issued, Sound, Carried
<1>8. Carried(p)'
  BY <1>1, <1>4, Fields, LiveFields, GotFields
     DEF Sound, Carried, At, Section, Writing, Undo, Issued
<1>9. intact' => Known(p)'
  BY <1>4, Fields, LiveFields, GotFields DEF Known, Left, Whole, At, Vaulted, LoginIsWhole
<1>10. intact' => Left(p)'
  BY LiveFields, GotFields DEF Start, Sound, Carried, Known, Left, Whole, At, Vaulted
<1>11. LoginIsWhole'
  BY <1>1, <1>10, Fields, Assumed
     DEF Start, At, LoginIsWhole, Whole, Sound, Known, Left, TypeOK, Section, Writing, Undo
<1> QED
  BY <1>3, <1>5, <1>6, <1>7, <1>8, <1>9, <1>10, <1>11, Moves
     DEF Start, Sound, At, TypeOK, Section, Writing, Undo

\* A profile is found, or the pass ends.
LEMMA DetermineStep ==
    ASSUME IInv, NEW p \in Passes, Determine(p)
    PROVE  IInv'
<1>1. TypeOK /\ Typed /\ Sound(p) /\ Vaulted /\ Issued /\ LoginIsWhole
  BY DEF IInv, TypeOK, Typed
<1>2. pass[p].got = Nothing /\ ~pass[p].switched /\ pass[p].uuid \in Accounts
  BY <1>1, Fields DEF Determine, At, Sound, Carried, Section, Writing, Undo, TypeOK
<1>a. CASE \E a \in ActiveProfiles(pass[p].uuid) :
             pass' = [pass EXCEPT ![p].pc = "resnap", ![p].active = a]
  <2>0. PICK a \in Accounts :
              pass' = [pass EXCEPT ![p].pc = "resnap", ![p].active = a]
    BY <1>a DEF ActiveProfiles
  <2> DEFINE s == [pass[p] EXCEPT !.pc = "resnap", !.active = a]
  <2>1. s \in PassStates
    <3>1. "resnap" \in Pcs
      BY DEF Pcs, Writing
    <3>2. pass[p] \in PassStates
      BY <1>1, Fields
    <3> QED
      BY <1>a, <2>0, <3>1, <3>2, Fields, LiveFields DEF PassStates, Idle
  <2>2. Became(p, s)
    BY <1>1, <1>2, <1>a, <2>0, <2>1, Fields DEF GoTo, End, Became, TypeOK, PassStates, Idle
  <2>3. /\ pass'[p].pc = "resnap" /\ s.pc = "resnap"
        /\ pass'[p].active = a
        /\ pass'[p].uuid = pass[p].uuid
        /\ pass'[p].target = pass[p].target
        /\ pass'[p].got = pass[p].got
        /\ pass'[p].id = pass[p].id
        /\ pass'[p].switched = pass[p].switched
    <3>1. pass'[p] = s
      BY <1>1, <2>2 DEF Became, TypeOK
    <3>2. pass[p] \in PassStates
      BY <1>1, Fields
    <3> QED
      BY <3>1 DEF PassStates
  <2>4. Handed(p, s)
    BY <2>3, Fields DEF Determine, At, Handed, Section, Writing, Undo, Idle, TypeOK
  <2>5. Typed'
    BY <1>1, <1>2, GotFields, LiveFields, Assumed DEF Determine, Typed, At, MayFail
  <2>6. Vaulted' /\ Issued'
    BY <1>1, <1>2, GotFields, LiveFields DEF Determine, At, Vaulted, Issued, Sound, Carried
  <2>7. Carried(p)'
    BY <1>1, <1>2, <2>3, Fields DEF Sound, Carried, At, Section, Writing, Undo, Issued
  <2>8. intact' => Known(p)'
    BY <1>1, <1>2, <2>3, Fields
       DEF Sound, Carried, Known, Left, Whole, At, Vaulted, LoginIsWhole
  <2>9. intact' => Left(p)'
    BY <2>3, Fields, LiveFields, GotFields DEF Known, Left, Whole, At, Vaulted
  <2>10. LoginIsWhole'
    BY <1>1, <1>2, <2>3, <2>8, Assumed
       DEF Determine, At, LoginIsWhole, Whole, Sound, Known, Left, TypeOK, Section, Writing,
           Undo
  <2> QED
    BY <2>3, <2>1, <2>2, <2>4, <2>5, <2>6, <2>7, <2>8, <2>9, <2>10, Moves
       DEF Determine, Sound, At, TypeOK, Section, Writing, Undo
<1>b. CASE End(p)
  <2> DEFINE s == Idle
  <2>1. s \in PassStates
    <3>1. "idle" \in Pcs
      BY DEF Pcs, Writing
    <3>2. pass[p] \in PassStates
      BY <1>1, Fields
    <3> QED
      BY <1>b, <3>1, LiveFields DEF PassStates, Idle
  <2>2. Became(p, s)
    BY <1>b, <2>1 DEF At, GoTo, End, Became, TypeOK, PassStates, Idle
  <2>3. /\ pass'[p].pc = "idle" /\ s.pc = "idle"
        /\ pass'[p].active = Nothing
        /\ pass'[p].uuid = Nothing
        /\ pass'[p].target = Nothing
        /\ pass'[p].got = Nothing
        /\ pass'[p].id = Nothing
        /\ ~pass'[p].switched
    <3>1. pass'[p] = s
      BY <1>1, <2>2 DEF Became, TypeOK
    <3>2. pass[p] \in PassStates
      BY <1>1, Fields
    <3> QED
      BY <3>1 DEF PassStates, Idle
  <2>4. Handed(p, s)
    BY Fields DEF Determine, At, Handed, Section, Writing, Undo, Idle, TypeOK
  <2>5. Typed'
    BY <1>1, <1>b, GotFields, LiveFields, Assumed DEF Determine, Typed, At, MayFail
  <2>6. Vaulted' /\ Issued'
    BY <1>1, <1>2, LiveFields DEF Determine, At, Vaulted, Issued, Sound, Carried
  <2>7. Carried(p)'
    BY <1>b, <2>3, Fields, LiveFields DEF Carried, At, Section, Writing, Undo, Issued
  <2>8. intact' => Known(p)'
    BY <1>b, <2>3, Fields, LiveFields DEF Carried, Known, Left, Whole, At, Vaulted, LoginIsWhole
  <2>9. intact' => Left(p)'
    BY <1>b, <2>3, Fields, LiveFields DEF Carried, Known, Left, Whole, At, Vaulted
  <2>10. LoginIsWhole'
    BY <1>1, <1>2, <2>8, <2>9
       DEF Determine, At, LoginIsWhole, Whole, Sound, Known, Left, TypeOK, Section, Writing,
           Undo
  <2> QED
    BY <2>1, <2>2, <2>4, <2>5, <2>6, <2>7, <2>8, <2>9, <2>10, Moves
       DEF Determine, Sound, At, TypeOK, Section, Writing, Undo
<1> QED
  BY <1>a, <1>b DEF Determine

\* The snapshot of the active account is renewed.
LEMMA ResnapshotStep ==
    ASSUME IInv, NEW p \in Passes, Resnapshot(p)
    PROVE  IInv'
<1>1. TypeOK /\ Typed /\ Sound(p) /\ Vaulted /\ Issued /\ LoginIsWhole
  BY DEF IInv, TypeOK, Typed
<1>2. /\ pass[p].got = Nothing /\ ~pass[p].switched /\ pass[p].uuid \in Accounts
      /\ pass[p].active \in Accounts
  BY <1>1, Fields DEF Resnapshot, At, Sound, Carried, Section, Writing, Undo, TypeOK
<1> DEFINE s == [pass[p] EXCEPT !.pc = "decide"]
<1>3. s \in PassStates
  <2>1. "decide" \in Pcs
    BY DEF Pcs, Writing
  <2>2. pass[p] \in PassStates
    BY <1>1, Fields
  <2> QED
    BY <2>1, <2>2, LiveFields DEF PassStates, Idle
<1>4. Became(p, s)
  BY <1>3 DEF Resnapshot, At, GoTo, End, Became, TypeOK, PassStates, Idle
<1>5. /\ pass'[p].pc = "decide" /\ s.pc = "decide"
      /\ pass'[p].active = pass[p].active
      /\ pass'[p].uuid = pass[p].uuid
      /\ pass'[p].target = pass[p].target
      /\ pass'[p].got = pass[p].got
      /\ pass'[p].id = pass[p].id
      /\ pass'[p].switched = pass[p].switched
  <2>1. pass'[p] = s
    BY <1>1, <1>4 DEF Became, TypeOK
  <2>2. pass[p] \in PassStates
    BY <1>1, Fields
  <2> QED
    BY <2>1 DEF PassStates
<1>6. Handed(p, s)
  BY Fields DEF Resnapshot, At, Handed, Section, Writing, Undo, Idle, TypeOK
<1>l. /\ vault' \in [Accounts -> Snapshots]
      /\ \A a \in Accounts : \/ vault'[a] = vault[a]
                            \/ /\ vault'[a].cred = live.cred /\ vault'[a].acct = live.acct
                               /\ intact' => live.cred.acct = a /\ live.acct = a
  BY <1>1, <1>2, Fields, GotFields DEF Resnapshot, At, Typed, LiveStates, Snapshots, Tokens
<1>7. Typed'
  BY <1>1, <1>2, Fields, GotFields, LiveFields, Assumed
     DEF Resnapshot, Typed, At, MayFail, Snapshots
<1>8. Vaulted' /\ Issued'
  BY <1>1, <1>2, <1>l, Fields, GotFields, LiveFields
     DEF Resnapshot, At, Vaulted, Issued, Sound, Carried
<1>9. Carried(p)'
  BY <1>1, <1>2, <1>5, Assumed
     DEF Resnapshot, Sound, Carried, At, Section, Writing, Undo, Issued
<1>10. intact' => Known(p)'
  BY <1>1, <1>2, <1>5, Assumed
     DEF Resnapshot, Sound, Carried, Known, Left, Whole, At, Vaulted, LoginIsWhole
<1>11. intact' => Left(p)'
  BY <1>5, <1>l, Fields DEF Sound, Carried, Known, Left, Whole, At, Vaulted
<1>12. LoginIsWhole'
  BY <1>1, <1>2, <1>l, <1>10, Assumed
     DEF Resnapshot, At, LoginIsWhole, Whole, Sound, Known, Left, TypeOK, Section, Writing,
         Undo
<1> QED
  BY <1>1, <1>2, <1>l, <1>3, <1>4, <1>6, <1>7, <1>8, <1>9, <1>10, <1>11, <1>12, Moves
     DEF Resnapshot, Sound, At, TypeOK, Section, Writing, Undo

\* The lock is taken, or the pass ends.
LEMMA AcquireStep ==
    ASSUME IInv, NEW p \in Passes, Acquire(p)
    PROVE  IInv'
<1>1. TypeOK /\ Typed /\ Sound(p) /\ Vaulted /\ Issued /\ LoginIsWhole
  BY DEF IInv, TypeOK, Typed
<1>2. /\ pass[p].got = Nothing /\ ~pass[p].switched /\ pass[p].uuid \in Accounts
      /\ pass[p].active \in Accounts
  BY <1>1, Fields DEF Acquire, At, Sound, Carried, Section, Writing, Undo, TypeOK
<1>a. CASE /\ lock = Nothing /\ lock' = p
             /\ \E a \in Accounts \ {pass[p].active} :
                    pass' = [pass EXCEPT ![p].pc = "premise", ![p].target = a,
                                        ![p].id = live.acct]
  <2>0. PICK a \in Accounts :
              pass' = [pass EXCEPT ![p].pc = "premise", ![p].target = a, ![p].id = live.acct]
    BY <1>2, <1>a
  <2> DEFINE s == [pass[p] EXCEPT !.pc = "premise", !.target = a, !.id = live.acct]
  <2>1. s \in PassStates
    <3>1. "premise" \in Pcs
      BY DEF Pcs, Section
    <3>2. pass[p] \in PassStates
      BY <1>1, Fields
    <3> QED
      BY <1>1, <1>a, <3>1, <3>2, Fields, LiveFields DEF PassStates, Idle
  <2>2. Became(p, s)
    BY <1>1, <1>2, <1>a, <2>0, <2>1, Fields DEF GoTo, End, Became, TypeOK, PassStates, Idle
  <2>3. /\ pass'[p].pc = "premise" /\ s.pc = "premise"
        /\ pass'[p].active = pass[p].active
        /\ pass'[p].uuid = pass[p].uuid
        /\ pass'[p].target = a
        /\ pass'[p].got = pass[p].got
        /\ pass'[p].id = live.acct
        /\ pass'[p].switched = pass[p].switched
    <3>1. pass'[p] = s
      BY <1>1, <2>2 DEF Became, TypeOK
    <3>2. pass[p] \in PassStates
      BY <1>1, Fields
    <3> QED
      BY <3>1 DEF PassStates
  <2>4. Handed(p, s)
    BY <1>a, <2>0, <2>3 DEF Acquire, At, Handed, Section, Writing, Undo, Idle, TypeOK
  <2>5. Typed'
    BY <1>1, <1>2, GotFields, LiveFields, Assumed DEF Acquire, Typed, At, MayFail
  <2>6. Vaulted' /\ Issued'
    BY <1>1, <1>2, GotFields, LiveFields DEF Acquire, At, Vaulted, Issued, Sound, Carried
  <2>7. Carried(p)'
    BY <1>1, <1>2, <2>3, Fields, LiveFields, GotFields
       DEF Sound, Carried, At, Section, Writing, Undo, Issued
  <2>8. intact' => Known(p)'
    BY <1>1, <1>2, <1>a, <2>0, <2>3, Fields, Assumed
       DEF Acquire, Sound, Carried, Known, Left, Whole, At, Vaulted, LoginIsWhole
  <2>9. intact' => Left(p)'
    BY <2>3, Fields, LiveFields, GotFields DEF Known, Left, Whole, At, Vaulted
  <2>10. LoginIsWhole'
    BY <2>3, <2>8, <2>9, Fields
       DEF At, LoginIsWhole, Whole, Sound, Known, Left, TypeOK, Section, Writing, Undo
  <2> QED
    BY <2>3, <2>1, <2>2, <2>4, <2>5, <2>6, <2>7, <2>8, <2>9, <2>10, Moves
       DEF Acquire, Sound, At, TypeOK, Section, Writing, Undo
<1>b. CASE End(p) /\ lock' = lock
  <2> DEFINE s == Idle
  <2>1. s \in PassStates
    <3>1. "idle" \in Pcs
      BY DEF Pcs, Writing
    <3>2. pass[p] \in PassStates
      BY <1>1, Fields
    <3> QED
      BY <1>b, <3>1, LiveFields DEF PassStates, Idle
  <2>2. Became(p, s)
    BY <1>b, <2>1 DEF At, GoTo, End, Became, TypeOK, PassStates, Idle
  <2>3. /\ pass'[p].pc = "idle" /\ s.pc = "idle"
        /\ pass'[p].active = Nothing
        /\ pass'[p].uuid = Nothing
        /\ pass'[p].target = Nothing
        /\ pass'[p].got = Nothing
        /\ pass'[p].id = Nothing
        /\ ~pass'[p].switched
    <3>1. pass'[p] = s
      BY <1>1, <2>2 DEF Became, TypeOK
    <3>2. pass[p] \in PassStates
      BY <1>1, Fields
    <3> QED
      BY <3>1 DEF PassStates, Idle
  <2>4. Handed(p, s)
    BY <1>b, <2>3 DEF Acquire, At, Handed, Section, Writing, Undo, Idle, TypeOK
  <2>5. Typed'
    BY <1>1, <1>b, GotFields, LiveFields, Assumed DEF Acquire, Typed, At, MayFail
  <2>6. Vaulted' /\ Issued'
    BY <1>1, <1>2, LiveFields DEF Acquire, At, Vaulted, Issued, Sound, Carried
  <2>7. Carried(p)'
    BY <1>b, <2>3, Fields, LiveFields DEF Carried, At, Section, Writing, Undo, Issued
  <2>8. intact' => Known(p)'
    BY <1>b, <2>3, Fields, LiveFields DEF Carried, Known, Left, Whole, At, Vaulted, LoginIsWhole
  <2>9. intact' => Left(p)'
    BY <1>b, <2>3, Fields, LiveFields DEF Carried, Known, Left, Whole, At, Vaulted
  <2>10. LoginIsWhole'
    BY <2>8, <2>9, Fields, Assumed
       DEF Acquire, At, LoginIsWhole, Whole, Sound, Known, Left, TypeOK, Section, Writing, Undo
  <2> QED
    BY <2>1, <2>2, <2>4, <2>5, <2>6, <2>7, <2>8, <2>9, <2>10, Moves
       DEF Acquire, Sound, At, TypeOK, Section, Writing, Undo
<1> QED
  BY <1>a, <1>b DEF Acquire

\* The decision is kept only about the account that is live.
LEMMA CheckPremiseStep ==
    ASSUME IInv, NEW p \in Passes, CheckPremise(p)
    PROVE  IInv'
<1>1. TypeOK /\ Typed /\ Sound(p) /\ Vaulted /\ Issued /\ LoginIsWhole
  BY DEF IInv, TypeOK, Typed
<1>2. pass[p].got = Nothing /\ ~pass[p].switched /\ lock = p /\ pass[p].uuid \in Accounts
      /\ pass[p].active \in Accounts /\ pass[p].target \in Accounts /\ pass[p].id \in Accounts
  BY <1>1, Fields DEF CheckPremise, At, Sound, Carried, Section, Writing, Undo, TypeOK
<1>a. CASE GoTo(p, "capture") /\ pass[p].active \in ActiveProfiles(pass[p].id)
  <2> DEFINE s == [pass[p] EXCEPT !.pc = "capture"]
  <2>1. s \in PassStates
    <3>1. "capture" \in Pcs
      BY DEF Pcs, Section
    <3>2. pass[p] \in PassStates
      BY <1>1, Fields
    <3> QED
      BY <1>a, <3>1, <3>2, LiveFields DEF PassStates, Idle
  <2>2. Became(p, s)
    BY <1>a, <2>1 DEF At, GoTo, End, Became, TypeOK, PassStates, Idle
  <2>3. /\ pass'[p].pc = "capture" /\ s.pc = "capture"
        /\ pass'[p].active = pass[p].active
        /\ pass'[p].uuid = pass[p].uuid
        /\ pass'[p].target = pass[p].target
        /\ pass'[p].got = pass[p].got
        /\ pass'[p].id = pass[p].id
        /\ pass'[p].switched = pass[p].switched
    <3>1. pass'[p] = s
      BY <1>1, <2>2 DEF Became, TypeOK
    <3>2. pass[p] \in PassStates
      BY <1>1, Fields
    <3> QED
      BY <3>1 DEF PassStates
  <2>4. Handed(p, s)
    BY Fields DEF CheckPremise, At, Handed, Section, Writing, Undo, Idle, TypeOK
  <2>5. Typed'
    BY <1>1, <1>a, GotFields, LiveFields, Assumed DEF CheckPremise, Typed, At, MayFail
  <2>6. Vaulted' /\ Issued'
    BY <1>1, <1>2, LiveFields DEF CheckPremise, At, Vaulted, Issued, Sound, Carried
  <2>7. Carried(p)'
    BY <1>1, <1>2, <1>a, <2>3
       DEF CheckPremise, Sound, Carried, At, Section, Writing, Undo, Issued
  <2>8. intact' => Known(p)'
    BY <1>1, <1>2, <1>a, <2>3
       DEF CheckPremise, Sound, Carried, Known, Left, Whole, At, Vaulted, LoginIsWhole,
           ActiveProfiles, Snapshots, LiveStates, Typed, Tokens
  <2>9. intact' => Left(p)'
    BY <1>a, <2>3, Fields, LiveFields DEF Carried, Known, Left, Whole, At, Vaulted
  <2>10. LoginIsWhole'
    BY <1>a, <2>3, <2>8, <2>9
       DEF LoginIsWhole, Whole, Sound, Known, Left, TypeOK, Section, Writing, Undo
  <2> QED
    BY <2>1, <2>2, <2>4, <2>5, <2>6, <2>7, <2>8, <2>9, <2>10, Moves
       DEF CheckPremise, Sound, At, TypeOK, Section, Writing, Undo
<1>b. CASE GoTo(p, "release")
  <2> DEFINE s == [pass[p] EXCEPT !.pc = "release"]
  <2>1. s \in PassStates
    <3>1. "release" \in Pcs
      BY DEF Pcs, Section
    <3>2. pass[p] \in PassStates
      BY <1>1, Fields
    <3> QED
      BY <1>b, <3>1, <3>2, LiveFields DEF PassStates, Idle
  <2>2. Became(p, s)
    BY <1>b, <2>1 DEF At, GoTo, End, Became, TypeOK, PassStates, Idle
  <2>3. /\ pass'[p].pc = "release" /\ s.pc = "release"
        /\ pass'[p].active = pass[p].active
        /\ pass'[p].uuid = pass[p].uuid
        /\ pass'[p].target = pass[p].target
        /\ pass'[p].got = pass[p].got
        /\ pass'[p].id = pass[p].id
        /\ pass'[p].switched = pass[p].switched
    <3>1. pass'[p] = s
      BY <1>1, <2>2 DEF Became, TypeOK
    <3>2. pass[p] \in PassStates
      BY <1>1, Fields
    <3> QED
      BY <3>1 DEF PassStates
  <2>4. Handed(p, s)
    BY Fields DEF CheckPremise, At, Handed, Section, Writing, Undo, Idle, TypeOK
  <2>5. Typed'
    BY <1>1, <1>b, GotFields, LiveFields, Assumed DEF CheckPremise, Typed, At, MayFail
  <2>6. Vaulted' /\ Issued'
    BY <1>1, <1>2, LiveFields DEF CheckPremise, At, Vaulted, Issued, Sound, Carried
  <2>7. Carried(p)'
    BY <1>1, <1>2, <1>b, <2>3
       DEF CheckPremise, Sound, Carried, At, Section, Writing, Undo, Issued
  <2>8. intact' => Known(p)'
    BY <1>1, <1>2, <1>b, <2>3
       DEF CheckPremise, Sound, Carried, Known, Left, Whole, At, Vaulted, LoginIsWhole
  <2>9. intact' => Left(p)'
    BY <1>1, <1>2, <1>b, <2>3 DEF CheckPremise, Sound, Carried, Known, Left, Whole, At, Vaulted
  <2>10. LoginIsWhole'
    BY <1>b, <2>3, <2>8, <2>9
       DEF LoginIsWhole, Whole, Sound, Known, Left, TypeOK, Section, Writing, Undo
  <2> QED
    BY <2>1, <2>2, <2>4, <2>5, <2>6, <2>7, <2>8, <2>9, <2>10, Moves
       DEF CheckPremise, Sound, At, TypeOK, Section, Writing, Undo
<1> QED
  BY <1>a, <1>b DEF CheckPremise, PremiseStands

\* The credential is captured.
LEMMA CaptureCredentialStep ==
    ASSUME IInv, NEW p \in Passes, CaptureCredential(p)
    PROVE  IInv'
<1>1. TypeOK /\ Typed /\ Sound(p) /\ Vaulted /\ Issued /\ LoginIsWhole
  BY DEF IInv, TypeOK, Typed
<1>2. pass[p].got = Nothing /\ ~pass[p].switched /\ lock = p /\ pass[p].uuid \in Accounts
      /\ pass[p].active \in Accounts /\ pass[p].target \in Accounts /\ pass[p].id \in Accounts
  BY <1>1, Fields DEF CaptureCredential, At, Sound, Carried, Section, Writing, Undo, TypeOK
<1> DEFINE s == [pass[p] EXCEPT !.pc = "rest", !.got = live]
<1>3. s \in PassStates
  <2>1. "rest" \in Pcs
    BY DEF Pcs, Section
  <2>2. pass[p] \in PassStates
    BY <1>1, Fields
  <2> QED
    BY <1>1, <2>1, Fields, LiveFields DEF PassStates, Idle, Typed
<1>4. Became(p, s)
  BY <1>3 DEF CaptureCredential, At, GoTo, End, Became, TypeOK, PassStates, Idle
<1>5. /\ pass'[p].pc = "rest" /\ s.pc = "rest"
      /\ pass'[p].active = pass[p].active
      /\ pass'[p].uuid = pass[p].uuid
      /\ pass'[p].target = pass[p].target
      /\ pass'[p].got = live
      /\ pass'[p].id = pass[p].id
      /\ pass'[p].switched = pass[p].switched
  <2>1. pass'[p] = s
    BY <1>1, <1>4 DEF Became, TypeOK
  <2>2. pass[p] \in PassStates
    BY <1>1, Fields
  <2> QED
    BY <2>1 DEF PassStates
<1>6. Handed(p, s)
  BY Fields DEF CaptureCredential, At, Handed, Section, Writing, Undo, Idle, TypeOK
<1>7. Typed'
  BY <1>1, GotFields, LiveFields, Assumed DEF CaptureCredential, Typed, At, MayFail
<1>8. Vaulted' /\ Issued'
  BY <1>1, <1>2, LiveFields DEF CaptureCredential, At, Vaulted, Issued, Sound, Carried
<1>9. Carried(p)'
  BY <1>1, <1>2, <1>5, GotFields, Assumed
     DEF CaptureCredential, Sound, Carried, At, Section, Writing, Undo, Issued, Typed
<1>10. intact' => Known(p)'
  BY <1>1, <1>2, <1>5
     DEF CaptureCredential, Sound, Carried, Known, Left, Whole, At, Vaulted, LoginIsWhole
<1>11. intact' => Left(p)'
  BY <1>5, Fields, LiveFields DEF Carried, Known, Left, Whole, At, Vaulted
<1>12. LoginIsWhole'
  BY <1>5, <1>10, <1>11
     DEF LoginIsWhole, Whole, Sound, Known, Left, TypeOK, Section, Writing, Undo
<1> QED
  BY <1>3, <1>4, <1>6, <1>7, <1>8, <1>9, <1>10, <1>11, <1>12, Moves
     DEF CaptureCredential, Sound, At, TypeOK, Section, Writing, Undo

\* The rest is captured; under the lock it is still the same login.
LEMMA CaptureRestStep ==
    ASSUME IInv, NEW p \in Passes, CaptureRest(p)
    PROVE  IInv'
<1>1. TypeOK /\ Typed /\ Sound(p) /\ Vaulted /\ Issued /\ LoginIsWhole
  BY DEF IInv, TypeOK, Typed
<1>2. pass[p].got \in LiveStates /\ ~pass[p].switched /\ lock = p /\ pass[p].uuid \in Accounts
      /\ pass[p].active \in Accounts /\ pass[p].target \in Accounts /\ pass[p].id \in Accounts
  BY <1>1, Fields DEF CaptureRest, At, Sound, Carried, Section, Writing, Undo, TypeOK
<1>3. /\ [live EXCEPT !.cred = pass[p].got.cred] \in LiveStates
      /\ [live EXCEPT !.cred = pass[p].got.cred].cred = pass[p].got.cred
      /\ vault[pass[p].target].acct \in Accounts
      /\ intact => [live EXCEPT !.cred = pass[p].got.cred] = live
  <2>1. live \in LiveStates /\ pass[p].got.cred \in Tokens
    BY <1>1, <1>2, GotFields DEF Typed
  <2>2. intact => pass[p].got.cred = live.cred
    BY <1>1 DEF CaptureRest, At, Sound, Known
  <2> QED
    BY <1>1, <1>2, <2>2 DEF Typed, LiveStates, Snapshots
<1> DEFINE s == [pass[p] EXCEPT !.pc = "activate",
                                !.got = [live EXCEPT !.cred = pass[p].got.cred],
                                !.id = vault[pass[p].target].acct]
<1>4. s \in PassStates
  <2>1. "activate" \in Pcs
    BY DEF Pcs, Section, Writing
  <2>2. pass[p] \in PassStates
    BY <1>1, Fields
  <2> QED
    BY <1>3, <2>1, <2>2, Fields, LiveFields DEF PassStates, Idle
<1>5. Became(p, s)
  BY <1>1, <1>2, <1>4 DEF CaptureRest, At, GoTo, End, Became, TypeOK, PassStates, Idle
<1>6. /\ pass'[p].pc = "activate" /\ s.pc = "activate"
      /\ pass'[p].active = pass[p].active
      /\ pass'[p].uuid = pass[p].uuid
      /\ pass'[p].target = pass[p].target
      /\ pass'[p].got = [live EXCEPT !.cred = pass[p].got.cred]
      /\ pass'[p].id = vault[pass[p].target].acct
      /\ pass'[p].switched = pass[p].switched
  <2>1. pass'[p] = s
    BY <1>1, <1>5 DEF Became, TypeOK
  <2>2. pass[p] \in PassStates
    BY <1>1, Fields
  <2> QED
    BY <2>1 DEF PassStates
<1>7. Handed(p, s)
  BY <1>6, Fields DEF CaptureRest, At, Handed, Section, Writing, Undo, Idle, TypeOK
<1>8. Typed'
  BY <1>1, <1>2, GotFields, LiveFields, Assumed DEF CaptureRest, Typed, At, MayFail
<1>9. Vaulted' /\ Issued'
  BY <1>1, <1>2, GotFields, LiveFields DEF CaptureRest, At, Vaulted, Issued, Sound, Carried
<1>10. Carried(p)'
  BY <1>1, <1>2, <1>3, <1>6, Fields, LiveFields, GotFields, Assumed
     DEF CaptureRest, Sound, Carried, At, Section, Writing, Undo, Issued
<1>11. intact' => Known(p)'
  BY <1>1, <1>2, <1>3, <1>6, Fields, Assumed
     DEF CaptureRest, Sound, Carried, Known, Left, Whole, At, Vaulted, LoginIsWhole
<1>12. intact' => Left(p)'
  BY <1>6, Fields, LiveFields, GotFields DEF Known, Left, Whole, At, Vaulted
<1>13. LoginIsWhole'
  BY <1>6, <1>11, <1>12, Fields
     DEF At, LoginIsWhole, Whole, Sound, Known, Left, TypeOK, Section, Writing, Undo
<1> QED
  BY <1>6, <1>4, <1>5, <1>7, <1>8, <1>9, <1>10, <1>11, <1>12, <1>13, Moves
     DEF CaptureRest, Sound, At, TypeOK, Section, Writing, Undo

\* The target's files replace the live ones, all or some of them.
LEMMA ActivateStep ==
    ASSUME IInv, NEW p \in Passes, Activate(p)
    PROVE  IInv'
<1>1. TypeOK /\ Typed /\ Sound(p) /\ Vaulted /\ Issued /\ LoginIsWhole
  BY DEF IInv, TypeOK, Typed
<1>2. pass[p].got \in LiveStates /\ ~pass[p].switched /\ lock = p /\ pass[p].uuid \in Accounts
      /\ pass[p].active \in Accounts /\ pass[p].target \in Accounts /\ pass[p].id \in Accounts
  BY <1>1, Fields DEF Activate, At, Sound, Carried, Section, Writing, Undo, TypeOK
<1>a. CASE GoTo(p, "install")
  <2> DEFINE s == [pass[p] EXCEPT !.pc = "install"]
  <2>1. s \in PassStates
    <3>1. "install" \in Pcs
      BY DEF Pcs, Section, Writing
    <3>2. pass[p] \in PassStates
      BY <1>1, Fields
    <3> QED
      BY <1>a, <3>1, <3>2, LiveFields DEF PassStates, Idle
  <2>2. Became(p, s)
    BY <1>a, <2>1 DEF At, GoTo, End, Became, TypeOK, PassStates, Idle
  <2>3. /\ pass'[p].pc = "install" /\ s.pc = "install"
        /\ pass'[p].active = pass[p].active
        /\ pass'[p].uuid = pass[p].uuid
        /\ pass'[p].target = pass[p].target
        /\ pass'[p].got = pass[p].got
        /\ pass'[p].id = pass[p].id
        /\ pass'[p].switched = pass[p].switched
    <3>1. pass'[p] = s
      BY <1>1, <2>2 DEF Became, TypeOK
    <3>2. pass[p] \in PassStates
      BY <1>1, Fields
    <3> QED
      BY <3>1 DEF PassStates
  <2>4. Handed(p, s)
    BY Fields DEF Activate, At, Handed, Section, Writing, Undo, Idle, TypeOK
  <2>l. /\ live' \in LiveStates /\ live'.cred \in {live.cred, vault[pass[p].target].cred}
        /\ pass'[p].got \in LiveStates /\ pass'[p].got.cred.gen \in Int
    BY <1>1, <1>2, <1>a, <2>3, Fields, LiveFields, GotFields
       DEF Activate, At, Typed, LiveStates, Snapshots, Tokens
  <2>5. Typed'
    BY <1>1, <1>2, <2>l, GotFields, LiveFields, Assumed DEF Activate, Typed, At, MayFail
  <2>6. Vaulted' /\ Issued'
    BY <1>1, <1>2, GotFields, LiveFields DEF Activate, At, Vaulted, Issued, Sound, Carried
  <2>7. Carried(p)'
    BY <1>1, <1>2, <1>a, <2>3, Assumed
       DEF Activate, Sound, Carried, At, Section, Writing, Undo, Issued
  <2>8. intact' => Known(p)'
    BY <1>1, <1>2, <1>a, <2>3, Assumed
       DEF Activate, Sound, Carried, Known, Left, Whole, At, Vaulted, LoginIsWhole
  <2>9. intact' => Left(p)'
    BY <1>a, <2>3, <2>l, Fields DEF Sound, Carried, Known, Left, Whole, At, Vaulted
  <2>10. LoginIsWhole'
    BY <1>1, <1>2, <2>l, <2>8, Assumed
       DEF Activate, At, LoginIsWhole, Whole, Sound, Known, Left, TypeOK, Section, Writing, Undo
  <2> QED
    BY <1>1, <1>2, <2>l, <2>1, <2>2, <2>4, <2>5, <2>6, <2>7, <2>8, <2>9, <2>10, Moves
       DEF Activate, Sound, At, TypeOK, Section, Writing, Undo
<1>b. CASE GoTo(p, "undoCred")
  <2> DEFINE s == [pass[p] EXCEPT !.pc = "undoCred"]
  <2>1. s \in PassStates
    <3>1. "undoCred" \in Pcs
      BY DEF Pcs, Section, Writing, Undo
    <3>2. pass[p] \in PassStates
      BY <1>1, Fields
    <3> QED
      BY <1>b, <3>1, <3>2, LiveFields DEF PassStates, Idle
  <2>2. Became(p, s)
    BY <1>b, <2>1 DEF At, GoTo, End, Became, TypeOK, PassStates, Idle
  <2>3. /\ pass'[p].pc = "undoCred" /\ s.pc = "undoCred"
        /\ pass'[p].active = pass[p].active
        /\ pass'[p].uuid = pass[p].uuid
        /\ pass'[p].target = pass[p].target
        /\ pass'[p].got = pass[p].got
        /\ pass'[p].id = pass[p].id
        /\ pass'[p].switched = pass[p].switched
    <3>1. pass'[p] = s
      BY <1>1, <2>2 DEF Became, TypeOK
    <3>2. pass[p] \in PassStates
      BY <1>1, Fields
    <3> QED
      BY <3>1 DEF PassStates
  <2>4. Handed(p, s)
    BY Fields DEF Activate, At, Handed, Section, Writing, Undo, Idle, TypeOK
  <2>l. /\ live' \in LiveStates /\ live'.cred \in {live.cred, vault[pass[p].target].cred}
        /\ pass'[p].got \in LiveStates /\ pass'[p].got.cred.gen \in Int
    BY <1>1, <1>2, <1>b, <2>3, Fields, LiveFields, GotFields
       DEF Activate, At, Typed, LiveStates, Snapshots, Tokens
  <2>5. Typed'
    BY <1>1, <1>2, <2>l, GotFields, LiveFields, Assumed DEF Activate, Typed, At, MayFail
  <2>6. Vaulted' /\ Issued'
    BY <1>1, <1>2, GotFields, LiveFields DEF Activate, At, Vaulted, Issued, Sound, Carried
  <2>7. Carried(p)'
    BY <1>1, <1>2, <1>b, <2>3, Assumed
       DEF Activate, Sound, Carried, At, Section, Writing, Undo, Issued
  <2>8. intact' => Known(p)'
    BY <1>1, <1>2, <1>b, <2>3, Assumed
       DEF Activate, Sound, Carried, Known, Left, Whole, At, Vaulted, LoginIsWhole
  <2>9. intact' => Left(p)'
    BY <1>b, <2>3, <2>l, Fields DEF Sound, Carried, Known, Left, Whole, At, Vaulted
  <2>10. LoginIsWhole'
    BY <1>1, <1>2, <2>l, <2>8, Assumed
       DEF Activate, At, LoginIsWhole, Whole, Sound, Known, Left, TypeOK, Section, Writing, Undo
  <2> QED
    BY <1>1, <1>2, <2>l, <2>1, <2>2, <2>4, <2>5, <2>6, <2>7, <2>8, <2>9, <2>10, Moves
       DEF Activate, Sound, At, TypeOK, Section, Writing, Undo
<1> QED
  BY <1>a, <1>b DEF Activate

\* The host's own files are put back around the new identity.
LEMMA InstallStep ==
    ASSUME IInv, NEW p \in Passes, Install(p)
    PROVE  IInv'
<1>1. TypeOK /\ Typed /\ Sound(p) /\ Vaulted /\ Issued /\ LoginIsWhole
  BY DEF IInv, TypeOK, Typed
<1>2. pass[p].got \in LiveStates /\ ~pass[p].switched /\ lock = p /\ pass[p].uuid \in Accounts
      /\ pass[p].active \in Accounts /\ pass[p].target \in Accounts /\ pass[p].id \in Accounts
  BY <1>1, Fields DEF Install, At, Sound, Carried, Section, Writing, Undo, TypeOK
<1>a. CASE GoTo(p, "verify")
  <2> DEFINE s == [pass[p] EXCEPT !.pc = "verify"]
  <2>1. s \in PassStates
    <3>1. "verify" \in Pcs
      BY DEF Pcs, Section, Writing
    <3>2. pass[p] \in PassStates
      BY <1>1, Fields
    <3> QED
      BY <1>a, <3>1, <3>2, LiveFields DEF PassStates, Idle
  <2>2. Became(p, s)
    BY <1>a, <2>1 DEF At, GoTo, End, Became, TypeOK, PassStates, Idle
  <2>3. /\ pass'[p].pc = "verify" /\ s.pc = "verify"
        /\ pass'[p].active = pass[p].active
        /\ pass'[p].uuid = pass[p].uuid
        /\ pass'[p].target = pass[p].target
        /\ pass'[p].got = pass[p].got
        /\ pass'[p].id = pass[p].id
        /\ pass'[p].switched = pass[p].switched
    <3>1. pass'[p] = s
      BY <1>1, <2>2 DEF Became, TypeOK
    <3>2. pass[p] \in PassStates
      BY <1>1, Fields
    <3> QED
      BY <3>1 DEF PassStates
  <2>4. Handed(p, s)
    BY Fields DEF Install, At, Handed, Section, Writing, Undo, Idle, TypeOK
  <2>k. live' = [live EXCEPT !.acct = pass[p].id, !.host = pass[p].got.host,
                                 !.settings = pass[p].got.settings]
    <3>1. ~GoTo(p, "undoCred")
      <4>1. pass[p] \in PassStates
        BY <1>1, Fields
      <4>2. GoTo(p, "undoCred") => pass'[p].pc = "undoCred"
        BY <1>1 DEF GoTo, TypeOK
      <4> QED
        BY <2>3, <4>2
    <3> QED
      BY <3>1 DEF Install, OwnSettings
  <2>l. /\ live' \in LiveStates /\ live'.cred = live.cred
        /\ live'.host = pass[p].got.host /\ live'.settings = pass[p].got.settings
    BY <1>1, <1>2, <2>k, LiveFields, GotFields
       DEF Install, At, Typed, LiveStates, Snapshots, Tokens
  <2>5. Typed'
    BY <1>1, <1>2, <2>l, Fields, GotFields, LiveFields, Assumed DEF Install, Typed, At, MayFail
  <2>6. Vaulted' /\ Issued'
    BY <1>1, <1>2, <2>k, <2>l, LiveFields DEF Install, At, Vaulted, Issued, Sound, Carried
  <2>7. Carried(p)'
    BY <1>1, <1>2, <1>a, <2>3, GotFields, Assumed
       DEF Install, Sound, Carried, At, Section, Writing, Undo, Issued
  <2>8. intact' => Known(p)'
    BY <1>1, <1>2, <1>a, <2>3, <2>k, <2>l, GotFields, Assumed
       DEF Install, Sound, Carried, Known, Left, Whole, At, Vaulted, LoginIsWhole
  <2>9. intact' => Left(p)'
    BY <1>a, <2>3, <2>k, <2>l DEF Install, Sound, Carried, Known, Left, Whole, At, Vaulted
  <2>10. LoginIsWhole'
    BY <1>1, <1>2, <2>k, <2>l, Fields, Assumed
       DEF Install, At, LoginIsWhole, Whole, Sound, Known, Left, TypeOK, Section, Writing, Undo
  <2> QED
    BY <1>1, <1>2, <2>k, <2>l, <2>1, <2>2, <2>4, <2>5, <2>6, <2>7, <2>8, <2>9, <2>10, Moves
       DEF Install, Sound, At, TypeOK, Section, Writing, Undo
<1>b. CASE GoTo(p, "undoCred")
  <2> DEFINE s == [pass[p] EXCEPT !.pc = "undoCred"]
  <2>1. s \in PassStates
    <3>1. "undoCred" \in Pcs
      BY DEF Pcs, Section, Writing, Undo
    <3>2. pass[p] \in PassStates
      BY <1>1, Fields
    <3> QED
      BY <1>b, <3>1, <3>2, LiveFields DEF PassStates, Idle
  <2>2. Became(p, s)
    BY <1>b, <2>1 DEF At, GoTo, End, Became, TypeOK, PassStates, Idle
  <2>3. /\ pass'[p].pc = "undoCred" /\ s.pc = "undoCred"
        /\ pass'[p].active = pass[p].active
        /\ pass'[p].uuid = pass[p].uuid
        /\ pass'[p].target = pass[p].target
        /\ pass'[p].got = pass[p].got
        /\ pass'[p].id = pass[p].id
        /\ pass'[p].switched = pass[p].switched
    <3>1. pass'[p] = s
      BY <1>1, <2>2 DEF Became, TypeOK
    <3>2. pass[p] \in PassStates
      BY <1>1, Fields
    <3> QED
      BY <3>1 DEF PassStates
  <2>4. Handed(p, s)
    BY Fields DEF Install, At, Handed, Section, Writing, Undo, Idle, TypeOK
  <2>l. live' \in LiveStates /\ live'.cred = live.cred
    BY <1>1, <1>2, Fields, LiveFields, GotFields
       DEF Install, At, Typed, LiveStates, Snapshots, Tokens, OwnSettings
  <2>5. Typed'
    BY <1>1, <1>2, <2>l, GotFields, LiveFields, Assumed DEF Install, Typed, At, MayFail
  <2>6. Vaulted' /\ Issued'
    BY <1>1, <1>2, <2>l, GotFields, LiveFields DEF Install, At, Vaulted, Issued, Sound, Carried
  <2>7. Carried(p)'
    BY <1>1, <1>2, <1>b, <2>3, Assumed
       DEF Install, Sound, Carried, At, Section, Writing, Undo, Issued
  <2>8. intact' => Known(p)'
    BY <1>1, <1>2, <1>b, <2>3, Assumed
       DEF Install, Sound, Carried, Known, Left, Whole, At, Vaulted, LoginIsWhole
  <2>9. intact' => Left(p)'
    BY <1>b, <2>3, <2>l, Fields DEF Sound, Carried, Known, Left, Whole, At, Vaulted
  <2>10. LoginIsWhole'
    BY <1>1, <1>2, <2>l, <2>8, Assumed
       DEF Install, At, LoginIsWhole, Whole, Sound, Known, Left, TypeOK, Section, Writing, Undo
  <2> QED
    BY <1>1, <1>2, <2>l, <2>1, <2>2, <2>4, <2>5, <2>6, <2>7, <2>8, <2>9, <2>10, Moves
       DEF Install, Sound, At, TypeOK, Section, Writing, Undo
<1> QED
  BY <1>a, <1>b DEF Install

\* A switch is accepted with both live files of the target, or undone.
LEMMA VerifyStep ==
    ASSUME IInv, NEW p \in Passes, Verify(p)
    PROVE  IInv'
<1>1. TypeOK /\ Typed /\ Sound(p) /\ Vaulted /\ Issued /\ LoginIsWhole
  BY DEF IInv, TypeOK, Typed
<1>2. pass[p].got \in LiveStates /\ ~pass[p].switched /\ lock = p /\ pass[p].uuid \in Accounts
      /\ pass[p].active \in Accounts /\ pass[p].target \in Accounts /\ pass[p].id \in Accounts
  BY <1>1, Fields DEF Verify, At, Sound, Carried, Section, Writing, Undo, TypeOK
<1>a. CASE TookEffect(p) /\ pass' = [pass EXCEPT ![p].pc = "release", ![p].switched = TRUE]
  <2> DEFINE s == [pass[p] EXCEPT !.pc = "release", !.switched = TRUE]
  <2>1. s \in PassStates
    <3>1. "release" \in Pcs
      BY DEF Pcs, Section
    <3>2. pass[p] \in PassStates
      BY <1>1, Fields
    <3> QED
      BY <1>a, <3>1, <3>2, LiveFields DEF PassStates, Idle
  <2>2. Became(p, s)
    BY <1>a, <2>1 DEF At, GoTo, End, Became, TypeOK, PassStates, Idle
  <2>3. /\ pass'[p].pc = "release" /\ s.pc = "release"
        /\ pass'[p].active = pass[p].active
        /\ pass'[p].uuid = pass[p].uuid
        /\ pass'[p].target = pass[p].target
        /\ pass'[p].got = pass[p].got
        /\ pass'[p].id = pass[p].id
        /\ pass'[p].switched
    <3>1. pass'[p] = s
      BY <1>1, <2>2 DEF Became, TypeOK
    <3>2. pass[p] \in PassStates
      BY <1>1, Fields
    <3> QED
      BY <3>1 DEF PassStates
  <2>4. Handed(p, s)
    BY Fields DEF Verify, At, Handed, Section, Writing, Undo, Idle, TypeOK
  <2>5. Typed'
    BY <1>1, <1>a, GotFields, LiveFields, Assumed DEF Verify, Typed, At, MayFail
  <2>6. Vaulted' /\ Issued'
    BY <1>1, <1>2, LiveFields DEF Verify, At, Vaulted, Issued, Sound, Carried
  <2>7. Carried(p)'
    BY <1>1, <1>2, <1>a, <2>3 DEF Verify, Sound, Carried, At, Section, Writing, Undo, Issued
  <2>8. intact' => Known(p)'
    BY <1>1, <1>2, <1>a, <2>3
       DEF Verify, Sound, Carried, Known, Left, Whole, At, Vaulted, LoginIsWhole
  <2>9. intact' => Left(p)'
    BY <1>1, <1>2, <1>a, <2>3
       DEF Verify, Sound, Carried, Known, Left, Whole, At, Vaulted, TookEffect
  <2>10. LoginIsWhole'
    BY <1>a, <2>3, <2>8, <2>9
       DEF LoginIsWhole, Whole, Sound, Known, Left, TypeOK, Section, Writing, Undo
  <2> QED
    BY <2>1, <2>2, <2>4, <2>5, <2>6, <2>7, <2>8, <2>9, <2>10, Moves
       DEF Verify, Sound, At, TypeOK, Section, Writing, Undo
<1>b. CASE GoTo(p, "undoCred")
  <2> DEFINE s == [pass[p] EXCEPT !.pc = "undoCred"]
  <2>1. s \in PassStates
    <3>1. "undoCred" \in Pcs
      BY DEF Pcs, Section, Writing, Undo
    <3>2. pass[p] \in PassStates
      BY <1>1, Fields
    <3> QED
      BY <1>b, <3>1, <3>2, LiveFields DEF PassStates, Idle
  <2>2. Became(p, s)
    BY <1>b, <2>1 DEF At, GoTo, End, Became, TypeOK, PassStates, Idle
  <2>3. /\ pass'[p].pc = "undoCred" /\ s.pc = "undoCred"
        /\ pass'[p].active = pass[p].active
        /\ pass'[p].uuid = pass[p].uuid
        /\ pass'[p].target = pass[p].target
        /\ pass'[p].got = pass[p].got
        /\ pass'[p].id = pass[p].id
        /\ pass'[p].switched = pass[p].switched
    <3>1. pass'[p] = s
      BY <1>1, <2>2 DEF Became, TypeOK
    <3>2. pass[p] \in PassStates
      BY <1>1, Fields
    <3> QED
      BY <3>1 DEF PassStates
  <2>4. Handed(p, s)
    BY Fields DEF Verify, At, Handed, Section, Writing, Undo, Idle, TypeOK
  <2>5. Typed'
    BY <1>1, <1>b, GotFields, LiveFields, Assumed DEF Verify, Typed, At, MayFail
  <2>6. Vaulted' /\ Issued'
    BY <1>1, <1>2, LiveFields DEF Verify, At, Vaulted, Issued, Sound, Carried
  <2>7. Carried(p)'
    BY <1>1, <1>2, <1>b, <2>3 DEF Verify, Sound, Carried, At, Section, Writing, Undo, Issued
  <2>8. intact' => Known(p)'
    BY <1>1, <1>2, <1>b, <2>3
       DEF Verify, Sound, Carried, Known, Left, Whole, At, Vaulted, LoginIsWhole
  <2>9. intact' => Left(p)'
    BY <1>b, <2>3, Fields, LiveFields DEF Carried, Known, Left, Whole, At, Vaulted
  <2>10. LoginIsWhole'
    BY <1>1, <1>2, <2>8, <2>9
       DEF Verify, At, LoginIsWhole, Whole, Sound, Known, Left, TypeOK, Section, Writing, Undo
  <2> QED
    BY <2>1, <2>2, <2>4, <2>5, <2>6, <2>7, <2>8, <2>9, <2>10, Moves
       DEF Verify, Sound, At, TypeOK, Section, Writing, Undo
<1> QED
  BY <1>a, <1>b DEF Verify

\* The captured credential is put back.
LEMMA RestoreCredentialStep ==
    ASSUME IInv, NEW p \in Passes, RestoreCredential(p)
    PROVE  IInv'
<1>1. TypeOK /\ Typed /\ Sound(p) /\ Vaulted /\ Issued /\ LoginIsWhole
  BY DEF IInv, TypeOK, Typed
<1>2. pass[p].got \in LiveStates /\ ~pass[p].switched /\ lock = p /\ pass[p].uuid \in Accounts
      /\ pass[p].active \in Accounts /\ pass[p].target \in Accounts /\ pass[p].id \in Accounts
  BY <1>1, Fields DEF RestoreCredential, At, Sound, Carried, Section, Writing, Undo, TypeOK
<1> DEFINE s == [pass[p] EXCEPT !.pc = "undoRest"]
<1>3. s \in PassStates
  <2>1. "undoRest" \in Pcs
    BY DEF Pcs, Section, Writing, Undo
  <2>2. pass[p] \in PassStates
    BY <1>1, Fields
  <2> QED
    BY <2>1, <2>2, LiveFields DEF PassStates, Idle
<1>4. Became(p, s)
  BY <1>3 DEF RestoreCredential, At, GoTo, End, Became, TypeOK, PassStates, Idle
<1>5. /\ pass'[p].pc = "undoRest" /\ s.pc = "undoRest"
      /\ pass'[p].active = pass[p].active
      /\ pass'[p].uuid = pass[p].uuid
      /\ pass'[p].target = pass[p].target
      /\ pass'[p].got = pass[p].got
      /\ pass'[p].id = pass[p].id
      /\ pass'[p].switched = pass[p].switched
  <2>1. pass'[p] = s
    BY <1>1, <1>4 DEF Became, TypeOK
  <2>2. pass[p] \in PassStates
    BY <1>1, Fields
  <2> QED
    BY <2>1 DEF PassStates
<1>6. Handed(p, s)
  BY Fields DEF RestoreCredential, At, Handed, Section, Writing, Undo, Idle, TypeOK
<1>k. intact' \in BOOLEAN /\ (intact' => intact) /\ faults' \in 0..MaxFault
  <2>1. \/ intact' = intact /\ faults' = faults
        \/ faults < MaxFault /\ faults' = faults + 1 /\ intact' = FALSE
    BY DEF RestoreCredential, MayFail
  <2>2. faults' \in 0..MaxFault
    BY <1>1, <2>1, Assumed DEF Typed
  <2>3. CASE intact' = intact
    BY <1>1, <2>2, <2>3 DEF Typed
  <2>4. CASE intact' = FALSE
    <3>1. intact' \in BOOLEAN
      BY <2>4
    <3>2. ~intact'
      BY <2>4
    <3> QED
      BY <2>2, <3>1, <3>2
  <2> QED
    BY <2>1, <2>3, <2>4
<1>l. /\ live' \in LiveStates /\ live'.cred \in {live.cred, pass[p].got.cred}
      /\ intact' => live'.cred = pass[p].got.cred
  BY <1>1, <1>2, LiveFields, GotFields
     DEF RestoreCredential, At, Typed, LiveStates, Snapshots, Tokens
<1>7. Typed'
  BY <1>1, <1>2, <1>k, <1>l, Fields, GotFields, LiveFields, Assumed
     DEF RestoreCredential, Typed, At, MayFail
<1>8. Vaulted' /\ Issued'
  <2>1. Vaulted'
    BY <1>1 DEF RestoreCredential, Vaulted
  <2>2. pass[p].got # Nothing
    BY <1>2, Assumed
  <2>3. gen' = gen /\ vault' = vault /\ live'.cred.gen <= gen
    BY <1>1, <1>l, <2>2 DEF RestoreCredential, Issued, Sound, Carried
  <2> QED
    BY <1>1, <2>1, <2>3 DEF Issued
<1>9. Carried(p)'
  BY <1>1, <1>2, <1>5, GotFields, Assumed
     DEF RestoreCredential, Sound, Carried, At, Section, Writing, Undo, Issued
<1>10. intact' => Known(p)'
  BY <1>1, <1>2, <1>5, <1>k, <1>l, GotFields, Assumed
     DEF RestoreCredential, Sound, Carried, Known, Left, Whole, At, Vaulted, LoginIsWhole
<1>11. intact' => Left(p)'
  BY <1>5, <1>k, <1>l
     DEF RestoreCredential, Sound, Carried, Known, Left, Whole, At, Vaulted
<1>12. LoginIsWhole'
  BY <1>1, <1>2, <1>k, <1>l, Fields, Assumed
     DEF RestoreCredential, At, LoginIsWhole, Whole, Sound, Known, Left, TypeOK, Section,
         Writing, Undo
<1> QED
  BY <1>1, <1>2, <1>k, <1>l, <1>3, <1>4, <1>6, <1>7, <1>8, <1>9, <1>10, <1>11, <1>12, Moves
     DEF RestoreCredential, Sound, At, TypeOK, Section, Writing, Undo

\* The captured identity and settings are put back.
LEMMA RestoreRestStep ==
    ASSUME IInv, NEW p \in Passes, RestoreRest(p)
    PROVE  IInv'
<1>1. TypeOK /\ Typed /\ Sound(p) /\ Vaulted /\ Issued /\ LoginIsWhole
  BY DEF IInv, TypeOK, Typed
<1>2. pass[p].got \in LiveStates /\ ~pass[p].switched /\ lock = p /\ pass[p].uuid \in Accounts
      /\ pass[p].active \in Accounts /\ pass[p].target \in Accounts /\ pass[p].id \in Accounts
  BY <1>1, Fields DEF RestoreRest, At, Sound, Carried, Section, Writing, Undo, TypeOK
<1> DEFINE s == [pass[p] EXCEPT !.pc = "release"]
<1>3. s \in PassStates
  <2>1. "release" \in Pcs
    BY DEF Pcs, Section
  <2>2. pass[p] \in PassStates
    BY <1>1, Fields
  <2> QED
    BY <2>1, <2>2, LiveFields DEF PassStates, Idle
<1>4. Became(p, s)
  BY <1>3 DEF RestoreRest, At, GoTo, End, Became, TypeOK, PassStates, Idle
<1>5. /\ pass'[p].pc = "release" /\ s.pc = "release"
      /\ pass'[p].active = pass[p].active
      /\ pass'[p].uuid = pass[p].uuid
      /\ pass'[p].target = pass[p].target
      /\ pass'[p].got = pass[p].got
      /\ pass'[p].id = pass[p].id
      /\ pass'[p].switched = pass[p].switched
  <2>1. pass'[p] = s
    BY <1>1, <1>4 DEF Became, TypeOK
  <2>2. pass[p] \in PassStates
    BY <1>1, Fields
  <2> QED
    BY <2>1 DEF PassStates
<1>6. Handed(p, s)
  BY Fields DEF RestoreRest, At, Handed, Section, Writing, Undo, Idle, TypeOK
<1>k. intact' \in BOOLEAN /\ (intact' => intact) /\ faults' \in 0..MaxFault
  <2>1. \/ intact' = intact /\ faults' = faults
        \/ faults < MaxFault /\ faults' = faults + 1 /\ intact' = FALSE
    BY DEF RestoreRest, MayFail
  <2>2. faults' \in 0..MaxFault
    BY <1>1, <2>1, Assumed DEF Typed
  <2>3. CASE intact' = intact
    BY <1>1, <2>2, <2>3 DEF Typed
  <2>4. CASE intact' = FALSE
    <3>1. intact' \in BOOLEAN
      BY <2>4
    <3>2. ~intact'
      BY <2>4
    <3> QED
      BY <2>2, <3>1, <3>2
  <2> QED
    BY <2>1, <2>3, <2>4
<1>l. /\ live' \in LiveStates /\ live'.cred = live.cred
      /\ intact' => /\ live'.acct = pass[p].got.acct /\ live'.host = pass[p].got.host
                    /\ live'.settings = pass[p].got.settings
  BY <1>1, <1>2, <1>5
     DEF RestoreRest, At, Typed, LiveStates, Snapshots, Tokens, Captured
<1>7. Typed'
  BY <1>1, <1>2, <1>k, <1>l, Fields, GotFields, LiveFields, Assumed
     DEF RestoreRest, Typed, At, MayFail
<1>8. Vaulted' /\ Issued'
  BY <1>1, <1>2, <1>k, <1>l, LiveFields DEF RestoreRest, At, Vaulted, Issued, Sound, Carried
<1>9. Carried(p)'
  BY <1>1, <1>2, <1>5, GotFields, Assumed
     DEF RestoreRest, Sound, Carried, At, Section, Writing, Undo, Issued
<1>10. intact' => Known(p)'
  BY <1>1, <1>2, <1>5, GotFields, Assumed
     DEF RestoreRest, Sound, Carried, Known, Left, Whole, At, Vaulted, LoginIsWhole
<1>11. intact' => Left(p)'
  BY <1>1, <1>2, <1>5, <1>k, <1>l, GotFields, Assumed
     DEF RestoreRest, Sound, Carried, Known, Left, Whole, At, Vaulted
<1>12. LoginIsWhole'
  BY <1>5, <1>k, <1>l, <1>10, <1>11
     DEF RestoreRest, At, LoginIsWhole, Whole, Sound, Known, Left, TypeOK, Section, Writing,
         Undo
<1> QED
  BY <1>1, <1>2, <1>k, <1>l, <1>3, <1>4, <1>6, <1>7, <1>8, <1>9, <1>10, <1>11, <1>12, Moves
     DEF RestoreRest, Sound, At, TypeOK, Section, Writing, Undo

\* The lock is let go over a login of one account.
LEMMA ReleaseStep ==
    ASSUME IInv, NEW p \in Passes, Release(p)
    PROVE  IInv'
<1>1. TypeOK /\ Typed /\ Sound(p) /\ Vaulted /\ Issued /\ LoginIsWhole
  BY DEF IInv, TypeOK, Typed
<1>2. /\ lock = p /\ pass[p].uuid \in Accounts /\ pass[p].active \in Accounts
      /\ pass[p].target \in Accounts /\ pass[p].id \in Accounts
  BY <1>1, Fields DEF Release, At, Sound, Carried, Section, Writing, Undo, TypeOK
<1>a. CASE pass[p].switched
  <2> DEFINE s == [Idle EXCEPT !.pc = "publish", !.active = pass[p].target,
                              !.uuid = vault[pass[p].target].acct]
  <2>1. s \in PassStates
    <3>1. "publish" \in Pcs
      BY DEF Pcs, Writing
    <3>2. pass[p] \in PassStates
      BY <1>1, Fields
    <3> QED
      BY <1>1, <1>2, <3>1, <3>2, Fields, LiveFields DEF PassStates, Idle, Typed, Snapshots
  <2>2. Became(p, s)
    BY <1>a, <2>1 DEF Release, At, GoTo, End, Became, TypeOK, PassStates, Idle
  <2>3. /\ pass'[p].pc = "publish" /\ s.pc = "publish"
        /\ pass'[p].active = pass[p].target
        /\ pass'[p].uuid = vault[pass[p].target].acct
        /\ pass'[p].target = Nothing
        /\ pass'[p].got = Nothing
        /\ pass'[p].id = Nothing
        /\ ~pass'[p].switched
    <3>1. pass'[p] = s
      BY <1>1, <2>2 DEF Became, TypeOK
    <3>2. pass[p] \in PassStates
      BY <1>1, Fields
    <3> QED
      BY <3>1 DEF PassStates, Idle
  <2>4. Handed(p, s)
    BY <1>1, <1>2 DEF Release, At, Handed, Section, Writing, Undo, Idle, TypeOK
  <2>5. Typed'
    BY <1>1, <1>a, GotFields, LiveFields, Assumed DEF Release, Typed, At, MayFail
  <2>6. Vaulted' /\ Issued'
    BY <1>1, <1>2, LiveFields DEF Release, At, Vaulted, Issued, Sound, Carried
  <2>7. Carried(p)'
    BY <1>1, <1>2, <1>a, <2>3
       DEF Release, Sound, Carried, At, Section, Writing, Undo, Issued, Typed, Snapshots
  <2>8. intact' => Known(p)'
    BY <1>a, <2>3, Fields, LiveFields DEF Carried, Known, Left, Whole, At, Vaulted, LoginIsWhole
  <2>9. intact' => Left(p)'
    BY <1>a, <2>3, Fields, LiveFields DEF Carried, Known, Left, Whole, At, Vaulted
  <2>10. LoginIsWhole'
    BY <1>1, <1>2, <2>8, <2>9
       DEF Release, At, LoginIsWhole, Whole, Sound, Known, Left, TypeOK, Section, Writing, Undo
  <2> QED
    BY <2>1, <2>2, <2>4, <2>5, <2>6, <2>7, <2>8, <2>9, <2>10, Moves
       DEF Release, Sound, At, TypeOK, Section, Writing, Undo
<1>b. CASE ~pass[p].switched
  <2> DEFINE s == [Idle EXCEPT !.pc = "publish", !.active = pass[p].active, !.uuid = pass[p].uuid]
  <2>1. s \in PassStates
    <3>1. "publish" \in Pcs
      BY DEF Pcs, Writing
    <3>2. pass[p] \in PassStates
      BY <1>1, Fields
    <3> QED
      BY <1>b, <3>1, <3>2, LiveFields DEF PassStates, Idle
  <2>2. Became(p, s)
    BY <1>b, <2>1 DEF Release, At, GoTo, End, Became, TypeOK, PassStates, Idle
  <2>3. /\ pass'[p].pc = "publish" /\ s.pc = "publish"
        /\ pass'[p].active = pass[p].active
        /\ pass'[p].uuid = pass[p].uuid
        /\ pass'[p].target = Nothing
        /\ pass'[p].got = Nothing
        /\ pass'[p].id = Nothing
        /\ ~pass'[p].switched
    <3>1. pass'[p] = s
      BY <1>1, <2>2 DEF Became, TypeOK
    <3>2. pass[p] \in PassStates
      BY <1>1, Fields
    <3> QED
      BY <3>1 DEF PassStates, Idle
  <2>4. Handed(p, s)
    BY <1>1, <1>2 DEF Release, At, Handed, Section, Writing, Undo, Idle, TypeOK
  <2>5. Typed'
    BY <1>1, <1>b, GotFields, LiveFields, Assumed DEF Release, Typed, At, MayFail
  <2>6. Vaulted' /\ Issued'
    BY <1>1, <1>2, LiveFields DEF Release, At, Vaulted, Issued, Sound, Carried
  <2>7. Carried(p)'
    BY <1>1, <1>2, <1>b, <2>3 DEF Release, Sound, Carried, At, Section, Writing, Undo, Issued
  <2>8. intact' => Known(p)'
    BY <1>b, <2>3, Fields, LiveFields DEF Carried, Known, Left, Whole, At, Vaulted, LoginIsWhole
  <2>9. intact' => Left(p)'
    BY <1>b, <2>3, Fields, LiveFields DEF Carried, Known, Left, Whole, At, Vaulted
  <2>10. LoginIsWhole'
    BY <1>1, <1>2, <2>8, <2>9
       DEF Release, At, LoginIsWhole, Whole, Sound, Known, Left, TypeOK, Section, Writing, Undo
  <2> QED
    BY <2>1, <2>2, <2>4, <2>5, <2>6, <2>7, <2>8, <2>9, <2>10, Moves
       DEF Release, Sound, At, TypeOK, Section, Writing, Undo
<1> QED
  BY <1>a, <1>b

\* The selection is recorded, or could not be.
LEMMA PublishStep ==
    ASSUME IInv, NEW p \in Passes, Publish(p)
    PROVE  IInv'
<1>1. TypeOK /\ Typed /\ Sound(p) /\ Vaulted /\ Issued /\ LoginIsWhole
  BY DEF IInv, TypeOK, Typed
<1>2. /\ pass[p].got = Nothing /\ ~pass[p].switched /\ pass[p].uuid \in Accounts
      /\ pass[p].active \in Accounts
  BY <1>1, Fields DEF Publish, At, Sound, Carried, Section, Writing, Undo, TypeOK
<1> DEFINE s == Idle
<1>3. s \in PassStates
  <2>1. "idle" \in Pcs
    BY DEF Pcs, Writing
  <2>2. pass[p] \in PassStates
    BY <1>1, Fields
  <2> QED
    BY <2>1, LiveFields DEF PassStates, Idle
<1>4. Became(p, s)
  BY <1>3 DEF Publish, At, GoTo, End, Became, TypeOK, PassStates, Idle
<1>5. /\ pass'[p].pc = "idle" /\ s.pc = "idle"
      /\ pass'[p].active = Nothing
      /\ pass'[p].uuid = Nothing
      /\ pass'[p].target = Nothing
      /\ pass'[p].got = Nothing
      /\ pass'[p].id = Nothing
      /\ ~pass'[p].switched
  <2>1. pass'[p] = s
    BY <1>1, <1>4 DEF Became, TypeOK
  <2>2. pass[p] \in PassStates
    BY <1>1, Fields
  <2> QED
    BY <2>1 DEF PassStates, Idle
<1>6. Handed(p, s)
  BY Fields DEF Publish, Handed, Section, Writing, Undo, Idle, TypeOK
<1>7. Typed'
  BY <1>1, <1>2, LiveFields, Assumed DEF Publish, Typed, At, MayFail, Selection, Records
<1>8. Vaulted' /\ Issued'
  BY <1>1, <1>2, LiveFields DEF Publish, At, Vaulted, Issued, Sound, Carried
<1>9. Carried(p)'
  BY <1>5, Fields, LiveFields DEF Carried, At, Section, Writing, Undo, Issued
<1>10. intact' => Known(p)'
  BY <1>5, Fields, LiveFields DEF Carried, Known, Left, Whole, At, Vaulted, LoginIsWhole
<1>11. intact' => Left(p)'
  BY <1>5, Fields, LiveFields DEF Carried, Known, Left, Whole, At, Vaulted
<1>12. LoginIsWhole'
  BY <1>1, <1>2, <1>10, <1>11
     DEF Publish, At, LoginIsWhole, Whole, Sound, Known, Left, TypeOK, Section, Writing, Undo
<1> QED
  BY <1>3, <1>4, <1>6, <1>7, <1>8, <1>9, <1>10, <1>11, <1>12, Moves
     DEF Publish, Sound, At, TypeOK, Section, Writing, Undo

\* A pass is killed; what counts as intact it leaves whole.
LEMMA CrashStep ==
    ASSUME IInv, NEW p \in Passes, Crash(p)
    PROVE  IInv'
<1>1. TypeOK /\ Typed /\ Sound(p) /\ Vaulted /\ Issued /\ LoginIsWhole
  BY DEF IInv, TypeOK, Typed
<1> DEFINE s == Idle
<1>2. s \in PassStates
  <2>1. "idle" \in Pcs
    BY DEF Pcs, Writing
  <2>2. pass[p] \in PassStates
    BY <1>1, Fields
  <2> QED
    BY <2>1, <2>2 DEF PassStates, Idle
<1>3. Became(p, s)
  BY <1>2, Fields DEF Crash, GoTo, End, Became, TypeOK, PassStates, Idle
<1>4. /\ pass'[p].pc = "idle" /\ s.pc = "idle"
      /\ pass'[p].active = Nothing
      /\ pass'[p].uuid = Nothing
      /\ pass'[p].target = Nothing
      /\ pass'[p].got = Nothing
      /\ pass'[p].id = Nothing
      /\ ~pass'[p].switched
  <2>1. pass'[p] = s
    BY <1>1, <1>3 DEF Became, TypeOK
  <2>2. pass[p] \in PassStates
    BY <1>1, Fields
  <2> QED
    BY <2>1 DEF PassStates, Idle
<1>5. Handed(p, s)
  BY <1>1 DEF Crash, Handed, Section, Writing, Undo, Idle, TypeOK, LockFreed
<1>6. Typed'
  BY <1>1, <1>4, LiveFields, Assumed DEF Crash, Typed, At, MayFail
<1>7. Vaulted' /\ Issued'
  BY <1>1, <1>4, LiveFields DEF Crash, At, Vaulted, Issued, Sound, Carried
<1>8. Carried(p)'
  BY <1>4, Fields, LiveFields, GotFields
     DEF Sound, Carried, At, Section, Writing, Undo, Issued
<1>9. intact' => Known(p)'
  BY <1>4, Fields, LiveFields, GotFields DEF Known, Left, Whole, At, Vaulted, LoginIsWhole
<1>10. intact' => Left(p)'
  BY <1>4, Fields, LiveFields, GotFields DEF Known, Left, Whole, At, Vaulted
<1>11. LoginIsWhole'
  BY <1>1, <1>10, Fields, Assumed
     DEF Crash, At, LoginIsWhole, Whole, Sound, Known, Left, TypeOK, Section, Writing, Undo,
         LockFreed
<1> QED
  BY <1>3, <1>5, <1>6, <1>7, <1>8, <1>9, <1>10, <1>11, Moves
     DEF Crash, Sound, At, TypeOK, Section, Writing, Undo

-----------------------------------------------------------------------------
(* The world                                                                *)

\* A refreshed token is of the account that uses it; during a switch it is one the
\* code does not defend against.
LEMMA RefreshStep ==
    ASSUME IInv, NEW a \in Accounts, Refresh(a)
    PROVE  IInv'
<1>1. TypeOK /\ Typed /\ Vaulted /\ Issued /\ LoginIsWhole /\ \A p \in Passes : Sound(p)
  BY DEF IInv, TypeOK, Typed
<1>2. gen' = gen + 1 /\ gen' \in 0..MaxRefresh /\ gen \in Int
  BY <1>1, Assumed DEF Refresh, Typed
<1>3. live' \in LiveStates /\ live'.acct = live.acct /\ live'.cred.acct = a
      /\ live'.cred.gen = gen + 1 /\ live'.host = live.host /\ live'.settings = live.settings
  BY <1>1, <1>2 DEF Refresh, Typed, LiveStates, Tokens
<1>4. intact' => intact /\ live.cred.acct = a
                 /\ \A p \in Passes : pass[p].pc \notin {"rest"} \cup Writing
  BY DEF Refresh
<1>5. TypeOK'
  BY <1>1, <1>2, <1>3 DEF Refresh, TypeOK
<1>6. Vaulted' /\ LoginIsWhole'
  BY <1>1, <1>4 DEF Refresh, Vaulted, LoginIsWhole
<1>7. Issued'
  <2>1. \A b \in Accounts : vault[b].cred.gen \in Int
    BY <1>1 DEF Typed, Snapshots, Tokens
  <2> QED
    BY <1>1, <1>2, <2>1 DEF Refresh, Issued
<1>8. ASSUME NEW p \in Passes
      PROVE  Sound(p)'
  <2>1. Sound(p) /\ pass' = pass
    BY <1>1 DEF Refresh
  <2>2. pass[p].got # Nothing => pass[p].got.cred.gen \in Int
    BY <1>1, Fields, GotFields
  <2>3. Carried(p)'
    BY <1>2, <2>1, <2>2 DEF Sound, Carried
  <2>4. intact' => Known(p)'
    BY <1>3, <1>4, <2>1 DEF Sound, Carried, Known, Whole, Section, Writing, Undo
  <2>5. intact' => Left(p)'
    BY <1>2, <1>3, <1>4, <2>1, <2>2, LiveFields DEF Sound, Carried, Left, Whole, Issued
  <2> QED
    BY <2>3, <2>4, <2>5 DEF Sound
<1> QED
  BY <1>5, <1>6, <1>7, <1>8 DEF IInv

\* An activation by hand puts in a whole login; during a switch it is one the code
\* does not defend against.
LEMMA HandStep ==
    ASSUME IInv, NEW a \in Accounts, Hand(a)
    PROVE  IInv'
<1>1. TypeOK /\ Typed /\ Vaulted /\ Issued /\ \A p \in Passes : Sound(p)
  BY DEF IInv, TypeOK, Typed
<1>2. live' \in LiveStates /\ live'.cred = vault[a].cred /\ live'.acct = vault[a].acct
  BY <1>1 DEF Hand, Typed, LiveStates, Snapshots
<1>3. intact' => intact /\ \A p \in Passes : pass[p].pc \notin Section
  BY DEF Hand
<1>4. TypeOK'
  BY <1>1, <1>2, Assumed DEF Hand, TypeOK, MayFail
<1>5. Vaulted' /\ Issued' /\ LoginIsWhole'
  BY <1>1, <1>3 DEF Hand, Vaulted, Issued, LoginIsWhole
<1>6. ASSUME NEW p \in Passes
      PROVE  Sound(p)'
  <2>1. Sound(p) /\ pass' = pass /\ gen' = gen
    BY <1>1 DEF Hand
  <2>2. Carried(p)'
    BY <2>1 DEF Sound, Carried
  <2>3. intact' => Known(p)' /\ Left(p)'
    BY <1>3, <2>1 DEF Sound, Known, Left, Section, Writing, Undo
  <2> QED
    BY <2>2, <2>3 DEF Sound
<1> QED
  BY <1>4, <1>5, <1>6 DEF IInv

-----------------------------------------------------------------------------
(* The theorems                                                             *)

LEMMA Starts == Init => IInv
<1> SUFFICES ASSUME Init
             PROVE  IInv
  OBVIOUS
<1>1. Idle \in PassStates /\ Idle.pc \notin Section /\ Idle.got = Nothing
      /\ Idle.pc = "idle" /\ ~Idle.switched
  BY DEF Idle, PassStates, Pcs, Section, Writing, Undo
<1>2. TypeOK
  BY <1>1, Assumed DEF Init, TypeOK, LiveStates, Snapshots, Tokens
<1>3. Vaulted /\ Issued /\ LoginIsWhole
  BY DEF Init, Vaulted, Issued, LoginIsWhole
<1>4. ASSUME NEW p \in Passes
      PROVE  Sound(p)
  BY <1>1 DEF Init, Sound, Carried, Known, Left, Section, Writing, Undo
<1> QED
  BY <1>2, <1>3, <1>4 DEF IInv

\* A step that changes nothing keeps the invariant.
LEMMA Stutters == IInv /\ UNCHANGED vars => IInv'
<1> SUFFICES ASSUME IInv, UNCHANGED vars
             PROVE  IInv'
  OBVIOUS
<1>1. TypeOK' /\ Vaulted' /\ Issued' /\ LoginIsWhole'
  BY DEF vars, IInv, TypeOK, Vaulted, Issued, LoginIsWhole
<1>2. ASSUME NEW p \in Passes
      PROVE  Sound(p)'
  BY <1>2 DEF vars, IInv, Sound, Carried, Known, Left, Whole
<1> QED
  BY <1>1, <1>2 DEF IInv

LEMMA Steps == IInv /\ [Next]_vars => IInv'
<1> SUFFICES ASSUME IInv, Next
             PROVE  IInv'
  BY Stutters
<1>1. CASE \E p \in Passes : Step(p) \/ Crash(p)
  BY <1>1, StartStep, DetermineStep, ResnapshotStep, AcquireStep, CheckPremiseStep,
     CaptureCredentialStep, CaptureRestStep, ActivateStep, InstallStep, VerifyStep,
     RestoreCredentialStep, RestoreRestStep, ReleaseStep, PublishStep, CrashStep
     DEF Step
<1>2. CASE \E a \in Accounts : Refresh(a) \/ Hand(a)
  BY <1>2, RefreshStep, HandStep
<1> QED
  BY <1>1, <1>2 DEF Next

LEMMA Invariant == Spec => []IInv
  BY Starts, Steps, PTL DEF Spec

\* Every reachable state is well typed, and the lock is held by exactly the pass
\* that is inside the critical section (acquire_switch_lock).
THEOREM TypeCorrect == Spec => []TypeOK
<1>1. IInv => TypeOK
  BY DEF IInv
<1> QED
  BY <1>1, Invariant, PTL

\* Whenever the lock is free the live login is of one account, whatever failed in
\* between (switch_account, restore_rejected_state).
THEOREM WholeLogin == Spec => []LoginIsWhole
<1>1. IInv => LoginIsWhole
  BY DEF IInv
<1> QED
  BY <1>1, Invariant, PTL

\* A rejected switch puts back what it captured, an accepted one keeps what is the
\* host's (apply_activated_state, restore_rejected_state).
THEOREM HostKept == Spec => []HostStateKept
<1>1. IInv => HostStateKept
  BY DEF IInv, Sound, Known, Left, Whole, HostStateKept, At
<1> QED
  BY <1>1, Invariant, PTL

\* What a switch replaces is the account it was decided about (_preflight_failure).
THEOREM DecidedReplaced == Spec => []ReplacesWhatItDecided
<1>1. IInv => ReplacesWhatItDecided
  BY DEF IInv, Sound, Carried, Known, ReplacesWhatItDecided, At
<1> QED
  BY <1>1, Invariant, PTL

-----------------------------------------------------------------------------
(* The switch is atomic                                                     *)

\* One step of the abstract login, or none.
Atomic == [OneLogin!Next]_(OneLogin!vars)

\* The login starts whole and the host's own.
LEMMA LoginStarts == Init => OneLogin!Init
<1> SUFFICES ASSUME Init PROVE OneLogin!Init
  OBVIOUS
<1>1. \A p \in Passes : ~Unfinished(p)
  BY Assumed DEF Init, Unfinished
<1>2. intact
  BY DEF Init
<1>3. Login = Seen(live)
  BY <1>1, <1>2 DEF Login
<1>4. PICK a \in Accounts :
          live = [cred |-> [acct |-> a, gen |-> 0], acct |-> a, host |-> TRUE, settings |-> TRUE]
  BY DEF Init
<1>5. Login = OneLogin!Whole(a, 0, TRUE, TRUE)
  BY <1>3, <1>4 DEF OneLogin!Whole, Seen
<1> QED
  BY <1>5 DEF Init, OneLogin!Init

\* Who leaves the lock to a switch sees what the switch captured while it writes, and
\* the live files otherwise.
View ==
    TypeOK /\ intact =>
        /\ \A p \in Passes : pass[p].pc \in Writing => Login = Seen(pass[p].got)
        /\ (\A p \in Passes : pass[p].pc \notin Writing) => Login = Seen(live)
LEMMA Views == View
  BY DEF View, TypeOK, Login, Unfinished, Section

LEMMA ViewsNext == View'
  BY Views, PTL

\* Only one pass writes.
LEMMA OneWrites ==
    ASSUME TypeOK, NEW p \in Passes, pass[p].pc \in Writing, NEW q \in Passes, q # p
    PROVE  pass[q].pc \notin Writing
  BY DEF TypeOK, Section

\* While no switch is writing, the live login is of one account.
LEMMA WholeUnlessWriting ==
    ASSUME IInv, intact, \A p \in Passes : pass[p].pc \notin Writing
    PROVE  Whole
<1>1. CASE lock = Nothing
  BY <1>1 DEF IInv, LoginIsWhole, Whole
<1>2. ASSUME NEW p \in Passes, lock = p PROVE Whole
  BY <1>2 DEF IInv, TypeOK, Sound, Known, Left, Section, Writing
<1> QED
  BY <1>1, <1>2 DEF IInv, TypeOK

\* A step outside the writes that leaves the live files alone is not seen.
LEMMA Unseen ==
    ASSUME TypeOK, TypeOK', intact, intact', NEW p \in Passes,
           \A q \in Passes : q # p => pass'[q] = pass[q],
           pass[p].pc \notin Writing, pass'[p].pc \notin Writing, live' = live
    PROVE  Login' = Login
<1>1. CASE \A q \in Passes : pass[q].pc \notin Writing
  <2>1. \A q \in Passes : pass'[q].pc \notin Writing
    BY <1>1
  <2> QED
    BY <1>1, <2>1, Views, ViewsNext DEF View
<1>2. ASSUME NEW q \in Passes, pass[q].pc \in Writing PROVE Login' = Login
  <2>1. pass'[q] = pass[q]
    BY <1>2
  <2> QED
    BY <1>2, <2>1, Views, ViewsNext DEF View
<1> QED
  BY <1>1, <1>2

\* Nor is a step among the writes.
LEMMA UnseenWrite ==
    ASSUME TypeOK, TypeOK', intact, intact', NEW p \in Passes,
           pass[p].pc \in Writing, pass'[p].pc \in Writing, pass'[p].got = pass[p].got
    PROVE  Login' = Login
  BY Views, ViewsNext DEF View

\* The last write of a switch makes the live files what is seen.
LEMMA Uncovered ==
    ASSUME TypeOK, TypeOK', intact, intact', NEW p \in Passes,
           \A q \in Passes : q # p => pass'[q] = pass[q],
           pass[p].pc \in Writing, pass'[p].pc \notin Writing
    PROVE  Login = Seen(pass[p].got) /\ Login' = Seen(live')
<1>1. \A q \in Passes : pass'[q].pc \notin Writing
  BY OneWrites
<1> QED
  BY <1>1, Views, ViewsNext DEF View

\* A pass moves nobody but itself.
LEMMA MovesAlone ==
    ASSUME TypeOK, NEW p \in Passes, Step(p) \/ Crash(p)
    PROVE  \A q \in Passes : q # p => pass'[q] = pass[q]
<1> USE DEF TypeOK, GoTo, End
<1>1. CASE Start(p) \/ Determine(p) \/ Resnapshot(p) \/ Acquire(p) \/ CheckPremise(p)
  BY <1>1 DEF Start, Determine, Resnapshot, Acquire, CheckPremise
<1>2. CASE CaptureCredential(p) \/ CaptureRest(p) \/ Activate(p) \/ Install(p) \/ Verify(p)
  BY <1>2 DEF CaptureCredential, CaptureRest, Activate, Install, Verify
<1>3. CASE RestoreCredential(p) \/ RestoreRest(p) \/ Release(p) \/ Publish(p) \/ Crash(p)
  BY <1>3 DEF RestoreCredential, RestoreRest, Release, Publish, Crash
<1> QED
  BY <1>1, <1>2, <1>3 DEF Step

\* A pass before its switch, and after it.
LEMMA OutsideStep ==
    ASSUME IInv, IInv', intact, intact', NEW p \in Passes,
           \/ Start(p) \/ Determine(p) \/ Resnapshot(p) \/ Acquire(p) \/ CheckPremise(p)
           \/ CaptureCredential(p) \/ Release(p) \/ Publish(p)
    PROVE  Login' = Login
<1> USE DEF At, GoTo, End, Idle, Writing, Undo
<1>1. TypeOK /\ TypeOK' /\ pass \in [Passes -> PassStates] /\ pass[p] \in PassStates
  BY Fields DEF IInv, TypeOK
<1>2. \A q \in Passes : q # p => pass'[q] = pass[q]
  BY <1>1, MovesAlone DEF Step
<1>3. pass[p].pc \notin Writing /\ live' = live
  BY DEF Start, Determine, Resnapshot, Acquire, CheckPremise, CaptureCredential, Release, Publish
<1>4. \E s \in {"idle", "status", "resnap", "decide", "premise", "capture", "rest", "release",
                 "publish"} : pass'[p].pc = s
  <2>1. CASE Start(p)
    BY <1>1, <2>1 DEF Start
  <2>2. CASE Determine(p)
    <3>1. ASSUME NEW a, pass' = [pass EXCEPT ![p].pc = "resnap", ![p].active = a]
          PROVE  pass'[p].pc = "resnap"
      BY <1>1, <3>1 DEF PassStates
    <3> QED
      BY <1>1, <2>2, <3>1 DEF Determine
  <2>3. CASE Resnapshot(p)
    BY <1>1, <2>3 DEF Resnapshot
  <2>4. CASE Acquire(p)
    <3>1. ASSUME NEW a, pass' = [pass EXCEPT ![p].pc = "premise", ![p].target = a, ![p].id = live.acct]
          PROVE  pass'[p].pc = "premise"
      BY <1>1, <3>1 DEF PassStates
    <3>2. \/ \E a \in Accounts :
               pass' = [pass EXCEPT ![p].pc = "premise", ![p].target = a, ![p].id = live.acct]
          \/ pass' = [pass EXCEPT ![p] = Idle]
      BY <2>4 DEF Acquire
    <3>3. ASSUME pass' = [pass EXCEPT ![p] = Idle] PROVE pass'[p].pc = "idle"
      BY <1>1, <3>3
    <3> QED
      BY <3>1, <3>2, <3>3
  <2>5. CASE CheckPremise(p)
    <3>1. \E s \in {"capture", "release"} : pass' = [pass EXCEPT ![p].pc = s]
      BY <2>5 DEF CheckPremise
    <3> QED
      BY <1>1, <3>1 DEF PassStates
  <2>6. CASE CaptureCredential(p)
    BY <1>1, <2>6 DEF CaptureCredential
  <2>7. CASE Release(p)
    BY <1>1, <2>7 DEF Release
  <2>8. CASE Publish(p)
    BY <1>1, <2>8 DEF Publish
  <2> QED
    BY <2>1, <2>2, <2>3, <2>4, <2>5, <2>6, <2>7, <2>8
<1>5. pass'[p].pc \notin Writing
  BY <1>4
<1> QED
  BY <1>1, <1>2, <1>3, <1>5, Unseen

\* What was captured is what was live.
LEMMA CaptureUnseen ==
    ASSUME IInv, IInv', intact, intact', NEW p \in Passes, CaptureRest(p)
    PROVE  Login' = Login
<1>1. TypeOK /\ TypeOK' /\ pass \in [Passes -> PassStates] /\ pass[p] \in PassStates
  BY Fields DEF IInv, TypeOK
<1>2. pass[p].pc = "rest" /\ pass[p].got = live /\ Sound(p)'
  BY DEF IInv, CaptureRest, At, Sound, Known
<1>3. pass'[p].pc = "activate"
  BY <1>1 DEF CaptureRest, PassStates
<1>4. pass'[p].got = live' /\ live' = live
  BY <1>2, <1>3 DEF CaptureRest, Sound, Known
<1>5. \A q \in Passes : pass[q].pc \notin Writing
  BY <1>1, <1>2 DEF TypeOK, Section, Writing, Undo
<1>6. "activate" \in Writing
  BY DEF Writing
<1> QED
  BY <1>1, <1>3, <1>4, <1>5, <1>6, Views, ViewsNext DEF View

\* The writes of a switch, and of its undoing.
LEMMA WriteUnseen ==
    ASSUME IInv, IInv', intact, intact', NEW p \in Passes,
           Activate(p) \/ Install(p) \/ RestoreCredential(p)
    PROVE  Login' = Login
<1>1. TypeOK /\ TypeOK' /\ pass \in [Passes -> PassStates] /\ pass[p] \in PassStates
  BY Fields DEF IInv, TypeOK
<1>2. pass[p].pc \in Writing
  BY DEF Activate, Install, RestoreCredential, At, Writing, Undo
<1>3. \E pc \in Writing : pass' = [pass EXCEPT ![p].pc = pc]
  BY DEF Activate, Install, RestoreCredential, GoTo, Writing, Undo
<1>4. pass'[p].pc \in Writing /\ pass'[p].got = pass[p].got
  BY <1>1, <1>3 DEF PassStates
<1> QED
  BY <1>1, <1>2, <1>4, UnseenWrite

\* A switch that took effect has put in another login, whole, and nothing else.
LEMMA VerifySeen ==
    ASSUME IInv, IInv', intact, intact', NEW p \in Passes, Verify(p)
    PROVE  Login' = Login \/ \E a \in Accounts : OneLogin!Switch(a)
<1>1. TypeOK /\ TypeOK' /\ pass \in [Passes -> PassStates] /\ pass[p] \in PassStates
  BY Fields DEF IInv, TypeOK
<1>2. pass[p].pc = "verify" /\ "verify" \in Writing /\ "undoCred" \in Writing
      /\ "release" \notin Writing
  BY DEF Verify, At, Writing, Undo
<1>3. CASE ~TookEffect(p)
  <2>1. pass' = [pass EXCEPT ![p].pc = "undoCred"]
    BY <1>3 DEF Verify, GoTo
  <2>2. pass'[p].pc \in Writing /\ pass'[p].got = pass[p].got
    BY <1>1, <1>2, <2>1 DEF PassStates
  <2> QED
    BY <1>1, <1>2, <2>2, UnseenWrite
<1>4. CASE TookEffect(p)
  <2>1. pass'[p].pc = "release"
    BY <1>1, <1>4 DEF Verify, PassStates
  <2>2. Login = Seen(pass[p].got) /\ Login' = Seen(live')
    BY <1>1, <1>2, <2>1, MovesAlone, Uncovered DEF Step
  <2>3. pass[p].target \in Accounts
    BY <1>2 DEF IInv, Sound, Carried, Section
  <2>4. live.cred.acct = pass[p].target /\ live.acct = pass[p].target
    BY <1>4, <2>3 DEF IInv, Vaulted, TookEffect
  <2>5. live.host = pass[p].got.host /\ live.settings = pass[p].got.settings
    BY <1>2 DEF IInv, Sound, Known
  <2>6. OneLogin!Switch(pass[p].target)
    BY <2>2, <2>4, <2>5 DEF Verify, OneLogin!Switch, OneLogin!Keeps, OneLogin!Whole, Seen
  <2> QED
    BY <2>3, <2>6
<1> QED
  BY <1>3, <1>4

\* A switch that is undone has not happened.
LEMMA RestoreUnseen ==
    ASSUME IInv, IInv', intact, intact', NEW p \in Passes, RestoreRest(p)
    PROVE  Login' = Login
<1>1. TypeOK /\ TypeOK' /\ pass \in [Passes -> PassStates] /\ pass[p] \in PassStates
  BY Fields DEF IInv, TypeOK
<1>2. pass[p].pc = "undoRest" /\ "undoRest" \in Writing /\ "release" \notin Writing
  BY DEF RestoreRest, At, Writing, Undo
<1>3. pass'[p].pc = "release"
  BY <1>1 DEF RestoreRest, GoTo, PassStates
<1>4. Login = Seen(pass[p].got) /\ Login' = Seen(live')
  BY <1>1, <1>2, <1>3, MovesAlone, Uncovered DEF Step
<1>5. live.cred = pass[p].got.cred
  BY <1>2 DEF IInv, Sound, Known
<1>6. live' = Captured(p)
  BY DEF RestoreRest
<1>7. /\ live'.cred = live.cred /\ live'.acct = pass[p].got.acct
      /\ live'.host = pass[p].got.host /\ live'.settings = pass[p].got.settings
  BY <1>1, <1>6 DEF TypeOK, LiveStates, Captured
<1> QED
  BY <1>4, <1>5, <1>7 DEF Seen

\* A pass that is killed outside its writes leaves the login as it was seen.
LEMMA CrashUnseen ==
    ASSUME IInv, IInv', intact, intact', NEW p \in Passes, Crash(p)
    PROVE  Login' = Login
<1>1. TypeOK /\ TypeOK' /\ pass \in [Passes -> PassStates] /\ pass[p] \in PassStates
  BY Fields DEF IInv, TypeOK
<1>2. pass'[p].pc = "idle" /\ "idle" \notin Writing
  BY <1>1 DEF Crash, End, Idle, Writing, Undo
<1>3. live' = live /\ pass[p].pc \notin Writing \ {"activate"}
  BY DEF Crash
<1>4. CASE pass[p].pc = "activate"
  <2>1. pass[p].got = live
    BY <1>4 DEF IInv, Sound, Known
  <2>2. Login = Seen(pass[p].got) /\ Login' = Seen(live')
    BY <1>1, <1>2, <1>4, MovesAlone, Uncovered DEF Writing
  <2> QED
    BY <1>3, <2>1, <2>2
<1>5. CASE pass[p].pc \notin Writing
  BY <1>1, <1>2, <1>3, <1>5, MovesAlone, Unseen
<1> QED
  BY <1>3, <1>4, <1>5

\* A refresh renews the token of the login, and an activation by hand replaces it.
LEMMA WorldSeen ==
    ASSUME IInv, IInv', intact, intact', NEW a \in Accounts, Refresh(a) \/ Hand(a)
    PROVE  OneLogin!Refresh \/ OneLogin!Hand(a)
<1>1. TypeOK /\ TypeOK' /\ pass' = pass
  BY DEF IInv, Refresh, Hand
<1>2. \A p \in Passes : pass[p].pc \notin Writing
  BY DEF Refresh, Hand, Section
<1>3. Login = Seen(live) /\ Login' = Seen(live')
  BY <1>1, <1>2, Views, ViewsNext DEF View
<1>4. CASE Refresh(a)
  <2>1. live.cred.acct = a /\ live.acct = a
    BY <1>2, <1>4, WholeUnlessWriting DEF Refresh, Whole
  <2>2. /\ live'.cred.acct = a /\ live'.cred.gen = gen + 1 /\ live'.acct = live.acct
        /\ live'.host = live.host /\ live'.settings = live.settings
    BY <1>1, <1>4 DEF Refresh, TypeOK, LiveStates
  <2>3. gen + 1 > live.cred.gen
    BY <1>1, LiveFields, Assumed DEF IInv, TypeOK, Issued
  <2>4. OneLogin!Refresh
    BY <1>3, <2>1, <2>2, <2>3 DEF OneLogin!Refresh, OneLogin!Keeps, OneLogin!Whole, Seen
  <2> QED
    BY <2>4
<1>5. CASE Hand(a)
  <2>1. /\ live'.cred.acct = a /\ live'.acct = a /\ live'.host = FALSE /\ live'.settings = FALSE
    BY <1>5 DEF Hand, IInv, Vaulted
  <2>2. OneLogin!Hand(a)
    BY <1>3, <2>1 DEF OneLogin!Hand, OneLogin!Keeps, OneLogin!Whole, Seen
  <2> QED
    BY <2>2
<1> QED
  BY <1>4, <1>5

\* What the code does not defend against is never undefended before.
LEMMA IntactBefore == TypeOK /\ Next /\ intact' => intact
<1> SUFFICES ASSUME TypeOK, Next, intact' PROVE intact
  OBVIOUS
<1>1. ASSUME NEW p \in Passes, Step(p) \/ Crash(p) PROVE intact
  BY <1>1 DEF Step, Start, Determine, Resnapshot, Acquire, CheckPremise, CaptureCredential,
     CaptureRest, Activate, Install, Verify, RestoreCredential, RestoreRest, Release, Publish,
     Crash, TypeOK
<1> QED
  BY <1>1 DEF Next, Refresh, Hand

\* The account rotation implements the atomic switch (switch_account): whatever an
\* activation does, whichever write fails and wherever a pass is killed, the login
\* is replaced by a whole one or is as it was, token and host state included.
THEOREM ImplementsAtomicSwitch == Spec => SwitchIsAtomic
<1>1. ASSUME IInv, IInv', [Next]_vars
      PROVE  [OneLogin!Next]_(OneLogin!vars)
  <2>1. CASE UNCHANGED vars
    BY <2>1 DEF vars, OneLogin!vars, Login, Unfinished
  <2>2. CASE Next /\ ~intact'
    <3>1. Login' = Nothing /\ intact' = FALSE
      BY <1>1, <2>2 DEF Login, IInv, TypeOK
    <3> QED
      BY <3>1 DEF OneLogin!Next, OneLogin!Lapse
  <2>3. CASE Next /\ intact'
    <3>1. intact /\ intact' = intact
      BY <1>1, <2>3, IntactBefore DEF IInv, TypeOK
    <3>2. ASSUME NEW p \in Passes, Step(p) \/ Crash(p)
          PROVE  Login' = Login \/ \E a \in Accounts : OneLogin!Switch(a)
      BY <1>1, <2>3, <3>1, <3>2, OutsideStep, CaptureUnseen, WriteUnseen, VerifySeen,
         RestoreUnseen, CrashUnseen
         DEF Step
    <3>3. ASSUME NEW a \in Accounts, Refresh(a) \/ Hand(a)
          PROVE  OneLogin!Refresh \/ OneLogin!Hand(a)
      BY <1>1, <2>3, <3>1, <3>3, WorldSeen
    <3> QED
      BY <2>3, <3>1, <3>2, <3>3 DEF Next, OneLogin!Next, OneLogin!vars
  <2> QED
    BY <1>1, <2>1, <2>2, <2>3
<1> QED
  BY <1>1, LoginStarts, Invariant, PTL DEF Spec, SwitchIsAtomic, OneLogin!Spec

=============================================================================
