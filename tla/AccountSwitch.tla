--------------------------- MODULE AccountSwitch ----------------------------
(***************************************************************************)
(* The account rotation pass: it determines which account of the vault is  *)
(* live on the host, keeps that account's snapshot fresh, may switch the   *)
(* host to another account under a lock, and publishes the account it ends *)
(* with (overseer/caam_anthropic_pass.py and caam_switch.py).              *)
(*                                                                         *)
(* The live login is three files.  Sessions refresh the token in one of    *)
(* them, and a hand-run `caam activate` replaces all three, without the    *)
(* lock.  The caam tool itself is external.                                *)
(***************************************************************************)
EXTENDS Integers

CONSTANTS
    Passes,      \* invocations of the rotation, each repeated for ever
    Accounts,    \* profiles of the vault; each is first the account it is named for
    MaxRefresh,  \* token refreshes in one behaviour
    MaxFault,    \* activations by hand, failed calls and writes, and passes killed
    Nothing      \* no pass, no record, nothing captured

ASSUME SwitchAssumption ==
    /\ MaxRefresh \in Nat /\ MaxFault \in Nat
    /\ Nothing \notin Passes \cup Accounts

VARIABLES
    live,    \* .credentials.json, the identity and the rest of .claude.json, settings
    vault,   \* the snapshot of each profile: its credential and its identity
    gen,     \* number of the latest token the provider issued
    lock,    \* switch.lock: the pass that holds it
    record,  \* selected-account.json
    pass,    \* each pass's position and local state
    intact,  \* history: nothing has happened that the code does not defend against
    faults

vars == <<live, vault, gen, lock, record, pass, intact, faults>>

Tokens == [acct : Accounts, gen : 0..MaxRefresh]
\* host, settings: whether the file's other content is this host's own.
LiveStates == [cred : Tokens, acct : Accounts, host : BOOLEAN, settings : BOOLEAN]
Snapshots == [cred : Tokens, acct : Accounts]
Records == [profile : Accounts, uuid : Accounts]
\* Nothing is no login and no record.
ASSUME NothingAssumption == Nothing \notin LiveStates \cup Records

Undo == {"undoCred", "undoRest"}
Writing == {"activate", "install", "verify"} \cup Undo
Section == {"premise", "capture", "rest"} \cup Writing \cup {"release"}
Pcs == {"idle", "status", "resnap", "decide", "publish"} \cup Section
PassStates ==
    [pc : Pcs, active : Accounts \cup {Nothing},
     uuid : Accounts \cup {Nothing}, target : Accounts \cup {Nothing},
     got : LiveStates \cup {Nothing}, id : Accounts \cup {Nothing}, switched : BOOLEAN]
Idle == [pc |-> "idle", active |-> Nothing, uuid |-> Nothing, target |-> Nothing,
         got |-> Nothing, id |-> Nothing, switched |-> FALSE]

Init ==
    /\ \E a \in Accounts :
           live = [cred |-> [acct |-> a, gen |-> 0], acct |-> a, host |-> TRUE, settings |-> TRUE]
    /\ vault = [a \in Accounts |-> [cred |-> [acct |-> a, gen |-> 0], acct |-> a]]
    /\ gen = 0
    /\ lock = Nothing /\ record = Nothing
    /\ pass = [p \in Passes |-> Idle]
    /\ intact = TRUE /\ faults = 0

At(p, pc) == pass[p].pc = pc
GoTo(p, pc) == pass' = [pass EXCEPT ![p].pc = pc]
End(p) == pass' = [pass EXCEPT ![p] = Idle]
MayFail == faults < MaxFault /\ faults' = faults + 1

-----------------------------------------------------------------------------
(* Determining the active profile                                           *)

\* caam status matches the live credential byte for byte; failing that, the
\* snapshots are searched for the identity of the live account file.
ActiveProfiles(uuid) ==
    LET matching == {a \in Accounts : vault[a].cred = live.cred}
    IN IF matching # {} THEN matching ELSE {a \in Accounts : vault[a].acct = uuid}

\* active_profile, first half: account_uuid of ~/.claude.json.
Start(p) ==
    /\ At(p, "idle")
    /\ pass' = [pass EXCEPT ![p] = [Idle EXCEPT !.pc = "status", !.uuid = live.acct]]
    /\ UNCHANGED <<live, vault, gen, lock, record, intact, faults>>

\* active_profile, second half; a pass that finds no profile ends.
Determine(p) ==
    /\ At(p, "status")
    /\ \/ \E a \in ActiveProfiles(pass[p].uuid) :
              pass' = [pass EXCEPT ![p].pc = "resnap", ![p].active = a]
       \/ ActiveProfiles(pass[p].uuid) = {} /\ End(p)
    /\ UNCHANGED <<live, vault, gen, lock, record, intact, faults>>

\* resnapshot_active: unless the two tokens agree, caam backup claude <active>
\* makes the live files that profile's snapshot.
Resnapshot(p) ==
    LET a == pass[p].active IN
    /\ At(p, "resnap") /\ GoTo(p, "decide")
    /\ \/ vault[a].cred = live.cred /\ UNCHANGED <<vault, intact, faults>>
       \/ /\ vault[a].cred # live.cred
          /\ vault' = [vault EXCEPT ![a] = [cred |-> live.cred, acct |-> live.acct]]
          /\ intact' = (intact /\ live.cred.acct = a /\ live.acct = a)
          /\ UNCHANGED faults
       \/ vault[a].cred # live.cred /\ MayFail /\ UNCHANGED <<vault, intact>>
    /\ UNCHANGED <<live, gen, lock, record>>

-----------------------------------------------------------------------------
(* The switch, under the lock                                               *)

\* decide, acquire_switch_lock: which account the readings favour is left open.  A
\* pass that cannot take the lock does not wait, and publishes nothing.  The lock
\* taken, the identity of the live account file is read again.
Acquire(p) ==
    /\ At(p, "decide")
    /\ \/ /\ lock = Nothing /\ lock' = p
          /\ \E a \in Accounts \ {pass[p].active} :
                 pass' = [pass EXCEPT ![p].pc = "premise", ![p].target = a, ![p].id = live.acct]
       \/ lock # Nothing /\ End(p) /\ UNCHANGED lock
    /\ UNCHANGED <<live, vault, gen, record, intact, faults>>

\* _preflight_failure: a decision about another account is abandoned; then the
\* destination's stored credential is exercised once more.
AnyPremise(p, named) == TRUE
PremiseStands(p, named) == named = pass[p].active
CheckPremise(p) ==
    LET named == ActiveProfiles(pass[p].id) IN
    /\ At(p, "premise")
    /\ \/ (\E a \in named : PremiseStands(p, a)) /\ GoTo(p, "capture") /\ UNCHANGED faults
       \/ (\E a \in named : PremiseStands(p, a)) /\ GoTo(p, "release") /\ MayFail
       \/ (\E a \in named : ~PremiseStands(p, a)) /\ GoTo(p, "release") /\ UNCHANGED faults
       \/ named = {} /\ GoTo(p, "release") /\ UNCHANGED faults
    /\ UNCHANGED <<live, vault, gen, lock, record, intact>>

\* capture_live_state: the credential is read first, then the other two files and
\* the target's identity.
CaptureCredential(p) ==
    /\ At(p, "capture")
    /\ pass' = [pass EXCEPT ![p].pc = "rest", ![p].got = live]
    /\ UNCHANGED <<live, vault, gen, lock, record, intact, faults>>

CaptureRest(p) ==
    /\ At(p, "rest")
    /\ pass' = [pass EXCEPT ![p].pc = "activate",
                            ![p].got = [live EXCEPT !.cred = pass[p].got.cred],
                            ![p].id = vault[pass[p].target].acct]
    /\ UNCHANGED <<live, vault, gen, lock, record, intact, faults>>

\* caam activate replaces the three files with the target's snapshot.  It may fail
\* or be killed part way, or exit zero without having replaced them all.
Activate(p) ==
    LET snapshot == vault[pass[p].target]
        Put(files) == live' =
            [cred |-> IF "credential" \in files THEN snapshot.cred ELSE live.cred,
             acct |-> IF "profile" \in files THEN snapshot.acct ELSE live.acct,
             host |-> live.host /\ "profile" \notin files,
             settings |-> live.settings /\ "settings" \notin files]
    IN
    /\ At(p, "activate")
    /\ \/ Put({"credential", "profile", "settings"}) /\ GoTo(p, "install") /\ UNCHANGED faults
       \/ /\ MayFail
          /\ \E files \in SUBSET {"credential", "profile", "settings"} : Put(files)
          /\ \E pc \in {"install", "undoCred"} : GoTo(p, pc)
    /\ UNCHANGED <<vault, gen, lock, record, intact>>

\* apply_activated_state: the host's own file with the target's identity, and then
\* the host's own settings; either write may fail.
OwnSettings(p) == pass[p].got.settings
Install(p) ==
    LET Put(settings) == live' = [live EXCEPT !.acct = pass[p].id, !.host = pass[p].got.host,
                                             !.settings = settings]
    IN
    /\ At(p, "install")
    /\ \/ Put(OwnSettings(p)) /\ GoTo(p, "verify") /\ UNCHANGED faults
       \/ Put(live.settings) /\ GoTo(p, "undoCred") /\ MayFail
       \/ UNCHANGED live /\ GoTo(p, "undoCred") /\ MayFail
    /\ UNCHANGED <<vault, gen, lock, record, intact>>

\* switch_did_not_stick: either live identity differs from the target's snapshot.
TookEffectByIdentity(p) == live.acct = vault[pass[p].target].acct
TookEffect(p) ==
    live.acct = vault[pass[p].target].acct /\ live.cred = vault[pass[p].target].cred
Verify(p) ==
    /\ At(p, "verify")
    /\ \/ TookEffect(p) /\ pass' = [pass EXCEPT ![p].pc = "release", ![p].switched = TRUE]
       \/ ~TookEffect(p) /\ GoTo(p, "undoCred")
    /\ UNCHANGED <<live, vault, gen, lock, record, intact, faults>>

\* restore_rejected_state attempts the credential first, then the other two files,
\* whichever of them fail.
RestoreCredential(p) ==
    /\ At(p, "undoCred") /\ GoTo(p, "undoRest")
    /\ \/ live' = [live EXCEPT !.cred = pass[p].got.cred] /\ UNCHANGED <<intact, faults>>
       \/ MayFail /\ intact' = FALSE /\ UNCHANGED live
    /\ UNCHANGED <<vault, gen, lock, record>>

IdentityOnly(p) == [live EXCEPT !.acct = pass[p].got.acct]
Captured(p) ==
    [live EXCEPT !.acct = pass[p].got.acct, !.host = pass[p].got.host,
                 !.settings = pass[p].got.settings]
RestoreRest(p) ==
    /\ At(p, "undoRest") /\ GoTo(p, "release")
    /\ \/ live' = Captured(p) /\ UNCHANGED <<intact, faults>>
       \/ MayFail /\ intact' = FALSE
          /\ live' \in {live, [Captured(p) EXCEPT !.settings = live.settings],
                        [live EXCEPT !.settings = pass[p].got.settings]}
    /\ UNCHANGED <<vault, gen, lock, record>>

\* The lock is released; a switch publishes the target as its snapshot names it.
Release(p) ==
    LET t == pass[p].target IN
    /\ At(p, "release") /\ lock' = Nothing
    /\ \/ /\ pass[p].switched
          /\ pass' = [pass EXCEPT ![p] =
                 [Idle EXCEPT !.pc = "publish", !.active = t, !.uuid = vault[t].acct]]
       \/ /\ ~pass[p].switched
          /\ pass' = [pass EXCEPT ![p] = [Idle EXCEPT !.pc = "publish",
                 !.active = pass[p].active, !.uuid = pass[p].uuid]]
    /\ UNCHANGED <<live, vault, gen, record, intact, faults>>

\* publish_selection: the identity the pass carries, whole.  A hold, an unreadable
\* quota and a dry run come here from the decision.
RecordUnlessHeld(p) == IF record = Nothing THEN [profile |-> pass[p].active, uuid |-> pass[p].uuid]
                       ELSE record
Selection(p) == [profile |-> pass[p].active, uuid |-> pass[p].uuid]
Publish(p) ==
    /\ pass[p].pc \in {"decide", "publish"} /\ End(p)
    /\ \/ record' = Selection(p) /\ UNCHANGED faults
       \/ MayFail /\ UNCHANGED record
    /\ UNCHANGED <<live, vault, gen, lock, intact>>

Step(p) ==
    \/ Start(p) \/ Determine(p) \/ Resnapshot(p) \/ Acquire(p) \/ CheckPremise(p)
    \/ CaptureCredential(p) \/ CaptureRest(p) \/ Activate(p) \/ Install(p) \/ Verify(p)
    \/ RestoreCredential(p) \/ RestoreRest(p) \/ Release(p) \/ Publish(p)

-----------------------------------------------------------------------------
(* The world                                                                *)

\* A session that uses account a refreshes its token: the live one, or the one
\* that is being replaced.
Refresh(a) ==
    /\ gen < MaxRefresh
    /\ \/ live.cred.acct = a
       \/ \E p \in Passes : pass[p].got # Nothing /\ pass[p].got.cred.acct = a
    /\ gen' = gen + 1
    /\ live' = [live EXCEPT !.cred = [acct |-> a, gen |-> gen + 1]]
    /\ intact' = (/\ intact /\ live.cred.acct = a
                  /\ \A p \in Passes : pass[p].pc \notin {"rest"} \cup Writing)
    /\ UNCHANGED <<vault, lock, record, pass, faults>>

\* An activation by hand takes no lock and puts nothing of the host's back.
Hand(a) ==
    /\ MayFail
    /\ live' = [cred |-> vault[a].cred, acct |-> vault[a].acct, host |-> FALSE,
                settings |-> FALSE]
    /\ intact' = (intact /\ \A p \in Passes : pass[p].pc \notin Section)
    /\ UNCHANGED <<vault, gen, lock, record, pass>>

\* The pass is killed; the kernel releases its lock.
LockKept(p) == lock
LockFreed(p) == IF lock = p THEN Nothing ELSE lock
Crash(p) ==
    /\ ~At(p, "idle") /\ MayFail /\ End(p)
    /\ lock' = LockFreed(p)
    /\ intact' = (intact /\ pass[p].pc \notin Writing \ {"activate"})
    /\ UNCHANGED <<live, vault, gen, record>>

Next ==
    \/ \E p \in Passes : Step(p) \/ Crash(p)
    \/ \E a \in Accounts : Refresh(a) \/ Hand(a)

Spec == Init /\ [][Next]_vars

\* The rotation is invoked again and again, and every pass runs on.
FairSpec == Spec /\ \A p \in Passes : WF_vars(Step(p))

-----------------------------------------------------------------------------
(* What must hold                                                           *)

TypeOK ==
    /\ live \in LiveStates /\ vault \in [Accounts -> Snapshots]
    /\ gen \in 0..MaxRefresh
    /\ lock \in Passes \cup {Nothing} /\ record \in Records \cup {Nothing}
    /\ pass \in [Passes -> PassStates]
    /\ intact \in BOOLEAN /\ faults \in 0..MaxFault
    /\ \A p \in Passes : lock = p <=> pass[p].pc \in Section

\* Once a switch has let the lock go, by whichever of its exits, the live token and
\* the live identity are of one account: activations that fail, lie or stop part
\* way and writes that fail after them leave no login made of two accounts.
LoginIsWhole == intact /\ lock = Nothing => live.cred.acct = live.acct

\* A switch that is rejected puts back what it captured; one that is accepted keeps
\* all of the host's that is not the login.
HostStateKept ==
    \A p \in Passes : intact /\ At(p, "release") /\ pass[p].got # Nothing =>
        /\ live.host = pass[p].got.host /\ live.settings = pass[p].got.settings
        /\ ~pass[p].switched => /\ live.acct = pass[p].got.acct
                                 /\ live.cred.acct = pass[p].got.cred.acct
                                 /\ live.cred.gen >= pass[p].got.cred.gen

\* What a switch replaces is the account it was decided about, although that
\* decision was made before the lock was held.
ReplacesWhatItDecided ==
    \A p \in Passes : intact /\ At(p, "release") /\ pass[p].switched =>
        pass[p].got.acct = pass[p].active

\* The login as one sees it who leaves the lock to a switch (LoginSwitch): what the
\* switch captured until it is done, one way or the other.
Seen(state) ==
    [token |-> state.cred.acct, gen |-> state.cred.gen, name |-> state.acct,
     host |-> state.host, settings |-> state.settings]
Unfinished(p) == lock = p /\ pass[p].pc \in Writing
Login ==
    IF ~intact THEN Nothing
    ELSE IF \E p \in Passes : Unfinished(p)
         THEN Seen(pass[lock].got)
         ELSE Seen(live)
OneLogin == INSTANCE LoginSwitch WITH login <- Login, promised <- intact

\* A switch of three files, which may stop anywhere, fail, lie or be undone, is one
\* change of the whole login or none.
SwitchIsAtomic == OneLogin!Spec

\* An activation the rotation did not perform, or a record written by a pass that
\* was overtaken, is put right: once the host stays with one account, later passes
\* publish that account.
StaysWith(a) == live.cred.acct = a /\ live.acct = a
RecordCatchesUp ==
    \A a \in Accounts :
        []intact /\ <>[]StaysWith(a) => []<>(record = [profile |-> a, uuid |-> a])

-----------------------------------------------------------------------------
(* What the source says, and the code does not do                           *)

\* caam_pass_publish.py:27: no path can pair one account's name with another's
\* identifier.  The identifier is read from the live file before the account
\* manager is asked for the name, and a switch in between mixes the two.
RecordIsOneAccount == intact /\ record # Nothing => record.uuid = record.profile

\* caam_warm.py:115: the active profile's snapshot is kept equal to the live
\* credential.  A pass overtaken by a switch files the new account's login under
\* the old account's name.
SnapshotIsItsAccounts == \A a \in Accounts : vault[a].cred.acct = a

=============================================================================
