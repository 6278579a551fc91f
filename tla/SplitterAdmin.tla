--------------------------- MODULE SplitterAdmin ---------------------------
(***************************************************************************)
(* Who administers the contract and which switches the admins hold: the    *)
(* single admin and its three ways of changing hands (admin_transfer,      *)
(* propose/accept, the timelocked rotation), the multi-sig admin list, the *)
(* global, per-operation and emergency pauses, the anomaly threshold, the  *)
(* token whitelist, and the upgrade of the code.                           *)
(***************************************************************************)
EXTENDS SplitterState

CONSTANTS
    AdminLists,      \* admin vectors offered to set_admins
    MAX_ADMIN_LIST,  \* lib.rs: 10
    DEFAULT_ADMIN_ROTATION_TIMELOCK,  \* in ledgers; lib.rs: 48 hours
    MIN_ADMIN_ROTATION_TIMELOCK,      \* lib.rs: 1 hour
    MAX_ADMIN_ROTATION_TIMELOCK,      \* lib.rs: 30 days
    MAX_APPROVED_TOKENS,              \* lib.rs: 25
    Versions,        \* the builds that can be installed, named by their VERSION
    MaxMigrations    \* bound on the number of migration records

ASSUME AdminAssumption ==
    /\ AdminLists \subseteq Seq(Address)
    /\ MAX_ADMIN_LIST \in Nat
    /\ MIN_ADMIN_ROTATION_TIMELOCK \in Nat \ {0}
    /\ DEFAULT_ADMIN_ROTATION_TIMELOCK \in Nat
    /\ MAX_ADMIN_ROTATION_TIMELOCK \in Nat
    /\ MIN_ADMIN_ROTATION_TIMELOCK <= DEFAULT_ADMIN_ROTATION_TIMELOCK
    /\ DEFAULT_ADMIN_ROTATION_TIMELOCK <= MAX_ADMIN_ROTATION_TIMELOCK
    /\ MAX_APPROVED_TOKENS \in Nat
    /\ None \notin Versions
    /\ MaxMigrations \in Nat

\* Everything but the admin's own storage.
NotAdmin == <<ledger, initVars, shareVars, switchVars, moneyVars, rateVars, disputes, upgradeVars>>
\* Everything but the switches.
NotSwitch == <<ledger, adminVars, initVars, shareVars, moneyVars, rateVars, disputes, upgradeVars>>
\* Everything but the code's version.
NotUpgrade == <<ledger, adminVars, initVars, shareVars, switchVars, moneyVars, rateVars, disputes>>

-----------------------------------------------------------------------------
\* admin_transfer: single-step, and only while no admin list is configured.
AdminTransfer(signers, new_admin) ==
    /\ adminList = <<>>
    /\ initialized
    /\ admin \in signers
    /\ admin' = new_admin
    /\ UNCHANGED <<adminList, adminThreshold, pendingAdmin, pendingRotation, rotationTimelock>>
    /\ UNCHANGED NotAdmin

ProposeAdminTransfer(signers, new_admin) ==
    /\ check_admin_auth(signers)
    /\ pendingAdmin' = new_admin
    /\ UNCHANGED <<admin, adminList, adminThreshold, pendingRotation, rotationTimelock>>
    /\ UNCHANGED NotAdmin

AcceptAdmin(signers) ==
    /\ pendingAdmin # None
    /\ pendingAdmin \in signers
    /\ initialized
    /\ admin' = pendingAdmin
    /\ pendingAdmin' = None
    /\ UNCHANGED <<adminList, adminThreshold, pendingRotation, rotationTimelock>>
    /\ UNCHANGED NotAdmin

\* Mutant: the threshold may exceed the list.
AnyThreshold(admins, threshold) == admins # <<>> /\ threshold >= 1

\* set_admins accepts admins and threshold.
ValidAdmins(admins, threshold) ==
    /\ admins # <<>>
    /\ Len(admins) <= MAX_ADMIN_LIST
    /\ threshold >= 1
    /\ threshold <= Len(admins)
    /\ IsInjective(admins)

SetAdmins(signers, admins, threshold) ==
    /\ check_admin_auth(signers)
    /\ ValidAdmins(admins, threshold)
    /\ adminList' = admins
    /\ adminThreshold' = threshold
    /\ UNCHANGED <<admin, pendingAdmin, pendingRotation, rotationTimelock>>
    /\ UNCHANGED NotAdmin

-----------------------------------------------------------------------------
(***************************************************************************)
(* The timelocked rotation (#778).                                         *)
(***************************************************************************)
\* The rotation that initiate_admin_rotation records.
Rotation(new_admin) == [new_admin |-> new_admin, initiated_at |-> ledger]

InitiateAdminRotation(signers, new_admin) ==
    /\ check_admin_auth(signers)
    /\ pendingRotation' = Rotation(new_admin)
    /\ UNCHANGED <<admin, adminList, adminThreshold, pendingAdmin, rotationTimelock>>
    /\ UNCHANGED NotAdmin

CancelAdminRotation(signers) ==
    /\ check_admin_auth(signers)
    /\ pendingRotation # None
    /\ pendingRotation' = None
    /\ UNCHANGED <<admin, adminList, adminThreshold, pendingAdmin, rotationTimelock>>
    /\ UNCHANGED NotAdmin

\* Mutant: an unset timelock reads as zero.
zero_timelock == IF rotationTimelock = None THEN 0 ELSE rotationTimelock

admin_rotation_timelock ==
    IF rotationTimelock = None THEN DEFAULT_ADMIN_ROTATION_TIMELOCK ELSE rotationTimelock

\* finalize_admin_rotation: anybody may call it once the timelock that is in
\* force NOW has run since the rotation was initiated.
FinalizeAdminRotation ==
    /\ pendingRotation # None
    /\ ledger >= pendingRotation.initiated_at + admin_rotation_timelock
    /\ initialized
    /\ admin' = pendingRotation.new_admin
    /\ pendingRotation' = None
    /\ UNCHANGED <<adminList, adminThreshold, pendingAdmin, rotationTimelock>>
    /\ UNCHANGED NotAdmin

SetAdminRotationTimelock(signers, seconds) ==
    /\ check_admin_auth(signers)
    /\ seconds >= MIN_ADMIN_ROTATION_TIMELOCK
    /\ seconds <= MAX_ADMIN_ROTATION_TIMELOCK
    /\ rotationTimelock' = seconds
    /\ UNCHANGED <<admin, adminList, adminThreshold, pendingAdmin, pendingRotation>>
    /\ UNCHANGED NotAdmin

-----------------------------------------------------------------------------
(***************************************************************************)
(* The switches.                                                           *)
(***************************************************************************)
\* What pause and unpause share.
SetPaused(signers, value) ==
    /\ check_admin_auth(signers)
    /\ initialized
    /\ paused' = value
    /\ UNCHANGED <<pausedOperation, emergencyPaused, anomalyThreshold, approvedTokens>>
    /\ UNCHANGED NotSwitch

Pause(signers) == SetPaused(signers, TRUE)
Unpause(signers) == SetPaused(signers, FALSE)

\* pause_operation and unpause_operation.
SetOperationPaused(signers, operation, value) ==
    /\ check_admin_auth(signers)
    /\ initialized
    /\ pausedOperation' = [pausedOperation EXCEPT ![operation] = value]
    /\ UNCHANGED <<paused, emergencyPaused, anomalyThreshold, approvedTokens>>
    /\ UNCHANGED NotSwitch

TriggerEmergencyPause(signers) ==
    /\ check_admin_auth(signers)
    /\ emergencyPaused' = TRUE
    /\ UNCHANGED <<paused, pausedOperation, anomalyThreshold, approvedTokens>>
    /\ UNCHANGED NotSwitch

\* Mutant: the ordinary threshold of admins clears the emergency pause.
ClearWithThreshold(signers) == check_admin_auth(signers)

\* The authorization clear_emergency_pause asks for.
ClearAuth(signers) == require_emergency_clear_auth(signers)

ClearEmergencyPause(signers) ==
    /\ ClearAuth(signers)
    /\ emergencyPaused' = FALSE
    /\ UNCHANGED <<paused, pausedOperation, anomalyThreshold, approvedTokens>>
    /\ UNCHANGED NotSwitch

SetAnomalyThreshold(signers, max_amount) ==
    /\ check_admin_auth(signers)
    /\ max_amount > 0
    /\ anomalyThreshold' = max_amount
    /\ UNCHANGED <<paused, pausedOperation, emergencyPaused, approvedTokens>>
    /\ UNCHANGED NotSwitch

ClearAnomalyThreshold(signers) ==
    /\ check_admin_auth(signers)
    /\ anomalyThreshold' = None
    /\ UNCHANGED <<paused, pausedOperation, emergencyPaused, approvedTokens>>
    /\ UNCHANGED NotSwitch

\* The whitelist is a vector without duplicates that is only searched: a set.
SetApprovedTokens(signers, tokens) ==
    /\ check_admin_auth(signers)
    /\ Cardinality(tokens) <= MAX_APPROVED_TOKENS
    /\ approvedTokens' = tokens
    /\ UNCHANGED <<paused, pausedOperation, emergencyPaused, anomalyThreshold>>
    /\ UNCHANGED NotSwitch

-----------------------------------------------------------------------------
(***************************************************************************)
(* The upgrade.  Every installable build runs this model's logic and       *)
(* differs in its VERSION; the memo migrate writes once is never read.     *)
(***************************************************************************)
UpdateWasm(signers, version) ==
    /\ check_admin_auth(signers)
    /\ wasm' = version
    /\ UNCHANGED <<contractVersion, appliedMigrations>>
    /\ UNCHANGED NotUpgrade

\* migrate returns early: this migration is already recorded.
AlreadyMigrated(from_version) ==
    \E i \in 1..Len(appliedMigrations) :
        appliedMigrations[i] = [from |-> from_version, to |-> wasm]

Migrate(signers, from_version) ==
    /\ check_admin_auth(signers)
    /\ ~AlreadyMigrated(from_version)
    /\ Len(appliedMigrations) < MaxMigrations
    /\ appliedMigrations' = Append(appliedMigrations, [from |-> from_version, to |-> wasm])
    /\ contractVersion' = wasm
    /\ UNCHANGED wasm
    /\ UNCHANGED NotUpgrade

-----------------------------------------------------------------------------
AdminNext ==
    \/ FinalizeAdminRotation
    \/ \E signers \in AuthSets :
          \/ AcceptAdmin(signers)
          \/ CancelAdminRotation(signers)
          \/ \E a \in Address : \/ AdminTransfer(signers, a)
                               \/ ProposeAdminTransfer(signers, a)
                               \/ InitiateAdminRotation(signers, a)
          \/ \E admins \in AdminLists, threshold \in 0..MAX_ADMIN_LIST :
                SetAdmins(signers, admins, threshold)
          \/ \E seconds \in 0..MaxTime : SetAdminRotationTimelock(signers, seconds)

EmergencyNext ==
    \E signers \in AuthSets : TriggerEmergencyPause(signers) \/ ClearEmergencyPause(signers)

SwitchNext ==
    \E signers \in AuthSets :
        \/ Pause(signers) \/ Unpause(signers)
        \/ \E operation \in OperationType, value \in BOOLEAN :
              SetOperationPaused(signers, operation, value)
        \/ \E amount \in Amounts : SetAnomalyThreshold(signers, amount)
        \/ ClearAnomalyThreshold(signers)
        \/ \E tokens \in SUBSET Token : SetApprovedTokens(signers, tokens)

UpgradeNext ==
    \E signers \in AuthSets, version \in Versions :
        \/ UpdateWasm(signers, version)
        \/ Migrate(signers, version)

-----------------------------------------------------------------------------
\* Somebody can always act for an initialized contract: the signatures of
\* everybody satisfy check_admin_auth, so admins.get(i).unwrap() never panics
\* on a threshold that outgrew its list.
AdminNeverLockedOut == initialized => check_admin_auth(Address)

\* A rotation completes no earlier than the minimum timelock after it was
\* initiated, whatever the timelock is set to while it is pending and however
\* often it is re-initiated.
RotationWaits ==
    [][pendingRotation # None /\ pendingRotation' = None /\ admin' # admin =>
          /\ admin' = pendingRotation.new_admin
          /\ ledger >= pendingRotation.initiated_at + MIN_ADMIN_ROTATION_TIMELOCK]_vars

\* The last initiate_admin_rotation restarts the wait: a pending rotation names
\* another candidate only with a fresh start.
RotationRestarts ==
    [][/\ pendingRotation # None /\ pendingRotation' # None
       /\ pendingRotation'.new_admin # pendingRotation.new_admin
       => pendingRotation'.initiated_at = ledger]_vars

\* Once an admin list is configured it is never dropped, and only the admins at
\* its head replace it: the single admin key (which accept_admin and the
\* rotation keep handing on) has no say any more.
AdminListGovernsItself ==
    [][adminList # <<>> /\ <<adminList, adminThreshold>>' # <<adminList, adminThreshold>> =>
          /\ adminList' # <<>>
          /\ \E signers \in AuthSets :
                \A i \in 1..adminThreshold : adminList[i] \in signers]_vars

\* Only the consent of every listed admin ends an emergency pause (or, without
\* a list, the consent of the admin).
EmergencyEndsUnanimously ==
    [][emergencyPaused /\ ~emergencyPaused' =>
          \E signers \in AuthSets :
              IF adminList # <<>> THEN Range(adminList) \subseteq signers
              ELSE admin \in signers]_vars

\* A migration is recorded at most once, and the version the contract reports
\* is the one the last recorded migration led to.
MigrationLogIsExact ==
    /\ IsInjective(appliedMigrations)
    /\ appliedMigrations # <<>> =>
          contractVersion = appliedMigrations[Len(appliedMigrations)].to
=============================================================================
