--------------------------- MODULE SplitterState ---------------------------
(***************************************************************************)
(* The storage of the RoyaltySplitter contract (src/src/lib.rs), the token *)
(* ledgers it moves money on, the clock, and the authorization checks its  *)
(* entry points share.                                                     *)
(*                                                                         *)
(* A contract call is one atomic step.  A call that returns Err or panics  *)
(* rolls every write and transfer back, so it is a step that does not      *)
(* happen: each early return is a guard.  A call carries a set `signers`   *)
(* of addresses that authorized it.  Events and storage TTLs are left out. *)
(***************************************************************************)
EXTENDS ShareMath, FiniteSets

CONSTANTS
    Address,        \* accounts: collaborators, admins, payers
    Token,          \* token contracts
    Self,           \* the contract's own address
    None,           \* an absent storage entry
    AuthSets,       \* the signature sets a transaction may carry
    Amounts,        \* token amounts offered to the entry points
    RecipientLists, \* recipient vectors offered to the entry points
    MaxTime         \* bound on the clock

ASSUME SplitterAssumption ==
    /\ Self \notin Address
    /\ None \notin Address /\ None \notin Token /\ None \notin Int
    /\ AuthSets \subseteq SUBSET Address
    /\ Amounts \subseteq Int
    /\ RecipientLists \subseteq Seq([address : Address, share : Nat])
    /\ MaxTime \in Nat

VARIABLES
    ledger,             \* ledger sequence and timestamp: one unit per ledger
    \* StorageKey::Admin, AdminList, AdminThreshold, PendingAdmin,
    \* PendingAdminRotation, AdminRotationTimelock
    admin, adminList, adminThreshold, pendingAdmin, pendingRotation, rotationTimelock,
    \* StorageKey::InitializeCollaboratorsHash/SharesHash/CommitLedger, InitializeNonce
    commitment, nonce,
    \* StorageKey::Collaborators, ShareMap, DefaultRecipients,
    \* ContributorJoinDate, ContributorActivityCount, IncentivesEnabled
    collaborators, shareMap, defaultRecipients, joinDate, activity, incentivesEnabled,
    \* StorageKey::Paused, PausedPrimary/PausedSecondary, EmergencyPaused,
    \* AnomalyThreshold, ApprovedTokens
    paused, pausedOperation, emergencyPaused, anomalyThreshold, approvedTokens,
    \* token balances of every holder, StorageKey::SecondaryPool, SecondaryToken,
    \* DistributeHistory, LastDistribution, LastSecondaryDistribution
    balance, secondaryPool, secondaryToken,
    distributeHistory, lastDistribution, lastSecondaryDistribution,
    \* StorageKey::RoyaltyRate, RoyaltyRateHistory, Proposals, ProposalVotes
    royaltyRate, rateHistory, proposals, proposalVotes,
    \* StorageKey::Disputes
    disputes,
    \* the installed code, StorageKey::ContractVersion, AppliedMigrations
    wasm, contractVersion, appliedMigrations

adminVars == <<admin, adminList, adminThreshold, pendingAdmin, pendingRotation, rotationTimelock>>
initVars == <<commitment, nonce>>
shareVars == <<collaborators, shareMap, defaultRecipients, joinDate, activity, incentivesEnabled>>
switchVars == <<paused, pausedOperation, emergencyPaused, anomalyThreshold, approvedTokens>>
moneyVars == <<balance, secondaryPool, secondaryToken,
               distributeHistory, lastDistribution, lastSecondaryDistribution>>
rateVars == <<royaltyRate, rateHistory, proposals, proposalVotes>>
upgradeVars == <<wasm, contractVersion, appliedMigrations>>
vars == <<ledger, adminVars, initVars, shareVars, switchVars, moneyVars, rateVars,
          disputes, upgradeVars>>

-----------------------------------------------------------------------------
OperationType == {"PrimaryDistribution", "SecondaryDistribution"}
Holder == Address \cup {Self}
Recipient == [address : Address, share : Nat]
EmptyMap == <<>>   \* a Map with no entries

\* A Map<Address, _> with one entry set.
MapSet(map, key, value) ==
    [k \in DOMAIN map \cup {key} |-> IF k = key THEN value ELSE map[k]]

\* The value of a Map, or a default: map.get(key).unwrap_or(default).
MapGet(map, key, default) == IF key \in DOMAIN map THEN map[key] ELSE default

initialized == admin # None

(***************************************************************************)
(* check_admin_auth: with an admin list the FIRST AdminThreshold entries   *)
(* must all sign; without one, the single admin.                           *)
(***************************************************************************)
check_admin_auth(signers) ==
    IF adminList # <<>>
    THEN \A i \in 1..adminThreshold : i \in 1..Len(adminList) /\ adminList[i] \in signers
    ELSE admin # None /\ admin \in signers

\* require_emergency_clear_auth: every listed admin must sign.
require_emergency_clear_auth(signers) ==
    IF adminList # <<>>
    THEN \A i \in 1..Len(adminList) : adminList[i] \in signers
    ELSE admin # None /\ admin \in signers

is_blocked(operation) == emergencyPaused \/ paused \/ pausedOperation[operation]

\* token_is_approved / require_approved_token: an empty whitelist approves all.
token_is_approved(token) == approvedTokens = {} \/ token \in approvedTokens

-----------------------------------------------------------------------------
\* The contract as deployed, before initialize.  Any holdings are possible:
\* the models choose the balances.
Deployed ==
    /\ ledger = 1
    /\ admin = None /\ adminList = <<>> /\ adminThreshold = 1
    /\ pendingAdmin = None /\ pendingRotation = None /\ rotationTimelock = None
    /\ commitment = None /\ nonce = 0
    /\ collaborators = <<>> /\ shareMap = EmptyMap /\ defaultRecipients = <<>>
    /\ joinDate = EmptyMap /\ activity = EmptyMap /\ incentivesEnabled = FALSE
    /\ paused = FALSE /\ pausedOperation = [o \in OperationType |-> FALSE]
    /\ emergencyPaused = FALSE /\ anomalyThreshold = None /\ approvedTokens = {}
    /\ secondaryPool = 0 /\ secondaryToken = None
    /\ distributeHistory = 0 /\ lastDistribution = None /\ lastSecondaryDistribution = None
    /\ royaltyRate = 0 /\ rateHistory = <<>>
    /\ proposals = <<>> /\ proposalVotes = <<>>
    /\ disputes = <<>>
    /\ appliedMigrations = <<>>

\* A ledger closes.
CloseLedger ==
    /\ ledger < MaxTime
    /\ ledger' = ledger + 1
    /\ UNCHANGED <<adminVars, initVars, shareVars, switchVars, moneyVars, rateVars,
                   disputes, upgradeVars>>

=============================================================================
