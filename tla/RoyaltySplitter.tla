-------------------------- MODULE RoyaltySplitter --------------------------
(***************************************************************************)
(* The whole contract: every entry point of src/src/lib.rs that changes    *)
(* state, on one storage, in any order, with ledgers closing and accounts  *)
(* depositing tokens in between.                                           *)
(***************************************************************************)
EXTENDS SplitterAdmin, SplitterGovernance, SplitterPayments

\* A contract just deployed from one of the builds, and funded accounts.
Init ==
    /\ Deployed
    /\ balance = [token \in Token |-> [h \in Holder |-> IF h = Self THEN 0 ELSE Supply]]
    /\ wasm \in Versions
    /\ contractVersion = None

Next ==
    \/ CloseLedger
    \/ InitializeNext \/ RecipientsNext
    \/ AdminNext \/ EmergencyNext \/ SwitchNext \/ UpgradeNext
    \/ DepositNext \/ PaymentsNext
    \/ GovernanceNext
    \/ DisputesNext

Spec == Init /\ [][Next]_vars

-----------------------------------------------------------------------------
\* A Map<Address, S>.
IsMap(map, S) == DOMAIN map \subseteq Address /\ map \in [DOMAIN map -> S]

AdminTypeOK ==
    /\ ledger \in Nat
    /\ admin \in Address \cup {None}
    /\ adminList \in Seq(Address)
    /\ adminThreshold \in Nat \ {0}
    /\ pendingAdmin \in Address \cup {None}
    /\ pendingRotation \in [new_admin : Address, initiated_at : Nat] \cup {None}
    /\ rotationTimelock \in Nat \cup {None}

SetupTypeOK ==
    /\ commitment \in [collaborators : Seq(Address), shares : Seq(Nat), ledger : Nat] \cup {None}
    /\ nonce \in Nat
    /\ collaborators \in Seq(Address)
    /\ IsMap(shareMap, Nat)
    /\ defaultRecipients \in Seq(Recipient)
    /\ IsMap(joinDate, Nat)
    /\ IsMap(activity, Nat)
    /\ incentivesEnabled \in BOOLEAN

SwitchTypeOK ==
    /\ paused \in BOOLEAN
    /\ pausedOperation \in [OperationType -> BOOLEAN]
    /\ emergencyPaused \in BOOLEAN
    /\ anomalyThreshold \in Nat \cup {None}
    /\ approvedTokens \in SUBSET Token

MoneyTypeOK ==
    /\ balance \in [Token -> [Holder -> Nat]]
    /\ secondaryPool \in Nat
    /\ secondaryToken \in Token \cup {None}
    /\ distributeHistory \in Nat
    /\ lastDistribution \in Nat \cup {None}
    /\ lastSecondaryDistribution \in Nat \cup {None}

RateChange == [old_rate : Nat, new_rate : Nat, timestamp : Nat, caller : Address]
Proposal == [new_rate : Nat, proposer : Address, created_at : Nat, deadline : Nat,
             yes_weight : Nat, no_weight : Nat, executed : BOOLEAN, rejected : BOOLEAN]

RateTypeOK ==
    /\ royaltyRate \in Nat
    /\ rateHistory \in Seq(RateChange)
    /\ proposals \in Seq(Proposal)
    /\ DOMAIN proposalVotes = DOMAIN proposals
    /\ \A id \in 1..Len(proposals) : IsMap(proposalVotes[id], BOOLEAN)

Dispute == [transaction_id : TransactionIds, amount : Int,
            status : {"Open", "Resolved", "ClawedBack"},
            opened_by : Address, opened_at : Nat, resolved_at : Nat]

RecordTypeOK ==
    /\ disputes \in Seq(Dispute)
    /\ wasm \in Versions
    /\ contractVersion \in Versions \cup {None}
    /\ appliedMigrations \in Seq([from : Versions, to : Versions])

\* The contract's storage keeps its types through every entry point.
TypeOK ==
    /\ AdminTypeOK /\ SetupTypeOK /\ SwitchTypeOK /\ MoneyTypeOK
    /\ RateTypeOK /\ RecordTypeOK

-----------------------------------------------------------------------------
\* What the contract adds up stays exact: the shares in force and the defaults
\* make ten thousand basis points of distinct recipients, the migration log leads to
\* the version reported, and a proposal's tally is the shares of those who voted.
BooksAreExact == SplitIsWhole /\ DefaultsAreWhole /\ MigrationLogIsExact /\ TallyIsExact

\* No one is overruled on the way: an admin list is replaced only by the admins at
\* its head, an emergency ends only when every admin has agreed, another candidate
\* restarts the rotation's clock, a collaborator keeps the date they joined at, a
\* reveal installs what was committed and a proposal sets the rate once.
ChangesAreAuthorised ==
    /\ AdminListGovernsItself /\ EmergencyEndsUnanimously /\ RotationRestarts
    /\ JoinDatesStick /\ RevealInstallsTheCommitment /\ ProposalsExecuteOnce

\* No sequence of deposits, payments, withdrawals and clawbacks overdraws a holder,
\* and no activity or joining date makes an incentive payment impossible.
PaymentsStayPayable == NoOverdraft /\ IncentivesNeverBlock

\* A distribution pays out what it found: the pool as a whole and once, and of a
\* token's balance no dust is left behind unless a transfer failed.
DistributionsAreComplete == PoolIsPaidInFull /\ DistributionLeavesNoDust

\* A dispute is closed once, only the step that closes it takes money back, and
\* only from those who signed.
DisputesAreFair == DisputesCloseOnce /\ ClawbackNeedsConsent
=============================================================================
