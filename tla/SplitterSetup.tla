--------------------------- MODULE SplitterSetup ---------------------------
(***************************************************************************)
(* Setting the split up and changing it: initialize, the commit-reveal     *)
(* initialization, set_recipients, set_default_recipients, update_share    *)
(* and set_incentives_enabled.                                             *)
(***************************************************************************)
EXTENDS SplitterState

CONSTANTS
    InitInputs,  \* pairs <<collaborators, shares>> offered to initialize
    NewShares,   \* shares offered to update_share
    MaxNonce     \* bound on the number of commitments

ASSUME SetupAssumption ==
    /\ InitInputs \subseteq Seq(Address) \X Seq(Nat)
    /\ NewShares \subseteq Nat
    /\ MaxNonce \in Nat
    /\ None \notin [collaborators : Seq(Address), shares : Seq(Nat), ledger : Nat]

ShareMapOf(recipients) ==
    [a \in Range(AddressesOf(recipients)) |->
        recipients[CHOOSE i \in 1..Len(recipients) : recipients[i].address = a].share]

(***************************************************************************)
(* initialize_validated: the checks on the two vectors and the writes,     *)
(* which leave the rest of the storage alone.                              *)
(***************************************************************************)
initialize_validated(addresses, shares) ==
    /\ addresses # <<>>
    /\ Len(addresses) <= MAX_RECIPIENTS
    /\ Len(addresses) = Len(shares)
    /\ checked_share_total_ok(shares)
    /\ SumFunction(shares) = BPS
    /\ \A i \in 1..Len(shares) : shares[i] # 0
    /\ validate_unique_addresses(Recipients(addresses, shares))
    /\ joinDate' = [a \in Range(addresses) |-> ledger]
    /\ admin' = addresses[1]
    /\ collaborators' = addresses
    /\ shareMap' = ShareMapOf(Recipients(addresses, shares))
    /\ contractVersion' = wasm
    /\ UNCHANGED <<ledger, adminList, adminThreshold, pendingAdmin, pendingRotation,
                   rotationTimelock, nonce, defaultRecipients, activity, incentivesEnabled,
                   switchVars, moneyVars, rateVars, disputes, wasm, appliedMigrations>>

Initialize(signers, addresses, shares) ==
    /\ ~initialized
    /\ addresses # <<>>
    /\ Len(addresses) <= MAX_RECIPIENTS
    /\ addresses[1] \in signers
    /\ initialize_validated(addresses, shares)
    /\ UNCHANGED commitment

\* A hash stands for the one vector that produces it.  Anybody may commit, and
\* a later commitment replaces an earlier one.
CommitInitialize(addresses, shares) ==
    /\ ~initialized
    /\ nonce < MaxNonce
    /\ commitment' = [collaborators |-> addresses, shares |-> shares, ledger |-> ledger]
    /\ nonce' = nonce + 1
    /\ UNCHANGED <<ledger, adminVars, shareVars, switchVars, moneyVars, rateVars,
                   disputes, upgradeVars>>

\* The commitment is from an earlier ledger and is to these vectors.
MatchesCommitment(addresses, shares) ==
    /\ commitment # None
    /\ ledger > commitment.ledger
    /\ commitment.collaborators = addresses /\ commitment.shares = shares

RevealInitialize(signers, addresses, shares) ==
    /\ ~initialized
    /\ MatchesCommitment(addresses, shares)
    /\ addresses # <<>> /\ addresses[1] \in signers
    /\ initialize_validated(addresses, shares)
    /\ commitment' = None

-----------------------------------------------------------------------------
\* Mutant: a new collaborator is not dated.
JoinUndated(addresses) ==
    [a \in DOMAIN joinDate \cup Range(addresses) |-> MapGet(joinDate, a, None)]

\* set_recipients dates only the addresses that have no join date yet.
JoinDates(addresses) ==
    [a \in DOMAIN joinDate \cup Range(addresses) |-> MapGet(joinDate, a, ledger)]

SetRecipients(signers, recipients) ==
    /\ check_admin_auth(signers)
    /\ validate_recipient_list(recipients)
    /\ collaborators' = AddressesOf(recipients)
    /\ shareMap' = ShareMapOf(recipients)
    /\ joinDate' = JoinDates(AddressesOf(recipients))
    /\ UNCHANGED <<ledger, adminVars, initVars, defaultRecipients, activity,
                   incentivesEnabled, switchVars, moneyVars, rateVars, disputes, upgradeVars>>

\* The two validations of set_default_recipients.
DefaultsAccepted(recipients) ==
    validate_default_rcpt_bps(recipients) /\ validate_recipient_list(recipients)

SetDefaultRecipients(signers, recipients) ==
    /\ check_admin_auth(signers)
    /\ DefaultsAccepted(recipients)
    /\ defaultRecipients' = recipients
    /\ UNCHANGED <<ledger, adminVars, initVars, collaborators, shareMap, joinDate, activity,
                   incentivesEnabled, switchVars, moneyVars, rateVars, disputes, upgradeVars>>

\* get_total_shares: the sum over the share map, checked as a u32.
get_total_shares == SumFunction(shareMap)

\* Mutant: the total after the update is not checked.
AnyTotal(collaborator, new_share) == TRUE

\* The total stays 10_000 when collaborator's share becomes new_share.
TotalStaysWhole(collaborator, new_share) ==
    /\ get_total_shares <= U32_MAX
    /\ get_total_shares - shareMap[collaborator] + new_share = BPS

UpdateShare(signers, collaborator, new_share) ==
    /\ check_admin_auth(signers)
    /\ shareMap # EmptyMap
    /\ collaborator \in DOMAIN shareMap
    /\ TotalStaysWhole(collaborator, new_share)
    /\ new_share # 0
    /\ shareMap' = [shareMap EXCEPT ![collaborator] = new_share]
    /\ UNCHANGED <<ledger, adminVars, initVars, collaborators, defaultRecipients, joinDate,
                   activity, incentivesEnabled, switchVars, moneyVars, rateVars, disputes,
                   upgradeVars>>

SetIncentivesEnabled(signers, enabled) ==
    /\ check_admin_auth(signers)
    /\ incentivesEnabled' = enabled
    /\ UNCHANGED <<ledger, adminVars, initVars, collaborators, shareMap, defaultRecipients,
                   joinDate, activity, switchVars, moneyVars, rateVars, disputes, upgradeVars>>

-----------------------------------------------------------------------------
InitializeNext ==
    \E in \in InitInputs :
        \/ CommitInitialize(in[1], in[2])
        \/ \E signers \in AuthSets :
              \/ Initialize(signers, in[1], in[2])
              \/ RevealInitialize(signers, in[1], in[2])

RecipientsNext ==
    \E signers \in AuthSets :
        \/ \E recipients \in RecipientLists :
              \/ SetRecipients(signers, recipients)
              \/ SetDefaultRecipients(signers, recipients)
        \/ \E collaborator \in Address, share \in NewShares :
              UpdateShare(signers, collaborator, share)
        \/ \E enabled \in BOOLEAN : SetIncentivesEnabled(signers, enabled)

-----------------------------------------------------------------------------
\* The two records of the split agree and make up 100%: every collaborator has
\* one positive share and a join date, nobody else has a share, and the shares
\* add up to 10_000 (initialize, set_recipients and update_share each write
\* them on their own).
SplitIsWhole ==
    initialized =>
        /\ IsInjective(collaborators)
        /\ DOMAIN shareMap = Range(collaborators)
        /\ \A a \in DOMAIN shareMap : shareMap[a] # 0
        /\ get_total_shares = BPS
        /\ Range(collaborators) \subseteq DOMAIN joinDate

\* A stored default list is one distribute accepts: set_default_recipients never
\* leaves a list behind that later makes every distribution fail.
DefaultsAreWhole ==
    defaultRecipients # <<>> =>
        /\ Cardinality(Range(AddressesOf(defaultRecipients))) = Len(defaultRecipients)
        /\ Len(defaultRecipients) <= MAX_RECIPIENTS
        /\ \A i \in 1..Len(defaultRecipients) : defaultRecipients[i].share # 0
        /\ SumFunction(SharesOf(defaultRecipients)) = BPS

\* A join date, once recorded, never moves and is never lost: leaving the list
\* and coming back does not renew the early-adopter bonus.
JoinDatesStick ==
    [][\A a \in DOMAIN joinDate : a \in DOMAIN joinDate' /\ joinDate'[a] = joinDate[a]]_vars

\* The commitment consumed by an initialization was made in an earlier ledger
\* and names exactly the split that was installed.
RevealInstallsTheCommitment ==
    [][commitment # None /\ commitment' = None =>
          /\ ledger > commitment.ledger
          /\ collaborators' = commitment.collaborators
          /\ shareMap' = ShareMapOf(Recipients(commitment.collaborators, commitment.shares))
          /\ admin' = commitment.collaborators[1]]_vars
=============================================================================
