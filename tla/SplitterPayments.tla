-------------------------- MODULE SplitterPayments --------------------------
(***************************************************************************)
(* The money: deposits, the primary distributions (distribute,             *)
(* distribute_with_override, batch_distribute, distribute_resilient,       *)
(* distribute_with_incentives), the secondary royalty pool, withdraw, and  *)
(* disputes with their clawbacks.                                          *)
(*                                                                         *)
(* The token contracts are external: a transfer moves an amount the sender *)
(* holds.  A failing transfer panics and rolls the call back, except in    *)
(* distribute_resilient, which goes on with the next recipient.            *)
(***************************************************************************)
EXTENDS SplitterSetup

CONSTANTS
    Supply,            \* what every address holds of every token at first
    Batches,           \* token vectors offered to batch_distribute
    MAX_BATCH_TOKENS,  \* lib.rs: 50
    EARLY_ADOPTER_WINDOW,  \* in ledgers; lib.rs: 30 days
    ACTIVITY_BONUS_STEP,   \* lib.rs: 100
    MaxPool,           \* bound on the secondary pool
    MaxActivity,       \* bound on the activity counters
    MaxDistributions   \* bound on the distribution counter

ASSUME PaymentsAssumption ==
    /\ Supply \in Nat
    /\ Batches \subseteq Seq(Token)
    /\ {MAX_BATCH_TOKENS, EARLY_ADOPTER_WINDOW, MaxPool, MaxActivity,
        MaxDistributions} \subseteq Nat
    /\ ACTIVITY_BONUS_STEP \in Nat \ {0}

held(token) == balance[token][Self]

\* An external transfer of amount between two holders of a token.
Transfer(token, from, to, amount) ==
    /\ amount <= balance[token][from]
    /\ balance' = [balance EXCEPT ![token][from] = @ - amount, ![token][to] = @ + amount]

\* The ledger of one token after the contract has paid payouts[i] to the i-th
\* recipient, for the i in paid.
PaidOut(token, recipients, payouts, paid) ==
    [h \in Holder |->
        IF h = Self THEN held(token) - SumFunctionOnSet(payouts, paid)
        ELSE balance[token][h] + SumFunctionOnSet(payouts,
                 {i \in paid : recipients[i].address = h})]

-----------------------------------------------------------------------------
\* Anybody funds the contract with a plain token transfer.
Deposit(token, from, amount) ==
    /\ amount > 0
    /\ Transfer(token, from, Self, amount)
    /\ UNCHANGED <<ledger, adminVars, initVars, shareVars, switchVars, secondaryPool,
                   secondaryToken, distributeHistory, lastDistribution,
                   lastSecondaryDistribution, rateVars, disputes, upgradeVars>>

Withdraw(signers, token, amount) ==
    /\ initialized
    /\ check_admin_auth(signers)
    /\ amount > 0
    /\ Transfer(token, Self, admin, amount)
    /\ UNCHANGED <<ledger, adminVars, initVars, shareVars, switchVars, secondaryPool,
                   secondaryToken, distributeHistory, lastDistribution,
                   lastSecondaryDistribution, rateVars, disputes, upgradeVars>>

-----------------------------------------------------------------------------
\* get_recipients: the collaborators with their shares.
get_recipients ==
    [i \in 1..Len(collaborators) |->
        [address |-> collaborators[i], share |-> MapGet(shareMap, collaborators[i], 0)]]

\* The list a distribution pays: the override, else the defaults, else the
\* collaborators.
recipients_to_use(override) ==
    IF override # <<>> THEN override
    ELSE IF defaultRecipients # <<>> THEN defaultRecipients
    ELSE get_recipients

\* trip_anomaly_pause_if_exceeded returns true (and sets EmergencyPaused).
exceeds_anomaly_threshold(amount) ==
    anomalyThreshold # None /\ amount > anomalyThreshold

\* The call trips the emergency pause and returns Ok without doing anything else.
TripOnly ==
    /\ emergencyPaused' = TRUE
    /\ UNCHANGED <<ledger, adminVars, initVars, shareVars, paused, pausedOperation,
                   anomalyThreshold, approvedTokens, moneyVars, rateVars, disputes,
                   upgradeVars>>

\* A primary distribution of n payments is recorded.
RecordDistribution(n) ==
    /\ distributeHistory + n <= MaxDistributions
    /\ distributeHistory' = distributeHistory + n
    /\ lastDistribution' = ledger

\* What a primary distribution that pays leaves alone.
PrimaryFrame ==
    UNCHANGED <<ledger, adminVars, initVars, shareVars, secondaryPool, secondaryToken,
                lastSecondaryDistribution, rateVars, disputes, upgradeVars>>

\* The whole balance of token is split over recipients and paid.
PayAll(token, recipients) ==
    LET amount == held(token) IN
    /\ amount >= Len(recipients)
    /\ SplitOk(amount, recipients)
    /\ balance' = [balance EXCEPT ![token] =
                      PaidOut(token, recipients, Split(amount, recipients),
                              1..Len(recipients))]

\* Mutant: the emergency pause is not consulted.
not_paused(operation) == ~paused /\ ~pausedOperation[operation]

\* The pause checks at the head of distribute_with_override and distribute_secondary.
may_run(operation) == ~emergencyPaused /\ ~is_blocked(operation)

\* distribute_with_override; distribute is the call with an empty override.
DistributeWithOverride(signers, token, override) ==
    /\ check_admin_auth(signers)
    /\ may_run("PrimaryDistribution")
    /\ token_is_approved(token)
    /\ held(token) # 0
    /\ \/ exceeds_anomaly_threshold(held(token)) /\ TripOnly
       \/ LET recipients == recipients_to_use(override) IN
          /\ ~exceeds_anomaly_threshold(held(token))
          /\ validate_recipient_list(recipients)
          /\ PayAll(token, recipients)
          /\ RecordDistribution(1)
          /\ PrimaryFrame /\ UNCHANGED switchVars

\* The tokens of a batch before the first one that trips the anomaly pause; all
\* of them when none does.
BatchPrefix(tokens) ==
    LET calm(k) == \A i \in 1..k : ~exceeds_anomaly_threshold(held(tokens[i]))
    IN  SubSeq(tokens, 1, CHOOSE k \in 0..Len(tokens) :
                              calm(k) /\ (k < Len(tokens) => ~calm(k + 1)))

(***************************************************************************)
(* batch_distribute.  The per-operation pause is not consulted and the     *)
(* list is only checked for its total.  A token listed twice is empty at   *)
(* its second turn, which fails the batch (NoBalance).  An anomalous token *)
(* ends the batch with Ok: what was paid before it stays paid, but the     *)
(* counter and the timestamp are not written.                              *)
(***************************************************************************)
BatchDistribute(signers, tokens) ==
    LET recipients == recipients_to_use(<<>>)
        prefix     == BatchPrefix(tokens)
    IN
    /\ check_admin_auth(signers)
    /\ Len(tokens) <= MAX_BATCH_TOKENS
    /\ \A i \in 1..Len(tokens) : token_is_approved(tokens[i])
    /\ ~emergencyPaused
    /\ ~paused
    /\ recipients # <<>>
    /\ checked_share_total_ok(SharesOf(recipients))
    /\ SumFunction(SharesOf(recipients)) = BPS
    /\ IsInjective(prefix)
    /\ \A token \in Range(prefix) :
          /\ held(token) # 0
          /\ held(token) >= Len(recipients)
          /\ SplitOk(held(token), recipients)
    /\ balance' = [token \in Token |->
          IF token \in Range(prefix)
          THEN PaidOut(token, recipients, Split(held(token), recipients), 1..Len(recipients))
          ELSE balance[token]]
    /\ \/ /\ prefix = tokens
          /\ RecordDistribution(Len(tokens))
          /\ UNCHANGED emergencyPaused
       \/ /\ prefix # tokens
          /\ emergencyPaused' = TRUE
          /\ UNCHANGED <<distributeHistory, lastDistribution>>
    /\ PrimaryFrame
    /\ UNCHANGED <<paused, pausedOperation, anomalyThreshold, approvedTokens>>

\* distribute_resilient: the transfers in `paid` succeed, the others fail and
\* their payouts stay in the contract.
DistributeResilient(signers, token, override, paid) ==
    LET recipients == recipients_to_use(override)
        amount     == held(token)
    IN
    /\ check_admin_auth(signers)
    /\ ~is_blocked("PrimaryDistribution")
    /\ amount # 0
    /\ validate_recipient_list(recipients)
    /\ amount >= Len(recipients)
    /\ SplitOk(amount, recipients)
    /\ paid \subseteq 1..Len(recipients)
    /\ balance' = [balance EXCEPT ![token] =
                      PaidOut(token, recipients, Split(amount, recipients), paid)]
    /\ IF paid # {} THEN RecordDistribution(1)
       ELSE UNCHANGED <<distributeHistory, lastDistribution>>
    /\ PrimaryFrame /\ UNCHANGED switchVars

-----------------------------------------------------------------------------
\* incentive_bonus_bps: early adopters and active payers earn a bonus.
incentive_bonus_bps(a) ==
    LET early == IF a \in DOMAIN joinDate /\ ledger - joinDate[a] <= EARLY_ADOPTER_WINDOW
                 THEN EARLY_ADOPTER_BONUS_BPS ELSE 0
        steps == Lesser(MapGet(activity, a, 0) \div ACTIVITY_BONUS_STEP,
                        ACTIVITY_BONUS_MAX_STEPS)
    IN  Lesser(early + steps * ACTIVITY_BONUS_BPS_PER_STEP, MAX_INDIVIDUAL_INCENTIVE_BPS)

calculate_incentive_shares ==
    IF ~incentivesEnabled \/ get_recipients = <<>> THEN get_recipients
    ELSE AdjustShares(get_recipients,
             [i \in 1..Len(collaborators) |-> incentive_bonus_bps(collaborators[i])])

\* distribute_with_incentives and the execute_distribution it calls.
DistributeWithIncentives(signers, token) ==
    LET recipients == calculate_incentive_shares IN
    /\ check_admin_auth(signers)
    /\ ~is_blocked("PrimaryDistribution")
    /\ held(token) # 0
    /\ validate_recipient_list(recipients)
    /\ PayAll(token, recipients)
    /\ RecordDistribution(1)
    /\ PrimaryFrame /\ UNCHANGED switchVars

-----------------------------------------------------------------------------
(***************************************************************************)
(* The secondary royalty pool: one number, for the token recorded last.    *)
(***************************************************************************)
RecordSecondaryRoyalty(signers, token, from, royalty_amount) ==
    /\ from \in signers
    /\ royalty_amount > 0
    /\ token_is_approved(token)
    /\ Transfer(token, from, Self, royalty_amount)
    /\ secondaryPool + royalty_amount <= Lesser(I128_MAX, MaxPool)
    /\ secondaryPool' = secondaryPool + royalty_amount
    /\ secondaryToken' = token
    /\ IF from \in DOMAIN shareMap
       THEN /\ MapGet(activity, from, 0) < MaxActivity
            /\ activity' = MapSet(activity, from, MapGet(activity, from, 0) + 1)
       ELSE UNCHANGED activity
    /\ UNCHANGED <<ledger, adminVars, initVars, collaborators, shareMap, defaultRecipients,
                   joinDate, incentivesEnabled, switchVars, distributeHistory,
                   lastDistribution, lastSecondaryDistribution, rateVars, disputes,
                   upgradeVars>>

\* Mutant: the pool is not compared with what the contract holds.
pool_is_recorded == secondaryToken # None

\* distribute_secondary finds the pool among the contract's holdings.
pool_is_held == secondaryPool <= held(secondaryToken)

\* Mutant: the pool is not reset after it was paid.
PoolNotReset == secondaryPool

\* The pool after its distribution.
PoolAfterPayout == 0

DistributeSecondary(signers) ==
    /\ check_admin_auth(signers)
    /\ may_run("SecondaryDistribution")
    /\ shareMap # EmptyMap
    /\ get_total_shares = BPS
    /\ secondaryPool # 0
    /\ secondaryToken # None
    /\ \/ exceeds_anomaly_threshold(secondaryPool) /\ TripOnly
       \/ /\ ~exceeds_anomaly_threshold(secondaryPool)
          /\ pool_is_held
          /\ SplitOk(secondaryPool, get_recipients)
          /\ balance' = [balance EXCEPT ![secondaryToken] =
                 PaidOut(secondaryToken, get_recipients,
                         Split(secondaryPool, get_recipients), 1..Len(collaborators))]
          /\ secondaryPool' = PoolAfterPayout
          /\ lastSecondaryDistribution' = ledger
          /\ UNCHANGED <<ledger, adminVars, initVars, shareVars, switchVars, secondaryToken,
                         distributeHistory, lastDistribution, rateVars, disputes,
                         upgradeVars>>

-----------------------------------------------------------------------------
PaymentsNext ==
    \E signers \in AuthSets :
        \/ \E token \in Token :
              \/ \E amount \in Amounts : Withdraw(signers, token, amount)
              \/ \E amount \in Amounts, from \in Address :
                    RecordSecondaryRoyalty(signers, token, from, amount)
              \/ \E override \in RecipientLists \cup {<<>>} :
                    \/ DistributeWithOverride(signers, token, override)
                    \/ \E paid \in SUBSET (1..MAX_RECIPIENTS) :
                          DistributeResilient(signers, token, override, paid)
              \/ DistributeWithIncentives(signers, token)
        \/ \E tokens \in Batches : BatchDistribute(signers, tokens)
        \/ DistributeSecondary(signers)

DepositNext ==
    \E token \in Token, from \in Address, amount \in Amounts : Deposit(token, from, amount)

-----------------------------------------------------------------------------
\* What the accounts gain from a step.
Gains(token, a) == balance'[token][a] > balance[token][a]

\* The contract never promises more than it holds: no order of primary and
\* secondary distributions, withdrawals and pool records makes a path spend
\* tokens that another path has already paid out.
NoOverdraft == \A token \in Token, h \in Holder : balance[token][h] >= 0

\* While the emergency pause is on, the contract's tokens reach nobody but the
\* admin (withdraw), no distribution is recorded and the pool is not paid out.
EmergencyStopsPayouts ==
    [][emergencyPaused =>
          /\ \A token \in Token, a \in Address : Gains(token, a) => a = admin
          /\ UNCHANGED <<distributeHistory, lastDistribution, lastSecondaryDistribution>>
          /\ secondaryPool' >= secondaryPool]_vars

\* The pool is paid out as a whole, in its token, while secondary distributions
\* are not paused, and it is empty afterwards; it is never paid in part or twice.
PoolIsPaidInFull ==
    [][lastSecondaryDistribution' # lastSecondaryDistribution \/ secondaryPool' < secondaryPool =>
          /\ ~is_blocked("SecondaryDistribution")
          /\ secondaryPool' = 0
          /\ held(secondaryToken) - balance'[secondaryToken][Self] = secondaryPool
          /\ \A token \in Token \ {secondaryToken} : balance'[token] = balance[token]]_vars

\* A primary distribution leaves no dust: one token per recorded payment is paid
\* to the last unit, unless some transfer of distribute_resilient failed.
DistributionLeavesNoDust ==
    [][distributeHistory' > distributeHistory =>
          \/ Cardinality({token \in Token : held(token) > 0 /\ held(token)' = 0})
                = distributeHistory' - distributeHistory
          \/ \E signers \in AuthSets, token \in Token,
                override \in RecipientLists \cup {<<>>} :
                \E paid \in SUBSET (1..Len(recipients_to_use(override))) :
                    /\ paid # 1..Len(recipients_to_use(override))
                    /\ DistributeResilient(signers, token, override, paid)]_vars

\* Incentives never stand in the way of a payment: with every share at two basis
\* points or more, the adjusted list is one that execute_distribution accepts,
\* whatever the join dates and the activity of the collaborators have become.
IncentivesNeverBlock ==
    initialized /\ (\A a \in DOMAIN shareMap : shareMap[a] >= 2) =>
        validate_recipient_list(calculate_incentive_shares)

-----------------------------------------------------------------------------
\* The pool is money the contract has: primary distributions and withdrawals do
\* not pay it away (docs/CONTRACT_ERRORS.md takes the contrary for an accounting
\* inconsistency caused by manual transfers).
PoolIsBacked ==
    secondaryToken # None => secondaryPool <= held(secondaryToken)

\* A call that trips the anomaly pause distributes nothing (docs/EVENTS.md).
TripPaysNothing ==
    [][~emergencyPaused /\ emergencyPaused' => balance' = balance]_vars

\* While primary distributions are paused no primary distribution is carried out
\* and recorded (lib.rs, OperationType).
PrimaryPauseHolds ==
    [][pausedOperation["PrimaryDistribution"] =>
          UNCHANGED <<distributeHistory, lastDistribution>>]_vars

-----------------------------------------------------------------------------
(***************************************************************************)
(* Disputes (#841): opened and closed by the admins; a clawback pulls      *)
(* tokens back from recipients who sign, and closes the dispute.           *)
(***************************************************************************)

CONSTANTS
    TransactionIds,  \* off-chain transactions a dispute may concern
    ClawbackLists,   \* pairs <<from, amounts>> offered to clawback
    MaxDisputes      \* bound on the number of disputes

ASSUME DisputesAssumption ==
    /\ ClawbackLists \subseteq Seq(Address) \X Seq(Int)
    /\ MaxDisputes \in Nat

NotDispute == <<ledger, adminVars, initVars, shareVars, switchVars, rateVars, upgradeVars>>

\* Dispute ids count from 1 and nothing is deleted: the map is a sequence.
RecordDispute(signers, transaction_id, amount) ==
    /\ check_admin_auth(signers)
    /\ amount > 0
    /\ initialized
    /\ Len(disputes) < MaxDisputes
    /\ disputes' = Append(disputes,
          [transaction_id |-> transaction_id, amount |-> amount, status |-> "Open",
           opened_by |-> admin, opened_at |-> ledger, resolved_at |-> 0])
    /\ UNCHANGED <<NotDispute, moneyVars>>

\* close_dispute finds the dispute and it is Open.
is_open(id) == id \in 1..Len(disputes) /\ disputes[id].status = "Open"

close_dispute(id, status) ==
    /\ is_open(id)
    /\ disputes' = [disputes EXCEPT ![id].status = status, ![id].resolved_at = ledger]

ResolveDispute(signers, id) ==
    /\ check_admin_auth(signers)
    /\ close_dispute(id, "Resolved")
    /\ UNCHANGED <<NotDispute, moneyVars>>

\* What the transfers from[i] -> contract have taken from holder h in all.
Pulled(from, amounts, h) ==
    SumFunctionOnSet(amounts, {i \in 1..Len(from) : from[i] = h})

\* Mutant: the admins' signatures are enough.
admins_consent(from, signers) == TRUE

\* from[i].require_auth() for every i.
recipients_consent(from, signers) == \A i \in 1..Len(from) : from[i] \in signers

\* clawback: every from[i] signs and can pay; the transfers come first and are
\* rolled back with the call when the dispute is not open.
Clawback(signers, id, token, from, amounts) ==
    /\ check_admin_auth(signers)
    /\ Len(from) = Len(amounts)
    /\ Len(from) <= MAX_RECIPIENTS
    /\ \A i \in 1..Len(from) : amounts[i] > 0
    /\ recipients_consent(from, signers)
    /\ \A h \in Address : Pulled(from, amounts, h) <= balance[token][h]
    /\ balance' = [balance EXCEPT ![token] =
          [h \in Holder |-> IF h = Self THEN held(token) + SumFunction(amounts)
                            ELSE balance[token][h] - Pulled(from, amounts, h)]]
    /\ close_dispute(id, "ClawedBack")
    /\ UNCHANGED <<secondaryPool, secondaryToken, distributeHistory, lastDistribution,
                   lastSecondaryDistribution>>
    /\ UNCHANGED NotDispute

DisputesNext ==
    \E signers \in AuthSets :
        \/ \E transaction_id \in TransactionIds, amount \in Amounts :
              RecordDispute(signers, transaction_id, amount)
        \/ \E id \in 1..MaxDisputes :
              \/ ResolveDispute(signers, id)
              \/ \E token \in Token, list \in ClawbackLists :
                    Clawback(signers, id, token, list[1], list[2])

-----------------------------------------------------------------------------
\* A dispute leaves Open once and for good, and money is pulled back only in the
\* step that closes an open dispute as ClawedBack: no dispute is clawed back
\* twice, or after it was resolved.
DisputesCloseOnce ==
    [][/\ \A id \in 1..Len(disputes) :
             disputes[id].status # "Open" => disputes'[id] = disputes[id]
       /\ disputes' # disputes /\ balance' # balance =>
             \E id \in 1..Len(disputes) :
                 /\ disputes[id].status = "Open"
                 /\ disputes'[id].status = "ClawedBack"]_vars

\* A clawback only moves money into the contract, and only from accounts that
\* signed: nobody else loses a token while disputes are handled.
ClawbackNeedsConsent ==
    [][disputes' # disputes =>
          \A token \in Token, h \in Holder :
              balance'[token][h] < balance[token][h] =>
                  \E signers \in AuthSets : check_admin_auth(signers) /\ h \in signers]_vars
=============================================================================
