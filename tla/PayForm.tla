------------------------------- MODULE PayForm -------------------------------
(***************************************************************************)
(* The form that distributes the balance of a contract                     *)
(* (DistributeForm.tsx) and the state of its payment: the phase kept by    *)
(* TransactionContext.tsx for the whole application, and the stage kept by *)
(* useTransactionLifecycle.ts for the form alone.  A page change unmounts  *)
(* the form and leaves its payment and the phase behind.                   *)
(*                                                                         *)
(* React's effects are part of the step that changes what they depend on.  *)
(* Two balance requests for one token are answered as one.                 *)
(***************************************************************************)
EXTENDS Integers, Sequences, FiniteSets, Functions

CONSTANTS
    Contract,         \* contracts the user works on
    Token,            \* token addresses that are well formed
    Shares,           \* per contract: the basis points of its collaborators
    Funds,            \* per token: the balance the server answers with
    Amount,           \* amounts typed, above zero
    Payment           \* payments that may overlap

ASSUME PayAssumption == Shares \in [Contract -> Seq(Nat)] /\ Amount \subseteq Nat /\ Contract # {}

VARIABLES
    contractId,
    tokenId, amount,
    contractBalance,  \* NoBalance, or the last answer
    balanceTimer,     \* a balance request is due
    balanceAsks,      \* tokens whose balance was asked for
    recipients,       \* the collaborators shown
    recipientsAsk,    \* contracts whose collaborators were asked for
    draftPrompt, draftDecisionMade,
    drafts,           \* localStorage, per contract
    phase,            \* TransactionContext
    stage, paying,    \* the form's lifecycle and its loading flag
    payments          \* per payment: where it is, its contract, whether its form is mounted

fieldVars == <<tokenId, amount, draftPrompt, draftDecisionMade, drafts>>
answerVars == <<contractBalance, balanceTimer, balanceAsks, recipients, recipientsAsk>>
statusVars == <<phase, stage, paying>>
payVars == <<contractId, fieldVars, answerVars, statusVars, payments>>

NoToken == ""
NoAmount == 0
NoBalance == -1
NoContract == ""
Idle == [at |-> "idle", contract |-> NoContract, here |-> TRUE]
NoSavedDraft == [tokenId |-> NoToken, amount |-> NoAmount]
FirstContract == CHOOSE c \in Contract : TRUE

PayInit ==
    /\ contractId = FirstContract
    /\ tokenId = NoToken /\ amount = NoAmount
    /\ contractBalance = NoBalance /\ balanceTimer = FALSE /\ balanceAsks = {}
    /\ recipients = <<>> /\ recipientsAsk = {FirstContract}
    /\ draftPrompt = NoSavedDraft /\ draftDecisionMade = TRUE
    /\ drafts = [c \in Contract |-> NoSavedDraft]
    /\ phase = "none" /\ stage = "idle" /\ paying = FALSE
    /\ payments = [p \in Payment |-> Idle]

-----------------------------------------------------------------------------
\* What the form computes from its state.

exceedsBalance == contractBalance # NoBalance /\ amount > contractBalance

totalBasisPoints == SumFunction(recipients)

\* The last one takes what the others leave.  In ten-thousandths of a unit.
sharePayouts == [i \in DOMAIN recipients |-> amount * recipients[i]]
PayoutsBefore(i) == SumFunctionOnSet(sharePayouts, 1..(i - 1))
recipientBreakdown ==
    IF amount = NoAmount THEN <<>>
    ELSE [i \in DOMAIN recipients |->
            IF i < Len(recipients) THEN sharePayouts[i]
            ELSE LET rest == amount * 10000 - PayoutsBefore(i) IN IF rest > 0 THEN rest ELSE 0]

useIsTransactionInFlight == phase \in {"building", "signing", "confirming"}
isActive == stage \in {"awaiting_wallet", "submitting", "confirming"}

\* The effect that stores the draft, once the user has decided about the old one.
Stored(store, c, decided, token, value) ==
    IF decided THEN [store EXCEPT ![c] = [tokenId |-> token, amount |-> value]] ELSE store

-----------------------------------------------------------------------------
\* Editing.

SetFields(token, value) ==
    /\ tokenId' = token /\ amount' = value
    /\ drafts' = Stored(drafts, contractId, draftDecisionMade', token, value)
    /\ balanceTimer' = IF token = tokenId THEN balanceTimer ELSE token # NoToken

TypeToken(token) ==
    /\ ~paying
    /\ UNCHANGED draftDecisionMade
    /\ SetFields(token, NoAmount)
    /\ contractBalance' = IF token = NoToken THEN NoBalance ELSE contractBalance
    /\ UNCHANGED <<contractId, draftPrompt, balanceAsks, recipients, recipientsAsk, statusVars, payments>>

TypeAmount(value) ==
    /\ ~paying /\ contractBalance # NoBalance
    /\ UNCHANGED draftDecisionMade
    /\ SetFields(tokenId, value)
    /\ UNCHANGED <<contractId, draftPrompt, contractBalance, balanceAsks, recipients, recipientsAsk,
                   statusVars, payments>>

restoreDraft ==
    /\ draftPrompt # NoSavedDraft /\ ~paying
    /\ draftDecisionMade' = TRUE
    /\ SetFields(draftPrompt.tokenId, draftPrompt.amount)
    /\ draftPrompt' = NoSavedDraft
    /\ contractBalance' = IF draftPrompt.tokenId = NoToken THEN NoBalance ELSE contractBalance
    /\ UNCHANGED <<contractId, balanceAsks, recipients, recipientsAsk, statusVars, payments>>

\* The effect then stores what the form holds.
discardPayDraft ==
    /\ draftPrompt # NoSavedDraft /\ ~paying
    /\ draftPrompt' = NoSavedDraft /\ draftDecisionMade' = TRUE
    /\ drafts' = Stored(drafts, contractId, TRUE, tokenId, amount)
    /\ UNCHANGED <<contractId, tokenId, amount, answerVars, statusVars, payments>>

clearForm ==
    /\ ~paying /\ ~isActive
    /\ tokenId # NoToken \/ amount # NoAmount \/ draftPrompt # NoSavedDraft
    /\ draftDecisionMade' = TRUE
    /\ SetFields(NoToken, NoAmount)
    /\ draftPrompt' = NoSavedDraft
    /\ contractBalance' = NoBalance
    /\ phase' = "none" /\ stage' = "idle"
    /\ UNCHANGED <<contractId, balanceAsks, recipients, recipientsAsk, paying, payments>>

-----------------------------------------------------------------------------
\* Requests made as the form is edited.

BalanceTimerFires ==
    /\ balanceTimer
    /\ balanceTimer' = FALSE
    /\ balanceAsks' = balanceAsks \cup {tokenId}
    /\ UNCHANGED <<contractId, fieldVars, contractBalance, recipients, recipientsAsk, statusVars, payments>>

\* Whatever the token is by now.
BalanceAnswers(token) ==
    /\ token \in balanceAsks
    /\ balanceAsks' = balanceAsks \ {token}
    /\ contractBalance' \in {Funds[token], NoBalance}
    /\ UNCHANGED <<contractId, fieldVars, balanceTimer, recipients, recipientsAsk, statusVars, payments>>

\* The answer to a request that was cancelled changes nothing.
RecipientsAnswer(c) ==
    /\ c \in recipientsAsk
    /\ recipientsAsk' = recipientsAsk \ {c}
    /\ recipients' \in IF c = contractId THEN {Shares[c], <<>>} ELSE {recipients}
    /\ UNCHANGED <<contractId, fieldVars, contractBalance, balanceTimer, balanceAsks, statusVars, payments>>

\* Another contract in the form that is mounted: its draft is read, and then the
\* effect that stores the draft runs with the fields and the decision of before.
SwitchContract(c) ==
    /\ c # contractId
    /\ contractId' = c
    /\ draftPrompt' = drafts[c]
    /\ draftDecisionMade' = (drafts[c] = NoSavedDraft)
    /\ drafts' = Stored(drafts, c, draftDecisionMade \/ drafts[c] = NoSavedDraft, tokenId, amount)
    /\ recipientsAsk' = recipientsAsk \cup {c}
    /\ balanceTimer' = (tokenId # NoToken)
    /\ UNCHANGED <<tokenId, amount, contractBalance, balanceAsks, recipients, statusVars, payments>>

\* Another page and back: the form is new, the phase and the payments are not.
PayRemount ==
    /\ tokenId' = NoToken /\ amount' = NoAmount
    /\ draftPrompt' = drafts[contractId]
    /\ draftDecisionMade' = (drafts[contractId] = NoSavedDraft)
    /\ contractBalance' = NoBalance /\ balanceTimer' = FALSE /\ balanceAsks' = {}
    /\ recipients' = <<>> /\ recipientsAsk' = {contractId}
    /\ stage' = "idle" /\ paying' = FALSE
    /\ payments' = [p \in Payment |->
                      IF payments[p].at = "idle" THEN Idle ELSE [payments[p] EXCEPT !.here = FALSE]]
    /\ UNCHANGED <<contractId, drafts, phase>>

-----------------------------------------------------------------------------
\* Paying.

Running(p) == payments[p].at \notin {"idle", "late"}

beginTransaction == phase' = "building"
updatePhase(next) == phase' = IF phase = "none" THEN phase ELSE next
setStage(p, next) == stage' = IF payments[p].here THEN next ELSE stage

\* Mutant: the phase begins before the checks.
SubmitBeforeChecks(p) ==
    /\ payments[p].at = "idle"
    /\ ~useIsTransactionInFlight
    /\ beginTransaction
    /\ IF paying \/ isActive \/ tokenId = NoToken \/ amount = NoAmount \/ exceedsBalance
         THEN UNCHANGED <<stage, paying, payments>>
         ELSE /\ paying' = TRUE /\ stage' = "awaiting_wallet"
              /\ payments' = [payments EXCEPT ![p] = [at |-> "building", contract |-> contractId, here |-> TRUE]]
    /\ UNCHANGED <<contractId, fieldVars, answerVars>>

\* The button is disabled while a payment runs, the shortcut is not.  The phase
\* begins before the form looks at its own state.
submitPayment(p) ==
    /\ payments[p].at = "idle"
    /\ ~useIsTransactionInFlight
    /\ tokenId # NoToken /\ amount # NoAmount /\ ~exceedsBalance
    /\ beginTransaction
    /\ IF paying \/ isActive
         THEN UNCHANGED <<stage, paying, payments>>
         ELSE /\ paying' = TRUE /\ stage' = "awaiting_wallet"
              /\ payments' = [payments EXCEPT ![p] = [at |-> "building", contract |-> contractId, here |-> TRUE]]
    /\ UNCHANGED <<contractId, fieldVars, answerVars>>

PaymentBuilt(p) ==
    /\ payments[p].at = "building"
    /\ payments' = [payments EXCEPT ![p].at = "signing"]
    /\ updatePhase("signing") /\ setStage(p, "submitting")
    /\ UNCHANGED <<contractId, fieldVars, answerVars, paying>>

PaymentSent(p) ==
    /\ payments[p].at = "signing"
    /\ payments' = [payments EXCEPT ![p].at = "sent"]
    /\ UNCHANGED <<contractId, fieldVars, answerVars, statusVars>>

\* The ledger takes it, whether or not the form still waits.
PaymentTaken(p) ==
    /\ payments[p].at \in {"sent", "late"}
    /\ payments' = [payments EXCEPT ![p] = IF @.at = "sent" THEN [@ EXCEPT !.at = "taken"] ELSE Idle]
    /\ UNCHANGED <<contractId, fieldVars, answerVars, statusVars>>

PollSucceeds(p) ==
    /\ payments[p].at = "taken"
    /\ payments' = [payments EXCEPT ![p].at = "confirming"]
    /\ updatePhase("confirming") /\ setStage(p, "confirming")
    /\ UNCHANGED <<contractId, fieldVars, answerVars, paying>>

\* The draft of the contract paid goes, the fields go whatever the contract is now.
PaymentConfirmed(p) ==
    LET here == payments[p].here
        removed == [drafts EXCEPT ![payments[p].contract] = NoSavedDraft]
    IN  /\ payments[p].at = "confirming"
        /\ payments' = [payments EXCEPT ![p] = Idle]
        /\ updatePhase("confirmed") /\ setStage(p, "confirmed")
        /\ tokenId' = IF here THEN NoToken ELSE tokenId
        /\ amount' = IF here THEN NoAmount ELSE amount
        /\ contractBalance' = IF here THEN NoBalance ELSE contractBalance
        /\ balanceTimer' = (balanceTimer /\ ~here)
        /\ paying' = (paying /\ ~here)
        /\ drafts' = Stored(removed, contractId, here /\ draftDecisionMade, NoToken, NoAmount)
        /\ UNCHANGED <<contractId, draftPrompt, draftDecisionMade, balanceAsks, recipients, recipientsAsk>>

PaymentEnds(p, left, next) ==
    /\ payments' = [payments EXCEPT ![p] = left]
    /\ updatePhase(next) /\ setStage(p, "failed")
    /\ paying' = (paying /\ ~payments[p].here)
    /\ UNCHANGED <<contractId, fieldVars, answerVars>>

\* Which of the two the error's wording decides.
Failure == {"failed", "timeout"}

\* The build, the wallet, the send or the report failed, or what asked for the
\* outcome did when the ledger had taken the payment.
PaymentFails(p) == \E next \in Failure :
    /\ Running(p) /\ payments[p].at # "sent"
    /\ PaymentEnds(p, Idle, next)

\* The transaction failed on the ledger.
PaymentRefused(p) ==
    /\ payments[p].at = "sent"
    /\ PaymentEnds(p, Idle, "failed")

\* The send's answer was lost, or the poll failed or ran out: the ledger may
\* still take the payment.
PaymentIsLost(p) == \E next \in Failure :
    /\ payments[p].at \in {"signing", "sent"}
    /\ PaymentEnds(p, [payments[p] EXCEPT !.at = "late"], next)

\* The badge, once the phase is an end.
DismissBadge ==
    /\ phase \in {"confirmed", "failed", "timeout"}
    /\ phase' = "none"
    /\ UNCHANGED <<contractId, fieldVars, answerVars, stage, paying, payments>>

\* The banner, by its Retry or its Dismiss button.
DismissBanner ==
    /\ stage \in {"failed", "confirmed"}
    /\ stage' = "idle"
    /\ UNCHANGED <<contractId, fieldVars, answerVars, phase, paying, payments>>

-----------------------------------------------------------------------------
FieldsNext ==
    \/ \E token \in Token \cup {NoToken} : TypeToken(token)
    \/ \E value \in Amount \cup {NoAmount} : TypeAmount(value)
    \/ restoreDraft \/ discardPayDraft \/ clearForm
    \/ BalanceTimerFires \/ \E token \in Token : BalanceAnswers(token)
    \/ PayRemount

ContractNext == \E c \in Contract : RecipientsAnswer(c) \/ SwitchContract(c)

PaymentNext ==
    \/ \E p \in Payment :
          \/ submitPayment(p) \/ PaymentBuilt(p) \/ PaymentSent(p) \/ PaymentTaken(p)
          \/ PollSucceeds(p) \/ PaymentConfirmed(p)
          \/ PaymentFails(p) \/ PaymentRefused(p) \/ PaymentIsLost(p)
    \/ DismissBadge \/ DismissBanner

-----------------------------------------------------------------------------
\* Whatever page changes, late answers and dismissals come between: an
\* application that says a payment is in flight has one that runs, and a form
\* that says it is paying has exactly one of its own.
InFlightIsRunning ==
    /\ useIsTransactionInFlight => \E p \in Payment : Running(p)
    /\ Cardinality({p \in Payment : Running(p) /\ payments[p].here}) = (IF paying THEN 1 ELSE 0)
    /\ isActive <=> paying

\* Once no request for them is open, the recipients are those of the contract,
\* and a split that is whole is previewed as the payout of each one's share.
PreviewIsOfThisContract ==
    /\ contractId \in recipientsAsk \/ recipients \in {<<>>, Shares[contractId]}
    /\ totalBasisPoints = 10000 =>
          \A i \in DOMAIN recipientBreakdown : recipientBreakdown[i] = amount * recipients[i]
=============================================================================
